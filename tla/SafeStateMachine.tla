-------------------------- MODULE SafeStateMachine --------------------------
(***************************************************************************)
(* The state machine of the safety arbitrator (SafetyArbitrator.cpp): what *)
(* Arbitrate() does once the fault mask is known, ExecuteTransition() step *)
(* by step with the command to the M7, the transition log and the          *)
(* listeners, and DrainTransitionLog() run by the diagnostic task.         *)
(*                                                                         *)
(* A cycle's input is a fault mask, any member of FaultPattern.  The       *)
(* bridge to the M7 is the FIFO channel of FifoChannel.tla, which          *)
(* IpcBridge.tla implements.  A command carries transitionMs = 0 on the    *)
(* wire (it is filled in after the send); the field is left out.           *)
(***************************************************************************)
EXTENDS DegradationMatrix, Integers, Sequences

CONSTANTS
  FaultPattern,     \* the fault masks that can occur
  LogSlots,         \* kMaxTransitionLog
  Capacity,         \* commands that fit in the ring to the M7
  MaxListeners,     \* kMaxArbitratorListeners
  BufferSizes,      \* the sizes of the buffers that drains are given
  MaxTransitions    \* bound on the number of transitions explored

ASSUME PatternAssumption == FaultPattern \subseteq SUBSET AllDomains
ASSUME SizeAssumption == /\ LogSlots \in Nat \ {0} /\ Capacity \in Nat
                         /\ MaxListeners \in Nat /\ MaxTransitions \in Nat
                         /\ BufferSizes \subseteq Nat \ {0}

VARIABLES
  currentState, sequenceNum, transitionCount, lastCommand,
  log, logHead,               \* transitionLog_, logHead_
  heard,                      \* per listener: the last command it was given
  pc, from, cmd, sent,        \* the safety loop inside ExecuteTransition()
  rc,                         \* what Arbitrate() returned
  queue, m7Cmd,               \* the ring, and the last command the M7 took
  dpc, dsize, dhead, dcount, dbuf,  \* the diagnostic task in DrainTransitionLog()
  dclean                      \* no transition overlapped the current drain

machineVars == <<currentState, sequenceNum, transitionCount, lastCommand, log, logHead,
                 heard>>
loopVars    == <<pc, from, cmd, sent, rc>>
m7Vars      == <<queue, m7Cmd>>
drainVars   == <<dpc, dsize, dhead, dcount, dbuf>>
vars        == <<machineVars, loopVars, m7Vars, drainVars, dclean>>

Slot == 0 .. LogSlots - 1

\* A SafeStateCommand; sequence number 0 means that none was issued.
Command(faults, state, seq) ==
  [state |-> state, faultBitmask |-> faults, maxSpeedKph |-> MaxSpeedKph(state),
   maxDecel |-> MaxDecelPercent(state), sequenceNum |-> seq]
InitialCommand == Command({}, kFullOperation, 0)

\* A default SafeStateTransition names kEmergencyStop as its target.
Record(a, b, d, seq) ==
  [fromState |-> a, toState |-> b, triggerDomain |-> d, sequenceNum |-> seq]
DefaultRecord == Record(kFullOperation, kEmergencyStop, kInvalid, 0)

\* The state after Init().
Init == /\ currentState = kFullOperation
        /\ sequenceNum = 0
        /\ transitionCount = 0
        /\ lastCommand = InitialCommand
        /\ log = [i \in Slot |-> DefaultRecord]
        /\ logHead = 0
        /\ heard = <<>>
        /\ pc = "idle"
        /\ from = kFullOperation
        /\ cmd = InitialCommand
        /\ sent = "ok"
        /\ rc = "ok"
        /\ queue = <<>>
        /\ m7Cmd = InitialCommand
        /\ dpc = "idle"
        /\ dsize = 0
        /\ dhead = 0
        /\ dcount = 0
        /\ dbuf = <<>>
        /\ dclean = TRUE

\* RegisterListener(); a new listener has missed nothing it was owed.
RegisterListener == /\ pc = "idle"
                    /\ Len(heard) < MaxListeners
                    /\ heard' = Append(heard, sequenceNum)
                    /\ UNCHANGED <<currentState, sequenceNum, transitionCount, lastCommand,
                                   log, logHead, loopVars, m7Vars, drainVars, dclean>>

-----------------------------------------------------------------------------
(* Arbitrate(), from the fault mask on.                                     *)

\* The mandatory-domain rule adds nothing here: it yields a state that LiDAR
\* and Radar yield together.
Required(faults) == ComputeRequiredState(faults, {}, <<>>)

\* Nothing to do, or latched in an emergency stop.
KeepState(faults) ==
  /\ pc = "idle"
  /\ Required(faults) = currentState \/ currentState = kEmergencyStop
  /\ rc' = "ok"
  /\ UNCHANGED <<machineVars, pc, from, cmd, sent, m7Vars, drainVars, dclean>>

\* ExecuteTransition(required): read the state, number and build the command.
BeginTransition(faults) ==
  /\ pc = "idle"
  /\ Required(faults) # currentState
  /\ currentState # kEmergencyStop
  /\ sequenceNum < MaxTransitions
  /\ from' = currentState
  /\ sequenceNum' = sequenceNum + 1
  /\ cmd' = Command(faults, Required(faults), sequenceNum + 1)
  /\ pc' = "send"
  /\ dclean' = FALSE
  /\ UNCHANGED <<currentState, transitionCount, lastCommand, log, logHead, heard, sent, rc,
                 m7Vars, drainVars>>

\* Slip: the result of the send is taken for granted.
SendUnchecked ==
  /\ pc = "send"
  /\ queue' = IF Len(queue) < Capacity THEN Append(queue, cmd) ELSE queue
  /\ sent' = "ok"
  /\ pc' = "commit"
  /\ UNCHANGED <<machineVars, from, cmd, rc, m7Cmd, drainVars, dclean>>
\* SendCommandToM7(): the bridge takes the command or reports a full ring.
SendCommandToM7 ==
  /\ pc = "send"
  /\ IF Len(queue) < Capacity
     THEN queue' = Append(queue, cmd) /\ sent' = "ok"
     ELSE sent' = "kIpcBufferFull" /\ UNCHANGED queue
  /\ pc' = "commit"
  /\ UNCHANGED <<machineVars, from, cmd, rc, m7Cmd, drainVars, dclean>>

\* currentState_.store(target), whatever became of the command.
Commit == /\ pc = "commit"
          /\ currentState' = cmd.state
          /\ pc' = "remember"
          /\ UNCHANGED <<sequenceNum, transitionCount, lastCommand, log, logHead, heard,
                         from, cmd, sent, rc, m7Vars, drainVars, dclean>>

\* lastCommand_ = cmd
Remember == /\ pc = "remember"
            /\ lastCommand' = cmd
            /\ pc' = "count"
            /\ UNCHANGED <<currentState, sequenceNum, transitionCount, log, logHead, heard,
                           from, cmd, sent, rc, m7Vars, drainVars, dclean>>

CountTransition ==
  /\ pc = "count"
  /\ transitionCount' = transitionCount + 1
  /\ pc' = "log"
  /\ UNCHANGED <<currentState, sequenceNum, lastCommand, log, logHead, heard, from, cmd,
                 sent, rc, m7Vars, drainVars, dclean>>

\* LogTransition(): fill the entry at the head, which the log already counts,
\* field by field and with nothing that keeps a drain from reading it ...
Fill(here, entry, next) ==
  /\ pc = here
  /\ log' = [log EXCEPT ![logHead] = entry]
  /\ pc' = next
  /\ UNCHANGED <<currentState, sequenceNum, transitionCount, lastCommand, logHead, heard,
                 from, cmd, sent, rc, m7Vars, drainVars, dclean>>
LogTransition ==
  LET entry == log[logHead] IN
  \/ Fill("log", [entry EXCEPT !.fromState = from], "log to")
  \/ Fill("log to", [entry EXCEPT !.toState = cmd.state], "log trigger")
  \/ Fill("log trigger", [entry EXCEPT !.triggerDomain = Trigger(cmd.faultBitmask)],
          "log number")
  \/ Fill("log number", [entry EXCEPT !.sequenceNum = transitionCount], "advance")

\* Slip: the head stops at the last slot.
LogAdvanceStuck ==
  /\ pc = "advance"
  /\ logHead' = IF logHead + 1 < LogSlots THEN logHead + 1 ELSE logHead
  /\ pc' = "notify"
  /\ UNCHANGED <<currentState, sequenceNum, transitionCount, lastCommand, log, heard, from,
                 cmd, sent, rc, m7Vars, drainVars, dclean>>
\* ... then advance the head.
LogAdvance ==
  /\ pc = "advance"
  /\ logHead' = (logHead + 1) % LogSlots
  /\ pc' = "notify"
  /\ UNCHANGED <<currentState, sequenceNum, transitionCount, lastCommand, log, heard, from,
                 cmd, sent, rc, m7Vars, drainVars, dclean>>

\* Call the listeners, then report the worst of what happened.  Whether the
\* transition took longer than kSafeStateTransitionMs is up to the clock.
NotifyListeners(late) ==
  /\ pc = "notify"
  /\ heard' = [i \in DOMAIN heard |-> cmd.sequenceNum]
  /\ rc' = IF late THEN "kTimeout" ELSE IF sent # "ok" THEN "kE2eViolation" ELSE "ok"
  /\ pc' = "idle"
  /\ UNCHANGED <<currentState, sequenceNum, transitionCount, lastCommand, log, logHead,
                 from, cmd, sent, m7Vars, drainVars, dclean>>

Arbitrate == \/ \E f \in FaultPattern : KeepState(f) \/ BeginTransition(f)
             \/ SendCommandToM7 \/ Commit \/ Remember \/ CountTransition
             \/ LogTransition \/ LogAdvance
             \/ \E late \in BOOLEAN : NotifyListeners(late)

\* The M7 takes the oldest command.
M7Receive == /\ queue # <<>>
             /\ m7Cmd' = Head(queue)
             /\ queue' = Tail(queue)
             /\ UNCHANGED <<machineVars, loopVars, drainVars, dclean>>

-----------------------------------------------------------------------------
(* DrainTransitionLog(); one that is given no buffer returns at once.       *)

\* logHead_.load(), for a buffer with room for size records
DrainBegin(size) == /\ dpc = "idle"
                    /\ dsize' = size
                    /\ dhead' = logHead
                    /\ dbuf' = <<>>
                    /\ dclean' = (pc = "idle")
                    /\ dpc' = "count"
                    /\ UNCHANGED <<machineVars, loopVars, m7Vars, dcount>>

\* toCopy, cut down to the buffer
ToCopy(count) == IF count < dsize THEN count ELSE dsize

\* transitionCount_.load(), to see whether the log is full ...
DrainCount == /\ dpc = "count"
              /\ IF transitionCount > LogSlots
                 THEN dcount' = ToCopy(LogSlots) /\ dpc' = "copy"
                 ELSE dpc' = "recount" /\ UNCHANGED dcount
              /\ UNCHANGED <<machineVars, loopVars, m7Vars, dsize, dhead, dbuf, dclean>>

\* ... and once more for the count when it was not: by now it may be.
DrainRecount == /\ dpc = "recount"
                /\ dcount' = ToCopy(transitionCount)
                /\ dpc' = "copy"
                /\ UNCHANGED <<machineVars, loopVars, m7Vars, dsize, dhead, dbuf, dclean>>

\* Slip: the copy starts at the head, the oldest entry.
DrainCopyFromHead ==
  /\ dpc = "copy"
  /\ Len(dbuf) < dcount
  /\ dbuf' = Append(dbuf, log[(dhead + LogSlots - Len(dbuf)) % LogSlots])
  /\ UNCHANGED <<machineVars, loopVars, m7Vars, dpc, dsize, dhead, dcount, dclean>>
\* buffer[i] = transitionLog_[(head + kMaxTransitionLog - 1 - i) % kMaxTransitionLog]
DrainCopy == /\ dpc = "copy"
             /\ Len(dbuf) < dcount
             /\ dbuf' = Append(dbuf, log[(dhead + LogSlots - 1 - Len(dbuf)) % LogSlots])
             /\ UNCHANGED <<machineVars, loopVars, m7Vars, dpc, dsize, dhead, dcount, dclean>>

DrainReturn == /\ dpc = "copy"
               /\ Len(dbuf) = dcount
               /\ dpc' = "returned"
               /\ UNCHANGED <<machineVars, loopVars, m7Vars, dsize, dhead, dcount, dbuf, dclean>>

\* The task has used the records and goes back to sleep.
DrainSleep == /\ dpc = "returned"
              /\ dpc' = "idle"
              /\ dsize' = 0 /\ dhead' = 0 /\ dcount' = 0 /\ dbuf' = <<>> /\ dclean' = TRUE
              /\ UNCHANGED <<machineVars, loopVars, m7Vars>>

Drain == \/ \E size \in BufferSizes : DrainBegin(size)
         \/ DrainCount \/ DrainRecount \/ DrainCopy \/ DrainReturn \/ DrainSleep

Next == RegisterListener \/ Arbitrate \/ M7Receive \/ Drain
Spec == Init /\ [][Next]_vars

-----------------------------------------------------------------------------
(* Properties.                                                             *)

\* The log of the last transitions, newest first, as long as they are kept.
Kept == IF transitionCount > LogSlots THEN LogSlots ELSE transitionCount
Newest(i) == log[(logHead + LogSlots - i) % LogSlots]

\* Between two transitions the records of a transition agree: the state, the
\* last command, the three counters and the listeners speak of the same
\* transition, and the log holds the last ones, numbered without a gap, each
\* starting where the one before it ended.
BookkeepingAgrees ==
  pc = "idle" =>
    /\ lastCommand.state = currentState
    /\ sequenceNum = transitionCount /\ lastCommand.sequenceNum = sequenceNum
    /\ \A i \in DOMAIN heard : heard[i] = sequenceNum
    /\ Kept > 0 => Newest(1).toState = currentState
    /\ \A i \in 1 .. Kept : Newest(i).sequenceNum = transitionCount - i + 1
    /\ \A i \in 1 .. Kept - 1 : Newest(i).fromState = Newest(i + 1).toState

\* The M7 obeys the command the arbitrator believes it obeys, once it has
\* emptied the ring, unless the bridge refused that very command.  Arbitrate()'s
\* own result does not tell: it returns kTimeout for a late transition whether
\* or not its command was sent, and success for every cycle that keeps the state.
M7InStep ==
  pc = "idle" /\ queue = <<>> /\ sent = "ok" => m7Cmd = lastCommand

\* A drain that no transition overlaps returns the kept records, newest first,
\* as many as the buffer takes.
QuietDrainExact ==
  dpc = "returned" /\ dclean => /\ Len(dbuf) = ToCopy(Kept)
                                /\ \A i \in DOMAIN dbuf : dbuf[i] = Newest(i)

\* docs/architecture.md lists transitionLog_ as a ring with Arbitrate() as its
\* producer and the diagnostic task as its consumer, and the header promises
\* "transition records ... (newest first)": every drain returns records of
\* transitions that took place, newest first.
DrainReturnsTransitions ==
  dpc = "returned" =>
    /\ \A i \in 1 .. Len(dbuf) : dbuf[i].sequenceNum > 0
    /\ \A i \in 1 .. Len(dbuf) - 1 : dbuf[i].sequenceNum > dbuf[i + 1].sequenceNum
=============================================================================
