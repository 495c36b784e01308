----------------------------- MODULE HseAdapter -----------------------------
(***************************************************************************)
(* HseAdapter.cpp: one thread that asks the hardware security engine (HSE) *)
(* through its mailbox and polls for the answer a bounded number of times. *)
(*                                                                         *)
(* The HSE is external.  From the use the code makes of the registers: RR  *)
(* reads kBusy from the moment a request is written until an answer comes; *)
(* requests are answered one by one, in their order, or never.  RR does not *)
(* say which request it answers.  What the answer is, of those the HSE has  *)
(* for the service, is the HSE's affair: the registers carry a service, a   *)
(* key and an input, and neither a MAC to compare (rxMacBuf_ is filled and  *)
(* its address stays in the descriptor) nor a place for an output.          *)
(***************************************************************************)
EXTENDS Naturals, Sequences, SequencesExt

CONSTANTS PollLimit,    \* kPollIterations
          MaxPending    \* bound: requests the HSE holds at once

ASSUME HseAssumption == {PollLimit, MaxPending} \subseteq Nat \ {0}

VARIABLES
  initialised,   \* initialised_
  call,          \* the call in progress: pc, op, polls; history: behind, verdict
  result,        \* what the last call returned: op, code; history: behind, verdict
  hseReady,      \* the ready bit of SR
  rr,            \* RR: kBusy or a status
  pending        \* the services asked of the HSE and not answered

hseVars == <<initialised, call, result, hseReady, rr, pending>>

HseServiceId == {"kMacGenerate", "kMacVerify", "kCertVerify", "kRngGenerate"}

Status == {"kOk", "kMacMismatch", "kCertInvalid", "kGeneralError"}
Code == {"Ok", "kChecksumMismatch", "kUnauthorized", "kE2eViolation", "kTimeout"}

Resting == [pc |-> "idle"]
NoResult == [code |-> "none"]

HseInit == /\ initialised = FALSE /\ hseReady = FALSE
           /\ call = Resting /\ result = NoResult
           /\ rr = "kBusy" /\ pending = <<>>

\* Slip: MAC and certificate are good unless the HSE says they are not.
TranslateLenient(op, status) ==
  CASE status = "kMacMismatch" -> "kChecksumMismatch"
    [] status = "kCertInvalid" -> "kUnauthorized"
    [] op \in {"kMacVerify", "kCertVerify"} \/ status = "kOk" -> "Ok"
    [] OTHER -> "kE2eViolation"
\* What the four operations return for a status.
Translate(op, status) ==
  CASE status = "kOk" -> "Ok"
    [] op = "kRngGenerate" -> "kTimeout"
    [] op = "kMacVerify" /\ status = "kMacMismatch" -> "kChecksumMismatch"
    [] op = "kCertVerify" /\ status = "kCertInvalid" -> "kUnauthorized"
    [] OTHER -> "kE2eViolation"

-----------------------------------------------------------------------------
(* Init(): the flag is set first and taken back when the HSE is not ready.  *)

InitBegin == /\ call.pc = "idle" /\ ~initialised
             /\ initialised' = TRUE
             /\ call' = [pc |-> "init", polls |-> 0]
             /\ UNCHANGED <<result, hseReady, rr, pending>>

\* Slip: the flag is not taken back.
InitPollKeepsFlag ==
  /\ call.pc = "init"
  /\ call' = IF hseReady \/ call.polls + 1 = PollLimit THEN Resting
             ELSE [call EXCEPT !.polls = @ + 1]
  /\ UNCHANGED <<initialised, result, hseReady, rr, pending>>
\* One reading of SR; the last one that finds no ready bit ends in kTimeout.
InitPoll ==
  /\ call.pc = "init"
  /\ call' = IF hseReady \/ call.polls + 1 = PollLimit THEN Resting
             ELSE [call EXCEPT !.polls = @ + 1]
  /\ initialised' = (hseReady \/ call.polls + 1 < PollLimit)
  /\ UNCHANGED <<result, hseReady, rr, pending>>

-----------------------------------------------------------------------------
(* The four operations.  Calls before Init() or with illegal arguments return *)
(* an error and do nothing.                                                 *)

\* SubmitAndPoll(): the four TR registers are written.  Two notes of what the
\* adapter does not know: behind, whether the HSE still holds a request that an
\* earlier call has given up, and verdict, what the HSE answers to this one.
Submit(op) ==
  /\ call.pc = "idle" /\ initialised
  /\ Len(pending) < MaxPending
  /\ call' = [pc |-> "poll", op |-> op, polls |-> 0,
              behind |-> pending # <<>>, verdict |-> "none"]
  /\ pending' = Append(pending, op)
  /\ rr' = "kBusy" /\ result' = NoResult
  /\ UNCHANGED <<initialised, hseReady>>

GenerateMac == Submit("kMacGenerate")
VerifyMac == Submit("kMacVerify")
VerifyCertificate == Submit("kCertVerify")
GenerateRandom == Submit("kRngGenerate")

Return(status) == /\ call' = Resting
                  /\ result' = [op |-> call.op, code |-> Translate(call.op, status),
                                behind |-> call.behind, verdict |-> call.verdict]

\* Slip: the poll has no limit.
PollForever ==
  /\ call.pc = "poll"
  /\ IF rr # "kBusy" THEN Return(rr) ELSE UNCHANGED <<call, result>>
  /\ UNCHANGED <<initialised, hseReady, rr, pending>>
\* One reading of RR; the last one that finds kBusy ends in kTimeout.
Poll ==
  /\ call.pc = "poll"
  /\ \/ rr # "kBusy" /\ Return(rr)
     \/ rr = "kBusy" /\ call.polls + 1 = PollLimit /\ Return("kTimeout")
     \/ /\ rr = "kBusy" /\ call.polls + 1 < PollLimit
        /\ call' = [call EXCEPT !.polls = @ + 1] /\ UNCHANGED result
  /\ UNCHANGED <<initialised, hseReady, rr, pending>>

-----------------------------------------------------------------------------
(* The HSE.                                                                *)

HseBoot == /\ ~hseReady /\ hseReady' = TRUE
           /\ UNCHANGED <<initialised, call, result, rr, pending>>

\* The answers the HSE has for a service.
Answers(op) == {"kOk", "kGeneralError"}
                 \cup (IF op = "kMacVerify" THEN {"kMacMismatch"} ELSE {})
                 \cup (IF op = "kCertVerify" THEN {"kCertInvalid"} ELSE {})

\* The oldest request is answered; the last one is that of the call in progress.
HseAnswer ==
  /\ pending # <<>>
  /\ \E status \in Answers(Head(pending)) :
       /\ rr' = status
       /\ call' = IF call.pc = "poll" /\ Len(pending) = 1
                  THEN [call EXCEPT !.verdict = status] ELSE call
  /\ pending' = Tail(pending)
  /\ UNCHANGED <<initialised, result, hseReady>>

AdapterStep == InitPoll \/ Poll

\* The values of the variables, and the flag: between calls it says that the HSE
\* was seen ready, although Init() sets it before it looks.
HseTypeOK ==
  /\ initialised \in BOOLEAN /\ hseReady \in BOOLEAN
  /\ \/ call = Resting
     \/ call \in [pc : {"init"}, polls : 0 .. PollLimit - 1]
     \/ call \in [pc : {"poll"}, op : HseServiceId, polls : 0 .. PollLimit - 1,
                  behind : BOOLEAN, verdict : Status \cup {"none"}]
  /\ result = NoResult
     \/ result \in [op : HseServiceId, code : Code,
                    behind : BOOLEAN, verdict : Status \cup {"none"}]
  /\ rr \in Status \cup {"kBusy"}
  /\ pending \in BoundedSeq(HseServiceId, MaxPending)
  /\ initialised /\ call.pc # "init" => hseReady

\* An operation returns Ok only if the HSE answered kOk to its own request: no
\* time-out, no error of this or another service and no answer left in RR by an
\* earlier call passes for Ok.  RR does not name its request, so a call made while
\* the HSE still holds a request that was given up may get that one's answer, and
\* then nothing is promised; every other call is answered for itself, also after
\* any number of time-outs once the HSE has caught up.
OkMeansAnswered ==
  result # NoResult /\ result.code = "Ok" => result.verdict = "kOk" \/ result.behind

\* A call returns whether or not the HSE answers.
CallReturns == (call.pc # "idle") ~> (call.pc = "idle")
=============================================================================
