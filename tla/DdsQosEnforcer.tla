---------------------------- MODULE DdsQosEnforcer --------------------------
(***************************************************************************)
(* The deadline supervision of DdsQosPolicy.cpp: RegisterProfile() fills a *)
(* row of two parallel tables and then moves the count, ValidateSample()   *)
(* on the receiving thread stamps a row, CheckDeadlines() walks the rows   *)
(* with one reading of the clock and stops at the first late one.          *)
(*                                                                         *)
(* Time is relative: age is now - lastSampleMs of a row, check.lag is      *)
(* now - nowMs of the check in progress.  What no code reads but a getter   *)
(* (the other fields of a profile, violationCount) is left out.            *)
(***************************************************************************)
EXTENDS Integers, Sequences, SequencesExt, FiniteSetsExt

CONSTANTS
  Topic,              \* topicIds
  DeadlinesOffered,   \* the deadlineMs of profiles, in ticks
  kDeadlineInfiniteMs,
  MaxProfiles,        \* kMaxQosProfiles
  Period,             \* ticks between the beginnings of two checks
  MaxLag              \* ticks a check can last

ASSUME QosAssumption ==
  /\ DeadlinesOffered \subseteq Nat \cup {kDeadlineInfiniteMs}
  /\ IsFiniteSet(DeadlinesOffered)   \* they have 32 bits
  /\ kDeadlineInfiniteMs \notin Nat
  /\ {MaxProfiles, Period} \subseteq Nat \ {0} /\ MaxLag \in Nat

VARIABLES
  profiles,      \* profiles_[]: topicId and deadlineMs of the rows in use
  deadlines,     \* deadlines_[]: topicId and age of the rows in use
  profileCount,  \* profileCount_
  check,         \* CheckDeadlines(): pc, idx, lag
  verdict,       \* what the last check returned: a topicId, "ok" or "none"
  wait           \* ticks since the last check began

vars == <<profiles, deadlines, profileCount, check, verdict, wait>>

Finite == DeadlinesOffered \ {kDeadlineInfiniteMs}

\* Ages above this are too old even when a whole check's lag is taken off.
MaxAge == Max(Finite \cup {0}) + Period + MaxLag + 1

Idle == [pc |-> "idle"]

\* The state after Init().
Init == /\ profiles = <<>> /\ deadlines = <<>>
        /\ profileCount = 0
        /\ check = Idle /\ verdict = "none"
        /\ wait = 0

\* CLOCK_MONOTONIC.  The check keeps its period and its time budget; a row is
\* filled and counted within a tick.
Tick == /\ wait < Period
        /\ profileCount = Len(profiles)
        /\ check.pc # "idle" => check.lag < MaxLag
        /\ wait' = wait + 1
        /\ check' = IF check.pc = "idle" THEN check ELSE [check EXCEPT !.lag = @ + 1]
        /\ deadlines' = [i \in DOMAIN deadlines |->
                           [deadlines[i] EXCEPT !.age = Min({@ + 1, MaxAge})]]
        /\ UNCHANGED <<profiles, profileCount, verdict>>

\* Slip: the last row is never compared.
FoundShort(t) == {i \in 1 .. profileCount - 1 : profiles[i].topicId = t}
\* FindProfileIndex(): the rows that count.
Found(t) == {i \in 1 .. profileCount : profiles[i].topicId = t}

\* RegisterProfile() up to the fence: a free row is filled.  A full table and a
\* topic that is registered are refused.
RegisterFill(t, d) ==
  /\ Len(profiles) = profileCount
  /\ profileCount < MaxProfiles
  /\ Found(t) = {}
  /\ profiles' = Append(profiles, [topicId |-> t, deadlineMs |-> d])
  /\ deadlines' = Append(deadlines, [topicId |-> t, age |-> 0])
  /\ UNCHANGED <<profileCount, check, verdict, wait>>

\* ++profileCount_
RegisterCount == /\ profileCount < Len(profiles)
                 /\ profileCount' = profileCount + 1
                 /\ UNCHANGED <<profiles, deadlines, check, verdict, wait>>

\* ValidateSample() of a sample of a registered topic and of legal length; any
\* other changes nothing.  FindDeadlineIndex() looks at all active rows, also
\* at the one whose profile does not count yet.
ValidateSample(t) ==
  /\ Found(t) # {}
  /\ deadlines' = [deadlines EXCEPT
       ![Min({i \in DOMAIN deadlines : deadlines[i].topicId = t})].age = 0]
  /\ UNCHANGED <<profiles, profileCount, check, verdict, wait>>

CheckDeadlines == /\ check.pc = "idle" /\ wait = Period
                  /\ check' = [pc |-> "rows", idx |-> 1, lag |-> 0]
                  /\ wait' = 0
                  /\ UNCHANGED <<profiles, deadlines, profileCount, verdict>>

\* Slip: the age is taken as unsigned, so a sample newer than nowMs is too old.
LateUnguarded(i) == LET age == deadlines[i].age - check.lag
                    IN  age < 0 \/ age > profiles[i].deadlineMs
\* nowMs >= lastMs and nowMs - lastMs > deadlineMs
Late(i) == deadlines[i].age - check.lag > profiles[i].deadlineMs

\* Slip: the walk goes on after a late row, and ends with Ok.
CheckRowOnward ==
  LET i == check.idx IN
  /\ check.pc = "rows" /\ i <= profileCount
  /\ check' = [check EXCEPT !.idx = @ + 1]
  /\ verdict' = IF profiles[i].deadlineMs # kDeadlineInfiniteMs /\ Late(i)
                THEN profiles[i].topicId ELSE verdict
  /\ UNCHANGED <<profiles, deadlines, profileCount, wait>>
\* One row: no deadline, in time, or late and the end of the check (kTimeout).
CheckRow ==
  LET i == check.idx IN
  /\ check.pc = "rows" /\ i <= profileCount
  /\ IF profiles[i].deadlineMs # kDeadlineInfiniteMs /\ Late(i)
     THEN check' = Idle /\ verdict' = profiles[i].topicId
     ELSE check' = [check EXCEPT !.idx = @ + 1] /\ UNCHANGED verdict
  /\ UNCHANGED <<profiles, deadlines, profileCount, wait>>

\* No row is left: Ok.
CheckOk == /\ check.pc = "rows" /\ check.idx > profileCount
           /\ check' = Idle /\ verdict' = "ok"
           /\ UNCHANGED <<profiles, deadlines, profileCount, wait>>

Next == \/ Tick
        \/ \E t \in Topic, d \in DeadlinesOffered : RegisterFill(t, d)
        \/ RegisterCount
        \/ \E t \in Topic : ValidateSample(t)
        \/ CheckDeadlines \/ CheckRow \/ CheckOk

Spec == Init /\ [][Next]_vars

-----------------------------------------------------------------------------
(* Properties.                                                             *)

\* Rows are paired: profile and deadline of a row speak of the same topic, and
\* a topic has one row, although the two tables are searched separately.
QosTypeOK ==
  /\ profiles \in SeqOf([topicId : Topic, deadlineMs : DeadlinesOffered], MaxProfiles)
  /\ deadlines \in SeqOf([topicId : Topic, age : 0 .. MaxAge], MaxProfiles)
  /\ profileCount \in {Len(profiles), Len(profiles) - 1} /\ profileCount >= 0
  /\ check = Idle \/ check \in [pc : {"rows"}, idx : 1 .. MaxProfiles + 1,
                                lag : 0 .. MaxLag]
  /\ verdict \in Topic \cup {"ok", "none"} /\ wait \in 0 .. Period
  /\ Len(profiles) = Len(deadlines)
  /\ \A i, j \in DOMAIN profiles :
       profiles[i].topicId = deadlines[j].topicId <=> i = j

Overdue(i, grace) ==
  /\ profiles[i].deadlineMs # kDeadlineInfiniteMs
  /\ deadlines[i].age > profiles[i].deadlineMs + grace

\* A topic that stays late is named by the latest check, at the latest one
\* period and one check after its deadline, or hidden by a topic registered
\* before it.
MissReported ==
  \A i \in 1 .. profileCount :
    Overdue(i, Period + MaxLag) => \E j \in 1 .. i : verdict = profiles[j].topicId

\* A check tells the truth about the moment it read the clock, although samples
\* keep coming in: it names the first topic that was late then and has had no
\* sample since, and returns Ok when there is none.  A topic whose sample comes
\* before its row is loaded is not reported, however late the sample.
VerdictExact ==
  [][check.pc = "rows" /\ check'.pc = "idle" =>
       LET Missed == {i \in 1 .. profileCount : Overdue(i, check.lag)}
       IN  IF Missed = {} THEN verdict' = "ok"
           ELSE verdict' = profiles[Min(Missed)].topicId]_vars
=============================================================================
