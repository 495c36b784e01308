---------------------------- MODULE IngressProofs ---------------------------
(***************************************************************************)
(* Proofs about the security gates, for every poll limit, every size of    *)
(* the tables and of the audit ring, and every set of policies and         *)
(* demands: the types, that an Ok is the answer of the HSE to that very    *)
(* call, that the audit trail is exact until the ring overruns, and that   *)
(* nothing passes the gates that they did not both let through.            *)
(***************************************************************************)
EXTENDS Ingress, FiniteSetTheorems, SequenceTheorems, WellFoundedInduction, TLAPS

-----------------------------------------------------------------------------
(* Bounded sequences, least elements, indices of the audit ring.           *)

\* A bounded sequence is a sequence that is not longer than its bound.
LEMMA BoundedIsSeq ==
  ASSUME NEW S, NEW n \in Nat
  PROVE  /\ \A s \in SeqOf(S, n) : s \in Seq(S) /\ Len(s) <= n
         /\ \A s \in Seq(S) : Len(s) <= n => s \in SeqOf(S, n)
  BY DEF SeqOf

\* The empty sequence is within every bound.
LEMMA EmptyBounded ==
  ASSUME NEW S, NEW n \in Nat
  PROVE  <<>> \in SeqOf(S, n)
  <1>1. <<>> \in Seq(S) /\ Len(<<>>) <= n
    OBVIOUS
  <1> QED
    BY <1>1, BoundedIsSeq

\* Append() and Tail() within the bound.
LEMMA BoundedSteps ==
  ASSUME NEW S, NEW n \in Nat, NEW s \in SeqOf(S, n)
  PROVE  /\ \A e \in S : Len(s) < n => Append(s, e) \in SeqOf(S, n)
         /\ s # <<>> => Tail(s) \in SeqOf(S, n) /\ Head(s) \in S
  <1>1. s \in Seq(S) /\ Len(s) <= n /\ Len(s) \in Nat
    BY BoundedIsSeq
  <1>2. \A e \in S : Append(s, e) \in Seq(S) /\ Len(Append(s, e)) = Len(s) + 1
    BY <1>1
  <1>3. s # <<>> => Tail(s) \in Seq(S) /\ Head(s) \in S /\ Len(Tail(s)) = Len(s) - 1
    BY <1>1
  <1>4. \A t \in Seq(S) : Len(t) <= n => t \in SeqOf(S, n)
    BY BoundedIsSeq
  <1>5. ASSUME NEW e \in S, Len(s) < n PROVE Append(s, e) \in SeqOf(S, n)
    <2>1. Append(s, e) \in Seq(S) /\ Len(Append(s, e)) <= n
      BY <1>1, <1>2, <1>5
    <2> QED
      BY <2>1, <1>4
  <1>6. ASSUME s # <<>> PROVE Tail(s) \in SeqOf(S, n) /\ Head(s) \in S
    <2>1. Tail(s) \in Seq(S) /\ Len(Tail(s)) <= n /\ Head(s) \in S
      BY <1>1, <1>3, <1>6
    <2> QED
      BY <2>1, <1>4
  <1> QED
    BY <1>5, <1>6

\* The order of the naturals as a relation that has least elements.
LEMMA LessThan ==
  \E R : IsWellFoundedOn(R, Nat) /\ \A x, y \in Nat : <<x, y>> \in R <=> x < y
  <1> DEFINE R == OpToRel(<, Nat)
  <1>1. IsWellFoundedOn(R, Nat)
    BY NatLessThanWellFounded
  <1>2. ASSUME NEW x \in Nat, NEW y \in Nat PROVE <<x, y>> \in R <=> x < y
    BY DEF OpToRel
  <1> HIDE DEF R
  <1> QED
    BY <1>1, <1>2

\* Min() of a nonempty set of naturals is its least element.
LEMMA MinIsLeast ==
  ASSUME NEW S \in SUBSET Nat, S # {}
  PROVE  Min(S) \in S /\ \A x \in S : Min(S) <= x
  <1>1. PICK R : IsWellFoundedOn(R, Nat) /\ \A x, y \in Nat : <<x, y>> \in R <=> x < y
    BY LessThan
  <1>2. IsWellFoundedOn(R, Nat) /\ S \subseteq Nat
    BY <1>1
  <1>3. \E m \in S : \A y \in S : ~(<<y, m>> \in R)
    BY <1>2, WFMin, Zenon
  <1>4. PICK m \in S : \A y \in S : ~(<<y, m>> \in R)
    BY <1>3
  <1>5. ASSUME NEW y \in S PROVE m <= y
    <2>1. ~(y < m) /\ y \in Nat /\ m \in Nat
      BY <1>1, <1>4
    <2> QED
      BY <2>1
  <1> QED
    BY <1>5 DEF Min

\* A larger set with the same least element.
LEMMA MinSame ==
  ASSUME NEW S \in SUBSET Nat, NEW T \in SUBSET Nat, S # {}, S \subseteq T,
         \A y \in T \ S : \A x \in S : x < y
  PROVE  Min(T) = Min(S)
  <1>1. Min(S) \in S /\ \A x \in S : Min(S) <= x
    BY MinIsLeast
  <1>2. Min(T) \in T /\ \A x \in T : Min(T) <= x
    BY MinIsLeast
  <1>3. Min(T) \in S
    <2>1. Min(T) <= Min(S) /\ Min(S) \in Nat /\ Min(T) \in Nat
      BY <1>1, <1>2
    <2>2. Min(T) \in T \ S => Min(S) < Min(T)
      BY <1>1
    <2>3. ~(Min(S) < Min(T))
      BY <2>1
    <2> QED
      BY <2>2, <2>3, <1>2
  <1>4. Min(S) <= Min(T) /\ Min(T) <= Min(S) /\ Min(S) \in Nat /\ Min(T) \in Nat
    BY <1>1, <1>2, <1>3
  <1> QED
    BY <1>4

\* An index of the audit ring, at most one round ahead of its slot.
Wrap(x) == IF x < AuditSlots THEN x ELSE x - AuditSlots

LEMMA RoundOnce == \A x \in Nat : x < 2 * AuditSlots => x % AuditSlots = Wrap(x)
  BY IamAssumption, SMTT(30) DEF Wrap

-----------------------------------------------------------------------------
(* The adapter: an answer is taken for the call it belongs to.             *)

\* Requests in the HSE and the call in progress: unless it is behind a request
\* that was given up, RR holds the answer to it or nothing yet.
AnswerInv ==
  call.pc = "poll" /\ ~call.behind =>
    \/ rr = "kBusy" /\ Len(pending) = 1
    \/ rr = call.verdict /\ pending = <<>>

HseInv == HseTypeOK /\ AnswerInv /\ OkMeansAnswered

\* Only kOk is translated to Ok, and every translation is a code.
LEMMA TranslateOk ==
  ASSUME NEW op, NEW status
  PROVE  /\ Translate(op, status) \in Code
         /\ Translate(op, status) = "Ok" => status = "kOk"
  BY DEF Translate, Code

\* An answer is a status.
LEMMA AnswerStatus == ASSUME NEW op PROVE Answers(op) \subseteq Status
  BY DEF Answers, Status

\* The adapter starts with nothing asked.
LEMMA HseInitInv == HseInit => HseInv
  <1> SUFFICES ASSUME HseInit PROVE HseInv
    OBVIOUS
  <1>1. <<>> \in SeqOf(HseServiceId, MaxPending)
    BY HseAssumption, EmptyBounded
  <1>2. HseTypeOK
    BY <1>1 DEF HseInit, HseTypeOK, BoundedSeq, Resting
  <1> QED
    BY <1>2 DEF HseInit, HseInv, AnswerInv, OkMeansAnswered, Resting

\* Init() polls SR: afterwards the flag says that the ready bit was seen.
LEMMA HseBootInv ==
  ASSUME HseInv, InitBegin \/ InitPoll \/ HseBoot
  PROVE  HseInv'
  <1>1. HseTypeOK'
    <2>1. UNCHANGED <<result, rr, pending>>
      BY DEF InitBegin, InitPoll, HseBoot
    <2>2. CASE InitBegin
      <3>1. 0 \in 0 .. PollLimit - 1
        BY HseAssumption
      <3> QED
        BY <2>1, <2>2, <3>1 DEF InitBegin, HseInv, HseTypeOK
    <2>3. CASE InitPoll
      <3>1. call \in [pc : {"init"}, polls : 0 .. PollLimit - 1]
        BY <2>3 DEF InitPoll, HseInv, HseTypeOK, Resting
      <3>2. CASE hseReady \/ call.polls + 1 = PollLimit
        BY <2>1, <2>3, <3>1, <3>2 DEF InitPoll, HseInv, HseTypeOK, Resting
      <3>3. CASE ~hseReady /\ call.polls + 1 # PollLimit
        <4>1. call.polls + 1 \in 0 .. PollLimit - 1
          BY <3>1, <3>3, HseAssumption
        <4>2. call' \in [pc : {"init"}, polls : 0 .. PollLimit - 1]
          BY <2>3, <3>1, <3>3, <4>1 DEF InitPoll
        <4> QED
          BY <2>1, <2>3, <3>3, <4>2 DEF InitPoll, HseInv, HseTypeOK
      <3> QED
        BY <3>2, <3>3
    <2>4. CASE HseBoot
      BY <2>1, <2>4 DEF HseBoot, HseInv, HseTypeOK
    <2> QED
      BY <2>2, <2>3, <2>4
  <1>2. AnswerInv'
    <2>1. UNCHANGED <<rr, pending>>
      BY DEF InitBegin, InitPoll, HseBoot
    <2>2. call' = call \/ call'.pc # "poll"
      <3>1. CASE InitPoll
        BY <3>1 DEF InitPoll, HseInv, HseTypeOK, Resting
      <3> QED
        BY <3>1 DEF InitBegin, HseBoot
    <2> QED
      BY <2>1, <2>2 DEF HseInv, AnswerInv
  <1>3. OkMeansAnswered'
    BY DEF InitBegin, InitPoll, HseBoot, HseInv, OkMeansAnswered
  <1> QED
    BY <1>1, <1>2, <1>3 DEF HseInv

\* A request is put behind what the HSE still holds.
LEMMA SubmitInv ==
  ASSUME HseInv, NEW op \in HseServiceId, Submit(op)
  PROVE  HseInv'
  <1>1. pending \in SeqOf(HseServiceId, MaxPending) /\ Len(pending) < MaxPending
        /\ MaxPending \in Nat
    BY HseAssumption DEF HseInv, HseTypeOK, BoundedSeq, Submit
  <1>2. pending' \in SeqOf(HseServiceId, MaxPending)
    <2>1. pending' = Append(pending, op)
      BY DEF Submit
    <2> QED
      BY <1>1, <2>1, BoundedSteps
  <1>3. HseTypeOK'
    <2>1. call' \in [pc : {"poll"}, op : HseServiceId, polls : 0 .. PollLimit - 1,
                     behind : BOOLEAN, verdict : Status \cup {"none"}]
      <3>1. 0 \in 0 .. PollLimit - 1
        BY HseAssumption
      <3> QED
        BY <3>1 DEF Submit
    <2>2. rr' \in Status \cup {"kBusy"} /\ result' = NoResult
      BY DEF Submit
    <2>3. initialised' \in BOOLEAN /\ hseReady' \in BOOLEAN /\ hseReady'
      BY DEF Submit, HseInv, HseTypeOK
    <2> QED
      BY <1>2, <2>1, <2>2, <2>3 DEF HseTypeOK, BoundedSeq
  <1>4. AnswerInv'
    <2>1. pending = <<>> => Len(Append(pending, op)) = 1
      BY <1>1
    <2>2. /\ call'.behind = (pending # <<>>)
          /\ rr' = "kBusy" /\ pending' = Append(pending, op)
      BY DEF Submit
    <2> QED
      BY <2>1, <2>2 DEF AnswerInv
  <1>5. OkMeansAnswered'
    BY DEF Submit, OkMeansAnswered
  <1> QED
    BY <1>3, <1>4, <1>5 DEF HseInv

\* A reading of RR: what it returns is the translation of the answer to this
\* call, or the call is behind another, or it is an error.
LEMMA PollInv == ASSUME HseInv, Poll PROVE HseInv'
  <1>1. call \in [pc : {"poll"}, op : HseServiceId, polls : 0 .. PollLimit - 1,
                  behind : BOOLEAN, verdict : Status \cup {"none"}]
    BY DEF Poll, HseInv, HseTypeOK, Resting
  <1>2. UNCHANGED <<initialised, hseReady, rr, pending>>
    BY DEF Poll
  <1>3. initialised => hseReady
    BY <1>1 DEF HseInv, HseTypeOK
  <1>4. ASSUME NEW status, Return(status),
               status = "kTimeout" \/ (status = rr /\ rr # "kBusy")
        PROVE  HseInv'
    <2> DEFINE code == Translate(call.op, status)
    <2>1. code \in Code /\ (code = "Ok" => status = "kOk")
      BY TranslateOk
    <2>2. /\ call' = Resting
          /\ result' = [op |-> call.op, code |-> code,
                        behind |-> call.behind, verdict |-> call.verdict]
      BY <1>4 DEF Return
    <2> HIDE DEF code
    <2>3. HseTypeOK'
      <3>1. result' \in [op : HseServiceId, code : Code,
                         behind : BOOLEAN, verdict : Status \cup {"none"}]
        BY <1>1, <2>1, <2>2
      <3> QED
        BY <1>2, <1>3, <2>2, <3>1 DEF HseInv, HseTypeOK
    <2>4. AnswerInv'
      BY <2>2 DEF AnswerInv, Resting
    <2>5. OkMeansAnswered'
      <3>1. SUFFICES ASSUME code = "Ok", ~call.behind PROVE call.verdict = "kOk"
        BY <2>2 DEF OkMeansAnswered
      <3>2. rr = "kOk"
        BY <1>4, <2>1, <3>1
      <3> QED
        BY <1>1, <3>1, <3>2 DEF HseInv, AnswerInv
    <2> QED
      BY <2>3, <2>4, <2>5 DEF HseInv
  <1>5. ASSUME call.polls + 1 < PollLimit, call' = [call EXCEPT !.polls = @ + 1],
               UNCHANGED result
        PROVE  HseInv'
    <2>1. call.polls + 1 \in 0 .. PollLimit - 1
      BY <1>1, <1>5, HseAssumption
    <2>2. /\ call' \in [pc : {"poll"}, op : HseServiceId, polls : 0 .. PollLimit - 1,
                        behind : BOOLEAN, verdict : Status \cup {"none"}]
          /\ call'.verdict = call.verdict /\ call'.behind = call.behind
      BY <1>1, <1>5, <2>1
    <2>3. HseTypeOK'
      BY <1>2, <1>3, <1>5, <2>2 DEF HseInv, HseTypeOK
    <2>4. AnswerInv'
      BY <1>1, <1>2, <2>2 DEF HseInv, AnswerInv
    <2>5. OkMeansAnswered'
      BY <1>5 DEF HseInv, OkMeansAnswered
    <2> QED
      BY <2>3, <2>4, <2>5 DEF HseInv
  <1> QED
    BY <1>4, <1>5 DEF Poll

\* The HSE answers its oldest request.
LEMMA AnswerStepInv == ASSUME HseInv, HseAnswer PROVE HseInv'
  <1>1. pending \in SeqOf(HseServiceId, MaxPending) /\ MaxPending \in Nat /\ pending # <<>>
    BY HseAssumption DEF HseInv, HseTypeOK, BoundedSeq, HseAnswer
  <1>2. pending' \in SeqOf(HseServiceId, MaxPending) /\ pending' = Tail(pending)
    BY <1>1, BoundedSteps DEF HseAnswer
  <1>3. PICK status \in Answers(Head(pending)) :
          /\ rr' = status
          /\ call' = IF call.pc = "poll" /\ Len(pending) = 1
                     THEN [call EXCEPT !.verdict = status] ELSE call
    BY DEF HseAnswer
  <1>4. UNCHANGED <<initialised, result, hseReady>> /\ status \in Status
    BY <1>3, AnswerStatus DEF HseAnswer
  <1>5. ASSUME call.pc = "poll"
        PROVE  /\ call' \in [pc : {"poll"}, op : HseServiceId, polls : 0 .. PollLimit - 1,
                            behind : BOOLEAN, verdict : Status \cup {"none"}]
               /\ call'.behind = call.behind
               /\ Len(pending) = 1 => call'.verdict = status
    <2>1. call \in [pc : {"poll"}, op : HseServiceId, polls : 0 .. PollLimit - 1,
                    behind : BOOLEAN, verdict : Status \cup {"none"}]
      BY <1>5 DEF HseInv, HseTypeOK, Resting
    <2> QED
      BY <1>3, <1>4, <1>5, <2>1
  <1>6. call.pc # "poll" => call' = call
    BY <1>3
  <1>7. HseTypeOK'
    <2>1. call'.pc = call.pc
      <3>1. CASE call.pc = "poll"
        BY <1>5, <3>1
      <3> QED
        BY <1>6, <3>1
    <2>2. \/ call' = Resting
          \/ call' \in [pc : {"init"}, polls : 0 .. PollLimit - 1]
          \/ call' \in [pc : {"poll"}, op : HseServiceId, polls : 0 .. PollLimit - 1,
                        behind : BOOLEAN, verdict : Status \cup {"none"}]
      <3>1. CASE call.pc = "poll"
        BY <1>5, <3>1
      <3>2. CASE call.pc # "poll"
        BY <1>6, <3>2 DEF HseInv, HseTypeOK
      <3> QED
        BY <3>1, <3>2
    <2>3. rr' \in Status
      BY <1>3, <1>4
    <2> QED
      BY <1>2, <1>4, <2>1, <2>2, <2>3 DEF HseInv, HseTypeOK, BoundedSeq
  <1>8. AnswerInv'
    <2>1. SUFFICES ASSUME call'.pc = "poll", ~call'.behind
                   PROVE  rr' = call'.verdict /\ pending' = <<>>
      BY DEF AnswerInv
    <2>2. call.pc = "poll" /\ ~call.behind
      BY <1>5, <1>6, <2>1
    <2>3. Len(pending) = 1
      BY <1>1, <2>2 DEF HseInv, AnswerInv
    <2>4. Tail(pending) = <<>>
      <3>1. pending \in Seq(HseServiceId)
        BY <1>1, BoundedIsSeq
      <3>2. Tail(pending) \in Seq(HseServiceId) /\ Len(Tail(pending)) = 0
        BY <1>1, <2>3, <3>1
      <3> QED
        BY <3>2, EmptySeq
    <2> QED
      BY <1>2, <1>3, <1>5, <2>2, <2>3, <2>4
  <1>9. OkMeansAnswered'
    BY <1>4 DEF HseInv, OkMeansAnswered
  <1> QED
    BY <1>7, <1>8, <1>9 DEF HseInv

\* Every step of the pipeline keeps what is known of the adapter.
LEMMA HseStep == ASSUME HseInv, [Next]_vars PROVE HseInv'
  <1>1. CASE UNCHANGED hseVars
    BY <1>1 DEF hseVars, HseInv, HseTypeOK, AnswerInv, OkMeansAnswered
  <1>2. CASE InitBegin \/ Hse \/ AdapterStep
    BY <1>2, HseBootInv, PollInv, AnswerStepInv DEF Hse, AdapterStep
  <1>3. CASE OtherCall
    BY <1>3, SubmitInv
       DEF OtherCall, GenerateMac, GenerateRandom, VerifyCertificate, HseServiceId
  <1>4. ASSUME NEW f \in Frame, Receive(f) PROVE HseInv'
    BY <1>4, SubmitInv DEF Receive, VerifyMac, HseServiceId
  <1> QED
    BY <1>1, <1>2, <1>3, <1>4 DEF Next, NetworkStep, Verified, Authorised, Audited, vars

\* An operation returns Ok only if the HSE answered kOk to its own request, or for
\* a call made while the HSE holds a request that was given up.
THEOREM AnsweredOk == Spec => []OkMeansAnswered
  <1>1. Init => HseInv
    BY HseInitInv DEF Init
  <1>2. HseInv => OkMeansAnswered
    BY DEF HseInv
  <1> QED
    BY <1>1, <1>2, HseStep, PTL DEF Spec

-----------------------------------------------------------------------------
(* The audit trail: until the ring overruns, what waits in it is the        *)
(* decisions that have not been drained.                                    *)

\* One for the entry that is in its slot but not yet behind auditHead.
InHand == IF writing THEN 1 ELSE 0

\* Where the waiting decisions are, and how many can wait: an entry being
\* written is one of them, and the one that is being copied is another.
Trail ==
  /\ writing => Len(undrained) > 0
  /\ ~writing => Len(undrained) < AuditSlots
  /\ drain.pc = "advance" => Len(undrained) > InHand /\ drain.entry = undrained[1]
  /\ \A i \in 1 .. Len(undrained) : auditLog[Wrap(auditTail + i - 1)] = undrained[i]
  /\ auditHead = Wrap(auditTail + Len(undrained) - InHand)

IamInv == /\ IamTypeOK /\ IsFiniteSet(roles)
          /\ overrun => undrained = <<>>
          /\ ~overrun => Trail

\* The types in the form the arithmetic uses.
LEMMA IamFacts ==
  ASSUME IamTypeOK
  PROVE  /\ AuditSlots \in Nat /\ AuditSlots > 1
         /\ auditHead \in 0 .. AuditSlots - 1 /\ auditTail \in 0 .. AuditSlots - 1
         /\ undrained \in Seq(Entry) /\ Len(undrained) \in 0 .. AuditSlots
         /\ MaxPolicies \in Nat /\ MaxRoles \in Nat
  BY IamAssumption, BoundedIsSeq DEF IamTypeOK

\* The step from one slot to the next.
LEMMA NextSlot ==
  ASSUME AuditSlots \in Nat, AuditSlots > 1, NEW t \in 0 .. AuditSlots - 1
  PROVE  AuditNext(t) = Wrap(t + 1) /\ AuditNext(t) \in 0 .. AuditSlots - 1
  <1>1. t + 1 \in Nat /\ t + 1 < 2 * AuditSlots
    OBVIOUS
  <1>2. AuditNext(t) = Wrap(t + 1)
    BY <1>1, RoundOnce DEF AuditNext
  <1>3. Wrap(t + 1) \in 0 .. AuditSlots - 1
    BY <1>1 DEF Wrap
  <1> QED
    BY <1>2, <1>3

\* The trail is what AuditExact says of it.
LEMMA TrailIsExact == ASSUME IamInv PROVE AuditExact
  <1> SUFFICES ASSUME ~overrun
               PROVE  /\ drain.pc = "advance" => drain.entry = Head(undrained)
                      /\ \A i \in DOMAIN undrained :
                           auditLog[(auditTail + i - 1) % AuditSlots] = undrained[i]
                      /\ auditHead = (auditTail + Len(undrained)
                                        - (IF writing THEN 1 ELSE 0)) % AuditSlots
    BY DEF AuditExact
  <1>1. Trail /\ IamTypeOK
    BY DEF IamInv
  <1>2. drain.pc = "advance" => drain.entry = Head(undrained)
    BY <1>1, IamFacts DEF Trail
  <1>3. ASSUME NEW i \in DOMAIN undrained
        PROVE  auditLog[(auditTail + i - 1) % AuditSlots] = undrained[i]
    <2>a. /\ AuditSlots \in Nat /\ auditTail \in 0 .. AuditSlots - 1
          /\ undrained \in Seq(Entry) /\ Len(undrained) \in 0 .. AuditSlots
      BY <1>1, IamFacts
    <2>b. i \in 1 .. Len(undrained)
      BY <2>a
    <2>1. i \in 1 .. Len(undrained) /\ auditTail + i - 1 \in Nat
          /\ auditTail + i - 1 < 2 * AuditSlots
      BY <2>a, <2>b
    <2>2. (auditTail + i - 1) % AuditSlots = Wrap(auditTail + i - 1)
      BY <2>1, RoundOnce
    <2> QED
      BY <1>1, <2>1, <2>2 DEF Trail
  <1>4. auditHead = (auditTail + Len(undrained) - InHand) % AuditSlots
    <2> DEFINE n == auditTail + Len(undrained) - InHand
    <2>a. /\ AuditSlots \in Nat /\ auditTail \in 0 .. AuditSlots - 1
          /\ Len(undrained) \in 0 .. AuditSlots
      BY <1>1, IamFacts
    <2>1. InHand \in 0 .. Len(undrained)
      BY <1>1, <2>a DEF Trail, InHand
    <2>2. n \in Nat /\ n < 2 * AuditSlots
      BY <2>a, <2>1
    <2>3. auditHead = Wrap(n)
      BY <1>1 DEF Trail
    <2> HIDE DEF n
    <2>4. auditHead = n % AuditSlots
      BY <2>2, <2>3, RoundOnce
    <2> QED
      BY <2>4 DEF n
  <1> QED
    BY <1>2, <1>3, <1>4 DEF InHand

\* Before the first decision nothing waits.
LEMMA IamInitInv == IamInit => IamInv
  <1> SUFFICES ASSUME IamInit PROVE IamInv
    OBVIOUS
  <1>1. IsFiniteSet(roles) /\ Cardinality(roles) = 0
    BY FS_EmptySet DEF IamInit
  <1>2. AuditSlots \in Nat /\ AuditSlots > 1 /\ MaxPolicies \in Nat /\ MaxRoles \in Nat
    BY IamAssumption
  <1>3. policies \in SeqOf(Policy, MaxPolicies) /\ undrained \in SeqOf(Entry, AuditSlots)
    <2>2. <<>> \in SeqOf(Policy, MaxPolicies)
      BY <1>2, EmptyBounded
    <2>3. <<>> \in SeqOf(Entry, AuditSlots)
      BY <1>2, EmptyBounded
    <2> QED
      BY <2>2, <2>3 DEF IamInit
  <1>4. IamTypeOK
    <2>1. auditLog \in [0 .. AuditSlots - 1 -> Entry \cup {Blank}]
      BY DEF IamInit
    <2>2. drain \in [pc : {"idle", "advance"}, entry : Entry \cup {Blank}]
      BY DEF IamInit
    <2>3. {auditHead, auditTail} \subseteq 0 .. AuditSlots - 1
      BY <1>2 DEF IamInit
    <2>4. Cardinality(roles) <= MaxRoles
      BY <1>1, <1>2
    <2>5. roles \subseteq Role /\ writing \in BOOLEAN /\ overrun \in BOOLEAN
      BY DEF IamInit
    <2> QED
      BY <1>3, <2>1, <2>2, <2>3, <2>4, <2>5 DEF IamTypeOK
  <1>5. Trail
    BY <1>2 DEF IamInit, Trail, InHand, Wrap
  <1> QED
    BY <1>1, <1>4, <1>5 DEF IamInv, IamInit

\* A decision is one of the two results.
LEMMA DecisionIs == ASSUME NEW q PROVE Decision(q) \in {"kGranted", "kDenied"}
  BY DEF Decision

\* The configuration does not touch the trail.
LEMMA ConfigureInv ==
  ASSUME IamInv, (\E r \in Role : RegisterRole(r)) \/ (\E p \in Policy : AddPolicy(p))
  PROVE  IamInv'
  <1>1. UNCHANGED <<auditLog, auditHead, auditTail, writing, drain, undrained, overrun>>
    BY DEF RegisterRole, AddPolicy
  <1>2. ASSUME NEW r \in Role, RegisterRole(r)
        PROVE  /\ roles' \subseteq Role /\ Cardinality(roles') <= MaxRoles
               /\ IsFiniteSet(roles') /\ policies' = policies
    <2>1. /\ roles' = roles \cup {r} /\ Cardinality(roles) < MaxRoles
          /\ policies' = policies /\ roles \subseteq Role /\ IsFiniteSet(roles)
      BY <1>2 DEF RegisterRole, IamInv, IamTypeOK
    <2>2. /\ IsFiniteSet(roles')
          /\ \/ Cardinality(roles') = Cardinality(roles)
             \/ Cardinality(roles') = Cardinality(roles) + 1
      BY <2>1, FS_AddElement
    <2>3. Cardinality(roles) \in Nat /\ MaxRoles \in Nat
      BY <2>1, FS_CardinalityType, IamAssumption
    <2> QED
      BY <2>1, <2>2, <2>3
  <1>3. ASSUME NEW p \in Policy, AddPolicy(p)
        PROVE  roles' = roles /\ policies' \in SeqOf(Policy, MaxPolicies)
    <2>1. policies \in SeqOf(Policy, MaxPolicies) /\ MaxPolicies \in Nat
          /\ Len(policies) < MaxPolicies /\ policies' = Append(policies, p)
      BY <1>3, IamAssumption DEF AddPolicy, IamInv, IamTypeOK
    <2>2. Append(policies, p) \in SeqOf(Policy, MaxPolicies)
      BY <2>1, BoundedSteps
    <2> QED
      BY <1>3, <2>1, <2>2 DEF AddPolicy
  <1>4. IamTypeOK' /\ IsFiniteSet(roles')
    BY <1>1, <1>2, <1>3 DEF IamInv, IamTypeOK
  <1>5. ~overrun => Trail'
    BY <1>1 DEF IamInv, Trail, InHand, Wrap
  <1> QED
    BY <1>1, <1>4, <1>5 DEF IamInv

\* A decision is written into the slot at auditHead_, which holds none that
\* waits.
LEMMA AuthoriseInv ==
  ASSUME IamInv, NEW q \in Demand, Authorise(q)
  PROVE  IamInv'
  <1> DEFINE entry == [demand |-> q, result |-> Decision(q)]
  <1>1. /\ ~writing /\ writing' = TRUE
        /\ auditLog' = [auditLog EXCEPT ![auditHead] = entry]
        /\ undrained' = IF overrun THEN <<>> ELSE Append(undrained, entry)
        /\ UNCHANGED <<roles, policies, auditHead, auditTail, drain, overrun>>
    BY DEF Authorise
  <1>2. entry \in Entry
    BY DecisionIs DEF Entry
  <1> HIDE DEF entry
  <1>3. IamTypeOK
    BY DEF IamInv
  <1>4. auditLog \in [0 .. AuditSlots - 1 -> Entry \cup {Blank}]
    BY <1>3 DEF IamTypeOK
  <1>5. auditLog' \in [0 .. AuditSlots - 1 -> Entry \cup {Blank}]
    BY <1>1, <1>2, <1>4
  <1>6. undrained' \in SeqOf(Entry, AuditSlots)
    <2>1. undrained \in SeqOf(Entry, AuditSlots) /\ AuditSlots \in Nat
      BY <1>3, IamFacts DEF IamTypeOK
    <2>2. CASE overrun
      BY <1>1, <2>1, <2>2, EmptyBounded
    <2>3. CASE ~overrun
      <3>1. Len(undrained) < AuditSlots
        BY <1>1, <2>3 DEF IamInv, Trail
      <3>2. Append(undrained, entry) \in SeqOf(Entry, AuditSlots)
        BY <1>2, <2>1, <3>1, BoundedSteps
      <3> QED
        BY <1>1, <2>3, <3>2
    <2> QED
      BY <2>2, <2>3
  <1>7. IamTypeOK' /\ IsFiniteSet(roles')
    BY <1>1, <1>3, <1>5, <1>6 DEF IamInv, IamTypeOK
  <1>8. ASSUME ~overrun PROVE Trail'
    <2> DEFINE n == Len(undrained)
    <2>1. Trail /\ undrained' = Append(undrained, entry)
      BY <1>1, <1>8 DEF IamInv
    <2>2. /\ n \in Nat /\ n < AuditSlots /\ undrained \in Seq(Entry)
          /\ auditHead = Wrap(auditTail + n)
          /\ auditTail \in 0 .. AuditSlots - 1 /\ AuditSlots \in Nat
      BY <1>1, <1>3, <2>1, IamFacts DEF Trail, InHand
    <2>3. /\ Len(undrained') = n + 1 /\ undrained'[n + 1] = entry
          /\ \A i \in 1 .. n : undrained'[i] = undrained[i]
      BY <1>2, <2>1, <2>2
    <2>4. InHand' = 1 /\ InHand = 0
      BY <1>1 DEF InHand
    <2>5. drain'.pc = "advance" => Len(undrained') > InHand' /\ drain'.entry = undrained'[1]
      <3>1. drain.pc = "advance" => n > 0 /\ drain.entry = undrained[1]
        BY <2>1, <2>4 DEF Trail
      <3> QED
        BY <1>1, <2>2, <2>3, <2>4, <3>1
    <2>6. ASSUME NEW i \in 1 .. Len(undrained')
          PROVE  auditLog'[Wrap(auditTail + i - 1)] = undrained'[i]
      <3>1. CASE i = n + 1
        <4>1. auditTail + i - 1 = auditTail + n
          BY <2>2, <3>1
        <4>2. auditHead \in 0 .. AuditSlots - 1
          BY <1>3, IamFacts
        <4> QED
          BY <1>1, <1>4, <2>2, <2>3, <3>1, <4>1, <4>2
      <3>2. CASE i # n + 1
        <4>1. i \in 1 .. n
          BY <2>2, <2>3, <3>2
        <4>2. Wrap(auditTail + i - 1) # auditHead /\ Wrap(auditTail + i - 1) \in 0 .. AuditSlots - 1
          BY <2>2, <4>1 DEF Wrap
        <4>3. auditLog[Wrap(auditTail + i - 1)] = undrained[i]
          BY <2>1, <4>1 DEF Trail
        <4> QED
          BY <1>1, <1>4, <2>3, <4>1, <4>2, <4>3
      <3> QED
        BY <3>1, <3>2
    <2>7. auditHead' = Wrap(auditTail' + Len(undrained') - InHand')
      <3>1. auditTail + (n + 1) - 1 = auditTail + n
        BY <2>2
      <3> QED
        BY <1>1, <2>2, <2>3, <2>4, <3>1 DEF Wrap
    <2>8. auditTail' = auditTail /\ writing' /\ Len(undrained') > 0
      BY <1>1, <2>2, <2>3
    <2> QED
      BY <2>5, <2>6, <2>7, <2>8 DEF Trail, Wrap
  <1> QED
    BY <1>1, <1>7, <1>8 DEF IamInv

\* auditHead_ moves behind the entry; when AuditSlots decisions wait the trail
\* is lost.
LEMMA AuditPublishInv == ASSUME IamInv, AuditPublish PROVE IamInv'
  <1>1. /\ writing /\ writing' = FALSE
        /\ auditHead' = AuditNext(auditHead)
        /\ overrun' = (overrun \/ Len(undrained) = AuditSlots)
        /\ undrained' = IF overrun' THEN <<>> ELSE undrained
        /\ UNCHANGED <<roles, policies, auditLog, auditTail, drain>>
    BY DEF AuditPublish
  <1>2. IamTypeOK
    BY DEF IamInv
  <1>3. /\ AuditSlots \in Nat /\ AuditSlots > 1 /\ auditHead \in 0 .. AuditSlots - 1
        /\ auditTail \in 0 .. AuditSlots - 1 /\ Len(undrained) \in 0 .. AuditSlots
    BY <1>2, IamFacts
  <1>4. IamTypeOK' /\ IsFiniteSet(roles')
    <2>1. auditHead' \in 0 .. AuditSlots - 1
      BY <1>1, <1>3, NextSlot
    <2>2. undrained' \in SeqOf(Entry, AuditSlots)
      BY <1>1, <1>2, <1>3, EmptyBounded DEF IamTypeOK
    <2>3. overrun' \in BOOLEAN /\ writing' \in BOOLEAN
      BY <1>1, <1>2 DEF IamTypeOK
    <2> QED
      BY <1>1, <1>2, <2>1, <2>2, <2>3 DEF IamInv, IamTypeOK
  <1>5. ASSUME ~overrun' PROVE Trail'
    <2>8. ~overrun /\ Len(undrained) # AuditSlots
      BY <1>1, <1>5
    <2>1. Trail /\ undrained' = undrained /\ Len(undrained) < AuditSlots
      BY <1>1, <1>3, <1>5, <2>8 DEF IamInv
    <2>2. InHand = 1 /\ InHand' = 0
      BY <1>1 DEF InHand
    <2>3. auditHead' = Wrap(auditTail + Len(undrained))
      <3>1. auditHead = Wrap(auditTail + Len(undrained) - 1) /\ Len(undrained) > 0
        BY <1>1, <2>1, <2>2 DEF Trail
      <3>2. auditHead' = Wrap(auditHead + 1)
        BY <1>1, <1>3, NextSlot
      <3> QED
        BY <1>3, <2>1, <3>1, <3>2 DEF Wrap
    <2>4. auditTail' + Len(undrained') - InHand' = auditTail + Len(undrained)
      BY <1>1, <1>3, <2>1, <2>2
    <2>5. auditHead' = Wrap(auditTail' + Len(undrained') - InHand')
      BY <2>3, <2>4
    <2>6. drain'.pc = "advance" => Len(undrained') > InHand' /\ drain'.entry = undrained'[1]
      BY <1>1, <1>3, <2>1, <2>2 DEF Trail
    <2>7. \A i \in 1 .. Len(undrained') : auditLog'[Wrap(auditTail' + i - 1)] = undrained'[i]
      BY <1>1, <2>1 DEF Trail
    <2> QED
      BY <1>1, <2>1, <2>5, <2>6, <2>7 DEF Trail, Wrap
  <1> QED
    BY <1>1, <1>4, <1>5 DEF IamInv

\* The diagnostic task copies the oldest decision.
LEMMA DrainCopyInv == ASSUME IamInv, DrainCopy PROVE IamInv'
  <1>1. /\ auditTail # auditHead /\ drain.pc = "idle"
        /\ drain' = [pc |-> "advance", entry |-> auditLog[auditTail]]
        /\ UNCHANGED <<roles, policies, auditLog, auditHead, auditTail, writing,
                       undrained, overrun>>
    BY DEF DrainCopy
  <1>2. IamTypeOK
    BY DEF IamInv
  <1>3. /\ AuditSlots \in Nat /\ AuditSlots > 1 /\ auditHead \in 0 .. AuditSlots - 1
        /\ auditTail \in 0 .. AuditSlots - 1 /\ Len(undrained) \in 0 .. AuditSlots
    BY <1>2, IamFacts
  <1>4. IamTypeOK' /\ IsFiniteSet(roles')
    <2>1. auditLog[auditTail] \in Entry \cup {Blank}
      BY <1>2, <1>3 DEF IamTypeOK
    <2>2. drain' \in [pc : {"idle", "advance"}, entry : Entry \cup {Blank}]
      BY <1>1, <2>1
    <2> QED
      BY <1>1, <1>2, <2>2 DEF IamInv, IamTypeOK
  <1>5. ASSUME ~overrun PROVE Trail'
    <2>1. Trail
      BY <1>5 DEF IamInv
    <2>2. Len(undrained) > InHand /\ InHand \in {0, 1}
      <3>1. auditHead = Wrap(auditTail + Len(undrained) - InHand)
            /\ InHand \in {0, 1} /\ Len(undrained) - InHand >= 0
            /\ Len(undrained) - InHand < AuditSlots
        BY <1>3, <2>1 DEF Trail, InHand
      <3>2. Len(undrained) = InHand => auditHead = auditTail
        BY <1>3, <3>1 DEF Wrap
      <3> QED
        BY <1>1, <1>3, <3>1, <3>2
    <2>3. auditLog[auditTail] = undrained[1]
      <3>1. 1 \in 1 .. Len(undrained) /\ Wrap(auditTail + 1 - 1) = auditTail
        BY <1>3, <2>2 DEF Wrap
      <3> QED
        BY <2>1, <3>1 DEF Trail
    <2>4. InHand' = InHand
      BY <1>1 DEF InHand
    <2> QED
      BY <1>1, <2>1, <2>2, <2>3, <2>4 DEF Trail, Wrap
  <1> QED
    BY <1>1, <1>4, <1>5 DEF IamInv

\* auditTail_ moves past the decision that was copied.
LEMMA DrainAdvanceInv == ASSUME IamInv, DrainAdvance PROVE IamInv'
  <1>1. /\ drain.pc = "advance" /\ drain' = [pc |-> "idle", entry |-> Blank]
        /\ auditTail' = AuditNext(auditTail)
        /\ undrained' = IF undrained = <<>> THEN <<>> ELSE Tail(undrained)
        /\ UNCHANGED <<roles, policies, auditLog, auditHead, writing, overrun>>
    BY DEF DrainAdvance
  <1>2. IamTypeOK
    BY DEF IamInv
  <1>3. /\ AuditSlots \in Nat /\ AuditSlots > 1 /\ auditHead \in 0 .. AuditSlots - 1
        /\ auditTail \in 0 .. AuditSlots - 1 /\ Len(undrained) \in 0 .. AuditSlots
        /\ undrained \in Seq(Entry)
    BY <1>2, IamFacts
  <1>4. IamTypeOK' /\ IsFiniteSet(roles')
    <2>1. auditTail' \in 0 .. AuditSlots - 1
      BY <1>1, <1>3, NextSlot
    <2>2. undrained' \in SeqOf(Entry, AuditSlots)
      <3>1. undrained \in SeqOf(Entry, AuditSlots)
        BY <1>2 DEF IamTypeOK
      <3> QED
        BY <1>1, <1>3, <3>1, BoundedSteps
    <2>3. drain' \in [pc : {"idle", "advance"}, entry : Entry \cup {Blank}]
      BY <1>1
    <2> QED
      BY <1>1, <1>2, <2>1, <2>2, <2>3 DEF IamInv, IamTypeOK
  <1>5. ASSUME ~overrun PROVE Trail'
    <2> DEFINE n == Len(undrained)
    <2>1. Trail
      BY <1>5 DEF IamInv
    <2>2. n > InHand /\ InHand \in {0, 1} /\ InHand' = InHand /\ n \in Nat
      BY <1>1, <1>3, <2>1 DEF Trail, InHand
    <2>3. undrained' = Tail(undrained) /\ Len(undrained') = n - 1
          /\ \A i \in 1 .. n - 1 : undrained'[i] = undrained[i + 1]
      BY <1>1, <1>3, <2>2
    <2>4. auditTail' = Wrap(auditTail + 1)
      BY <1>1, <1>3, NextSlot
    <2>5. ASSUME NEW i \in 1 .. Len(undrained')
          PROVE  auditLog'[Wrap(auditTail' + i - 1)] = undrained'[i]
      <3>1. i \in 1 .. n - 1 /\ i + 1 \in 1 .. n
        BY <2>2, <2>3
      <3>2. Wrap(auditTail' + i - 1) = Wrap(auditTail + (i + 1) - 1)
        BY <1>3, <2>4, <3>1 DEF Wrap
      <3>3. auditLog[Wrap(auditTail + (i + 1) - 1)] = undrained[i + 1]
        BY <2>1, <3>1 DEF Trail
      <3> QED
        BY <1>1, <2>3, <3>1, <3>2, <3>3
    <2>6. auditHead' = Wrap(auditTail' + Len(undrained') - InHand')
      <3>1. auditHead = Wrap(auditTail + n - InHand) /\ n <= AuditSlots
        BY <1>3, <2>1 DEF Trail
      <3>2. Wrap(auditTail' + (n - 1) - InHand) = Wrap(auditTail + n - InHand)
        BY <1>3, <2>2, <2>4, <3>1 DEF Wrap
      <3>3. Len(undrained') = n - 1
        BY <2>3
      <3> HIDE DEF n
      <3> QED
        BY <1>1, <2>2, <3>1, <3>2, <3>3
    <2>7. /\ writing' => Len(undrained') > 0
          /\ ~writing' => Len(undrained') < AuditSlots
      BY <1>1, <1>3, <2>2, <2>3 DEF InHand
    <2> QED
      BY <1>1, <2>5, <2>6, <2>7 DEF Trail, Wrap
  <1> QED
    <2>1. overrun => undrained' = <<>>
      BY <1>1 DEF IamInv
    <2> QED
      BY <1>1, <1>4, <1>5, <2>1 DEF IamInv

\* Every step of the pipeline keeps the trail.
LEMMA IamStep ==
  ASSUME IamInv, stage = "authorise" => frame.demand \in Demand, [Next]_vars
  PROVE  IamInv'
  <1>1. CASE UNCHANGED iamVars
    BY <1>1 DEF iamVars, IamInv, IamTypeOK, Trail, InHand, Wrap
  <1>2. CASE (\E r \in Role : RegisterRole(r)) \/ (\E p \in Policy : AddPolicy(p))
    BY <1>2, ConfigureInv
  <1>3. CASE DrainCopy \/ DrainAdvance
    BY <1>3, DrainCopyInv, DrainAdvanceInv
  <1>4. CASE Audited
    BY <1>4, AuditPublishInv DEF Audited
  <1>5. CASE Authorised
    BY <1>5, AuthoriseInv DEF Authorised
  <1> QED
    BY <1>1, <1>2, <1>3, <1>4, <1>5
       DEF Next, NetworkStep, Verified, Receive, OtherCall, vars

-----------------------------------------------------------------------------
(* The gates: what the network thread knows of the frame it holds.          *)

\* From the check of its MAC to the end, the last call of the adapter is the one
\* made for the frame in hand; from the decision to the end of the audit, the entry in
\* the ring is the decision on it; a grant is never taken back.
GateInv ==
  /\ stage \in {"idle", "verify", "authorise", "audit"}
  /\ stage = "idle" => frame = NoFrame
  /\ stage # "idle" => frame \in Frame /\ initialised
  /\ passed \subseteq Demand
  /\ writing <=> stage = "audit"
  /\ stage = "verify" =>
       \/ call.pc = "poll" /\ call.op = "kMacVerify"
       \/ call.pc = "idle" /\ result.op = "kMacVerify"
  /\ stage \in {"authorise", "audit"} =>
       call.pc = "idle" /\ result.code = "Ok" /\ result.op = "kMacVerify"
  /\ stage = "audit" /\ auditLog[auditHead].result = "kGranted" =>
       Decision(frame.demand) = "kGranted"
  /\ \A q \in passed : Decision(q) = "kGranted"

IngressInv == HseInv /\ IamInv /\ GateInv

\* A frame is not the absence of one.
LEMMA FrameIs == ASSUME NEW f \in Frame PROVE f # NoFrame /\ f.demand \in Demand
  BY DEF Frame, NoFrame

\* A policy that is added does not take a grant back.
LEMMA GrantStays ==
  ASSUME IamInv, NEW p \in Policy, AddPolicy(p), NEW q, Decision(q) = "kGranted"
  PROVE  Decision(q)' = "kGranted"
  <1> DEFINE S == Matching(q)
             T == Matching(q)'
             n == Len(policies)
  <1>1. policies \in Seq(Policy) /\ n \in Nat /\ policies' = Append(policies, p)
    BY IamAssumption, BoundedIsSeq DEF AddPolicy, IamInv, IamTypeOK
  <1>2. /\ DOMAIN policies = 1 .. n /\ DOMAIN policies' = 1 .. n + 1
        /\ \A i \in 1 .. n : policies'[i] = policies[i]
    BY <1>1
  <1>3. S # {} /\ policies[Min(S)].allowed \cap q.action # {}
    BY DEF Decision
  <1>4. S \subseteq 1 .. n /\ T \subseteq 1 .. n + 1 /\ S = T \cap 1 .. n
    BY <1>2 DEF Matching
  <1> HIDE DEF S, T
  <1>5. S \in SUBSET Nat /\ T \in SUBSET Nat /\ S \subseteq T
    BY <1>1, <1>4
  <1>6. \A y \in T \ S : \A x \in S : x < y
    BY <1>1, <1>4
  <1>7. Min(T) = Min(S)
    BY <1>3, <1>5, <1>6, MinSame
  <1>8. Min(S) \in 1 .. n
    BY <1>3, <1>4, <1>5, MinIsLeast
  <1>9. T # {} /\ policies'[Min(T)].allowed \cap q.action # {}
    BY <1>2, <1>3, <1>5, <1>7, <1>8
  <1> QED
    BY <1>9 DEF Decision, T

\* What the gates know depends only on these variables: the policies may grow.
LEMMA GateFrame ==
  ASSUME IngressInv, UNCHANGED gateVars, UNCHANGED <<initialised, call, result>>,
         UNCHANGED <<auditLog, auditHead, writing>>,
         UNCHANGED policies \/ (\E p \in Policy : AddPolicy(p))
  PROVE  GateInv'
  <1>1. ASSUME NEW q, Decision(q) = "kGranted" PROVE Decision(q)' = "kGranted"
    <2>1. CASE UNCHANGED policies
      BY <1>1, <2>1 DEF Decision, Matching
    <2>2. CASE \E p \in Policy : AddPolicy(p)
      BY <1>1, <2>2, GrantStays DEF IngressInv
    <2> QED
      BY <2>1, <2>2
  <1>2. ASSUME stage = "audit", auditLog[auditHead].result = "kGranted"
        PROVE  Decision(frame.demand)' = "kGranted"
    <2>1. Decision(frame.demand) = "kGranted" /\ frame' = frame
      BY <1>2 DEF IngressInv, GateInv, gateVars
    <2> DEFINE d == frame.demand
    <2>2. PICK q : q = d
      OBVIOUS
    <2>3. Decision(q)' = "kGranted"
      BY <1>1, <2>1, <2>2
    <2> QED
      BY <2>1, <2>2, <2>3 DEF Decision, Matching
  <1>3. \A q \in passed' : Decision(q)' = "kGranted"
    BY <1>1 DEF IngressInv, GateInv, gateVars
  <1> QED
    BY <1>2, <1>3 DEF IngressInv, GateInv, gateVars

\* The steps of the adapter that finish a call of the network thread.
LEMMA AdapterGates == ASSUME IngressInv, AdapterStep, UNCHANGED <<iamVars, gateVars>>
                      PROVE  GateInv'
  <1>1. GateInv /\ HseTypeOK
    BY DEF IngressInv, HseInv
  <1>2. UNCHANGED <<policies, auditLog, auditHead, writing, stage, frame, passed>>
    BY DEF iamVars, gateVars
  <1>3. \A q : Decision(q)' = Decision(q)
    BY <1>2 DEF Decision, Matching
  <1>4. CASE stage = "idle"
    <2>1. ~writing /\ stage' = "idle"
      BY <1>1, <1>2, <1>4 DEF GateInv
    <2> QED
      BY <1>1, <1>2, <1>3, <2>1 DEF GateInv
  <1>5. CASE stage = "verify"
    <2>1. Poll /\ call.op = "kMacVerify"
      BY <1>1, <1>5 DEF AdapterStep, InitPoll, Poll, GateInv
    <2>2. initialised' = initialised
      BY <2>1 DEF Poll
    <2>3. \/ call'.pc = "idle" /\ result'.op = call.op
          \/ call'.pc = "poll" /\ call'.op = call.op
      <3>1. CASE call' = [call EXCEPT !.polls = @ + 1]
        <4>1. call \in [pc : {"poll"}, op : HseServiceId, polls : 0 .. PollLimit - 1,
                        behind : BOOLEAN, verdict : Status \cup {"none"}]
          BY <1>1, <2>1 DEF Poll, HseTypeOK, Resting
        <4> QED
          BY <3>1, <4>1, <2>1 DEF Poll
      <3>2. ASSUME NEW status, Return(status)
            PROVE  call'.pc = "idle" /\ result'.op = call.op
        BY <3>2 DEF Return, Resting
      <3> QED
        BY <2>1, <3>1, <3>2 DEF Poll
    <2> QED
      BY <1>1, <1>2, <1>3, <1>5, <2>1, <2>2, <2>3 DEF GateInv
  <1>6. CASE stage \in {"authorise", "audit"}
    BY <1>1, <1>6 DEF AdapterStep, InitPoll, Poll, GateInv
  <1> QED
    BY <1>1, <1>4, <1>5, <1>6 DEF GateInv

\* The HSE answers: at most what it answered is noted for the call in progress.
LEMMA AnswerGates == ASSUME IngressInv, HseAnswer, UNCHANGED <<iamVars, gateVars>>
                     PROVE  GateInv'
  <1>1. GateInv /\ HseTypeOK
    BY DEF IngressInv, HseInv
  <1>2. UNCHANGED <<initialised, result, policies, auditLog, auditHead, writing, stage,
                    frame, passed>>
    BY DEF HseAnswer, iamVars, gateVars
  <1>3. \A q : Decision(q)' = Decision(q)
    BY <1>2 DEF Decision, Matching
  <1>4. call'.pc = call.pc /\ (call.pc = "poll" => call'.op = call.op)
    <2>1. PICK status : call' = IF call.pc = "poll" /\ Len(pending) = 1
                               THEN [call EXCEPT !.verdict = status] ELSE call
      BY DEF HseAnswer
    <2>2. CASE call.pc = "poll"
      <3>1. call \in [pc : {"poll"}, op : HseServiceId, polls : 0 .. PollLimit - 1,
                      behind : BOOLEAN, verdict : Status \cup {"none"}]
        BY <1>1, <2>2 DEF HseTypeOK, Resting
      <3> QED
        BY <2>1, <3>1
    <2>3. CASE call.pc # "poll"
      BY <2>1, <2>3
    <2> QED
      BY <2>2, <2>3
  <1> QED
    BY <1>1, <1>2, <1>3, <1>4 DEF GateInv

\* VerifyMac() has returned: only Ok lets the frame go on.
LEMMA VerifiedGates == ASSUME IngressInv, Verified PROVE GateInv'
  <1>1. /\ stage = "verify" /\ call.pc = "idle"
        /\ UNCHANGED <<initialised, call, result, policies, auditLog, auditHead, writing,
                       passed>>
    BY DEF Verified, hseVars, iamVars
  <1>2. GateInv
    BY DEF IngressInv
  <1>3. \A q : Decision(q)' = Decision(q)
    BY <1>1 DEF Decision, Matching
  <1>4. CASE result.code = "Ok"
    <2>1. stage' = "authorise" /\ frame' = frame
      BY <1>4 DEF Verified
    <2> QED
      BY <1>1, <1>2, <1>3, <1>4, <2>1 DEF GateInv
  <1>5. CASE result.code # "Ok"
    <2>1. stage' = "idle" /\ frame' = NoFrame
      BY <1>5 DEF Verified
    <2> QED
      BY <1>1, <1>2, <1>3, <2>1 DEF GateInv
  <1> QED
    BY <1>4, <1>5

\* Authorise() has filled its slot with the decision on the frame.
LEMMA AuthorisedGates == ASSUME IngressInv, Authorised PROVE GateInv'
  <1>1. /\ stage = "authorise" /\ stage' = "audit" /\ writing' = TRUE
        /\ UNCHANGED <<initialised, call, result, policies, auditHead, frame, passed>>
        /\ auditLog' = [auditLog EXCEPT ![auditHead] =
                          [demand |-> frame.demand, result |-> Decision(frame.demand)]]
    BY DEF Authorised, Authorise, hseVars
  <1>2. GateInv /\ IamTypeOK
    BY DEF IngressInv, IamInv
  <1>3. \A q : Decision(q)' = Decision(q)
    BY <1>1 DEF Decision, Matching
  <1>4. auditLog'[auditHead'].result = Decision(frame.demand)
    <2>1. auditHead \in 0 .. AuditSlots - 1
      BY <1>2, IamFacts
    <2>2. auditLog \in [0 .. AuditSlots - 1 -> Entry \cup {Blank}]
      BY <1>2 DEF IamTypeOK
    <2> QED
      BY <1>1, <2>1, <2>2
  <1>5. Decision(frame.demand)' = Decision(frame.demand)
    BY <1>1 DEF Decision, Matching
  <1> QED
    BY <1>1, <1>2, <1>3, <1>4, <1>5 DEF GateInv

\* Authorise() has returned: only a grant lets the frame pass.
LEMMA AuditedGates == ASSUME IngressInv, Audited PROVE GateInv'
  <1>1. /\ stage = "audit" /\ stage' = "idle" /\ frame' = NoFrame /\ writing' = FALSE
        /\ passed' = IF auditLog[auditHead].result = "kGranted"
                     THEN {frame.demand} ELSE passed
        /\ UNCHANGED policies
    BY DEF Audited, AuditPublish
  <1>2. GateInv
    BY DEF IngressInv
  <1>3. \A q : Decision(q)' = Decision(q)
    BY <1>1 DEF Decision, Matching
  <1>4. frame.demand \in Demand
    BY <1>1, <1>2, FrameIs DEF GateInv
  <1>5. passed' \subseteq Demand /\ \A q \in passed' : Decision(q) = "kGranted"
    BY <1>1, <1>2, <1>4 DEF GateInv
  <1> QED
    BY <1>1, <1>3, <1>5 DEF GateInv

\* A frame comes in, or another operation is called: the adapter is initialised
\* and between two calls.
LEMMA SubmitGates ==
  ASSUME IngressInv, OtherCall \/ (\E f \in Frame : Receive(f))
  PROVE  GateInv'
  <1>1. GateInv /\ stage = "idle" /\ UNCHANGED <<policies, auditLog, auditHead, writing>>
    BY DEF IngressInv, OtherCall, Receive, iamVars
  <1>2. \A q : Decision(q)' = Decision(q)
    BY <1>1 DEF Decision, Matching
  <1>3. CASE OtherCall
    <2>1. UNCHANGED <<stage, frame, passed>>
      BY <1>3 DEF OtherCall, gateVars
    <2> QED
      BY <1>1, <1>2, <2>1 DEF GateInv
  <1>4. ASSUME NEW f \in Frame, Receive(f) PROVE GateInv'
    <2>1. /\ stage' = "verify" /\ frame' = f /\ passed' = passed /\ initialised'
          /\ call'.pc = "poll" /\ call'.op = "kMacVerify"
      BY <1>4 DEF Receive, VerifyMac, Submit
    <2> QED
      BY <1>1, <1>2, <1>4, <2>1 DEF GateInv
  <1> QED
    BY <1>3, <1>4

\* Every step of the pipeline.
LEMMA IngressStep == ASSUME IngressInv, [Next]_vars PROVE IngressInv'
  <1>1. HseInv'
    BY HseStep DEF IngressInv
  <1>2. IamInv'
    <2>1. stage = "authorise" => frame.demand \in Demand
      BY FrameIs DEF IngressInv, GateInv
    <2> QED
      BY <2>1, IamStep DEF IngressInv
  <1>3. GateInv'
    <2>1. CASE UNCHANGED vars
      BY <2>1, GateFrame DEF vars, hseVars, iamVars
    <2>2. CASE AdapterStep /\ UNCHANGED <<iamVars, gateVars>>
      BY <2>2, AdapterGates
    <2>3. CASE Verified \/ Authorised \/ Audited
      BY <2>3, VerifiedGates, AuthorisedGates, AuditedGates
    <2>4. CASE InitBegin /\ UNCHANGED <<iamVars, gateVars>>
      <3>1. GateInv /\ ~initialised /\ initialised' /\ stage = "idle" /\ ~writing
            /\ UNCHANGED <<policies, auditLog, auditHead, writing, stage, frame, passed>>
        BY <2>4 DEF IngressInv, GateInv, InitBegin, iamVars, gateVars
      <3>2. \A q : Decision(q)' = Decision(q)
        BY <3>1 DEF Decision, Matching
      <3> QED
        BY <3>1, <3>2 DEF GateInv
    <2>5. CASE OtherCall \/ (\E f \in Frame : Receive(f))
      BY <2>5, SubmitGates
    <2>6. CASE Hse /\ UNCHANGED <<iamVars, gateVars>>
      <3>1. CASE HseBoot
        BY <2>6, <3>1, GateFrame DEF HseBoot, iamVars
      <3>2. CASE HseAnswer
        BY <2>6, <3>2, AnswerGates
      <3> QED
        BY <2>6, <3>1, <3>2 DEF Hse
    <2>7. CASE /\ \/ \E r \in Role : RegisterRole(r)
                  \/ \E p \in Policy : AddPolicy(p)
                  \/ DrainCopy \/ DrainAdvance
               /\ UNCHANGED <<hseVars, gateVars>>
      BY <2>7, GateFrame
         DEF RegisterRole, AddPolicy, DrainCopy, DrainAdvance, hseVars
    <2> QED
      BY <2>1, <2>2, <2>3, <2>4, <2>5, <2>6, <2>7 DEF Next, NetworkStep
  <1> QED
    BY <1>1, <1>2, <1>3 DEF IngressInv

\* The pipeline starts with no frame.
LEMMA IngressInitInv == Init => IngressInv
  <1> SUFFICES ASSUME Init PROVE IngressInv
    OBVIOUS
  <1>1. HseInv /\ IamInv
    BY HseInitInv, IamInitInv DEF Init
  <1>2. GateInv
    BY DEF Init, GateInv, IamInit
  <1> QED
    BY <1>1, <1>2 DEF IngressInv

\* What is inductive implies what the run checks.
LEMMA IngressConsequences ==
  ASSUME IngressInv
  PROVE  IngressTypeOK /\ PassedLegitimately /\ AuditExact
  <1>1. frame = NoFrame <=> stage = "idle"
    BY FrameIs DEF IngressInv, GateInv
  <1>2. IngressTypeOK
    BY <1>1 DEF IngressInv, HseInv, IamInv, GateInv, IngressTypeOK
  <1>3. ASSUME stage \in {"authorise", "audit"}
        PROVE  result.op = "kMacVerify" /\ (result.verdict = "kOk" \/ result.behind)
    <2>1. result.code = "Ok" /\ result.op = "kMacVerify"
      BY <1>3 DEF IngressInv, GateInv
    <2>2. result # NoResult
      BY <2>1 DEF NoResult
    <2> QED
      BY <2>1, <2>2 DEF IngressInv, HseInv, OkMeansAnswered
  <1>4. PassedLegitimately
    BY <1>3 DEF PassedLegitimately, IngressInv, GateInv
  <1>5. AuditExact
    BY TrailIsExact DEF IngressInv
  <1> QED
    BY <1>2, <1>4, <1>5

\* The whole pipeline.
THEOREM IngressCorrect == Spec => []IngressInv
  BY IngressInitInv, IngressStep, PTL DEF Spec

\* The types of both components and of the thread between them.
THEOREM TypeCorrect == Spec => []IngressTypeOK
  BY IngressCorrect, IngressConsequences, PTL

\* What passes the gates was answered kOk by the HSE, with the exception
\* OkMeansAnswered names, and is allowed by the policies, then and ever after.
THEOREM LegitimatePassage == Spec => []PassedLegitimately
  BY IngressCorrect, IngressConsequences, PTL

\* The audit trail is the decisions that are not drained, until it overruns.
THEOREM ExactTrail == Spec => []AuditExact
  BY IngressCorrect, IngressConsequences, PTL
=============================================================================
