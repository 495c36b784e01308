------------------------ MODULE DdsQosEnforcerProofs ------------------------
(***************************************************************************)
(* Proofs about the deadline supervision, for every set of topics and of   *)
(* deadlines, every size of the tables, every period and every lag of a    *)
(* check: the rows stay paired, a check tells the truth about the moment   *)
(* it read the clock, and a topic that stays late is reported in time.     *)
(***************************************************************************)
EXTENDS DdsQosEnforcer, FiniteSetTheorems, SequenceTheorems, WellFoundedInduction, TLAPS

-----------------------------------------------------------------------------
(* Least and greatest elements.                                            *)

\* The order of the naturals as a relation that has least elements.
LEMMA LessThan ==
  \E R : IsWellFoundedOn(R, Nat) /\ \A x, y \in Nat : <<x, y>> \in R <=> x < y
  <1> DEFINE R == OpToRel(<, Nat)
  <1>1. IsWellFoundedOn(R, Nat)
    BY NatLessThanWellFounded
  <1>2. ASSUME NEW x \in Nat, NEW y \in Nat PROVE <<x, y>> \in R <=> x < y
    BY DEF OpToRel
  <1> HIDE DEF R
  <1> QED
    BY <1>1, <1>2

\* A nonempty set of naturals has a least element.
LEMMA LeastElement ==
  ASSUME NEW S \in SUBSET Nat, S # {}
  PROVE  \E m \in S : \A x \in S : m <= x
  <1>1. PICK R : IsWellFoundedOn(R, Nat) /\ \A x, y \in Nat : <<x, y>> \in R <=> x < y
    BY LessThan
  <1>2. IsWellFoundedOn(R, Nat) /\ S \subseteq Nat
    BY <1>1
  <1>3. \E m \in S : \A y \in S : ~(<<y, m>> \in R)
    BY <1>2, WFMin, Zenon
  <1>4. PICK m \in S : \A y \in S : ~(<<y, m>> \in R)
    BY <1>3
  <1>5. ASSUME NEW y \in S PROVE m <= y
    <2>1. ~(y < m) /\ y \in Nat /\ m \in Nat
      BY <1>1, <1>4
    <2> QED
      BY <2>1
  <1> QED
    BY <1>5

\* Min() of a nonempty set of naturals is its least element.
LEMMA MinIsLeast ==
  ASSUME NEW S \in SUBSET Nat, S # {}
  PROVE  Min(S) \in S /\ \A x \in S : Min(S) <= x
  BY LeastElement DEF Min

\* A natural that is in the set and least is what Min() yields.
LEMMA MinIs ==
  ASSUME NEW S \in SUBSET Nat, NEW m \in S, \A x \in S : m <= x
  PROVE  Min(S) = m
  <1>1. Min(S) \in S /\ \A x \in S : Min(S) <= x
    BY MinIsLeast
  <1>2. Min(S) <= m /\ m <= Min(S) /\ Min(S) \in Nat /\ m \in Nat
    BY <1>1
  <1> QED
    BY <1>2

\* The smaller of two naturals.
LEMMA MinOfTwo ==
  ASSUME NEW a \in Nat, NEW b \in Nat
  PROVE  Min({a, b}) = IF a <= b THEN a ELSE b
  <1>1. CASE a <= b
    BY <1>1, MinIs
  <1>2. CASE ~(a <= b)
    BY <1>2, MinIs
  <1> QED
    BY <1>1, <1>2

\* A finite nonempty set of naturals has a greatest element: a smallest set
\* without one would lose it with any of its elements.
LEMMA GreatestElement ==
  ASSUME NEW S \in SUBSET Nat, S # {}, IsFiniteSet(S)
  PROVE  \E m \in S : \A x \in S : x <= m
  <1> DEFINE HasMax(T) == \E m \in T : \A x \in T : x <= m
             Bad == {T \in SUBSET S : T # {} /\ ~HasMax(T)}
             Sizes == {Cardinality(T) : T \in Bad}
  <1>1. SUFFICES ASSUME Bad # {} PROVE FALSE
    BY DEF Bad
  <1>2. ASSUME NEW T \in SUBSET S PROVE IsFiniteSet(T) /\ Cardinality(T) \in Nat
    BY FS_Subset, FS_CardinalityType
  <1>3. Sizes \in SUBSET Nat /\ Sizes # {}
    BY <1>1, <1>2
  <1>4. PICK n \in Sizes : \A k \in Sizes : n <= k
    <2> HIDE DEF Sizes
    <2> QED
      BY <1>3, LeastElement
  <1>5. PICK T \in Bad : n = Cardinality(T)
    BY <1>4
  <1>6. PICK x \in T : TRUE
    BY <1>5
  <1> DEFINE U == T \ {x}
  <1>7. T \in SUBSET S /\ T \subseteq Nat /\ x \in Nat /\ U \in SUBSET S /\ ~HasMax(T)
    BY <1>5, <1>6
  <1>8. U # {}
    <2>1. ASSUME U = {} PROVE HasMax(T)
      <3>1. \A y \in T : y <= x
        BY <1>6, <1>7, <2>1
      <3> QED
        BY <1>6, <3>1
    <2> QED
      BY <1>7, <2>1
  <1>9. Cardinality(U) = Cardinality(T) - 1
    <2>1. IsFiniteSet(T)
      BY <1>2, <1>7
    <2> QED
      BY <1>6, <2>1, FS_RemoveElement
  <1>10. U \notin Bad
    <2>1. ASSUME U \in Bad PROVE FALSE
      <3>1. Cardinality(U) \in Sizes
        BY <2>1
      <3>2. n <= Cardinality(U)
        BY <1>4, <3>1
      <3> QED
        BY <1>2, <1>5, <1>7, <1>9, <3>2
    <2> QED
      BY <2>1
  <1>11. PICK m \in U : \A y \in U : y <= m
    BY <1>7, <1>8, <1>10
  <1>12. HasMax(T)
    <2>1. m \in Nat /\ m \in T /\ \A y \in T : y = x \/ y <= m
      BY <1>7, <1>11
    <2>2. CASE x <= m
      BY <1>7, <2>1, <2>2
    <2>3. CASE ~(x <= m)
      <3>1. \A y \in T : y <= x
        BY <1>7, <2>1, <2>3
      <3> QED
        BY <1>6, <3>1
    <2> QED
      BY <2>2, <2>3
  <1> QED
    BY <1>7, <1>12

\* The ages that are told apart are naturals.
LEMMA MaxAgeType == MaxAge \in Nat
  <1> DEFINE S == Finite \cup {0}
  <1>1. S \in SUBSET Nat /\ S # {}
    <2>1. DeadlinesOffered \subseteq Nat \cup {kDeadlineInfiniteMs}
      BY QosAssumption
    <2>2. \A x \in S : x \in Nat
      BY <2>1 DEF Finite
    <2>3. 0 \in S
      OBVIOUS
    <2> HIDE DEF S
    <2> QED
      BY <2>2, <2>3
  <1>2. IsFiniteSet(Finite)
    BY QosAssumption, FS_Subset DEF Finite
  <1>3. IsFiniteSet(S)
    BY <1>2, FS_AddElement
  <1>4. \E m \in S : \A x \in S : x <= m
    BY <1>1, <1>3, GreatestElement
  <1>5. PICK m \in S : \A x \in S : m >= x
    BY <1>1, <1>4
  <1>6. Max(S) \in S
    BY <1>5 DEF Max
  <1> QED
    BY <1>1, <1>6, QosAssumption DEF MaxAge

-----------------------------------------------------------------------------
(* The invariant.                                                          *)

Profile == [topicId : Topic, deadlineMs : DeadlinesOffered]
Deadline == [topicId : Topic, age : 0 .. MaxAge]

\* No tick passes before a filled row counts.
FreshInv == \A i \in DOMAIN deadlines : i > profileCount => deadlines[i].age = 0

\* A check began wait ticks ago; the rows it has passed were in time then.
WalkInv ==
  check.pc = "rows" => /\ check.idx <= profileCount + 1
                       /\ check.lag = wait
                       /\ \A i \in 1 .. check.idx - 1 : ~Overdue(i, check.lag)

\* How old the verdict is: what was late when the last finished check read the
\* clock is named, or a row before it is.
VerdictAge == IF check.pc = "idle" THEN wait ELSE wait + Period
Named(i) == \E j \in 1 .. i : verdict = profiles[j].topicId
VerdictInv == \A i \in 1 .. profileCount : Overdue(i, VerdictAge) => Named(i)

QosInv == QosTypeOK /\ FreshInv /\ WalkInv /\ VerdictInv

\* A bounded sequence is a sequence that is not longer than its bound.
LEMMA BoundedIsSeq ==
  ASSUME NEW S, NEW n \in Nat
  PROVE  /\ \A s \in SeqOf(S, n) : s \in Seq(S) /\ Len(s) <= n
         /\ \A s \in Seq(S) : Len(s) <= n => s \in SeqOf(S, n)
  BY DEF SeqOf

\* The types in the form the steps use.
LEMMA QosFacts ==
  ASSUME QosTypeOK
  PROVE  /\ profiles \in Seq(Profile) /\ deadlines \in Seq(Deadline)
         /\ Len(profiles) = Len(deadlines) /\ Len(profiles) \in 0 .. MaxProfiles
         /\ profileCount \in 0 .. Len(profiles) /\ profileCount \in Nat
         /\ MaxProfiles \in Nat /\ Period \in Nat /\ MaxLag \in Nat /\ MaxAge \in Nat
         /\ wait \in 0 .. Period
  <1>1. MaxProfiles \in Nat /\ Period \in Nat /\ MaxLag \in Nat
    BY QosAssumption
  <1>2. profiles \in Seq(Profile) /\ Len(profiles) <= MaxProfiles
    BY <1>1, BoundedIsSeq DEF QosTypeOK, Profile
  <1>3. deadlines \in Seq(Deadline)
    BY <1>1, BoundedIsSeq DEF QosTypeOK, Deadline
  <1> QED
    BY <1>1, <1>2, <1>3, MaxAgeType DEF QosTypeOK

\* What a row holds.
LEMMA RowFacts ==
  ASSUME QosTypeOK, NEW i \in 1 .. Len(profiles)
  PROVE  /\ profiles[i] \in Profile /\ deadlines[i] \in Deadline
         /\ profiles[i].topicId = deadlines[i].topicId /\ profiles[i].topicId \in Topic
         /\ deadlines[i].age \in Nat
         /\ profiles[i].deadlineMs # kDeadlineInfiniteMs => profiles[i].deadlineMs \in Nat
  <1>1. profiles[i] \in Profile /\ deadlines[i] \in Deadline
    BY QosFacts
  <1>2. profiles[i].topicId = deadlines[i].topicId
    <2>1. i \in DOMAIN profiles
      BY QosFacts
    <2> QED
      BY <2>1 DEF QosTypeOK
  <1>3. profiles[i].deadlineMs \in DeadlinesOffered /\ profiles[i].topicId \in Topic
        /\ deadlines[i].age \in 0 .. MaxAge
    BY <1>1 DEF Profile, Deadline
  <1>4. DeadlinesOffered \subseteq Nat \cup {kDeadlineInfiniteMs}
    BY QosAssumption
  <1>5. deadlines[i].age \in Nat
    BY <1>3, MaxAgeType
  <1>6. profiles[i].deadlineMs # kDeadlineInfiniteMs => profiles[i].deadlineMs \in Nat
    BY <1>3, <1>4
  <1> QED
    BY <1>1, <1>2, <1>3, <1>5, <1>6

\* The tables are empty and no check has been made.
LEMMA QosInitInv == Init => QosInv
  <1> SUFFICES ASSUME Init PROVE QosInv
    OBVIOUS
  <1>1. MaxProfiles \in Nat /\ Period \in Nat /\ MaxLag \in Nat
    BY QosAssumption
  <1>2. ASSUME NEW S PROVE <<>> \in SeqOf(S, MaxProfiles)
    <2>1. <<>> \in Seq(S) /\ Len(<<>>) <= MaxProfiles
      BY <1>1
    <2> QED
      BY <1>1, <2>1, BoundedIsSeq
  <1>3. QosTypeOK
    <2>1. profiles = <<>> /\ deadlines = <<>> /\ profileCount = 0 /\ check = Idle
          /\ verdict = "none" /\ wait = 0
      BY DEF Init
    <2>2. Len(profiles) = 0 /\ Len(deadlines) = 0 /\ DOMAIN profiles = {}
      BY <2>1
    <2>3. wait \in 0 .. Period
      BY <1>1, <2>1
    <2> QED
      BY <1>2, <2>1, <2>2, <2>3 DEF QosTypeOK
  <1>4. FreshInv /\ WalkInv /\ VerdictInv
    BY DEF Init, FreshInv, WalkInv, VerdictInv, Idle
  <1> QED
    BY <1>3, <1>4 DEF QosInv

\* Ageing: the rows and the age of the verdict grow older together.
LEMMA TickInv == ASSUME QosInv, Tick PROVE QosInv'
  <1>1. /\ wait < Period /\ profileCount = Len(profiles)
        /\ check.pc # "idle" => check.lag < MaxLag
        /\ wait' = wait + 1
        /\ check' = IF check.pc = "idle" THEN check ELSE [check EXCEPT !.lag = @ + 1]
        /\ deadlines' = [i \in DOMAIN deadlines |->
                           [deadlines[i] EXCEPT !.age = Min({@ + 1, MaxAge})]]
        /\ UNCHANGED <<profiles, profileCount, verdict>>
    BY DEF Tick
  <1>2. QosTypeOK
    BY DEF QosInv
  <1>3. check = Idle \/ check \in [pc : {"rows"}, idx : 1 .. MaxProfiles + 1, lag : 0 .. MaxLag]
    BY <1>2 DEF QosTypeOK
  <1>4. ASSUME NEW i \in 1 .. Len(profiles)
        PROVE  /\ deadlines'[i] \in Deadline /\ deadlines'[i].topicId = deadlines[i].topicId
               /\ deadlines'[i].age \in 0 .. MaxAge
               /\ deadlines'[i].age <= deadlines[i].age + 1
    <2>1. i \in DOMAIN deadlines
      BY <1>2, QosFacts
    <2>2. deadlines[i] \in Deadline /\ deadlines[i].age \in Nat
      BY <1>2, RowFacts
    <2>3. deadlines'[i] = [deadlines[i] EXCEPT !.age = Min({deadlines[i].age + 1, MaxAge})]
      BY <1>1, <2>1
    <2>4. /\ Min({deadlines[i].age + 1, MaxAge}) \in 0 .. MaxAge
          /\ Min({deadlines[i].age + 1, MaxAge}) <= deadlines[i].age + 1
      BY <2>2, MaxAgeType, MinOfTwo
    <2> QED
      BY <2>2, <2>3, <2>4 DEF Deadline
  <1>5. deadlines' \in SeqOf(Deadline, MaxProfiles) /\ Len(deadlines') = Len(deadlines)
    <2>1. deadlines \in Seq(Deadline) /\ Len(deadlines) = Len(profiles)
          /\ Len(deadlines) <= MaxProfiles /\ MaxProfiles \in Nat /\ Len(deadlines) \in Nat
      BY <1>2, QosFacts
    <2>2. /\ DOMAIN deadlines = 1 .. Len(deadlines)
          /\ deadlines' = [i \in 1 .. Len(deadlines) |-> deadlines'[i]]
      BY <1>1, <2>1
    <2>3. deadlines' \in [1 .. Len(deadlines) -> Deadline]
      BY <1>4, <2>1, <2>2
    <2>4. deadlines' \in Seq(Deadline) /\ Len(deadlines') = Len(deadlines)
      BY <2>1, <2>3
    <2> QED
      BY <2>1, <2>4, BoundedIsSeq
  <1>6. QosTypeOK'
    <2>1. check' = Idle \/ check' \in [pc : {"rows"}, idx : 1 .. MaxProfiles + 1,
                                       lag : 0 .. MaxLag]
      <3>1. CASE check = Idle
        BY <1>1, <3>1 DEF Idle
      <3>2. CASE check \in [pc : {"rows"}, idx : 1 .. MaxProfiles + 1, lag : 0 .. MaxLag]
        <4>1. check.lag + 1 \in 0 .. MaxLag
          <5>1. check.lag < MaxLag /\ check.lag \in 0 .. MaxLag
            BY <1>1, <3>2
          <5>2. MaxLag \in Nat
            BY QosAssumption
          <5> QED
            BY <5>1, <5>2
        <4>2. check' = [check EXCEPT !.lag = check.lag + 1]
          BY <1>1, <3>2 DEF Idle
        <4> QED
          BY <3>2, <4>1, <4>2
      <3> QED
        BY <1>3, <3>1, <3>2
    <2>2. wait' \in 0 .. Period
      BY <1>1, <1>2, QosFacts
    <2>3. ASSUME NEW i \in DOMAIN profiles, NEW j \in DOMAIN profiles
          PROVE  profiles[i].topicId = deadlines'[j].topicId <=> i = j
      <3>1. j \in 1 .. Len(profiles)
        BY <1>2, QosFacts
      <3> QED
        BY <1>2, <1>4, <3>1 DEF QosTypeOK
    <2>4. deadlines' \in SeqOf([topicId : Topic, age : 0 .. MaxAge], MaxProfiles)
      BY <1>5 DEF Deadline
    <2> QED
      BY <1>1, <1>2, <1>5, <2>1, <2>2, <2>3, <2>4 DEF QosTypeOK
  <1>7. ASSUME NEW i \in 1 .. Len(profiles), NEW g \in Nat,
               profiles[i].deadlineMs # kDeadlineInfiniteMs,
               deadlines'[i].age > profiles[i].deadlineMs + (g + 1)
        PROVE  Overdue(i, g)
    <2>1. profiles[i].deadlineMs \in Nat /\ deadlines[i].age \in Nat
      BY <1>2, <1>7, RowFacts
    <2>2. deadlines'[i].age <= deadlines[i].age + 1 /\ deadlines'[i].age \in 0 .. MaxAge
      BY <1>4
    <2>a. deadlines'[i].age \in Nat
      BY <2>2, MaxAgeType
    <2>b. \A a, n, d, k \in Nat : a <= n + 1 /\ a > d + (k + 1) => n > d + k
      OBVIOUS
    <2>3. deadlines[i].age > profiles[i].deadlineMs + g
      BY <1>7, <2>1, <2>2, <2>a, <2>b
    <2> QED
      BY <1>7, <2>3 DEF Overdue
  <1>8. FreshInv'
    BY <1>1, <1>2, <1>5, <1>6, QosFacts DEF FreshInv
  <1>9. wait \in Nat /\ Period \in Nat /\ profileCount = Len(profiles)
    BY <1>1, <1>2, QosFacts
  <1>10. WalkInv'
    <2>1. SUFFICES ASSUME check.pc = "rows" PROVE WalkInv'
      BY <1>1, <1>3 DEF WalkInv, Idle
    <2>2. /\ check'.idx = check.idx /\ check'.lag = check.lag + 1
          /\ check.idx \in Nat /\ check.lag \in Nat
      BY <1>1, <1>2, <1>3, <2>1, QosFacts DEF Idle
    <2>3. check.idx <= profileCount + 1 /\ check.lag = wait
      BY <2>1 DEF QosInv, WalkInv
    <2>4. ASSUME NEW i \in 1 .. check.idx - 1 PROVE ~Overdue(i, check.lag)'
      <3>1. i \in 1 .. Len(profiles)
        BY <1>9, <2>2, <2>3
      <3>2. ~Overdue(i, check.lag)
        BY <2>1 DEF QosInv, WalkInv
      <3>3. SUFFICES ASSUME profiles[i].deadlineMs # kDeadlineInfiniteMs
                     PROVE  ~(deadlines'[i].age > profiles[i].deadlineMs + (check.lag + 1))
        BY <1>1, <2>2 DEF Overdue
      <3> QED
        BY <1>7, <2>2, <3>1, <3>2, <3>3
    <2>5. check'.idx <= profileCount' + 1 /\ check'.lag = wait'
      BY <1>1, <2>2, <2>3
    <2>6. \A i \in 1 .. check'.idx - 1 : ~Overdue(i, check.lag)'
      BY <2>2, <2>4
    <2> QED
      BY <2>5, <2>6 DEF WalkInv
  <1>11. VerdictInv'
    <2>1. VerdictAge' = VerdictAge + 1 /\ VerdictAge \in Nat
      <3>1. (check'.pc = "idle") = (check.pc = "idle")
        BY <1>1, <1>3 DEF Idle
      <3> QED
        BY <1>1, <1>9, <3>1 DEF VerdictAge
    <2>2. ASSUME NEW i \in 1 .. profileCount, Overdue(i, VerdictAge)' PROVE Named(i)'
      <3>1. i \in 1 .. Len(profiles)
        BY <1>9, <2>2
      <3>2. /\ profiles[i].deadlineMs # kDeadlineInfiniteMs
            /\ deadlines'[i].age > profiles[i].deadlineMs + (VerdictAge + 1)
        BY <1>1, <2>1, <2>2 DEF Overdue
      <3>3. Overdue(i, VerdictAge)
        BY <1>7, <2>1, <3>1, <3>2
      <3> QED
        BY <1>1, <3>3 DEF QosInv, VerdictInv, Named
    <2> QED
      BY <1>1, <2>2 DEF VerdictInv
  <1> QED
    BY <1>6, <1>8, <1>10, <1>11 DEF QosInv

\* RegisterProfile(): a row is filled for a topic that has none.
LEMMA FillInv ==
  ASSUME QosInv, NEW t \in Topic, NEW d \in DeadlinesOffered, RegisterFill(t, d)
  PROVE  QosInv'
  <1> DEFINE n == Len(profiles)
             profile == [topicId |-> t, deadlineMs |-> d]
             deadline == [topicId |-> t, age |-> 0]
  <1>1. /\ profileCount = n /\ n < MaxProfiles /\ Found(t) = {}
        /\ profiles' = Append(profiles, profile) /\ deadlines' = Append(deadlines, deadline)
        /\ UNCHANGED <<profileCount, check, verdict, wait>>
    BY DEF RegisterFill
  <1>2. QosTypeOK /\ n \in Nat /\ MaxProfiles \in Nat /\ Len(deadlines) = n
        /\ profiles \in Seq(Profile) /\ deadlines \in Seq(Deadline)
    BY QosFacts DEF QosInv
  <1>3. profile \in Profile /\ deadline \in Deadline
        /\ profile.topicId = t /\ deadline.topicId = t /\ deadline.age = 0
    BY MaxAgeType DEF Profile, Deadline
  <1> HIDE DEF profile, deadline
  <1>4. /\ profiles' \in Seq(Profile) /\ deadlines' \in Seq(Deadline)
        /\ Len(profiles') = n + 1 /\ Len(deadlines') = n + 1
        /\ DOMAIN profiles' = 1 .. n + 1 /\ DOMAIN deadlines' = 1 .. n + 1
        /\ profiles'[n + 1] = profile /\ deadlines'[n + 1] = deadline
        /\ \A i \in 1 .. n : profiles'[i] = profiles[i] /\ deadlines'[i] = deadlines[i]
    BY <1>1, <1>2, <1>3
  <1>5. \A i \in 1 .. n : profiles[i].topicId # t /\ deadlines[i].topicId # t
    <2>1. \A i \in 1 .. n : profiles[i].topicId # t
      BY <1>1 DEF Found
    <2> QED
      BY <1>2, <2>1, RowFacts
  <1>6. QosTypeOK'
    <2>1. profiles' \in SeqOf(Profile, MaxProfiles) /\ deadlines' \in SeqOf(Deadline, MaxProfiles)
      <3>1. Len(profiles') <= MaxProfiles /\ Len(deadlines') <= MaxProfiles
        BY <1>1, <1>2, <1>4
      <3> QED
        BY <1>2, <1>4, <3>1, BoundedIsSeq
    <2>2. ASSUME NEW i \in 1 .. n + 1, NEW j \in 1 .. n + 1
          PROVE  profiles'[i].topicId = deadlines'[j].topicId <=> i = j
      <3>1. CASE i \in 1 .. n /\ j \in 1 .. n
        <4>1. i \in DOMAIN profiles /\ j \in DOMAIN profiles
          BY <1>2, <3>1
        <4>2. profiles[i].topicId = deadlines[j].topicId <=> i = j
          BY <1>2, <4>1 DEF QosTypeOK
        <4> QED
          BY <1>4, <3>1, <4>2
      <3>2. CASE i = n + 1 /\ j = n + 1
        BY <1>3, <1>4, <3>2
      <3>3. CASE i = n + 1 /\ j \in 1 .. n
        BY <1>3, <1>4, <1>5, <1>2, <3>3
      <3>4. CASE i \in 1 .. n /\ j = n + 1
        BY <1>3, <1>4, <1>5, <1>2, <3>4
      <3>5. i \in 1 .. n \/ i = n + 1
        BY <1>2
      <3>6. j \in 1 .. n \/ j = n + 1
        BY <1>2
      <3> QED
        BY <3>1, <3>2, <3>3, <3>4, <3>5, <3>6
    <2>3. profileCount' = Len(profiles') - 1 /\ profileCount' >= 0
          /\ Len(profiles') = Len(deadlines')
      BY <1>1, <1>2, <1>4
    <2>4. \A i, j \in DOMAIN profiles' :
            profiles'[i].topicId = deadlines'[j].topicId <=> i = j
      BY <1>4, <2>2
    <2>5. profileCount' \in {Len(profiles'), Len(profiles') - 1}
      BY <2>3
    <2>6. UNCHANGED <<check, verdict, wait>>
      BY <1>1
    <2> QED
      BY <1>2, <2>1, <2>3, <2>4, <2>5, <2>6 DEF QosTypeOK, Profile, Deadline
  <1>7. \A i \in 1 .. n : \A g : Overdue(i, g)' = Overdue(i, g)
    BY <1>4 DEF Overdue
  <1>8. FreshInv'
    <2>1. \A i \in 1 .. n + 1 : i > n => i = n + 1
      BY <1>2
    <2> QED
      BY <1>1, <1>3, <1>4, <2>1 DEF FreshInv
  <1>9. WalkInv'
    <2>1. SUFFICES ASSUME check.pc = "rows" PROVE WalkInv'
      BY <1>1 DEF WalkInv
    <2>2. check.idx \in Nat /\ check.idx <= n + 1
      BY <1>1, <2>1 DEF QosInv, QosTypeOK, WalkInv, Idle
    <2>3. \A i \in 1 .. check.idx - 1 : i \in 1 .. n /\ ~Overdue(i, check.lag)
      BY <1>2, <2>1, <2>2 DEF QosInv, WalkInv
    <2>4. \A i \in 1 .. check.idx - 1 : ~Overdue(i, check.lag)'
      BY <1>1, <1>4, <2>3 DEF Overdue
    <2>5. check.idx <= profileCount + 1 /\ check.lag = wait
      BY <2>1 DEF QosInv, WalkInv
    <2> QED
      BY <1>1, <2>4, <2>5 DEF WalkInv
  <1>10. VerdictInv'
    <2>1. VerdictInv /\ VerdictAge' = VerdictAge
      BY <1>1 DEF QosInv, VerdictAge
    <2>2. ASSUME NEW i \in 1 .. profileCount PROVE Named(i)' = Named(i)
      <3>1. \A j \in 1 .. i : profiles'[j] = profiles[j]
        BY <1>1, <1>2, <1>4
      <3> QED
        BY <1>1, <3>1 DEF Named
    <2>3. ASSUME NEW i \in 1 .. profileCount', Overdue(i, VerdictAge)' PROVE Named(i)'
      <3>1. i \in 1 .. profileCount /\ i \in 1 .. n
        BY <1>1, <1>2
      <3>2. Overdue(i, VerdictAge)
        BY <1>4, <2>1, <2>3, <3>1 DEF Overdue
      <3> QED
        BY <2>1, <2>2, <3>1, <3>2 DEF VerdictInv
    <2> QED
      BY <2>3 DEF VerdictInv
  <1> QED
    BY <1>6, <1>8, <1>9, <1>10 DEF QosInv

\* ++profileCount_: the row that now counts is fresh.
LEMMA CountInv == ASSUME QosInv, RegisterCount PROVE QosInv'
  <1>1. /\ profileCount < Len(profiles) /\ profileCount' = profileCount + 1
        /\ UNCHANGED <<profiles, deadlines, check, verdict, wait>>
    BY DEF RegisterCount
  <1>2. QosTypeOK /\ profileCount \in Nat /\ Len(profiles) \in Nat
        /\ Len(deadlines) = Len(profiles) /\ deadlines \in Seq(Deadline)
        /\ wait \in Nat /\ Period \in Nat
    BY QosFacts DEF QosInv
  <1>3. profileCount' = Len(profiles) /\ profileCount + 1 \in 1 .. Len(profiles)
    BY <1>1, <1>2 DEF QosTypeOK
  <1>4. QosTypeOK'
    BY <1>1, <1>2, <1>3 DEF QosTypeOK
  <1>5. FreshInv'
    BY <1>1, <1>2, <1>3 DEF FreshInv
  <1>6. WalkInv'
    <2>1. check.pc = "rows" => check.idx \in Nat
      BY <1>2 DEF QosTypeOK, Idle
    <2> QED
      BY <1>1, <1>2, <2>1 DEF QosInv, WalkInv, Overdue
  <1>7. VerdictInv'
    <2>1. ASSUME NEW g \in Nat PROVE ~Overdue(profileCount + 1, g)
      <3>1. deadlines[profileCount + 1].age = 0
        BY <1>2, <1>3 DEF QosInv, FreshInv
      <3>2. /\ profiles[profileCount + 1].deadlineMs # kDeadlineInfiniteMs =>
                 profiles[profileCount + 1].deadlineMs \in Nat
        BY <1>2, <1>3, RowFacts
      <3> QED
        BY <3>1, <3>2 DEF Overdue
    <2>2. VerdictAge' = VerdictAge /\ VerdictAge \in Nat
      BY <1>1, <1>2 DEF VerdictAge
    <2>3. ASSUME NEW i \in 1 .. profileCount', Overdue(i, VerdictAge) PROVE Named(i)
      <3>1. i # profileCount + 1
        BY <2>1, <2>2, <2>3
      <3>2. i \in 1 .. profileCount
        BY <1>1, <1>2, <3>1
      <3> QED
        BY <2>3, <3>2 DEF QosInv, VerdictInv
    <2> QED
      BY <1>1, <2>2, <2>3 DEF VerdictInv, Overdue, Named
  <1> QED
    BY <1>4, <1>5, <1>6, <1>7 DEF QosInv

\* ValidateSample() makes one row younger.
LEMMA SampleInv == ASSUME QosInv, NEW t \in Topic, ValidateSample(t) PROVE QosInv'
  <1> DEFINE S == {i \in DOMAIN deadlines : deadlines[i].topicId = t}
             m == Min(S)
  <1>1. /\ Found(t) # {} /\ deadlines' = [deadlines EXCEPT ![m].age = 0]
        /\ UNCHANGED <<profiles, profileCount, check, verdict, wait>>
    BY DEF ValidateSample
  <1>2. /\ QosTypeOK /\ deadlines \in Seq(Deadline) /\ Len(deadlines) = Len(profiles)
        /\ Len(deadlines) \in Nat /\ profileCount \in 0 .. Len(profiles)
        /\ Len(deadlines) <= MaxProfiles /\ MaxProfiles \in Nat
        /\ wait \in Nat /\ Period \in Nat
    BY QosFacts DEF QosInv
  <1>3. m \in DOMAIN deadlines
    <2>1. PICK i \in 1 .. profileCount : profiles[i].topicId = t
      BY <1>1 DEF Found
    <2>2. i \in 1 .. Len(profiles) /\ i \in DOMAIN deadlines
      BY <1>2
    <2>3. deadlines[i].topicId = t
      BY <1>2, <2>1, <2>2, RowFacts
    <2>4. S # {} /\ S \in SUBSET Nat
      BY <1>2, <2>2, <2>3
    <2>5. m \in S
      BY <2>4, MinIsLeast
    <2> QED
      BY <2>5
  <1> HIDE DEF m
  <1>4. /\ deadlines' \in Seq(Deadline) /\ Len(deadlines') = Len(deadlines)
        /\ DOMAIN deadlines' = DOMAIN deadlines
    <2>1. deadlines[m] \in Deadline
      BY <1>2, <1>3
    <2>2. [deadlines[m] EXCEPT !.age = 0] \in Deadline
      BY <2>1, MaxAgeType DEF Deadline
    <2>3. deadlines' = [deadlines EXCEPT ![m] = [deadlines[m] EXCEPT !.age = 0]]
      BY <1>1
    <2> QED
      BY <1>2, <1>3, <2>2, <2>3
  <1>5. \A i \in 1 .. Len(profiles) : /\ deadlines'[i].topicId = deadlines[i].topicId
                                      /\ deadlines'[i].age \in {0, deadlines[i].age}
    <2>1. ASSUME NEW i \in 1 .. Len(profiles)
          PROVE  /\ deadlines'[i].topicId = deadlines[i].topicId
                 /\ deadlines'[i].age \in {0, deadlines[i].age}
      <3>1. i \in DOMAIN deadlines /\ deadlines[i] \in Deadline
        BY <1>2, RowFacts
      <3>2. deadlines'[i] = IF i = m THEN [deadlines[m] EXCEPT !.age = 0] ELSE deadlines[i]
        BY <1>1, <1>3, <3>1
      <3> QED
        BY <3>1, <3>2 DEF Deadline
    <2> QED
      BY <2>1
  <1>6. QosTypeOK'
    <2>1. deadlines' \in SeqOf([topicId : Topic, age : 0 .. MaxAge], MaxProfiles)
      BY <1>2, <1>4, BoundedIsSeq DEF Deadline
    <2>2. DOMAIN profiles = 1 .. Len(profiles)
      BY <1>2, QosFacts
    <2> QED
      BY <1>1, <1>2, <1>4, <1>5, <2>1, <2>2 DEF QosTypeOK
  <1>7. ASSUME NEW i \in 1 .. Len(profiles), NEW g \in Nat, ~Overdue(i, g),
               profiles[i].deadlineMs # kDeadlineInfiniteMs
        PROVE  ~(deadlines'[i].age > profiles[i].deadlineMs + g)
    <2>1. profiles[i].deadlineMs \in Nat /\ deadlines[i].age \in Nat
      BY <1>2, <1>7, RowFacts
    <2> QED
      BY <1>5, <1>7, <2>1 DEF Overdue
  <1>8. FreshInv'
    BY <1>1, <1>2, <1>4, <1>5 DEF QosInv, FreshInv
  <1>9. WalkInv'
    <2>1. SUFFICES ASSUME check.pc = "rows" PROVE WalkInv'
      BY <1>1 DEF WalkInv
    <2>2. check.idx \in Nat /\ check.idx <= profileCount + 1 /\ check.lag \in Nat
      BY <1>2, <2>1 DEF QosInv, QosTypeOK, WalkInv, Idle
    <2>3. ASSUME NEW i \in 1 .. check.idx - 1 PROVE ~Overdue(i, check.lag)'
      <3>1. i \in 1 .. Len(profiles) /\ ~Overdue(i, check.lag)
        BY <1>2, <2>1, <2>2 DEF QosInv, WalkInv
      <3> QED
        BY <1>1, <1>7, <2>2, <3>1 DEF Overdue
    <2> QED
      BY <1>1, <2>1, <2>3 DEF QosInv, WalkInv
  <1>10. VerdictInv'
    <2>1. VerdictAge' = VerdictAge /\ VerdictAge \in Nat
      BY <1>1, <1>2 DEF VerdictAge
    <2>2. ASSUME NEW i \in 1 .. profileCount, Overdue(i, VerdictAge)' PROVE Named(i)
      <3>1. i \in 1 .. Len(profiles)
        BY <1>2
      <3>2. Overdue(i, VerdictAge)
        BY <1>1, <1>7, <2>1, <2>2, <3>1 DEF Overdue
      <3> QED
        BY <3>2 DEF QosInv, VerdictInv
    <2> QED
      BY <1>1, <2>2 DEF VerdictInv, Named
  <1> QED
    BY <1>6, <1>8, <1>9, <1>10 DEF QosInv

\* A check begins: the verdict is one period older than the next one will be.
LEMMA BeginInv == ASSUME QosInv, CheckDeadlines PROVE QosInv'
  <1>1. /\ check.pc = "idle" /\ wait = Period /\ wait' = 0
        /\ check' = [pc |-> "rows", idx |-> 1, lag |-> 0]
        /\ UNCHANGED <<profiles, deadlines, profileCount, verdict>>
    BY DEF CheckDeadlines
  <1>2. QosTypeOK /\ MaxProfiles \in Nat /\ MaxLag \in Nat /\ Period \in Nat
        /\ profileCount \in Nat
    BY QosFacts DEF QosInv
  <1>3. QosTypeOK'
    <2>1. 1 \in 1 .. MaxProfiles + 1 /\ 0 \in 0 .. MaxLag /\ 0 \in 0 .. Period
      BY <1>2
    <2> QED
      BY <1>1, <1>2, <2>1 DEF QosTypeOK
  <1>4. FreshInv'
    BY <1>1 DEF QosInv, FreshInv
  <1>5. WalkInv'
    BY <1>1, <1>2 DEF WalkInv
  <1>6. VerdictInv'
    <2>1. VerdictAge = Period /\ VerdictAge' = Period
      BY <1>1, <1>2 DEF VerdictAge
    <2> QED
      BY <1>1, <2>1 DEF QosInv, VerdictInv, Overdue, Named
  <1> QED
    BY <1>3, <1>4, <1>5, <1>6 DEF QosInv

\* What CheckRow asks of a row is whether it was late when the clock was read.
LEMMA LateIsOverdue ==
  ASSUME QosInv, check.pc = "rows", NEW i \in 1 .. profileCount
  PROVE  profiles[i].deadlineMs # kDeadlineInfiniteMs /\ Late(i)
           <=> Overdue(i, check.lag)
  <1>1. QosTypeOK /\ i \in 1 .. Len(profiles)
    BY QosFacts DEF QosInv
  <1>2. check.lag \in Nat
    BY <1>1, QosFacts DEF QosTypeOK, Idle
  <1>3. profiles[i].deadlineMs # kDeadlineInfiniteMs =>
          profiles[i].deadlineMs \in Nat /\ deadlines[i].age \in Nat
    BY <1>1, RowFacts
  <1> QED
    BY <1>2, <1>3 DEF Late, Overdue

\* A check ends: the verdict is about the moment the check began.
LEMMA VerdictTrue ==
  ASSUME QosInv, CheckRow \/ CheckOk, check'.pc = "idle"
  PROVE  LET Missed == {i \in 1 .. profileCount : Overdue(i, check.lag)}
         IN  IF Missed = {} THEN verdict' = "ok"
             ELSE verdict' = profiles[Min(Missed)].topicId
  <1> DEFINE Missed == {i \in 1 .. profileCount : Overdue(i, check.lag)}
  <1>1. check.pc = "rows" /\ profileCount \in Nat /\ check.idx \in Nat /\ check.idx >= 1
    BY QosFacts DEF CheckRow, CheckOk, QosInv, QosTypeOK, Idle
  <1>2. \A i \in 1 .. check.idx - 1 : ~Overdue(i, check.lag)
    BY <1>1 DEF QosInv, WalkInv
  <1>3. CASE CheckOk
    <2>1. check.idx > profileCount /\ verdict' = "ok"
      BY <1>3 DEF CheckOk
    <2>2. Missed = {}
      BY <1>1, <1>2, <2>1
    <2> QED
      BY <2>1, <2>2
  <1>4. CASE CheckRow
    <2> DEFINE i == check.idx
    <2>1. i \in 1 .. profileCount
      BY <1>1, <1>4 DEF CheckRow
    <2>2. profiles[i].deadlineMs # kDeadlineInfiniteMs /\ Late(i)
          /\ verdict' = profiles[i].topicId
      <3>1. check \in [pc : {"rows"}, idx : 1 .. MaxProfiles + 1, lag : 0 .. MaxLag]
        BY <1>1 DEF QosInv, QosTypeOK, Idle
      <3>2. [check EXCEPT !.idx = @ + 1].pc = "rows"
        BY <3>1
      <3> QED
        BY <1>4, <3>2 DEF CheckRow
    <2>3. i \in Missed
      BY <1>1, <2>1, <2>2, LateIsOverdue
    <2>4. \A j \in Missed : i <= j
      BY <1>1, <1>2, <2>1
    <2>5. Missed \in SUBSET Nat
      BY <1>1
    <2> HIDE DEF Missed
    <2>6. Min(Missed) = i /\ Missed # {}
      BY <2>3, <2>4, <2>5, MinIs
    <2> QED
      BY <2>2, <2>6 DEF Missed
  <1> QED
    BY <1>3, <1>4

\* The steps of a check.
LEMMA WalkStepInv == ASSUME QosInv, CheckRow \/ CheckOk PROVE QosInv'
  <1>1. UNCHANGED <<profiles, deadlines, profileCount, wait>> /\ check.pc = "rows"
    BY DEF CheckRow, CheckOk
  <1>2. /\ QosTypeOK /\ MaxProfiles \in Nat /\ MaxLag \in Nat /\ Period \in Nat
        /\ profileCount \in 0 .. Len(profiles) /\ Len(profiles) \in 0 .. MaxProfiles
        /\ wait \in Nat
    BY QosFacts DEF QosInv
  <1>3. check \in [pc : {"rows"}, idx : 1 .. MaxProfiles + 1, lag : 0 .. MaxLag]
        /\ check.lag = wait
    BY <1>1 DEF QosInv, QosTypeOK, WalkInv, Idle
  <1>4. FreshInv'
    BY <1>1 DEF QosInv, FreshInv
  <1>5. CASE check' = [check EXCEPT !.idx = @ + 1] /\ UNCHANGED verdict /\ CheckRow
                /\ ~Overdue(check.idx, check.lag)
    <2>1. check.idx \in 1 .. profileCount /\ check.idx + 1 \in 1 .. MaxProfiles + 1
      BY <1>2, <1>3, <1>5 DEF CheckRow
    <2>2. /\ check' \in [pc : {"rows"}, idx : 1 .. MaxProfiles + 1, lag : 0 .. MaxLag]
          /\ check'.idx = check.idx + 1 /\ check'.lag = check.lag /\ check'.pc = "rows"
      BY <1>3, <1>5, <2>1
    <2>3. QosTypeOK'
      BY <1>1, <1>2, <1>5, <2>2 DEF QosTypeOK
    <2>4. WalkInv'
      <3>1. \A i \in 1 .. check.idx : i \in 1 .. check.idx - 1 \/ i = check.idx
        BY <2>1, <1>2
      <3>2. \A i \in 1 .. check.idx : ~Overdue(i, check.lag)
        BY <1>1, <1>5, <3>1 DEF QosInv, WalkInv
      <3>3. check'.idx - 1 = check.idx /\ check'.idx <= profileCount + 1
        BY <1>2, <2>1, <2>2
      <3> QED
        BY <1>1, <1>3, <2>2, <3>2, <3>3 DEF WalkInv, Overdue
    <2>5. VerdictInv'
      BY <1>1, <1>5, <2>2 DEF QosInv, VerdictInv, VerdictAge, Overdue, Named
    <2> QED
      BY <1>4, <2>3, <2>4, <2>5 DEF QosInv
  <1>6. CASE check' = Idle
    <2> DEFINE Missed == {i \in 1 .. profileCount : Overdue(i, check.lag)}
    <2>1. check'.pc = "idle"
      BY <1>6 DEF Idle
    <2>2. IF Missed = {} THEN verdict' = "ok"
          ELSE verdict' = profiles[Min(Missed)].topicId
      BY <2>1, VerdictTrue
    <2>3. Missed \in SUBSET Nat /\ Missed \subseteq 1 .. profileCount
      BY <1>2
    <2>4. \A i \in Missed : Min(Missed) \in Missed /\ Min(Missed) <= i
      <3> HIDE DEF Missed
      <3> QED
        BY <2>3, MinIsLeast
    <2>5. QosTypeOK'
      <3>1. verdict' \in Topic \cup {"ok", "none"}
        <4>1. CASE Missed = {}
          BY <2>2, <4>1
        <4>2. CASE Missed # {}
          <5>1. Min(Missed) \in 1 .. Len(profiles)
            BY <1>2, <2>3, <2>4, <4>2
          <5> QED
            BY <1>2, <2>2, <4>2, <5>1, RowFacts
        <4> QED
          BY <4>1, <4>2
      <3> QED
        BY <1>1, <1>2, <1>6, <3>1 DEF QosTypeOK
    <2>6. WalkInv'
      BY <2>1 DEF WalkInv
    <2>7. VerdictInv'
      <3>1. VerdictAge' = check.lag
        BY <1>1, <1>3, <2>1 DEF VerdictAge
      <3>2. ASSUME NEW i \in 1 .. profileCount, Overdue(i, check.lag)
            PROVE  \E j \in 1 .. i : verdict' = profiles[j].topicId
        <4>1. i \in Missed
          BY <3>2
        <4>2. Min(Missed) \in 1 .. i
          BY <1>2, <2>3, <2>4, <4>1
        <4> QED
          BY <2>2, <4>1, <4>2
      <3> QED
        BY <1>1, <3>1, <3>2 DEF VerdictInv, Overdue, Named
    <2> QED
      BY <1>4, <2>5, <2>6, <2>7 DEF QosInv
  <1>7. CASE CheckOk
    BY <1>6, <1>7 DEF CheckOk
  <1>8. CASE CheckRow
    <2>1. check.idx \in 1 .. profileCount
      BY <1>2, <1>3, <1>8 DEF CheckRow
    <2> QED
      BY <1>1, <1>5, <1>6, <1>8, <2>1, LateIsOverdue DEF CheckRow
  <1> QED
    BY <1>7, <1>8

\* Every step.
LEMMA QosStep == ASSUME QosInv, [Next]_vars PROVE QosInv'
  <1>1. CASE UNCHANGED vars
    BY <1>1 DEF vars, QosInv, QosTypeOK, FreshInv, WalkInv, VerdictInv, VerdictAge,
                Overdue, Named
  <1>2. CASE Next
    BY <1>2, TickInv, FillInv, CountInv, SampleInv, BeginInv, WalkStepInv DEF Next
  <1> QED
    BY <1>1, <1>2

\* The whole component.
THEOREM QosCorrect == Spec => []QosInv
  BY QosInitInv, QosStep, PTL DEF Spec

\* The types and the pairing of the rows of the two tables.
THEOREM TypeCorrect == Spec => []QosTypeOK
  <1>1. QosInv => QosTypeOK
    BY DEF QosInv
  <1> QED
    BY <1>1, QosCorrect, PTL

\* A topic that stays late is named by the latest check, or hidden by one that
\* was registered before it, at the latest one period and one check after its
\* deadline.
THEOREM LateReported == Spec => []MissReported
  <1>1. ASSUME QosInv PROVE MissReported
    <2>1. SUFFICES ASSUME NEW i \in 1 .. profileCount, Overdue(i, Period + MaxLag)
                   PROVE  Named(i)
      BY DEF MissReported, Named
    <2>2. /\ QosTypeOK /\ i \in 1 .. Len(profiles) /\ wait \in 0 .. Period
          /\ Period \in Nat /\ MaxLag \in Nat
      BY <1>1, <2>1, QosFacts DEF QosInv
    <2>3. VerdictAge \in Nat /\ VerdictAge <= Period + MaxLag
      <3>1. check.pc # "idle" => check.pc = "rows" /\ wait <= MaxLag
        BY <1>1, <2>2 DEF QosInv, WalkInv, QosTypeOK, Idle
      <3> QED
        BY <2>2, <3>1 DEF VerdictAge
    <2>4. Overdue(i, VerdictAge)
      <3>1. profiles[i].deadlineMs \in Nat /\ deadlines[i].age \in Nat
        BY <2>1, <2>2, RowFacts DEF Overdue
      <3> QED
        BY <2>1, <2>2, <2>3, <3>1 DEF Overdue
    <2> QED
      BY <1>1, <2>1, <2>4 DEF QosInv, VerdictInv
  <1> QED
    BY <1>1, QosCorrect, PTL

\* However samples and registrations run beside it, a check names the first topic
\* that was late when it read the clock and has had no sample since.
THEOREM ExactVerdicts == Spec => VerdictExact
  <1>1. ASSUME QosInv, [Next]_vars, check.pc = "rows", check'.pc = "idle"
        PROVE  LET Missed == {i \in 1 .. profileCount : Overdue(i, check.lag)}
               IN  IF Missed = {} THEN verdict' = "ok"
                   ELSE verdict' = profiles[Min(Missed)].topicId
    <2>1. CheckRow \/ CheckOk
      <3>1. ~(check' = check)
        BY <1>1
      <3>2. ~Tick
        BY <1>1 DEF Tick, QosInv, QosTypeOK, Idle
      <3> QED
        BY <1>1, <3>1, <3>2
           DEF Next, vars, RegisterFill, RegisterCount, ValidateSample, CheckDeadlines
    <2> QED
      BY <1>1, <2>1, VerdictTrue
  <1> QED
    BY <1>1, QosCorrect, PTL DEF Spec, VerdictExact
=============================================================================
