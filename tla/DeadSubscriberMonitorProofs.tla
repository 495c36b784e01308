--------------------- MODULE DeadSubscriberMonitorProofs ---------------------
(***************************************************************************)
(* Proofs about the liveness table, for every number of entries, of        *)
(* subscribers and of heartbeat threads, every timeout, period and lag of  *)
(* a scan: the entries stay in range, only the dead are evicted, no        *)
(* subscriber is lost without its callback, and no silent one stays.       *)
(***************************************************************************)
EXTENDS DeadSubscriberMonitor, FiniteSetTheorems, TLAPS

-----------------------------------------------------------------------------
(* The invariant.                                                          *)

\* The types of all variables.
TypeInv ==
  /\ key \in [Index -> Key \cup {NoKey}] /\ onDead \in [Index -> BOOLEAN]
  /\ age \in [Index -> 0 .. MaxAge] /\ health \in [Index -> Health]
  /\ active \in [Index -> BOOLEAN] /\ initialised \in BOOLEAN
  /\ spc \in {"idle", "look", "warn", "evict", "call", "callback"}
  /\ pos \in 0 .. MaxSubs /\ lag \in 0 .. MaxLag /\ wait \in 0 .. Period
  /\ victim \in Key \cup {NoKey} /\ cb \in BOOLEAN
  /\ bpc \in [Beater -> {"idle", "find", "beat", "alive"}]
  /\ arg \in [Beater -> Key \cup {NoKey}] /\ idx \in [Beater -> 0 .. MaxSubs]
  /\ subscribed \subseteq Key /\ since \in [Key -> 0 .. Dead + 1]

\* Where the scan and the heartbeat threads are; nothing runs before Init().
PlaceInv ==
  /\ spc \in {"warn", "evict", "call", "callback"} => pos \in Index
  /\ \A b \in Beater : bpc[b] \in {"beat", "alive"} => idx[b] \in Index
  /\ ~initialised => /\ spc = "idle" /\ subscribed = {} /\ lag = 0
                     /\ \A i \in Index : ~active[i]

\* An entry has a key and a callback exactly while it is active, and no two
\* have the same key.
PairInv ==
  /\ \A i \in Index : active[i] = (key[i] # NoKey) /\ onDead[i] = active[i]
  /\ \A i, j \in Index : active[i] /\ active[j] /\ key[i] = key[j] => i = j

\* Who is subscribed has an entry, or has lost it and is about to be called.
SubInv ==
  /\ \A k \in Key : k \in subscribed <=> Known(k) \/ (spc = "call" /\ k = victim)
  /\ spc = "call" => cb /\ victim \in Key /\ ~Known(victim)

\* A time stamp is never older than the last heartbeat that reached the entry,
\* once since has not run out.
SinceInv ==
  /\ \A i \in Index : active[i] => age[i] <= since[key[i]] \/ since[key[i]] > Dead
  /\ spc = "evict" => active[pos] /\ since[key[pos]] > Dead
  /\ spc = "call" => since[victim] > Dead

\* The entries that the scan in progress has dealt with; all of them between
\* two scans.
Scanned(i) == \/ spc = "idle" \/ i < pos
              \/ i = pos /\ spc \in {"warn", "call", "callback"}

\* How old a time stamp may be: it was in time when the last scan, or for an
\* entry not yet looked at the one before it, read the clock.
AgeInv ==
  /\ spc # "idle" => lag = wait
  /\ \A i \in Index : active[i] =>
       age[i] <= Dead + wait + (IF Scanned(i) THEN 0 ELSE Period)

LivenessInv == TypeInv /\ PlaceInv /\ PairInv /\ SubInv /\ SinceInv /\ AgeInv

\* The constants as the arithmetic uses them.
LEMMA TimeFacts ==
  /\ Interval \in Nat /\ Dead \in Nat /\ Period \in Nat /\ MaxLag \in Nat /\ MaxSubs \in Nat
  /\ Interval < Dead /\ Period > 0 /\ MaxSubs > 0
  /\ MaxAge \in Nat /\ MaxAge = Dead + Period + MaxLag + 1
  /\ Index = 0 .. MaxSubs - 1
  /\ NoKey \notin Key
  <1>1. Interval \in Nat /\ Dead \in Nat /\ Period \in Nat /\ MaxLag \in Nat
        /\ Interval < Dead /\ Period > 0
    BY TimeAssumption
  <1> QED
    BY <1>1, TableAssumption, KeyAssumption DEF MaxAge, Index

\* An age that stayed behind the silence it measures still does after a tick,
\* which ends at the timeout.
LEMMA AgesKeepUp ==
  \A a, s, a1, s1, dead \in Nat :
    /\ a <= s \/ s > dead
    /\ a1 <= a + 1
    /\ s1 = s + 1 \/ (s = dead + 1 /\ s1 >= s)
    => a1 <= s1 \/ s1 > dead
  OBVIOUS

\* The table before Init().
LEMMA LivenessInit == Init => LivenessInv
  <1> SUFFICES ASSUME Init PROVE LivenessInv
    OBVIOUS
  <1>1. TypeInv
    <2>1. /\ MaxAge \in 0 .. MaxAge /\ 0 \in 0 .. MaxSubs /\ 0 \in 0 .. MaxLag
          /\ 0 \in 0 .. Period /\ Dead + 1 \in 0 .. Dead + 1
      BY TimeFacts
    <2> QED
      BY <2>1 DEF Init, TypeInv, Health
  <1>2. PlaceInv /\ PairInv /\ SubInv /\ SinceInv /\ AgeInv
    BY DEF Init, PlaceInv, PairInv, SubInv, SinceInv, AgeInv, Known, Holds
  <1> QED
    BY <1>1, <1>2 DEF LivenessInv

\* The constructor's table becomes the table of Init().
LEMMA InitMonitorInv == ASSUME LivenessInv, InitMonitor PROVE LivenessInv'
  <1>1. /\ key' = [i \in Index |-> NoKey] /\ onDead' = [i \in Index |-> FALSE]
        /\ age' = [i \in Index |-> 0] /\ health' = [i \in Index |-> "kAlive"]
        /\ active' = [i \in Index |-> FALSE] /\ initialised' = TRUE
        /\ UNCHANGED <<scanVars, wait, beatVars, ghostVars>>
        /\ spc = "idle" /\ subscribed = {}
    BY DEF InitMonitor, LivenessInv, PlaceInv
  <1>2. TypeInv'
    BY <1>1, TimeFacts
       DEF LivenessInv, TypeInv, Health, scanVars, beatVars, ghostVars
  <1>3. (PlaceInv /\ PairInv /\ SubInv /\ SinceInv /\ AgeInv)'
    BY <1>1 DEF LivenessInv, PlaceInv, PairInv, SubInv, SinceInv, AgeInv, Known, Holds,
                scanVars, beatVars, ghostVars
  <1> QED
    BY <1>2, <1>3 DEF LivenessInv

\* Everything ages together.
LEMMA TickInv == ASSUME LivenessInv, Tick PROVE LivenessInv'
  <1>1. /\ wait < Period /\ initialised
        /\ spc # "idle" => lag < MaxLag
        /\ wait' = wait + 1 /\ lag' = IF spc = "idle" THEN lag ELSE lag + 1
        /\ age' = [i \in Index |-> Older(age[i], MaxAge)]
        /\ since' = [k \in Key |-> Older(since[k], Dead + 1)]
        /\ UNCHANGED <<key, onDead, health, active, initialised, spc, pos, victim, cb,
                       bpc, arg, idx, subscribed>>
    BY DEF Tick, beatVars
  <1>2. /\ age \in [Index -> 0 .. MaxAge] /\ since \in [Key -> 0 .. Dead + 1]
        /\ lag \in 0 .. MaxLag /\ wait \in 0 .. Period
    BY DEF LivenessInv, TypeInv
  <1>3. ASSUME NEW i \in Index
        PROVE  /\ age[i] \in 0 .. MaxAge /\ age'[i] \in 0 .. MaxAge
               /\ age'[i] <= age[i] + 1
    <2>1. age[i] \in 0 .. MaxAge
      BY <1>2
    <2>2. age'[i] = IF age[i] < MaxAge THEN age[i] + 1 ELSE MaxAge
      BY <1>1 DEF Older
    <2> QED
      BY <2>1, <2>2, TimeFacts
  <1>4. ASSUME NEW k \in Key
        PROVE  /\ since[k] \in 0 .. Dead + 1 /\ since'[k] \in 0 .. Dead + 1
               /\ \/ since'[k] = since[k] + 1
                  \/ since[k] = Dead + 1 /\ since'[k] >= since[k]
    <2>1. since[k] \in 0 .. Dead + 1
      BY <1>2
    <2>2. since'[k] = IF since[k] < Dead + 1 THEN since[k] + 1 ELSE Dead + 1
      BY <1>1 DEF Older
    <2> QED
      BY <2>1, <2>2, TimeFacts
  <1>5. TypeInv'
    <2>1. wait' \in 0 .. Period /\ lag' \in 0 .. MaxLag
      BY <1>1, TimeFacts DEF LivenessInv, TypeInv
    <2>2. age' \in [Index -> 0 .. MaxAge] /\ since' \in [Key -> 0 .. Dead + 1]
      BY <1>1, <1>3, <1>4
    <2> QED
      BY <1>1, <2>1, <2>2 DEF LivenessInv, TypeInv
  <1>6. (PlaceInv /\ PairInv /\ SubInv)'
    BY <1>1 DEF LivenessInv, PlaceInv, PairInv, SubInv, Known, Holds
  <1>7. SinceInv'
    <2>1. ASSUME NEW i \in Index, active[i]
          PROVE  age'[i] <= since'[key[i]] \/ since'[key[i]] > Dead
      <3>1. key[i] \in Key
        BY <2>1 DEF LivenessInv, TypeInv, PairInv
      <3>2. age[i] <= since[key[i]] \/ since[key[i]] > Dead
        BY <2>1 DEF LivenessInv, SinceInv
      <3>3. age'[i] <= age[i] + 1 /\ age[i] \in Nat /\ age'[i] \in Nat
        BY <1>3, TimeFacts
      <3>4. /\ since[key[i]] \in Nat /\ since'[key[i]] \in Nat
            /\ \/ since'[key[i]] = since[key[i]] + 1
               \/ since[key[i]] = Dead + 1 /\ since'[key[i]] >= since[key[i]]
        BY <1>4, <3>1, TimeFacts
      <3>5. Dead \in Nat
        BY TimeFacts
      <3> QED
        BY <3>2, <3>3, <3>4, <3>5, AgesKeepUp
    <2>2. ASSUME NEW k \in Key, since[k] > Dead PROVE since'[k] > Dead
      BY <1>4, <2>2, TimeFacts
    <2>3. spc = "evict" => active[pos] /\ key[pos] \in Key /\ since[key[pos]] > Dead
      BY DEF LivenessInv, SinceInv, PlaceInv, PairInv, TypeInv
    <2>4. spc = "call" => victim \in Key /\ since[victim] > Dead
      BY DEF LivenessInv, SinceInv, SubInv
    <2> QED
      BY <1>1, <2>1, <2>2, <2>3, <2>4 DEF SinceInv
  <1>8. AgeInv'
    <2>1. ASSUME NEW i \in Index, active[i]
          PROVE  age'[i] <= Dead + wait' + (IF Scanned(i) THEN 0 ELSE Period)
      <3>1. age[i] <= Dead + wait + (IF Scanned(i) THEN 0 ELSE Period)
        BY <2>1 DEF LivenessInv, AgeInv
      <3>2. age'[i] <= age[i] + 1 /\ age[i] \in Nat /\ age'[i] \in Nat
        BY <1>3, TimeFacts
      <3>3. wait' = wait + 1 /\ wait \in Nat
        BY <1>1, TimeFacts DEF LivenessInv, TypeInv
      <3> QED
        BY <3>1, <3>2, <3>3, TimeFacts
    <2>2. spc # "idle" => lag' = wait'
      BY <1>1 DEF LivenessInv, AgeInv
    <2> QED
      BY <1>1, <2>1, <2>2 DEF AgeInv, Scanned
  <1> QED
    BY <1>5, <1>6, <1>7, <1>8 DEF LivenessInv

\* Register() takes a free entry for a key that has none.
LEMMA RegisterInv == ASSUME LivenessInv, NEW k \in Key, Register(k) PROVE LivenessInv'
  <1>1. PICK i \in Index :
          /\ Free(i)
          /\ active' = [active EXCEPT ![i] = TRUE]
          /\ key' = [key EXCEPT ![i] = k]
          /\ onDead' = [onDead EXCEPT ![i] = TRUE]
          /\ age' = [age EXCEPT ![i] = 0]
          /\ health' = [health EXCEPT ![i] = "kAlive"]
    BY DEF Register
  <1>2. /\ initialised /\ spc \in {"idle", "callback"} /\ ~Known(k) /\ ~active[i]
        /\ subscribed' = subscribed \cup {k} /\ since' = [since EXCEPT ![k] = 0]
        /\ UNCHANGED <<initialised, spc, pos, lag, victim, cb, wait, bpc, arg, idx>>
    BY <1>1 DEF Register, TaskMayCall, Free, scanVars, beatVars
  <1>3. TypeInv
    BY DEF LivenessInv
  <1>4. /\ active'[i] /\ key'[i] = k /\ onDead'[i] /\ age'[i] = 0
        /\ \A j \in Index : j # i => /\ active'[j] = active[j] /\ key'[j] = key[j]
                                     /\ onDead'[j] = onDead[j] /\ age'[j] = age[j]
    BY <1>1, <1>3 DEF TypeInv
  <1>5. TypeInv'
    <2>1. 0 \in 0 .. MaxAge /\ 0 \in 0 .. Dead + 1
      BY TimeFacts
    <2>2. /\ active' \in [Index -> BOOLEAN] /\ key' \in [Index -> Key \cup {NoKey}]
          /\ onDead' \in [Index -> BOOLEAN] /\ age' \in [Index -> 0 .. MaxAge]
          /\ health' \in [Index -> Health]
      BY <1>1, <1>3, <2>1 DEF TypeInv, Health
    <2>3. since' \in [Key -> 0 .. Dead + 1] /\ subscribed' \subseteq Key
      BY <1>2, <1>3, <2>1 DEF TypeInv
    <2> QED
      BY <1>2, <1>3, <2>2, <2>3 DEF TypeInv
  <1>6. PlaceInv'
    BY <1>2 DEF LivenessInv, PlaceInv
  <1>7. \A j \in Index : active[j] => key[j] # k
    BY <1>2 DEF Known, Holds
  <1>8. PairInv'
    <2>1. k # NoKey
      BY KeyAssumption
    <2>2. \A j \in Index : active'[j] = (key'[j] # NoKey) /\ onDead'[j] = active'[j]
      <3>1. active' \in [Index -> BOOLEAN] /\ onDead' \in [Index -> BOOLEAN]
        BY <1>5 DEF TypeInv
      <3> QED
        BY <1>4, <2>1, <3>1 DEF LivenessInv, PairInv
    <2>3. \A j, l \in Index : active'[j] /\ active'[l] /\ key'[j] = key'[l] => j = l
      BY <1>4, <1>7 DEF LivenessInv, PairInv
    <2> QED
      BY <2>2, <2>3 DEF PairInv
  <1>9. SubInv'
    <2>1. ASSUME NEW m \in Key
          PROVE  (\E j \in Index : active'[j] /\ key'[j] = m) <=> Known(m) \/ m = k
      BY <1>2, <1>4 DEF Known, Holds
    <2> QED
      BY <1>2, <2>1 DEF LivenessInv, SubInv, Known, Holds
  <1>10. SinceInv'
    <2>1. ASSUME NEW j \in Index, active'[j]
          PROVE  age'[j] <= since'[key'[j]] \/ since'[key'[j]] > Dead
      <3>1. CASE j = i
        BY <1>2, <1>3, <1>4, <3>1 DEF TypeInv
      <3>2. CASE j # i
        <4>1. active[j] /\ key[j] # k /\ key[j] \in Key
          BY <1>4, <1>7, <2>1, <3>2 DEF LivenessInv, TypeInv, PairInv
        <4>2. since'[key[j]] = since[key[j]]
          BY <1>2, <1>3, <4>1 DEF TypeInv
        <4> QED
          BY <1>4, <3>2, <4>1, <4>2 DEF LivenessInv, SinceInv
      <3> QED
        BY <3>1, <3>2
    <2> QED
      BY <1>2, <2>1 DEF SinceInv
  <1>11. AgeInv'
    <2>1. ASSUME NEW j \in Index, active'[j]
          PROVE  age'[j] <= Dead + wait + (IF Scanned(j) THEN 0 ELSE Period)
      <3>1. CASE j = i
        BY <1>3, <1>4, <3>1, TimeFacts DEF TypeInv
      <3>2. CASE j # i
        BY <1>4, <2>1, <3>2 DEF LivenessInv, AgeInv
      <3> QED
        BY <3>1, <3>2
    <2> QED
      BY <1>2, <2>1 DEF LivenessInv, AgeInv, Scanned
  <1> QED
    BY <1>5, <1>6, <1>8, <1>9, <1>10, <1>11 DEF LivenessInv

\* What giving back an entry does, whoever does it.
LEMMA ReleaseFacts ==
  ASSUME TypeInv, PairInv, NEW i \in Index, active[i], Release(i)
  PROVE  /\ key' \in [Index -> Key \cup {NoKey}] /\ onDead' \in [Index -> BOOLEAN]
         /\ active' \in [Index -> BOOLEAN]
         /\ key[i] \in Key
         /\ PairInv'
         /\ \A j \in Index : active'[j] <=> active[j] /\ j # i
         /\ \A j \in Index : active'[j] => key'[j] = key[j]
         /\ \A m \in Key : (\E j \in Index : active'[j] /\ key'[j] = m)
                             <=> Known(m) /\ m # key[i]
  <1>1. /\ key' = [key EXCEPT ![i] = NoKey] /\ onDead' = [onDead EXCEPT ![i] = FALSE]
        /\ active' = [active EXCEPT ![i] = FALSE]
    BY DEF Release
  <1>2. /\ key' \in [Index -> Key \cup {NoKey}] /\ onDead' \in [Index -> BOOLEAN]
        /\ active' \in [Index -> BOOLEAN]
    BY <1>1 DEF TypeInv
  <1>3. key[i] \in Key
    BY DEF TypeInv, PairInv
  <1>4. /\ ~active'[i] /\ key'[i] = NoKey /\ ~onDead'[i]
        /\ \A j \in Index : j # i => /\ active'[j] = active[j] /\ key'[j] = key[j]
                                     /\ onDead'[j] = onDead[j]
    BY <1>1 DEF TypeInv
  <1>5. PairInv'
    <2>1. \A j \in Index : active'[j] = (key'[j] # NoKey) /\ onDead'[j] = active'[j]
      BY <1>2, <1>4 DEF PairInv
    <2>2. \A j, l \in Index : active'[j] /\ active'[l] /\ key'[j] = key'[l] => j = l
      BY <1>4 DEF PairInv
    <2> QED
      BY <2>1, <2>2 DEF PairInv
  <1>6. \A j \in Index : active'[j] <=> active[j] /\ j # i
    BY <1>4
  <1>7. \A j \in Index : active'[j] => key'[j] = key[j]
    BY <1>4
  <1>8. ASSUME NEW m \in Key
        PROVE  (\E j \in Index : active'[j] /\ key'[j] = m) <=> Known(m) /\ m # key[i]
    BY <1>6, <1>7 DEF Known, Holds, PairInv
  <1> QED
    BY <1>2, <1>3, <1>5, <1>6, <1>7, <1>8

\* Deregister() gives back the entry of its key.
LEMMA DeregisterInv == ASSUME LivenessInv, NEW k \in Key, Deregister(k) PROVE LivenessInv'
  <1>1. PICK i \in Index : Holds(i, k) /\ Release(i)
    BY DEF Deregister
  <1>2. /\ initialised /\ spc \in {"idle", "callback"} /\ active[i] /\ key[i] = k
        /\ subscribed' = subscribed \ {k}
        /\ UNCHANGED <<age, health, initialised, spc, pos, lag, victim, cb, wait, bpc, arg,
                       idx, since>>
    BY <1>1 DEF Deregister, TaskMayCall, Holds, scanVars, beatVars
  <1>3. TypeInv /\ PairInv
    BY DEF LivenessInv
  <1>4. /\ key' \in [Index -> Key \cup {NoKey}] /\ onDead' \in [Index -> BOOLEAN]
        /\ active' \in [Index -> BOOLEAN] /\ PairInv'
        /\ \A j \in Index : active'[j] => active[j] /\ key'[j] = key[j]
        /\ \A m \in Key : (\E j \in Index : active'[j] /\ key'[j] = m) <=> Known(m) /\ m # k
    BY <1>1, <1>2, <1>3, ReleaseFacts
  <1>5. TypeInv'
    BY <1>2, <1>3, <1>4 DEF TypeInv
  <1>6. PlaceInv'
    BY <1>2 DEF LivenessInv, PlaceInv
  <1>7. SubInv'
    BY <1>2, <1>4 DEF LivenessInv, SubInv, Known, Holds
  <1>8. SinceInv'
    BY <1>2, <1>4 DEF LivenessInv, SinceInv
  <1>9. AgeInv'
    BY <1>2, <1>4 DEF LivenessInv, AgeInv, Scanned
  <1> QED
    BY <1>4, <1>5, <1>6, <1>7, <1>8, <1>9 DEF LivenessInv

-----------------------------------------------------------------------------
(* ScanAndEvict().                                                          *)

\* A step of the scan that moves it only: from a state that is neither evict
\* nor call to another such state.
LEMMA MoveInv ==
  ASSUME LivenessInv, UNCHANGED <<entryVars, initialised, beatVars, ghostVars>>,
         spc \in {"idle", "look", "warn", "callback"},
         spc' \in {"idle", "look", "warn"}, initialised,
         pos' \in 0 .. MaxSubs, lag' \in 0 .. MaxLag, wait' \in 0 .. Period,
         victim' \in Key \cup {NoKey}, cb' \in BOOLEAN,
         spc' = "warn" => pos' \in Index
  PROVE  (TypeInv /\ PlaceInv /\ PairInv /\ SubInv /\ SinceInv)'
  <1>1. TypeInv'
    BY DEF LivenessInv, TypeInv, entryVars, beatVars, ghostVars
  <1>2. PlaceInv'
    BY DEF LivenessInv, PlaceInv, entryVars, beatVars
  <1>3. (PairInv /\ SubInv /\ SinceInv)'
    BY DEF LivenessInv, PairInv, SubInv, SinceInv, Known, Holds, entryVars, ghostVars
  <1> QED
    BY <1>1, <1>2, <1>3

\* nowMs is read: every entry was in time one period ago.
LEMMA ScanBeginInv == ASSUME LivenessInv, ScanBegin PROVE LivenessInv'
  <1>1. /\ initialised /\ spc = "idle" /\ spc' = "look" /\ pos' = 0 /\ lag' = 0 /\ wait' = 0
        /\ UNCHANGED <<key, onDead, age, health, active, victim, cb>>
        /\ UNCHANGED <<entryVars, initialised, beatVars, ghostVars>>
    BY DEF ScanBegin, entryVars
  <1>2. (TypeInv /\ PlaceInv /\ PairInv /\ SubInv /\ SinceInv)'
    <2>1. pos' \in 0 .. MaxSubs /\ lag' \in 0 .. MaxLag /\ wait' \in 0 .. Period
      BY <1>1, TimeFacts
    <2>2. victim' \in Key \cup {NoKey} /\ cb' \in BOOLEAN
      BY <1>1 DEF LivenessInv, TypeInv
    <2> QED
      BY <1>1, <2>1, <2>2, MoveInv
  <1>3. AgeInv'
    <2>1. ASSUME NEW i \in Index, active[i]
          PROVE  age[i] <= Dead + 0 + Period /\ ~(i < 0)
      BY <1>1, <2>1, TimeFacts DEF LivenessInv, TypeInv, AgeInv, Scanned
    <2> QED
      BY <1>1, <2>1 DEF AgeInv, Scanned
  <1> QED
    BY <1>2, <1>3 DEF LivenessInv

\* An entry is dealt with when it is free or was in time, whether late or not.
LEMMA InTime ==
  ASSUME LivenessInv, NEW i \in Index, spc # "idle", ~TooOld(i, Dead)
  PROVE  age[i] <= Dead + wait
  BY TimeFacts DEF LivenessInv, TypeInv, AgeInv, TooOld

\* The scan goes on to the next entry.
LEMMA AdvanceInv ==
  ASSUME LivenessInv, UNCHANGED <<key, onDead, age, active>>,
         UNCHANGED <<initialised, lag, wait, beatVars, ghostVars>>,
         health' \in [Index -> Health], victim' \in Key \cup {NoKey}, cb' \in BOOLEAN,
         spc \in {"look", "warn", "callback"}, pos \in Index, Advance,
         active[pos] => age[pos] <= Dead + wait
  PROVE  LivenessInv'
  <1>1. spc' = "look" /\ pos' = pos + 1 /\ pos' \in 0 .. MaxSubs
    BY TimeFacts DEF Advance
  <1>2. TypeInv'
    BY <1>1 DEF LivenessInv, TypeInv, beatVars, ghostVars
  <1>3. PlaceInv'
    BY <1>1 DEF LivenessInv, PlaceInv, beatVars
  <1>4. (PairInv /\ SubInv /\ SinceInv)'
    BY <1>1 DEF LivenessInv, PairInv, SubInv, SinceInv, Known, Holds, ghostVars
  <1>5. AgeInv'
    <2>1. ASSUME NEW i \in Index, active[i]
          PROVE  age[i] <= Dead + wait + (IF i < pos + 1 THEN 0 ELSE Period)
      <3>1. /\ age[i] \in 0 .. MaxAge /\ wait \in 0 .. Period
            /\ age[i] <= Dead + wait + (IF Scanned(i) THEN 0 ELSE Period)
        BY <2>1 DEF LivenessInv, TypeInv, AgeInv
      <3>2. CASE i = pos
        BY <2>1, <3>1, <3>2, TimeFacts
      <3>3. CASE i # pos
        BY <3>1, <3>3, TimeFacts DEF Scanned
      <3> QED
        BY <3>2, <3>3
    <2> QED
      BY <1>1, <2>1 DEF LivenessInv, AgeInv, Scanned
  <1> QED
    BY <1>2, <1>3, <1>4, <1>5 DEF LivenessInv

\* Free or fresh.
LEMMA ScanSkipInv == ASSUME LivenessInv, ScanSkip PROVE LivenessInv'
  <1>1. /\ spc = "look" /\ pos \in Index /\ Advance
        /\ active[pos] => ~TooOld(pos, Interval)
        /\ UNCHANGED <<key, onDead, age, active>>
        /\ UNCHANGED <<initialised, lag, wait, beatVars, ghostVars>>
        /\ UNCHANGED <<health, victim, cb>>
    BY DEF ScanSkip, entryVars
  <1>2. active[pos] => age[pos] <= Dead + wait
    <2>1. ~TooOld(pos, Interval) => ~TooOld(pos, Dead)
      BY <1>1, TimeFacts DEF TooOld, LivenessInv, TypeInv
    <2> QED
      BY <1>1, <2>1, InTime
  <1>3. health' \in [Index -> Health] /\ victim' \in Key \cup {NoKey} /\ cb' \in BOOLEAN
    BY <1>1 DEF LivenessInv, TypeInv
  <1> QED
    BY <1>1, <1>2, <1>3, AdvanceInv

\* Late: marked and passed.  A heartbeat in between makes the entry younger.
LEMMA ScanWarnInv == ASSUME LivenessInv, ScanWarn PROVE LivenessInv'
  <1>1. /\ spc = "warn" /\ health' = [health EXCEPT ![pos] = "kWarning"] /\ Advance
        /\ UNCHANGED <<key, onDead, age, active>>
        /\ UNCHANGED <<initialised, lag, wait, beatVars, ghostVars>>
        /\ UNCHANGED <<victim, cb>>
    BY DEF ScanWarn
  <1>2. pos \in Index
    BY <1>1 DEF LivenessInv, PlaceInv
  <1>3. active[pos] => age[pos] <= Dead + wait
    <2>1. Scanned(pos)
      BY <1>1 DEF Scanned
    <2>2. active[pos] => age[pos] <= Dead + wait + 0
      BY <1>2, <2>1 DEF LivenessInv, AgeInv
    <2> QED
      BY <2>2, TimeFacts DEF LivenessInv, TypeInv
  <1>4. health' \in [Index -> Health] /\ victim' \in Key \cup {NoKey} /\ cb' \in BOOLEAN
    BY <1>1 DEF LivenessInv, TypeInv, Health
  <1> QED
    BY <1>1, <1>2, <1>3, <1>4, AdvanceInv

\* The callback has returned; the entry it was about is free, or somebody's who
\* registered during the callback.
LEMMA ScanReturnInv == ASSUME LivenessInv, ScanReturn PROVE LivenessInv'
  <1>1. /\ spc = "callback" /\ Advance /\ victim' = NoKey /\ cb' = FALSE
        /\ UNCHANGED <<key, onDead, age, active>>
        /\ UNCHANGED <<initialised, lag, wait, beatVars, ghostVars>>
        /\ health' = health
    BY DEF ScanReturn, entryVars
  <1>2. pos \in Index
    BY <1>1 DEF LivenessInv, PlaceInv
  <1>3. active[pos] => age[pos] <= Dead + wait
    <2>1. Scanned(pos)
      BY <1>1 DEF Scanned
    <2>2. active[pos] => age[pos] <= Dead + wait + 0
      BY <1>2, <2>1 DEF LivenessInv, AgeInv
    <2> QED
      BY <2>2, TimeFacts DEF LivenessInv, TypeInv
  <1>4. health' \in [Index -> Health] /\ victim' \in Key \cup {NoKey} /\ cb' \in BOOLEAN
    BY <1>1 DEF LivenessInv, TypeInv
  <1> QED
    BY <1>1, <1>2, <1>3, <1>4, AdvanceInv

\* What lastBeatMs said stays true of who is dead, and of who is only late.
LEMMA ScanDecideInv == ASSUME LivenessInv, ScanDecide PROVE LivenessInv'
  <1>1. /\ spc = "look" /\ pos \in Index /\ active[pos]
        /\ spc' = IF TooOld(pos, Dead) THEN "evict" ELSE "warn"
        /\ UNCHANGED <<key, onDead, age, health, active, initialised, pos, lag, wait, victim,
                       cb, bpc, arg, idx, subscribed, since>>
    BY DEF ScanDecide, entryVars, beatVars, ghostVars
  <1>2. (TypeInv /\ PlaceInv /\ PairInv)'
    BY <1>1 DEF LivenessInv, TypeInv, PlaceInv, PairInv
  <1>3. SubInv'
    BY <1>1 DEF LivenessInv, SubInv, Known, Holds
  <1>4. SinceInv'
    <2>1. TooOld(pos, Dead) => since[key[pos]] > Dead
      <3>1. age[pos] <= since[key[pos]] \/ since[key[pos]] > Dead
        BY <1>1 DEF LivenessInv, SinceInv
      <3>2. since[key[pos]] \in Nat
        <4>1. key[pos] \in Key
          BY <1>1 DEF LivenessInv, TypeInv, PairInv
        <4> QED
          BY <4>1, TimeFacts DEF LivenessInv, TypeInv
      <3>3. age[pos] \in Nat /\ lag \in Nat /\ Dead \in Nat
        BY <1>1, TimeFacts DEF LivenessInv, TypeInv
      <3> QED
        BY <3>1, <3>2, <3>3 DEF TooOld
    <2> QED
      BY <1>1, <2>1 DEF LivenessInv, SinceInv
  <1>5. AgeInv'
    <2>1. ~TooOld(pos, Dead) => age[pos] <= Dead + wait
      BY <1>1, InTime
    <2>2. ASSUME NEW i \in Index, active[i]
          PROVE  age[i] <= Dead + wait
                   + (IF i < pos \/ (i = pos /\ ~TooOld(pos, Dead)) THEN 0 ELSE Period)
      <3>1. /\ age[i] \in 0 .. MaxAge /\ wait \in 0 .. Period
            /\ age[i] <= Dead + wait + (IF Scanned(i) THEN 0 ELSE Period)
        BY <2>2 DEF LivenessInv, TypeInv, AgeInv
      <3>2. Scanned(i) <=> i < pos
        BY <1>1 DEF Scanned
      <3> QED
        BY <2>1, <3>1, <3>2, TimeFacts
    <2>3. \A i \in Index : Scanned(i)' <=> i < pos \/ (i = pos /\ ~TooOld(pos, Dead))
      BY <1>1 DEF Scanned
    <2> QED
      BY <1>1, <2>2, <2>3 DEF LivenessInv, AgeInv
  <1> QED
    BY <1>2, <1>3, <1>4, <1>5 DEF LivenessInv

\* The entry is given back before its callback runs.
LEMMA ScanEvictInv == ASSUME LivenessInv, ScanEvict PROVE LivenessInv'
  <1>1. /\ spc = "evict" /\ spc' = "call" /\ Release(pos)
        /\ health' = [health EXCEPT ![pos] = "kDead"]
        /\ victim' = key[pos] /\ cb' = onDead[pos]
        /\ UNCHANGED <<age, initialised, pos, lag, wait, bpc, arg, idx, subscribed, since>>
    BY DEF ScanEvict, beatVars, ghostVars
  <1>2. TypeInv /\ PairInv /\ pos \in Index /\ active[pos] /\ since[key[pos]] > Dead
    BY <1>1 DEF LivenessInv, PlaceInv, SinceInv
  <1>3. /\ key' \in [Index -> Key \cup {NoKey}] /\ onDead' \in [Index -> BOOLEAN]
        /\ active' \in [Index -> BOOLEAN] /\ PairInv' /\ key[pos] \in Key
        /\ \A j \in Index : active'[j] <=> active[j] /\ j # pos
        /\ \A j \in Index : active'[j] => key'[j] = key[j]
        /\ \A m \in Key : (\E j \in Index : active'[j] /\ key'[j] = m)
                            <=> Known(m) /\ m # key[pos]
    BY <1>1, <1>2, ReleaseFacts
  <1>4. cb' = TRUE /\ health' \in [Index -> Health]
    BY <1>1, <1>2 DEF TypeInv, PairInv, Health
  <1>5. TypeInv' /\ PlaceInv'
    BY <1>1, <1>2, <1>3, <1>4 DEF LivenessInv, TypeInv, PlaceInv
  <1>6. SubInv'
    <2>1. Known(key[pos])
      BY <1>2 DEF Known, Holds
    <2>2. \A m \in Key : m \in subscribed <=> Known(m)
      BY <1>1 DEF LivenessInv, SubInv
    <2> QED
      BY <1>1, <1>3, <1>4, <2>1, <2>2 DEF SubInv, Known, Holds
  <1>7. SinceInv'
    BY <1>1, <1>2, <1>3 DEF LivenessInv, SinceInv
  <1>8. AgeInv'
    BY <1>1, <1>3 DEF LivenessInv, AgeInv, Scanned
  <1> QED
    BY <1>3, <1>5, <1>6, <1>7, <1>8 DEF LivenessInv

\* The callback is made: the subscriber knows.
LEMMA ScanCallInv == ASSUME LivenessInv, ScanCall PROVE LivenessInv'
  <1>1. /\ spc = "call" /\ spc' = "callback"
        /\ subscribed' = IF cb THEN subscribed \ {victim} ELSE subscribed
        /\ UNCHANGED <<key, onDead, age, health, active, initialised, pos, lag, wait, victim,
                       cb, bpc, arg, idx, since>>
    BY DEF ScanCall, entryVars, beatVars
  <1>2. (TypeInv /\ PlaceInv /\ PairInv /\ SinceInv)'
    BY <1>1 DEF LivenessInv, TypeInv, PlaceInv, PairInv, SinceInv
  <1>3. SubInv'
    <2>1. cb /\ ~Known(victim) /\ \A k \in Key : k \in subscribed <=> Known(k) \/ k = victim
      BY <1>1 DEF LivenessInv, SubInv
    <2> QED
      BY <1>1, <2>1 DEF SubInv, Known, Holds
  <1>4. AgeInv'
    BY <1>1 DEF LivenessInv, AgeInv, Scanned
  <1> QED
    BY <1>2, <1>3, <1>4 DEF LivenessInv

\* All entries have been dealt with.
LEMMA ScanEndInv == ASSUME LivenessInv, ScanEnd PROVE LivenessInv'
  <1>1. /\ spc = "look" /\ pos = MaxSubs /\ spc' = "idle" /\ pos' = 0 /\ lag' = 0
        /\ UNCHANGED <<entryVars, initialised, beatVars, ghostVars>>
        /\ UNCHANGED <<key, onDead, age, health, active, wait, victim, cb>>
    BY DEF ScanEnd, entryVars
  <1>2. (TypeInv /\ PlaceInv /\ PairInv /\ SubInv /\ SinceInv)'
    <2>1. pos' \in 0 .. MaxSubs /\ lag' \in 0 .. MaxLag /\ wait' \in 0 .. Period
          /\ victim' \in Key \cup {NoKey} /\ cb' \in BOOLEAN
      BY <1>1, TimeFacts DEF LivenessInv, TypeInv
    <2>2. initialised
      BY <1>1 DEF LivenessInv, PlaceInv, TypeInv
    <2> QED
      BY <1>1, <2>1, <2>2, MoveInv
  <1>3. AgeInv'
    <2>1. \A i \in Index : i < pos
      BY <1>1, TimeFacts
    <2> QED
      BY <1>1, <2>1 DEF LivenessInv, AgeInv, Scanned
  <1> QED
    BY <1>2, <1>3 DEF LivenessInv

-----------------------------------------------------------------------------
(* The heartbeat threads.                                                  *)

\* The steps that write no entry.
LEMMA BeatWalkInv ==
  ASSUME LivenessInv, NEW b \in Beater,
         \/ \E k \in Key : RecordHeartbeat(b, k)
         \/ BeatFind(b) \/ BeatNotFound(b)
  PROVE  LivenessInv'
  <1>1. UNCHANGED <<key, onDead, age, health, active, initialised, spc, pos, lag, victim, cb,
                    wait, subscribed, since>>
    BY DEF RecordHeartbeat, BeatFind, BeatNotFound, entryVars, scanVars, ghostVars
  <1>2. /\ bpc \in [Beater -> {"idle", "find", "beat", "alive"}]
        /\ arg \in [Beater -> Key \cup {NoKey}] /\ idx \in [Beater -> 0 .. MaxSubs]
        /\ \A c \in Beater : bpc[c] \in {"beat", "alive"} => idx[c] \in Index
    BY DEF LivenessInv, TypeInv, PlaceInv
  <1>3. /\ bpc' \in [Beater -> {"idle", "find", "beat", "alive"}]
        /\ arg' \in [Beater -> Key \cup {NoKey}] /\ idx' \in [Beater -> 0 .. MaxSubs]
        /\ \A c \in Beater : bpc'[c] \in {"beat", "alive"} => idx'[c] \in Index
    <2>1. CASE \E k \in Key : RecordHeartbeat(b, k)
      BY <1>2, <2>1 DEF RecordHeartbeat
    <2>2. CASE BeatFind(b)
      <3>1. idx[b] \in Index /\ idx[b] + 1 \in 0 .. MaxSubs /\ arg' = arg /\ bpc[b] = "find"
        BY <2>2, TimeFacts DEF BeatFind
      <3>2. CASE Holds(idx[b], arg[b])
        BY <1>2, <2>2, <3>1, <3>2 DEF BeatFind
      <3>3. CASE ~Holds(idx[b], arg[b])
        BY <1>2, <2>2, <3>1, <3>3 DEF BeatFind
      <3> QED
        BY <3>2, <3>3
    <2>3. CASE BeatNotFound(b)
      <3>1. 0 \in 0 .. MaxSubs
        BY TimeFacts
      <3> QED
        BY <1>2, <2>3, <3>1 DEF BeatNotFound, Leave
    <2> QED
      BY <2>1, <2>2, <2>3
  <1> QED
    BY <1>1, <1>3 DEF LivenessInv, TypeInv, PlaceInv, PairInv, SubInv, SinceInv, AgeInv,
                      Known, Holds, Scanned

\* lastBeatMs.store(): the entry gets younger, whoever has it now.
LEMMA BeatStoreInv == ASSUME LivenessInv, NEW b \in Beater, BeatStore(b) PROVE LivenessInv'
  <1> DEFINE i == idx[b]
  <1>1. /\ bpc[b] = "beat" /\ bpc' = [bpc EXCEPT ![b] = "alive"]
        /\ age' = [age EXCEPT ![i] = 0]
        /\ since' = [k \in Key |-> IF k = arg[b] /\ Holds(i, k) /\ since[k] <= Dead THEN 0
                                   ELSE since[k]]
        /\ UNCHANGED <<key, onDead, health, active, initialised, spc, pos, lag, victim, cb,
                       wait, arg, idx, subscribed>>
    BY DEF BeatStore, scanVars
  <1>2. TypeInv /\ i \in Index
    BY <1>1 DEF LivenessInv, PlaceInv
  <1>3. 0 \in 0 .. MaxAge /\ 0 \in 0 .. Dead + 1
    BY TimeFacts
  <1>4. \A j \in Index : /\ age'[j] = IF j = i THEN 0 ELSE age[j]
                         /\ age[j] \in Nat
    BY <1>1, <1>2, TimeFacts DEF TypeInv
  <1>5. \A k \in Key : /\ since[k] \in 0 .. Dead + 1
                       /\ since'[k] \in {0, since[k]}
                       /\ since'[k] # since[k] => Holds(i, k) /\ since[k] <= Dead
    BY <1>1, <1>2 DEF TypeInv
  <1>6. TypeInv'
    <2>1. age' \in [Index -> 0 .. MaxAge]
      BY <1>1, <1>2, <1>3 DEF TypeInv
    <2>2. since' \in [Key -> 0 .. Dead + 1]
      BY <1>1, <1>3, <1>5
    <2>3. bpc' \in [Beater -> {"idle", "find", "beat", "alive"}]
      BY <1>1, <1>2 DEF TypeInv
    <2> QED
      BY <1>1, <1>2, <2>1, <2>2, <2>3 DEF TypeInv
  <1>7. PlaceInv'
    BY <1>1, <1>2 DEF LivenessInv, PlaceInv, TypeInv
  <1>8. (PairInv /\ SubInv)'
    BY <1>1 DEF LivenessInv, PairInv, SubInv, Known, Holds
  <1>9. SinceInv'
    <2>1. ASSUME NEW j \in Index, active[j]
          PROVE  age'[j] <= since'[key[j]] \/ since'[key[j]] > Dead
      <3>1. key[j] \in Key
        BY <2>1 DEF LivenessInv, TypeInv, PairInv
      <3>2. since'[key[j]] \in Nat /\ since[key[j]] \in Nat
        <4>1. since[key[j]] \in Nat
          BY <1>5, <3>1, TimeFacts
        <4>2. since'[key[j]] \in {0, since[key[j]]}
          BY <1>5, <3>1
        <4> QED
          BY <4>1, <4>2
      <3>3. CASE j = i
        BY <1>4, <3>2, <3>3
      <3>4. CASE j # i
        <4>1. ~Holds(i, key[j])
          BY <1>2, <2>1, <3>4 DEF LivenessInv, PairInv, Holds
        <4>2. since'[key[j]] = since[key[j]] /\ age'[j] = age[j]
          BY <1>4, <1>5, <3>1, <3>4, <4>1
        <4>3. age[j] <= since[key[j]] \/ since[key[j]] > Dead
          BY <2>1 DEF LivenessInv, SinceInv
        <4> QED
          BY <4>2, <4>3
      <3> QED
        BY <3>3, <3>4
    <2>2. ASSUME NEW k \in Key, since[k] > Dead PROVE since'[k] > Dead
      <3>1. since[k] \in Nat /\ Dead \in Nat
        BY <1>5, TimeFacts
      <3>2. ~(since[k] <= Dead)
        BY <2>2, <3>1
      <3>3. since'[k] = since[k]
        BY <1>5, <3>2
      <3> QED
        BY <2>2, <3>3
    <2>3. spc = "evict" => active[pos] /\ key[pos] \in Key /\ since[key[pos]] > Dead
      BY DEF LivenessInv, SinceInv, PlaceInv, PairInv, TypeInv
    <2>4. spc = "call" => victim \in Key /\ since[victim] > Dead
      BY DEF LivenessInv, SinceInv, SubInv
    <2> QED
      BY <1>1, <2>1, <2>2, <2>3, <2>4 DEF SinceInv
  <1>10. AgeInv'
    <2>1. ASSUME NEW j \in Index, active[j]
          PROVE  age'[j] <= Dead + wait + (IF Scanned(j) THEN 0 ELSE Period)
      <3>1. age[j] <= Dead + wait + (IF Scanned(j) THEN 0 ELSE Period)
        BY <2>1 DEF LivenessInv, AgeInv
      <3>2. age'[j] \in {0, age[j]} /\ age[j] \in Nat
        BY <1>4
      <3>3. wait \in Nat /\ Dead \in Nat /\ Period \in Nat
        BY <1>2, TimeFacts DEF TypeInv
      <3> QED
        BY <3>1, <3>2, <3>3
    <2> QED
      BY <1>1, <2>1 DEF LivenessInv, AgeInv, Scanned
  <1> QED
    BY <1>6, <1>7, <1>8, <1>9, <1>10 DEF LivenessInv

\* health.store(kAlive)
LEMMA BeatAliveInv == ASSUME LivenessInv, NEW b \in Beater, BeatAlive(b) PROVE LivenessInv'
  <1>1. /\ health' = [health EXCEPT ![idx[b]] = "kAlive"]
        /\ bpc' = [bpc EXCEPT ![b] = "idle"] /\ arg' = [arg EXCEPT ![b] = NoKey]
        /\ idx' = [idx EXCEPT ![b] = 0]
        /\ UNCHANGED <<key, onDead, age, active, initialised, spc, pos, lag, victim, cb, wait,
                       subscribed, since>>
    BY DEF BeatAlive, Leave, scanVars, ghostVars
  <1>2. TypeInv'
    <2>1. 0 \in 0 .. MaxSubs
      BY TimeFacts
    <2> QED
      BY <1>1, <2>1 DEF LivenessInv, TypeInv, Health
  <1>3. PlaceInv'
    BY <1>1 DEF LivenessInv, PlaceInv, TypeInv
  <1>4. (PairInv /\ SubInv /\ SinceInv /\ AgeInv)'
    BY <1>1 DEF LivenessInv, PairInv, SubInv, SinceInv, AgeInv, Known, Holds, Scanned
  <1> QED
    BY <1>2, <1>3, <1>4 DEF LivenessInv

-----------------------------------------------------------------------------
(* The theorems.                                                           *)

\* Every step.
LEMMA LivenessStep == ASSUME LivenessInv, [Next]_vars PROVE LivenessInv'
  <1>1. CASE UNCHANGED vars
    BY <1>1 DEF vars, entryVars, scanVars, beatVars, ghostVars, LivenessInv, TypeInv,
                PlaceInv, PairInv, SubInv, SinceInv, AgeInv, Known, Holds, Scanned
  <1>2. CASE InitMonitor \/ Tick
    BY <1>2, InitMonitorInv, TickInv
  <1>3. CASE \E k \in Key : Register(k) \/ Deregister(k)
    BY <1>3, RegisterInv, DeregisterInv
  <1>4. CASE ScanAndEvict
    BY <1>4, ScanBeginInv, ScanSkipInv, ScanDecideInv, ScanWarnInv, ScanEvictInv,
       ScanCallInv, ScanReturnInv, ScanEndInv DEF ScanAndEvict
  <1>5. CASE \E b \in Beater : Beat(b)
    BY <1>5, BeatWalkInv, BeatStoreInv, BeatAliveInv DEF Beat
  <1> QED
    BY <1>1, <1>2, <1>3, <1>4, <1>5 DEF Next

\* The entries that are in use and those who are subscribed are as many, when no
\* callback is due: an entry's key tells its subscriber.
LEMMA AsMany ==
  ASSUME LivenessInv, spc = "idle"
  PROVE  /\ {key[i] : i \in {j \in Index : active[j]}} = subscribed
         /\ Cardinality({j \in Index : active[j]}) = Cardinality(subscribed)
  <1> DEFINE A == {j \in Index : active[j]}
             f == [i \in A |-> key[i]]
  <1>1. \A i \in A : key[i] \in Key
    BY DEF LivenessInv, TypeInv, PairInv
  <1>2. \A k \in Key : k \in subscribed <=> \E i \in A : key[i] = k
    BY DEF LivenessInv, SubInv, Known, Holds
  <1>3. {key[i] : i \in A} = subscribed
    BY <1>1, <1>2 DEF LivenessInv, TypeInv
  <1>4. f \in Bijection(A, subscribed)
    <2>1. f \in [A -> subscribed]
      BY <1>3
    <2>2. \A i, j \in A : f[i] = f[j] => i = j
      BY DEF LivenessInv, PairInv
    <2>3. \A k \in subscribed : \E i \in A : f[i] = k
      BY <1>3
    <2> QED
      BY <2>1, <2>2, <2>3 DEF Bijection, Injection, IsInjective, Surjection
  <1>5. IsFiniteSet(A)
    <2>1. IsFiniteSet(Index)
      BY TimeFacts, FS_Interval
    <2> QED
      BY <2>1, FS_Subset
  <1>6. Cardinality(subscribed) = Cardinality(A)
    BY <1>4, <1>5, FS_Bijection DEF ExistsBijection
  <1> QED
    BY <1>3, <1>6

\* The whole component.
THEOREM LivenessCorrect == Spec => []LivenessInv
  BY LivenessInit, LivenessStep, PTL DEF Spec

\* Entries and loop variables stay in range, and an entry has its key and its
\* callback exactly while it is active.
THEOREM TypeCorrect == Spec => []EntryTypeOK
  <1>1. LivenessInv => EntryTypeOK
    BY DEF LivenessInv, TypeInv, PlaceInv, PairInv, EntryTypeOK
  <1> QED
    BY <1>1, LivenessCorrect, PTL

\* Nobody is evicted who has not been silent for the whole timeout.
THEOREM OnlyTheDead == Spec => []EvictedOnlyWhenDead
  <1>1. LivenessInv => EvictedOnlyWhenDead
    BY DEF LivenessInv, SinceInv, EvictedOnlyWhenDead
  <1> QED
    BY <1>1, LivenessCorrect, PTL

\* Between scans the table is who is subscribed, one entry each.
THEOREM TableExact == Spec => []MonitoredExactly
  <1>1. LivenessInv => MonitoredExactly
    BY AsMany DEF MonitoredExactly
  <1> QED
    BY <1>1, LivenessCorrect, PTL

\* A silent entry is given back in time.
THEOREM SilentGone == Spec => []SilentEvicted
  <1>1. ASSUME LivenessInv PROVE SilentEvicted
    <2>1. SUFFICES ASSUME NEW i \in Index, active[i] PROVE age[i] <= Dead + Period + MaxLag
      BY DEF SilentEvicted
    <2>2. age[i] <= Dead + wait + (IF Scanned(i) THEN 0 ELSE Period)
      BY <1>1, <2>1 DEF LivenessInv, AgeInv
    <2>3. /\ age[i] \in 0 .. MaxAge /\ wait \in 0 .. Period /\ lag \in 0 .. MaxLag
          /\ spc # "idle" => lag = wait
      BY <1>1 DEF LivenessInv, TypeInv, AgeInv
    <2>4. CASE spc = "idle"
      BY <2>2, <2>3, <2>4, TimeFacts DEF Scanned
    <2>5. CASE spc # "idle"
      BY <2>2, <2>3, <2>5, TimeFacts
    <2> QED
      BY <2>4, <2>5
  <1> QED
    BY <1>1, LivenessCorrect, PTL
=============================================================================
