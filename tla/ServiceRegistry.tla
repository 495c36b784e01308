-------------------------- MODULE ServiceRegistry ---------------------------
(***************************************************************************)
(* The service registry of SoaServiceManager.cpp and the SOME/IP service   *)
(* discovery lifecycle of its entries.                                     *)
(*                                                                         *)
(* Two threads use it: the application registers, offers and stops         *)
(* services, in any order and as often as it likes; the service-discovery  *)
(* task, which is not in this repository and is modelled from the comment  *)
(* in StopService(), looks for kStopping entries, broadcasts their         *)
(* StopOffer and calls StopService() again.  The state of an entry is a    *)
(* plain field: OfferService() reads it once and StopService() twice, and  *)
(* each writes it in a later step, whatever it has become meanwhile.       *)
(* The names differ from those of EventDispatch, the other half of the     *)
(* class, so that both can be extended together.                           *)
(***************************************************************************)
EXTENDS Integers

CONSTANTS Service,       \* (serviceId, instanceId)
          NoService,     \* kInvalidServiceId
          MaxServices    \* kMaxServices

ASSUME RegistryAssumption == MaxServices \in Nat

VARIABLES registry, registryCount,
          pc,       \* [Thread -> where the thread is]
          svc,      \* [Thread -> the service its call is about]
          regRc,    \* what the application's last call returned
          parked,   \* history: services a StopService() has left in kStopping
                    \* since they were offered last
          overtaken \* history: threads about to write kDown to a service that
                    \* was offered since they read its state

registryVars == <<registry, registryCount, pc, svc, regRc, parked, overtaken>>
stopHistory == <<parked, overtaken>>

Thread == {"app", "sd"}
State  == {"kDown", "kRequested", "kAvailable", "kStopping"}
Entry  == [svc : Service \cup {NoService}, state : State]

\* FindServiceIndex(): entry k, below the commit index, is service s.
Found(s, k) == k < registryCount /\ registry[k].svc = s

EntryIndex    == 0 .. MaxServices - 1
Registered(s) == \E k \in EntryIndex : Found(s, k)

\* The constructor, then Init(); both precede the threads.
RegistryInit ==
  /\ registry = [k \in EntryIndex |-> [svc |-> NoService, state |-> "kDown"]]
  /\ registryCount = 0
  /\ pc = [t \in Thread |-> "idle"]
  /\ svc = [t \in Thread |-> NoService]
  /\ regRc = "none"
  /\ parked = {} /\ overtaken = {}

Return(t, code) == /\ pc' = [pc EXCEPT ![t] = "idle"]
                   /\ regRc' = IF t = "app" THEN code ELSE regRc

-----------------------------------------------------------------------------
(* RegisterService().                                                      *)

RegisterRefused(s) ==
  /\ pc["app"] = "idle"
  /\ \/ Registered(s) /\ regRc' = "kAlreadyRegistered"
     \/ ~Registered(s) /\ registryCount >= MaxServices /\ regRc' = "kRegistryFull"
  /\ UNCHANGED <<registry, registryCount, pc, svc, stopHistory>>

\* The caller's descriptor is copied, whatever state it carries ...
RegisterWrite(s, st) ==
  /\ pc["app"] = "idle"
  /\ ~Registered(s)
  /\ registryCount < MaxServices
  /\ registry' = [registry EXCEPT ![registryCount] = [svc |-> s, state |-> st]]
  /\ pc' = [pc EXCEPT !["app"] = "reset"]
  /\ UNCHANGED <<registryCount, svc, regRc, stopHistory>>

\* Slip: the caller's state is kept.
RegisterKeepState == /\ pc["app"] = "reset"
                     /\ pc' = [pc EXCEPT !["app"] = "commit"]
                     /\ UNCHANGED <<registry, registryCount, svc, regRc, stopHistory>>
\* ... its state is set to kDown ...
RegisterReset == /\ pc["app"] = "reset"
                 /\ registry' = [registry EXCEPT ![registryCount].state = "kDown"]
                 /\ pc' = [pc EXCEPT !["app"] = "commit"]
                 /\ UNCHANGED <<registryCount, svc, regRc, stopHistory>>

\* ... and the commit index makes the entry visible.
RegisterCommit == /\ pc["app"] = "commit"
                  /\ registryCount' = registryCount + 1
                  /\ Return("app", "ok")
                  /\ UNCHANGED <<registry, svc, stopHistory>>

-----------------------------------------------------------------------------
(* OfferService() and StopService().                                       *)

Missing(s) == /\ pc["app"] = "idle"
              /\ ~Registered(s)
              /\ regRc' = "kServiceNotFound"
              /\ UNCHANGED <<registry, registryCount, pc, svc, stopHistory>>

\* Thread t goes on with service s at next, and returns when that is "idle".
Goto(t, s, next) == /\ svc' = [svc EXCEPT ![t] = s]
                    /\ pc' = [pc EXCEPT ![t] = next]
                    /\ regRc' = IF t = "app" /\ next = "idle" THEN "ok" ELSE regRc

\* The last store of a call, into the entry of its service.
WriteState(t, st) ==
  /\ registry' = [k \in EntryIndex |->
       IF Found(svc[t], k) THEN [registry[k] EXCEPT !.state = st] ELSE registry[k]]
  /\ Return(t, "ok")
  /\ UNCHANGED <<registryCount, svc>>

\* The state is read; one that is offered or being stopped is left alone ...
OfferRead(s) ==
  /\ pc["app"] = "idle"
  /\ \E k \in EntryIndex :
       /\ Found(s, k)
       /\ Goto("app", s, IF registry[k].state \in {"kDown", "kRequested"}
                         THEN "offer" ELSE "idle")
  /\ UNCHANGED <<registry, registryCount, stopHistory>>

\* ... and any other becomes kAvailable.
OfferWrite == /\ pc["app"] = "offer"
              /\ WriteState("app", "kAvailable")
              /\ parked' = parked \ {svc["app"]}
              /\ overtaken' = overtaken \cup
                   {t \in Thread : pc[t] = "down" /\ svc[t] = svc["app"]}

\* StopService(s) by thread t reads the state a first time ...
StopRead(t, s) ==
  /\ \E k \in EntryIndex :
       /\ Found(s, k)
       /\ Goto(t, s, IF registry[k].state = "kAvailable" THEN "park" ELSE "look")
  /\ UNCHANGED <<registry, registryCount, stopHistory>>

\* Slip: the second test is not the alternative of the first, so one call does both.
StopParkFallsThrough(t) ==
  /\ pc[t] = "park"
  /\ registry' = [k \in EntryIndex |->
       IF Found(svc[t], k) THEN [registry[k] EXCEPT !.state = "kStopping"] ELSE registry[k]]
  /\ pc' = [pc EXCEPT ![t] = "look"]
  /\ UNCHANGED <<registryCount, svc, regRc, stopHistory>>
\* ... parks an offered service in kStopping, for the StopOffer to be sent ...
StopPark(t) == /\ pc[t] = "park"
               /\ WriteState(t, "kStopping")
               /\ parked' = parked \cup {svc[t]}
               /\ UNCHANGED overtaken

\* Slip: the second call does nothing.
StopLookIdle(t) ==
  /\ pc[t] = "look"
  /\ Goto(t, svc[t], "idle")
  /\ UNCHANGED <<registry, registryCount, stopHistory>>
\* ... or else reads the state a second time ...
StopLook(t) ==
  /\ pc[t] = "look"
  /\ \E k \in EntryIndex :
       /\ Found(svc[t], k)
       /\ Goto(t, svc[t], IF registry[k].state = "kStopping" THEN "down" ELSE "idle")
  /\ UNCHANGED <<registry, registryCount, stopHistory>>

\* ... and takes a service that is being stopped down.
StopDown(t) == /\ pc[t] = "down"
               /\ WriteState(t, "kDown")
               /\ overtaken' = overtaken \ {t}
               /\ UNCHANGED parked

StopGoesOn(t) == StopPark(t) \/ StopLook(t) \/ StopDown(t)

-----------------------------------------------------------------------------
(* The discovery task.                                                     *)

\* FindService() shows a service that is being stopped; its StopOffer goes out.
SdObserve(s) == /\ pc["sd"] = "idle"
                /\ \E k \in EntryIndex : Found(s, k) /\ registry[k].state = "kStopping"
                /\ Goto("sd", s, "again")
                /\ UNCHANGED <<registry, registryCount, stopHistory>>

SdStop == pc["sd"] = "again" /\ StopRead("sd", svc["sd"])

Sd == (\E s \in Service : SdObserve(s)) \/ SdStop \/ StopGoesOn("sd")

-----------------------------------------------------------------------------
AppStop(s) == pc["app"] = "idle" /\ StopRead("app", s)

App == \/ \E s \in Service :
            \/ RegisterRefused(s)
            \/ \E st \in State : RegisterWrite(s, st)
            \/ Missing(s) \/ OfferRead(s) \/ AppStop(s)
       \/ RegisterReset \/ RegisterCommit \/ OfferWrite \/ StopGoesOn("app")

RegistryNext == App \/ Sd

(* The discovery task runs for ever, takes every service in turn and ends   *)
(* the calls it makes; a call of the application, once begun, ends too.     *)
RegistryFairness ==
  /\ WF_registryVars(Sd)
  /\ \A s \in Service : SF_registryVars(SdObserve(s))
  /\ WF_registryVars(OfferWrite \/ StopGoesOn("app"))

RegistrySpec == RegistryInit /\ [][RegistryNext]_registryVars /\ RegistryFairness

-----------------------------------------------------------------------------
(* Properties.                                                             *)

\* An entry becomes visible complete, in state kDown whatever the caller's
\* descriptor said, and never changes its identity again: the pointer that
\* FindService() returned stays good.
CommittedComplete ==
  [][/\ registryCount' # registryCount =>
          registry[registryCount].svc \in Service
          /\ registry[registryCount].state = "kDown"
     /\ \A k \in 0 .. registryCount - 1 : registry'[k].svc = registry[k].svc]_registryVars

\* No single StopService() takes an offered service down: it goes down only after
\* an earlier call has parked it in kStopping and returned, which is when the
\* StopOffer can be sent, whoever makes the two calls and however they overlap.
\* The one way round is in the code: a call that has read kStopping writes kDown
\* even if the service was taken down and offered again since then.
DownTakesTwoCalls ==
  [][\A k \in 0 .. registryCount - 1 :
       registry[k].state # "kDown" /\ registry'[k].state = "kDown" =>
         \/ registry[k].svc \in parked
         \/ \E t \in overtaken : svc[t] = registry[k].svc /\ pc'[t] # pc[t]]_registryVars

\* A service that is being stopped does not stay so: it is down in the end, or
\* the application's OfferService() came in between.
StopCompletes ==
  \A k \in EntryIndex : k < registryCount /\ registry[k].state = "kStopping"
                     ~> registry[k].state \in {"kDown", "kAvailable"}
=============================================================================
