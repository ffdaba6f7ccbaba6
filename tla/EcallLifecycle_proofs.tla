------------------------ MODULE EcallLifecycle_proofs ------------------------
(* Theorems about EcallLifecycle, for any phones, restarts, events and clients. *)
EXTENDS EcallLifecycle, TLAPS

-----------------------------------------------------------------------------
(* The types.                                                              *)

LEMMA InitTypes == Init => TypeOK
<1> SUFFICES ASSUME Init PROVE TypeOK
  OBVIOUS
<1>1. 1 \in 1..(NumPhones + 1) /\ 0 \in 0..MaxInits /\ 0 \in 0..MaxDeinits
  BY EcallAssumption DEF EcallAssumption
<1>2. run \in [Threads -> RunSteps] /\ at \in [Notices -> EventSteps] /\ op \in OpSteps
  BY DEF Init, RunSteps, EventSteps, OpSteps
<1>3. index \in [Threads -> 1..(NumPhones + 1)]
  BY <1>1 DEF Init
<1>4. snap \in [Notices -> Pairs]
  BY DEF Init, Pairs, Nothing
<1>5. phones \in Seq(1..NumPhones)
  BY DEF Init
<1> QED
  BY <1>1, <1>2, <1>3, <1>4, <1>5 DEF Init, TypeOK

LEMMA InitializeTypes ==
  ASSUME TypeOK, NEW t \in Threads, Initialize(t)
  PROVE  TypeOK'
<1> USE EcallAssumption
    DEF EcallAssumption, TypeOK, Managers, RunSteps, opVars, runVars, eventVars,
        clientVars, sdkVars, Crash
<1>1. CASE GetCallManager(t)
  <2>1. run' \in [Threads -> RunSteps] /\ held' \in SUBSET Managers
    BY <1>1 DEF GetCallManager
  <2> QED
    BY <1>1, <2>1 DEF GetCallManager
<1>2. CASE GetPhoneManager(t)
  <2>1. run' \in [Threads -> RunSteps] /\ held' \in SUBSET Managers
    BY <1>2 DEF GetPhoneManager
  <2> QED
    BY <1>2, <2>1 DEF GetPhoneManager
<1>3. CASE ListPhones(t)
  <2>1. CASE UNCHANGED runVars
    BY <1>3, <2>1 DEF ListPhones
  <2>2. ASSUME NEW step \in {"list", "none"}, run' = [run EXCEPT ![t] = step],
               index' = [index EXCEPT ![t] = 1]
        PROVE  run' \in [Threads -> RunSteps] /\ index' \in [Threads -> 1..(NumPhones + 1)]
    BY <2>2
  <2> QED
    BY <1>3, <2>1, <2>2 DEF ListPhones
<1>4. CASE AddPhone(t)
  <2>1. index[t] \in 1..NumPhones
    BY <1>4 DEF AddPhone
  <2>2. index' \in [Threads -> 1..(NumPhones + 1)]
    BY <1>4, <2>1 DEF AddPhone
  <2>3. Append(phones, index[t]) \in Seq(1..NumPhones)
    BY <2>1
  <2>4. phones' = phones \/ phones' = Append(phones, index[t])
    BY <1>4 DEF AddPhone
  <2>5. phones' \in Seq(1..NumPhones)
    BY <2>3, <2>4
  <2> QED
    BY <1>4, <2>2, <2>5 DEF AddPhone
<1>5. CASE PhonesListed(t)
  <2>1. run' \in [Threads -> RunSteps] /\ index' \in [Threads -> 1..(NumPhones + 1)]
    BY <1>5 DEF PhonesListed
  <2> QED
    BY <1>5, <2>1 DEF PhonesListed
<1> QED
  BY <1>1, <1>2, <1>3, <1>4, <1>5 DEF Initialize

LEMMA ServiceTypes ==
  ASSUME TypeOK, ServiceStep
  PROVE  TypeOK'
<1> USE DEF TypeOK, Managers, OpSteps, opVars, runVars, eventVars, clientVars,
        sdkVars, Crash
<1>1. CASE StartInit
  <2>1. inits' \in 0..MaxInits
    BY <1>1, EcallAssumption DEF StartInit, EcallAssumption
  <2>2. run' \in [Threads -> RunSteps]
    BY <1>1 DEF StartInit, RunSteps
  <2> QED
    BY <1>1, <2>1, <2>2 DEF StartInit
<1>2. CASE RegisterModem      BY <1>2 DEF RegisterModem
<1>3. CASE RegisterCalls      BY <1>3 DEF RegisterCalls, Register
<1>4. CASE RegisterPhones
  <2>1. inited' \in BOOLEAN
    BY <1>4 DEF RegisterPhones
  <2> QED
    BY <1>4, <2>1 DEF RegisterPhones, Register
<1>5. CASE StartDeinit
  <2>1. deinits' \in 0..MaxDeinits
    BY <1>5, EcallAssumption DEF StartDeinit, EcallAssumption
  <2> QED
    BY <1>5, <2>1 DEF StartDeinit
<1>6. CASE RemoveListener     BY <1>6 DEF RemoveListener, Remove
<1>7. CASE DropManagers       BY <1>7 DEF DropManagers
<1>8. CASE ClearPhones        BY <1>8 DEF ClearPhones
<1>9. CASE ClearListener      BY <1>9 DEF ClearListener
<1>10. ASSUME NEW c \in Clients, RegisterListener(c) PROVE TypeOK'
  BY <1>10 DEF RegisterListener
<1> QED
  BY <1>1, <1>2, <1>3, <1>4, <1>5, <1>6, <1>7, <1>8, <1>9, <1>10 DEF ServiceStep

LEMMA NoticeTypes ==
  ASSUME TypeOK, NEW n \in Notices, Notice(n)
  PROVE  TypeOK'
<1> USE DEF TypeOK, EventSteps, opVars, runVars, eventVars, clientVars, sdkVars
<1>1. CASE Notify(n)          BY <1>1 DEF Notify
<1>2. CASE Restart(n)
  <2>1. run' \in [Threads -> RunSteps]
    BY <1>2 DEF Restart, RunSteps
  <2> QED
    BY <1>2, <2>1 DEF Restart
<1>3. CASE Forward(n)         BY <1>3 DEF Forward
<1>4. CASE CopyListener(n)
  <2>1. snap' \in [Notices -> Pairs]
    BY <1>4 DEF CopyListener, Pairs
  <2> QED
    BY <1>4, <2>1 DEF CopyListener
<1>5. CASE Deliver(n)
  <2>1. snap' \in [Notices -> Pairs]
    BY <1>5 DEF Deliver, Pairs, Nothing
  <2> QED
    BY <1>5, <2>1 DEF Deliver
<1> QED
  BY <1>1, <1>2, <1>3, <1>4, <1>5 DEF Notice

LEMMA TypeStep == TypeOK /\ [~crashed /\ Next]_vars => TypeOK'
<1>1. TypeOK /\ UNCHANGED vars => TypeOK'
  BY DEF TypeOK, vars, opVars, runVars, eventVars, clientVars, sdkVars
<1> QED
  BY <1>1, InitializeTypes, ServiceTypes, NoticeTypes DEF Next

\* Type correctness of the controller (EcallPaController).
THEOREM TypeCorrect == Spec => []TypeOK
  BY InitTypes, TypeStep, PTL DEF Spec

-----------------------------------------------------------------------------
(* The listener and its context.                                           *)

\* The two members are written together under listenerMutex_, so every copy of
\* them is a pair that was registered together.
ContextInv == context = listener /\ OwnContext

LEMMA ContextStep == TypeOK /\ ContextInv /\ [~crashed /\ Next]_vars => ContextInv'
<1> SUFFICES ASSUME TypeOK, ContextInv, [~crashed /\ Next]_vars PROVE ContextInv'
  OBVIOUS
<1> USE DEF ContextInv, OwnContext, eventVars, clientVars
<1>1. ASSUME NEW t \in Threads, Initialize(t) PROVE ContextInv'
  BY <1>1 DEF Initialize, GetCallManager, GetPhoneManager, ListPhones, AddPhone,
              PhonesListed
<1>2. CASE ServiceStep
  BY <1>2 DEF ServiceStep, StartInit, RegisterModem, RegisterCalls, RegisterPhones,
              StartDeinit, RemoveListener, DropManagers, ClearPhones, ClearListener,
              RegisterListener
<1>3. ASSUME NEW n \in Notices, Notice(n) PROVE ContextInv'
  <2>1. CASE Notify(n) \/ Restart(n) \/ Forward(n)
    BY <2>1 DEF Notify, Restart, Forward
  <2>2. CASE CopyListener(n)
    BY <2>2 DEF CopyListener, TypeOK
  <2>3. CASE Deliver(n)
    BY <2>3 DEF Deliver, TypeOK, Nothing
  <2> QED
    BY <1>3, <2>1, <2>2, <2>3 DEF Notice
<1>4. CASE UNCHANGED vars
  BY <1>4 DEF vars
<1> QED
  BY <1>1, <1>2, <1>3, <1>4 DEF Next

\* Every event calls a listener with the context it was registered with
\* (listenerMutex_), for any registrations and Deinits around it.
THEOREM ContextIsOwn == Spec => []OwnContext
<1>1. Init => ContextInv
  BY DEF Init, ContextInv, OwnContext, Nothing
<1> QED
  BY <1>1, TypeCorrect, ContextStep, PTL DEF Spec, ContextInv

-----------------------------------------------------------------------------
(* What Deinit lets go.                                                    *)

Down == {"removeCall", "removePhone", "removeSubsystem", "managers", "clear",
         "listener", "down"}

\* An undisturbed Deinit runs alone, so what its steps clear stays cleared.
LetsGoInv ==
    /\ run[Service] # "none" => op = "sdk"
    /\ ~disturbed =>
         /\ op \in Down => \A t \in Threads : run[t] = "none"
         /\ op \in {"clear", "listener", "down"} => held = {}
         /\ op \in {"listener", "down"} => phones = <<>>

LEMMA LetsGoStep == TypeOK /\ LetsGoInv /\ [~crashed /\ Next]_vars => LetsGoInv'
<1> SUFFICES ASSUME TypeOK, LetsGoInv, [~crashed /\ Next]_vars PROVE LetsGoInv'
  OBVIOUS
<1> USE DEF LetsGoInv, Down, sdkVars, opVars, runVars
<1>1. ASSUME NEW t \in Threads, Initialize(t) PROVE LetsGoInv'
  <2>1. run[t] # "none" /\ UNCHANGED <<op, disturbed>>
    BY <1>1 DEF Initialize, GetCallManager, GetPhoneManager, ListPhones, AddPhone,
                PhonesListed
  <2>2. \A u \in Threads : u # t => run'[u] = run[u]
    BY <1>1 DEF Initialize, GetCallManager, GetPhoneManager, ListPhones, AddPhone,
                PhonesListed, TypeOK
  <2>3. Service \in Threads
    BY DEF Threads
  <2>4. disturbed \/ op \notin Down
    BY <2>1
  <2> QED
    BY <2>1, <2>2, <2>3, <2>4
<1>2. CASE StartInit
  BY <1>2 DEF StartInit
<1>3. CASE RegisterModem
  BY <1>3 DEF RegisterModem
<1>4. CASE RegisterCalls \/ RegisterPhones
  BY <1>4 DEF RegisterCalls, RegisterPhones, Register
<1>5. CASE StartDeinit
  BY <1>5 DEF StartDeinit, Running
<1>6. CASE RemoveListener
  BY <1>6 DEF RemoveListener, Remove
<1>7. CASE DropManagers \/ ClearPhones \/ ClearListener
  BY <1>7 DEF DropManagers, ClearPhones, ClearListener
<1>8. ASSUME NEW c \in Clients, RegisterListener(c) PROVE LetsGoInv'
  BY <1>8 DEF RegisterListener
<1>9. ASSUME NEW n \in Notices, Notice(n) PROVE LetsGoInv'
  <2>1. CASE Restart(n)
    <3>1. disturbed' \/ op' = "idle"
      BY <2>1 DEF Restart
    <3>2. run'[Service] = run[Service]
      BY <2>1, EcallAssumption DEF Restart, EcallAssumption, TypeOK, Threads
    <3> QED
      BY <2>1, <3>1, <3>2 DEF Restart
  <2>2. CASE Notify(n) \/ Forward(n) \/ CopyListener(n) \/ Deliver(n)
    BY <2>2 DEF Notify, Forward, CopyListener, Deliver
  <2> QED
    BY <1>9, <2>1, <2>2 DEF Notice
<1>10. CASE UNCHANGED vars
  BY <1>10 DEF vars
<1> QED
  BY <1>1, <1>2, <1>3, <1>4, <1>5, <1>6, <1>7, <1>8, <1>9, <1>10 DEF Next, ServiceStep

\* After a Deinit no restart overtook, the PA holds no manager and no phone
\* (deinitialize), for any number of restarts and Inits before it.
THEOREM DeinitIsComplete == Spec => []DeinitLetsGo
<1>1. Init => LetsGoInv
  BY DEF Init, LetsGoInv, Threads
<1>2. LetsGoInv => DeinitLetsGo
  BY DEF LetsGoInv, DeinitLetsGo
<1> QED
  BY <1>1, <1>2, TypeCorrect, LetsGoStep, PTL DEF Spec

-----------------------------------------------------------------------------
(* The list of phones.                                                     *)

\* The list is filled from its start or already holds every phone, and one
\* thread at a time fills it.
Filled(n) == Len(phones) = n \/ Len(phones) >= NumPhones

ListInv ==
    ~disturbed /\ ~gap =>
        /\ \A t, u \in Threads : run[t] # "none" /\ run[u] # "none" => t = u
        /\ \A t \in Threads : run[t] = "list" => Filled(index[t] - 1)
        /\ (\A t \in Threads : run[t] # "list") => Filled(0)

\* The list only grows at its end while it is filled.
LEMMA AppendFinds ==
  ASSUME TypeOK, NEW i \in 1..NumPhones, Filled(i - 1), phones' = Append(phones, i),
         \A j \in DOMAIN phones : j <= NumPhones => phones[j] = j
  PROVE  /\ Len(phones') = i \/ Len(phones') >= NumPhones
         /\ \A j \in DOMAIN phones' : j <= NumPhones => phones'[j] = j
<1>1. phones \in Seq(1..NumPhones) /\ Len(phones) \in Nat
  BY DEF TypeOK
<1>2. DOMAIN phones = 1..Len(phones) /\ DOMAIN phones' = 1..(Len(phones) + 1)
      /\ Len(phones') = Len(phones) + 1
  BY <1>1
<1>3. \A j \in DOMAIN phones : phones'[j] = phones[j]
  BY <1>1, <1>2
<1>4. phones'[Len(phones) + 1] = i
  BY <1>1
<1>5. Len(phones) + 1 <= NumPhones => Len(phones) + 1 = i
  BY <1>1, EcallAssumption DEF Filled, EcallAssumption
<1> QED
  BY <1>1, <1>2, <1>3, <1>4, <1>5, EcallAssumption DEF Filled, EcallAssumption

LEMMA ListStep ==
  ASSUME TypeOK, TypeOK', LetsGoInv, ListInv, IdFindsPhone, [~crashed /\ Next]_vars
  PROVE  ListInv' /\ IdFindsPhone'
<1> USE DEF ListInv, IdFindsPhone, Filled, sdkVars, opVars, runVars
<1>0. Service \in Threads
  BY DEF Threads
<1>1. ASSUME NEW t \in Threads, Initialize(t) PROVE ListInv' /\ IdFindsPhone'
  <2>0. run[t] # "none" /\ UNCHANGED disturbed /\ (gap => gap')
    BY <1>1 DEF Initialize, GetCallManager, GetPhoneManager, ListPhones, AddPhone,
                PhonesListed
  <2>1. \A u \in Threads : u # t => run'[u] = run[u] /\ index'[u] = index[u]
    BY <1>1 DEF Initialize, GetCallManager, GetPhoneManager, ListPhones, AddPhone,
                PhonesListed, TypeOK
  <2>2. SUFFICES ASSUME ~disturbed, ~gap' PROVE ListInv' /\ IdFindsPhone'
    BY <2>0
  <2>3. ~gap /\ \A u \in Threads : u # t => run[u] = "none" /\ run'[u] = "none"
    BY <2>0, <2>1, <2>2
  <2>4. CASE GetCallManager(t) \/ GetPhoneManager(t)
    <3>1. run[t] # "list" /\ run'[t] # "list" /\ UNCHANGED <<phones, index>>
      BY <2>4 DEF GetCallManager, GetPhoneManager, TypeOK
    <3> QED
      BY <2>2, <2>3, <3>1
  <2>5. CASE ListPhones(t)
    <3>1. run[t] # "list" /\ UNCHANGED phones
      BY <2>5 DEF ListPhones
    <3>2. run'[t] = "list" => index'[t] = 1
      BY <2>5, <3>1 DEF ListPhones, TypeOK
    <3> QED
      BY <2>2, <2>3, <3>1, <3>2
  <2>6. CASE AddPhone(t)
    <3>1. run[t] = "list" /\ run' = run /\ index[t] \in 1..NumPhones
      BY <2>6, EcallAssumption DEF AddPhone, TypeOK, EcallAssumption
    <3>2. \/ phones' = phones /\ index'[t] = index[t]
          \/ phones' = Append(phones, index[t]) /\ index'[t] = index[t] + 1
      BY <2>6, <2>2 DEF AddPhone, TypeOK
    <3>3. CASE phones' = phones /\ index'[t] = index[t]
      BY <2>2, <2>3, <3>1, <3>3
    <3>4. CASE phones' = Append(phones, index[t]) /\ index'[t] = index[t] + 1
      <4>1. /\ Len(phones') = index[t] \/ Len(phones') >= NumPhones
            /\ \A j \in DOMAIN phones' : j <= NumPhones => phones'[j] = j
        BY <2>2, <2>3, <3>1, <3>4, AppendFinds
      <4>2. Len(phones') = index'[t] - 1 \/ Len(phones') >= NumPhones
        BY <3>1, <3>4, <4>1
      <4> QED
        BY <2>2, <2>3, <3>1, <4>1, <4>2
    <3> QED
      BY <3>2, <3>3, <3>4
  <2>7. CASE PhonesListed(t)
    <3>1. run[t] = "list" /\ index[t] = NumPhones + 1 /\ run'[t] = "none"
          /\ UNCHANGED phones
      BY <2>7 DEF PhonesListed, TypeOK
    <3>2. Len(phones) >= NumPhones
      BY <2>2, <2>3, <3>1, EcallAssumption DEF EcallAssumption, TypeOK
    <3> QED
      BY <2>2, <2>3, <3>1, <3>2
  <2> QED
    BY <1>1, <2>4, <2>5, <2>6, <2>7 DEF Initialize
<1>2. CASE StartInit
  <2>1. SUFFICES ASSUME ~disturbed', ~gap PROVE ListInv' /\ IdFindsPhone'
    BY <1>2 DEF StartInit
  <2>2. ~disturbed /\ \A u \in Threads : run[u] = "none"
    BY <1>2, <2>1 DEF StartInit, Running
  <2>3. /\ \A u \in Threads : run'[u] = IF u = Service THEN "call" ELSE "none"
        /\ UNCHANGED <<phones, index>>
    BY <1>2, <2>2 DEF StartInit, TypeOK
  <2>4. Filled(0) /\ \A u \in Threads : run'[u] # "list"
    BY <2>1, <2>2, <2>3
  <2> QED
    BY <2>1, <2>2, <2>3, <2>4
<1>3. CASE RegisterModem \/ RegisterCalls \/ RegisterPhones
  <2>1. CASE RegisterModem
    BY <2>1 DEF RegisterModem
  <2>2. CASE RegisterCalls
    BY <2>2 DEF RegisterCalls
  <2>3. CASE RegisterPhones
    BY <2>3 DEF RegisterPhones
  <2> QED
    BY <1>3, <2>1, <2>2, <2>3
<1>4. CASE StartDeinit
  BY <1>4 DEF StartDeinit
<1>5. CASE RemoveListener \/ DropManagers \/ ClearListener
  BY <1>5 DEF RemoveListener, Remove, DropManagers, ClearListener
<1>6. CASE ClearPhones
  <2>1. UNCHANGED <<run, index, disturbed, gap>> /\ phones' = <<>>
        /\ Len(phones') = 0 /\ DOMAIN phones' = {} /\ op = "clear"
    BY <1>6 DEF ClearPhones
  <2>2. ~disturbed => \A u \in Threads : run[u] = "none"
    BY <2>1 DEF LetsGoInv, Down
  <2> QED
    BY <2>1, <2>2
<1>7. ASSUME NEW c \in Clients, RegisterListener(c) PROVE ListInv' /\ IdFindsPhone'
  BY <1>7 DEF RegisterListener
<1>8. ASSUME NEW n \in Notices, Notice(n) PROVE ListInv' /\ IdFindsPhone'
  <2>1. CASE Restart(n)
    <3>1. SUFFICES ASSUME ~disturbed', ~gap PROVE ListInv' /\ IdFindsPhone'
      BY <2>1 DEF Restart
    <3>2. ~disturbed /\ \A u \in Threads : run[u] = "none"
      BY <2>1, <3>1 DEF Restart, Running
    <3>3. n \in Threads /\ UNCHANGED <<phones, index, gap>>
          /\ \A u \in Threads : run'[u] = IF u = n THEN "call" ELSE "none"
      BY <2>1, <3>2 DEF Restart, Threads, TypeOK
    <3> QED
      BY <3>1, <3>2, <3>3, <1>0
  <2>2. CASE Notify(n) \/ Forward(n) \/ CopyListener(n) \/ Deliver(n)
    <3>1. UNCHANGED <<phones, run, index, disturbed, gap>>
      BY <2>2 DEF Notify, Forward, CopyListener, Deliver
    <3> QED
      BY <3>1
  <2> QED
    BY <1>8, <2>1, <2>2 DEF Notice
<1>9. CASE UNCHANGED vars
  BY <1>9 DEF vars
<1> QED
  BY <1>1, <1>2, <1>3, <1>4, <1>5, <1>6, <1>7, <1>8, <1>9 DEF Next, ServiceStep

\* A phone id of the device finds its phone in Phones however often Init and the
\* restarts extend the list, as long as no two of them overlap and the SDK hands
\* out every phone.
THEOREM IdsFindPhones == Spec => []IdFindsPhone
<1>1. Init => ListInv /\ IdFindsPhone
  BY DEF Init, ListInv, IdFindsPhone, Filled
<1>2. Init => LetsGoInv
  BY DEF Init, LetsGoInv, Threads
<1>3. /\ TypeOK /\ LetsGoInv /\ ListInv /\ IdFindsPhone
      /\ [~crashed /\ Next]_vars
      => (ListInv /\ IdFindsPhone)'
  BY TypeStep, ListStep
<1> QED
  BY <1>1, <1>2, <1>3, TypeCorrect, LetsGoStep, PTL DEF Spec

=============================================================================
