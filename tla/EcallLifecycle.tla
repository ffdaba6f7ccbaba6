---------------------------- MODULE EcallLifecycle ----------------------------
(***************************************************************************)
(* The controller of the eCall PA (EcallPaController): its managers, its    *)
(* list of phones, its listeners at the SDK and the one listener of the     *)
(* service.  taf_pa_ecall_Init and taf_pa_ecall_Deinit run on the service's *)
(* control thread; when the modem comes back after a restart a thread of    *)
(* the SDK runs InitializeSDKSubsystem too, without a lock.                 *)
(***************************************************************************)
EXTENDS Naturals, Sequences

CONSTANTS
    NumPhones,   \* the phones of the device
    Service,     \* the control thread of the service
    Restarts,    \* the calls of the SDK to onStateChange, a thread for each
    Events,      \* its calls to the other listener functions
    Clients,     \* listeners of the service, each registered with its context
    NoClient,    \* eventListener_ = nullptr, and an empty context
    MaxInits,    \* bound: how many times the service calls Init
    MaxDeinits   \* bound: how many times it calls Deinit with effect

ASSUME EcallAssumption ==
    /\ NumPhones \in Nat \ {0}
    /\ Service \notin Restarts /\ Restarts \cap Events = {}
    /\ NoClient \notin Clients
    /\ MaxInits \in Nat /\ MaxDeinits \in Nat

VARIABLES
    held,        \* the managers the PA holds: CallManager_, PhoneManager_,
                 \* subsystemMgr_
    sdk,         \* the listeners of the PA the SDK holds, one for each manager
    phones,      \* Phones
    inited,      \* isInitialized_
    listener,    \* eventListener_
    context,     \* contextPtr_
    op,          \* where the control thread is
    run,         \* where each thread is in InitializeSDKSubsystem
    index,       \* its loop index
    at,          \* where the thread of each event is
    snap,        \* its copy of eventListener_ and contextPtr_
    disturbed,   \* history: a restart ran beside an Init, a Deinit or another
                 \* restart, or outside the life of the PA
    gap,         \* history: the SDK withheld a phone
    crashed,     \* a null manager or a missing phone was dereferenced
    inits, deinits

sdkVars == <<held, sdk, phones>>
opVars == <<inited, op, inits, deinits>>
runVars == <<run, index>>
eventVars == <<at, snap>>
clientVars == <<listener, context>>
vars == <<sdkVars, opVars, runVars, eventVars, clientVars, disturbed, gap, crashed>>

Managers == {"call", "phone", "subsystem"}
Threads == {Service} \cup Restarts
Notices == Restarts \cup Events
Pairs == [client : Clients \cup {NoClient}, context : Clients \cup {NoClient}]
Nothing == [client |-> NoClient, context |-> NoClient]

OpSteps == {"idle", "down", "sdk", "calls", "phones", "removeCall", "removePhone",
            "removeSubsystem", "managers", "clear", "listener"}
RunSteps == {"none", "call", "phone", "ids", "list"}
EventSteps == {"new", "notified", "running", "copy", "deliver", "done"}

TypeOK ==
    /\ held \in SUBSET Managers /\ sdk \in SUBSET Managers
    /\ phones \in Seq(1..NumPhones)
    /\ inited \in BOOLEAN /\ disturbed \in BOOLEAN /\ gap \in BOOLEAN
    /\ crashed \in BOOLEAN
    /\ listener \in Clients \cup {NoClient} /\ context \in Clients \cup {NoClient}
    /\ op \in OpSteps
    /\ run \in [Threads -> RunSteps]
    /\ index \in [Threads -> 1..(NumPhones + 1)]
    /\ at \in [Notices -> EventSteps]
    /\ snap \in [Notices -> Pairs]
    /\ inits \in 0..MaxInits /\ deinits \in 0..MaxDeinits

Init ==
    /\ held = {} /\ sdk = {} /\ phones = <<>>
    /\ inited = FALSE /\ disturbed = FALSE /\ gap = FALSE /\ crashed = FALSE
    /\ listener = NoClient /\ context = NoClient
    /\ op = "down"
    /\ run = [t \in Threads |-> "none"]
    /\ index = [t \in Threads |-> 1]
    /\ at = [n \in Notices |-> "new"]
    /\ snap = [n \in Notices |-> Nothing]
    /\ inits = 0 /\ deinits = 0

\* The threads inside InitializeSDKSubsystem.
Running == { t \in Threads : run[t] # "none" }

Crash == crashed' = TRUE

-----------------------------------------------------------------------------
(* InitializeSDKSubsystem, on the control thread or on that of a restart.  *)

\* The factory may have none; the function only logs it.  The wait for the
\* service's status ends by an answer or by its timeout, to the same effect.
GetCallManager(t) ==
    /\ run[t] = "call"
    /\ held' \in {held \cup {"call"}, held \ {"call"}}
    /\ run' = [run EXCEPT ![t] = "phone"]
    /\ UNCHANGED <<sdk, phones, opVars, index, eventVars, clientVars, disturbed, gap,
                   crashed>>

\* Without a manager its getServiceStatus is called all the same.
GetPhoneManager(t) ==
    /\ run[t] = "phone"
    /\ \/ /\ held' = held \cup {"phone"}
          /\ run' = [run EXCEPT ![t] = "ids"]
          /\ UNCHANGED crashed
       \/ held' = held \ {"phone"} /\ Crash /\ UNCHANGED run
    /\ UNCHANGED <<sdk, phones, opVars, index, eventVars, clientVars, disturbed, gap>>

\* After the wait PhoneManager_ is read again, for the phone ids: they are not
\* to be had, or the loop over them begins.
ListPhones(t) ==
    /\ run[t] = "ids"
    /\ \/ "phone" \notin held /\ Crash /\ UNCHANGED runVars
       \/ /\ "phone" \in held
          /\ \E step \in {"list", "none"} : run' = [run EXCEPT ![t] = step]
          /\ index' = [index EXCEPT ![t] = 1]
          /\ UNCHANGED crashed
    /\ UNCHANGED <<sdkVars, opVars, eventVars, clientVars, disturbed, gap>>

\* Mutant of AddPhone: the loop counts the ids from 0.
AddPhoneFromZero(t) ==
    /\ run[t] = "list" /\ index[t] <= NumPhones
    /\ phones' = Append(phones, index[t] - 1)
    /\ index' = [index EXCEPT ![t] = @ + 1]
    /\ UNCHANGED <<held, sdk, opVars, run, eventVars, clientVars, disturbed, gap, crashed>>

\* Mutant of AddPhone: the list is filled from its other end.
AddPhoneFirst(t) ==
    /\ run[t] = "list" /\ index[t] <= NumPhones
    /\ phones' = <<index[t]>> \o phones
    /\ index' = [index EXCEPT ![t] = @ + 1]
    /\ UNCHANGED <<held, sdk, opVars, run, eventVars, clientVars, disturbed, gap, crashed>>

\* A phone the SDK does not hand out leaves no hole in the list.  What another
\* thread appends at the same time may overwrite this one's.
AddPhone(t) ==
    /\ run[t] = "list" /\ index[t] <= NumPhones
    /\ \/ "phone" \notin held /\ Crash /\ UNCHANGED <<phones, index, gap>>
       \/ /\ "phone" \in held
          /\ \/ phones' = Append(phones, index[t]) /\ UNCHANGED gap
             \/ UNCHANGED phones /\ gap' = TRUE
          /\ index' = [index EXCEPT ![t] = @ + 1]
          /\ UNCHANGED crashed
    /\ UNCHANGED <<held, sdk, opVars, run, eventVars, clientVars, disturbed>>

PhonesListed(t) ==
    /\ run[t] = "list" /\ index[t] = NumPhones + 1
    /\ run' = [run EXCEPT ![t] = "none"]
    /\ index' = [index EXCEPT ![t] = 1]
    /\ UNCHANGED <<sdkVars, opVars, eventVars, clientVars, disturbed, gap, crashed>>

-----------------------------------------------------------------------------
(* taf_pa_ecall_Init: nothing asks whether the PA is initialised already.  *)

StartInit ==
    /\ op \in {"idle", "down"} /\ inits < MaxInits
    /\ inits' = inits + 1
    /\ op' = "sdk"
    /\ run' = [run EXCEPT ![Service] = "call"]
    /\ disturbed' = (disturbed \/ Running # {})
    /\ UNCHANGED <<sdkVars, inited, deinits, index, eventVars, clientVars, gap, crashed>>

\* The modem listener: kept as it was without the subsystem service, else made
\* anew and registered, or refused.
RegisterModem ==
    /\ op = "sdk" /\ run[Service] = "none"
    /\ \/ held' \in {held \cup {"subsystem"}, held \ {"subsystem"}} /\ UNCHANGED sdk
       \/ /\ held' = held \cup {"subsystem"}
          /\ sdk' \in {sdk \cup {"subsystem"}, sdk \ {"subsystem"}}
    /\ op' = "calls"
    /\ UNCHANGED <<phones, inited, inits, deinits, runVars, eventVars, clientVars,
                   disturbed, gap, crashed>>

\* A new listener replaces the old one, which the SDK then loses, and is
\* registered with the manager: PA_FAULT when the SDK refuses.
Register(manager, from, to) ==
    /\ op = from
    /\ \/ manager \notin held /\ Crash /\ UNCHANGED <<sdk, op>>
       \/ manager \in held /\ op' = to /\ sdk' = sdk \cup {manager} /\ UNCHANGED crashed
       \/ manager \in held /\ op' = "idle" /\ sdk' = sdk \ {manager} /\ UNCHANGED crashed

RegisterCalls ==
    /\ Register("call", "calls", "phones")
    /\ UNCHANGED <<held, phones, inited, inits, deinits, runVars, eventVars, clientVars,
                   disturbed, gap>>

RegisterPhones ==
    /\ Register("phone", "phones", "idle")
    /\ inited' = (inited \/ (~crashed' /\ "phone" \in sdk'))
    /\ UNCHANGED <<held, phones, inits, deinits, runVars, eventVars, clientVars,
                   disturbed, gap>>

-----------------------------------------------------------------------------
(* taf_pa_ecall_Deinit.                                                    *)

\* Refused before a successful Init.
StartDeinit ==
    /\ op = "idle" /\ inited /\ deinits < MaxDeinits
    /\ deinits' = deinits + 1
    /\ op' = "removeCall"
    /\ disturbed' = (disturbed \/ Running # {})
    /\ UNCHANGED <<sdkVars, inited, inits, runVars, eventVars, clientVars, gap, crashed>>

\* Deregistered where the PA holds the manager, and let go whatever the SDK says.
Remove(manager, from, to) ==
    /\ op = from /\ op' = to
    /\ sdk' = IF manager \in held THEN sdk \ {manager} ELSE sdk

RemoveListener ==
    /\ \/ Remove("call", "removeCall", "removePhone")
       \/ Remove("phone", "removePhone", "removeSubsystem")
       \/ Remove("subsystem", "removeSubsystem", "managers")
    /\ UNCHANGED <<held, phones, inited, inits, deinits, runVars, eventVars, clientVars,
                   disturbed, gap, crashed>>

DropManagers ==
    /\ op = "managers"
    /\ held' = {}
    /\ op' = "clear"
    /\ UNCHANGED <<sdk, phones, inited, inits, deinits, runVars, eventVars, clientVars,
                   disturbed, gap, crashed>>

\* Mutant of ClearPhones: the list is left to the next Init.
ClearPhonesForgotten ==
    /\ op = "clear"
    /\ op' = "listener"
    /\ UNCHANGED <<sdkVars, inited, inits, deinits, runVars, eventVars, clientVars,
                   disturbed, gap, crashed>>

ClearPhones ==
    /\ op = "clear"
    /\ phones' = <<>>
    /\ op' = "listener"
    /\ UNCHANGED <<held, sdk, inited, inits, deinits, runVars, eventVars, clientVars,
                   disturbed, gap, crashed>>

\* Under listenerMutex_; then the initialised flag falls.
ClearListener ==
    /\ op = "listener"
    /\ listener' = NoClient /\ context' = NoClient
    /\ inited' = FALSE
    /\ op' = "down"
    /\ UNCHANGED <<sdkVars, inits, deinits, runVars, eventVars, disturbed, gap, crashed>>

-----------------------------------------------------------------------------
(* The listener of the service and the events of the SDK.                  *)

\* taf_pa_ecall_RegisterListener, under listenerMutex_, at any time.
RegisterListener(c) ==
    /\ listener' = c /\ context' = c
    /\ UNCHANGED <<sdkVars, opVars, runVars, eventVars, disturbed, gap, crashed>>

\* Where the SDK takes the listener for an event from.
Source(n) == IF n \in Restarts THEN {"subsystem"} ELSE {"call", "phone"}

Notify(n) ==
    /\ at[n] = "new" /\ sdk \cap Source(n) # {}
    /\ at' = [at EXCEPT ![n] = "notified"]
    /\ UNCHANGED <<sdkVars, opVars, runVars, snap, clientVars, disturbed, gap,
                   crashed>>

\* onStateChange, OPERATIONAL: the managers and phones are fetched again.
Restart(n) ==
    /\ n \in Restarts /\ at[n] = "notified"
    /\ at' = [at EXCEPT ![n] = "running"]
    /\ run' = [run EXCEPT ![n] = "call"]
    /\ disturbed' = (disturbed \/ op # "idle" \/ ~inited \/ Running # {})
    /\ UNCHANGED <<sdkVars, opVars, index, snap, clientVars, gap, crashed>>

\* Other states, other events, and the end of a restart go on to the listener;
\* a call that is null or not incoming is dropped.
Forward(n) ==
    /\ \/ at[n] = "notified" /\ \E step \in {"copy", "done"} : at' = [at EXCEPT ![n] = step]
       \/ /\ at[n] = "running" /\ run[n] = "none"
          /\ at' = [at EXCEPT ![n] = "copy"]
    /\ UNCHANGED <<sdkVars, opVars, runVars, snap, clientVars, disturbed, gap,
                   crashed>>

\* Under listenerMutex_.
CopyListener(n) ==
    /\ at[n] = "copy"
    /\ snap' = [snap EXCEPT ![n] = [client |-> listener, context |-> context]]
    /\ at' = [at EXCEPT ![n] = "deliver"]
    /\ UNCHANGED <<sdkVars, opVars, runVars, clientVars, disturbed, gap, crashed>>

\* Outside the lock: the copy is called, if it has a listener, and dropped.
Deliver(n) ==
    /\ at[n] = "deliver"
    /\ at' = [at EXCEPT ![n] = "done"]
    /\ snap' = [snap EXCEPT ![n] = Nothing]
    /\ UNCHANGED <<sdkVars, opVars, runVars, clientVars, disturbed, gap, crashed>>

-----------------------------------------------------------------------------
Initialize(t) ==
    \/ GetCallManager(t) \/ GetPhoneManager(t) \/ ListPhones(t) \/ AddPhone(t)
    \/ PhonesListed(t)

ServiceStep ==
    \/ StartInit \/ RegisterModem \/ RegisterCalls \/ RegisterPhones
    \/ StartDeinit \/ RemoveListener \/ DropManagers \/ ClearPhones \/ ClearListener
    \/ \E c \in Clients : RegisterListener(c)

Notice(n) == Notify(n) \/ Restart(n) \/ Forward(n) \/ CopyListener(n) \/ Deliver(n)

Next ==
    \/ ServiceStep
    \/ \E t \in Threads : Initialize(t)
    \/ \E n \in Notices : Notice(n)

\* The process does not outlive a crash.
Spec == Init /\ [][~crashed /\ Next]_vars

-----------------------------------------------------------------------------
(* Properties.                                                             *)

\* A phone id of the device finds its own phone in the list, which every Init
\* and every restart of the modem extends, unless a restart ran beside another
\* change of the list or the SDK withheld a phone.
IdFindsPhone ==
    ~disturbed /\ ~gap =>
        \A i \in DOMAIN phones : i <= NumPhones => phones[i] = i

\* What Deinit let go stays gone until the next Init, unless a restart overtook
\* it: the PA refuses commands and holds no manager and no phone.
DeinitLetsGo == op = "down" /\ ~disturbed => held = {} /\ phones = <<>>

\* An event is to call a listener with the context that listener was registered
\* with, whatever Deinit and registrations do between its steps.
OwnContext == \A n \in Notices : snap[n].context = snap[n].client

\* A phone id the device does not have is refused: the list has no phone for it.
\* tafEcallPa.cpp:1157 reports "No phone found corresponding to phoneId".
UnknownPhoneRefused == Len(phones) <= NumPhones

=============================================================================
