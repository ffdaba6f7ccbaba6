---------------------------- MODULE DataLifecycle ----------------------------
(***************************************************************************)
(* Init and Deinit of the data PA (tafDataPa.cpp) over its subsystems: the *)
(* phone manager, then for every slot the serving system, the profile and  *)
(* the connection manager of the SDK.  Each has a state the PA reports, a  *)
(* manager in a map, a listener, and a flag that says the listener is      *)
(* registered.  Status events of the SDK change the reported state on the  *)
(* SDK's threads, between any two steps of Init and Deinit and after them. *)
(*                                                                         *)
(* Subsystem 1 is the serving system; the others behave alike and come     *)
(* after it in Init and before it in Deinit (2 the profiles, 3 the         *)
(* connections).                                                           *)
(***************************************************************************)
EXTENDS Naturals

CONSTANTS
    NumKinds,    \* the subsystems with a manager for each slot
    NumSlots,    \* slotCount_
    MaxInits,    \* bound: how many times the service calls Init
    MaxEvents    \* bound: how many status events the SDK sends

ASSUME LifecycleAssumption ==
    /\ NumKinds \in Nat \ {0} /\ NumSlots \in Nat \ {0}
    /\ MaxInits \in Nat /\ MaxEvents \in Nat

VARIABLES
    phone,       \* dataPhoneMngrInitState_ = AVAILABLE
    state,       \* the reported state of each part
    manager,     \* the part has a manager and a listener in the PA's maps
    flag,        \* the PA holds the listener of the part for registered
    sdk,         \* the SDK holds the listener of the part
    event,       \* the status event under way to the listener of the part
    late,        \* history: a status event set the state after its manager went
    ready,       \* gDataPaInitialized
    result,      \* what the last Init returned
    op, kind, slot,  \* where the thread in Init or Deinit is
    allOk,       \* its allSuccess: no deregistration of this subsystem failed
    inits, events

partVars == <<state, manager, flag, sdk, late>>
boundVars == <<inits, events>>
vars == <<phone, state, manager, flag, sdk, event, late, ready, result, op, kind,
          slot, allOk, inits, events>>

Kinds == 1..NumKinds
Slots == 1..NumSlots
Parts == Kinds \X Slots
Serving == 1

States == {"AVAILABLE", "UNAVAILABLE", "FAILED"}
Results == {"none", "OK", "UNAVAILABLE", "FAULT"}
Ops == {"idle", "init", "register", "finish", "deregister", "clear", "states",
        "crashedPhone", "crashedServing"}

TypeOK ==
    /\ phone \in BOOLEAN /\ ready \in BOOLEAN /\ allOk \in BOOLEAN
    /\ state \in [Parts -> States]
    /\ manager \in [Parts -> BOOLEAN]
    /\ flag \in [Parts -> BOOLEAN]
    /\ sdk \in [Parts -> BOOLEAN]
    /\ event \in [Parts -> States \cup {"none"}]
    /\ late \in SUBSET Parts
    /\ result \in Results
    /\ op \in Ops /\ kind \in Kinds /\ slot \in Slots
    /\ inits \in 0..MaxInits /\ events \in 0..MaxEvents

Init ==
    /\ phone = FALSE /\ ready = FALSE /\ allOk = TRUE
    /\ state = [p \in Parts |-> "FAILED"]
    /\ manager = [p \in Parts |-> FALSE]
    /\ flag = [p \in Parts |-> FALSE]
    /\ sdk = [p \in Parts |-> FALSE]
    /\ event = [p \in Parts |-> "none"]
    /\ late = {}
    /\ result = "none"
    /\ op = "idle" /\ kind = Serving /\ slot = 1
    /\ inits = 0 /\ events = 0

\* The part the thread is at.
here == <<kind, slot>>

At(where) == op' = where[1] /\ kind' = where[2] /\ slot' = where[3]

\* On to the next slot, or past the last one.
Advance(past) ==
    At(IF slot < NumSlots THEN <<op, kind, slot + 1>> ELSE past)

-----------------------------------------------------------------------------
(* taf::pa::data::Init.                                                    *)

\* initPhoneManager, checkAndUpdateSlotCount and the reset of the registration
\* map.  When the phone manager fails or times out its state is left as it was;
\* when the factory has none, checkAndUpdateSlotCount dereferences null.
InitPhone ==
    /\ op = "idle" /\ inits < MaxInits
    /\ inits' = inits + 1
    /\ \/ /\ phone' \in {phone, TRUE}
          /\ flag' = [p \in Parts |-> IF p[1] = Serving THEN FALSE ELSE flag[p]]
          /\ At(<<"init", Serving, 1>>)
       \/ /\ At(<<"crashedPhone", Serving, 1>>)
          /\ UNCHANGED <<phone, flag>>
    /\ UNCHANGED <<state, manager, sdk, event, late, ready, result, allOk, events>>

\* The end of the Init of one subsystem.
InitNext == IF kind < NumKinds THEN <<"init", kind + 1, 1>>
                               ELSE <<"finish", Serving, 1>>

\* The profiles and the connections are not touched without the phone manager.
SkipSubsystem ==
    /\ op = "init" /\ kind # Serving /\ ~phone
    /\ At(InitNext)
    /\ UNCHANGED <<phone, partVars, event, ready, result, allOk, boundVars>>

\* A slot that is AVAILABLE already is skipped.
InitSkip ==
    /\ op = "init" /\ (kind = Serving \/ phone)
    /\ state[here] = "AVAILABLE"
    /\ Advance(<<"register", kind, 1>>)
    /\ UNCHANGED <<phone, partVars, event, ready, result, allOk, boundVars>>

\* No manager, no answer within SUBSYSTEM_INIT_TIMEOUT or a failed service sets
\* FAILED; SERVICE_UNAVAILABLE leaves the state as it is.
InitFails ==
    /\ op = "init" /\ (kind = Serving \/ phone)
    /\ state[here] # "AVAILABLE"
    /\ state' \in {state, [state EXCEPT ![here] = "FAILED"]}
    /\ Advance(<<"register", kind, 1>>)
    /\ UNCHANGED <<phone, manager, flag, sdk, event, late, ready, result, allOk,
                   boundVars>>

\* Mutant of InitAvailable: the state is set, the manager is not stored.
InitStoresNothing ==
    /\ op = "init" /\ (kind = Serving \/ phone)
    /\ state[here] # "AVAILABLE"
    /\ state' = [state EXCEPT ![here] = "AVAILABLE"]
    /\ Advance(<<"register", kind, 1>>)
    /\ UNCHANGED <<phone, manager, sdk, event, ready, result, allOk, boundVars, flag,
                   late>>

\* The service is available: manager and listener are stored, unless the maps
\* hold older ones, and all but the serving system reset the registered flag.
InitAvailable ==
    /\ op = "init" /\ (kind = Serving \/ phone)
    /\ state[here] # "AVAILABLE"
    /\ state' = [state EXCEPT ![here] = "AVAILABLE"]
    /\ manager' = [manager EXCEPT ![here] = TRUE]
    /\ flag' = [flag EXCEPT ![here] = IF kind = Serving THEN @ ELSE FALSE]
    /\ late' = late \ {here}
    /\ Advance(<<"register", kind, 1>>)
    /\ UNCHANGED <<phone, sdk, event, ready, result, allOk, boundVars>>

\* Registered before, or not to be registered: no manager, or a state that is
\* not AVAILABLE.  Or the SDK refuses the listener.
RegisterSkip ==
    /\ op = "register"
    /\ kind = Serving => flag[here] \/ state[here] # "AVAILABLE" \/ manager[here]
    /\ Advance(InitNext)
    /\ UNCHANGED <<phone, partVars, event, ready, result, allOk, boundVars>>

Registrable == ~flag[here] /\ state[here] = "AVAILABLE"

\* The SDK keeps the listener, a weak reference, once.
RegisterSlot ==
    /\ op = "register" /\ Registrable /\ manager[here]
    /\ sdk' = [sdk EXCEPT ![here] = TRUE]
    /\ flag' = [flag EXCEPT ![here] = TRUE]
    /\ Advance(InitNext)
    /\ UNCHANGED <<phone, state, manager, late, event, ready, result, allOk, boundVars>>

\* The serving system takes the manager from the map without looking for it.
RegisterCrash ==
    /\ op = "register" /\ kind = Serving /\ Registrable /\ ~manager[here]
    /\ At(<<"crashedServing", Serving, 1>>)
    /\ UNCHANGED <<phone, partVars, event, ready, result, allOk, boundVars>>

SlotReady(s) == \A k \in Kinds : state[<<k, s>>] = "AVAILABLE"

\* The states are checked, the registrations are not.
Finish ==
    /\ op = "finish"
    /\ LET readySlots == IF phone THEN { s \in Slots : SlotReady(s) } ELSE {}
       IN  /\ ready' = (ready \/ readySlots # {})
           /\ result' = CASE readySlots = Slots -> "OK"
                          [] readySlots = {}    -> "FAULT"
                          [] OTHER              -> "UNAVAILABLE"
    /\ At(<<"idle", Serving, 1>>)
    /\ UNCHANGED <<phone, partVars, event, allOk, boundVars>>

-----------------------------------------------------------------------------
(* taf::pa::data::Deinit.                                                  *)

\* Refused without gDataPaInitialized.
StartDeinit ==
    /\ op = "idle" /\ ready
    /\ allOk' = TRUE
    /\ At(<<"deregister", IF NumKinds > 1 THEN 2 ELSE Serving, 1>>)
    /\ UNCHANGED <<phone, partVars, event, ready, result, boundVars>>

\* The failure of one slot does not stop the others.
DeregisterFails ==
    /\ op = "deregister" /\ flag[here]
    /\ allOk' = FALSE
    /\ Advance(<<"clear", kind, 1>>)
    /\ UNCHANGED <<phone, partVars, event, ready, result, boundVars>>

DeregisterSkip ==
    /\ op = "deregister" /\ ~flag[here]
    /\ Advance(<<"clear", kind, 1>>)
    /\ UNCHANGED <<phone, partVars, event, ready, result, allOk, boundVars>>

\* Mutant of DeregisterSlot: the registered flag is not reset.
DeregisterKeepsFlag ==
    /\ op = "deregister" /\ flag[here]
    /\ sdk' = [sdk EXCEPT ![here] = FALSE]
    /\ Advance(<<"clear", kind, 1>>)
    /\ UNCHANGED <<phone, state, manager, flag, late, event, ready, result, allOk,
                   boundVars>>

DeregisterSlot ==
    /\ op = "deregister" /\ flag[here]
    /\ sdk' = [sdk EXCEPT ![here] = FALSE]
    /\ flag' = [flag EXCEPT ![here] = FALSE]
    /\ Advance(<<"clear", kind, 1>>)
    /\ UNCHANGED <<phone, state, manager, late, event, ready, result, allOk, boundVars>>

\* The end of the Deinit of one subsystem; the serving system is the last.
DeinitNext ==
    IF kind = Serving THEN <<"idle", Serving, 1>>
    ELSE <<"deregister", IF kind < NumKinds THEN kind + 1 ELSE Serving, 1>>

\* After a failure the subsystem is left as it is and Deinit goes on; the
\* initialised flag falls at the end all the same.
KeepMaps ==
    /\ op = "clear" /\ ~allOk
    /\ allOk' = TRUE
    /\ At(DeinitNext)
    /\ ready' = (ready /\ kind # Serving)
    /\ UNCHANGED <<phone, partVars, event, result, boundVars>>

\* The maps are cleared.  The listeners go with them, and so does what the SDK
\* still knew of them.
ClearMaps ==
    /\ op = "clear" /\ allOk
    /\ manager' = [p \in Parts |-> manager[p] /\ p[1] # kind]
    /\ sdk' = [p \in Parts |-> sdk[p] /\ p[1] # kind]
    /\ op' = "states"
    /\ UNCHANGED <<phone, state, flag, late, event, ready, result, kind, slot, allOk,
                   boundVars>>

\* Mutant of ClearStates: the states are cleared like the maps.
ClearStatesErased ==
    /\ op = "states"
    /\ state' = [p \in {q \in Parts : q[1] # kind} |-> state[p]]
    /\ At(DeinitNext)
    /\ UNCHANGED <<phone, manager, flag, sdk, late, event, ready, result, allOk,
                   boundVars>>

\* Mutant of ClearStates: the states are left as the last event set them.
ClearStatesKept ==
    /\ op = "states"
    /\ phone' = (phone /\ kind # Serving)
    /\ ready' = (ready /\ kind # Serving)
    /\ At(DeinitNext)
    /\ UNCHANGED <<state, manager, flag, sdk, late, event, result, allOk, boundVars>>

\* The states fall to FAILED.  The serving system then clears its registration
\* map and lets the phone manager go, and the initialised flag falls.
ClearStates ==
    /\ op = "states"
    /\ state' = [p \in Parts |-> IF p[1] = kind THEN "FAILED" ELSE state[p]]
    /\ late' = { p \in late : p[1] # kind }
    /\ phone' = (phone /\ kind # Serving)
    /\ ready' = (ready /\ kind # Serving)
    /\ flag' = [p \in Parts |-> flag[p] /\ ~(kind = Serving /\ p[1] = Serving)]
    /\ At(DeinitNext)
    /\ UNCHANGED <<manager, sdk, event, result, allOk, boundVars>>

-----------------------------------------------------------------------------
(* onServiceStatusChange of the listeners, on the threads of the SDK.      *)

\* The SDK takes the listener for a call ...
Notify(p) ==
    /\ sdk[p] /\ event[p] = "none" /\ events < MaxEvents
    /\ \E s \in States : event' = [event EXCEPT ![p] = s]
    /\ events' = events + 1
    /\ UNCHANGED <<phone, partVars, ready, result, op, kind, slot, allOk, inits>>

\* ... and the listener sets the state: the serving system always, the others
\* while the phone manager is up.  No one asks whether the manager is still there.
SetState(p) ==
    /\ event[p] # "none"
    /\ event' = [event EXCEPT ![p] = "none"]
    /\ IF p[1] = Serving \/ phone
       THEN /\ state' = [state EXCEPT ![p] = event[p]]
            /\ late' = IF manager[p] THEN late ELSE late \cup {p}
       ELSE UNCHANGED <<state, late>>
    /\ UNCHANGED <<phone, manager, flag, sdk, ready, result, op, kind, slot, allOk,
                   boundVars>>

-----------------------------------------------------------------------------
InitStep ==
    \/ InitPhone \/ SkipSubsystem \/ InitSkip \/ InitFails \/ InitAvailable
    \/ RegisterSkip \/ RegisterSlot \/ RegisterCrash \/ Finish

DeinitStep ==
    \/ StartDeinit \/ DeregisterFails \/ DeregisterSkip \/ DeregisterSlot
    \/ KeepMaps \/ ClearMaps \/ ClearStates

Alive == op \notin {"crashedPhone", "crashedServing"}

Next ==
    /\ Alive
    /\ InitStep \/ DeinitStep \/ \E p \in Parts : Notify(p) \/ SetState(p)

Spec == Init /\ [][Next]_vars

-----------------------------------------------------------------------------
(* Properties.                                                             *)

\* A listener the PA holds for registered is registered, and its manager is
\* there: the deregistration, which takes the manager from the map without
\* looking for it, finds it, in any order of Init, Deinit, events and failures.
FlagIsTrue == \A p \in Parts : flag[p] => sdk[p] /\ manager[p]

\* A part is AVAILABLE without a manager only when a status event came after
\* Deinit had cleared the map: what Init takes for "initialized already" is.
StateTracksManager ==
    \A p \in Parts : state[p] = "AVAILABLE" =>
        manager[p] \/ p \in late \/ (op = "states" /\ kind = p[1])

\* Init dereferences a serving system manager that is not in the map only after
\* such a late event; no failure, partial or repeated Init leads there.
CrashNeedsLateEvent ==
    op = "crashedServing" => \E s \in Slots : <<Serving, s>> \in late

\* Deinit is never accepted without the phone manager: none of the subsystems'
\* Deinits takes the early return of its phone check, which would leave the
\* subsystem up with gDataPaInitialized gone.
ReadyHasPhone == ready => phone

\* tafDataPa.cpp:29 and tafDataPa.hpp, of PA_OK: "PA completely initialized", so
\* that the listener of every subsystem of every slot is registered.
OkIsComplete ==
    op = "idle" /\ ready /\ result = "OK" => \A p \in Parts : flag[p]

=============================================================================
