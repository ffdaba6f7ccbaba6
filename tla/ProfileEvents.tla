---------------------------- MODULE ProfileEvents ----------------------------
(***************************************************************************)
(* Profile events of the data PA (TafPaTeluxDataProfile).  The SDK calls   *)
(* onProfileUpdate; for a CREATED or UPDATED profile the PA launches a     *)
(* detached worker that asks the SDK for the profile and then calls the    *)
(* clients.  deInitDataProfileManagers waits for the workers, at most      *)
(* NON_NETWORK_COMMAND_TIMEOUT, before it clears the managers they use:    *)
(* the drain protocol that tafDataTeluxDataProfilePa.hpp:239-266 documents. *)
(*                                                                         *)
(* Time is counted in ticks.  The clients' callbacks are the end of Send;  *)
(* who is registered for them is not in this module.                       *)
(***************************************************************************)
EXTENDS Naturals, FiniteSets

CONSTANTS
    Events,      \* the calls the SDK makes to onProfileUpdate
    Calls,       \* the calls the service makes to PaGetProfileInfo
    Nobody,      \* no holder of dataProfileGetDetailsMutex_
    Timeout,     \* NON_NETWORK_COMMAND_TIMEOUT, in ticks: of the request to
                 \* the SDK and of the drain alike
    MaxDeinits,  \* bound: how many times the service deinitialises the PA
    SerialLifecycle, \* the service makes no call while it runs Deinit or Init
    Prompt       \* no time passes while a thread can take a step

ASSUME ProfileEventsAssumption ==
    /\ IsFiniteSet(Events)
    /\ Events \cap Calls = {} /\ Nobody \notin Events \cup Calls
    /\ Timeout \in Nat \ {0}
    /\ MaxDeinits \in Nat
    /\ SerialLifecycle \in BOOLEAN /\ Prompt \in BOOLEAN

VARIABLES
    phone,       \* dataPhoneMngrInitState_ = AVAILABLE
    managers,    \* dataProfileManagersMap_ holds the manager of the slot
    registered,  \* the listener is registered with the SDK
    blocked,     \* deinitInProgress_
    count,       \* activeAsyncThreadCount_
    mutex,       \* the holder of dataProfileGetDetailsMutex_
    pc,          \* where each event and each call is
    waited,      \* ticks each thread has waited for the SDK's answer
    drain,       \* ticks Deinit has waited for the workers
    overrun,     \* the last drain timed out
    life,        \* where the thread that deinitialises and initialises is
    deinits,     \* how many deinitialisations have started
    crashed      \* a missing manager was dereferenced

lifeVars == <<phone, managers, registered, life, deinits>>
drainVars == <<blocked, count, drain, overrun>>
vars == <<phone, managers, registered, blocked, count, mutex, pc, waited, drain,
          overrun, life, deinits, crashed>>

Threads == Events \cup Calls

\* Where the activeAsyncThreadCount_ counts an event.
Counted == {"launching", "started", "checked", "locked", "waiting", "sending",
            "leaving"}
Steps == Counted \cup {"new", "notified", "deleted", "admit", "done"}
LifeSteps == {"up", "block", "drain", "clear", "phone", "down", "phoneUp",
              "unblocked", "managersUp"}

Workers == { e \in Events : pc[e] \in Counted }

TypeOK ==
    /\ phone \in BOOLEAN /\ managers \in BOOLEAN /\ registered \in BOOLEAN
    /\ blocked \in BOOLEAN /\ overrun \in BOOLEAN /\ crashed \in BOOLEAN
    /\ count \in Nat
    /\ mutex \in Threads \cup {Nobody}
    /\ pc \in [Threads -> Steps]
    /\ waited \in [Threads -> 0..Timeout]
    /\ drain \in 0..Timeout
    /\ life \in LifeSteps
    /\ deinits \in 0..MaxDeinits

Init ==
    /\ phone = TRUE /\ managers = TRUE /\ registered = TRUE
    /\ blocked = FALSE /\ overrun = FALSE /\ crashed = FALSE
    /\ count = 0
    /\ mutex = Nobody
    /\ pc = [t \in Threads |-> "new"]
    /\ waited = [t \in Threads |-> 0]
    /\ drain = 0
    /\ life = "up"
    /\ deinits = 0

Goto(t, step) == pc' = [pc EXCEPT ![t] = step]

-----------------------------------------------------------------------------
(* PaUpdateProfileEventInfo, on the thread of the SDK.                     *)

\* The SDK calls a registered listener; the call may outlive the registration.
Notify(e) ==
    /\ pc[e] = "new" /\ registered
    /\ Goto(e, "notified")
    /\ UNCHANGED <<lifeVars, drainVars, mutex, waited, crashed>>

\* Dropped without the phone manager, for a slot without a phone or an unknown
\* event; DELETED goes to the clients at once, CREATED and UPDATED to a worker.
Classify(e) ==
    /\ pc[e] = "notified"
    /\ \/ Goto(e, "done")
       \/ phone /\ Goto(e, "deleted")
       \/ phone /\ Goto(e, "admit")
    /\ UNCHANGED <<lifeVars, drainVars, mutex, waited, crashed>>

\* The clients' callbacks run on the thread of the SDK.
SendDeleted(e) ==
    /\ pc[e] = "deleted"
    /\ Goto(e, "done")
    /\ UNCHANGED <<lifeVars, drainVars, mutex, waited, crashed>>

\* Mutant of Admit: the event is counted whether or not Deinit has started.
AdmitAlways(e) ==
    /\ pc[e] = "admit"
    /\ count' = count + 1
    /\ Goto(e, "launching")
    /\ UNCHANGED <<lifeVars, blocked, drain, overrun, mutex, waited, crashed>>

\* Under asyncThreadDrainMtx_: dropped during a Deinit, counted otherwise.
Admit(e) ==
    /\ pc[e] = "admit"
    /\ \/ blocked /\ Goto(e, "done") /\ UNCHANGED count
       \/ ~blocked /\ Goto(e, "launching") /\ count' = count + 1
    /\ UNCHANGED <<lifeVars, blocked, drain, overrun, mutex, waited, crashed>>

\* Mutant of Launch: no undo when the thread cannot be created.
LaunchNoUndo(e) ==
    /\ pc[e] = "launching"
    /\ Goto(e, "started") \/ Goto(e, "done")
    /\ UNCHANGED <<lifeVars, drainVars, mutex, waited, crashed>>

\* The worker is created; std::system_error undoes the count.
Launch(e) ==
    /\ pc[e] = "launching"
    /\ \/ Goto(e, "started") /\ UNCHANGED count
       \/ Goto(e, "done") /\ count' = count - 1
    /\ UNCHANGED <<lifeVars, blocked, drain, overrun, mutex, waited, crashed>>

-----------------------------------------------------------------------------
(* getProfileDetails, on a worker or on the thread that calls              *)
(* PaGetProfileInfo.                                                       *)

CallBegins(c) ==
    /\ pc[c] = "new"
    /\ SerialLifecycle => life \in {"up", "down"}
    /\ Goto(c, IF phone THEN "started" ELSE "done")
    /\ UNCHANGED <<lifeVars, drainVars, mutex, waited, crashed>>

CheckPhone(t) ==
    /\ pc[t] = "started"
    /\ Goto(t, IF phone THEN "checked" ELSE "leaving")
    /\ UNCHANGED <<lifeVars, drainVars, mutex, waited, crashed>>

Lock(t) ==
    /\ pc[t] = "checked" /\ mutex = Nobody
    /\ mutex' = t
    /\ Goto(t, "locked")
    /\ UNCHANGED <<lifeVars, drainVars, waited, crashed>>

\* dataProfileManagersMap_[slot]->requestProfile: a missing entry is a null
\* pointer; the SDK accepts the request, or refuses it and the mutex is left.
Request(t) ==
    /\ pc[t] = "locked"
    /\ \/ ~managers /\ crashed' = TRUE /\ UNCHANGED <<pc, mutex>>
       \/ managers /\ Goto(t, "waiting") /\ UNCHANGED <<mutex, crashed>>
       \/ managers /\ Goto(t, "leaving") /\ mutex' = Nobody /\ UNCHANGED crashed
    /\ UNCHANGED <<lifeVars, drainVars, waited>>

\* onResponse of the SDK: the profile, or an error or a profile that does not
\* match.  A response after the timeout finds no one waiting.
Answer(t) ==
    /\ pc[t] = "waiting"
    /\ Goto(t, "sending") \/ Goto(t, "leaving")
    /\ mutex' = Nobody
    /\ UNCHANGED <<lifeVars, drainVars, waited, crashed>>

\* Mutant of AnswerTimeout: the future is waited for without a time limit.
TimeoutNever(t) == FALSE /\ UNCHANGED vars /\ pc[t] = "waiting"

\* fut.wait_for ends: the result is PA_TIMEOUT and the event is dropped.
AnswerTimeout(t) ==
    /\ pc[t] = "waiting" /\ waited[t] = Timeout
    /\ Goto(t, "leaving")
    /\ mutex' = Nobody
    /\ UNCHANGED <<lifeVars, drainVars, waited, crashed>>

\* The worker calls the clients; the caller of PaGetProfileInfo has its result.
Send(t) ==
    /\ pc[t] = "sending"
    /\ Goto(t, "leaving")
    /\ UNCHANGED <<lifeVars, drainVars, mutex, waited, crashed>>

\* Mutant of Leave: the exit of PaGetProfileInfo is counted too.
LeaveCountsCalls(t) ==
    /\ pc[t] = "leaving"
    /\ Goto(t, "done")
    /\ count' = count - 1
    /\ UNCHANGED <<lifeVars, blocked, drain, overrun, mutex, waited, crashed>>

\* A worker is counted out, under asyncThreadDrainMtx_.
Leave(t) ==
    /\ pc[t] = "leaving"
    /\ Goto(t, "done")
    /\ count' = IF t \in Events THEN count - 1 ELSE count
    /\ UNCHANGED <<lifeVars, blocked, drain, overrun, mutex, waited, crashed>>

-----------------------------------------------------------------------------
(* deInitDataProfileManagers, the rest of the PA's Deinit, then Init, on   *)
(* the service's control thread.                                           *)

LifeStep(from, to) == life = from /\ life' = to

ServiceIdle == \A c \in Calls : pc[c] \in {"new", "done"}

\* The listener is deregistered.  On failure nothing is cleared.
StartDeinit ==
    /\ deinits < MaxDeinits
    /\ SerialLifecycle => ServiceIdle
    /\ \/ LifeStep("up", "block") /\ registered' = FALSE
       \/ LifeStep("up", "phone") /\ UNCHANGED registered
    /\ deinits' = deinits + 1
    /\ UNCHANGED <<phone, managers, drainVars, mutex, pc, waited, crashed>>

BlockLaunches ==
    /\ LifeStep("block", "drain")
    /\ blocked' = TRUE
    /\ drain' = 0 /\ overrun' = FALSE
    /\ UNCHANGED <<phone, managers, registered, deinits, count, mutex, pc, waited,
                   crashed>>

Drained ==
    /\ count = 0
    /\ LifeStep("drain", "clear")
    /\ UNCHANGED <<phone, managers, registered, deinits, drainVars, mutex, pc,
                   waited, crashed>>

\* "Proceeding with map clear anyway".
DrainTimeout ==
    /\ count # 0 /\ drain = Timeout
    /\ LifeStep("drain", "clear")
    /\ overrun' = TRUE
    /\ UNCHANGED <<phone, managers, registered, deinits, blocked, count, drain,
                   mutex, pc, waited, crashed>>

ClearManagers ==
    /\ LifeStep("clear", "phone")
    /\ managers' = FALSE
    /\ UNCHANGED <<phone, registered, deinits, drainVars, mutex, pc, waited, crashed>>

\* The phone manager goes last, unless a serving system listener remains.
DeinitPhone ==
    /\ LifeStep("phone", "down")
    /\ phone' \in {FALSE, phone}
    /\ UNCHANGED <<managers, registered, deinits, drainVars, mutex, pc, waited, crashed>>

InitPhone ==
    /\ LifeStep("down", "phoneUp")
    /\ SerialLifecycle => ServiceIdle
    /\ phone' = TRUE
    /\ UNCHANGED <<managers, registered, deinits, drainVars, mutex, pc, waited, crashed>>

\* initDataProfileManagers clears the guard first ...
Unblock ==
    /\ LifeStep("phoneUp", "unblocked")
    /\ blocked' = FALSE
    /\ UNCHANGED <<phone, managers, registered, deinits, count, drain, overrun,
                   mutex, pc, waited, crashed>>

\* ... and then brings up the managers, if the SDK does.
InitManagers ==
    /\ LifeStep("unblocked", "managersUp")
    /\ managers' \in {managers, TRUE}
    /\ UNCHANGED <<phone, registered, deinits, drainVars, mutex, pc, waited, crashed>>

\* PaRegisterProfileCallbacks, for the slots that have a manager.
Register ==
    /\ LifeStep("managersUp", "up")
    /\ registered' = managers
    /\ UNCHANGED <<phone, managers, deinits, drainVars, mutex, pc, waited, crashed>>

-----------------------------------------------------------------------------
\* A thread of the PA that need not wait for anything.
Ready(t) ==
    \/ pc[t] \in Steps \ {"new", "done", "checked", "waiting"}
    \/ pc[t] = "checked" /\ mutex = Nobody
    \/ pc[t] = "waiting" /\ waited[t] = Timeout

Later(ticks) == IF ticks < Timeout THEN ticks + 1 ELSE ticks

\* A tick of the clock, for those who wait with a timeout.
Tick ==
    /\ \/ \E t \in Threads : pc[t] = "waiting" /\ waited[t] < Timeout
       \/ life = "drain" /\ drain < Timeout
    /\ Prompt => \A t \in Threads : ~Ready(t)
    /\ waited' = [t \in Threads |->
                    IF pc[t] = "waiting" THEN Later(waited[t]) ELSE waited[t]]
    /\ drain' = IF life = "drain" THEN Later(drain) ELSE drain
    /\ UNCHANGED <<lifeVars, blocked, count, overrun, mutex, pc, crashed>>

Details(t) ==
    \/ CheckPhone(t) \/ Lock(t) \/ Request(t) \/ AnswerTimeout(t) \/ Send(t)
    \/ Leave(t)

Event(e) == Classify(e) \/ SendDeleted(e) \/ Admit(e) \/ Launch(e) \/ Details(e)

Lifecycle ==
    \/ StartDeinit \/ BlockLaunches \/ Drained \/ DrainTimeout \/ ClearManagers
    \/ DeinitPhone \/ InitPhone \/ Unblock \/ InitManagers \/ Register

Next ==
    /\ ~crashed
    /\ \/ \E e \in Events : Notify(e) \/ Event(e) \/ Answer(e)
       \/ \E c \in Calls : CallBegins(c) \/ Details(c) \/ Answer(c)
       \/ Lifecycle
       \/ Tick

Spec == Init /\ [][Next]_vars

\* Threads run, time passes, a Deinit or Init that has begun goes on.  The SDK
\* need not answer, and no one has to notify, call or deinitialise.
Fairness ==
    /\ \A e \in Events : WF_vars(~crashed /\ Event(e))
    /\ \A c \in Calls : WF_vars(~crashed /\ Details(c))
    /\ WF_vars(~crashed /\ life # "up" /\ Lifecycle)
    /\ WF_vars(~crashed /\ Tick)

FairSpec == Spec /\ Fairness

-----------------------------------------------------------------------------
(* Properties.                                                             *)

\* activeAsyncThreadCount_ is the number of workers under way: no launch,
\* failed launch, timeout or PaGetProfileInfo makes it drift, over any number
\* of Deinit and Init cycles.
CountIsExact == count = Cardinality(Workers)

\* A drain that did not time out leaves no worker behind, and none appears
\* until Init clears the guard: the clear of the managers and the return of
\* Deinit come after the last use and the last callback of every worker.
DrainedIsQuiet ==
    /\ life \in {"clear", "phone", "down", "phoneUp"} /\ blocked /\ ~overrun
    => Workers = {}

\* Whoever waits for the SDK holds the mutex, so at most one request for
\* details is with the SDK and every other thread queues behind it.
OneRequestAtATime ==
    \A t \in Threads : pc[t] \in {"locked", "waiting"} <=> mutex = t

\* Every counted event is counted out again, though the SDK may never answer
\* and the mutex is shared: no worker keeps a later Deinit waiting for ever.
WorkersLeave ==
    \A e \in Events : pc[e] = "launching" ~> (pc[e] = "done" \/ crashed)

\* tafDataTeluxDataProfilePa.hpp:263, of the clear of the managers in Deinit:
\* "safe: no thread is accessing it".  Until Init clears the guard, no worker is
\* between its check of the phone manager and its use of the cleared map.
ClearIsSafe ==
    blocked /\ ~managers => \A e \in Events : pc[e] \notin {"checked", "locked"}

=============================================================================
