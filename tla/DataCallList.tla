---------------------------- MODULE DataCallList ----------------------------
(***************************************************************************)
(* The asynchronous "list the data calls" request of the data PA           *)
(* (TafPaTeluxDataConnection): PaRequestDataCallsListAsync on the service's *)
(* threads, onRequestDataCallList on the SDK's thread, and the Deinit and   *)
(* Init of the connection managers around them.                            *)
(*                                                                         *)
(* One token (bRequestCallListInProgress_) and one client entry            *)
(* (requestCallListClientEntry_, a callback with its context) serve every  *)
(* request.  The answer of the SDK carries no reference to the request it  *)
(* answers: the PA finds the client through the entry alone.  A request is *)
(* a model value, so "entry = r" says whose callback is stored.            *)
(***************************************************************************)
EXTENDS Naturals

CONSTANTS
    Requests,    \* the requests made to PaRequestDataCallsListAsync
    Slots,       \* the slots of the device, each with calls the SDK may list
    NoEntry,     \* the entry {nullptr, nullptr}
    MaxDeinits,  \* bound: how many times the service deinitialises the PA
    SerialLifecycle  \* the service has no request under way while it runs
                     \* Deinit or Init

ASSUME CallListAssumption ==
    /\ NoEntry \notin Requests
    /\ MaxDeinits \in Nat
    /\ SerialLifecycle \in BOOLEAN

VARIABLES
    phone,       \* dataPhoneMngrInitState_ = AVAILABLE
    managers,    \* the slots with a manager in dataConnectionManagersMap_
    listeners,   \* those with one in tafPaTeluxDataConnectionListenersMap_
    inProgress,  \* bRequestCallListInProgress_
    lost,        \* history: since the flag was last set, an answer returned at
                 \* a call without a listener and left it set
    entry,       \* requestCallListClientEntry_
    pc,          \* where the service thread of each request is
    sb,          \* where the SDK thread that answers each request is
    got,         \* the copy of the entry that SDK thread holds
    answered,    \* answered[r]: the requests whose SDK answer called r's callback
    life,        \* where the thread that deinitialises and initialises is
    deinits      \* how many deinitialisations have started

nbVars   == <<pc>>
sbVars   == <<sb, got, answered>>
lifeVars == <<phone, managers, listeners, life, deinits>>
token    == <<inProgress, lost>>
listVars == <<phone, managers, listeners, inProgress, lost, entry, pc, sb, got,
              answered, life, deinits>>

Entries == Requests \cup {NoEntry}

NbSteps == {"new", "checked", "token", "undo", "sent", "busy", "refused"}
SbSteps == {"none", "pending", "entered", "copied", "failing", "called",
            "cleared", "done", "ignored", "dropped"}
LifeSteps == {"up", "listeners", "managers", "entry", "flag", "phone", "down",
              "phoneUp", "managerUp"}

ListTypeOK ==
    /\ phone \in BOOLEAN
    /\ managers \subseteq Slots /\ listeners \subseteq Slots
    /\ inProgress \in BOOLEAN /\ lost \in BOOLEAN
    /\ entry \in Entries
    /\ pc \in [Requests -> NbSteps]
    /\ sb \in [Requests -> SbSteps]
    /\ got \in [Requests -> Entries]
    /\ answered \in [Requests -> SUBSET Requests]
    /\ life \in LifeSteps
    /\ deinits \in 0..MaxDeinits

\* After an Init: it goes on to the next slot when one fails, so any slots may
\* have come up.
ListInit ==
    /\ phone = TRUE
    /\ managers \in SUBSET Slots /\ listeners = managers
    /\ inProgress = FALSE /\ lost = FALSE
    /\ entry = NoEntry
    /\ pc = [r \in Requests |-> "new"]
    /\ sb = [r \in Requests |-> "none"]
    /\ got = [r \in Requests |-> NoEntry]
    /\ answered = [r \in Requests |-> {}]
    /\ life = "up"
    /\ deinits = 0

-----------------------------------------------------------------------------
(* PaRequestDataCallsListAsync, on a thread of the service.                *)

\* No thread of the service is inside PaRequestDataCallsListAsync.
ServiceIdle == \A r \in Requests : pc[r] \notin {"checked", "token", "undo"}

TakeToken == inProgress' = TRUE /\ lost' = FALSE
GiveBack == inProgress' = FALSE /\ lost' = FALSE

\* The check of the phone manager, made before the token is asked for.
CheckPhone(r) ==
    /\ pc[r] = "new"
    /\ SerialLifecycle => life \in {"up", "down"}
    /\ pc' = [pc EXCEPT ![r] = IF phone THEN "checked" ELSE "refused"]
    /\ UNCHANGED <<lifeVars, sbVars, token, entry>>

\* Mutant of Acquire: the flag is tested and set without the compare-exchange's
\* test, so a second request overwrites the entry of the first.
AcquireBlind(r) ==
    /\ pc[r] = "checked"
    /\ TakeToken
    /\ entry' = r
    /\ pc' = [pc EXCEPT ![r] = "token"]
    /\ UNCHANGED <<lifeVars, sbVars>>

\* Mutant of Acquire: the flag is set under the mutex but the entry is written
\* only if the last one was cleared, as after an answer without error.
AcquireKeepsEntry(r) ==
    /\ pc[r] = "checked"
    /\ \/ /\ inProgress
          /\ pc' = [pc EXCEPT ![r] = "busy"]
          /\ UNCHANGED <<token, entry>>
       \/ /\ ~inProgress
          /\ TakeToken
          /\ entry' = IF entry = NoEntry THEN r ELSE entry
          /\ pc' = [pc EXCEPT ![r] = "token"]
    /\ UNCHANGED <<lifeVars, sbVars>>

\* Under requestCallListMutex_: the compare-exchange of the flag and, when it
\* succeeds, the write of the entry.  PA_BUSY otherwise.
Acquire(r) ==
    /\ pc[r] = "checked"
    /\ \/ /\ inProgress
          /\ pc' = [pc EXCEPT ![r] = "busy"]
          /\ UNCHANGED <<token, entry>>
       \/ /\ ~inProgress
          /\ TakeToken
          /\ entry' = r
          /\ pc' = [pc EXCEPT ![r] = "token"]
    /\ UNCHANGED <<lifeVars, sbVars>>

\* The manager of the request's slot is in the map and requestDataCallList
\* accepts the request.
Send(r) ==
    /\ pc[r] = "token"
    /\ managers # {}
    /\ pc' = [pc EXCEPT ![r] = "sent"]
    /\ sb' = [sb EXCEPT ![r] = "pending"]
    /\ UNCHANGED <<lifeVars, token, entry, got, answered>>

\* An early return: the phone id has no slot, the slot has no manager, or the
\* SDK refuses the request.  The entry is reset under the mutex ...
Abandon(r) ==
    /\ pc[r] = "token"
    /\ entry' = NoEntry
    /\ pc' = [pc EXCEPT ![r] = "undo"]
    /\ UNCHANGED <<lifeVars, sbVars, token>>

\* ... and the flag afterwards, outside it.
Release(r) ==
    /\ pc[r] = "undo"
    /\ GiveBack
    /\ pc' = [pc EXCEPT ![r] = "refused"]
    /\ UNCHANGED <<lifeVars, sbVars, entry>>

-----------------------------------------------------------------------------
(* onRequestDataCallList, on the SDK thread that answers request r.        *)

\* The flag is read without the mutex: no pending request, no processing.
Enter(r) ==
    /\ sb[r] = "pending"
    /\ sb' = [sb EXCEPT ![r] = IF inProgress THEN "entered" ELSE "ignored"]
    /\ UNCHANGED <<lifeVars, nbVars, token, entry, got, answered>>

\* Mutant of CopyEntry: the entry is moved out, and is null for the others.
CopyMoves(r) ==
    /\ sb[r] = "entered"
    /\ got' = [got EXCEPT ![r] = NoEntry]
    /\ entry' = NoEntry
    /\ sb' = [sb EXCEPT ![r] = "copied"]
    /\ UNCHANGED <<lifeVars, nbVars, token, answered>>

\* The entry is copied under the mutex.
CopyEntry(r) ==
    /\ sb[r] = "entered"
    /\ got' = [got EXCEPT ![r] = entry]
    /\ sb' = [sb EXCEPT ![r] = "copied"]
    /\ UNCHANGED <<lifeVars, nbVars, token, entry, answered>>

\* A null callback: nothing to call, the flag is reset.
NullEntry(r) ==
    /\ sb[r] = "copied" /\ got[r] = NoEntry
    /\ GiveBack
    /\ sb' = [sb EXCEPT ![r] = "done"]
    /\ UNCHANGED <<lifeVars, nbVars, entry, got, answered>>

\* Mutant of CallClient: the copied callback is called without the null test.
CallAnyone(r) ==
    /\ sb[r] = "copied"
    /\ \E step \in {"failing", "called"} : sb' = [sb EXCEPT ![r] = step]
    /\ answered' = [q \in DOMAIN answered \cup {got[r]} |->
                      IF q = got[r] THEN {r} ELSE answered[q]]
    /\ UNCHANGED <<lifeVars, nbVars, token, entry, got>>

\* The client's callback runs, for an error of the SDK or with the calls (each
\* of a slot that has a listener).
CallClient(r) ==
    /\ sb[r] = "copied" /\ got[r] # NoEntry
    /\ \E step \in {"failing", "called"} : sb' = [sb EXCEPT ![r] = step]
    /\ answered' = [answered EXCEPT ![got[r]] = @ \cup {r}]
    /\ UNCHANGED <<lifeVars, nbVars, token, entry, got>>

\* A call of the list is of a slot without a listener: the function returns
\* there, before the client's callback, and neither the entry nor the flag is
\* reset.
MissingListener(r) ==
    /\ sb[r] = "copied" /\ got[r] # NoEntry
    /\ Slots \ listeners # {}
    /\ lost' = (lost \/ inProgress)
    /\ sb' = [sb EXCEPT ![r] = "dropped"]
    /\ UNCHANGED <<lifeVars, nbVars, inProgress, entry, got, answered>>

\* resetCallListClientEntry, only after an answer without error.
ClearEntry(r) ==
    /\ sb[r] = "called"
    /\ entry' = NoEntry
    /\ sb' = [sb EXCEPT ![r] = "cleared"]
    /\ UNCHANGED <<lifeVars, nbVars, token, got, answered>>

\* Mutant of Finish: the error path returns without the reset of the flag.
FinishForgetsFailure(r) ==
    /\ sb[r] \in {"failing", "cleared"}
    /\ IF sb[r] = "failing" THEN UNCHANGED token ELSE GiveBack
    /\ sb' = [sb EXCEPT ![r] = "done"]
    /\ UNCHANGED <<lifeVars, nbVars, entry, got, answered>>

\* The flag is reset: after the entry, or straight after an error callback.
Finish(r) ==
    /\ sb[r] \in {"failing", "cleared"}
    /\ GiveBack
    /\ sb' = [sb EXCEPT ![r] = "done"]
    /\ UNCHANGED <<lifeVars, nbVars, entry, got, answered>>

-----------------------------------------------------------------------------
(* deInitDataConnectionManagers and what follows it in the PA's Deinit,    *)
(* then Init, on the service's control thread.                             *)

LifeStep(from, to) == life = from /\ life' = to

\* The listeners are deregistered: on failure nothing is cleared and Deinit
\* goes on with the phone manager.
StartDeinit ==
    /\ deinits < MaxDeinits
    /\ SerialLifecycle => ServiceIdle
    /\ \/ LifeStep("up", "listeners")
       \/ LifeStep("up", "phone")
    /\ deinits' = deinits + 1
    /\ UNCHANGED <<phone, managers, listeners, token, entry, nbVars, sbVars>>

ClearListeners ==
    /\ LifeStep("listeners", "managers")
    /\ listeners' = {}
    /\ UNCHANGED <<phone, managers, deinits, token, entry, nbVars, sbVars>>

ClearManagers ==
    /\ LifeStep("managers", "entry")
    /\ managers' = {}
    /\ UNCHANGED <<phone, listeners, deinits, token, entry, nbVars, sbVars>>

DeinitEntry ==
    /\ LifeStep("entry", "flag")
    /\ entry' = NoEntry
    /\ UNCHANGED <<phone, managers, listeners, deinits, token, nbVars, sbVars>>

DeinitFlag ==
    /\ LifeStep("flag", "phone")
    /\ GiveBack
    /\ UNCHANGED <<phone, managers, listeners, deinits, entry, nbVars, sbVars>>

\* The last part of Deinit keeps the phone manager when it cannot deregister
\* the serving system listeners.
DeinitPhone ==
    /\ LifeStep("phone", "down")
    /\ phone' \in {FALSE, phone}
    /\ UNCHANGED <<managers, listeners, deinits, token, entry, nbVars, sbVars>>

\* initPhoneManager, then initDataConnectionManagers.
InitPhone ==
    /\ LifeStep("down", "phoneUp")
    /\ SerialLifecycle => ServiceIdle
    /\ phone' = TRUE
    /\ UNCHANGED <<managers, listeners, deinits, token, entry, nbVars, sbVars>>

\* A slot comes up: its manager is stored before its listener.  A slot whose
\* manager is there already is passed over.
InitManager(s) ==
    /\ LifeStep("phoneUp", "managerUp")
    /\ s \notin managers
    /\ managers' = managers \cup {s}
    /\ UNCHANGED <<phone, listeners, deinits, token, entry, nbVars, sbVars>>

InitListener ==
    /\ LifeStep("managerUp", "phoneUp")
    /\ listeners' = managers
    /\ UNCHANGED <<phone, managers, deinits, token, entry, nbVars, sbVars>>

\* Past the last slot; those that failed are left without manager and listener.
InitDone ==
    /\ LifeStep("phoneUp", "up")
    /\ UNCHANGED <<phone, managers, listeners, deinits, token, entry, nbVars, sbVars>>

-----------------------------------------------------------------------------
ServiceThread(r) == CheckPhone(r) \/ Acquire(r) \/ Send(r) \/ Abandon(r) \/ Release(r)

Sdk(r) ==
    \/ Enter(r) \/ CopyEntry(r) \/ NullEntry(r) \/ CallClient(r)
    \/ MissingListener(r) \/ ClearEntry(r) \/ Finish(r)

ListLifecycle ==
    \/ StartDeinit \/ ClearListeners \/ ClearManagers \/ DeinitEntry
    \/ DeinitFlag \/ DeinitPhone \/ InitPhone \/ (\E s \in Slots : InitManager(s))
    \/ InitListener \/ InitDone

ListNext == (\E r \in Requests : ServiceThread(r) \/ Sdk(r)) \/ ListLifecycle

ListSpec == ListInit /\ [][ListNext]_listVars

\* A thread in the middle of a function goes on, a Deinit or Init that has
\* begun ends, and the SDK answers what it accepted.  No one has to make a
\* request or to deinitialise.
ListFairness ==
    /\ \A r \in Requests :
         /\ WF_listVars(pc[r] # "new" /\ ServiceThread(r))
         /\ WF_listVars(Sdk(r))
    /\ WF_listVars(life # "up" /\ ListLifecycle)

ListFairSpec == ListSpec /\ ListFairness

-----------------------------------------------------------------------------
(* Properties.  SoleOwner, OwnAnswer and EveryRequestAnswered are about    *)
(* the PA between its Init and the first Deinit; the others about every    *)
(* behaviour, a Deinit or Init under requests and answers included.        *)

\* The requests that own the token: from the compare-exchange to the reset of
\* the flag, on the service's side or on the SDK's.
Owners == { r \in Requests :
              \/ pc[r] \in {"token", "undo"}
              \/ sb[r] \in {"pending", "entered", "copied", "failing", "called",
                            "cleared"} }

\* Before the first Deinit the flag says whether the token has an owner, and it has
\* one at most.
SoleOwner ==
    deinits = 0 =>
        /\ inProgress <=> (Owners # {} \/ lost)
        /\ \A r, q \in Owners : r = q

\* The token is not taken with no one left to give it back.
TokenHeld == inProgress => (Owners # {} \/ lost)

\* One request at a time is between the compare-exchange and its release, and
\* the flag says so: no answer, error path or refusal frees the token twice.  And
\* whatever Deinit and Init do under requests and answers, the token is never left
\* taken, so that every later request would be told PA_BUSY, unless an answer
\* returned at a call of a slot without a listener (a slot that failed, or one
\* between the store of its manager and that of its listener in Init).  That
\* answer leaves it taken until the next Deinit, or until a late answer of an
\* older request resets it.
OneOwner == SoleOwner /\ TokenHeld

\* The answer of the SDK to a request reaches the callback and the context of
\* that request, never another client's, and a client that was refused or told
\* PA_BUSY is never called.
OwnAnswer ==
    deinits = 0 =>
        \A r \in Requests :
            /\ answered[r] \subseteq {r}
            /\ answered[r] # {} => pc[r] = "sent"

\* Every accepted request is answered: its callback runs, unless a call of the
\* list has no listener.
EveryRequestAnswered ==
    \A r \in Requests :
        pc[r] = "sent" ~> (answered[r] = {r} \/ sb[r] = "dropped" \/ deinits > 0)

\* No client sees PA_BUSY for ever: whatever Deinit and Init do under an SDK
\* answer in flight or late, the token is given back, or an answer returned at
\* a call of a slot without a listener.
TokenReturns == inProgress ~> (~inProgress \/ lost)

\* The comment on the mutex (ConnectionImplPa.cpp:1204) says the SDK's callback
\* "can never read a null/stale entry": it would always call the client whose
\* request it answers.
NeverStaleEntry == \A r \in Requests : answered[r] \subseteq {r}

=============================================================================
