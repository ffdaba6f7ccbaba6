--------------------------- MODULE ThroughputEvents ---------------------------
(***************************************************************************)
(* The clients of the throughput events of the data PA                     *)
(* (TafPaTeluxDataConnection): the list of their callbacks, the gate       *)
(* bThroughputEventsEnabled_ and the THROUGHPUT indication of the SDK, all *)
(* three moved by PaAddThroughputEventsCallback and                        *)
(* PaRemoveThroughputEventsCallback on the service's threads and by the    *)
(* Deinit, and read by the SDK's threads that bring the events.            *)
(*                                                                         *)
(* The list itself (an entry with a 16-bit id, a copy under the lock, the  *)
(* calls after it) is the one every kind of event of the data PA has.      *)
(***************************************************************************)
EXTENDS Naturals, Sequences, SequencesExt

CONSTANTS
    Clients,     \* the clients, each with one callback and a thread of its own
    Events,      \* the calls of the SDK to onThroughputInfoAvailable
    NoId,        \* a client that holds no id
    IdLimit,     \* 2^16, the number of values of throughputEventsCallbackId_
    MaxAdds,     \* bound: how many times callbacks are added
    MaxDeinits   \* bound: how many times the service deinitialises the PA

ASSUME ThroughputAssumption ==
    /\ IdLimit \in Nat \ {0, 1}
    /\ MaxAdds \in Nat /\ MaxDeinits \in Nat
    /\ NoId \notin 0..(IdLimit - 1)

VARIABLES
    phone,       \* dataPhoneMngrInitState_ = AVAILABLE
    maps,        \* the managers and the listeners are in their maps
    callbacks,   \* throughputEventsCallbacks_
    nextId,      \* throughputEventsCallbackId_
    gate,        \* bThroughputEventsEnabled_
    sdk,         \* the SDK sends the THROUGHPUT indication
    held,        \* the id each client got from its last Add
    pc,          \* where the thread of each client is
    at,          \* where the thread of the SDK with each event is
    todo,        \* the callbacks that thread has copied and not called
    calls,       \* calls[c][e]: how many times event e called client c
    starved,     \* history: a failed Deinit closed the gate under the clients
    overtaken,   \* history: a Deinit cleared the list under an Add of its first
                 \* callback that was still to open the gate
    life, adds, deinits

sbVars == <<at, todo, calls>>
history == <<starved, overtaken>>
lifeVars == <<phone, maps, life, deinits>>
vars == <<phone, maps, callbacks, nextId, gate, sdk, held, pc, at, todo, calls,
          starved, overtaken, life, adds, deinits>>

Ids == 0..(IdLimit - 1)
Entries == [id : Ids, client : Clients]

TypeOK ==
    /\ phone \in BOOLEAN /\ maps \in BOOLEAN /\ gate \in BOOLEAN
    /\ sdk \in BOOLEAN /\ starved \in BOOLEAN /\ overtaken \in BOOLEAN
    /\ callbacks \in Seq(Entries)
    /\ nextId \in Ids
    /\ held \in [Clients -> Ids \cup {NoId}]
    /\ pc \in [Clients -> {"idle", "add", "register", "open", "remove", "deregister"}]
    /\ at \in [Events -> {"new", "arrived", "passed", "calling", "done"}]
    /\ todo \in [Events -> Seq(Entries)]
    /\ calls \in [Clients -> [Events -> Nat]]
    /\ life \in {"up", "clear", "maps", "phone", "down", "phoneUp"}
    /\ adds \in 0..MaxAdds /\ deinits \in 0..MaxDeinits

Init ==
    /\ phone = TRUE /\ maps = TRUE /\ gate = FALSE /\ sdk = FALSE
    /\ starved = FALSE /\ overtaken = FALSE
    /\ callbacks = <<>>
    /\ nextId = 1
    /\ held = [c \in Clients |-> NoId]
    /\ pc = [c \in Clients |-> "idle"]
    /\ at = [e \in Events |-> "new"]
    /\ todo = [e \in Events |-> <<>>]
    /\ calls = [c \in Clients |-> [e \in Events |-> 0]]
    /\ life = "up" /\ adds = 0 /\ deinits = 0

\* c added the first callback and has not yet opened the gate.
Opening(c) == pc[c] \in {"register", "open"}

Move(c, from, to) == pc[c] = from /\ pc' = [pc EXCEPT ![c] = to]

-----------------------------------------------------------------------------
(* PaAddThroughputEventsCallback, on the thread of client c.               *)

BeginAdd(c) ==
    /\ held[c] = NoId /\ adds < MaxAdds
    /\ phone
    /\ Move(c, "idle", "add")
    /\ adds' = adds + 1
    /\ UNCHANGED <<lifeVars, sbVars, callbacks, nextId, gate, sdk, held, history>>

\* Mutant of AddEntry: the id is not a 16-bit number.
AddEntryWide(c) ==
    /\ callbacks' = Append(callbacks, [id |-> nextId, client |-> c])
    /\ held' = [held EXCEPT ![c] = nextId]
    /\ nextId' = nextId + 1
    /\ Move(c, "add", IF callbacks = <<>> THEN "register" ELSE "idle")
    /\ UNCHANGED <<lifeVars, sbVars, gate, sdk, history, adds>>

\* Under dataConnectionCbksMtx_: the entry, its id, and whether it is the first.
AddEntry(c) ==
    /\ callbacks' = Append(callbacks, [id |-> nextId, client |-> c])
    /\ held' = [held EXCEPT ![c] = nextId]
    /\ nextId' = (nextId + 1) % IdLimit
    /\ Move(c, "add", IF callbacks = <<>> THEN "register" ELSE "idle")
    /\ UNCHANGED <<lifeVars, sbVars, gate, sdk, history, adds>>

\* After the unlock, for the first callback: the indication is registered with
\* the SDK, which may refuse; the gate is opened whatever it answered.
RegisterIndication(c) ==
    /\ Move(c, "register", "open")
    /\ sdk' \in {sdk, sdk \/ maps}
    /\ UNCHANGED <<lifeVars, sbVars, callbacks, nextId, gate, held, history, adds>>

OpenGate(c) ==
    /\ Move(c, "open", "idle")
    /\ gate' = TRUE
    /\ starved' = FALSE
    /\ UNCHANGED <<lifeVars, sbVars, callbacks, nextId, sdk, held, overtaken, adds>>

-----------------------------------------------------------------------------
(* PaRemoveThroughputEventsCallback, on the thread of client c.            *)

BeginRemove(c) ==
    /\ held[c] # NoId
    /\ phone
    /\ Move(c, "idle", "remove")
    /\ UNCHANGED <<lifeVars, sbVars, callbacks, nextId, gate, sdk, held, history, adds>>

Without(id) == RemoveFirstMatch(callbacks, LAMBDA entry : entry.id = id)

\* Under the lock: the first entry with the id is erased; the gate is closed
\* with the last one.  PA_NOT_FOUND when there is none.
RemoveEntry(c) ==
    /\ callbacks' = Without(held[c])
    /\ held' = [held EXCEPT ![c] = NoId]
    /\ LET last == callbacks # <<>> /\ callbacks' = <<>>
       IN  /\ gate' = (gate /\ ~last)
           /\ starved' = (starved /\ ~last)
           /\ Move(c, "remove", IF last THEN "deregister" ELSE "idle")
    /\ UNCHANGED <<lifeVars, sbVars, nextId, sdk, overtaken, adds>>

\* Mutant of Deregister: the gate is closed here, after the unlock.
DeregisterCloses(c) ==
    /\ Move(c, "deregister", "idle")
    /\ sdk' \in {sdk, sdk /\ ~maps}
    /\ gate' = FALSE
    /\ UNCHANGED <<lifeVars, sbVars, callbacks, nextId, held, history, adds>>

\* After the unlock; the SDK may refuse.
Deregister(c) ==
    /\ Move(c, "deregister", "idle")
    /\ sdk' \in {sdk, sdk /\ ~maps}
    /\ UNCHANGED <<lifeVars, sbVars, callbacks, nextId, gate, held, history, adds>>

-----------------------------------------------------------------------------
(* onThroughputInfoAvailable and PaSendThroughputEventInfoToClients, on a  *)
(* thread of the SDK.                                                      *)

Arrive(e) ==
    /\ at[e] = "new" /\ sdk
    /\ at' = [at EXCEPT ![e] = "arrived"]
    /\ UNCHANGED <<lifeVars, callbacks, nextId, gate, sdk, held, pc, todo, calls,
                   history, adds>>

\* The gate, read without the lock.
PassGate(e) ==
    /\ at[e] = "arrived"
    /\ at' = [at EXCEPT ![e] = IF gate THEN "passed" ELSE "done"]
    /\ UNCHANGED <<lifeVars, callbacks, nextId, gate, sdk, held, pc, todo, calls,
                   history, adds>>

CopyCallbacks(e) ==
    /\ at[e] = "passed"
    /\ todo' = [todo EXCEPT ![e] = callbacks]
    /\ at' = [at EXCEPT ![e] = "calling"]
    /\ UNCHANGED <<lifeVars, callbacks, nextId, gate, sdk, held, pc, calls, history,
                   adds>>

\* One callback after the other, without the lock; a callback that throws does
\* not stop the loop.
CallNext(e) ==
    /\ at[e] = "calling"
    /\ IF todo[e] = <<>>
       THEN at' = [at EXCEPT ![e] = "done"] /\ UNCHANGED <<todo, calls>>
       ELSE /\ calls' = [calls EXCEPT ![Head(todo[e]).client][e] = @ + 1]
            /\ todo' = [todo EXCEPT ![e] = Tail(@)]
            /\ UNCHANGED at
    /\ UNCHANGED <<lifeVars, callbacks, nextId, gate, sdk, held, pc, history, adds>>

-----------------------------------------------------------------------------
(* deInitDataConnectionManagers within the Deinit of the PA, then Init.    *)

LifeStep(from, to) == life = from /\ life' = to

\* The DEFAULT indications are deregistered.
StartDeinit ==
    /\ deinits < MaxDeinits
    /\ LifeStep("up", "clear")
    /\ deinits' = deinits + 1
    /\ UNCHANGED <<phone, maps, sbVars, callbacks, nextId, gate, sdk, held, pc,
                   history, adds>>

\* The SDK refuses: the gate is closed, the callbacks stay.
DeinitFails ==
    /\ LifeStep("clear", "phone")
    /\ gate' = FALSE
    /\ starved' = (callbacks # <<>>)
    /\ UNCHANGED <<phone, maps, deinits, sbVars, callbacks, nextId, sdk, held, pc,
                   overtaken, adds>>

\* What clearing the list means for the histories.
NoteOvertaken ==
    /\ overtaken' = (overtaken \/ \E c \in Clients : Opening(c))
    /\ starved' = FALSE

\* Mutant of ClearCallbacks: the ids start again with the list.
ClearCallbacksAndIds ==
    /\ LifeStep("clear", "maps")
    /\ callbacks' = <<>>
    /\ gate' = FALSE
    /\ nextId' = 1
    /\ NoteOvertaken
    /\ UNCHANGED <<phone, maps, deinits, sbVars, sdk, held, pc, adds>>

\* Under the lock: the callbacks and the gate.
ClearCallbacks ==
    /\ LifeStep("clear", "maps")
    /\ callbacks' = <<>>
    /\ gate' = FALSE
    /\ NoteOvertaken
    /\ UNCHANGED <<phone, maps, deinits, sbVars, nextId, sdk, held, pc, adds>>

\* The SDK holds weak references: with the listener goes the indication.
ClearMaps ==
    /\ LifeStep("maps", "phone")
    /\ maps' = FALSE /\ sdk' = FALSE
    /\ UNCHANGED <<phone, deinits, sbVars, callbacks, nextId, gate, held, pc, history,
                   adds>>

DeinitPhone ==
    /\ LifeStep("phone", "down")
    /\ phone' = FALSE
    /\ UNCHANGED <<maps, deinits, sbVars, callbacks, nextId, gate, sdk, held, pc,
                   history, adds>>

InitPhone ==
    /\ LifeStep("down", "phoneUp")
    /\ phone' = TRUE
    /\ UNCHANGED <<maps, deinits, sbVars, callbacks, nextId, gate, sdk, held, pc,
                   history, adds>>

InitManagers ==
    /\ LifeStep("phoneUp", "up")
    /\ maps' = TRUE
    /\ UNCHANGED <<phone, deinits, sbVars, callbacks, nextId, gate, sdk, held, pc,
                   history, adds>>

-----------------------------------------------------------------------------
Client(c) ==
    \/ BeginAdd(c) \/ AddEntry(c) \/ RegisterIndication(c) \/ OpenGate(c)
    \/ BeginRemove(c) \/ RemoveEntry(c) \/ Deregister(c)

Sdk(e) == Arrive(e) \/ PassGate(e) \/ CopyCallbacks(e) \/ CallNext(e)

Lifecycle ==
    \/ StartDeinit \/ DeinitFails \/ ClearCallbacks \/ ClearMaps \/ DeinitPhone
    \/ InitPhone \/ InitManagers

Next ==
    \/ \E c \in Clients : Client(c)
    \/ \E e \in Events : Sdk(e)
    \/ Lifecycle

Spec == Init /\ [][Next]_vars

-----------------------------------------------------------------------------
(* Properties.                                                             *)

\* Where there is a callback the gate is open, or the thread that added the
\* first one is about to open it: no interleaving of additions, removals and
\* the Deinit shuts a registered client out, unless a Deinit failed and left
\* the clients behind a closed gate.
GateServesClients ==
    callbacks # <<>> =>
        gate \/ starved \/ \E c \in Clients : Opening(c)

\* A removal, even with an id from before a Deinit, erases no other client's entry.
OwnEntry ==
    \A c \in Clients, i \in DOMAIN callbacks :
        callbacks[i].id = held[c] => callbacks[i].client = c

NoDuplicateCalls == \A c \in Clients, e \in Events : calls[c][e] <= 1

\* The gate is open only while there are callbacks (the comment on
\* bThroughputEventsEnabled_, tafDataTeluxDataConnectionPa.hpp:301-303), unless a
\* Deinit cleared the list between the two halves of an Add.
GateNeedsCallbacks == gate /\ callbacks = <<>> => overtaken

\* While the 16-bit ids have not wrapped they identify: the id a client holds finds its
\* own entry and no other, so an event calls no client twice, and no removal takes away
\* the first callback whose Add has still to open the gate.
IdsIdentify ==
    adds < IdLimit => OwnEntry /\ NoDuplicateCalls /\ GateNeedsCallbacks

=============================================================================
