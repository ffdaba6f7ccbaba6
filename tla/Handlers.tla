------------------------------ MODULE Handlers ------------------------------
(***************************************************************************)
(* A slot of the PAs that holds the handler of an event: clients register  *)
(* a handler and its context, the PA's Remove function and its Deinit take *)
(* them out, and threads of the SDK read them to call the handler.  Each   *)
(* takes the slot's lock for some of the words it writes or reads, and     *)
(* which those are differs from slot to slot: a slot is a record of the    *)
(* set below, and HandlerSlots names those of the repository.              *)
(***************************************************************************)
EXTENDS Integers

CONSTANTS
    Clients,          \* each registers once; its handler and context have its name
    BareClients,      \* those that give no context
    Events,           \* threads of the SDK that deliver the slot's events
    NoClient,
    SlotsHere         \* the slots looked at

ASSUME ClientsAssumption == BareClients \subseteq Clients /\ NoClient \notin Clients

Words == {"handler", "context"}

\* locks: the words written under the lock, before the others; once: a second handler is
\* refused, as found under the lock or before it is taken; context: the slot has one;
\* keeps: a registration that gives none leaves the context of the slot.
Writers == [locks : SUBSET Words, once : {"no", "locked", "unlocked"}, context : BOOLEAN,
            keeps : BOOLEAN]

\* locks: the words read under the lock; twice: the handler is tested and read once more;
\* holds: the lock is held through the call.
Readers == [locks : SUBSET Words, twice : BOOLEAN, holds : BOOLEAN]

\* The words a Remove function or Deinit takes out, and whether it locks them.
Clearings == [words : SUBSET Words, locks : BOOLEAN]

SlotSet == [writer : Writers, reader : Readers, removal : Clearings, deinit : Clearings]

ASSUME SlotsAssumption == SlotsHere \subseteq SlotSet

VARIABLES
    slot,
    handlerFuncPtr,
    contextPtr,
    slotLock,         \* who holds the lock of the slot
    registering,      \* where each client is
    unwritten,        \* the words it has yet to write
    accepted,         \* the clients whose handler was written and not taken out since
    clearing,         \* the words that Remove or Deinit has yet to take out
    delivery,         \* where each thread of the SDK is
    handlerFunc,      \* the handler it read
    ctx               \* the context it read

pairVars == <<slot, handlerFuncPtr, contextPtr, accepted>>
clientVars == <<registering, unwritten>>
eventVars == <<delivery, handlerFunc, ctx>>
handlerVars == <<pairVars, slotLock, clientVars, clearing, eventVars>>

\* The holders of the lock.
Unlocked == <<"nobody", NoClient>>
Remover == <<"remover", NoClient>>
Registrar(c) == <<"writer", c>>
Reader(e) == <<"reader", e>>

AnyClient == Clients \cup {NoClient}

HandlersTypeOK ==
    /\ slot \in SlotsHere
    /\ handlerFuncPtr \in AnyClient /\ contextPtr \in AnyClient
    /\ slotLock \in {Unlocked, Remover} \cup {Registrar(c) : c \in Clients}
                                        \cup {Reader(e) : e \in Events}
    /\ registering \in [Clients -> {"new", "checked", "writing", "refused"}]
    /\ unwritten \in [Clients -> SUBSET Words]
    /\ accepted \in SUBSET Clients
    /\ clearing \in SUBSET Words
    /\ delivery \in [Events -> {"idle", "again", "context", "release", "inside", "stuck",
                                "crashed"}]
    /\ handlerFunc \in [Events -> AnyClient] /\ ctx \in [Events -> AnyClient]

HandlersInit ==
    /\ slot \in SlotsHere
    /\ handlerFuncPtr = NoClient /\ contextPtr = NoClient /\ slotLock = Unlocked
    /\ registering = [c \in Clients |-> "new"] /\ unwritten = [c \in Clients |-> {}]
    /\ accepted = {} /\ clearing = {}
    /\ delivery = [e \in Events |-> "idle"]
    /\ handlerFunc = [e \in Events |-> NoClient] /\ ctx = [e \in Events |-> NoClient]

\* Who locks waits until the lock is free.
Take(locks, holder) ==
    IF locks THEN slotLock = Unlocked /\ slotLock' = holder ELSE UNCHANGED slotLock
LetGo(holder) == slotLock = holder /\ slotLock' = Unlocked

\* The context of a client.
ContextOf(c) == IF slot.writer.context /\ c \notin BareClients THEN c ELSE NoClient

\* What its registration writes.
WordsOf(c) ==
    IF slot.writer.context /\ ~(slot.writer.keeps /\ c \in BareClients)
    THEN Words ELSE {"handler"}

-----------------------------------------------------------------------------
(* Registration, on threads of the service.                                *)

LookFirst(c) ==
    /\ slot.writer.once = "unlocked" /\ registering[c] = "new"
    /\ registering' = [registering EXCEPT ![c] =
                          IF handlerFuncPtr = NoClient THEN "checked" ELSE "refused"]
    /\ UNCHANGED <<pairVars, slotLock, unwritten, clearing, eventVars>>

\* The lock is taken and let go.
Refuse(c) ==
    /\ slot.writer.once = "locked" /\ registering[c] = "new"
    /\ slotLock = Unlocked /\ handlerFuncPtr # NoClient
    /\ registering' = [registering EXCEPT ![c] = "refused"]
    /\ UNCHANGED <<pairVars, slotLock, unwritten, clearing, eventVars>>

Install(c) ==
    /\ registering[c] = IF slot.writer.once = "unlocked" THEN "checked" ELSE "new"
    /\ slot.writer.once = "locked" => handlerFuncPtr = NoClient
    /\ Take(slot.writer.locks # {}, Registrar(c))
    /\ registering' = [registering EXCEPT ![c] = "writing"]
    /\ unwritten' = [unwritten EXCEPT ![c] = WordsOf(c)]
    /\ UNCHANGED <<pairVars, clearing, eventVars>>

\* The words of the lock are written under it, the others after it, and two words of a
\* kind are seen in either order.
Writes(c, word) ==
    /\ word \in unwritten[c]
    /\ slotLock = Registrar(c) <=> word \in slot.writer.locks
    /\ unwritten' = [unwritten EXCEPT ![c] = @ \ {word}]

WriteHandler(c) ==
    /\ Writes(c, "handler")
    /\ handlerFuncPtr' = c /\ accepted' = accepted \cup {c}
    /\ UNCHANGED <<slot, contextPtr, slotLock, registering, clearing, eventVars>>

WriteContext(c) ==
    /\ Writes(c, "context")
    /\ contextPtr' = ContextOf(c)
    /\ UNCHANGED <<slot, handlerFuncPtr, accepted, slotLock, registering, clearing, eventVars>>

FinishLocked(c) ==
    /\ unwritten[c] \cap slot.writer.locks = {} /\ LetGo(Registrar(c))
    /\ UNCHANGED <<pairVars, clientVars, clearing, eventVars>>

-----------------------------------------------------------------------------
(* The Remove function of the slot, and Deinit.                            *)

TakeOut(how) ==
    /\ clearing = {} /\ slotLock # Remover /\ how.words # {}
    /\ Take(how.locks, Remover)
    /\ clearing' = how.words
    /\ UNCHANGED <<pairVars, clientVars, eventVars>>

RemoveHandler == TakeOut(slot.removal)
ClearAtDeinit == TakeOut(slot.deinit)

ClearHandler ==
    /\ "handler" \in clearing
    /\ handlerFuncPtr' = NoClient /\ accepted' = {}
    /\ clearing' = clearing \ {"handler"}
    /\ UNCHANGED <<slot, contextPtr, slotLock, clientVars, eventVars>>

ClearContext ==
    /\ "context" \in clearing
    /\ contextPtr' = NoClient
    /\ clearing' = clearing \ {"context"}
    /\ UNCHANGED <<slot, handlerFuncPtr, accepted, slotLock, clientVars, eventVars>>

FinishClearing ==
    /\ clearing = {} /\ LetGo(Remover)
    /\ UNCHANGED <<pairVars, clientVars, clearing, eventVars>>

-----------------------------------------------------------------------------
(* The events, on threads of the SDK.                                      *)

Delivers(e, step) == delivery' = [delivery EXCEPT ![e] = step]

\* Under a lock that covers the context too it is read before the lock is let go.
AfterHandler ==
    IF slot.reader.locks = {} \/ "context" \in slot.reader.locks THEN "context" ELSE "release"

\* A thread that finds no handler lets go of the lock and is done.
Notice(e) ==
    /\ delivery[e] = "idle" /\ handlerFuncPtr # NoClient
    /\ Take(slot.reader.locks # {}, Reader(e))
    /\ handlerFunc' = [handlerFunc EXCEPT ![e] = handlerFuncPtr]
    /\ Delivers(e, IF slot.reader.twice THEN "again" ELSE AfterHandler)
    /\ UNCHANGED <<pairVars, clientVars, clearing, ctx>>

\* The handler is read a second time, unless the build kept the value it tested.
ReadAgain(e) ==
    /\ delivery[e] = "again"
    /\ \/ Delivers(e, AfterHandler) /\ UNCHANGED handlerFunc
       \/ /\ handlerFunc' = [handlerFunc EXCEPT ![e] = handlerFuncPtr]
          /\ Delivers(e, IF handlerFuncPtr = NoClient THEN "crashed" ELSE AfterHandler)
    /\ UNCHANGED <<pairVars, slotLock, clientVars, clearing, ctx>>

ReadContext(e) ==
    /\ delivery[e] = "context"
    /\ ctx' = [ctx EXCEPT ![e] = contextPtr]
    /\ Delivers(e, IF slotLock = Reader(e) /\ ~slot.reader.holds THEN "release" ELSE "inside")
    /\ UNCHANGED <<pairVars, slotLock, clientVars, clearing, handlerFunc>>

StopReading(e) ==
    /\ delivery[e] = "release" /\ LetGo(Reader(e))
    /\ Delivers(e, IF "context" \in slot.reader.locks THEN "inside" ELSE "context")
    /\ UNCHANGED <<pairVars, clientVars, clearing, handlerFunc, ctx>>

\* The handler takes itself out, and waits for the lock of its own thread.
HandlerRemoves(e) ==
    /\ delivery[e] = "inside" /\ slotLock = Reader(e)
    /\ slot.removal.words # {} /\ slot.removal.locks
    /\ Delivers(e, "stuck")
    /\ UNCHANGED <<pairVars, slotLock, clientVars, clearing, handlerFunc, ctx>>

HandlerReturns(e) ==
    /\ delivery[e] = "inside"
    /\ slotLock' = IF slotLock = Reader(e) THEN Unlocked ELSE slotLock
    /\ Delivers(e, "idle")
    /\ handlerFunc' = [handlerFunc EXCEPT ![e] = NoClient]
    /\ ctx' = [ctx EXCEPT ![e] = NoClient]
    /\ UNCHANGED <<pairVars, clientVars, clearing>>

Register(c) ==
    LookFirst(c) \/ Refuse(c) \/ Install(c) \/ WriteHandler(c) \/ WriteContext(c)
    \/ FinishLocked(c)
Clear == RemoveHandler \/ ClearAtDeinit \/ ClearHandler \/ ClearContext \/ FinishClearing
Deliver(e) ==
    Notice(e) \/ ReadAgain(e) \/ ReadContext(e) \/ StopReading(e) \/ HandlerRemoves(e)
    \/ HandlerReturns(e)

NotCrashed == \A e \in Events : delivery[e] # "crashed"

HandlersNext ==
    NotCrashed /\ ((\E c \in Clients : Register(c)) \/ Clear \/ \E e \in Events : Deliver(e))

HandlersSpec == HandlersInit /\ [][HandlersNext]_handlerVars

=============================================================================
