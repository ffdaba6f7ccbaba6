----------------------- MODULE ThroughputEvents_proofs -----------------------
(* Theorems about ThroughputEvents, for any clients, events and bounds. *)
EXTENDS ThroughputEvents, FiniteSetTheorems, SequenceTheorems, WellFoundedInduction, TLAPS

PcSteps == {"idle", "add", "register", "open", "remove", "deregister"}

\* GateServesClients follows from itself and the range of pc: an Add is followed
\* from the entry it appends to the gate it opens.
IInv ==
    /\ pc \in [Clients -> PcSteps]
    /\ GateServesClients

\* A removal leaves an empty list empty.
LEMMA NothingToRemove ==
    ASSUME NEW id, callbacks = <<>>
    PROVE  Without(id) = <<>>
<1>1. Len(callbacks) = 0
  OBVIOUS
<1>2. ~ \E i \in 1..Len(callbacks) : callbacks[i].id = id
  BY <1>1
<1> QED
  BY <1>2 DEF Without, RemoveFirstMatch

\* A thread that leaves a step other than the opening ones takes nothing from
\* the clients that are opening the gate.
LEMMA OpeningKept ==
    ASSUME pc \in [Clients -> PcSteps], NEW c \in Clients,
           NEW from \in PcSteps \ {"open"}, NEW to \in PcSteps,
           from = "register" => to = "open",
           Move(c, from, to), NEW d \in Clients, Opening(d)
    PROVE  Opening(d)'
BY DEF Move, Opening, PcSteps

LEMMA PcStep ==
    ASSUME pc \in [Clients -> PcSteps], [Next]_vars
    PROVE  pc' \in [Clients -> PcSteps]
<1> USE DEF PcSteps, Move
<1>1. ASSUME NEW c \in Clients, Client(c) PROVE pc' \in [Clients -> PcSteps]
  BY <1>1 DEF Client, BeginAdd, AddEntry, RegisterIndication, OpenGate, BeginRemove,
              RemoveEntry, Deregister
<1>2. ASSUME NEW e \in Events, Sdk(e) PROVE pc' = pc
  BY <1>2 DEF Sdk, Arrive, PassGate, CopyCallbacks, CallNext
<1>3. ASSUME Lifecycle PROVE pc' = pc
  BY <1>3 DEF Lifecycle, StartDeinit, DeinitFails, ClearCallbacks, ClearMaps,
              DeinitPhone, InitPhone, InitManagers
<1>4. CASE UNCHANGED vars
  BY <1>4 DEF vars
<1> QED
  BY <1>1, <1>2, <1>3, <1>4 DEF Next

LEMMA GateStep == IInv /\ [Next]_vars => GateServesClients'
<1> SUFFICES ASSUME IInv, [Next]_vars, callbacks' # <<>>
             PROVE  (gate \/ starved \/ \E c \in Clients : Opening(c))'
  BY DEF GateServesClients
<1>1. pc \in [Clients -> PcSteps]
  BY DEF IInv
<1>2. callbacks # <<>> => gate \/ starved \/ \E c \in Clients : Opening(c)
  BY DEF IInv, GateServesClients
<1>3. ASSUME NEW c \in Clients, Client(c)
      PROVE  (gate \/ starved \/ \E d \in Clients : Opening(d))'
  <2>1. CASE BeginAdd(c)
    <3>1. Move(c, "idle", "add") /\ UNCHANGED <<callbacks, gate, starved>>
      BY <2>1 DEF BeginAdd, history
    <3> QED
      BY <3>1, <1>1, <1>2, OpeningKept DEF PcSteps
  <2>2. CASE AddEntry(c)
    <3>1. CASE callbacks = <<>>
      BY <2>2, <3>1, <1>1 DEF AddEntry, Move, Opening
    <3>2. CASE callbacks # <<>>
      <4>1. Move(c, "add", "idle") /\ UNCHANGED <<gate, starved>>
        BY <2>2, <3>2 DEF AddEntry, history
      <4> QED
        BY <4>1, <3>2, <1>1, <1>2, OpeningKept DEF PcSteps
    <3> QED
      BY <3>1, <3>2
  <2>3. CASE RegisterIndication(c)
    BY <2>3, <1>1 DEF RegisterIndication, Move, Opening
  <2>4. CASE OpenGate(c)
    BY <2>4 DEF OpenGate
  <2>5. CASE BeginRemove(c)
    <3>1. Move(c, "idle", "remove") /\ UNCHANGED <<callbacks, gate, starved>>
      BY <2>5 DEF BeginRemove, history
    <3> QED
      BY <3>1, <1>1, <1>2, OpeningKept DEF PcSteps
  <2>6. CASE RemoveEntry(c)
    <3>1. callbacks # <<>>
      BY <2>6, NothingToRemove DEF RemoveEntry
    <3>2. Move(c, "remove", "idle") /\ (gate => gate') /\ (starved => starved')
      BY <2>6 DEF RemoveEntry
    <3> QED
      BY <3>1, <3>2, <1>1, <1>2, OpeningKept DEF PcSteps
  <2>7. CASE Deregister(c)
    <3>1. Move(c, "deregister", "idle") /\ UNCHANGED <<callbacks, gate, starved>>
      BY <2>7 DEF Deregister, history
    <3> QED
      BY <3>1, <1>1, <1>2, OpeningKept DEF PcSteps
  <2> QED
    BY <1>3, <2>1, <2>2, <2>3, <2>4, <2>5, <2>6, <2>7 DEF Client
<1>4. ASSUME NEW e \in Events, Sdk(e)
      PROVE  UNCHANGED <<callbacks, gate, starved, pc>>
  BY <1>4 DEF Sdk, Arrive, PassGate, CopyCallbacks, CallNext, history
<1>5. ASSUME Lifecycle
      PROVE  (gate \/ starved \/ \E d \in Clients : Opening(d))'
  <2>1. CASE DeinitFails
    BY <2>1 DEF DeinitFails
  <2>2. CASE ClearCallbacks
    BY <2>2 DEF ClearCallbacks
  <2>3. CASE StartDeinit \/ ClearMaps \/ DeinitPhone \/ InitPhone \/ InitManagers
    <3>1. UNCHANGED <<callbacks, gate, starved, pc>>
      BY <2>3 DEF StartDeinit, ClearMaps, DeinitPhone, InitPhone, InitManagers, history
    <3> QED
      BY <3>1, <1>2 DEF Opening
  <2> QED
    BY <1>5, <2>1, <2>2, <2>3 DEF Lifecycle
<1>6. CASE UNCHANGED vars
  BY <1>6, <1>2 DEF vars, Opening
<1>7. ASSUME NEW e \in Events, Sdk(e)
      PROVE  (gate \/ starved \/ \E d \in Clients : Opening(d))'
  BY <1>4, <1>7, <1>2 DEF Opening
<1> QED
  BY <1>3, <1>5, <1>6, <1>7 DEF Next

\* No interleaving of additions, removals, events and Deinit leaves a registered
\* client behind a closed gate, except a Deinit that failed.
THEOREM GateServes == Spec => []GateServesClients
<1>1. Init => IInv
  BY DEF Init, IInv, GateServesClients, PcSteps
<1>2. IInv /\ [Next]_vars => IInv'
  BY PcStep, GateStep DEF IInv
<1>3. IInv => GateServesClients
  BY DEF IInv
<1> QED
  BY <1>1, <1>2, <1>3, PTL DEF Spec

-----------------------------------------------------------------------------
(* What the ids say.                                                       *)

\* The clients whose Add has not taken its id yet, and the last id that was taken,
\* as long as the ids have not wrapped.
Adding == {c \in Clients : pc[c] = "add"}
Issued == IF nextId = 0 THEN IdLimit - 1 ELSE nextId - 1

\* Every Add takes the next id, so before the wrap an id is taken once.
IdsFresh ==
    /\ IsFiniteSet(Adding)
    /\ adds < IdLimit => Issued + Cardinality(Adding) = adds

\* An entry has the id its client holds, and a client has one entry.
EntriesOwned ==
    /\ \A c \in Clients : held[c] # NoId => held[c] \in 1..Issued
    /\ \A c \in Clients : pc[c] = "add" => held[c] = NoId
    /\ \A c, d \in Clients : held[c] # NoId /\ held[c] = held[d] => c = d
    /\ \A i \in 1..Len(callbacks) : held[callbacks[i].client] = callbacks[i].id
    /\ \A i, j \in 1..Len(callbacks) : callbacks[i].client = callbacks[j].client => i = j

\* A client that an event has still to call was not called by it.
CallsOwed ==
    /\ \A e \in Events : at[e] \in {"new", "arrived", "passed"} =>
           \A c \in Clients : calls[c][e] = 0
    /\ \A e \in Events : \A i \in 1..Len(todo[e]) : calls[todo[e][i].client][e] = 0
    /\ \A e \in Events : \A i, j \in 1..Len(todo[e]) :
           todo[e][i].client = todo[e][j].client => i = j
    /\ NoDuplicateCalls

\* The entry of an Add that has still to open the gate is in the list.
OpeningHasEntry ==
    /\ \A c \in Clients : Opening(c) =>
           overtaken \/ \E i \in 1..Len(callbacks) : callbacks[i].client = c
    /\ GateNeedsCallbacks

IdInv == IdsFresh /\ (adds < IdLimit => EntriesOwned /\ CallsOwed /\ OpeningHasEntry)

\* A set of natural numbers has a least one.
LEMMA LeastOf ==
    ASSUME NEW S \in SUBSET Nat, S # {}
    PROVE  Min(S) \in S
<1> DEFINE Less == OpToRel(<, Nat)
<1>1. PICK m \in S : \A n \in S : ~ (<<n, m>> \in Less)
  <2>1. IsWellFoundedOn(Less, Nat)
    BY NatLessThanWellFounded, Zenon
  <2> QED
    BY <2>1, WFMin, Zenon
<1>2. \A n \in S : ~ (n < m)
  BY <1>1, S \subseteq Nat DEF OpToRel, Less
<1>3. \A n \in S : m =< n
  BY <1>2
<1> QED
  BY <1>3 DEF Min

\* What RemoveFirstMatch leaves: one entry with the id is gone, the others keep their order.
LEMMA Removal ==
    ASSUME callbacks \in Seq(Entries), NEW id
    PROVE  \/ /\ \A i \in 1..Len(callbacks) : callbacks[i].id # id
              /\ Without(id) = callbacks
           \/ \E k \in 1..Len(callbacks) :
                  /\ callbacks[k].id = id
                  /\ Without(id) \in Seq(Entries)
                  /\ Len(Without(id)) = Len(callbacks) - 1
                  /\ \A j \in 1..Len(Without(id)) :
                         Without(id)[j] = IF j < k THEN callbacks[j] ELSE callbacks[j + 1]
<1> DEFINE I == {i \in 1..Len(callbacks) : callbacks[i].id = id}
<1>1. CASE I = {}
  BY <1>1 DEF Without, RemoveFirstMatch
<1>2. CASE I # {}
  <2> DEFINE k == Min(I)
  <2>1. k \in I
    BY <1>2, LeastOf
  <2>2. Without(id) = SubSeq(callbacks, 1, k - 1) \o SubSeq(callbacks, k + 1, Len(callbacks))
    BY <1>2 DEF Without, RemoveFirstMatch, SelectInSeq, RemoveAt
  <2>3. k \in 1..Len(callbacks) /\ callbacks[k].id = id
    BY <2>1
  <2> HIDE DEF k, I
  <2> DEFINE before == SubSeq(callbacks, 1, k - 1)
             after == SubSeq(callbacks, k + 1, Len(callbacks))
  <2>4. /\ before \in Seq(Entries) /\ Len(before) = k - 1
        /\ \A j \in 1..(k - 1) : before[j] = callbacks[j]
    BY <2>3, SubSeqProperties
  <2>5. /\ after \in Seq(Entries) /\ Len(after) = Len(callbacks) - k
        /\ \A j \in 1..(Len(callbacks) - k) : after[j] = callbacks[j + k]
    BY <2>3, SubSeqProperties
  <2> HIDE DEF before, after
  <2>6. Len(before) + Len(after) = Len(callbacks) - 1
    BY <2>3, <2>4, <2>5
  <2>8. /\ before \o after \in Seq(Entries)
        /\ Len(before \o after) = Len(callbacks) - 1
        /\ \A j \in 1..(Len(callbacks) - 1) :
               (before \o after)[j] = IF j <= Len(before) THEN before[j] ELSE after[j - Len(before)]
    BY <2>4, <2>5, <2>6, ConcatProperties
  <2>9. ASSUME NEW j \in 1..(Len(callbacks) - 1)
        PROVE  (before \o after)[j] = IF j < k THEN callbacks[j] ELSE callbacks[j + 1]
    <3>1. CASE j < k
      BY <2>3, <2>4, <2>8, <3>1
    <3>2. CASE ~(j < k)
      <4>1. j - Len(before) \in 1..(Len(callbacks) - k) /\ (j - Len(before)) + k = j + 1
        BY <2>3, <2>4, <3>2
      <4> QED
        BY <2>3, <2>4, <2>5, <2>8, <3>2, <4>1
    <3> QED
      BY <3>1, <3>2
  <2>7. Without(id) = before \o after
    BY <2>2 DEF before, after
  <2> QED
    BY <2>3, <2>7, <2>8, <2>9
<1> QED
  BY <1>1, <1>2


-----------------------------------------------------------------------------
(* The types.                                                              *)

LEMMA ClientTypes ==
    ASSUME TypeOK, NEW c \in Clients, Client(c)
    PROVE  TypeOK'
<1> USE ThroughputAssumption DEF TypeOK, Move, sbVars, history, lifeVars
<1>1. ASSUME NEW entry \in Entries
      PROVE  Append(callbacks, entry) \in Seq(Entries)
  BY <1>1, AppendProperties
<1>2. [id |-> nextId, client |-> c] \in Entries
  BY DEF Entries
<1>3. (nextId + 1) % IdLimit \in Ids
  <2>1. nextId + 1 \in Nat /\ IdLimit \in Nat /\ IdLimit > 0
    BY DEF Ids
  <2>2. (nextId + 1) % IdLimit \in 0..(IdLimit - 1)
    BY <2>1
  <2> QED
    BY <2>2 DEF Ids
<1>4. Without(held[c]) \in Seq(Entries)
  BY Removal
<1>5. CASE BeginAdd(c)
  BY <1>5 DEF BeginAdd
<1>6. CASE AddEntry(c)
  <2>1. callbacks' \in Seq(Entries) /\ nextId' \in Ids
    BY <1>1, <1>2, <1>3, <1>6 DEF AddEntry
  <2>2. held' \in [Clients -> Ids \cup {NoId}]
    BY <1>6 DEF AddEntry
  <2>3. pc' \in [Clients -> {"idle", "add", "register", "open", "remove", "deregister"}]
    BY <1>6 DEF AddEntry
  <2> QED
    BY <1>6, <2>1, <2>2, <2>3 DEF AddEntry
<1>7. CASE RegisterIndication(c)
  BY <1>7 DEF RegisterIndication
<1>8. CASE OpenGate(c)
  BY <1>8 DEF OpenGate
<1>9. CASE BeginRemove(c)
  BY <1>9 DEF BeginRemove
<1>10. CASE RemoveEntry(c)
  <2>1. callbacks' \in Seq(Entries)
    BY <1>4, <1>10 DEF RemoveEntry
  <2>2. held' \in [Clients -> Ids \cup {NoId}]
    BY <1>10 DEF RemoveEntry
  <2>3. pc' \in [Clients -> {"idle", "add", "register", "open", "remove", "deregister"}]
    BY <1>10 DEF RemoveEntry
  <2>4. gate' \in BOOLEAN /\ starved' \in BOOLEAN
    BY <1>10 DEF RemoveEntry
  <2> QED
    BY <1>10, <2>1, <2>2, <2>3, <2>4 DEF RemoveEntry
<1>11. CASE Deregister(c)
  BY <1>11 DEF Deregister
<1> QED
  BY <1>5, <1>6, <1>7, <1>8, <1>9, <1>10, <1>11 DEF Client

LEMMA SdkTypes ==
    ASSUME TypeOK, NEW e \in Events, Sdk(e)
    PROVE  TypeOK'
<1> USE DEF TypeOK, history, lifeVars
<1>1. CASE Arrive(e)
  BY <1>1 DEF Arrive
<1>2. CASE PassGate(e)
  BY <1>2 DEF PassGate
<1>3. CASE CopyCallbacks(e)
  BY <1>3 DEF CopyCallbacks
<1>4. CASE CallNext(e)
  <2>1. CASE todo[e] = <<>>
    BY <1>4, <2>1 DEF CallNext
  <2>2. CASE todo[e] # <<>>
    <3>1. Head(todo[e]) \in Entries /\ Tail(todo[e]) \in Seq(Entries)
      BY <2>2, HeadTailProperties
    <3>2. todo' \in [Events -> Seq(Entries)]
      BY <1>4, <2>2, <3>1 DEF CallNext
    <3> DEFINE d == Head(todo[e]).client
    <3>3. d \in Clients
      BY <3>1 DEF Entries
    <3>4. calls' = [calls EXCEPT ![d][e] = @ + 1]
      BY <1>4, <2>2 DEF CallNext
    <3> HIDE DEF d
    <3>5. calls' \in [Clients -> [Events -> Nat]]
      BY <3>3, <3>4
    <3> QED
      BY <1>4, <2>2, <3>2, <3>5 DEF CallNext
  <2> QED
    BY <2>1, <2>2
<1> QED
  BY <1>1, <1>2, <1>3, <1>4 DEF Sdk

LEMMA LifecycleTypes ==
    ASSUME TypeOK, Lifecycle
    PROVE  TypeOK'
<1> USE ThroughputAssumption DEF TypeOK, sbVars, history, LifeStep
<1>1. CASE StartDeinit
  BY <1>1 DEF StartDeinit
<1>2. CASE DeinitFails
  BY <1>2 DEF DeinitFails
<1>3. CASE ClearCallbacks
  <2>1. callbacks' \in Seq(Entries)
    BY <1>3 DEF ClearCallbacks
  <2> QED
    BY <1>3, <2>1 DEF ClearCallbacks, NoteOvertaken
<1>4. CASE ClearMaps
  BY <1>4 DEF ClearMaps
<1>5. CASE DeinitPhone
  BY <1>5 DEF DeinitPhone
<1>6. CASE InitPhone
  BY <1>6 DEF InitPhone
<1>7. CASE InitManagers
  BY <1>7 DEF InitManagers
<1> QED
  BY <1>1, <1>2, <1>3, <1>4, <1>5, <1>6, <1>7 DEF Lifecycle

LEMMA TypeStep == TypeOK /\ [Next]_vars => TypeOK'
<1> SUFFICES ASSUME TypeOK, [Next]_vars PROVE TypeOK'
  OBVIOUS
<1>1. CASE UNCHANGED vars
  BY <1>1 DEF TypeOK, vars
<1> QED
  BY <1>1, ClientTypes, SdkTypes, LifecycleTypes DEF Next

\* The list stays a list of entries with 16-bit ids, and every thread stays where the
\* code can be, for any number of clients, events and ids.
THEOREM TypeCorrect == Spec => []TypeOK
<1>1. ASSUME Init PROVE TypeOK
  <2> USE DEF Init
  <2>1. todo \in [Events -> Seq(Entries)] /\ callbacks \in Seq(Entries)
    BY <1>1
  <2>2. calls \in [Clients -> [Events -> Nat]] /\ held \in [Clients -> Ids \cup {NoId}]
    BY <1>1
  <2>3. nextId \in Ids
    BY <1>1, ThroughputAssumption DEF Ids
  <2>4. adds \in 0..MaxAdds /\ deinits \in 0..MaxDeinits
    BY <1>1, ThroughputAssumption
  <2>5. /\ pc \in [Clients -> {"idle", "add", "register", "open", "remove", "deregister"}]
        /\ at \in [Events -> {"new", "arrived", "passed", "calling", "done"}]
    BY <1>1
  <2> QED
    BY <1>1, <2>1, <2>2, <2>3, <2>4, <2>5 DEF TypeOK
<1>2. TypeOK /\ [Next]_vars => TypeOK'
  BY TypeStep
<1> QED
  BY <1>1, <1>2, PTL DEF Spec

-----------------------------------------------------------------------------
(* The ids that are taken.                                                 *)

\* Before the wrap the next id is one more than the last.
LEMMA NextIdIsFresh ==
    ASSUME TypeOK, IdsFresh, adds < IdLimit, NEW c \in Clients, pc[c] = "add"
    PROVE  nextId = Issued + 1
<1>1. Cardinality(Adding) \in Nat /\ Issued + Cardinality(Adding) = adds
  BY FS_CardinalityType DEF IdsFresh
<1>2. Cardinality(Adding) # 0
  <2>1. c \in Adding
    BY DEF Adding
  <2> QED
    BY <2>1, FS_EmptySet DEF IdsFresh
<1>3. Issued \in Nat /\ IdLimit \in Nat /\ nextId \in Nat /\ adds \in Nat
  BY ThroughputAssumption DEF TypeOK, Issued, Ids
<1>4. Issued < IdLimit - 1
  BY <1>1, <1>2, <1>3
<1> QED
  BY <1>3, <1>4 DEF Issued

\* What the id an Add takes does to the last id that was taken.
LEMMA IssuedNext ==
    ASSUME TypeOK, IdsFresh, adds < IdLimit, NEW c \in Clients, AddEntry(c)
    PROVE  Issued \in Nat /\ nextId = Issued + 1 /\ Issued' = Issued + 1
<1>1. Issued \in Nat /\ IdLimit \in Nat /\ nextId \in Nat /\ nextId =< IdLimit - 1 /\ IdLimit > 1
  BY ThroughputAssumption DEF TypeOK, Issued, Ids
<1>2. nextId = Issued + 1
  BY NextIdIsFresh DEF AddEntry, Move
<1>3. nextId' = (nextId + 1) % IdLimit
  BY DEF AddEntry
<1>4. CASE nextId + 1 < IdLimit
  <2>1. (nextId + 1) % IdLimit = nextId + 1
    BY <1>1, <1>4
  <2> QED
    BY <1>1, <1>2, <1>3, <2>1 DEF Issued
<1>5. CASE nextId + 1 = IdLimit
  <2>1. IdLimit % IdLimit = 0
    BY <1>1
  <2> QED
    BY <1>1, <1>2, <1>3, <1>5, <2>1 DEF Issued
<1> QED
  BY <1>1, <1>2, <1>4, <1>5

LEMMA IdsFreshStep ==
    ASSUME TypeOK, IdsFresh, [Next]_vars
    PROVE  IdsFresh'
<1>1. ASSUME NEW c \in Clients, BeginAdd(c) PROVE IdsFresh'
  <2>1. pc[c] = "idle" /\ pc' = [pc EXCEPT ![c] = "add"] /\ adds' = adds + 1 /\ nextId' = nextId
    BY <1>1 DEF BeginAdd, Move
  <2>2. Adding' = Adding \cup {c} /\ c \notin Adding
    BY <2>1 DEF Adding, TypeOK
  <2>3. IsFiniteSet(Adding') /\ Cardinality(Adding') = Cardinality(Adding) + 1
    BY <2>2, FS_AddElement DEF IdsFresh
  <2>4. Cardinality(Adding) \in Nat /\ Issued \in Nat /\ adds \in Nat /\ IdLimit \in Nat
    BY FS_CardinalityType, ThroughputAssumption DEF IdsFresh, TypeOK, Issued, Ids
  <2>5. Issued' = Issued
    BY <2>1 DEF Issued
  <2> QED
    BY <2>1, <2>3, <2>4, <2>5 DEF IdsFresh
<1>2. ASSUME NEW c \in Clients, AddEntry(c) PROVE IdsFresh'
  <2>1. /\ pc[c] = "add" /\ adds' = adds
        /\ pc' = [pc EXCEPT ![c] = IF callbacks = <<>> THEN "register" ELSE "idle"]
    BY <1>2 DEF AddEntry, Move
  <2>2. Adding' = Adding \ {c} /\ c \in Adding
    BY <2>1 DEF Adding, TypeOK
  <2>3. IsFiniteSet(Adding') /\ Cardinality(Adding') = Cardinality(Adding) - 1
    BY <2>2, FS_RemoveElement DEF IdsFresh
  <2>4. Cardinality(Adding) \in Nat
    BY FS_CardinalityType DEF IdsFresh
  <2> QED
    BY <1>2, <2>1, <2>3, <2>4, IssuedNext DEF IdsFresh
<1>3. ASSUME NEW c \in Clients, Client(c), ~ BeginAdd(c), ~ AddEntry(c)
      PROVE  UNCHANGED <<Adding, nextId, adds>>
  BY <1>3 DEF Client, TypeOK, Adding, Move, RegisterIndication, OpenGate, BeginRemove, RemoveEntry,
              Deregister
<1>4. ASSUME NEW e \in Events, Sdk(e) PROVE UNCHANGED <<Adding, nextId, adds>>
  BY <1>4 DEF Adding, Sdk, Arrive, PassGate, CopyCallbacks, CallNext
<1>5. ASSUME Lifecycle PROVE UNCHANGED <<Adding, nextId, adds>>
  BY <1>5 DEF Adding, Lifecycle, StartDeinit, DeinitFails, ClearCallbacks, ClearMaps,
              DeinitPhone, InitPhone, InitManagers
<1>6. ASSUME UNCHANGED vars PROVE UNCHANGED <<Adding, nextId, adds>>
  BY <1>6 DEF Adding, vars
<1>7. ASSUME UNCHANGED <<Adding, nextId, adds>> PROVE IdsFresh'
  BY <1>7 DEF IdsFresh, Issued
<1> QED
  BY <1>1, <1>2, <1>3, <1>4, <1>5, <1>6, <1>7 DEF Next

-----------------------------------------------------------------------------
(* The entries of the list.                                                *)

\* An entry of the list is one with a client and an id.
LEMMA EntryTypes ==
    ASSUME TypeOK, NEW i \in 1..Len(callbacks)
    PROVE  callbacks[i].id \in Ids /\ callbacks[i].client \in Clients
<1>1. callbacks[i] \in Entries
  BY ElementOfSeq DEF TypeOK
<1> QED
  BY <1>1 DEF Entries

\* A removal takes away the entry of the client that removes, and its alone.
LEMMA RemovesOwn ==
    ASSUME TypeOK, EntriesOwned, NEW c \in Clients, RemoveEntry(c)
    PROVE  /\ \A j \in 1..Len(callbacks') : \E i \in 1..Len(callbacks) :
                  callbacks'[j] = callbacks[i] /\ callbacks[i].client # c
           /\ \A i \in 1..Len(callbacks) : callbacks[i].client # c =>
                  \E j \in 1..Len(callbacks') : callbacks'[j] = callbacks[i]
           /\ \A i, j \in 1..Len(callbacks') :
                  callbacks'[i].client = callbacks'[j].client => i = j
<1>1. callbacks \in Seq(Entries) /\ callbacks' = Without(held[c])
  BY DEF TypeOK, RemoveEntry
<1>2. \A i \in 1..Len(callbacks) : callbacks[i].client = c => callbacks[i].id = held[c]
  BY DEF EntriesOwned
<1>3. CASE (\A i \in 1..Len(callbacks) : callbacks[i].id # held[c]) /\ callbacks' = callbacks
  BY <1>1, <1>2, <1>3 DEF EntriesOwned
<1>4. CASE \E k \in 1..Len(callbacks) :
               /\ callbacks[k].id = held[c]
               /\ Without(held[c]) \in Seq(Entries)
               /\ Len(Without(held[c])) = Len(callbacks) - 1
               /\ \A j \in 1..Len(Without(held[c])) :
                      Without(held[c])[j] = IF j < k THEN callbacks[j] ELSE callbacks[j + 1]
  <2>1. PICK k \in 1..Len(callbacks) :
               /\ callbacks[k].id = held[c]
               /\ Len(callbacks') = Len(callbacks) - 1
               /\ \A j \in 1..Len(callbacks') :
                      callbacks'[j] = IF j < k THEN callbacks[j] ELSE callbacks[j + 1]
    BY <1>1, <1>4
  <2>2. callbacks[k].client = c
    <3>1. callbacks[k].client \in Clients /\ callbacks[k].id \in Ids
      BY EntryTypes
    <3>2. held[c] # NoId
      BY <2>1, <3>1, ThroughputAssumption DEF Ids
    <3> QED
      BY <2>1, <3>1, <3>2 DEF EntriesOwned
  <2> DEFINE Old(j) == IF j < k THEN j ELSE j + 1
             New(i) == IF i < k THEN i ELSE i - 1
  <2>3. Len(callbacks) \in Nat
    BY <1>1
  <2>4. \A j \in 1..Len(callbacks') :
            Old(j) \in 1..Len(callbacks) /\ Old(j) # k /\ callbacks'[j] = callbacks[Old(j)]
    BY <2>1, <2>3
  <2>5. \A i \in 1..Len(callbacks) : i # k =>
            New(i) \in 1..Len(callbacks') /\ Old(New(i)) = i
    BY <2>1, <2>3
  <2>6. \A i, j \in 1..Len(callbacks') : Old(i) = Old(j) => i = j
    BY <2>1, <2>3
  <2>7. \A i, j \in 1..Len(callbacks) : callbacks[i].client = callbacks[j].client => i = j
    BY DEF EntriesOwned
  <2> HIDE DEF Old, New
  <2>8. ASSUME NEW j \in 1..Len(callbacks')
        PROVE  \E i \in 1..Len(callbacks) :
                   callbacks'[j] = callbacks[i] /\ callbacks[i].client # c
    <3>1. callbacks[Old(j)].client # c
      BY <2>2, <2>4, <2>7
    <3> QED
      BY <2>4, <3>1
  <2>9. ASSUME NEW i \in 1..Len(callbacks), callbacks[i].client # c
        PROVE  \E j \in 1..Len(callbacks') : callbacks'[j] = callbacks[i]
    <3>1. i # k
      BY <2>2, <2>9
    <3> QED
      BY <2>4, <2>5, <3>1
  <2>10. ASSUME NEW i \in 1..Len(callbacks'), NEW j \in 1..Len(callbacks'),
                callbacks'[i].client = callbacks'[j].client
         PROVE  i = j
    BY <2>4, <2>6, <2>7, <2>10
  <2> QED
    BY <2>8, <2>9, <2>10
<1>5. \/ (\A i \in 1..Len(callbacks) : callbacks[i].id # held[c]) /\ Without(held[c]) = callbacks
      \/ \E k \in 1..Len(callbacks) :
               /\ callbacks[k].id = held[c]
               /\ Without(held[c]) \in Seq(Entries)
               /\ Len(Without(held[c])) = Len(callbacks) - 1
               /\ \A j \in 1..Len(Without(held[c])) :
                      Without(held[c])[j] = IF j < k THEN callbacks[j] ELSE callbacks[j + 1]
  BY <1>1, Removal
<1> QED
  BY <1>1, <1>3, <1>4, <1>5, Zenon

\* What an addition appends, and what it keeps.
LEMMA AddsOwn ==
    ASSUME TypeOK, NEW c \in Clients, AddEntry(c)
    PROVE  /\ Len(callbacks') = Len(callbacks) + 1 /\ Len(callbacks) \in Nat
           /\ \A i \in 1..Len(callbacks) : callbacks'[i] = callbacks[i]
           /\ callbacks'[Len(callbacks) + 1] = [id |-> nextId, client |-> c]
<1>1. callbacks \in Seq(Entries) /\ [id |-> nextId, client |-> c] \in Entries
  BY DEF TypeOK, Entries
<1>2. callbacks' = Append(callbacks, [id |-> nextId, client |-> c])
  BY DEF AddEntry
<1>3. Len(callbacks) \in Nat
  BY <1>1, LenProperties
<1> HIDE DEF Entries
<1> QED
  BY <1>1, <1>2, <1>3, AppendProperties

LEMMA EntriesOwnedStep ==
    ASSUME TypeOK, IdsFresh, adds < IdLimit, EntriesOwned, [Next]_vars
    PROVE  EntriesOwned'
<1>1. ASSUME NEW c \in Clients, BeginAdd(c) PROVE EntriesOwned'
  BY <1>1 DEF BeginAdd, Move, EntriesOwned, Issued, TypeOK
<1>2. ASSUME NEW c \in Clients, AddEntry(c) PROVE EntriesOwned'
  <2>1. Issued \in Nat /\ nextId = Issued + 1 /\ Issued' = Issued + 1
    BY <1>2, IssuedNext
  <2>2. held' = [held EXCEPT ![c] = nextId] /\ held \in [Clients -> Ids \cup {NoId}]
    BY <1>2 DEF AddEntry, TypeOK
  <2>3. pc[c] = "add" /\ pc \in [Clients -> PcSteps]
    BY <1>2 DEF AddEntry, Move, TypeOK, PcSteps
  <2>4. pc' = [pc EXCEPT ![c] = IF callbacks = <<>> THEN "register" ELSE "idle"]
    BY <1>2 DEF AddEntry, Move
  <2>5. held[c] = NoId
    BY <2>3 DEF EntriesOwned
  <2>6. /\ Len(callbacks') = Len(callbacks) + 1 /\ Len(callbacks) \in Nat
        /\ \A i \in 1..Len(callbacks) : callbacks'[i] = callbacks[i]
        /\ callbacks'[Len(callbacks) + 1] = [id |-> nextId, client |-> c]
    BY <1>2, AddsOwn
  <2>7. \A i \in 1..Len(callbacks) :
            callbacks[i].client \in Clients /\ callbacks[i].client # c
    <3>1. ASSUME NEW i \in 1..Len(callbacks) PROVE callbacks[i].id # NoId
      BY EntryTypes, ThroughputAssumption DEF Ids
    <3> QED
      BY <2>5, <3>1, EntryTypes DEF EntriesOwned
  <2>8. \A d \in Clients : held'[d] = IF d = c THEN nextId ELSE held[d]
    BY <2>2
  <2>9. (\A d \in Clients : held[d] # NoId => held[d] \in 1..Issued)'
    BY <2>1, <2>8 DEF EntriesOwned
  <2>10. (\A d \in Clients : pc[d] = "add" => held[d] = NoId)'
    BY <2>3, <2>4, <2>8 DEF EntriesOwned
  <2>11. (\A d, e \in Clients : held[d] # NoId /\ held[d] = held[e] => d = e)'
    <3>1. \A d \in Clients : held[d] # NoId => held[d] # nextId
      BY <2>1 DEF EntriesOwned
    <3>2. nextId # NoId
      BY ThroughputAssumption DEF TypeOK, Ids
    <3> QED
      BY <2>8, <3>1, <3>2 DEF EntriesOwned
  <2>12. (\A i \in 1..Len(callbacks) : held[callbacks[i].client] = callbacks[i].id)'
    <3> SUFFICES ASSUME NEW i \in 1..(Len(callbacks) + 1)
                 PROVE  held'[callbacks'[i].client] = callbacks'[i].id
      BY <2>6
    <3>1. CASE i \in 1..Len(callbacks)
      BY <2>6, <2>7, <2>8, <3>1 DEF EntriesOwned
    <3>2. CASE i = Len(callbacks) + 1
      BY <2>6, <2>8, <3>2
    <3> QED
      BY <2>6, <3>1, <3>2
  <2>13. (\A i, j \in 1..Len(callbacks) : callbacks[i].client = callbacks[j].client => i = j)'
    <3> SUFFICES ASSUME NEW i \in 1..(Len(callbacks) + 1), NEW j \in 1..(Len(callbacks) + 1),
                        callbacks'[i].client = callbacks'[j].client
                 PROVE  i = j
      BY <2>6
    <3>1. ASSUME NEW k \in 1..(Len(callbacks) + 1)
          PROVE  IF k = Len(callbacks) + 1 THEN callbacks'[k].client = c
                 ELSE k \in 1..Len(callbacks) /\ callbacks'[k] = callbacks[k]
      BY <2>6
    <3> QED
      BY <2>6, <2>7, <3>1 DEF EntriesOwned
  <2> QED
    BY <2>9, <2>10, <2>11, <2>12, <2>13 DEF EntriesOwned
<1>3. ASSUME NEW c \in Clients, RegisterIndication(c) \/ OpenGate(c) PROVE EntriesOwned'
  BY <1>3 DEF RegisterIndication, OpenGate, Move, EntriesOwned, Issued, TypeOK
<1>4. ASSUME NEW c \in Clients, BeginRemove(c) \/ Deregister(c) PROVE EntriesOwned'
  BY <1>4 DEF BeginRemove, Deregister, Move, EntriesOwned, Issued, TypeOK
<1>5. ASSUME NEW c \in Clients, RemoveEntry(c) PROVE EntriesOwned'
  <2>1. /\ \A j \in 1..Len(callbacks') : \E i \in 1..Len(callbacks) :
               callbacks'[j] = callbacks[i] /\ callbacks[i].client # c
        /\ \A i, j \in 1..Len(callbacks') :
               callbacks'[i].client = callbacks'[j].client => i = j
    BY <1>5, RemovesOwn
  <2>2. held' = [held EXCEPT ![c] = NoId] /\ nextId' = nextId
    BY <1>5 DEF RemoveEntry
  <2>3. \A d \in Clients : held'[d] = IF d = c THEN NoId ELSE held[d]
    BY <2>2 DEF TypeOK
  <2>4. pc[c] = "remove" /\ \A d \in Clients : pc'[d] = "add" => pc[d] = "add" /\ d # c
    BY <1>5 DEF RemoveEntry, Move, TypeOK
  <2>5. (\A i \in 1..Len(callbacks) : held[callbacks[i].client] = callbacks[i].id)'
    BY <2>1, <2>3, EntryTypes DEF EntriesOwned
  <2>6. Issued' = Issued
    BY <2>2 DEF Issued
  <2> QED
    BY <2>1, <2>3, <2>4, <2>5, <2>6 DEF EntriesOwned
<1>6. ASSUME NEW e \in Events, Sdk(e) PROVE UNCHANGED <<callbacks, held, pc, nextId>>
  BY <1>6 DEF Sdk, Arrive, PassGate, CopyCallbacks, CallNext
<1>7. ASSUME Lifecycle, ~ ClearCallbacks PROVE UNCHANGED <<callbacks, held, pc, nextId>>
  BY <1>7 DEF Lifecycle, StartDeinit, DeinitFails, ClearMaps, DeinitPhone, InitPhone,
              InitManagers
<1>8. ASSUME ClearCallbacks PROVE EntriesOwned'
  <2>1. UNCHANGED <<held, pc, nextId>> /\ Len(callbacks') = 0
    BY <1>8 DEF ClearCallbacks
  <2> QED
    BY <2>1 DEF EntriesOwned, Issued
<1>9. ASSUME UNCHANGED <<callbacks, held, pc, nextId>> PROVE EntriesOwned'
  BY <1>9 DEF EntriesOwned, Issued
<1>10. CASE UNCHANGED vars
  BY <1>9, <1>10 DEF vars
<1> QED
  BY <1>1, <1>2, <1>3, <1>4, <1>5, <1>6, <1>7, <1>8, <1>9, <1>10 DEF Next, Client

-----------------------------------------------------------------------------
(* The calls an event still owes.                                          *)

LEMMA CallsOwedStep ==
    ASSUME TypeOK, EntriesOwned, CallsOwed, [Next]_vars
    PROVE  CallsOwed'
<1>1. ASSUME NEW e \in Events, Arrive(e) PROVE CallsOwed'
  BY <1>1 DEF Arrive, CallsOwed, NoDuplicateCalls, TypeOK
<1>2. ASSUME NEW e \in Events, PassGate(e) PROVE CallsOwed'
  BY <1>2 DEF PassGate, CallsOwed, NoDuplicateCalls, TypeOK
<1>3. ASSUME NEW e \in Events, CopyCallbacks(e) PROVE CallsOwed'
  <2>1. /\ at[e] = "passed" /\ at' = [at EXCEPT ![e] = "calling"] /\ calls' = calls
        /\ todo' = [todo EXCEPT ![e] = callbacks]
    BY <1>3 DEF CopyCallbacks
  <2>2. \A f \in Events : todo'[f] = IF f = e THEN callbacks ELSE todo[f]
    BY <2>1 DEF TypeOK
  <2>3. \A f \in Events : at'[f] = IF f = e THEN "calling" ELSE at[f]
    BY <2>1 DEF TypeOK
  <2>4. \A c \in Clients : calls[c][e] = 0
    BY <2>1 DEF CallsOwed
  <2>5. \A i \in 1..Len(callbacks) : calls[callbacks[i].client][e] = 0
    BY <2>4, EntryTypes
  <2>6. \A i, j \in 1..Len(callbacks) : callbacks[i].client = callbacks[j].client => i = j
    BY DEF EntriesOwned
  <2> QED
    BY <2>1, <2>2, <2>3, <2>5, <2>6 DEF CallsOwed, NoDuplicateCalls
<1>4. ASSUME NEW e \in Events, CallNext(e) PROVE CallsOwed'
  <2>1. CASE todo[e] = <<>>
    BY <1>4, <2>1 DEF CallNext, CallsOwed, NoDuplicateCalls, TypeOK
  <2>2. CASE todo[e] # <<>>
    <3> DEFINE d == todo[e][1].client
    <3>1. /\ todo[e] \in Seq(Entries) /\ Len(todo[e]) \in Nat \ {0}
          /\ Head(todo[e]) = todo[e][1]
      BY <2>2 DEF TypeOK
    <3>2. /\ Len(Tail(todo[e])) = Len(todo[e]) - 1
          /\ \A i \in 1..Len(Tail(todo[e])) : Tail(todo[e])[i] = todo[e][i + 1]
      BY <2>2, <3>1, HeadTailProperties
    <3>3. \A i \in 1..Len(todo[e]) : todo[e][i].client \in Clients
      <4>1. \A i \in 1..Len(todo[e]) : todo[e][i] \in Entries
        BY <3>1, ElementOfSeq
      <4> QED
        BY <4>1 DEF Entries
    <3>4. d \in Clients
      BY <3>1, <3>3
    <3>5. at[e] = "calling" /\ at' = at
      BY <1>4, <2>2 DEF CallNext
    <3>6. \A f \in Events : todo'[f] = IF f = e THEN Tail(todo[e]) ELSE todo[f]
      BY <1>4, <2>2 DEF CallNext, TypeOK
    <3>7. calls' = [calls EXCEPT ![d][e] = @ + 1]
      BY <1>4, <2>2, <3>1 DEF CallNext
    <3>8. calls[d][e] = 0
      BY <3>1 DEF CallsOwed
    <3>9. \A i, j \in 1..Len(todo[e]) : todo[e][i].client = todo[e][j].client => i = j
      BY DEF CallsOwed
    <3> HIDE DEF d
    <3>10. \A c \in Clients, f \in Events :
               calls'[c][f] = IF c = d /\ f = e THEN 1 ELSE calls[c][f]
      BY <3>4, <3>7, <3>8 DEF TypeOK
    <3>11. \A i \in 1..Len(todo'[e]) :
               /\ todo'[e][i] = todo[e][i + 1]
               /\ i + 1 \in 1..Len(todo[e])
      <4>1. todo'[e] = Tail(todo[e])
        BY <3>6
      <4>2. \A i \in 1..(Len(todo[e]) - 1) : i + 1 \in 1..Len(todo[e])
        BY <3>1
      <4> QED
        BY <3>2, <4>1, <4>2
    <3>12. \A i \in 1..Len(todo'[e]) : todo'[e][i].client # d
      BY <3>1, <3>9, <3>11 DEF d
    <3>13. (\A f \in Events : at[f] \in {"new", "arrived", "passed"} =>
                \A c \in Clients : calls[c][f] = 0)'
      BY <3>5, <3>10 DEF CallsOwed
    <3>14. (\A f \in Events : \A i \in 1..Len(todo[f]) : calls[todo[f][i].client][f] = 0)'
      <4> SUFFICES ASSUME NEW f \in Events, NEW i \in 1..Len(todo'[f])
                   PROVE  calls'[todo'[f][i].client][f] = 0
        OBVIOUS
      <4>1. CASE f = e
        BY <4>1, <3>3, <3>10, <3>11, <3>12 DEF CallsOwed
      <4>2. CASE f # e
        <5>1. todo[f] \in Seq(Entries) /\ todo'[f] = todo[f]
          BY <3>6, <4>2 DEF TypeOK
        <5>2. todo[f][i].client \in Clients
          <6>1. todo[f][i] \in Entries
            BY <5>1, ElementOfSeq
          <6> QED
            BY <6>1 DEF Entries
        <5> QED
          BY <3>10, <4>2, <5>1, <5>2 DEF CallsOwed
      <4> QED
        BY <4>1, <4>2
    <3>15. (\A f \in Events : \A i, j \in 1..Len(todo[f]) :
                todo[f][i].client = todo[f][j].client => i = j)'
      <4> SUFFICES ASSUME NEW f \in Events, NEW i \in 1..Len(todo'[f]),
                          NEW j \in 1..Len(todo'[f]),
                          todo'[f][i].client = todo'[f][j].client
                   PROVE  i = j
        OBVIOUS
      <4>1. CASE f = e
        BY <4>1, <3>9, <3>11
      <4>2. CASE f # e
        BY <4>2, <3>6 DEF CallsOwed
      <4> QED
        BY <4>1, <4>2
    <3>16. NoDuplicateCalls'
      BY <3>10 DEF CallsOwed, NoDuplicateCalls
    <3> QED
      BY <3>13, <3>14, <3>15, <3>16 DEF CallsOwed
  <2> QED
    BY <2>1, <2>2
<1>5. ASSUME NEW c \in Clients, Client(c) PROVE UNCHANGED <<at, todo, calls>>
  BY <1>5 DEF Client, BeginAdd, AddEntry, RegisterIndication, OpenGate, BeginRemove,
              RemoveEntry, Deregister, sbVars
<1>6. ASSUME Lifecycle PROVE UNCHANGED <<at, todo, calls>>
  BY <1>6 DEF Lifecycle, StartDeinit, DeinitFails, ClearCallbacks, ClearMaps, DeinitPhone,
              InitPhone, InitManagers, sbVars
<1>7. ASSUME UNCHANGED <<at, todo, calls>> PROVE CallsOwed'
  BY <1>7 DEF CallsOwed, NoDuplicateCalls
<1>8. CASE UNCHANGED vars
  BY <1>7, <1>8 DEF vars
<1> QED
  BY <1>1, <1>2, <1>3, <1>4, <1>5, <1>6, <1>7, <1>8 DEF Next, Sdk

-----------------------------------------------------------------------------
(* The entry behind a gate that is about to open.                          *)

HasEntry(c) == \E i \in 1..Len(callbacks) : callbacks[i].client = c

LEMMA OpeningHasEntryStep ==
    ASSUME TypeOK, EntriesOwned, OpeningHasEntry, [Next]_vars
    PROVE  OpeningHasEntry'
<1> USE DEF HasEntry
<1>1. pc \in [Clients -> PcSteps] /\ callbacks \in Seq(Entries)
  BY DEF TypeOK, PcSteps
<1>2. \A d \in Clients : Opening(d) => overtaken \/ HasEntry(d)
  BY DEF OpeningHasEntry
<1>3. gate /\ callbacks = <<>> => overtaken
  BY DEF OpeningHasEntry, GateNeedsCallbacks
<1>4. ASSUME \A d \in Clients : Opening(d)' => overtaken' \/ HasEntry(d)',
             gate' /\ callbacks' = <<>> => overtaken'
      PROVE  OpeningHasEntry'
  BY <1>4 DEF OpeningHasEntry, GateNeedsCallbacks
<1>5. ASSUME NEW c \in Clients, BeginAdd(c) \/ BeginRemove(c) \/ Deregister(c)
      PROVE  OpeningHasEntry'
  BY <1>1, <1>2, <1>3, <1>4, <1>5
     DEF BeginAdd, BeginRemove, Deregister, Move, Opening, history
<1>6. ASSUME NEW c \in Clients, AddEntry(c) PROVE OpeningHasEntry'
  <2>1. /\ Len(callbacks') = Len(callbacks) + 1 /\ Len(callbacks) \in Nat
        /\ \A i \in 1..Len(callbacks) : callbacks'[i] = callbacks[i]
        /\ callbacks'[Len(callbacks) + 1] = [id |-> nextId, client |-> c]
    BY <1>6, AddsOwn
  <2>2. HasEntry(c)' /\ \A d \in Clients : HasEntry(d) => HasEntry(d)'
    BY <2>1
  <2>3. callbacks' # <<>>
    BY <2>1
  <2>4. overtaken' = overtaken /\ \A d \in Clients : d # c => (Opening(d)' <=> Opening(d))
    BY <1>1, <1>6 DEF AddEntry, history, Move, Opening
  <2> QED
    BY <1>2, <1>4, <2>2, <2>3, <2>4
<1>7. ASSUME NEW c \in Clients, RegisterIndication(c) PROVE OpeningHasEntry'
  BY <1>1, <1>2, <1>3, <1>4, <1>7 DEF RegisterIndication, Move, Opening, history
<1>8. ASSUME NEW c \in Clients, OpenGate(c) PROVE OpeningHasEntry'
  <2>1. Opening(c) /\ UNCHANGED <<callbacks, overtaken>>
    BY <1>8 DEF OpenGate, Move, Opening
  <2>2. \A d \in Clients : Opening(d)' => Opening(d)
    BY <1>1, <1>8 DEF OpenGate, Move, Opening
  <2>3. HasEntry(c) => callbacks # <<>>
    BY <1>1
  <2> QED
    BY <1>2, <1>4, <2>1, <2>2, <2>3
<1>9. ASSUME NEW c \in Clients, RemoveEntry(c) PROVE OpeningHasEntry'
  <2>1. pc[c] = "remove" /\ overtaken' = overtaken
    BY <1>9 DEF RemoveEntry, Move
  <2>2. \A d \in Clients : Opening(d)' => Opening(d) /\ d # c
    BY <1>1, <1>9 DEF RemoveEntry, Move, Opening
  <2>3. \A d \in Clients : HasEntry(d) /\ d # c => HasEntry(d)'
    <3> SUFFICES ASSUME NEW d \in Clients, d # c,
                        NEW i \in 1..Len(callbacks), callbacks[i].client = d
                 PROVE  HasEntry(d)'
      OBVIOUS
    <3>1. PICK j \in 1..Len(callbacks') : callbacks'[j] = callbacks[i]
      BY <1>9, RemovesOwn
    <3> QED
      BY <3>1
  <2>4. gate' /\ callbacks' = <<>> => gate /\ callbacks = <<>>
    BY <1>9 DEF RemoveEntry
  <2> QED
    BY <1>2, <1>3, <1>4, <2>1, <2>2, <2>3, <2>4
<1>10. ASSUME NEW e \in Events, Sdk(e) PROVE UNCHANGED <<callbacks, pc, gate, overtaken>>
  BY <1>10 DEF Sdk, Arrive, PassGate, CopyCallbacks, CallNext, history
<1>11. ASSUME DeinitFails PROVE OpeningHasEntry'
  BY <1>2, <1>4, <1>11 DEF DeinitFails, Opening
<1>12. ASSUME ClearCallbacks PROVE OpeningHasEntry'
  <2>1. pc' = pc /\ gate' = FALSE /\ (overtaken' <=> overtaken \/ \E d \in Clients : Opening(d))
    BY <1>12 DEF ClearCallbacks, NoteOvertaken, TypeOK
  <2> QED
    BY <1>4, <2>1 DEF Opening
<1>13. ASSUME Lifecycle, ~ DeinitFails, ~ ClearCallbacks
       PROVE  UNCHANGED <<callbacks, pc, gate, overtaken>>
  BY <1>13 DEF Lifecycle, StartDeinit, ClearMaps, DeinitPhone, InitPhone, InitManagers,
               history
<1>14. ASSUME UNCHANGED <<callbacks, pc, gate, overtaken>> PROVE OpeningHasEntry'
  BY <1>14 DEF OpeningHasEntry, GateNeedsCallbacks, Opening
<1>15. CASE UNCHANGED vars
  BY <1>14, <1>15 DEF vars
<1> QED
  BY <1>5, <1>6, <1>7, <1>8, <1>9, <1>10, <1>11, <1>12, <1>13, <1>14, <1>15
     DEF Next, Client

-----------------------------------------------------------------------------
LEMMA AddsGrow ==
    ASSUME TypeOK, [Next]_vars
    PROVE  adds =< adds'
<1>1. adds \in Nat
  BY ThroughputAssumption DEF TypeOK
<1>2. ASSUME NEW c \in Clients, Client(c) PROVE adds' \in {adds, adds + 1}
  BY <1>2 DEF Client, BeginAdd, AddEntry, RegisterIndication, OpenGate, BeginRemove,
              RemoveEntry, Deregister
<1>3. ASSUME NEW e \in Events, Sdk(e) PROVE adds' = adds
  BY <1>3 DEF Sdk, Arrive, PassGate, CopyCallbacks, CallNext
<1>4. ASSUME Lifecycle PROVE adds' = adds
  BY <1>4 DEF Lifecycle, StartDeinit, DeinitFails, ClearCallbacks, ClearMaps, DeinitPhone,
              InitPhone, InitManagers
<1>5. ASSUME UNCHANGED vars PROVE adds' = adds
  BY <1>5 DEF vars
<1>6. adds' \in {adds, adds + 1}
  BY <1>2, <1>3, <1>4, <1>5 DEF Next
<1> QED
  BY <1>1, <1>6

LEMMA IdsIdentifyHere ==
    ASSUME TypeOK, IdInv
    PROVE  IdsIdentify
<1> SUFFICES ASSUME adds < IdLimit PROVE OwnEntry /\ NoDuplicateCalls /\ GateNeedsCallbacks
  BY DEF IdsIdentify
<1>1. DOMAIN callbacks = 1..Len(callbacks)
  BY DEF TypeOK
<1>2. ASSUME NEW c \in Clients, NEW i \in 1..Len(callbacks), callbacks[i].id = held[c]
      PROVE  callbacks[i].client = c
  <2>1. callbacks[i].client \in Clients /\ callbacks[i].id # NoId
    BY EntryTypes, ThroughputAssumption DEF Ids
  <2> QED
    BY <1>2, <2>1 DEF IdInv, EntriesOwned
<1> QED
  BY <1>1, <1>2 DEF IdInv, CallsOwed, OpeningHasEntry, OwnEntry

\* While the 16-bit ids have not wrapped, an id finds its own client's entry and no other:
\* no removal, even with an id from before a Deinit, takes away another client's callback,
\* no event calls a client twice, and the gate stays open only while there are callbacks,
\* for any number of clients, events and ids.
THEOREM IdsAlwaysIdentify == Spec => []IdsIdentify
<1>1. ASSUME Init PROVE IdInv
  <2>1. Adding = {} /\ Issued = 0 /\ adds = 0
    BY <1>1 DEF Init, Adding, Issued
  <2>2. IdsFresh
    BY <2>1, FS_EmptySet DEF IdsFresh
  <2>3. EntriesOwned /\ CallsOwed /\ OpeningHasEntry
    BY <1>1 DEF Init, EntriesOwned, CallsOwed, OpeningHasEntry, NoDuplicateCalls,
                GateNeedsCallbacks, Opening
  <2> QED
    BY <2>2, <2>3 DEF IdInv
<1>2. ASSUME TypeOK, IdInv, [Next]_vars PROVE IdInv'
  <2>1. IdsFresh'
    BY <1>2, IdsFreshStep DEF IdInv
  <2>2. ASSUME adds' < IdLimit PROVE (EntriesOwned /\ CallsOwed /\ OpeningHasEntry)'
    <3>1. adds < IdLimit
      <4>1. adds \in Nat /\ adds' \in Nat /\ IdLimit \in Nat
        BY <1>2, TypeStep, ThroughputAssumption DEF TypeOK
      <4> QED
        BY <1>2, <2>2, <4>1, AddsGrow
    <3>2. IdsFresh /\ EntriesOwned /\ CallsOwed /\ OpeningHasEntry
      BY <1>2, <3>1 DEF IdInv
    <3> QED
      BY <1>2, <3>1, <3>2, EntriesOwnedStep, CallsOwedStep, OpeningHasEntryStep
  <2> QED
    BY <2>1, <2>2 DEF IdInv
<1>3. TypeOK /\ IdInv => IdsIdentify
  BY IdsIdentifyHere
<1>4. TypeOK /\ IdInv /\ [Next]_vars => IdInv'
  BY <1>2
<1>5. Init => IdInv
  BY <1>1
<1> QED
  BY <1>3, <1>4, <1>5, TypeCorrect, PTL DEF Spec

=============================================================================
