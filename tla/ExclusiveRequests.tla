--------------------------- MODULE ExclusiveRequests ---------------------------
(***************************************************************************)
(* Requests of which the SDK is to have one at a time: a token is tried,    *)
(* never waited for, and a request that finds it taken returns PA_BUSY.     *)
(* The list of profiles gives the token back with the answer of the SDK,    *)
(* the roaming status and the operations of the file system when their      *)
(* function returns, with or without an answer.                             *)
(***************************************************************************)
EXTENDS Integers

CONSTANTS
    Askers,           \* calls, each on a thread of the service
    NoAsker

ASSUME AskersAssumption == NoAsker \notin Askers

\* calls: the answer calls the client back; unmapped: it may find no phone for its slot
\* and return at once.
PaListProfiles == [calls |-> TRUE, unmapped |-> TRUE]
PaGetRoamingStatus == [calls |-> FALSE, unmapped |-> FALSE]
SetProcessStatus == [calls |-> FALSE, unmapped |-> FALSE]
PerformABSync == SetProcessStatus

ExclusiveKinds == {PaListProfiles, PaGetRoamingStatus, SetProcessStatus, PerformABSync}

VARIABLES
    request,          \* which of them is asked for
    token,
    entry,            \* whose callback and context are stored
    asking,           \* where each call is
    pending,          \* the requests the SDK has
    promised,         \* what the promise of each holds
    answering,        \* where the thread of an answer is
    local,            \* the callback it copied
    clientTold,       \* whose answer each client was told
    outcome           \* how each call ended

exclusiveVars == <<request, token, entry, asking, pending, promised, answering, local,
                   clientTold, outcome>>

AnyAsker == Askers \cup {NoAsker}

ExclusiveTypeOK ==
    /\ request \in ExclusiveKinds /\ token \in BOOLEAN /\ entry \in AnyAsker
    /\ asking \in [Askers -> {"new", "set", "submit", "clear", "wait", "release", "done"}]
    /\ pending \in SUBSET Askers
    /\ promised \in [Askers -> {"none", "ok", "fault"}]
    /\ answering \in [Askers -> {"no", "copy", "call", "clear", "release", "over",
                                 "dropped"}]
    /\ local \in [Askers -> AnyAsker]
    /\ clientTold \in [Askers -> AnyAsker]
    /\ outcome \in [Askers -> {"none", "ok", "busy", "fault", "timeout"}]

ExclusiveInit ==
    /\ request \in ExclusiveKinds /\ token = FALSE /\ entry = NoAsker
    /\ asking = [a \in Askers |-> "new"]
    /\ pending = {}
    /\ promised = [a \in Askers |-> "none"]
    /\ answering = [a \in Askers |-> "no"]
    /\ local = [a \in Askers |-> NoAsker]
    /\ clientTold = [a \in Askers |-> NoAsker]
    /\ outcome = [a \in Askers |-> "none"]

Asks(a, place) == asking' = [asking EXCEPT ![a] = place]
Outcome(a, r) == outcome' = [outcome EXCEPT ![a] = r]

-----------------------------------------------------------------------------
(* The threads of the service.                                             *)

TryAcquire(a) ==
    /\ asking[a] = "new"
    /\ \/ token /\ Asks(a, "done") /\ Outcome(a, "busy") /\ UNCHANGED token
       \/ /\ ~token /\ token' = TRUE
          /\ Asks(a, IF request.calls THEN "set" ELSE "submit") /\ UNCHANGED outcome
    /\ UNCHANGED <<request, entry, pending, promised, answering, local, clientTold>>

SetCallback(a) ==
    /\ asking[a] = "set" /\ Asks(a, "submit")
    /\ entry' = a
    /\ UNCHANGED <<request, token, pending, promised, answering, local, clientTold, outcome>>

\* The SDK takes the request or not; so may the lookups before it refuse.
Ask(a) ==
    /\ asking[a] = "submit"
    /\ \/ /\ pending' = pending \cup {a}
          /\ Asks(a, IF request.calls THEN "done" ELSE "wait")
          /\ IF request.calls THEN Outcome(a, "ok") ELSE UNCHANGED outcome
       \/ /\ Asks(a, IF request.calls THEN "clear" ELSE "release")
          /\ Outcome(a, "fault") /\ UNCHANGED pending
    /\ UNCHANGED <<request, token, entry, promised, answering, local, clientTold>>

ClearCallback(a) ==
    /\ asking[a] = "clear" /\ Asks(a, "release")
    /\ entry' = NoAsker
    /\ UNCHANGED <<request, token, pending, promised, answering, local, clientTold, outcome>>

\* The wait ends with the promise or without.  The caller holds the promise too, so the
\* SDK cannot break it, and the early return for a future that throws is never taken.
EndAsk(a) ==
    /\ asking[a] = "wait"
    /\ Outcome(a, IF promised[a] = "none" THEN "timeout" ELSE promised[a])
    /\ Asks(a, "release")
    /\ UNCHANGED <<request, token, entry, pending, promised, answering, local, clientTold>>

Release(a) ==
    /\ asking[a] = "release" /\ Asks(a, "done")
    /\ token' = FALSE
    /\ UNCHANGED <<request, entry, pending, promised, answering, local, clientTold, outcome>>

-----------------------------------------------------------------------------
(* The threads of the SDK.                                                 *)

\* The answer to a request that waits, or waited, for a promise.
Promise(a) ==
    /\ ~request.calls /\ a \in pending
    /\ pending' = pending \ {a}
    /\ \E v \in {"ok", "fault"} : promised' = [promised EXCEPT ![a] = v]
    /\ UNCHANGED <<request, token, entry, asking, answering, local, clientTold, outcome>>

AnswerGoes(a, place) == answering' = [answering EXCEPT ![a] = place]

\* onProfileListResponse.
FindPhone(a) ==
    /\ request.calls /\ a \in pending
    /\ pending' = pending \ {a}
    /\ \/ AnswerGoes(a, "copy")
       \/ request.unmapped /\ AnswerGoes(a, "dropped")
    /\ UNCHANGED <<request, token, entry, asking, promised, local, clientTold, outcome>>

CopyCallback(a) ==
    /\ answering[a] = "copy" /\ AnswerGoes(a, "call")
    /\ local' = [local EXCEPT ![a] = entry]
    /\ UNCHANGED <<request, token, entry, asking, pending, promised, clientTold, outcome>>

TellClient(a) ==
    /\ answering[a] = "call" /\ AnswerGoes(a, "clear")
    /\ clientTold' = IF local[a] # NoAsker THEN [clientTold EXCEPT ![local[a]] = a]
                     ELSE clientTold
    /\ UNCHANGED <<request, token, entry, asking, pending, promised, local, outcome>>

\* Mutant of ClearEntry: the token is left to the next request.
ClearEntryOnly(a) ==
    /\ answering[a] = "clear" /\ AnswerGoes(a, "over")
    /\ entry' = NoAsker
    /\ UNCHANGED <<request, token, asking, pending, promised, local, clientTold, outcome>>

ClearEntry(a) ==
    /\ answering[a] = "clear" /\ AnswerGoes(a, "release")
    /\ entry' = NoAsker
    /\ UNCHANGED <<request, token, asking, pending, promised, local, clientTold, outcome>>

ReleaseToken(a) ==
    /\ answering[a] = "release" /\ AnswerGoes(a, "over")
    /\ token' = FALSE
    /\ UNCHANGED <<request, entry, asking, pending, promised, local, clientTold, outcome>>

ExclusiveNext ==
    \E a \in Askers :
        \/ TryAcquire(a) \/ SetCallback(a) \/ Ask(a) \/ ClearCallback(a) \/ EndAsk(a)
        \/ Release(a) \/ Promise(a)
        \/ FindPhone(a) \/ CopyCallback(a) \/ TellClient(a) \/ ClearEntry(a)
        \/ ReleaseToken(a)

ExclusiveSpec == ExclusiveInit /\ [][ExclusiveNext]_exclusiveVars

-----------------------------------------------------------------------------

Holds(a) ==
    \/ asking[a] \in {"set", "submit", "clear", "wait", "release"}
    \/ request.calls /\ (a \in pending \/ answering[a] \in {"copy", "call", "clear", "release"})

\* The token is taken only while a request is under way that gives it back, or once the
\* answer to a list request found no phone for its slot: then no list is ever given again.
TokenComesBack ==
    token => \E a \in Askers : Holds(a) \/ answering[a] = "dropped"

\* Two operations are with the SDK only after a caller gave up waiting: "the no-interleave
\* guarantee only holds while the SDK invokes the callback within its operation timeout"
\* (tafMrcPa.cpp:127).
NoInterleave ==
    \A a, b \in pending : a = b \/ outcome[a] = "timeout" \/ outcome[b] = "timeout"

\* The client of a list request is told the answer to its own request, once PA_OK was or
\* will be returned to it.
OwnList == \A a \in Askers : clientTold[a] \in {a, NoAsker}
=============================================================================
