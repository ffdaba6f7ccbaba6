------------------------------- MODULE BringUp -------------------------------
(***************************************************************************)
(* Init and Deinit of a PA: Init gets the managers of the SDK one after    *)
(* the other, waits a limited time for the service of each, and registers  *)
(* a listener; Deinit lets go of all.  What is asked, trusted, kept after  *)
(* a failure or guarded differs: a way is a record of the set below, and   *)
(* BringUpWays names those of the repository.                              *)
(***************************************************************************)
EXTENDS Integers, Sequences

CONSTANTS
    Starters,         \* calls of Init
    Stoppers,         \* calls of Deinit
    Nobody,
    MaxStages,        \* bound: the managers of a way
    WaysHere          \* the ways looked at

ASSUME CallersAssumption ==
    Starters \cap Stoppers = {} /\ Nobody \notin Starters \cup Stoppers
ASSUME StagesAssumption == MaxStages \in Nat

\* trusts: what a manager that is already there means; status: no wait when its service
\* is available; after: it is stored only then; frame: the callback holds a local of Init;
\* timeout, failed: what becomes of it; fails: Init ends with the failure.
Stage == [trusts : {"no", "ok", "fault"}, status : BOOLEAN, after : BOOLEAN,
          frame : BOOLEAN, timeout : {"keep", "drop"}, failed : {"keep", "drop"},
          fails : BOOLEAN]

\* guard: a second Init returns PA_OK at the flag, with both under a mutex or without;
\* registers: what becomes of a refused registration; rollback: a failure drops every
\* manager; raises, clears: Init sets the flag, and takes it back when it fails; honest:
\* it returns its failure; undo: how Deinit finds out that there is nothing to undo.
Way == [guard : {"no", "flag", "mutex"}, stages : Seq(Stage),
        registers : {"no", "ignored", "checked", "keep", "drop"}, rollback : BOOLEAN,
        raises : BOOLEAN, clears : BOOLEAN, honest : BOOLEAN,
        undo : {"flag", "ok", "no", "refusable"}]

ASSUME WaysAssumption ==
    \A w \in WaysHere : w \in Way /\ Len(w.stages) \in 1..MaxStages

\* A manager whose service failed stays only where it stays after a timeout too, or is
\* not trusted.
ASSUME TrustAssumption ==
    \A w \in WaysHere : \A s \in 1..Len(w.stages) :
        w.stages[s].trusts = "ok" => w.stages[s].timeout = "keep" \/ w.stages[s].failed = "drop"

VARIABLES
    way,
    up,               \* the flag of the PA
    managers,         \* the stages whose manager is stored
    service,          \* what the SDK has of each
    holder,           \* of the mutex of Init and Deinit
    step,             \* where each call is
    stage,            \* which manager an Init is at
    owed,             \* the callbacks the SDK holds
    heard,            \* what the promise of an Init holds
    result,           \* what a call returned
    told,             \* the last Init returned PA_OK, and nothing was taken down since
    overlap,          \* two calls were under way at once
    crashed

bringVars == <<way, up, managers, service, holder, step, stage, owed, heard, result,
               told, overlap, crashed>>

Callers == Starters \cup Stoppers
Stages == 1..MaxStages
StagesOf(w) == 1..Len(w.stages)

BringTypeOK ==
    /\ way \in WaysHere
    /\ up \in BOOLEAN /\ told \in BOOLEAN /\ overlap \in BOOLEAN /\ crashed \in BOOLEAN
    /\ managers \in SUBSET StagesOf(way)
    /\ service \in [Stages -> {"starting", "available", "failed"}]
    /\ holder \in Callers \cup {Nobody}
    /\ step \in [Callers -> {"new", "get", "wait", "listen", "succeed", "fail", "takedown",
                             "lower", "done"}]
    /\ stage \in [Callers -> StagesOf(way)]
    /\ owed \in SUBSET (Starters \X StagesOf(way))
    /\ heard \in [Callers -> {"none", "available", "failed"}]
    /\ result \in [Callers -> {"none", "ok", "fault", "timeout", "refused"}]

BringInit ==
    /\ way \in WaysHere
    /\ up = FALSE /\ told = FALSE /\ overlap = FALSE /\ crashed = FALSE
    /\ managers = {} /\ owed = {}
    /\ service = [s \in Stages |-> "starting"]
    /\ holder = Nobody
    /\ step = [c \in Callers |-> "new"]
    /\ stage = [c \in Callers |-> 1]
    /\ heard = [c \in Callers |-> "none"]
    /\ result = [c \in Callers |-> "none"]

Goes(c, place) == step' = [step EXCEPT ![c] = place]
Results(c, r) == result' = [result EXCEPT ![c] = r]
ThisStage(c) == way.stages[stage[c]]
Idle == \A c \in Callers : step[c] \in {"new", "done"}

\* The mutex is held from the first look at the flag to the return.
MayEnter == way.guard = "mutex" => holder = Nobody
Enters(c) == holder' = IF way.guard = "mutex" THEN c ELSE Nobody

-----------------------------------------------------------------------------
(* Init.                                                                   *)

EnterInit(c) ==
    /\ step[c] = "new" /\ MayEnter /\ ~crashed
    /\ \/ /\ way.guard # "no" /\ up
          /\ Goes(c, "done") /\ Results(c, "ok") /\ told' = TRUE
          /\ UNCHANGED holder
       \/ /\ way.guard = "no" \/ ~up
          /\ Goes(c, "get") /\ Enters(c)
          /\ UNCHANGED <<result, told>>
    /\ overlap' = (overlap \/ ~Idle)
    /\ UNCHANGED <<way, up, managers, service, stage, owed, heard, crashed>>

Advance(c) ==
    /\ UNCHANGED result
    /\ IF stage[c] < Len(way.stages)
       THEN Goes(c, "get") /\ stage' = [stage EXCEPT ![c] = @ + 1]
       ELSE Goes(c, "listen") /\ UNCHANGED stage

\* What a stage that failed, or was not ready in time, leaves behind.
GiveUp(c, how, r) ==
    /\ managers' = IF ThisStage(c).fails /\ way.rollback THEN {}
                   ELSE IF how = "drop" THEN managers \ {stage[c]} ELSE managers
    /\ IF ThisStage(c).fails
       THEN Goes(c, "fail") /\ Results(c, r) /\ UNCHANGED stage
       ELSE Advance(c)

\* A manager that is there already may be taken as it is.
Trust(c) ==
    /\ step[c] = "get" /\ ~crashed
    /\ ThisStage(c).trusts # "no" /\ stage[c] \in managers
    /\ IF ThisStage(c).trusts = "ok"
       THEN Advance(c)
       ELSE Goes(c, "fail") /\ Results(c, "fault") /\ UNCHANGED stage
    /\ UNCHANGED <<way, up, managers, service, holder, owed, heard, told, overlap, crashed>>

\* The factory has none, has one that is ready, or makes one and tells later.
Get(c) ==
    /\ step[c] = "get" /\ ~crashed
    /\ ThisStage(c).trusts = "no" \/ stage[c] \notin managers
    /\ LET s == stage[c]
           ready == ThisStage(c).status /\ service[s] = "available"
       IN  \/ /\ ~(ready /\ s \in managers)
              /\ GiveUp(c, IF ThisStage(c).after THEN "keep" ELSE "drop", "fault")
              /\ UNCHANGED <<service, owed, heard>>
           \/ /\ ready
              /\ managers' = managers \cup {s} /\ Advance(c)
              /\ UNCHANGED <<service, owed, heard>>
           \/ /\ ~ready
              /\ managers' = IF ThisStage(c).after THEN managers ELSE managers \cup {s}
              /\ service' = [service EXCEPT ![s] = IF @ = "failed" THEN "starting" ELSE @]
              /\ owed' = owed \cup {<<c, s>>}
              /\ heard' = [heard EXCEPT ![c] = "none"]
              /\ Goes(c, "wait") /\ UNCHANGED <<stage, result>>
    /\ UNCHANGED <<way, up, holder, told, overlap, crashed>>

\* Mutant of EndStage: a service that failed is taken for one that answered.
EndStageAnyAnswer(c) ==
    /\ step[c] = "wait" /\ ~crashed /\ heard[c] # "none"
    /\ managers' = managers \cup {stage[c]} /\ Advance(c)
    /\ UNCHANGED <<way, up, service, holder, owed, heard, told, overlap, crashed>>

EndStage(c) ==
    /\ step[c] = "wait" /\ ~crashed
    /\ \/ /\ heard[c] = "available"
          /\ managers' = IF ThisStage(c).after THEN managers \cup {stage[c]} ELSE managers
          /\ Advance(c)
       \/ heard[c] = "failed" /\ GiveUp(c, ThisStage(c).failed, "fault")
       \/ heard[c] = "none" /\ GiveUp(c, ThisStage(c).timeout, "timeout")
    /\ UNCHANGED <<way, up, service, holder, owed, heard, told, overlap, crashed>>

\* The listener is registered with the manager of the PA, whatever it is by now; the
\* start of the proprietary layer, or the list of sensors, stands here where there is one.
RegisterListener(c) ==
    /\ step[c] = "listen" /\ ~crashed
    /\ \/ /\ way.registers \in {"ignored", "keep", "drop"} /\ StagesOf(way) \cap managers = {}
          /\ crashed' = TRUE /\ UNCHANGED <<managers, step, result>>
       \/ /\ Goes(c, "succeed") /\ UNCHANGED <<managers, result, crashed>>
       \/ /\ way.registers \in {"keep", "drop"}
          /\ Goes(c, "fail") /\ Results(c, "fault")
          /\ managers' = IF way.registers = "drop" THEN {} ELSE managers
          /\ UNCHANGED crashed
    /\ UNCHANGED <<way, up, service, holder, stage, owed, heard, told, overlap>>

Leaves(c) ==
    /\ Goes(c, "done")
    /\ holder' = IF holder = c THEN Nobody ELSE holder
    /\ UNCHANGED <<way, service, stage, owed, heard, overlap, crashed>>

Succeed(c) ==
    /\ step[c] = "succeed" /\ ~crashed
    /\ up' = (up \/ way.raises) /\ told' = TRUE
    /\ Results(c, "ok") /\ Leaves(c)
    /\ UNCHANGED managers

Fail(c) ==
    /\ step[c] = "fail" /\ ~crashed
    /\ up' = (up /\ ~way.clears) /\ told' = ~way.honest
    /\ Results(c, IF way.honest THEN result[c] ELSE "ok") /\ Leaves(c)
    /\ UNCHANGED managers

-----------------------------------------------------------------------------
(* Deinit.                                                                 *)

EnterDeinit(c) ==
    /\ step[c] = "new" /\ MayEnter /\ ~crashed
    /\ \/ /\ way.undo \in {"flag", "ok"} /\ ~up
          /\ Goes(c, "done") /\ Results(c, IF way.undo = "ok" THEN "ok" ELSE "refused")
          /\ UNCHANGED holder
       \/ /\ way.undo \in {"no", "refusable"} \/ up
          /\ Goes(c, "takedown") /\ Enters(c) /\ UNCHANGED result
    /\ overlap' = (overlap \/ ~Idle)
    /\ UNCHANGED <<way, up, managers, service, stage, owed, heard, told, crashed>>

TakeDown(c) ==
    /\ step[c] = "takedown" /\ ~crashed
    /\ \/ /\ managers' = {} /\ told' = FALSE /\ Goes(c, "lower") /\ UNCHANGED result
       \/ /\ way.undo = "refusable" /\ managers # {}
          /\ Goes(c, "done") /\ Results(c, "fault") /\ UNCHANGED <<managers, told>>
    /\ UNCHANGED <<way, up, service, holder, stage, owed, heard, overlap, crashed>>

Lower(c) ==
    /\ step[c] = "lower" /\ ~crashed
    /\ up' = FALSE
    /\ Results(c, "ok") /\ Leaves(c)
    /\ UNCHANGED <<managers, told>>

-----------------------------------------------------------------------------
(* The SDK.                                                                *)

Settle(s) ==
    /\ service[s] = "starting" /\ ~crashed
    /\ \E c \in Starters : <<c, s>> \in owed
    /\ \E outcome \in {"available", "failed"} : service' = [service EXCEPT ![s] = outcome]
    /\ UNCHANGED <<way, up, managers, holder, step, stage, owed, heard, result, told,
                   overlap, crashed>>

\* The promise takes the answer; a local that is gone is written all the same.
Answer(c, s) ==
    /\ <<c, s>> \in owed /\ service[s] # "starting" /\ ~crashed
    /\ owed' = owed \ {<<c, s>>}
    /\ LET waits == step[c] = "wait" /\ stage[c] = s
       IN  /\ heard' = IF waits THEN [heard EXCEPT ![c] = service[s]] ELSE heard
           /\ crashed' = (~waits /\ way.stages[s].frame)
    /\ UNCHANGED <<way, up, managers, service, holder, step, stage, result, told, overlap>>

BringNext ==
    \/ \E c \in Starters :
          \/ EnterInit(c) \/ Trust(c) \/ Get(c) \/ EndStage(c) \/ RegisterListener(c)
          \/ Succeed(c) \/ Fail(c)
          \/ \E s \in StagesOf(way) : Answer(c, s)
    \/ \E c \in Stoppers : EnterDeinit(c) \/ TakeDown(c) \/ Lower(c)
    \/ \E s \in StagesOf(way) : Settle(s)

BringSpec == BringInit /\ [][BringNext]_bringVars

-----------------------------------------------------------------------------

\* Calls that come one after the other tell the truth: after a PA_OK every manager is there
\* with its service.  Not in a PA that goes on without a manager or hides its failure, and
\* not where a manager that an earlier Init waited for in vain is trusted by the next.
InitTellsTruth ==
    (Idle /\ told /\ ~overlap /\ way.honest) =>
        \A s \in StagesOf(way) :
            \/ s \in managers /\ service[s] = "available"
            \/ ~way.stages[s].fails
            \/ way.stages[s].trusts = "ok" /\ way.stages[s].timeout = "keep"
=============================================================================
