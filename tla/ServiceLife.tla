------------------------------ MODULE ServiceLife ------------------------------
(***************************************************************************)
(* What a platform adaptor that is stopped and started again promises of   *)
(* the calls that run meanwhile: a call belongs to the life of the service *)
(* it began in, it passes nothing to the SDK in another life or while the   *)
(* service is stopped, and it succeeds only in its own.                    *)
(***************************************************************************)
EXTENDS Integers

CONSTANT Calls

VARIABLES
    life,        \* how often the service was stopped
    open,        \* it takes calls
    began,       \* the life a call belongs to, -1 before it begins
    submitted,   \* the calls whose request is with the SDK
    result       \* what a call returned

vars == <<life, open, began, submitted, result>>

Results == {"ok", "refused", "fault", "timeout", "shutdown"}

Init ==
    /\ life = 0 /\ open = FALSE
    /\ began = [c \in Calls |-> -1]
    /\ submitted = {}
    /\ result = [c \in Calls |-> "none"]

Start ==
    /\ ~open /\ open' = TRUE
    /\ UNCHANGED <<life, began, submitted, result>>

Stop ==
    /\ open /\ open' = FALSE
    /\ life' = life + 1
    /\ UNCHANGED <<began, submitted, result>>

Begin(c) ==
    /\ began[c] = -1
    /\ began' = [began EXCEPT ![c] = life]
    /\ UNCHANGED <<life, open, submitted, result>>

Submit(c) ==
    /\ open /\ began[c] = life /\ result[c] = "none" /\ c \notin submitted
    /\ submitted' = submitted \cup {c}
    /\ UNCHANGED <<life, open, began, result>>

Return(c, r) ==
    /\ result[c] = "none"
    /\ r = "ok" => began[c] = life
    /\ r = "refused" => c \notin submitted
    /\ result' = [result EXCEPT ![c] = r]
    /\ UNCHANGED <<life, open, began, submitted>>

Next ==
    \/ Start \/ Stop
    \/ \E c \in Calls : Begin(c) \/ Submit(c) \/ \E r \in Results : Return(c, r)

Spec == Init /\ [][Next]_vars
=============================================================================
