------------------------------- MODULE Requests -------------------------------
(***************************************************************************)
(* The requests that the PAs pass to the SDK, some with a callback of the   *)
(* client.  Each is a function of the service's thread; its answer runs on  *)
(* a thread of the SDK and fulfils the promise the function may wait for,   *)
(* and one of the two calls the client.  The functions differ in a few      *)
(* decisions, their shape.                                                  *)
(***************************************************************************)
EXTENDS Naturals, Sequences

CONSTANTS
    Calls,       \* calls of the functions, each on a thread of its own
    Shapes       \* the shapes of the functions they may be calls of

VARIABLES
    manager,     \* the PA has its manager (Init) or has let it go (Deinit)
    shape,       \* which function a call is of
    at,          \* where its thread is
    sdk,         \* what the SDK does for it
    todo,        \* what is left of the SDK's answer
    answer,      \* what the SDK answers
    promise,     \* the value of the call's promise
    values,      \* the calls whose second promise has what was asked for
    heard,       \* what the client's callback was told of the answer
    told,        \* the calls whose callback was told that they are refused
    result,      \* what the function returned
    stray,       \* the answer used the locals of a frame that was gone
    crashed      \* by which call the process crashed

callVars == <<at, result>>
sdkVars == <<sdk, todo, answer>>
clientVars == <<promise, values, heard, told, stray>>
vars == <<manager, shape, callVars, sdkVars, clientVars, crashed>>

AnswerSteps == {"call", "promise", "callback", "value", "good value"}

\* The decisions of a function.
ShapeSet ==
    [checks : BOOLEAN,        \* it looks whether the manager is there
     keeps : BOOLEAN,         \* it uses a copy of what it looked at
     rejects : BOOLEAN,       \* it may refuse its parameters or find no call
     voiced : BOOLEAN,       \* when it does, it tells the client's callback too
     refusal : {"return", "wait"},   \* what it does when the SDK refuses
     waits : {"no", "timed", "forever"},
     answers : Seq(AnswerSteps),     \* what the SDK's thread does
     needs : {"nothing", "value if ok", "value"},   \* what it then waits for
     tail : BOOLEAN,          \* the function calls the client, after its wait
     frame : {"none", "error", "answer"},   \* which answers use its locals
     tells : {"answer", "ok"},       \* what it tells the client's callback
     returns : {"answer", "ok"},     \* what it returns after the wait
     late : {"timeout", "ok"}]       \* what it returns when the wait times out

\* No client is called twice for an answer, and none but by who waited for it.
ASSUME ShapesAssumption ==
    /\ Shapes \subseteq ShapeSet
    /\ \A s \in Shapes : s.tail =>
           s.waits # "no" /\ \A i \in DOMAIN s.answers : s.answers[i] # "callback"
    /\ \A s \in Shapes : \A i, j \in DOMAIN s.answers :
           s.answers[i] = "callback" /\ s.answers[j] = "callback" => i = j

Answers == {"ok", "error"}
Results == Answers \cup {"refused", "timeout"}
Places == {"new", "ask", "wait", "returned"}

TypeOK ==
    /\ manager \in BOOLEAN
    /\ shape \in [Calls -> Shapes]
    /\ at \in [Calls -> Places]
    /\ sdk \in [Calls -> {"idle", "owes", "answering", "done"}]
    /\ todo \in [Calls -> Seq(AnswerSteps)]
    /\ answer \in [Calls -> Answers \cup {"none"}]
    /\ promise \in [Calls -> Answers \cup {"none"}]
    /\ heard \in [Calls -> Answers \cup {"none"}]
    /\ result \in [Calls -> Results \cup {"none"}]
    /\ told \in SUBSET Calls /\ values \in SUBSET Calls
    /\ stray \in SUBSET Calls /\ crashed \in SUBSET Calls

Init ==
    /\ manager = TRUE
    /\ shape \in [Calls -> Shapes]
    /\ at = [c \in Calls |-> "new"]
    /\ sdk = [c \in Calls |-> "idle"]
    /\ todo = [c \in Calls |-> <<>>]
    /\ answer = [c \in Calls |-> "none"]
    /\ promise = [c \in Calls |-> "none"]
    /\ heard = [c \in Calls |-> "none"]
    /\ result = [c \in Calls |-> "none"]
    /\ told = {} /\ values = {} /\ stray = {} /\ crashed = {}

Return(c, r) ==
    /\ at' = [at EXCEPT ![c] = "returned"]
    /\ result' = [result EXCEPT ![c] = r]

-----------------------------------------------------------------------------
(* The thread of the service.                                              *)

\* Without a manager the function returns, or uses the null pointer.
Begin(c) ==
    /\ at[c] = "new"
    /\ \/ manager /\ at' = [at EXCEPT ![c] = "ask"] /\ UNCHANGED <<result, crashed>>
       \/ ~manager /\ shape[c].checks /\ Return(c, "refused") /\ UNCHANGED crashed
       \/ ~manager /\ ~shape[c].checks /\ crashed' = crashed \cup {c} /\ UNCHANGED callVars
    /\ UNCHANGED <<manager, shape, sdkVars, clientVars>>

\* Bad parameters, which may be looked at before the manager, or no call to
\* command.
Reject(c) ==
    /\ at[c] \in {"new", "ask"} /\ shape[c].rejects
    /\ at[c] = "new" \/ manager \/ shape[c].keeps
    /\ Return(c, "refused")
    /\ told' = IF shape[c].voiced THEN told \cup {c} ELSE told
    /\ UNCHANGED <<manager, shape, sdkVars, promise, values, heard, stray, crashed>>

\* Mutant of Ask: the status the SDK refused with is returned as it is.
AskUnmapped(c) ==
    /\ at[c] = "ask" /\ (manager \/ shape[c].keeps)
    /\ \/ /\ at' = [at EXCEPT ![c] = "wait"]
          /\ sdk' = [sdk EXCEPT ![c] = "owes"]
          /\ UNCHANGED result
       \/ Return(c, "FAILED") /\ UNCHANGED sdk
    /\ UNCHANGED <<manager, shape, todo, answer, clientVars, crashed>>

\* The manager may have been let go since it was looked at.
Ask(c) ==
    /\ at[c] = "ask"
    /\ \/ ~manager /\ ~shape[c].keeps /\ crashed' = crashed \cup {c}
          /\ UNCHANGED <<callVars, sdk>>
       \/ /\ manager \/ shape[c].keeps
          /\ at' = [at EXCEPT ![c] = "wait"]
          /\ sdk' = [sdk EXCEPT ![c] = "owes"]
          /\ UNCHANGED <<result, crashed>>
       \/ /\ manager \/ shape[c].keeps
          /\ IF shape[c].refusal = "return"
             THEN Return(c, "refused")
             ELSE at' = [at EXCEPT ![c] = "wait"] /\ UNCHANGED result
          /\ UNCHANGED <<sdk, crashed>>
    /\ UNCHANGED <<manager, shape, todo, answer, clientVars>>

\* Mutant of Proceed: a failed answer is taken for none at all.
ProceedOnSuccess(c) ==
    /\ at[c] = "wait"
    /\ shape[c].waits = "no" \/ promise[c] = "ok"
    /\ Return(c, "ok")
    /\ UNCHANGED <<manager, shape, sdkVars, clientVars, crashed>>

\* A function that calls its client itself does so when the wait is over.
Tell(c) ==
    /\ at[c] = "wait" /\ shape[c].tail /\ promise[c] # "none" /\ heard[c] = "none"
    /\ heard' = [heard EXCEPT ![c] =
                    IF shape[c].tells = "answer" THEN promise[c] ELSE "ok"]
    /\ UNCHANGED <<manager, shape, callVars, sdkVars, promise, values, told, stray, crashed>>

\* What was asked for may have a promise of its own, which is waited for without
\* a timeout.
HasValue(c) ==
    \/ c \in values
    \/ shape[c].needs = "nothing"
    \/ shape[c].needs = "value if ok" /\ promise[c] # "ok"

\* Without a wait the function returns at once, else when the promise is
\* fulfilled.
Proceed(c) ==
    /\ at[c] = "wait"
    /\ \/ shape[c].waits = "no" /\ Return(c, "ok")
       \/ /\ shape[c].waits # "no" /\ promise[c] # "none"
          /\ (shape[c].tail => heard[c] # "none") /\ HasValue(c)
          /\ Return(c, IF shape[c].returns = "answer" THEN promise[c] ELSE "ok")
    /\ UNCHANGED <<manager, shape, sdkVars, clientVars, crashed>>

TimeOut(c) ==
    /\ at[c] = "wait" /\ shape[c].waits = "timed" /\ promise[c] = "none"
    /\ Return(c, shape[c].late)
    /\ UNCHANGED <<manager, shape, sdkVars, clientVars, crashed>>

Service(c) == Begin(c) \/ Reject(c) \/ Ask(c) \/ Tell(c) \/ Proceed(c)

-----------------------------------------------------------------------------
(* The threads of the SDK.                                                 *)

Answer(c) ==
    /\ sdk[c] = "owes"
    /\ sdk' = [sdk EXCEPT ![c] = "answering"]
    /\ todo' = [todo EXCEPT ![c] = shape[c].answers]
    /\ \E a \in Answers : answer' = [answer EXCEPT ![c] = a]
    /\ UNCHANGED <<manager, shape, callVars, clientVars, crashed>>

Doing(c, step) == sdk[c] = "answering" /\ todo[c] # <<>> /\ Head(todo[c]) = step
Did(c) == todo' = [todo EXCEPT ![c] = Tail(@)]

\* The call object of a dial is read first; a failed dial may have none.
ReadCall(c) ==
    /\ Doing(c, "call")
    /\ \/ Did(c) /\ UNCHANGED crashed
       \/ answer[c] = "error" /\ crashed' = crashed \cup {c} /\ UNCHANGED todo
    /\ UNCHANGED <<manager, shape, callVars, sdk, answer, clientVars>>

UsesFrame(c) ==
    shape[c].frame = "answer" \/ (shape[c].frame = "error" /\ answer[c] = "error")

\* The promise of a function that returned lives on in the callback, unless it,
\* or what the answer needs to fulfil it, was a local of the function.
SetPromise(c) ==
    /\ Doing(c, "promise") /\ Did(c)
    /\ IF UsesFrame(c) /\ at[c] = "returned"
       THEN stray' = stray \cup {c} /\ UNCHANGED promise
       ELSE promise' = [promise EXCEPT ![c] = answer[c]] /\ UNCHANGED stray
    /\ UNCHANGED <<manager, shape, callVars, sdk, answer, values, heard, told, crashed>>

\* The second promise, which a failed answer may leave without a value.
SetValue(c) ==
    /\ Doing(c, "value") \/ Doing(c, "good value")
    /\ Did(c)
    /\ IF UsesFrame(c) /\ at[c] = "returned"
       THEN stray' = stray \cup {c} /\ UNCHANGED values
       ELSE /\ values' = IF Doing(c, "value") \/ answer[c] = "ok"
                         THEN values \cup {c} ELSE values
            /\ UNCHANGED stray
    /\ UNCHANGED <<manager, shape, callVars, sdk, answer, promise, heard, told, crashed>>

\* Mutant of CallBack: the client is told of the promise instead of the answer.
CallBackFromPromise(c) ==
    /\ Doing(c, "callback") /\ Did(c)
    /\ heard' = [heard EXCEPT ![c] =
                    IF promise[c] # "error" THEN "ok" ELSE promise[c]]
    /\ UNCHANGED <<manager, shape, callVars, sdk, answer, promise, values, told, stray,
                   crashed>>

CallBack(c) ==
    /\ Doing(c, "callback") /\ Did(c)
    /\ heard' = [heard EXCEPT ![c] =
                    IF shape[c].tells = "answer" THEN answer[c] ELSE "ok"]
    /\ UNCHANGED <<manager, shape, callVars, sdk, answer, promise, values, told, stray,
                   crashed>>

Answered(c) ==
    /\ sdk[c] = "answering" /\ todo[c] = <<>>
    /\ sdk' = [sdk EXCEPT ![c] = "done"]
    /\ UNCHANGED <<manager, shape, callVars, todo, answer, clientVars, crashed>>

AnswerStep(c) ==
    ReadCall(c) \/ SetPromise(c) \/ SetValue(c) \/ CallBack(c) \/ Answered(c)

-----------------------------------------------------------------------------
\* Deinit lets the manager go, Init fetches it.
Lifecycle ==
    /\ manager' = ~manager
    /\ UNCHANGED <<shape, callVars, sdkVars, clientVars, crashed>>

CallNext(c) == Service(c) \/ TimeOut(c) \/ Answer(c) \/ AnswerStep(c)

\* The process does not outlive a crash.
Next == crashed = {} /\ (Lifecycle \/ \E c \in Calls : CallNext(c))

\* The service's threads run, a wait with a timeout ends, and the SDK finishes
\* the answers it began; whether it answers at all is up to it.
Fairness ==
    \A c \in Calls :
        /\ WF_vars(crashed = {} /\ Service(c))
        /\ WF_vars(crashed = {} /\ TimeOut(c))
        /\ WF_vars(crashed = {} /\ AnswerStep(c))

Spec == Init /\ [][Next]_vars
FairSpec == Spec /\ Fairness

=============================================================================
