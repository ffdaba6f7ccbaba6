---------------------------- MODULE Requests_proofs ----------------------------
(***************************************************************************)
(* Proofs about two ways to ask the SDK for something: the requests of any  *)
(* shape, for any calls of them, and the request for the call list, which   *)
(* keeps its client in the PA, for any set of requests.                     *)
(***************************************************************************)
EXTENDS RequestShapes, DataCallList, TLAPS


-----------------------------------------------------------------------------
(* The types.                                                              *)

LEMMA ShapeTypes ==
  ASSUME NEW s \in Shapes
  PROVE  /\ s.answers \in Seq(AnswerSteps)
         /\ s.refusal \in {"return", "wait"} /\ s.tells \in {"answer", "ok"}
         /\ s.returns \in {"answer", "ok"} /\ s.late \in {"timeout", "ok"}
         /\ s.frame \in {"none", "error", "answer"}
  BY ShapesAssumption DEF ShapesAssumption, ShapeSet

LEMMA TypeStep == TypeOK /\ [Next]_vars => TypeOK'
<1> SUFFICES ASSUME TypeOK, [Next]_vars PROVE TypeOK'
  OBVIOUS
<1> USE DEF TypeOK, callVars, sdkVars, clientVars, Answers, Results, Places
<1>1. CASE UNCHANGED vars
  BY <1>1 DEF vars
<1>2. CASE Lifecycle
  BY <1>2 DEF Lifecycle
<1>3. ASSUME NEW c \in Calls, CallNext(c) PROVE TypeOK'
  <2>1. CASE Begin(c)   BY <2>1 DEF Begin, Return
  <2>2. CASE Reject(c)  BY <2>2 DEF Reject, Return
  <2>3. CASE Ask(c)     BY <2>3 DEF Ask, Return
  <2>4. CASE Proceed(c)
    <3>1. PICK r \in Answers : Return(c, r)
      BY <2>4 DEF Proceed
    <3> QED
      BY <2>4, <3>1 DEF Proceed, Return
  <2>5. CASE TimeOut(c)
    <3>1. shape[c].late \in Results
      BY ShapeTypes
    <3> QED
      BY <2>5, <3>1 DEF TimeOut, Return
  <2>12. CASE Tell(c)
    <3>1. promise[c] \in Answers
      BY <2>12 DEF Tell
    <3> QED
      BY <2>12, <3>1 DEF Tell
  <2>6. CASE Answer(c)
    <3>1. shape[c].answers \in Seq(AnswerSteps)
      BY ShapeTypes
    <3> QED
      BY <2>6, <3>1 DEF Answer
  <2>7. ASSUME NEW step \in AnswerSteps, Doing(c, step), Did(c)
        PROVE  todo' \in [Calls -> Seq(AnswerSteps)]
    <3>1. todo[c] \in Seq(AnswerSteps) /\ todo[c] # <<>>
      BY <2>7 DEF Doing
    <3>2. Tail(todo[c]) \in Seq(AnswerSteps)
      BY <3>1
    <3> QED
      BY <2>7, <3>2 DEF Did
  <2>8. CASE ReadCall(c)
    <3>1. todo' \in [Calls -> Seq(AnswerSteps)]
      BY <2>7, <2>8 DEF ReadCall, AnswerSteps
    <3> QED
      BY <2>8, <3>1 DEF ReadCall
  <2>9. CASE SetPromise(c)
    <3>1. answer[c] \in Answers \cup {"none"} /\ todo' \in [Calls -> Seq(AnswerSteps)]
      BY <2>7, <2>9 DEF SetPromise, AnswerSteps
    <3> QED
      BY <2>9, <3>1 DEF SetPromise
  <2>10. CASE CallBack(c)
    <3>1. answer[c] \in Answers \cup {"none"} /\ todo' \in [Calls -> Seq(AnswerSteps)]
      BY <2>7, <2>10 DEF CallBack, AnswerSteps
    <3> QED
      BY <2>10, <3>1 DEF CallBack
  <2>11. CASE Answered(c)
    BY <2>11 DEF Answered
  <2>13. CASE SetValue(c)
    <3>1. todo' \in [Calls -> Seq(AnswerSteps)]
      BY <2>7, <2>13 DEF SetValue, AnswerSteps
    <3> QED
      BY <2>13, <3>1 DEF SetValue
  <2> QED
    BY <1>3, <2>1, <2>2, <2>3, <2>4, <2>5, <2>6, <2>8, <2>9, <2>10, <2>11,
       <2>12, <2>13
    DEF CallNext, Service, AnswerStep
<1> QED
  BY <1>1, <1>2, <1>3 DEF Next

\* Type correctness of the requests, whatever the shapes of the functions.
THEOREM TypeCorrect == Spec => []TypeOK
<1>1. Init => TypeOK
  BY DEF Init, TypeOK, Places, Answers, Results
<1> QED
  BY <1>1, TypeStep, PTL DEF Spec

-----------------------------------------------------------------------------
(* What holds of a call between its steps.                                 *)

\* The client is called at most once more, and not once it has been or where the
\* function calls it.
CallsOnce(c) ==
    /\ \A i, j \in DOMAIN todo[c] :
           todo[c][i] = "callback" /\ todo[c][j] = "callback" => i = j
    /\ heard[c] # "none" \/ shape[c].tail =>
           \A i \in DOMAIN todo[c] : todo[c][i] # "callback"

\* An answer belongs to a request the SDK accepted, and the promise has it.
CallInv(c) ==
    /\ at[c] # "returned" <=> result[c] = "none"
    /\ at[c] \in {"new", "ask"} \/ result[c] = "refused" => sdk[c] = "idle"
    /\ sdk[c] \in {"idle", "owes"} <=> answer[c] = "none"
    /\ answer[c] = "none" => heard[c] = "none"
    /\ promise[c] # "none" => promise[c] = answer[c]
    /\ CallsOnce(c)

CallsInv == \A c \in Calls : CallInv(c)

LEMMA Others ==
  ASSUME TypeOK, NEW c \in Calls, CallNext(c), NEW d \in Calls, d # c
  PROVE  /\ at'[d] = at[d] /\ result'[d] = result[d] /\ sdk'[d] = sdk[d]
         /\ todo'[d] = todo[d] /\ answer'[d] = answer[d] /\ promise'[d] = promise[d]
         /\ heard'[d] = heard[d] /\ shape'[d] = shape[d]
  BY DEF CallNext, Service, Begin, Reject, Ask, Tell, Proceed, TimeOut, Answer, AnswerStep,
         ReadCall, SetPromise, SetValue, CallBack, Answered, Return, Did, TypeOK, callVars,
         sdkVars, clientVars

\* A step of an answer takes the first step off the rest.
LEMMA TailCallsOnce ==
  ASSUME TypeOK, NEW c \in Calls, todo[c] # <<>>, Did(c), CallsOnce(c),
         shape'[c] = shape[c],
         \/ heard'[c] = heard[c]
         \/ Head(todo[c]) = "callback"
  PROVE  CallsOnce(c)'
<1>1. todo[c] \in Seq(AnswerSteps) /\ todo'[c] = Tail(todo[c])
  BY DEF TypeOK, Did
<1>2. /\ DOMAIN todo'[c] = 1..(Len(todo[c]) - 1)
      /\ \A i \in DOMAIN todo'[c] : todo'[c][i] = todo[c][i + 1]
      /\ DOMAIN todo[c] = 1..Len(todo[c]) /\ Len(todo[c]) \in Nat \ {0}
      /\ Head(todo[c]) = todo[c][1]
  BY <1>1
<1>3. \A i \in DOMAIN todo'[c] : i + 1 \in DOMAIN todo[c] /\ i + 1 # 1 /\ 1 \in DOMAIN todo[c]
  BY <1>2
<1>4. \A i, j \in DOMAIN todo'[c] :
          todo'[c][i] = "callback" /\ todo'[c][j] = "callback" => i = j
  <2> TAKE i, j \in DOMAIN todo'[c]
  <2> HAVE todo'[c][i] = "callback" /\ todo'[c][j] = "callback"
  <2>1. i \in Nat /\ j \in Nat
    BY <1>2
  <2>2. todo[c][i + 1] = "callback" /\ todo[c][j + 1] = "callback"
    BY <1>2
  <2>3. i + 1 = j + 1
    BY <1>3, <2>2 DEF CallsOnce
  <2> QED
    BY <2>1, <2>3
<1>5. heard'[c] # "none" \/ shape'[c].tail => \A i \in DOMAIN todo'[c] : todo'[c][i] # "callback"
  BY <1>2, <1>3 DEF CallsOnce
<1> QED
  BY <1>4, <1>5 DEF CallsOnce

LEMMA CallsStep == TypeOK /\ CallsInv /\ [Next]_vars => CallsInv'
<1> SUFFICES ASSUME TypeOK, CallsInv, [Next]_vars PROVE CallsInv'
  OBVIOUS
<1> USE DEF callVars, sdkVars, clientVars
<1>1. CASE UNCHANGED vars
  BY <1>1 DEF vars, CallsInv, CallInv, CallsOnce
<1>2. CASE Lifecycle
  BY <1>2 DEF Lifecycle, CallsInv, CallInv, CallsOnce
<1>3. ASSUME NEW c \in Calls, CallNext(c) PROVE CallInv(c)'
  <2> CallInv(c)
    BY DEF CallsInv
  <2>1. CASE Begin(c) \/ Reject(c) \/ Ask(c)
    BY <2>1 DEF Begin, Reject, Ask, Return, TypeOK, CallInv, CallsOnce
  <2>2. CASE Proceed(c) \/ TimeOut(c)
    <3>1. shape[c].late \in {"timeout", "ok"}
      BY ShapeTypes DEF TypeOK
    <3> QED
      BY <2>2, <3>1 DEF Proceed, TimeOut, Return, TypeOK, Answers, CallInv, CallsOnce
  <2>8. CASE Tell(c)
    <3>1. promise[c] \in Answers /\ shape[c].tail /\ UNCHANGED <<todo, shape>>
      BY <2>8 DEF Tell, TypeOK
    <3> QED
      BY <2>8, <3>1 DEF Tell, TypeOK, CallInv, CallsOnce
  <2>3. CASE Answer(c)
    <3>1. heard[c] = "none" /\ todo'[c] = shape[c].answers /\ UNCHANGED <<heard, shape>>
      BY <2>3 DEF Answer, CallInv, TypeOK
    <3>2. CallsOnce(c)'
      BY <3>1, ShapesAssumption DEF ShapesAssumption, CallsOnce, TypeOK
    <3> QED
      BY <2>3, <3>2 DEF Answer, Answers, CallInv, TypeOK
  <2>4. CASE ReadCall(c)
    <3>1. CallsOnce(c)'
      BY <2>4, TailCallsOnce DEF ReadCall, Doing, CallInv, CallsOnce
    <3> QED
      BY <2>4, <3>1 DEF ReadCall, CallInv
  <2>5. CASE SetPromise(c)
    <3>1. CallsOnce(c)'
      BY <2>5, TailCallsOnce DEF SetPromise, Doing, CallInv
    <3> QED
      BY <2>5, <3>1 DEF SetPromise, CallInv, TypeOK
  <2>6. CASE CallBack(c)
    <3>1. CallsOnce(c)'
      BY <2>6, TailCallsOnce DEF CallBack, Doing, CallInv
    <3> QED
      BY <2>6, <3>1 DEF CallBack, Doing, CallInv, TypeOK
  <2>7. CASE Answered(c)
    BY <2>7 DEF Answered, CallInv, CallsOnce, TypeOK
  <2>9. CASE SetValue(c)
    <3>1. CallsOnce(c)'
      BY <2>9, TailCallsOnce DEF SetValue, Doing, CallInv
    <3> QED
      BY <2>9, <3>1 DEF SetValue, CallInv
  <2> QED
    BY <1>3, <2>1, <2>2, <2>3, <2>4, <2>5, <2>6, <2>7, <2>8, <2>9
    DEF CallNext, Service, AnswerStep
<1>4. ASSUME NEW c \in Calls, CallNext(c), NEW d \in Calls, d # c PROVE CallInv(d)'
  BY <1>4, Others DEF CallsInv, CallInv, CallsOnce
<1> QED
  BY <1>1, <1>2, <1>3, <1>4 DEF Next, CallsInv

LEMMA CallsInit == Init => CallsInv
<1> SUFFICES ASSUME Init, NEW c \in Calls PROVE CallInv(c)
  BY DEF CallsInv
<1>1. todo[c] = <<>> /\ DOMAIN todo[c] = {}
  BY DEF Init
<1> QED
  BY <1>1 DEF Init, CallInv, CallsOnce

-----------------------------------------------------------------------------
(* The commands of the eCall PA call their client before they return.      *)

LEMMA CommandShape ==
  ASSUME NEW s \in Commands
  PROVE  /\ s.waits = "timed" /\ s.answers = <<"callback", "promise">>
         /\ s.tells = "answer" /\ s.returns = "answer"
         /\ s.late = "timeout" /\ ~s.tail
  BY DEF Commands, taf_pa_ecall_UpdateMsd, taf_pa_ecall_Answer, taf_pa_ecall_Hangup,
         taf_pa_ecall_Reject, Command, SendOnly, CommandCallback

\* The promise is fulfilled by the second step of the answer.
CommandInv(c) ==
    shape[c] \in Commands =>
        /\ sdk[c] = "answering" =>
             \/ todo[c] = <<"callback", "promise">>
             \/ heard[c] = answer[c] /\ todo[c] \in {<<"promise">>, <<>>}
        /\ promise[c] # "none" => heard[c] = promise[c]
        /\ result[c] \in Answers => heard[c] = result[c]

CommandsInv == \A c \in Calls : CommandInv(c)

LEMMA CommandsStep == TypeOK /\ CallsInv /\ CommandsInv /\ [Next]_vars => CommandsInv'
<1> SUFFICES ASSUME TypeOK, CallsInv, CommandsInv, [Next]_vars PROVE CommandsInv'
  OBVIOUS
<1> USE DEF callVars, sdkVars, clientVars
<1>0. UNCHANGED shape
  BY DEF Next, Lifecycle, CallNext, Service, Begin, Reject, Ask, Tell, Proceed, TimeOut,
         Answer, AnswerStep, ReadCall, SetPromise, SetValue, CallBack, Answered, vars
<1>1. CASE UNCHANGED vars
  BY <1>1 DEF vars, CommandsInv, CommandInv
<1>2. CASE Lifecycle
  BY <1>2 DEF Lifecycle, CommandsInv, CommandInv
<1>3. ASSUME NEW c \in Calls, CallNext(c) PROVE CommandInv(c)'
  <2> SUFFICES ASSUME shape[c] \in Commands PROVE CommandInv(c)'
    BY <1>0 DEF CommandInv
  <2>0. CommandInv(c) /\ CallInv(c)
    BY DEF CommandsInv, CallsInv
  <2>1. CASE Begin(c) \/ Reject(c) \/ Ask(c)
    BY <2>0, <2>1 DEF Begin, Reject, Ask, Return, TypeOK, CommandInv, CallInv, Answers
  <2>8. CASE Tell(c)
    BY <2>8, CommandShape DEF Tell
  <2>2. CASE Proceed(c) \/ TimeOut(c)
    BY <2>0, <2>2, CommandShape
    DEF Proceed, TimeOut, Return, TypeOK, CommandInv, Answers
  <2>3. CASE Answer(c)
    <3>1. /\ todo'[c] = <<"callback", "promise">>
          /\ UNCHANGED <<heard, promise, result>>
      BY <2>3, CommandShape DEF Answer, TypeOK
    <3> QED
      BY <1>0, <2>0, <3>1 DEF CommandInv
  <2>4. CASE ReadCall(c)
    BY <2>0, <2>4 DEF ReadCall, Doing, CommandInv
  <2>5. CASE SetPromise(c)
    <3>1. todo[c] = <<"promise">> /\ heard[c] = answer[c]
      BY <2>0, <2>5 DEF SetPromise, Doing, CommandInv
    <3>2. todo'[c] = <<>>
      BY <2>5, <3>1 DEF SetPromise, Did, TypeOK
    <3> QED
      BY <1>0, <2>0, <2>5, <3>1, <3>2 DEF SetPromise, CommandInv, TypeOK
  <2>6. CASE CallBack(c)
    <3>1. todo[c] = <<"callback", "promise">>
      BY <2>0, <2>6 DEF CallBack, Doing, CommandInv
    <3>2. todo'[c] = <<"promise">>
      BY <2>6, <3>1 DEF CallBack, Did, TypeOK
    <3>3. heard'[c] = answer[c]
      BY <2>6, CommandShape DEF CallBack, TypeOK
    <3>4. heard[c] = "none"
      BY <2>0, <3>1 DEF CallInv, CallsOnce
    <3>5. promise[c] = "none" /\ result[c] \notin Answers
      BY <2>0, <3>4 DEF CommandInv, Answers
    <3> QED
      BY <1>0, <2>6, <3>2, <3>3, <3>5 DEF CallBack, CommandInv
  <2>7. CASE Answered(c)
    BY <2>0, <2>7 DEF Answered, CommandInv, TypeOK
  <2>9. CASE SetValue(c)
    <3>1. sdk[c] = "answering" /\ todo[c] # <<>> /\ Head(todo[c]) \in {"value", "good value"}
      BY <2>9 DEF SetValue, Doing
    <3>2. todo[c] \in {<<"callback", "promise">>, <<"promise">>}
      BY <2>0, <3>1 DEF CommandInv
    <3>3. Head(<<"callback", "promise">>) = "callback" /\ Head(<<"promise">>) = "promise"
      OBVIOUS
    <3> QED
      BY <3>1, <3>2, <3>3
  <2> QED
    BY <1>3, <2>1, <2>2, <2>3, <2>4, <2>5, <2>6, <2>7, <2>8, <2>9
    DEF CallNext, Service, AnswerStep
<1>4. ASSUME NEW c \in Calls, CallNext(c), NEW d \in Calls, d # c PROVE CommandInv(d)'
  BY <1>0, <1>4, Others DEF CommandsInv, CommandInv
<1> QED
  BY <1>1, <1>2, <1>3, <1>4 DEF Next, CommandsInv

\* A command of the eCall PA that returns the SDK's answer has told its client
\* the same before (CommandCallback), whatever other requests are under way.
THEOREM ClientsHearFirst == Spec => []HeardBeforeReturn
<1>1. Init => CommandsInv
  BY DEF Init, CommandsInv, CommandInv, Answers
<1>2. CommandsInv => HeardBeforeReturn
  BY DEF CommandsInv, CommandInv, HeardBeforeReturn
<1> QED
  BY <1>1, <1>2, TypeCorrect, CallsInit, CallsStep, CommandsStep, PTL DEF Spec

-----------------------------------------------------------------------------
(* Crashes.                                                                *)

LEMMA SendShape ==
  ASSUME NEW s \in Sends
  PROVE  s = SendOnly
  BY DEF Sends, taf_pa_ecall_UpdateMsdPdu, taf_pa_ecall_UpdateHlapTimer,
         taf_pa_ecall_RequestHlapTimer, taf_pa_ecall_SetEcallRedial,
         taf_pa_ecall_RestartHlapTimer, taf_pa_ecall_RequestNetworkDeregistration

LEMMA KeeperShapes ==
  ASSUME NEW s \in Commands \cup Sends \cup Dials
  PROVE  s.checks /\ s.keeps
<1>1. CASE s \in Commands
  BY <1>1 DEF Commands, taf_pa_ecall_UpdateMsd, taf_pa_ecall_Answer,
              taf_pa_ecall_Hangup, taf_pa_ecall_Reject, Command, SendOnly
<1>2. CASE s \in Sends
  BY <1>2, SendShape DEF SendOnly
<1>3. CASE s \in Dials
  BY <1>3 DEF Dials, taf_pa_ecall_MakeECall, taf_pa_ecall_MakeECallPdu,
              taf_pa_ecall_MakeECallNumber, SendOnly
<1> QED
  BY <1>1, <1>2, <1>3

\* A send only calls its client.
SendsInv == \A c \in Calls :
    shape[c] \in Sends /\ sdk[c] = "answering" => todo[c] \in {<<"callback">>, <<>>}

LEMMA SendsStep == TypeOK /\ SendsInv /\ [Next]_vars => SendsInv'
<1> SUFFICES ASSUME TypeOK, SendsInv, [Next]_vars PROVE SendsInv'
  OBVIOUS
<1> USE DEF SendsInv, callVars, sdkVars, clientVars
<1>1. CASE UNCHANGED vars
  BY <1>1 DEF vars
<1>2. CASE Lifecycle
  BY <1>2 DEF Lifecycle
<1>3. ASSUME NEW c \in Calls, CallNext(c) PROVE SendsInv'
  <2>1. CASE Begin(c) \/ Reject(c) \/ Ask(c) \/ Tell(c) \/ Proceed(c) \/ TimeOut(c)
    BY <2>1 DEF Begin, Reject, Ask, Tell, Proceed, TimeOut, TypeOK
  <2>2. CASE Answer(c)
    <3>1. shape[c] \in Sends => shape[c].answers = <<"callback">>
      BY SendShape DEF SendOnly
    <3> QED
      BY <2>2, <3>1 DEF Answer, TypeOK
  <2>3. CASE ReadCall(c) \/ SetPromise(c) \/ SetValue(c) \/ CallBack(c)
    <3>1. sdk[c] = "answering" /\ UNCHANGED <<shape, sdk>> /\ todo[c] # <<>>
      BY <2>3 DEF ReadCall, SetPromise, SetValue, CallBack, Doing
    <3>2. UNCHANGED todo \/ Did(c)
      BY <2>3 DEF ReadCall, SetPromise, SetValue, CallBack
    <3> QED
      BY <3>1, <3>2 DEF Did, TypeOK
  <2>4. CASE Answered(c)
    BY <2>4 DEF Answered, TypeOK
  <2> QED
    BY <1>3, <2>1, <2>2, <2>3, <2>4 DEF CallNext, Service, AnswerStep
<1> QED
  BY <1>1, <1>2, <1>3 DEF Next

LEMMA SurviveStep ==
  ASSUME TypeOK, CommandsInv, SendsInv, CommandsSurvive, [Next]_vars
  PROVE  CommandsSurvive'
<1>1. CASE UNCHANGED vars
  BY <1>1 DEF vars, sdkVars, CommandsSurvive
<1>2. CASE Lifecycle
  BY <1>2 DEF Lifecycle, sdkVars, CommandsSurvive
<1>3. ASSUME NEW c \in Calls, CallNext(c), crashed = {} PROVE CommandsSurvive'
  <2>1. UNCHANGED shape
    BY <1>3 DEF CallNext, Service, Begin, Reject, Ask, Tell, Proceed, TimeOut, Answer,
                AnswerStep, ReadCall, SetPromise, SetValue, CallBack, Answered
  <2>2. CASE Begin(c)
    BY <1>3, <2>1, <2>2, KeeperShapes DEF Begin, CommandsSurvive
  <2>3. CASE Ask(c)
    BY <1>3, <2>1, <2>3, KeeperShapes DEF Ask, CommandsSurvive
  <2>4. CASE ReadCall(c)
    <3>1. CASE UNCHANGED crashed
      BY <1>3, <3>1 DEF CommandsSurvive
    <3>2. CASE answer[c] = "error" /\ crashed' = crashed \cup {c}
      <4>1. shape[c] \notin Sends
        BY <2>4 DEF ReadCall, Doing, SendsInv
      <4>2. shape[c] \notin Commands
        BY <2>4 DEF ReadCall, Doing, CommandsInv, CommandInv
      <4>3. UNCHANGED answer
        BY <2>4 DEF ReadCall
      <4> QED
        BY <1>3, <2>1, <3>2, <4>1, <4>2, <4>3 DEF CommandsSurvive
    <3> QED
      BY <2>4, <3>1, <3>2 DEF ReadCall
  <2>5. CASE Reject(c) \/ Tell(c) \/ Proceed(c) \/ TimeOut(c) \/ Answer(c) \/ SetPromise(c)
             \/ SetValue(c) \/ CallBack(c) \/ Answered(c)
    BY <1>3, <2>5 DEF Reject, Tell, Proceed, TimeOut, Answer, SetPromise, SetValue, CallBack,
                      Answered, CommandsSurvive
  <2> QED
    BY <1>3, <2>2, <2>3, <2>4, <2>5 DEF CallNext, Service, AnswerStep
<1> QED
  BY <1>1, <1>2, <1>3 DEF Next

\* No Deinit and no answer ends the process inside a command or a send of the
\* eCall PA, and inside a dial only its failed answer does.
THEOREM ECallSurvives == Spec => []CommandsSurvive
<1>1. Init => CommandsInv /\ SendsInv /\ CommandsSurvive
  BY DEF Init, CommandsInv, CommandInv, SendsInv, CommandsSurvive, Answers
<1>2. TypeOK /\ CommandsInv /\ SendsInv /\ CommandsSurvive /\ [Next]_vars
      => CommandsSurvive'
  BY SurviveStep
<1> QED
  BY <1>1, <1>2, TypeCorrect, CallsInit, CallsStep, CommandsStep, SendsStep, PTL
  DEF Spec

-----------------------------------------------------------------------------
(* The locals of a function and its answer.                                *)

\* The functions whose answer uses their locals.
FrameUsers == CardRequests \cup {taf_pa_nat_QueryDestNatEntryList} \cup LocationRequests

LEMMA CardRequestShape ==
  ASSUME NEW s \in CardRequests
  PROVE  /\ s.answers = <<"promise", "callback">> /\ s.waits = "timed" /\ s.late = "timeout"
         /\ s.returns = "answer" /\ s.tells = "answer"
BY DEF CardRequests, taf_pa_sap_OpenConnection, CardRequest, taf_pa_sap_CloseConnection,
       taf_pa_sap_TransmitApdu, taf_pa_sap_RequestAtr, taf_pa_sap_RequestCardReaderStatus,
       taf_pa_sap_RequestState, taf_pa_remotesim_SendConnectionAvailable,
       taf_pa_remotesim_SendConnectionUnavailable, taf_pa_remotesim_SendApdu,
       taf_pa_remotesim_SendCardReset, taf_pa_remotesim_SendCardInserted,
       taf_pa_remotesim_SendCardRemoved, taf_pa_remotesim_SendCardError,
       taf_pa_remotesim_SendCardWakeup, taf_pa_remotesim_SendReset

LEMMA LocationRequestShape ==
  ASSUME NEW s \in LocationRequests
  PROVE  /\ s.answers = <<"promise">> /\ s.waits = "timed" /\ s.late = "ok" /\ s.tail
         /\ s.frame = "answer" => s \in Queries
         /\ s.frame # "none" /\ s.tells = "answer"
<1>1. CASE s \in ConfigRequests
  BY <1>1
  DEF ConfigRequests, taf_pa_location_configureConstellations, ConfigRequest,
      taf_pa_location_deleteAidingData, taf_pa_location_deleteAllAidingData,
      taf_pa_location_configureMinSVElevation, taf_pa_location_configureNmeaTypes,
      taf_pa_location_configureDR, taf_pa_location_configureEngineState,
      taf_pa_location_configureRobustLocation, taf_pa_location_configureSecondaryBand,
      taf_pa_location_configureLeverArm, taf_pa_location_configureMinGpsWeek,
      taf_pa_location_configureNmea, taf_pa_location_injectMerkleTreeInformation,
      taf_pa_location_configureOsnma, taf_pa_location_configureEngineIntegrityRisk
<1>2. CASE s \in Queries
  BY <1>2
  DEF Queries, taf_pa_location_requestMinSVElevation, Query, ConfigRequest,
      taf_pa_location_requestRobustLocation, taf_pa_location_requestSecondaryBandConfig,
      taf_pa_location_requestMinGpsWeek, taf_pa_location_requestXtraStatus
<1>3. CASE s \in ReportRequests
  BY <1>3
  DEF ReportRequests, taf_pa_location_startDetailedEngineReports, ReportRequest,
      ConfigRequest, taf_pa_location_stopReports
<1> QED
  BY <1>1, <1>2, <1>3 DEF LocationRequests

LEMMA NatQueryShape ==
  ASSUME NEW s, s = taf_pa_nat_QueryDestNatEntryList
  PROVE  /\ s.answers = <<"promise", "value">> /\ s.waits = "timed" /\ s.late = "timeout"
         /\ s.returns = "answer" /\ s.needs = "value if ok" /\ ~ s.tail
BY DEF taf_pa_nat_QueryDestNatEntryList, taf_pa_net_QueryVlanInfo, NetRequest

HasCallback(s) ==
    s.answers \in {<<"callback">>, <<"callback", "promise">>, <<"promise", "callback">>,
                   <<"call", "callback", "promise">>, <<"call", "promise", "callback">>}

\* The function returns what it waited for, or that it waited in vain.
ReturnsAnswer(s) == s.waits # "no" /\ s.returns = "answer" /\ s.late = "timeout"

\* The decisions that let a failure be heard, by the callback or by the caller.
Hears(s) ==
    /\ s.tells = "answer"
    /\ s.answers = <<>> \/ HasCallback(s) \/ ReturnsAnswer(s)

Plain(s) == s.frame = "none" /\ Hears(s)

\* What the functions that lose or colour a failure have in common.
LEMMA DeafShape ==
  ASSUME NEW s \in CheerfulCommands \cup EmptyOnFailure
  PROVE  /\ s.frame = "none"
         /\ s \in CheerfulCommands => ReturnsAnswer(s) /\ s.tells = "ok"
         /\ s \in EmptyOnFailure => s.tells = "answer"
<1>1. CASE s \in CheerfulCommands
  <2>1. s = VoiceCommand
    BY <1>1
    DEF CheerfulCommands, VoiceCommands, taf_pa_voicecall_Stop, taf_pa_voicecall_Hold,
        taf_pa_voicecall_Resume, taf_pa_voicecall_Answer, taf_pa_voicecall_Swap
  <2>2. VoiceCommand.frame = "none" /\ ReturnsAnswer(VoiceCommand) /\ VoiceCommand.tells = "ok"
    BY DEF VoiceCommand, ReturnsAnswer
  <2>3. s \notin EmptyOnFailure
    <3>1. /\ taf_pa_sms_RequestSmsMessageList.tells = "answer"
          /\ taf_pa_sms_RequestMessageFilters.tells = "answer"
      BY DEF taf_pa_sms_RequestSmsMessageList, taf_pa_sms_RequestMessageFilters, SmsRequest
    <3>2. taf_pa_net_RequestL2tpConfig.tells = "answer"
      BY DEF taf_pa_net_RequestL2tpConfig, NetRequest
    <3> QED
      BY <2>1, <2>2, <3>1, <3>2 DEF EmptyOnFailure
  <2> QED
    BY <2>1, <2>2, <2>3
<1>2. CASE s \in EmptyOnFailure
  <2>1. ASSUME s \in {taf_pa_sms_RequestSmsMessageList, taf_pa_sms_RequestMessageFilters}
        PROVE  s.frame = "none" /\ s.tells = "answer"
    BY <2>1
    DEF taf_pa_sms_RequestSmsMessageList, taf_pa_sms_RequestMessageFilters, SmsRequest
  <2>2. ASSUME s = taf_pa_net_RequestL2tpConfig
        PROVE  s.frame = "none" /\ s.tells = "answer"
    BY <2>2 DEF taf_pa_net_RequestL2tpConfig, NetRequest
  <2>3. s.frame = "none" /\ s.tells = "answer"
    BY <1>2, <2>1, <2>2 DEF EmptyOnFailure
  <2> QED
    BY <1>1, <2>3
<1> QED
  BY <1>1, <1>2

\* No other function of the PAs lets its answer use its locals, or does not let
\* its client hear of a failure.
LEMMA PlainShapes ==
  ASSUME NEW s \in PaRequests
  PROVE  Plain(s) \/ s \in FrameUsers \cup CheerfulCommands \cup EmptyOnFailure
<1> USE DEF Hears, HasCallback, ReturnsAnswer
<1>1. ASSUME s \in Commands PROVE Plain(s)
  BY <1>1
  DEF Plain, Commands, taf_pa_ecall_UpdateMsd, Command, SendOnly, CommandCallback,
      taf_pa_ecall_Answer, taf_pa_ecall_Hangup, taf_pa_ecall_Reject
<1>2. ASSUME s \in Sends PROVE Plain(s)
  BY <1>2
  DEF Plain, Sends, taf_pa_ecall_UpdateMsdPdu, SendOnly, taf_pa_ecall_UpdateHlapTimer,
      taf_pa_ecall_RequestHlapTimer, taf_pa_ecall_SetEcallRedial,
      taf_pa_ecall_RestartHlapTimer, taf_pa_ecall_RequestNetworkDeregistration
<1>3. ASSUME s \in PhoneRequests PROVE Plain(s)
  BY <1>3
  DEF Plain, PhoneRequests, taf_pa_ecall_SetOpMode, SendOnly, taf_pa_ecall_GetOpMode,
      taf_pa_ecall_RequestHlapTimerStatus
<1>4. ASSUME s \in Dials PROVE Plain(s)
  BY <1>4
  DEF Plain, Dials, taf_pa_ecall_MakeECall, SendOnly, MakeCallCallback, taf_pa_ecall_MakeECallPdu,
      DialLambda, taf_pa_ecall_MakeECallNumber
<1>5. ASSUME s \in VoiceCommands PROVE Plain(s) \/ s \in CheerfulCommands
  <2>1. Plain(taf_pa_voicecall_Make)
    BY DEF Plain, taf_pa_voicecall_Make, VoiceCommand
  <2> QED
    BY <1>5, <2>1 DEF CheerfulCommands
<1>6. ASSUME s \in SmsRequests PROVE Plain(s) \/ s \in EmptyOnFailure
  <2>1. Plain(SmsRequest)
    BY DEF Plain, SmsRequest
  <2>2. Plain(taf_pa_sms_GetSmsCenterAddress)
    BY DEF Plain, taf_pa_sms_GetSmsCenterAddress, SmsRequest, tafSmscAddressCallback
  <2>3. Plain(taf_pa_sms_SendPDUMessageAsync)
    BY DEF Plain, taf_pa_sms_SendPDUMessageAsync, SmsRequest
  <2> QED
    BY <1>6, <2>1, <2>2, <2>3
    DEF SmsRequests, EmptyOnFailure, taf_pa_sms_SetActivationStatus, taf_pa_sms_SetSmsCenterAddress,
        taf_pa_sms_GetPreferredStorage, taf_pa_sms_SetPreferredStorage,
        taf_pa_sms_ReadMessage, taf_pa_sms_SendRawSms, taf_pa_sms_SetTag,
        taf_pa_sms_DeleteMessage, tafSmscAddressCallback
<1>7. ASSUME s \in SimRequests PROVE Plain(s)
  <2>1. Plain(CardLookUp)
    BY DEF Plain, CardLookUp
  <2>2. Plain(taf_pa_sim_IsSubsystemReady)
    BY DEF Plain, taf_pa_sim_IsSubsystemReady, CardLookUp
  <2>3. Plain(SlotLookUp)
    BY DEF Plain, SlotLookUp, CardLookUp
  <2>4. Plain(SubscriptionLookUp)
    BY DEF Plain, SubscriptionLookUp, SlotLookUp, CardLookUp
  <2>5. Plain(taf_pa_sim_SetPower)
    BY DEF Plain, taf_pa_sim_SetPower, CardLookUp
  <2>6. Plain(taf_pa_sim_GetEID)
    BY DEF Plain, taf_pa_sim_GetEID, taf_pa_sim_SetPower, CardLookUp
  <2> QED
    BY <1>7, <2>1, <2>2, <2>3, <2>4, <2>5, <2>6
    DEF SimRequests, taf_pa_sim_getSlotCount, taf_pa_sim_GetCarrierName,
        taf_pa_sim_IsNtnProfileActive, taf_pa_sim_GetHomeNetworkMccMnc,
        taf_pa_sim_GetHomeNetworkMccMncStr
<1>8. ASSUME s \in NtnRequests PROVE Plain(s)
  <2>1. Plain(NtnLookUp)
    BY DEF Plain, NtnLookUp, CardLookUp
  <2>2. Plain(CardLookUp)
    BY DEF Plain, CardLookUp
  <2>3. Plain(taf_pa_ntn_GetNtnState)
    BY DEF Plain, taf_pa_ntn_GetNtnState, NtnLookUp, CardLookUp
  <2> QED
    BY <1>8, <2>1, <2>2, <2>3
    DEF NtnRequests, taf_pa_ntn_IsNtnSupported, taf_pa_ntn_GetNtnCapabilities,
        taf_pa_ntn_GetSignalStrength, taf_pa_ntn_SendData,
        taf_pa_ntn_UpdateSystemSelectionSpecifiers, taf_pa_ntn_SetLocationFix,
        taf_pa_ntn_EnableNtn, NtnSwitch, taf_pa_ntn_EnableCellularScan,
        taf_pa_ntn_AbortData, taf_pa_ntn_LocationFixResponse
<1>9. ASSUME s \in WlanRequests PROVE Plain(s)
  <2>1. Plain(DeviceLookUp)
    BY DEF Plain, DeviceLookUp
  <2>2. Plain(Wlan_getBandInterferenceConfig)
    BY DEF Plain, Wlan_getBandInterferenceConfig, DeviceLookUp
  <2> QED
    BY <1>9, <2>1, <2>2
    DEF WlanRequests, Wlan_getStatus, Wlan_setDeviceMode, Wlan_getDeviceMode,
        Wlan_setStaBridgeMode, Wlan_getStaBridgeMode, Wlan_setStaIpType,
        Wlan_setStaIpConfig, Wlan_getStaIpConfig, Wlan_setBandInterferenceConfig
<1>10. ASSUME s \in PowerRequests PROVE Plain(s)
  BY <1>10
  DEF Plain, PowerRequests, taf_pa_pms_GetAllMachineNames, PowerLookUp, DeviceLookUp,
      taf_pa_pms_SendAckForStateUpdate, taf_pa_pms_SetPowerStateAsMaster
<1>11. ASSUME s \in ThermalRequests PROVE Plain(s)
  BY <1>11
  DEF Plain, ThermalRequests, taf_pa_therm_GetThermalZones, DeviceLookUp,
      taf_pa_therm_GetThermalZoneById, taf_pa_therm_GetThermalZoneByName,
      taf_pa_therm_GetTripPoints, taf_pa_therm_GetBoundCoolingDevices,
      taf_pa_therm_GetCoolingDevices, taf_pa_therm_GetCoolingDeviceById,
      taf_pa_therm_GetCoolingDeviceByName
<1>12. ASSUME s \in SensorRequests PROVE Plain(s)
  BY <1>12
  DEF Plain, SensorRequests, taf_pa_sensor_SetConfig, SensorLookUp, DeviceLookUp,
      taf_pa_sensor_SetEulerAngle, taf_pa_sensor_SelfTestAsync, SelfTest
<1>13. ASSUME s \in DataRequests PROVE Plain(s)
  <2>1. Plain(SlotRequest)
    BY DEF Plain, SlotRequest
  <2>2. Plain(ThroughputLookUp)
    BY DEF Plain, ThroughputLookUp, SlotRequest
  <2> QED
    BY <1>13, <2>1, <2>2
    DEF DataRequests, PaGetDefaultProfile, PaSetDefaultProfile, paGetThrottledApnInfo,
        PaCreateProfile, PaUpdateProfile, PaDeleteProfile, PaGetServiceStatus,
        PaSetThroughputReportInterval, PaGetLastThroughputInfo
<1>14. ASSUME s \in RadioRequests PROVE Plain(s)
  <2>1. Plain(AsksRadio(<<"promise">>))
    BY DEF Plain, AsksRadio, RadioRequest
  <2>2. Plain([AsksRadio(<<"promise">>) EXCEPT !.keeps = TRUE])
    BY DEF Plain, AsksRadio, RadioRequest
  <2>3. Plain(RadioLookUp)
    BY DEF Plain, RadioLookUp, RadioRequest
  <2> QED
    BY <1>14, <2>1, <2>2, <2>3
    DEF RadioRequests, taf_pa_radio_SetOperatingMode, taf_pa_radio_SetPreferredRat,
        taf_pa_radio_SetServiceDomainPreferences, taf_pa_radio_SetSignalStrengthInd,
        taf_pa_radio_SetBandPreferences, taf_pa_radio_SetLteBandPreferences,
        taf_pa_radio_SetImsUserAgent, taf_pa_radio_GetOperatingMode,
        taf_pa_radio_GetPreferredRat, taf_pa_radio_GetServiceDomainPreferences,
        taf_pa_radio_GetVoiceServiceInfo, taf_pa_radio_GetSignalStrengthLevel,
        taf_pa_radio_GetSignalStrengthInfo, taf_pa_radio_GetDataServiceState,
        taf_pa_radio_GetCellLocationListInfo, taf_pa_radio_GetCurrNetworkName,
        taf_pa_radio_GetBandCapabilities, taf_pa_radio_GetLteBandCapabilities,
        taf_pa_radio_GetBandPreferences, taf_pa_radio_GetLteBandPreferences,
        taf_pa_radio_GetImsRegistrationStatus, taf_pa_radio_GetImsServiceStatus,
        taf_pa_radio_GetImsPdpFailureErrorCode, taf_pa_radio_GetImsUserAgent,
        taf_pa_radio_GetSimCapacityInfo, taf_pa_radio_GetDeviceAndSimCardRatCapability,
        taf_pa_radio_GetServingCellBandInfo, taf_pa_radio_GetNrIcon,
        taf_pa_radio_GetNetworkSelectionPreference, taf_pa_radio_GetPreferredNetwork,
        taf_pa_radio_GetServiceDomain, taf_pa_radio_GetLteCsCapability,
        taf_pa_radio_GetEndcAvailability, taf_pa_radio_GetDcnrRestriction,
        taf_pa_radio_GetServingRat, taf_pa_radio_GetRatSvcStatus,
        taf_pa_radio_GetSmsCapability,
        CommonResponse, operatingModeResponse, RatPreferenceResponse,
        ServiceDomainPreferenceResponse, voiceServiceStateResponse,
        signalStrengthResponse, DataServiceStatusResponse, CellInfoListResponse,
        OperatorInfoResponse, RfBandCapabilityResponse, RfBandPreferenceResponse,
        ImsRegistrationInfoResponse, ImsServiceInfoResponse, ImsPdpStatusResponse,
        ImsSigUserAgentResponse, cellularCapabilityResponse, RFBandInfoResponse,
        NrIconTypeResponse, NetworkModeInfoResponse, PreferredNetworksResponse
<1>15. ASSUME s \in AudioRequests PROVE Plain(s)
  <2>1. Plain(StreamRequest)
    BY DEF Plain, StreamRequest, CommandResponse
  <2>2. Plain([StreamRequest EXCEPT !.voiced = TRUE])
    BY DEF Plain, StreamRequest, CommandResponse
  <2>3. Plain([PlayerRequest EXCEPT !.voiced = TRUE])
    BY DEF Plain, PlayerRequest, StreamRequest
  <2>4. Plain([StreamRequest EXCEPT !.answers = CommandResponse])
    BY DEF Plain, StreamRequest, CommandResponse
  <2>5. Plain([StreamRequest EXCEPT !.answers = CommandResponse, !.voiced = TRUE])
    BY DEF Plain, StreamRequest, CommandResponse
  <2> QED
    BY <1>15, <2>1, <2>2, <2>3, <2>4, <2>5
    DEF AudioRequests, setVolume, getVolume, getMute, setMute, playDtmf, stopDtmf,
        playSignallingDtmfOnTx, stopSignallingDtmfOnTx
<1>16. ASSUME s \in NetRequests PROVE Plain(s) \/ s = taf_pa_nat_QueryDestNatEntryList \/ s \in EmptyOnFailure
  <2>1. Plain(NetRequest)
    BY DEF Plain, NetRequest
  <2>2. Plain(CheckedNetRequest)
    BY DEF Plain, CheckedNetRequest, NetRequest
  <2>3. Plain(taf_pa_net_QueryVlanInfo)
    BY DEF Plain, taf_pa_net_QueryVlanInfo, NetRequest
  <2>4. Plain(taf_pa_net_QueryVlanToBackhaulMappingList)
    BY DEF Plain, taf_pa_net_QueryVlanToBackhaulMappingList, taf_pa_net_QueryVlanInfo, NetRequest
  <2>5. taf_pa_net_RequestL2tpConfig \in EmptyOnFailure
    BY DEF EmptyOnFailure
  <2>6. Plain(taf_pa_net_SetBackhaulPreference)
    BY DEF Plain, taf_pa_net_SetBackhaulPreference, CheckedNetRequest, NetRequest
  <2>7. Plain(taf_pa_net_GetBackhaulPreference)
    BY DEF Plain, taf_pa_net_GetBackhaulPreference, NetRequest
  <2>8. Plain(SettingsLookUp)
    BY DEF Plain, SettingsLookUp, NetRequest
  <2>9. Plain(CheckedLookUp)
    BY DEF Plain, CheckedLookUp, SettingsLookUp, NetRequest
  <2> QED
    BY <1>16, <2>1, <2>2, <2>3, <2>4, <2>5, <2>6, <2>7, <2>8, <2>9
    DEF NetRequests, taf_pa_net_AddVlanInterface, taf_pa_net_RemoveVlanInterface,
        taf_pa_net_BindWithBackhaul, taf_pa_net_UnbindWithBackhaul,
        taf_pa_nat_AddDestNatEntry, taf_pa_nat_RemoveDestNatEntry,
        taf_pa_net_SetL2tpConfigSync, taf_pa_net_RemoveTunnelSync,
        taf_pa_net_AddTunnelSync, taf_pa_net_EnableSocksCmdSync,
        taf_pa_net_DisableSocksCmdSync, taf_pa_net_GetIPPassThroughNatConfig,
        taf_pa_net_SetIPPassThroughNatConfig, taf_pa_net_SetIPPassThroughConfig,
        taf_pa_net_GetIPPassThroughConfig, taf_pa_net_SetIPConfig, taf_pa_net_GetIPConfig
<1>17. Plain(taf_pa_ecall_RequestHlapTimerStatus)
  BY DEF Plain, taf_pa_ecall_RequestHlapTimerStatus, SendOnly
<1> QED
  BY <1>1, <1>2, <1>3, <1>4, <1>5, <1>6, <1>7, <1>8, <1>9,
     <1>10, <1>11, <1>12, <1>13, <1>14, <1>15, <1>16, <1>17
  DEF PaRequests, FrameUsers

\* No other function of the PAs lets its answer use its locals.
LEMMA FrameShapes ==
  ASSUME NEW s \in PaRequests, s.frame # "none"
  PROVE  s \in FrameUsers
BY PlainShapes, DeafShape DEF Plain

\* An answer finds its locals gone only after a wait that timed out, or, in the
\* query for NAT entries, after a failure that the function did not wait on.
FrameInv(c) ==
    /\ c \in stray =>
           sdk[c] \in {"answering", "done"} /\ at[c] = "returned" /\ shape[c] \in FrameUsers
    /\ shape[c] \in FrameUsers =>
           /\ sdk[c] \in {"idle", "owes"} => promise[c] = "none" /\ c \notin values
           /\ sdk[c] = "answering" =>
                  \/ todo[c] = shape[c].answers /\ promise[c] = "none" /\ c \notin values
                  \/ /\ todo[c] = <<"value">> /\ c \notin values
                     /\ shape[c] = taf_pa_nat_QueryDestNatEntryList
                  \/ todo[c] \in {<<"callback">>, <<>>}
           /\ at[c] = "returned" /\ promise[c] = "none" =>
                  result[c] \in {"refused", shape[c].late}
    /\ shape[c] = taf_pa_nat_QueryDestNatEntryList /\ at[c] = "returned" /\ promise[c] # "none" =>
           \/ result[c] = "timeout"
           \/ result[c] = promise[c] /\ (promise[c] = "error" \/ c \in values)
    /\ shape[c] \in LocationRequests /\ promise[c] = "none" => heard[c] = "none"

FramesInv == (\A c \in Calls : FrameInv(c)) /\ FrameOutlivesAnswer

\* What FrameOutlivesAnswer says of one call.
Outlived(c) ==
    \/ shape[c] \in CardRequests /\ result[c] = "timeout"
    \/ /\ shape[c] = taf_pa_nat_QueryDestNatEntryList
       /\ \/ result[c] = "timeout"
          \/ result[c] = "error" /\ answer[c] = "error"
    \/ /\ shape[c] \in LocationRequests /\ result[c] = "ok" /\ heard[c] = "none"
       /\ answer[c] = "ok" => shape[c] \in Queries

LEMMA UserShape ==
  ASSUME NEW s \in FrameUsers
  PROVE  /\ s.waits = "timed" /\ s.late \in {"timeout", "ok"}
         /\ \/ s.answers = <<"promise">>
            \/ s.answers = <<"promise", "callback">>
            \/ s.answers = <<"promise", "value">> /\ s = taf_pa_nat_QueryDestNatEntryList
BY CardRequestShape, LocationRequestShape, NatQueryShape DEF FrameUsers

\* What is left of an answer that uses locals after its next step.
LEMMA UserTodo ==
  ASSUME TypeOK, NEW c \in Calls, shape[c] \in FrameUsers, FrameInv(c),
         sdk[c] = "answering", todo[c] # <<>>, Did(c)
  PROVE  \/ /\ Head(todo[c]) = "promise" /\ promise[c] = "none" /\ c \notin values
            /\ \/ todo'[c] = <<>>
               \/ todo'[c] = <<"callback">>
               \/ todo'[c] = <<"value">> /\ shape[c] = taf_pa_nat_QueryDestNatEntryList
         \/ /\ Head(todo[c]) = "value" /\ c \notin values /\ todo'[c] = <<>>
            /\ shape[c] = taf_pa_nat_QueryDestNatEntryList
         \/ Head(todo[c]) = "callback" /\ todo'[c] = <<>>
<1>1. todo'[c] = Tail(todo[c])
  BY DEF Did, TypeOK
<1>2. CASE todo[c] = shape[c].answers /\ promise[c] = "none" /\ c \notin values
  <2>1. CASE todo[c] = <<"promise">>
    BY <1>1, <1>2, <2>1
  <2>2. CASE todo[c] = <<"promise", "callback">>
    BY <1>1, <1>2, <2>2
  <2>3. CASE todo[c] = <<"promise", "value">> /\ shape[c] = taf_pa_nat_QueryDestNatEntryList
    BY <1>1, <1>2, <2>3
  <2> QED
    BY <1>2, <2>1, <2>2, <2>3, UserShape
<1>3. CASE todo[c] = <<"value">> /\ c \notin values
           /\ shape[c] = taf_pa_nat_QueryDestNatEntryList
  BY <1>1, <1>3
<1>4. CASE todo[c] = <<"callback">>
  BY <1>1, <1>4
<1> QED
  BY <1>2, <1>3, <1>4 DEF FrameInv

LEMMA FrameInvStep ==
  ASSUME Shapes \subseteq PaRequests, TypeOK, CallsInv, FramesInv, [Next]_vars,
         NEW c \in Calls
  PROVE  FrameInv(c)' /\ (c \in stray' => Outlived(c)')
<1> USE DEF callVars, sdkVars, clientVars
<1>0. UNCHANGED shape
  BY DEF Next, Lifecycle, CallNext, Service, Begin, Reject, Ask, Tell, Proceed, TimeOut,
         Answer, AnswerStep, ReadCall, SetPromise, SetValue, CallBack, Answered, vars
<1> DEFINE Done == FrameInv(c)' /\ (c \in stray' => Outlived(c)')
<1>1. FrameInv(c) /\ (c \in stray => Outlived(c)) /\ CallInv(c)
  BY DEF FramesInv, FrameOutlivesAnswer, Outlived, CallsInv
<1>2. ASSUME /\ at'[c] = at[c] /\ result'[c] = result[c] /\ sdk'[c] = sdk[c]
             /\ todo'[c] = todo[c] /\ answer'[c] = answer[c] /\ promise'[c] = promise[c]
             /\ heard'[c] = heard[c] /\ (c \in stray' <=> c \in stray)
             /\ (c \in values' <=> c \in values)
      PROVE  Done
  BY <1>0, <1>1, <1>2 DEF FrameInv, Outlived
<1>3. CASE UNCHANGED vars \/ Lifecycle
  BY <1>2, <1>3 DEF vars, Lifecycle
<1>4. ASSUME NEW d \in Calls, CallNext(d), d # c PROVE Done
  <2>1. stray' \in {stray, stray \cup {d}} /\ values' \in {values, values \cup {d}}
    <3>1. CASE SetPromise(d)
      BY <3>1 DEF SetPromise
    <3>2. CASE SetValue(d)
      BY <3>2 DEF SetValue
    <3>3. CASE Service(d) \/ TimeOut(d) \/ Answer(d)
      BY <3>3 DEF Service, Begin, Reject, Ask, Tell, Proceed, TimeOut, Answer
    <3>4. CASE ReadCall(d) \/ CallBack(d) \/ Answered(d)
      BY <3>4 DEF ReadCall, CallBack, Answered
    <3> QED
      BY <1>4, <3>1, <3>2, <3>3, <3>4 DEF CallNext, AnswerStep
  <2>2. (c \in stray' <=> c \in stray) /\ (c \in values' <=> c \in values)
    BY <1>4, <2>1
  <2> QED
    BY <1>2, <1>4, <2>2, Others
<1>5. CASE Begin(c) \/ Reject(c) \/ Ask(c)
  <2>1. /\ at[c] \in {"new", "ask"} /\ sdk[c] = "idle" /\ sdk'[c] \in {"idle", "owes"}
        /\ UNCHANGED <<promise, values, heard, stray>>
        /\ at'[c] = "returned" => result'[c] = "refused"
    <3>1. CASE Begin(c)
      BY <1>1, <3>1 DEF Begin, Return, TypeOK, CallInv
    <3>2. CASE Reject(c)
      BY <1>1, <3>2 DEF Reject, Return, TypeOK, CallInv
    <3>3. CASE Ask(c)
      BY <1>1, <3>3 DEF Ask, Return, TypeOK, CallInv
    <3> QED
      BY <1>5, <3>1, <3>2, <3>3
  <2>2. c \notin stray /\ c \notin stray'
    BY <1>1, <2>1 DEF FrameInv
  <2>3. FrameInv(c)'
    <3>1. shape[c] \in FrameUsers => promise[c] = "none" /\ c \notin values
      BY <1>1, <2>1 DEF FrameInv
    <3>2. taf_pa_nat_QueryDestNatEntryList \in FrameUsers
      BY DEF FrameUsers
    <3> QED
      BY <1>0, <1>1, <2>1, <2>2, <3>1, <3>2 DEF FrameInv
  <2> QED
    BY <2>2, <2>3
<1>6. CASE Tell(c)
  <2>1. /\ at[c] = "wait" /\ promise[c] # "none"
        /\ UNCHANGED <<at, result, sdk, todo, answer, promise, values, stray>>
    BY <1>6 DEF Tell
  <2>2. c \notin stray
    BY <1>1, <2>1 DEF FrameInv
  <2> QED
    BY <1>0, <1>1, <2>1, <2>2 DEF FrameInv
<1>7. CASE Proceed(c)
  <2>1. /\ at[c] = "wait" /\ UNCHANGED <<sdk, todo, answer, promise, values, heard, stray>>
        /\ at'[c] = "returned"
    BY <1>7 DEF Proceed, Return, TypeOK
  <2>2. c \notin stray
    BY <1>1, <2>1 DEF FrameInv
  <2>3. ASSUME shape[c] \in FrameUsers PROVE promise[c] # "none"
    BY <1>7, <2>3, UserShape DEF Proceed
  <2>4. ASSUME shape[c] = taf_pa_nat_QueryDestNatEntryList
        PROVE  result'[c] = promise[c] /\ (promise[c] = "error" \/ c \in values)
    <3>1. HasValue(c) /\ Return(c, promise[c]) /\ promise[c] \in Answers
      BY <1>7, <2>4, NatQueryShape DEF Proceed, TypeOK
    <3> QED
      BY <2>4, <3>1, NatQueryShape DEF HasValue, Return, TypeOK, Answers
  <2> QED
    BY <1>0, <1>1, <2>1, <2>2, <2>3, <2>4 DEF FrameInv
<1>8. CASE TimeOut(c)
  <2>1. /\ at[c] = "wait" /\ promise[c] = "none" /\ result'[c] = shape[c].late
        /\ UNCHANGED <<sdk, todo, answer, promise, values, heard, stray>>
    BY <1>8 DEF TimeOut, Return, TypeOK
  <2>2. c \notin stray
    BY <1>1, <2>1 DEF FrameInv
  <2> QED
    BY <1>0, <1>1, <2>1, <2>2 DEF FrameInv
<1>9. CASE Answer(c)
  <2>1. /\ sdk[c] = "owes" /\ sdk'[c] = "answering" /\ todo'[c] = shape[c].answers
        /\ UNCHANGED <<at, result, promise, values, heard, stray>>
    BY <1>9 DEF Answer, TypeOK
  <2> QED
    BY <1>0, <1>1, <2>1 DEF FrameInv
<1>10. ASSUME Did(c), sdk[c] = "answering", todo[c] # <<>>,
              UNCHANGED <<at, result, sdk, answer, promise, values, heard, stray>>,
              Head(todo[c]) \notin {"promise", "value"}
       PROVE  Done
  <2>1. shape[c] \in FrameUsers => todo'[c] = <<>>
    BY <1>1, <1>10, UserTodo
  <2> QED
    BY <1>0, <1>1, <1>10, <2>1 DEF FrameInv, Outlived
<1>11. CASE ReadCall(c)
  <2>1. CASE Did(c)
    BY <1>10, <1>11, <2>1 DEF ReadCall, Doing
  <2>2. CASE UNCHANGED todo
    BY <1>2, <1>11, <2>2 DEF ReadCall
  <2> QED
    BY <1>11, <2>1, <2>2 DEF ReadCall
<1>12. CASE CallBack(c)
  <2>1. /\ Did(c) /\ sdk[c] = "answering" /\ todo[c] # <<>> /\ Head(todo[c]) = "callback"
        /\ UNCHANGED <<at, result, sdk, answer, promise, values, stray>>
    BY <1>12 DEF CallBack, Doing
  <2>2. shape[c] \notin LocationRequests
    <3>1. todo[c][1] = "callback" /\ 1 \in DOMAIN todo[c]
      BY <2>1 DEF TypeOK
    <3>2. ~ shape[c].tail
      BY <1>1, <3>1 DEF CallInv, CallsOnce
    <3> QED
      BY <3>2, LocationRequestShape
  <2>3. shape[c] \in FrameUsers => todo'[c] = <<>>
    BY <1>1, <2>1, UserTodo
  <2> QED
    BY <1>0, <1>1, <2>1, <2>2, <2>3 DEF FrameInv, Outlived
<1>13. CASE Answered(c)
  <2>1. /\ sdk[c] = "answering" /\ sdk'[c] = "done"
        /\ UNCHANGED <<at, result, todo, answer, promise, values, heard, stray>>
    BY <1>13 DEF Answered, TypeOK
  <2> QED
    BY <1>0, <1>1, <2>1 DEF FrameInv, Outlived
<1>14. ASSUME UsesFrame(c), at[c] = "returned"
       PROVE  shape[c] \in FrameUsers
  <2>1. shape[c] \in PaRequests /\ shape[c].frame # "none"
    BY <1>14 DEF UsesFrame, TypeOK
  <2> QED
    BY <2>1, FrameShapes
<1>15. ASSUME sdk[c] = "answering", at[c] = "returned"
       PROVE  result[c] \notin {"refused", "none"} /\ answer[c] \in Answers
  BY <1>1, <1>15 DEF CallInv, TypeOK
<1>16. CASE SetPromise(c)
  <2>1. /\ Did(c) /\ sdk[c] = "answering" /\ todo[c] # <<>> /\ Head(todo[c]) = "promise"
        /\ UNCHANGED <<at, result, sdk, answer, values, heard>>
    BY <1>16 DEF SetPromise, Doing
  <2>2. ASSUME shape[c] \in FrameUsers
        PROVE  /\ promise[c] = "none" /\ c \notin values
               /\ \/ todo'[c] = <<>>
                  \/ todo'[c] = <<"callback">>
                  \/ todo'[c] = <<"value">> /\ shape[c] = taf_pa_nat_QueryDestNatEntryList
    BY <1>1, <2>1, <2>2, UserTodo
  <2>3. CASE UsesFrame(c) /\ at[c] = "returned"
    <3>1. stray' = stray \cup {c} /\ UNCHANGED promise /\ shape[c] \in FrameUsers
      BY <1>14, <1>16, <2>3 DEF SetPromise
    <3>2. result[c] = shape[c].late /\ promise[c] = "none"
      <4>1. promise[c] = "none"
        BY <2>2, <3>1
      <4>2. result[c] # "refused"
        BY <1>15, <2>1, <2>3
      <4> QED
        BY <1>1, <2>3, <3>1, <4>1, <4>2 DEF FrameInv
    <3>3. FrameInv(c)'
      <4>1. /\ c \notin values
            /\ \/ todo'[c] = <<>>
               \/ todo'[c] = <<"callback">>
               \/ todo'[c] = <<"value">> /\ shape[c] = taf_pa_nat_QueryDestNatEntryList
        BY <2>2, <3>1
      <4> QED
        BY <1>0, <1>1, <2>1, <2>3, <3>1, <4>1 DEF FrameInv
    <3>4. CASE shape[c] \in CardRequests
      BY <1>0, <2>1, <3>2, <3>3, <3>4, CardRequestShape DEF Outlived
    <3>5. CASE shape[c] = taf_pa_nat_QueryDestNatEntryList
      BY <1>0, <2>1, <3>2, <3>3, <3>5, NatQueryShape DEF Outlived
    <3>6. CASE shape[c] \in LocationRequests
      <4>1. heard[c] = "none" /\ result[c] = "ok"
        BY <1>1, <3>2, <3>6, LocationRequestShape DEF FrameInv
      <4>2. answer[c] = "ok" => shape[c] \in Queries
        BY <2>3, <3>6, LocationRequestShape DEF UsesFrame
      <4> QED
        BY <1>0, <2>1, <3>3, <3>6, <4>1, <4>2 DEF Outlived
    <3> QED
      BY <3>1, <3>3, <3>4, <3>5, <3>6 DEF FrameUsers
  <2>4. CASE ~ (UsesFrame(c) /\ at[c] = "returned")
    <3>1. UNCHANGED stray /\ promise'[c] = answer[c] /\ answer[c] # "none"
      BY <1>1, <1>16, <2>1, <2>4 DEF SetPromise, TypeOK, CallInv
    <3>2. shape[c] = taf_pa_nat_QueryDestNatEntryList => at[c] # "returned"
      BY <2>4 DEF UsesFrame, taf_pa_nat_QueryDestNatEntryList, taf_pa_net_QueryVlanInfo,
                  NetRequest
    <3>3. FrameInv(c)'
      BY <1>0, <1>1, <2>1, <2>2, <3>1, <3>2 DEF FrameInv
    <3> QED
      BY <1>0, <1>1, <2>1, <3>1, <3>3 DEF Outlived
  <2> QED
    BY <2>3, <2>4
<1>17. CASE SetValue(c)
  <2>1. /\ Did(c) /\ sdk[c] = "answering" /\ todo[c] # <<>>
        /\ Head(todo[c]) \in {"value", "good value"}
        /\ UNCHANGED <<at, result, sdk, answer, promise, heard>>
    BY <1>17 DEF SetValue, Doing
  <2>2. ASSUME shape[c] \in FrameUsers
        PROVE  /\ c \notin values /\ todo'[c] = <<>>
               /\ shape[c] = taf_pa_nat_QueryDestNatEntryList
    BY <1>1, <2>1, <2>2, UserTodo
  <2>3. CASE UsesFrame(c) /\ at[c] = "returned"
    <3>1. stray' = stray \cup {c} /\ UNCHANGED values /\ shape[c] \in FrameUsers
      BY <1>14, <1>17, <2>3 DEF SetValue
    <3>2. FrameInv(c)'
      BY <1>0, <1>1, <2>1, <2>2, <2>3, <3>1 DEF FrameInv
    <3>3. result[c] = "timeout" \/ (result[c] = "error" /\ answer[c] = "error")
      <4>1. CASE promise[c] = "none"
        BY <1>1, <1>15, <2>1, <2>2, <2>3, <3>1, <4>1, NatQueryShape DEF FrameInv
      <4>2. CASE promise[c] # "none"
        BY <1>1, <2>2, <2>3, <3>1, <4>2 DEF FrameInv, CallInv
      <4> QED
        BY <4>1, <4>2
    <3> QED
      BY <1>0, <2>1, <2>2, <3>1, <3>2, <3>3 DEF Outlived
  <2>4. CASE ~ (UsesFrame(c) /\ at[c] = "returned")
    <3>1. UNCHANGED stray /\ values \subseteq values'
      BY <1>17, <2>4 DEF SetValue
    <3>2. FrameInv(c)'
      BY <1>0, <1>1, <2>1, <2>2, <3>1 DEF FrameInv
    <3> QED
      BY <1>0, <1>1, <2>1, <3>1, <3>2 DEF Outlived
  <2> QED
    BY <2>3, <2>4
<1> QED
  BY <1>3, <1>4, <1>5, <1>6, <1>7, <1>8, <1>9, <1>11, <1>12, <1>13, <1>16, <1>17
  DEF Next, CallNext, Service, AnswerStep

\* In any mix of calls of the PAs' functions, an answer uses the locals of a
\* function that returned only in a SAP, remote SIM or location request whose wait
\* timed out, and in the query for NAT entries that timed out or failed.
THEOREM FramesOutlive ==
  ASSUME Shapes \subseteq PaRequests
  PROVE  Spec => []FrameOutlivesAnswer
<1>1. Init => FramesInv
  BY DEF Init, FramesInv, FrameInv, FrameOutlivesAnswer
<1>2. TypeOK /\ CallsInv /\ FramesInv /\ [Next]_vars => FramesInv'
  <2> SUFFICES ASSUME TypeOK, CallsInv, FramesInv, [Next]_vars PROVE FramesInv'
    OBVIOUS
  <2>1. ASSUME NEW c \in Calls PROVE FrameInv(c)' /\ (c \in stray' => Outlived(c)')
    BY FrameInvStep
  <2>2. stray' \subseteq Calls
    BY TypeStep DEF TypeOK
  <2> QED
    BY <2>1, <2>2 DEF FramesInv, FrameOutlivesAnswer, Outlived
<1>3. FramesInv => FrameOutlivesAnswer
  BY DEF FramesInv
<1> QED
  BY <1>1, <1>2, <1>3, TypeCorrect, CallsInit, CallsStep, PTL DEF Spec

-----------------------------------------------------------------------------
(* Failed answers.                                                         *)

\* A function of the PAs lets a failure be heard, or is one that FailureIsHeard
\* names.
LEMMA HearingShapes ==
  ASSUME NEW s \in PaRequests
  PROVE  /\ s.tells = "answer" \/ s \in CheerfulCommands
         /\ Hears(s) \/ s \in LocationRequests \cup CheerfulCommands \cup EmptyOnFailure
<1>1. CASE Plain(s)
  BY <1>1 DEF Plain, Hears
<1>2. CASE s \in CardRequests
  BY <1>2, CardRequestShape DEF Hears, HasCallback
<1>3. CASE s = taf_pa_nat_QueryDestNatEntryList
  <2>1. s.tells = "answer"
    BY <1>3 DEF taf_pa_nat_QueryDestNatEntryList, taf_pa_net_QueryVlanInfo, NetRequest
  <2> QED
    BY <1>3, <2>1, NatQueryShape DEF Hears, ReturnsAnswer
<1>4. CASE s \in LocationRequests
  BY <1>4, LocationRequestShape
<1>5. CASE s \in CheerfulCommands \cup EmptyOnFailure
  BY <1>5, DeafShape
<1> QED
  BY <1>1, <1>2, <1>3, <1>4, <1>5, PlainShapes DEF FrameUsers

\* The callback is still to come, unless the client has heard.
CallbackAhead(c) ==
    sdk[c] = "answering" /\ \E i \in DOMAIN todo[c] : todo[c][i] = "callback"

\* Where the answer of a call is, from the SDK's thread to the client's.
HeardInv(c) ==
    /\ shape[c].tells = "answer" /\ heard[c] # "none" => heard[c] = answer[c]
    /\ HasCallback(shape[c]) /\ sdk[c] \in {"answering", "done"} =>
           heard[c] # "none" \/ CallbackAhead(c)
    /\ ReturnsAnswer(shape[c]) /\ at[c] = "returned" =>
           \/ result[c] \in {"refused", "timeout"}
           \/ promise[c] # "none" /\ result[c] = promise[c]
    /\ shape[c] \in LocationRequests =>
           /\ at[c] = "returned" /\ answer[c] = "error" /\ promise[c] # "none" =>
                  heard[c] # "none"
           /\ sdk[c] \in {"answering", "done"} =>
                  \/ sdk[c] = "answering" /\ todo[c] = <<"promise">>
                  \/ promise[c] # "none" \/ c \in stray

HeardInvs == \A c \in Calls : HeardInv(c)

\* A step of an answer that is not its callback leaves the callback ahead.
LEMMA StillAhead ==
  ASSUME TypeOK, NEW c \in Calls, CallbackAhead(c), Did(c), UNCHANGED sdk,
         Head(todo[c]) # "callback"
  PROVE  CallbackAhead(c)'
<1>1. PICK i \in DOMAIN todo[c] : todo[c][i] = "callback"
  BY DEF CallbackAhead
<1>2. todo[c] \in Seq(AnswerSteps) /\ todo'[c] = Tail(todo[c]) /\ todo[c] # <<>>
  BY <1>1 DEF TypeOK, Did
<1>3. /\ DOMAIN todo'[c] = 1..(Len(todo[c]) - 1)
      /\ \A k \in DOMAIN todo'[c] : todo'[c][k] = todo[c][k + 1]
      /\ DOMAIN todo[c] = 1..Len(todo[c]) /\ Len(todo[c]) \in Nat \ {0}
      /\ Head(todo[c]) = todo[c][1]
  BY <1>2
<1>4. i # 1
  BY <1>1, <1>3
<1>5. i - 1 \in DOMAIN todo'[c] /\ todo'[c][i - 1] = "callback"
  BY <1>1, <1>3, <1>4
<1> QED
  BY <1>5 DEF CallbackAhead

LEMMA HeardStep ==
  ASSUME TypeOK, CallsInv, HeardInvs, [Next]_vars, NEW c \in Calls
  PROVE  HeardInv(c)'
<1> USE DEF callVars, sdkVars, clientVars
<1>0. UNCHANGED shape
  BY DEF Next, Lifecycle, CallNext, Service, Begin, Reject, Ask, Tell, Proceed, TimeOut,
         Answer, AnswerStep, ReadCall, SetPromise, SetValue, CallBack, Answered, vars
<1>1. HeardInv(c) /\ CallInv(c)
  BY DEF HeardInvs, CallsInv
<1>2. ASSUME /\ at'[c] = at[c] /\ result'[c] = result[c] /\ sdk'[c] = sdk[c]
             /\ todo'[c] = todo[c] /\ answer'[c] = answer[c] /\ promise'[c] = promise[c]
             /\ heard'[c] = heard[c] /\ (c \in stray => c \in stray')
      PROVE  HeardInv(c)'
  BY <1>0, <1>1, <1>2 DEF HeardInv, CallbackAhead
<1>3. CASE UNCHANGED vars \/ Lifecycle
  BY <1>2, <1>3 DEF vars, Lifecycle
<1>4. ASSUME NEW d \in Calls, CallNext(d), d # c PROVE HeardInv(c)'
  <2>1. c \in stray => c \in stray'
    BY <1>4 DEF CallNext, Service, Begin, Reject, Ask, Tell, Proceed, TimeOut, Answer,
                AnswerStep, ReadCall, SetPromise, SetValue, CallBack, Answered
  <2> QED
    BY <1>2, <1>4, <2>1, Others
<1>5. CASE Begin(c) \/ Reject(c) \/ Ask(c)
  <2>1. /\ at[c] \in {"new", "ask"} /\ sdk[c] = "idle" /\ sdk'[c] \in {"idle", "owes"}
        /\ UNCHANGED <<answer, promise, heard, stray>>
        /\ at'[c] = "returned" => result'[c] = "refused"
    <3>1. CASE Begin(c)
      BY <1>1, <3>1 DEF Begin, Return, TypeOK, CallInv
    <3>2. CASE Reject(c)
      BY <1>1, <3>2 DEF Reject, Return, TypeOK, CallInv
    <3>3. CASE Ask(c)
      BY <1>1, <3>3 DEF Ask, Return, TypeOK, CallInv
    <3> QED
      BY <1>5, <3>1, <3>2, <3>3
  <2>2. answer[c] = "none"
    BY <1>1, <2>1 DEF CallInv
  <2> QED
    BY <1>0, <1>1, <2>1, <2>2 DEF HeardInv
<1>6. CASE Tell(c)
  <2>1. /\ at[c] = "wait" /\ promise[c] # "none"
        /\ heard'[c] = IF shape[c].tells = "answer" THEN promise[c] ELSE "ok"
        /\ UNCHANGED <<at, result, sdk, todo, answer, promise, stray>>
    BY <1>6 DEF Tell, TypeOK
  <2>2. promise[c] = answer[c] /\ heard'[c] # "none"
    BY <1>1, <2>1 DEF CallInv
  <2> QED
    BY <1>0, <1>1, <2>1, <2>2 DEF HeardInv
<1>7. CASE Proceed(c)
  <2>1. /\ at[c] = "wait" /\ at'[c] = "returned"
        /\ UNCHANGED <<sdk, todo, answer, promise, heard, stray>>
    BY <1>7 DEF Proceed, Return, TypeOK
  <2>2. ASSUME ReturnsAnswer(shape[c])
        PROVE  promise[c] # "none" /\ result'[c] = promise[c]
    BY <1>7, <2>2 DEF Proceed, ReturnsAnswer, Return, TypeOK
  <2>3. ASSUME shape[c] \in LocationRequests
        PROVE  heard[c] # "none"
    BY <1>7, <2>3, LocationRequestShape DEF Proceed
  <2> QED
    BY <1>0, <1>1, <2>1, <2>2, <2>3 DEF HeardInv, CallbackAhead
<1>8. CASE TimeOut(c)
  <2>1. /\ at[c] = "wait" /\ promise[c] = "none" /\ result'[c] = shape[c].late
        /\ UNCHANGED <<sdk, todo, answer, promise, heard, stray>>
    BY <1>8 DEF TimeOut, Return, TypeOK
  <2> QED
    BY <1>0, <1>1, <2>1 DEF HeardInv, ReturnsAnswer, CallbackAhead
<1>9. CASE Answer(c)
  <2>1. /\ sdk[c] = "owes" /\ sdk'[c] = "answering" /\ todo'[c] = shape[c].answers
        /\ UNCHANGED <<at, result, promise, heard, stray>>
    BY <1>9 DEF Answer, TypeOK
  <2>2. heard[c] = "none" /\ promise[c] = "none"
    BY <1>1, <2>1 DEF CallInv
  <2>3. ASSUME HasCallback(shape[c]) PROVE CallbackAhead(c)'
    <3>1. todo'[c] \in {<<"callback">>, <<"callback", "promise">>, <<"promise", "callback">>,
                        <<"call", "callback", "promise">>, <<"call", "promise", "callback">>}
      BY <2>1, <2>3 DEF HasCallback
    <3>2. \E i \in DOMAIN todo'[c] : todo'[c][i] = "callback"
      <4>1. CASE todo'[c] \in {<<"callback">>, <<"callback", "promise">>}
        <5>1. 1 \in DOMAIN todo'[c] /\ todo'[c][1] = "callback"
          BY <4>1
        <5> QED
          BY <5>1
      <4>2. CASE todo'[c] \in {<<"promise", "callback">>, <<"call", "callback", "promise">>}
        <5>1. 2 \in DOMAIN todo'[c] /\ todo'[c][2] = "callback"
          BY <4>2
        <5> QED
          BY <5>1
      <4>3. CASE todo'[c] = <<"call", "promise", "callback">>
        <5>1. 3 \in DOMAIN todo'[c] /\ todo'[c][3] = "callback"
          BY <4>3
        <5> QED
          BY <5>1
      <4> QED
        BY <3>1, <4>1, <4>2, <4>3
    <3> QED
      BY <2>1, <3>2 DEF CallbackAhead
  <2>4. shape[c] \in LocationRequests => todo'[c] = <<"promise">>
    BY <2>1, LocationRequestShape
  <2> QED
    BY <1>0, <1>1, <2>1, <2>2, <2>3, <2>4 DEF HeardInv
<1>10. ASSUME Did(c), sdk[c] = "answering", Head(todo[c]) \notin {"promise", "callback"},
              UNCHANGED <<at, result, sdk, answer, promise, heard>>, stray \subseteq stray'
       PROVE  HeardInv(c)'
  <2>1. CallbackAhead(c) => CallbackAhead(c)'
    BY <1>10, StillAhead
  <2>2. todo[c] # <<"promise">>
    BY <1>10
  <2> QED
    BY <1>0, <1>1, <1>10, <2>1, <2>2 DEF HeardInv
<1>11. CASE ReadCall(c)
  <2>1. CASE Did(c)
    BY <1>10, <1>11, <2>1 DEF ReadCall, Doing
  <2>2. CASE UNCHANGED todo
    BY <1>2, <1>11, <2>2 DEF ReadCall
  <2> QED
    BY <1>11, <2>1, <2>2 DEF ReadCall
<1>12. CASE SetValue(c)
  BY <1>10, <1>12 DEF SetValue, Doing
<1>13. CASE CallBack(c)
  <2>1. /\ Did(c) /\ sdk[c] = "answering" /\ todo[c] # <<>> /\ Head(todo[c]) = "callback"
        /\ heard'[c] = IF shape[c].tells = "answer" THEN answer[c] ELSE "ok"
        /\ UNCHANGED <<at, result, sdk, answer, promise, stray>>
    BY <1>13 DEF CallBack, Doing, TypeOK
  <2>2. heard'[c] # "none"
    BY <1>1, <2>1 DEF CallInv
  <2>3. shape[c] \notin LocationRequests
    <3>1. todo[c][1] = "callback" /\ 1 \in DOMAIN todo[c]
      BY <2>1 DEF TypeOK
    <3> QED
      BY <1>1, <3>1, LocationRequestShape DEF CallInv, CallsOnce
  <2> QED
    BY <1>0, <1>1, <2>1, <2>2, <2>3 DEF HeardInv
<1>14. CASE Answered(c)
  <2>1. /\ sdk[c] = "answering" /\ todo[c] = <<>> /\ sdk'[c] = "done"
        /\ UNCHANGED <<at, result, todo, answer, promise, heard, stray>>
    BY <1>14 DEF Answered, TypeOK
  <2>2. ~ CallbackAhead(c) /\ todo[c] # <<"promise">>
    BY <2>1 DEF CallbackAhead
  <2> QED
    BY <1>0, <1>1, <2>1, <2>2 DEF HeardInv
<1>15. CASE SetPromise(c)
  <2>1. /\ Did(c) /\ sdk[c] = "answering" /\ Head(todo[c]) = "promise"
        /\ UNCHANGED <<at, result, sdk, answer, heard>>
    BY <1>15 DEF SetPromise, Doing
  <2>2. CallbackAhead(c) => CallbackAhead(c)'
    BY <2>1, StillAhead
  <2>3. CASE UsesFrame(c) /\ at[c] = "returned"
    <3>1. stray' = stray \cup {c} /\ UNCHANGED promise
      BY <1>15, <2>3 DEF SetPromise
    <3> QED
      BY <1>0, <1>1, <2>1, <2>2, <3>1 DEF HeardInv
  <2>4. CASE ~ (UsesFrame(c) /\ at[c] = "returned")
    <3>1. UNCHANGED stray /\ promise'[c] = answer[c] /\ answer[c] # "none"
      BY <1>1, <1>15, <2>1, <2>4 DEF SetPromise, TypeOK, CallInv
    <3>2. promise[c] # "none" => promise'[c] = promise[c]
      BY <1>1, <3>1 DEF CallInv
    <3>3. shape[c] \in LocationRequests /\ at[c] = "returned" => answer[c] # "error"
      <4>1. shape[c] \in LocationRequests => shape[c].frame \in {"error", "answer"}
        BY LocationRequestShape, ShapeTypes DEF TypeOK
      <4> QED
        BY <2>4, <4>1 DEF UsesFrame
    <3> QED
      BY <1>0, <1>1, <2>1, <2>2, <3>1, <3>2, <3>3 DEF HeardInv
  <2> QED
    BY <2>3, <2>4
<1> QED
  BY <1>3, <1>4, <1>5, <1>6, <1>7, <1>8, <1>9, <1>11, <1>12, <1>13, <1>14, <1>15
  DEF Next, CallNext, Service, AnswerStep

\* In any mix of calls of the PAs' functions, in any order of the threads, a
\* failed answer reaches the client by its callback or by what the function
\* returns, but for the functions that FailureIsHeard names.
THEOREM FailuresAreHeard ==
  ASSUME Shapes \subseteq PaRequests
  PROVE  Spec => []FailureIsHeard
<1>1. Init => HeardInvs
  BY DEF Init, HeardInvs, HeardInv
<1>2. TypeOK /\ CallsInv /\ HeardInvs /\ [Next]_vars => HeardInvs'
  BY HeardStep DEF HeardInvs
<1>3. TypeOK /\ CallsInv /\ HeardInvs => FailureIsHeard
  <2> SUFFICES ASSUME TypeOK, CallsInv, HeardInvs, NEW c \in Calls, answer[c] = "error"
               PROVE  /\ heard[c] = "ok" => shape[c] \in CheerfulCommands
                      /\ sdk[c] = "done" /\ at[c] = "returned" /\ shape[c].answers # <<>> =>
                            \/ heard[c] = "error"
                            \/ result[c] = "error"
                            \/ /\ result[c] = "timeout"
                               /\ shape[c] \notin Commands \cup CardRequests
                            \/ shape[c] \in EmptyOnFailure
                            \/ shape[c] \in LocationRequests /\ c \in stray
    BY DEF FailureIsHeard
  <2>1. shape[c] \in PaRequests /\ HeardInv(c) /\ CallInv(c)
    BY DEF TypeOK, HeardInvs, CallsInv
  <2>2. heard[c] = "ok" => shape[c] \in CheerfulCommands
    BY <2>1, HearingShapes DEF HeardInv
  <2> SUFFICES ASSUME sdk[c] = "done", at[c] = "returned", shape[c].answers # <<>>
               PROVE  \/ heard[c] = "error"
                      \/ result[c] = "error"
                      \/ result[c] = "timeout" /\ shape[c] \notin Commands \cup CardRequests
                      \/ shape[c] \in EmptyOnFailure
                      \/ shape[c] \in LocationRequests /\ c \in stray
    BY <2>2
  <2>3. ASSUME HasCallback(shape[c]), shape[c].tells = "answer" PROVE heard[c] = "error"
    BY <2>1, <2>3 DEF HeardInv, CallbackAhead
  <2>4. ASSUME ReturnsAnswer(shape[c]) PROVE result[c] \in {"timeout", "error"}
    BY <2>1, <2>4 DEF HeardInv, CallInv
  <2>5. ASSUME shape[c] \in Commands \cup CardRequests
        PROVE  HasCallback(shape[c]) /\ shape[c].tells = "answer"
    BY <2>5, CommandShape, CardRequestShape DEF HasCallback
  <2>6. CASE Hears(shape[c])
    BY <2>3, <2>4, <2>5, <2>6 DEF Hears
  <2>7. CASE shape[c] \in CheerfulCommands
    <3>1. ReturnsAnswer(shape[c]) /\ shape[c].tells = "ok"
      BY <2>7, DeafShape
    <3> QED
      BY <2>4, <2>5, <3>1
  <2>8. CASE shape[c] \in LocationRequests
    BY <2>1, <2>8, LocationRequestShape DEF HeardInv
  <2> QED
    BY <2>1, <2>6, <2>7, <2>8, HearingShapes
<1> QED
  BY <1>1, <1>2, <1>3, TypeCorrect, CallsInit, CallsStep, PTL DEF Spec

-----------------------------------------------------------------------------
(* The call list.                                                          *)


\* One step keeps the types.
LEMMA ListTypeStep == ListTypeOK /\ [ListNext]_listVars => ListTypeOK'
<1> SUFFICES ASSUME ListTypeOK, [ListNext]_listVars PROVE ListTypeOK'
  OBVIOUS
<1> USE CallListAssumption
    DEF CallListAssumption, ListTypeOK, Entries, NbSteps, SbSteps, LifeSteps, nbVars, sbVars,
        lifeVars, token, TakeToken, GiveBack, LifeStep
<1>1. ASSUME NEW r \in Requests, ServiceThread(r) PROVE ListTypeOK'
  <2>1. CASE CheckPhone(r)  BY <2>1 DEF CheckPhone
  <2>2. CASE Acquire(r)     BY <2>2 DEF Acquire
  <2>3. CASE Send(r)        BY <2>3 DEF Send
  <2>4. CASE Abandon(r)     BY <2>4 DEF Abandon
  <2>5. CASE Release(r)     BY <2>5 DEF Release
  <2> QED
    BY <1>1, <2>1, <2>2, <2>3, <2>4, <2>5 DEF ServiceThread
<1>2. ASSUME NEW r \in Requests, Sdk(r) PROVE ListTypeOK'
  <2>1. CASE Enter(r)       BY <2>1 DEF Enter
  <2>2. CASE CopyEntry(r)   BY <2>2 DEF CopyEntry
  <2>3. CASE NullEntry(r)   BY <2>3 DEF NullEntry
  <2>4. CASE CallClient(r)
    <3>1. got[r] \in Requests
      BY <2>4 DEF CallClient
    <3>2. answered' \in [Requests -> SUBSET Requests]
      BY <2>4, <3>1 DEF CallClient
    <3>3. sb' \in [Requests -> SbSteps]
      BY <2>4 DEF CallClient
    <3> QED
      BY <2>4, <3>2, <3>3 DEF CallClient
  <2>5. CASE MissingListener(r) BY <2>5 DEF MissingListener
  <2>6. CASE ClearEntry(r)  BY <2>6 DEF ClearEntry
  <2>7. CASE Finish(r)      BY <2>7 DEF Finish
  <2> QED
    BY <1>2, <2>1, <2>2, <2>3, <2>4, <2>5, <2>6, <2>7 DEF Sdk
<1>3. ASSUME ListLifecycle PROVE ListTypeOK'
  <2>1. CASE StartDeinit    BY <2>1 DEF StartDeinit
  <2>2. CASE ClearListeners BY <2>2 DEF ClearListeners
  <2>3. CASE ClearManagers  BY <2>3 DEF ClearManagers
  <2>4. CASE DeinitEntry    BY <2>4 DEF DeinitEntry
  <2>5. CASE DeinitFlag     BY <2>5 DEF DeinitFlag
  <2>6. CASE DeinitPhone    BY <2>6 DEF DeinitPhone
  <2>7. CASE InitPhone      BY <2>7 DEF InitPhone
  <2>8. ASSUME NEW s \in Slots, InitManager(s) PROVE ListTypeOK'
    BY <2>8 DEF InitManager
  <2>9. CASE InitListener   BY <2>9 DEF InitListener
  <2>10. CASE InitDone      BY <2>10 DEF InitDone
  <2> QED
    BY <1>3, <2>1, <2>2, <2>3, <2>4, <2>5, <2>6, <2>7, <2>8, <2>9, <2>10
    DEF ListLifecycle
<1>4. CASE UNCHANGED listVars
  BY <1>4 DEF listVars
<1> QED
  BY <1>1, <1>2, <1>3, <1>4 DEF ListNext

LEMMA InitialListTypes == ListInit => ListTypeOK
<1> SUFFICES ASSUME ListInit PROVE ListTypeOK
  OBVIOUS
<1> USE DEF ListInit
<1>1. deinits \in 0..MaxDeinits
  BY CallListAssumption DEF CallListAssumption
<1>2. answered \in [Requests -> SUBSET Requests]
  OBVIOUS
<1>3. pc \in [Requests -> NbSteps] /\ sb \in [Requests -> SbSteps]
  BY DEF NbSteps, SbSteps
<1>4. got \in [Requests -> Entries] /\ entry \in Entries
  BY DEF Entries
<1> QED
  BY <1>1, <1>2, <1>3, <1>4 DEF ListTypeOK, LifeSteps

\* Every step of the service, of the SDK and of Deinit and Init keeps the types.
THEOREM ListTypes == ListSpec => []ListTypeOK
<1> QED
  BY InitialListTypes, ListTypeStep, PTL DEF ListSpec

-----------------------------------------------------------------------------
(* Between the Init and the first Deinit.                                  *)

\* What a request knows at each point: the entry is its own from the moment the
\* compare-exchange succeeded to its reset, and the SDK's copy is its own too.
Own(r) ==
    /\ pc[r] = "sent" <=> sb[r] # "none"
    /\ sb[r] # "ignored"
    /\ pc[r] = "token" => entry = r
    /\ sb[r] \in {"pending", "entered", "copied", "failing", "called"} => entry = r
    /\ sb[r] \in {"copied", "failing", "called", "cleared"} => got[r] = r
    /\ answered[r] \subseteq {r}
    /\ answered[r] # {} => pc[r] = "sent"

\* SoleOwner and OwnAnswer are not inductive: nothing in them says that the one
\* entry still belongs to the one request that owns the token.
ListIInv ==
    /\ ListTypeOK
    /\ SoleOwner
    /\ deinits = 0 =>
         /\ life = "up"
         /\ lost => Owners = {}
         /\ \A r \in Requests : Own(r)

LEMMA ListIInvStep == ListIInv /\ [ListNext]_listVars => ListIInv'
<1> SUFFICES ASSUME ListIInv, [ListNext]_listVars PROVE ListIInv'
  OBVIOUS
<1>1. ListTypeOK'
  BY ListTypeStep DEF ListIInv
<1>2. NoEntry \notin Requests /\ deinits \in Nat
  BY CallListAssumption DEF CallListAssumption, ListIInv, ListTypeOK
<1> USE <1>1, <1>2 DEF ListIInv, ListTypeOK, nbVars, sbVars, lifeVars, token, TakeToken,
                       GiveBack
<1>3. ASSUME NEW r \in Requests, ServiceThread(r) PROVE ListIInv'
  <2>1. CASE CheckPhone(r)
    BY <2>1 DEF CheckPhone, Own, SoleOwner, Owners
  <2>2. CASE Acquire(r)
    BY <2>2 DEF Acquire, Own, SoleOwner, Owners
  <2>3. CASE Send(r)
    BY <2>3 DEF Send, Own, SoleOwner, Owners
  <2>4. CASE Abandon(r)
    BY <2>4 DEF Abandon, Own, SoleOwner, Owners
  <2>5. CASE Release(r)
    BY <2>5 DEF Release, Own, SoleOwner, Owners
  <2> QED
    BY <1>3, <2>1, <2>2, <2>3, <2>4, <2>5 DEF ServiceThread
<1>4. ASSUME NEW r \in Requests, Sdk(r) PROVE ListIInv'
  <2>1. CASE Enter(r)
    BY <2>1 DEF Enter, Own, SoleOwner, Owners
  <2>2. CASE CopyEntry(r)
    BY <2>2 DEF CopyEntry, Own, SoleOwner, Owners
  <2>3. CASE NullEntry(r)
    BY <2>3 DEF NullEntry, Own, SoleOwner, Owners
  <2>4. CASE CallClient(r)
    BY <2>4 DEF CallClient, Own, SoleOwner, Owners
  <2>5. CASE MissingListener(r)
    BY <2>5 DEF MissingListener, Own, SoleOwner, Owners
  <2>6. CASE ClearEntry(r)
    BY <2>6 DEF ClearEntry, Own, SoleOwner, Owners
  <2>7. CASE Finish(r)
    BY <2>7 DEF Finish, Own, SoleOwner, Owners
  <2> QED
    BY <1>4, <2>1, <2>2, <2>3, <2>4, <2>5, <2>6, <2>7 DEF Sdk
<1>5. ASSUME ListLifecycle PROVE ListIInv'
  \* The first Deinit ends the interval; the other steps come after it.
  <2>1. CASE StartDeinit
    <3>1. deinits' = deinits + 1
      BY <2>1 DEF StartDeinit
    <3> QED
      BY <3>1, <1>2 DEF SoleOwner
  <2>2. CASE ~StartDeinit
    <3>1. life # "up" /\ deinits' = deinits
      BY <1>5, <2>2 DEF ListLifecycle, ClearListeners, ClearManagers, DeinitEntry,
                        DeinitFlag, DeinitPhone, InitPhone, InitManager,
                        InitListener, InitDone, LifeStep
    <3> QED
      BY <3>1 DEF SoleOwner
  <2> QED
    BY <2>1, <2>2
<1>6. CASE UNCHANGED listVars
  BY <1>6 DEF listVars, Own, SoleOwner, Owners
<1> QED
  BY <1>3, <1>4, <1>5, <1>6 DEF ListNext

\* The strengthened invariant holds of every behaviour.
THEOREM ListInvariant == ListSpec => []ListIInv
<1>1. ListInit => ListIInv
  BY InitialListTypes DEF ListInit, ListIInv, SoleOwner, Owners, Own
<1> QED
  BY <1>1, ListIInvStep, PTL DEF ListSpec

\* An answer of the SDK reaches the client whose request it answers, and no
\* client that was refused.
THEOREM AnswersReachTheirClients == ListSpec => []OwnAnswer
<1>1. ListIInv => OwnAnswer
  BY DEF ListIInv, Own, OwnAnswer
<1> QED
  BY <1>1, ListInvariant, PTL

-----------------------------------------------------------------------------
(* Through every Deinit and Init.                                          *)

\* A step by step look at who gives the token back: whoever leaves Owners
\* resets the flag, finds it reset, or leaves a mark in lost.
LEMMA TokenHeldStep == ListTypeOK /\ TokenHeld /\ [ListNext]_listVars => TokenHeld'
<1> SUFFICES ASSUME ListTypeOK, TokenHeld, [ListNext]_listVars, inProgress'
             PROVE  Owners' # {} \/ lost'
  BY DEF TokenHeld
<1> USE DEF ListTypeOK, TokenHeld, Owners, nbVars, sbVars, lifeVars, token
<1>1. ASSUME NEW r \in Requests, ServiceThread(r) PROVE Owners' # {} \/ lost'
  <2>1. CASE CheckPhone(r)
    BY <1>1, <2>1 DEF CheckPhone
  <2>2. CASE Acquire(r)
    BY <2>2 DEF Acquire
  <2>3. CASE Send(r)
    BY <2>3 DEF Send
  <2>4. CASE Abandon(r)
    BY <2>4 DEF Abandon
  <2>5. CASE Release(r)
    BY <2>5 DEF Release, GiveBack
  <2> QED
    BY <1>1, <2>1, <2>2, <2>3, <2>4, <2>5 DEF ServiceThread
<1>2. ASSUME NEW r \in Requests, Sdk(r) PROVE Owners' # {} \/ lost'
  <2>1. CASE Enter(r)
    BY <2>1 DEF Enter
  <2>2. CASE CopyEntry(r)
    BY <2>2 DEF CopyEntry
  <2>3. CASE NullEntry(r)
    BY <2>3 DEF NullEntry, GiveBack
  <2>4. CASE CallClient(r)
    BY <2>4 DEF CallClient
  <2>5. CASE MissingListener(r)
    BY <2>5 DEF MissingListener
  <2>6. CASE ClearEntry(r)
    BY <2>6 DEF ClearEntry
  <2>7. CASE Finish(r)
    BY <2>7 DEF Finish, GiveBack
  <2> QED
    BY <1>2, <2>1, <2>2, <2>3, <2>4, <2>5, <2>6, <2>7 DEF Sdk
<1>3. ASSUME ListLifecycle PROVE Owners' # {} \/ lost'
  <2>1. CASE DeinitFlag
    BY <2>1 DEF DeinitFlag, GiveBack
  <2>2. CASE ~DeinitFlag
    <3>1. UNCHANGED <<nbVars, sbVars, token>>
      BY <1>3, <2>2 DEF ListLifecycle, StartDeinit, ClearListeners, ClearManagers,
                        DeinitEntry, DeinitPhone, InitPhone, InitManager, InitListener, InitDone
    <3> QED
      BY <3>1
  <2> QED
    BY <2>1, <2>2
<1>4. CASE UNCHANGED listVars
  BY <1>4 DEF listVars
<1> QED
  BY <1>1, <1>2, <1>3, <1>4 DEF ListNext

\* However many requests, Deinits and Inits there are and however they
\* interleave, the flag is never left set with no one to reset it, unless an
\* answer returned at a call of a slot without a listener.
LEMMA TokenIsHeld == ListSpec => []TokenHeld
<1>1. ListInit => TokenHeld
  BY DEF ListInit, TokenHeld
<1> QED
  BY <1>1, TokenHeldStep, ListTypes, PTL DEF ListSpec

\* However many requests are made from however many threads, one at a time is
\* between the compare-exchange and its release until the first Deinit, and
\* whatever Deinit and Init do, the flag is set only while someone is left to
\* reset it, or after an answer returned at a call of a slot without a listener.
THEOREM TokenHasOneOwner == ListSpec => []OneOwner
<1>1. ListIInv /\ TokenHeld => OneOwner
  BY DEF ListIInv, OneOwner
<1> QED
  BY <1>1, ListInvariant, TokenIsHeld, PTL

================================================================================
