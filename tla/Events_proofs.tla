----------------------------- MODULE Events_proofs -----------------------------
(***************************************************************************)
(* Proofs about two parts that share no state: the card requests of the SIM *)
(* PA, for any set of calls, and the profile events of the data PA, for any *)
(* ones of theirs.                                                          *)
(***************************************************************************)
EXTENDS CardEvents, ProfileEvents, FiniteSetTheorems, TLAPS

-----------------------------------------------------------------------------
(* The card requests.                                                      *)


\* The promise and the client know no more than the card answered.
Told ==
    \A c \in CardCalls :
        /\ at[c] = "new" => sdk[c] = "idle"
        /\ answer[c] = "none" <=> sdk[c] \in {"idle", "owes"}
        /\ promise[c] # "none" =>
              answer[c] # "none" /\ promise[c] = Verdict(kind[c], answer[c])
        /\ kind[c] # "open" => (promise[c] = "none" <=> answer[c] = "none")
        /\ heard[c] # "none" => heard[c] = promise[c]
        /\ sdk[c] = "telling" => kind[c] = "close"
        /\ kind[c] = "close" => answer[c] # "odd"
        /\ result[c] = "none" <=> at[c] # "done"

\* One call at a time, and where it is says what the card has done for it.
Alone ==
    /\ \A c, d \in CardCalls : c # d /\ Active(c) => ~Active(d)
    /\ received => \E c \in CardCalls : at[c] \in {"sent", "notified"} /\ sdk[c] = "done"

Progress(c) ==
    /\ at[c] = "sent" /\ sdk[c] = "done" => received
    /\ at[c] = "waiting" => sdk[c] # "done" /\ expected = EventOf(kind[c])
    /\ at[c] \in {"notified", "read", "status", "future", "copy"} => sdk[c] = "done"
    /\ at[c] # "late"
    /\ at[c] = "done" => sdk[c] \in {"idle", "done"}
    /\ at[c] = "notified" => (errorOk <=> Verdict(kind[c], answer[c]) = "ok")

\* Its response is the one in the members, and the one it has read.
OwnResponse(c) ==
    /\ at[c] \notin {"new", "done"} /\ sdk[c] = "done" =>
          /\ kind[c] \in {"apdu", "simio"} => apduResponse = c
          /\ kind[c] = "open" => openChannel = c
    /\ at[c] \in {"read", "status"} => kind[c] \in {"apdu", "simio"}
    /\ at[c] = "status" => kind[c] = "apdu"
    /\ at[c] = "copy" => kind[c] \in {"open", "simio"}
    /\ kind[c] = "apdu" /\ at[c] \in {"status", "future"} => got[c].payload = c
    /\ kind[c] = "apdu" /\ at[c] = "future" => got[c].status = c
    /\ kind[c] = "simio" /\ at[c] \in {"future", "copy"} => got[c].status = c
    /\ result[c] = "ok" =>
          /\ kind[c] # "close" => got[c].payload = c
          /\ kind[c] \in {"apdu", "simio"} => got[c].status = c
    /\ result[c] = "fault" /\ answer[c] = "ok" => kind[c] = "open" /\ promise[c] = "none"

Orderly == Alone /\ \A c \in CardCalls : Progress(c) /\ OwnResponse(c)

CardIInv == CardTypeOK /\ Told /\ (calm => Orderly)

-----------------------------------------------------------------------------

LEMMA CardTypeStep == CardTypeOK /\ [CardNext]_cardVars => CardTypeOK'
<1> SUFFICES ASSUME CardTypeOK, [CardNext]_cardVars PROVE CardTypeOK'
  OBVIOUS
<1> USE DEF CardTypeOK, Kinds, CardEvent, Answers, Verdicts, Responses, Places
<1>1. ASSUME NEW c \in CardCalls, Refuse(c) PROVE CardTypeOK'
  BY <1>1 DEF Refuse, Return, eventVars, dataVars, sdkVars
<1>2. ASSUME NEW c \in CardCalls, Ask(c) PROVE CardTypeOK'
  BY <1>2 DEF Ask, eventVars, dataVars, clientVars
<1>3. ASSUME NEW c \in CardCalls, EnterWait(c) PROVE CardTypeOK'
  BY <1>3 DEF EnterWait, EventOf, Served, dataVars, sdkVars, clientVars
<1>4. ASSUME NEW c \in CardCalls, WakeSpuriously(c) PROVE CardTypeOK'
  BY <1>4 DEF WakeSpuriously, eventVars, dataVars, sdkVars, clientVars
<1>5. ASSUME NEW c \in CardCalls, TimeOut(c) PROVE CardTypeOK'
  BY <1>5 DEF TimeOut, eventVars, dataVars, sdkVars, clientVars
<1>6. ASSUME NEW c \in CardCalls, LeaveWait(c) PROVE CardTypeOK'
  BY <1>6 DEF LeaveWait, Served, Return, dataVars, sdkVars
<1>7. ASSUME NEW c \in CardCalls, ReadPayload(c) PROVE CardTypeOK'
  BY <1>7 DEF ReadPayload, Return, eventVars, dataVars, sdkVars
<1>8. ASSUME NEW c \in CardCalls, ReadStatus(c) PROVE CardTypeOK'
  BY <1>8 DEF ReadStatus, eventVars, dataVars, sdkVars
<1>9. ASSUME NEW c \in CardCalls, ReadChannel(c) PROVE CardTypeOK'
  BY <1>9 DEF ReadChannel, Return, eventVars, dataVars, sdkVars
<1>10. ASSUME NEW c \in CardCalls, FutureReady(c) PROVE CardTypeOK'
  BY <1>10 DEF FutureReady, Return, eventVars, dataVars, sdkVars
<1>11. ASSUME NEW c \in CardCalls, FutureTimeout(c) PROVE CardTypeOK'
  BY <1>11 DEF FutureTimeout, Return, eventVars, dataVars, sdkVars
<1>12. ASSUME NEW c \in CardCalls, NEW a \in AnswersTo(kind[c]), AnswerOpen(c, a) PROVE CardTypeOK'
  BY <1>12 DEF AnswerOpen, AnswersTo, SetError, Wake, Verdict, clientVars
<1>13. ASSUME NEW c \in CardCalls, NEW a \in AnswersTo(kind[c]), AnswerTransmit(c, a) PROVE CardTypeOK'
  BY <1>13 DEF AnswerTransmit, AnswersTo, SetError, Wake, Verdict, clientVars
<1>14. ASSUME NEW c \in CardCalls, NEW a \in AnswersTo(kind[c]), AnswerClose(c, a) PROVE CardTypeOK'
  BY <1>14 DEF AnswerClose, AnswersTo, Verdict, eventVars, dataVars, clientVars
<1>15. ASSUME NEW c \in CardCalls, SignalClose(c) PROVE CardTypeOK'
  BY <1>15 DEF SignalClose, SetError, Wake, dataVars, clientVars
<1>16. CASE UNCHANGED cardVars
  BY <1>16 DEF cardVars, eventVars, dataVars, sdkVars, clientVars
<1> QED
  BY <1>1, <1>2, <1>3, <1>4, <1>5, <1>6, <1>7, <1>8, <1>9, <1>10, <1>11, <1>12, <1>13, <1>14,
     <1>15, <1>16
  DEF CardNext, Service, Continue, Sdk

LEMMA ToldStep == CardTypeOK /\ Told /\ [CardNext]_cardVars => Told'
<1> SUFFICES ASSUME CardTypeOK, Told, [CardNext]_cardVars PROVE Told'
  OBVIOUS
<1> USE DEF CardTypeOK, Told
<1>1. ASSUME NEW c \in CardCalls, Refuse(c) PROVE Told'
  BY <1>1 DEF Refuse, Return, sdkVars
<1>2. ASSUME NEW c \in CardCalls, Ask(c) PROVE Told'
  BY <1>2 DEF Ask, clientVars
<1>3. ASSUME NEW c \in CardCalls, EnterWait(c) PROVE Told'
  BY <1>3 DEF EnterWait, Served, sdkVars, clientVars
<1>4. ASSUME NEW c \in CardCalls, WakeSpuriously(c) \/ TimeOut(c) PROVE Told'
  BY <1>4 DEF WakeSpuriously, TimeOut, sdkVars, clientVars
<1>5. ASSUME NEW c \in CardCalls, LeaveWait(c) PROVE Told'
  BY <1>5 DEF LeaveWait, Served, Return, sdkVars
<1>6. ASSUME NEW c \in CardCalls, ReadPayload(c) PROVE Told'
  BY <1>6 DEF ReadPayload, Return, sdkVars
<1>7. ASSUME NEW c \in CardCalls, ReadStatus(c) \/ ReadChannel(c) PROVE Told'
  BY <1>7 DEF ReadStatus, ReadChannel, Return, sdkVars
<1>8. ASSUME NEW c \in CardCalls, FutureReady(c) PROVE Told'
  BY <1>8 DEF FutureReady, Return, sdkVars
<1>9. ASSUME NEW c \in CardCalls, FutureTimeout(c) PROVE Told'
  BY <1>9 DEF FutureTimeout, Return, sdkVars
<1>10. ASSUME NEW c \in CardCalls, NEW a \in AnswersTo(kind[c]), AnswerOpen(c, a) PROVE Told'
  BY <1>10 DEF AnswerOpen, AnswersTo, Answers, Wake, clientVars
<1>11. ASSUME NEW c \in CardCalls, NEW a \in AnswersTo(kind[c]), AnswerTransmit(c, a) PROVE Told'
  BY <1>11 DEF AnswerTransmit, AnswersTo, Answers, Verdict, Wake, clientVars
<1>12. ASSUME NEW c \in CardCalls, NEW a \in AnswersTo(kind[c]), AnswerClose(c, a) PROVE Told'
  BY <1>12 DEF AnswerClose, AnswersTo, Answers, Verdict, clientVars
<1>13. ASSUME NEW c \in CardCalls, SignalClose(c) PROVE Told'
  BY <1>13 DEF SignalClose, Wake, clientVars
<1>14. CASE UNCHANGED cardVars
  BY <1>14 DEF cardVars, sdkVars, clientVars
<1> QED
  BY <1>1, <1>2, <1>3, <1>4, <1>5, <1>6, <1>7, <1>8, <1>9, <1>10, <1>11, <1>12, <1>13, <1>14
  DEF CardNext, Service, Continue, Sdk

LEMMA OrderlyStep == CardIInv /\ [CardNext]_cardVars /\ calm' => Orderly'
<1> SUFFICES ASSUME CardIInv, [CardNext]_cardVars, calm' PROVE Orderly'
  OBVIOUS
<1> USE DEF CardIInv, CardTypeOK, Told
<1>1. ASSUME NEW c \in CardCalls, Refuse(c) PROVE Orderly'
  BY <1>1 DEF Orderly, Alone, Progress, OwnResponse, Active,
     Refuse, Return, eventVars, dataVars, sdkVars
<1>2. ASSUME NEW c \in CardCalls, Ask(c) PROVE Orderly'
  <2>0. calm /\ \A d \in CardCalls \ {c} : at[d] \in {"new", "done"} /\ sdk[d] \in {"idle", "done"}
    BY <1>2 DEF Ask, Active
  <2>1. Alone'
    BY <1>2, <2>0
    DEF Ask, eventVars, dataVars, clientVars, Orderly, Alone, Progress, Active
  <2>2. ASSUME NEW d \in CardCalls PROVE Progress(d)'
    BY <1>2, <2>0 DEF Ask, eventVars, dataVars, clientVars, Orderly, Alone, Progress
  <2>3. ASSUME NEW d \in CardCalls PROVE OwnResponse(d)'
    BY <1>2, <2>0
    DEF Ask, eventVars, dataVars, clientVars, Orderly, Progress, OwnResponse
  <2> QED
    BY <2>1, <2>2, <2>3 DEF Orderly
<1>3. ASSUME NEW c \in CardCalls, EnterWait(c) PROVE Orderly'
  <2>0. calm /\ \A d \in CardCalls \ {c} : at[d] \in {"new", "done"} /\ sdk[d] \in {"idle", "done"}
    BY <1>3 DEF EnterWait, Orderly, Alone, Active
  <2>1. Alone'
    BY <1>3, <2>0
    DEF EnterWait, EventOf, Served, dataVars, sdkVars, clientVars, Orderly, Alone,
        Progress, Active
  <2>2. ASSUME NEW d \in CardCalls PROVE Progress(d)'
    BY <1>3, <2>0
    DEF EnterWait, EventOf, Served, dataVars, sdkVars, clientVars, Orderly, Alone,
        Progress
  <2>3. ASSUME NEW d \in CardCalls PROVE OwnResponse(d)'
    BY <1>3, <2>0
    DEF EnterWait, Served, Kinds, dataVars, sdkVars, clientVars, Orderly,
        OwnResponse
  <2> QED
    BY <2>1, <2>2, <2>3 DEF Orderly
<1>4. ASSUME NEW c \in CardCalls, WakeSpuriously(c) \/ TimeOut(c) PROVE Orderly'
  BY <1>4 DEF Orderly, Alone, Progress, OwnResponse, Active,
     WakeSpuriously, TimeOut, eventVars, dataVars, sdkVars, clientVars
<1>5. ASSUME NEW c \in CardCalls, LeaveWait(c) PROVE Orderly'
  <2>0. calm /\ \A d \in CardCalls \ {c} : at[d] \in {"new", "done"} /\ sdk[d] \in {"idle", "done"}
    BY <1>5 DEF LeaveWait, Orderly, Alone, Active
  <2>1. Alone'
    BY <1>5, <2>0
    DEF LeaveWait, Served, Return, dataVars, sdkVars, Verdict, Orderly, Alone,
        Progress, Active
  <2>2. ASSUME NEW d \in CardCalls PROVE Progress(d)'
    BY <1>5, <2>0
    DEF LeaveWait, Served, Return, dataVars, sdkVars, Verdict, Orderly, Alone,
        Progress
  <2>3. ASSUME NEW d \in CardCalls PROVE OwnResponse(d)'
    BY <1>5, <2>0
    DEF LeaveWait, Served, Return, Kinds, dataVars, sdkVars, Verdict, Orderly,
        Progress, OwnResponse
  <2> QED
    BY <2>1, <2>2, <2>3 DEF Orderly
<1>6. ASSUME NEW c \in CardCalls, ReadPayload(c) PROVE Orderly'
  <2>0. calm /\ \A d \in CardCalls \ {c} : at[d] \in {"new", "done"} /\ sdk[d] \in {"idle", "done"}
    BY <1>6 DEF ReadPayload, Orderly, Alone, Active
  <2>1. Alone'
    BY <1>6, <2>0
    DEF ReadPayload, Return, TooLong, Responses, eventVars, dataVars, sdkVars,
        Orderly, Alone, Progress, Active
  <2>2. ASSUME NEW d \in CardCalls PROVE Progress(d)'
    BY <1>6, <2>0
    DEF ReadPayload, Return, TooLong, Responses, eventVars, dataVars, sdkVars,
        Orderly, Alone, Progress
  <2>3. ASSUME NEW d \in CardCalls PROVE OwnResponse(d)'
    BY <1>6, <2>0
    DEF ReadPayload, Return, TooLong, Responses, eventVars, dataVars, sdkVars,
        Orderly, Progress, OwnResponse
  <2> QED
    BY <2>1, <2>2, <2>3 DEF Orderly
<1>7. ASSUME NEW c \in CardCalls, ReadStatus(c) PROVE Orderly'
  BY <1>7 DEF Orderly, Alone, Progress, OwnResponse, Active,
     ReadStatus, Responses, eventVars, dataVars, sdkVars
<1>8. ASSUME NEW c \in CardCalls, ReadChannel(c) PROVE Orderly'
  BY <1>8 DEF Orderly, Alone, Progress, OwnResponse, Active,
     ReadChannel, Return, eventVars, dataVars, sdkVars
<1>9. ASSUME NEW c \in CardCalls, FutureReady(c) PROVE Orderly'
  BY <1>9 DEF Orderly, Alone, Progress, OwnResponse, Active,
     FutureReady, Return, eventVars, dataVars, sdkVars
<1>10. ASSUME NEW c \in CardCalls, FutureTimeout(c) PROVE Orderly'
  BY <1>10 DEF Orderly, Alone, Progress, OwnResponse, Active,
     FutureTimeout, Return, eventVars, dataVars, sdkVars
<1>11. ASSUME NEW c \in CardCalls, NEW a \in AnswersTo(kind[c]), AnswerOpen(c, a) PROVE Orderly'
  <2>0. calm /\ \A d \in CardCalls \ {c} : at[d] \in {"new", "done"} /\ sdk[d] \in {"idle", "done"}
    BY <1>11 DEF AnswerOpen, Orderly, Alone, Active
  <2>1. /\ at[c] \in {"sent", "waiting"}
        /\ at' = [at EXCEPT ![c] = IF at[c] = "waiting" THEN "notified" ELSE at[c]]
    BY <1>11, <2>0 DEF AnswerOpen, Wake, EventOf, Orderly, Progress, Places
  <2>2. Alone'
    BY <1>11, <2>0, <2>1 DEF AnswerOpen, Orderly, Alone, Active
  <2>3. ASSUME NEW d \in CardCalls PROVE Progress(d)'
    <3>1. CASE d = c
      <4>1. at[c] = "waiting" => expected = "open"
        BY <1>11, <2>0 DEF AnswerOpen, EventOf, Orderly, Progress
      <4>2. expected = "open" => (errorOk' <=> Verdict("open", a) = "ok")
        BY <1>11 DEF AnswerOpen, AnswersTo, Answers, SetError, Verdict
      <4> QED
        BY <1>11, <2>0, <2>1, <3>1, <4>1, <4>2
        DEF AnswerOpen, clientVars, Orderly, Progress
    <3>2. CASE d # c
      BY <1>11, <2>0, <2>1, <3>2 DEF AnswerOpen, clientVars, Orderly, Progress
    <3> QED
      BY <3>1, <3>2
  <2>4. ASSUME NEW d \in CardCalls PROVE OwnResponse(d)'
    BY <1>11, <2>0, <2>1
    DEF AnswerOpen, AnswersTo, Answers, SetError, EventOf, Verdict, clientVars,
        Orderly, OwnResponse
  <2> QED
    BY <2>2, <2>3, <2>4 DEF Orderly
<1>12. ASSUME NEW c \in CardCalls, NEW a \in AnswersTo(kind[c]), AnswerTransmit(c, a) PROVE Orderly'
  <2>0. calm /\ \A d \in CardCalls \ {c} : at[d] \in {"new", "done"} /\ sdk[d] \in {"idle", "done"}
    BY <1>12 DEF AnswerTransmit, Orderly, Alone, Active
  <2>1. /\ at[c] \in {"sent", "waiting"}
        /\ at' = [at EXCEPT ![c] = IF at[c] = "waiting" THEN "notified" ELSE at[c]]
    BY <1>12, <2>0 DEF AnswerTransmit, Wake, EventOf, Orderly, Progress, Places
  <2>2. Alone'
    BY <1>12, <2>0, <2>1 DEF AnswerTransmit, Orderly, Alone, Active
  <2>3. ASSUME NEW d \in CardCalls PROVE Progress(d)'
    BY <1>12, <2>0, <2>1
    DEF AnswerTransmit, AnswersTo, Answers, SetError, EventOf, Verdict, clientVars,
        Orderly, Progress
  <2>4. ASSUME NEW d \in CardCalls PROVE OwnResponse(d)'
    BY <1>12, <2>0, <2>1
    DEF AnswerTransmit, AnswersTo, Answers, SetError, EventOf, Verdict, clientVars,
        Orderly, OwnResponse
  <2> QED
    BY <2>2, <2>3, <2>4 DEF Orderly
<1>13. ASSUME NEW c \in CardCalls, NEW a \in AnswersTo(kind[c]), AnswerClose(c, a) PROVE Orderly'
  BY <1>13 DEF Orderly, Alone, Progress, OwnResponse, Active,
     AnswerClose, AnswersTo, Verdict, eventVars, dataVars, clientVars
<1>14. ASSUME NEW c \in CardCalls, SignalClose(c) PROVE Orderly'
  <2>0. calm /\ \A d \in CardCalls \ {c} : at[d] \in {"new", "done"} /\ sdk[d] \in {"idle", "done"}
    BY <1>14 DEF SignalClose, Orderly, Alone, Active
  <2>1. /\ at[c] \in {"sent", "waiting"}
        /\ at' = [at EXCEPT ![c] = IF at[c] = "waiting" THEN "notified" ELSE at[c]]
    BY <1>14, <2>0 DEF SignalClose, Wake, EventOf, Orderly, Progress, Places
  <2>2. Alone'
    BY <1>14, <2>0, <2>1 DEF SignalClose, Orderly, Alone, Active
  <2>3. ASSUME NEW d \in CardCalls PROVE Progress(d)'
    BY <1>14, <2>0, <2>1
    DEF SignalClose, SetError, EventOf, Verdict, dataVars, clientVars, Orderly,
        Progress
  <2>4. ASSUME NEW d \in CardCalls PROVE OwnResponse(d)'
    BY <1>14, <2>0, <2>1
    DEF SignalClose, SetError, EventOf, Verdict, dataVars, clientVars, Orderly,
        OwnResponse
  <2> QED
    BY <2>2, <2>3, <2>4 DEF Orderly
<1>15. CASE UNCHANGED cardVars
  BY <1>15
  DEF cardVars, eventVars, dataVars, sdkVars, clientVars, Orderly, Alone, Progress,
      OwnResponse, Active
<1> QED
  BY <1>1, <1>2, <1>3, <1>4, <1>5, <1>6, <1>7, <1>8, <1>9, <1>10, <1>11, <1>12, <1>13, <1>14,
     <1>15
  DEF CardNext, Service, Continue, Sdk

-----------------------------------------------------------------------------

LEMMA Invariance == CardSpec => []CardIInv
<1>1. CardInit => CardIInv
  <2> SUFFICES ASSUME CardInit PROVE CardIInv
    OBVIOUS
  <2>1. CardTypeOK
    BY
    DEF CardInit, CardTypeOK, Kinds, CardEvent, Answers, Verdicts, Responses, NoResponse,
        Places
  <2>2. Told
    BY DEF CardInit, Told
  <2>3. Orderly
    BY DEF CardInit, Orderly, Alone, Progress, OwnResponse, Active
  <2> QED
    BY <2>1, <2>2, <2>3 DEF CardIInv
<1>2. CardIInv /\ [CardNext]_cardVars => CardIInv'
  BY CardTypeStep, ToldStep, OrderlyStep DEF CardIInv
<1> QED
  BY <1>1, <1>2, PTL DEF CardSpec

\* Type correctness of the requests to the card.
THEOREM CardTypesCorrect == CardSpec => []CardTypeOK
<1>1. CardIInv => CardTypeOK
  BY DEF CardIInv
<1> QED
  BY <1>1, Invariance, PTL

\* Whatever other calls do to the shared event, a client's callback is told what
\* the card answered to its own request.
THEOREM CallbacksAreOwn == CardSpec => []CallbackIsOwn
<1>1. CardIInv => CallbackIsOwn
  BY DEF CardIInv, CardTypeOK, Told, CallbackIsOwn
<1> QED
  BY <1>1, Invariance, PTL

\* CardCalls one at a time that the card answers in time give their own response and
\* leave no event behind.
THEOREM CalmResponsesAreOwn == CardSpec => []CalmResponseIsOwn
<1>1. CardIInv => CalmResponseIsOwn
  BY DEF CardIInv, Orderly, Alone, OwnResponse, Active, CalmResponseIsOwn
<1> QED
  BY <1>1, Invariance, PTL

\* And such a call returns the card's success, except an open answered too early.
THEOREM CalmSuccessesReturn == CardSpec => []CalmSuccessReturns
<1>1. CardIInv => CalmSuccessReturns
  BY DEF CardIInv, Orderly, OwnResponse, CalmSuccessReturns
<1> QED
  BY <1>1, Invariance, PTL

-----------------------------------------------------------------------------
(* The profile events.                                                     *)


\* The guard of the launches is down whenever the PA is up, until a Deinit
\* deregistered the listener, and again as soon as Init has begun.
GuardFollowsLife ==
    life \in {"up", "block", "unblocked", "managersUp"} => ~blocked

\* DrainedIsQuiet needs the count to be exact at the moment the drain ends, and
\* the count is a natural number only because it is exact.
IInv ==
    /\ TypeOK
    /\ CountIsExact
    /\ GuardFollowsLife
    /\ DrainedIsQuiet
    /\ OneRequestAtATime

\* The workers are finitely many, and counted by a natural number.
LEMMA WorkersFinite == IsFiniteSet(Workers) /\ Cardinality(Workers) \in Nat
<1>1. Workers \in SUBSET Events
  BY DEF Workers
<1>2. IsFiniteSet(Workers)
  BY <1>1, ProfileEventsAssumption, FS_Subset DEF ProfileEventsAssumption
<1> QED
  BY <1>2, FS_CardinalityType

\* What a thread's move does to the set of workers.
LEMMA MoveWorkers ==
  ASSUME TypeOK, NEW t \in Threads, NEW step \in Steps, Goto(t, step)
  PROVE  /\ t \in Events /\ step \in Counted => Workers' = Workers \cup {t}
         /\ t \in Events /\ step \notin Counted => Workers' = Workers \ {t}
         /\ t \notin Events => Workers' = Workers
  BY DEF TypeOK, Threads, Goto, Workers

\* The types of the variables a thread's move does not count on.
LEMMA MoveTypes ==
  ASSUME TypeOK, NEW t \in Threads, NEW step \in Steps, Goto(t, step)
  PROVE  pc' \in [Threads -> Steps]
  BY DEF TypeOK, Goto

-----------------------------------------------------------------------------
(* The count.                                                              *)

\* A counted event that moves on among the counted steps leaves the count.
LEMMA CountKept ==
  ASSUME TypeOK, CountIsExact, UNCHANGED count, Workers' = Workers
  PROVE  CountIsExact' /\ count' \in Nat
  BY DEF TypeOK, CountIsExact

LEMMA CountUp ==
  ASSUME TypeOK, CountIsExact, NEW e \in Events, e \notin Workers,
         Workers' = Workers \cup {e}, count' = count + 1
  PROVE  CountIsExact' /\ count' \in Nat
<1>1. Cardinality(Workers') = Cardinality(Workers) + 1
  BY WorkersFinite, FS_AddElement
<1>2. Cardinality(Workers) \in Nat
  BY WorkersFinite
<1> QED
  BY <1>1, <1>2 DEF CountIsExact

LEMMA CountDown ==
  ASSUME TypeOK, CountIsExact, NEW e \in Workers,
         Workers' = Workers \ {e}, count' = count - 1
  PROVE  CountIsExact' /\ count' \in Nat
<1>1. Cardinality(Workers') = Cardinality(Workers) - 1 /\ IsFiniteSet(Workers')
  BY WorkersFinite, FS_RemoveElement
<1>2. Cardinality(Workers') \in Nat
  BY <1>1, FS_CardinalityType
<1> QED
  BY <1>1, <1>2 DEF CountIsExact

LEMMA CountStep == IInv /\ [Next]_vars => CountIsExact' /\ count' \in Nat
<1> SUFFICES ASSUME TypeOK, CountIsExact, [Next]_vars
             PROVE  CountIsExact' /\ count' \in Nat
  BY DEF IInv
<1> DEFINE Goal == CountIsExact' /\ count' \in Nat
<1>1. ASSUME NEW t \in Threads, Details(t) PROVE Goal
  <2>1. CASE Leave(t)
    <3>1. Goto(t, "done") /\ pc[t] = "leaving"
      BY <2>1 DEF Leave
    <3>2. CASE t \in Events
      <4>1. Workers' = Workers \ {t} /\ t \in Workers
        BY <3>1, <3>2, MoveWorkers DEF Steps, Counted, Workers
      <4>2. count' = count - 1
        BY <2>1, <3>2 DEF Leave
      <4> QED
        BY <4>1, <4>2, CountDown
    <3>3. CASE t \notin Events
      <4>1. Workers' = Workers /\ count' = count
        BY <2>1, <3>1, <3>3, MoveWorkers DEF Leave, Steps
      <4> QED
        BY <4>1, CountKept
    <3> QED
      BY <3>2, <3>3
  <2>2. CASE ~Leave(t)
    <3>1. UNCHANGED count
      BY <1>1, <2>2 DEF Details, CheckPhone, Lock, Request, AnswerTimeout, Send, drainVars
    <3>2. pc[t] \in Counted
      BY <1>1, <2>2 DEF Details, CheckPhone, Lock, Request, AnswerTimeout, Send, Counted
    <3>3. UNCHANGED pc \/ \E step \in Counted : Goto(t, step)
      BY <1>1, <2>2 DEF Details, CheckPhone, Lock, Request, AnswerTimeout, Send, Counted
    <3>4. CASE UNCHANGED pc
      BY <3>1, <3>4, CountKept DEF Workers
    <3>5. CASE \E step \in Counted : Goto(t, step)
      <4>1. PICK step \in Counted : Goto(t, step)
        BY <3>5
      <4>2. step \in Steps
        BY <4>1 DEF Steps
      <4>3. t \in Events => t \in Workers
        BY <3>2 DEF Workers
      <4>4. Workers' = Workers
        BY <4>1, <4>2, <4>3, MoveWorkers
      <4> QED
        BY <3>1, <4>4, CountKept
    <3> QED
      BY <3>3, <3>4, <3>5
  <2> QED
    BY <2>1, <2>2
<1>2. ASSUME NEW t \in Threads, Answer(t) PROVE Goal
  <2>1. PICK step \in {"sending", "leaving"} : Goto(t, step)
    BY <1>2 DEF Answer
  <2>2. t \in Events => t \in Workers
    BY <1>2 DEF Answer, Workers, Counted
  <2>3. step \in Steps /\ step \in Counted
    BY <2>1 DEF Steps, Counted
  <2>4. Workers' = Workers
    BY <2>1, <2>2, <2>3, MoveWorkers
  <2> QED
    BY <1>2, <2>4, CountKept DEF Answer, drainVars
<1>3. ASSUME NEW e \in Events, Notify(e) \/ Classify(e) \/ SendDeleted(e) PROVE Goal
  <2>1. PICK step \in {"notified", "done", "deleted", "admit"} : Goto(e, step)
    BY <1>3 DEF Notify, Classify, SendDeleted
  <2>2. e \notin Workers
    BY <1>3 DEF Notify, Classify, SendDeleted, Workers, Counted
  <2>3. e \in Threads /\ step \in Steps /\ step \notin Counted
    BY <2>1 DEF Threads, Steps, Counted
  <2>4. Workers' = Workers
    BY <2>1, <2>2, <2>3, MoveWorkers
  <2> QED
    BY <1>3, <2>4, CountKept DEF Notify, Classify, SendDeleted, drainVars
<1>4. ASSUME NEW e \in Events, Admit(e) PROVE Goal
  <2>1. e \in Threads /\ e \notin Workers
    BY <1>4 DEF Threads, Admit, Workers, Counted
  <2>2. "done" \in Steps \ Counted /\ "launching" \in Steps \cap Counted
    BY DEF Steps, Counted
  <2>3. CASE Goto(e, "done") /\ UNCHANGED count
    <3>1. Workers' = Workers
      BY <2>1, <2>2, <2>3, MoveWorkers
    <3> QED
      BY <3>1, <2>3, CountKept
  <2>4. CASE Goto(e, "launching") /\ count' = count + 1
    <3>1. Workers' = Workers \cup {e}
      BY <2>1, <2>2, <2>4, MoveWorkers
    <3> QED
      BY <3>1, <2>1, <2>4, CountUp
  <2> QED
    BY <1>4, <2>3, <2>4 DEF Admit
<1>5. ASSUME NEW e \in Events, Launch(e) PROVE Goal
  <2>1. e \in Threads /\ e \in Workers
    BY <1>5 DEF Threads, Launch, Workers, Counted
  <2>2. "done" \in Steps \ Counted /\ "started" \in Steps \cap Counted
    BY DEF Steps, Counted
  <2>3. CASE Goto(e, "started") /\ UNCHANGED count
    <3>1. Workers' = Workers
      BY <2>1, <2>2, <2>3, MoveWorkers
    <3> QED
      BY <3>1, <2>3, CountKept
  <2>4. CASE Goto(e, "done") /\ count' = count - 1
    <3>1. Workers' = Workers \ {e}
      BY <2>1, <2>2, <2>4, MoveWorkers
    <3> QED
      BY <3>1, <2>1, <2>4, CountDown
  <2> QED
    BY <1>5, <2>3, <2>4 DEF Launch
<1>6. ASSUME NEW c \in Calls, CallBegins(c) PROVE Goal
  <2>1. c \in Threads /\ c \notin Events
    BY ProfileEventsAssumption DEF ProfileEventsAssumption, Threads
  <2>2. PICK step \in {"started", "done"} : Goto(c, step)
    BY <1>6 DEF CallBegins
  <2>3. step \in Steps
    BY <2>2 DEF Steps, Counted
  <2>4. Workers' = Workers
    BY <2>1, <2>2, <2>3, MoveWorkers
  <2> QED
    BY <1>6, <2>4, CountKept DEF CallBegins, drainVars
<1>7. ASSUME Lifecycle \/ Tick \/ UNCHANGED vars PROVE Goal
  <2>1. UNCHANGED <<count, pc>>
    BY <1>7 DEF Lifecycle, StartDeinit, BlockLaunches, Drained, DrainTimeout,
                ClearManagers, DeinitPhone, InitPhone, Unblock, InitManagers,
                Register, Tick, vars, drainVars
  <2> QED
    BY <2>1, CountKept DEF Workers
<1> QED
  BY <1>1, <1>2, <1>3, <1>4, <1>5, <1>6, <1>7 DEF Next, Event, Threads

-----------------------------------------------------------------------------
(* The types.                                                              *)

LEMMA TypeStep == IInv /\ [Next]_vars => TypeOK'
<1> SUFFICES ASSUME IInv, [Next]_vars PROVE TypeOK'
  OBVIOUS
<1>1. count' \in Nat
  BY CountStep
<1> USE <1>1, ProfileEventsAssumption
    DEF ProfileEventsAssumption, IInv, TypeOK, Goto, Steps, Counted, LifeSteps,
        lifeVars, drainVars, LifeStep
<1>2. ASSUME NEW t \in Threads, Details(t) PROVE TypeOK'
  <2>1. CASE CheckPhone(t)    BY <2>1 DEF CheckPhone
  <2>2. CASE Lock(t)          BY <2>2 DEF Lock
  <2>3. CASE Request(t)       BY <2>3 DEF Request
  <2>4. CASE AnswerTimeout(t) BY <2>4 DEF AnswerTimeout
  <2>5. CASE Send(t)          BY <2>5 DEF Send
  <2>6. CASE Leave(t)         BY <2>6 DEF Leave
  <2> QED
    BY <1>2, <2>1, <2>2, <2>3, <2>4, <2>5, <2>6 DEF Details
<1>3. ASSUME NEW t \in Threads, Answer(t) PROVE TypeOK'
  BY <1>3 DEF Answer
<1>4. ASSUME NEW e \in Threads, Notify(e) \/ Classify(e) \/ SendDeleted(e) PROVE TypeOK'
  BY <1>4 DEF Notify, Classify, SendDeleted
<1>5. ASSUME NEW e \in Threads, Admit(e) \/ Launch(e) PROVE TypeOK'
  BY <1>5 DEF Admit, Launch
<1>6. ASSUME NEW c \in Threads, CallBegins(c) PROVE TypeOK'
  BY <1>6 DEF CallBegins
<1>7. ASSUME Lifecycle PROVE TypeOK'
  <2>1. CASE StartDeinit
    <3>1. deinits' \in 0..MaxDeinits
      BY <2>1 DEF StartDeinit
    <3> QED
      BY <2>1, <3>1 DEF StartDeinit
  <2>2. CASE BlockLaunches
    <3>1. drain' \in 0..Timeout
      BY <2>2 DEF BlockLaunches
    <3> QED
      BY <2>2, <3>1 DEF BlockLaunches
  <2>3. CASE Drained BY <2>3 DEF Drained
  <2>4. CASE DrainTimeout BY <2>4 DEF DrainTimeout
  <2>5. CASE ClearManagers BY <2>5 DEF ClearManagers
  <2>6. CASE DeinitPhone BY <2>6 DEF DeinitPhone
  <2>7. CASE InitPhone BY <2>7 DEF InitPhone
  <2>8. CASE Unblock BY <2>8 DEF Unblock
  <2>9. CASE InitManagers BY <2>9 DEF InitManagers
  <2>10. CASE Register BY <2>10 DEF Register
  <2> QED
    BY <1>7, <2>1, <2>2, <2>3, <2>4, <2>5, <2>6, <2>7, <2>8, <2>9, <2>10 DEF Lifecycle
<1>8. CASE Tick
  <2>1. \A n \in 0..Timeout : Later(n) \in 0..Timeout
    BY DEF Later
  <2>2. waited' \in [Threads -> 0..Timeout] /\ drain' \in 0..Timeout
    BY <1>8, <2>1 DEF Tick
  <2> QED
    BY <1>8, <2>2 DEF Tick
<1>9. CASE UNCHANGED vars
  BY <1>9 DEF vars
<1> QED
  BY <1>2, <1>3, <1>4, <1>5, <1>6, <1>7, <1>8, <1>9 DEF Next, Event, Threads

-----------------------------------------------------------------------------
(* The drain.                                                              *)

\* While the guard is up no event joins the workers.
LEMMA NoNewWorker ==
  ASSUME TypeOK, [Next]_vars, blocked
  PROVE  Workers' \subseteq Workers
<1>1. ASSUME NEW e \in Events, Event(e) \/ Notify(e) \/ Answer(e)
      PROVE  Workers' \subseteq Workers
  BY <1>1 DEF TypeOK, Threads, Workers, Goto, Counted, Notify, Event, Classify,
              SendDeleted, Admit, Launch, Details, CheckPhone, Lock, Request,
              Answer, AnswerTimeout, Send, Leave
<1>2. ASSUME NEW c \in Calls, CallBegins(c) \/ Details(c) \/ Answer(c)
      PROVE  Workers' \subseteq Workers
  <2>1. c \notin Events
    BY ProfileEventsAssumption DEF ProfileEventsAssumption
  <2> QED
    BY <1>2, <2>1 DEF TypeOK, Threads, Workers, Goto, CallBegins, Details, CheckPhone,
              Lock, Request, Answer, AnswerTimeout, Send, Leave
<1>3. ASSUME Lifecycle \/ Tick \/ UNCHANGED vars PROVE Workers' \subseteq Workers
  <2>1. UNCHANGED pc
    BY <1>3 DEF Lifecycle, StartDeinit, BlockLaunches, Drained, DrainTimeout,
                ClearManagers, DeinitPhone, InitPhone, Unblock, InitManagers,
                Register, Tick, vars
  <2> QED
    BY <2>1 DEF Workers
<1> QED
  BY <1>1, <1>2, <1>3 DEF Next

LEMMA DrainStep == IInv /\ [Next]_vars => GuardFollowsLife' /\ DrainedIsQuiet'
<1> SUFFICES ASSUME IInv, [Next]_vars PROVE GuardFollowsLife' /\ DrainedIsQuiet'
  OBVIOUS
<1>1. CASE Lifecycle
  <2>1. Workers' = Workers
    BY <1>1 DEF Lifecycle, StartDeinit, BlockLaunches, Drained, DrainTimeout,
                ClearManagers, DeinitPhone, InitPhone, Unblock, InitManagers,
                Register, Workers
  <2>2. CASE Drained
    \* The count is exact, so an empty count is an empty set of workers.
    <3>1. Workers = {}
      BY <2>2, WorkersFinite, FS_EmptySet DEF Drained, IInv, CountIsExact
    <3> QED
      BY <2>1, <2>2, <3>1 DEF Drained, LifeStep, drainVars, GuardFollowsLife,
                              DrainedIsQuiet
  <2> USE DEF IInv, GuardFollowsLife, DrainedIsQuiet, LifeStep, drainVars
  <2>3. CASE StartDeinit BY <2>1, <2>3 DEF StartDeinit
  <2>4. CASE BlockLaunches BY <2>1, <2>4 DEF BlockLaunches
  <2>5. CASE DrainTimeout BY <2>1, <2>5 DEF DrainTimeout
  <2>6. CASE ClearManagers BY <2>1, <2>6 DEF ClearManagers
  <2>7. CASE DeinitPhone BY <2>1, <2>7 DEF DeinitPhone
  <2>8. CASE InitPhone BY <2>1, <2>8 DEF InitPhone
  <2>9. CASE Unblock BY <2>1, <2>9 DEF Unblock
  <2>10. CASE InitManagers BY <2>1, <2>10 DEF InitManagers
  <2>11. CASE Register BY <2>1, <2>11 DEF Register
  <2> QED
    BY <1>1, <2>2, <2>3, <2>4, <2>5, <2>6, <2>7, <2>8, <2>9, <2>10, <2>11 DEF Lifecycle
<1>2. CASE ~Lifecycle
  <2>1. UNCHANGED <<life, blocked, overrun>>
    <3>1. ASSUME NEW t \in Threads, Event(t) \/ Notify(t) \/ Answer(t) \/ CallBegins(t)
          PROVE  UNCHANGED <<life, blocked, overrun>>
      BY <3>1 DEF Notify, Event, Classify, SendDeleted, Admit, Launch, Details,
                  CheckPhone, Lock, Request, Answer, AnswerTimeout, Send, Leave,
                  CallBegins, lifeVars, drainVars
    <3> QED
      BY <1>2, <3>1 DEF Next, Threads, Event, Tick, vars, lifeVars
  <2>2. blocked => Workers' \subseteq Workers
    BY NoNewWorker DEF IInv
  <2> QED
    BY <2>1, <2>2 DEF IInv, GuardFollowsLife, DrainedIsQuiet
<1> QED
  BY <1>1, <1>2

-----------------------------------------------------------------------------
(* The mutex.                                                              *)

LEMMA MutexStep == IInv /\ [Next]_vars => OneRequestAtATime'
<1> SUFFICES ASSUME TypeOK, OneRequestAtATime, [Next]_vars PROVE OneRequestAtATime'
  BY DEF IInv
<1> USE DEF TypeOK, OneRequestAtATime, Goto
<1>1. ASSUME NEW t \in Threads, Details(t) PROVE OneRequestAtATime'
  <2>0. Nobody # t /\ Nobody \notin Threads
    BY ProfileEventsAssumption DEF ProfileEventsAssumption, Threads
  <2>1. CASE CheckPhone(t)    BY <2>1 DEF CheckPhone
  <2>2. CASE Lock(t)          BY <2>0, <2>2 DEF Lock
  <2>3. CASE Request(t)       BY <2>0, <2>3 DEF Request
  <2>4. CASE AnswerTimeout(t) BY <2>0, <2>4 DEF AnswerTimeout
  <2>5. CASE Send(t)          BY <2>5 DEF Send
  <2>6. CASE Leave(t)         BY <2>6 DEF Leave
  <2> QED
    BY <1>1, <2>1, <2>2, <2>3, <2>4, <2>5, <2>6 DEF Details
<1>2. ASSUME NEW t \in Threads, Answer(t) PROVE OneRequestAtATime'
  <2>0. Nobody # t /\ Nobody \notin Threads
    BY ProfileEventsAssumption DEF ProfileEventsAssumption, Threads
  <2> QED
    BY <1>2, <2>0 DEF Answer
<1>3. ASSUME NEW t \in Threads,
             Notify(t) \/ Classify(t) \/ SendDeleted(t) \/ CallBegins(t)
      PROVE  OneRequestAtATime'
  BY <1>3 DEF Notify, Classify, SendDeleted, CallBegins
<1>4. ASSUME NEW t \in Threads, Admit(t) \/ Launch(t) PROVE OneRequestAtATime'
  BY <1>4 DEF Admit, Launch
<1>5. ASSUME Lifecycle \/ Tick \/ UNCHANGED vars PROVE OneRequestAtATime'
  <2>1. UNCHANGED <<mutex, pc>>
    BY <1>5 DEF Lifecycle, StartDeinit, BlockLaunches, Drained, DrainTimeout,
                ClearManagers, DeinitPhone, InitPhone, Unblock, InitManagers,
                Register, Tick, vars
  <2> QED
    BY <2>1
<1> QED
  BY <1>1, <1>2, <1>3, <1>4, <1>5 DEF Next, Event, Threads

-----------------------------------------------------------------------------
\* The strengthened invariant holds of every behaviour.
THEOREM Invariant == Spec => []IInv
<1>1. Init => IInv
  <2> SUFFICES ASSUME Init PROVE IInv
    OBVIOUS
  <2>1. Workers = {}
    BY DEF Init, Workers, Counted, Threads
  <2>2. CountIsExact
    BY <2>1, FS_EmptySet DEF Init, CountIsExact
  <2>3. TypeOK
    <3>1. 0 \in 0..Timeout /\ 0 \in 0..MaxDeinits
      BY ProfileEventsAssumption DEF ProfileEventsAssumption
    <3>2. pc \in [Threads -> Steps] /\ waited \in [Threads -> 0..Timeout]
      BY <3>1 DEF Init, Steps
    <3> QED
      BY <3>1, <3>2 DEF Init, TypeOK, LifeSteps
  <2>4. OneRequestAtATime
    BY ProfileEventsAssumption DEF ProfileEventsAssumption, Init, OneRequestAtATime, Threads
  <2>5. GuardFollowsLife /\ DrainedIsQuiet
    BY <2>1 DEF Init, GuardFollowsLife, DrainedIsQuiet
  <2> QED
    BY <2>2, <2>3, <2>4, <2>5 DEF IInv
<1>2. IInv /\ [Next]_vars => IInv'
  BY CountStep, TypeStep, DrainStep, MutexStep DEF IInv
<1> QED
  BY <1>1, <1>2, PTL DEF Spec

\* The count of workers, the guard, the mutex and every thread keep to the values the code
\* gives them, for any events and threads.
THEOREM TypeCorrect == Spec => []TypeOK
<1>1. IInv => TypeOK
  BY DEF IInv
<1> QED
  BY <1>1, Invariant, PTL

\* However many events arrive, and however often the PA is deinitialised,
\* activeAsyncThreadCount_ is the number of workers under way.
THEOREM CountAlwaysExact == Spec => []CountIsExact
<1>1. IInv => CountIsExact
  BY DEF IInv
<1> QED
  BY <1>1, Invariant, PTL

\* A drain that did not time out leaves no worker behind.
THEOREM DrainLeavesNoWorker == Spec => []DrainedIsQuiet
<1>1. IInv => DrainedIsQuiet
  BY DEF IInv
<1> QED
  BY <1>1, Invariant, PTL

\* At most one request for the details of a profile is with the SDK.
THEOREM RequestsAreSerial == Spec => []OneRequestAtATime
<1>1. IInv => OneRequestAtATime
  BY DEF IInv
<1> QED
  BY <1>1, Invariant, PTL

=============================================================================
