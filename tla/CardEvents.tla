------------------------------ MODULE CardEvents ------------------------------
(***************************************************************************)
(* The requests of the SIM PA to the card: open and close a logical         *)
(* channel, send an APDU, exchange SIM IO.  Each runs on a thread of the    *)
(* service and waits twice, first in WaitForCardEvent for the one card      *)
(* event of the PlatformAdaptor, then for the promise of its own callback   *)
(* object.  The event, its error code and the response are shared by all    *)
(* calls; no lock is held from the first wait to the reading of the         *)
(* response.                                                                *)
(***************************************************************************)
EXTENDS Naturals

CONSTANTS
    CardCalls,       \* calls of the functions, each on a thread of its own
    NoCall       \* the response of no call: what the members hold at first

ASSUME CardCallsAssumption == NoCall \notin CardCalls

VARIABLES
    expected,    \* cardEventExpected
    received,    \* cardRespReceived
    errorOk,     \* errorCode is SUCCESS
    apduResponse,  \* the call whose response the member holds
    openChannel,   \* the call whose channel the member holds
    kind,        \* which function a call is of
    at,          \* where its thread is
    sdk,         \* what the SDK does for it
    answer,      \* what the card answered
    promise,     \* the value of its promise
    heard,       \* what the client's callback was told
    got,         \* whose response the client was given
    result,      \* what the function returned
    calm         \* history: one call at a time, no answer late, no spurious
                 \* wake-up

eventVars == <<expected, received, errorOk>>
dataVars == <<apduResponse, openChannel>>
sdkVars == <<sdk, answer, promise>>
clientVars == <<heard, got, result>>
cardVars == <<eventVars, dataVars, kind, at, sdkVars, clientVars, calm>>

Kinds == {"open", "close", "apdu", "simio"}
CardEvent == {"none", "open", "close", "transmit"}
Answers == {"ok", "error", "odd"}
Verdicts == {"ok", "fault"}
Responses == [status : CardCalls \cup {NoCall}, payload : CardCalls \cup {NoCall}]
NoResponse == [status |-> NoCall, payload |-> NoCall]

Places == {"new", "sent", "waiting", "notified", "late", "read", "status", "future",
           "copy", "done"}

CardTypeOK ==
    /\ expected \in CardEvent /\ received \in BOOLEAN /\ errorOk \in BOOLEAN
    /\ apduResponse \in CardCalls \cup {NoCall} /\ openChannel \in CardCalls \cup {NoCall}
    /\ kind \in [CardCalls -> Kinds]
    /\ at \in [CardCalls -> Places]
    /\ sdk \in [CardCalls -> {"idle", "owes", "telling", "done"}]
    /\ answer \in [CardCalls -> Answers \cup {"none"}]
    /\ promise \in [CardCalls -> Verdicts \cup {"none"}]
    /\ heard \in [CardCalls -> Verdicts \cup {"none"}]
    /\ got \in [CardCalls -> Responses]
    /\ result \in [CardCalls -> Verdicts \cup {"none"}]
    /\ calm \in BOOLEAN

\* The adaptor is a static object: its members start as zeros.
CardInit ==
    /\ expected = "none" /\ received = FALSE /\ errorOk = TRUE
    /\ apduResponse = NoCall /\ openChannel = NoCall
    /\ kind \in [CardCalls -> Kinds]
    /\ at = [c \in CardCalls |-> "new"]
    /\ sdk = [c \in CardCalls |-> "idle"]
    /\ answer = [c \in CardCalls |-> "none"]
    /\ promise = [c \in CardCalls |-> "none"]
    /\ heard = [c \in CardCalls |-> "none"]
    /\ got = [c \in CardCalls |-> NoResponse]
    /\ result = [c \in CardCalls |-> "none"]
    /\ calm = TRUE

EventOf(k) ==
    CASE k = "open" -> "open" [] k = "close" -> "close" [] OTHER -> "transmit"

\* An odd answer has the status words of a failed open, or a payload longer
\* than TAF_PA_SIM_RESPONSE_MAX_BYTES - 2.
AnswersTo(k) == IF k = "close" THEN {"ok", "error"} ELSE Answers

\* Mutant of Verdict: the error of the SDK is passed on as it is.
VerdictRaw(k, a) == a

\* What the callback object of a call tells its promise.
Verdict(k, a) ==
    IF a = "ok" \/ (a = "odd" /\ k # "open") THEN "ok" ELSE "fault"

Active(c) == at[c] \notin {"new", "done"} \/ sdk[c] \in {"owes", "telling"}

Return(c, r) ==
    /\ at' = [at EXCEPT ![c] = "done"]
    /\ result' = [result EXCEPT ![c] = r]

-----------------------------------------------------------------------------
(* The thread of the service.                                              *)

\* No card, no USIM application; the SDK refuses.
Refuse(c) ==
    /\ at[c] = "new"
    /\ Return(c, "fault")
    /\ UNCHANGED <<eventVars, dataVars, kind, sdkVars, heard, got, calm>>

\* The status of openLogicalChannel is not looked at: a refused open waits too.
Ask(c) ==
    /\ at[c] = "new"
    /\ at' = [at EXCEPT ![c] = "sent"]
    /\ \/ sdk' = [sdk EXCEPT ![c] = "owes"]
       \/ kind[c] = "open" /\ UNCHANGED sdk
    /\ calm' = (calm /\ \A d \in CardCalls \ {c} : ~Active(d))
    /\ UNCHANGED <<eventVars, dataVars, kind, answer, promise, clientVars>>

\* Where a call goes on when WaitForCardEvent returns true.
Served(c) == IF kind[c] \in {"open", "close"} THEN "future" ELSE "read"

\* Mutant of EnterWait: an event that came first is not taken back.
EnterWaitKeepsEvent(c) ==
    /\ at[c] = "sent"
    /\ expected' = EventOf(kind[c])
    /\ at' = [at EXCEPT ![c] = IF received THEN Served(c) ELSE "waiting"]
    /\ UNCHANGED <<received, errorOk, dataVars, kind, sdkVars, clientVars, calm>>

\* An event that came before the wait is taken for the call's own, its error
\* unseen; the wait gives up the lock.
EnterWait(c) ==
    /\ at[c] = "sent"
    /\ expected' = EventOf(kind[c])
    /\ received' = FALSE
    /\ at' = [at EXCEPT ![c] = IF received THEN Served(c) ELSE "waiting"]
    /\ UNCHANGED <<errorOk, dataVars, kind, sdkVars, clientVars, calm>>

\* wait_for has no predicate.
WakeSpuriously(c) ==
    /\ at[c] = "waiting"
    /\ at' = [at EXCEPT ![c] = "notified"]
    /\ calm' = FALSE
    /\ UNCHANGED <<eventVars, dataVars, kind, sdkVars, clientVars>>

\* The clock decides, also for a thread that was notified.
TimeOut(c) ==
    /\ at[c] \in {"waiting", "notified"}
    /\ at' = [at EXCEPT ![c] = "late"]
    /\ calm' = (calm /\ at[c] = "waiting" /\ sdk[c] = "done")
    /\ UNCHANGED <<eventVars, dataVars, kind, sdkVars, clientVars>>

\* The lock is taken again: the event of whichever call is dropped.
LeaveWait(c) ==
    /\ at[c] \in {"notified", "late"}
    /\ expected' = "none" /\ received' = FALSE
    /\ \/ /\ at[c] = "notified" /\ errorOk
          /\ at' = [at EXCEPT ![c] = Served(c)]
          /\ UNCHANGED result
       \/ (at[c] = "late" \/ ~errorOk) /\ Return(c, "fault")
    /\ UNCHANGED <<errorOk, dataVars, kind, sdkVars, heard, got, calm>>

\* The payload of whichever answer came last; one that is too long is refused.
TooLong == apduResponse # NoCall /\ answer[apduResponse] = "odd"

ReadPayload(c) ==
    /\ \/ kind[c] = "apdu" /\ at[c] = "read"
       \/ kind[c] = "simio" /\ at[c] = "copy"
    /\ \/ TooLong /\ Return(c, "fault") /\ UNCHANGED got
       \/ /\ ~TooLong
          /\ got' = [got EXCEPT ![c].payload = apduResponse]
          /\ \/ kind[c] = "apdu" /\ at' = [at EXCEPT ![c] = "status"] /\ UNCHANGED result
             \/ kind[c] = "simio" /\ Return(c, "ok")
    /\ UNCHANGED <<eventVars, dataVars, kind, sdkVars, heard, calm>>

\* The status words, after the payload of an APDU, before that of SIM IO.
ReadStatus(c) ==
    /\ \/ kind[c] = "apdu" /\ at[c] = "status"
       \/ kind[c] = "simio" /\ at[c] = "read"
    /\ got' = [got EXCEPT ![c].status = apduResponse]
    /\ at' = [at EXCEPT ![c] = "future"]
    /\ UNCHANGED <<eventVars, dataVars, kind, sdkVars, heard, result, calm>>

ReadChannel(c) ==
    /\ kind[c] = "open" /\ at[c] = "copy"
    /\ got' = [got EXCEPT ![c].payload = openChannel]
    /\ Return(c, "ok")
    /\ UNCHANGED <<eventVars, dataVars, kind, sdkVars, heard, calm>>

\* Mutant of FutureReady: the client is told that the event came.
FutureReadyTellsOk(c) ==
    /\ at[c] = "future" /\ promise[c] # "none"
    /\ heard' = [heard EXCEPT ![c] = "ok"]
    /\ \/ kind[c] \in {"open", "simio"} /\ at' = [at EXCEPT ![c] = "copy"] /\ UNCHANGED result
       \/ kind[c] \in {"close", "apdu"} /\ Return(c, "ok")
    /\ UNCHANGED <<eventVars, dataVars, kind, sdkVars, got, calm>>

\* The client hears the value of the promise; the function returns OK with any.
FutureReady(c) ==
    /\ at[c] = "future" /\ promise[c] # "none"
    /\ heard' = [heard EXCEPT ![c] = promise[c]]
    /\ \/ kind[c] \in {"open", "simio"} /\ at' = [at EXCEPT ![c] = "copy"] /\ UNCHANGED result
       \/ kind[c] \in {"close", "apdu"} /\ Return(c, "ok")
    /\ UNCHANGED <<eventVars, dataVars, kind, sdkVars, got, calm>>

\* Mutant of FutureTimeout: the promise is waited for without a timeout.
FutureTimeoutNever(c) == FALSE /\ UNCHANGED cardVars

FutureTimeout(c) ==
    /\ at[c] = "future" /\ promise[c] = "none"
    /\ Return(c, "fault")
    /\ calm' = (calm /\ sdk[c] = "done")
    /\ UNCHANGED <<eventVars, dataVars, kind, sdkVars, heard, got>>

-----------------------------------------------------------------------------
(* The callback objects, on a thread of the SDK, under eventMutex.         *)

\* notify_one, when the event is the one waited for.
Wake(event) ==
    LET waiters == { c \in CardCalls : at[c] = "waiting" } IN
    \/ /\ expected = event
       /\ \E c \in waiters : at' = [at EXCEPT ![c] = "notified"]
    \/ (expected # event \/ waiters = {}) /\ UNCHANGED at

\* Mutant of SetError: an error is kept.
SetErrorOnly(ok) == errorOk' = (errorOk /\ ok)

SetError(ok) == errorOk' = ok

\* tafPaOpenLogicalChannelCallback::onChannelResponse: unless an open is
\* waiting the promise is left without a value.
AnswerOpen(c, a) ==
    /\ sdk[c] = "owes" /\ kind[c] = "open"
    /\ sdk' = [sdk EXCEPT ![c] = "done"]
    /\ answer' = [answer EXCEPT ![c] = a]
    /\ openChannel' = c
    /\ received' = TRUE
    /\ \/ /\ expected = "open"
          /\ promise' = [promise EXCEPT ![c] = Verdict("open", a)]
          /\ SetError(a = "ok")
       \/ expected # "open" /\ SetError(a # "error") /\ UNCHANGED promise
    /\ Wake("open")
    /\ UNCHANGED <<expected, apduResponse, kind, clientVars, calm>>

\* tafPaTransmitApduResponseCallback::onResponse.
AnswerTransmit(c, a) ==
    /\ sdk[c] = "owes" /\ kind[c] \in {"apdu", "simio"}
    /\ sdk' = [sdk EXCEPT ![c] = "done"]
    /\ answer' = [answer EXCEPT ![c] = a]
    /\ SetError(a # "error")
    /\ apduResponse' = c
    /\ received' = TRUE
    /\ promise' = [promise EXCEPT ![c] = Verdict(kind[c], a)]
    /\ Wake("transmit")
    /\ UNCHANGED <<expected, openChannel, kind, clientVars, calm>>

\* tafPaCloseLogicalChannelCallback::commandResponse, before it has the lock ...
AnswerClose(c, a) ==
    /\ sdk[c] = "owes" /\ kind[c] = "close"
    /\ sdk' = [sdk EXCEPT ![c] = "telling"]
    /\ answer' = [answer EXCEPT ![c] = a]
    /\ promise' = [promise EXCEPT ![c] = Verdict("close", a)]
    /\ UNCHANGED <<eventVars, dataVars, kind, at, clientVars, calm>>

\* ... and under it.
SignalClose(c) ==
    /\ sdk[c] = "telling"
    /\ sdk' = [sdk EXCEPT ![c] = "done"]
    /\ SetError(answer[c] = "ok")
    /\ received' = TRUE
    /\ Wake("close")
    /\ UNCHANGED <<expected, dataVars, kind, answer, promise, clientVars, calm>>

-----------------------------------------------------------------------------

\* A call that was sent runs to its end.
Continue(c) ==
    \/ EnterWait(c) \/ TimeOut(c) \/ LeaveWait(c)
    \/ ReadPayload(c) \/ ReadStatus(c) \/ ReadChannel(c)
    \/ FutureReady(c) \/ FutureTimeout(c)

Service(c) == Refuse(c) \/ Ask(c) \/ WakeSpuriously(c) \/ Continue(c)

Sdk(c) ==
    \/ \E a \in AnswersTo(kind[c]) : AnswerOpen(c, a) \/ AnswerTransmit(c, a) \/ AnswerClose(c, a)
    \/ SignalClose(c)

CardNext == \E c \in CardCalls : Service(c) \/ Sdk(c)

\* The threads of the service run and both waits have a timeout; the SDK owes
\* nothing.
CardSpec == CardInit /\ [][CardNext]_cardVars /\ \A c \in CardCalls : WF_cardVars(Continue(c))

-----------------------------------------------------------------------------
(* Properties.                                                             *)

\* Whatever other calls, timeouts and late answers do to the shared event, a
\* client's callback is told what the card answered to that client's own
\* request: the callback objects have a promise each.
CallbackIsOwn ==
    \A c \in CardCalls : heard[c] # "none" =>
        answer[c] # "none" /\ heard[c] = Verdict(kind[c], answer[c])

\* As long as the clients call one at a time and the card is in time, a call
\* that returns OK gives the response or the channel of its own request, and no
\* event is left over for the next call.
CalmResponseIsOwn ==
    calm =>
        /\ \A c \in CardCalls : result[c] = "ok" =>
              /\ kind[c] # "close" => got[c].payload = c
              /\ kind[c] \in {"apdu", "simio"} => got[c].status = c
        /\ (\A c \in CardCalls : ~Active(c)) => ~received

\* Then a call the card answered well also returns OK, except an open that was
\* answered before it waited (onChannelResponse gives its promise no value).
CalmSuccessReturns ==
    calm => \A c \in CardCalls :
        result[c] = "fault" /\ answer[c] = "ok" => kind[c] = "open" /\ promise[c] = "none"

\* Every call that was sent returns, whether or not the card answers.
CallsReturn == \A c \in CardCalls : at[c] = "sent" ~> at[c] = "done"

=============================================================================
