------------------------------ MODULE SmsShapes ------------------------------
(***************************************************************************)
(* The requests of the SMS PA, each by its shape (Requests!ShapeSet). Each *)
(* copies the manager of its slot, and shares its promise with the         *)
(* callback.                                                               *)
(***************************************************************************)
SmsRequest ==
    [checks |-> TRUE, keeps |-> TRUE, rejects |-> TRUE, voiced |-> FALSE,
     refusal |-> "return", waits |-> "timed", answers |-> <<"promise">>,
     needs |-> "nothing", tail |-> FALSE, frame |-> "none", tells |-> "answer",
     returns |-> "answer", late |-> "timeout"]
tafSmscAddressCallback == <<"promise">>

taf_pa_sms_SetActivationStatus == SmsRequest
taf_pa_sms_SetSmsCenterAddress == SmsRequest
taf_pa_sms_GetPreferredStorage == SmsRequest
taf_pa_sms_SetPreferredStorage == SmsRequest
taf_pa_sms_ReadMessage == SmsRequest
taf_pa_sms_SendRawSms == SmsRequest
taf_pa_sms_SetTag == SmsRequest
taf_pa_sms_DeleteMessage == SmsRequest
taf_pa_sms_GetSmsCenterAddress == [SmsRequest EXCEPT !.answers = tafSmscAddressCallback]

\* A failed answer is an empty list, and the request succeeds.
taf_pa_sms_RequestSmsMessageList == [SmsRequest EXCEPT !.returns = "ok"]
taf_pa_sms_RequestMessageFilters == [SmsRequest EXCEPT !.returns = "ok"]

\* Bad parameters are told to the client too; what the SDK says to the request
\* is not looked at.
taf_pa_sms_SendPDUMessageAsync ==
    [SmsRequest EXCEPT !.voiced = TRUE, !.refusal = "wait", !.waits = "no",
                       !.answers = <<"callback">>, !.returns = "ok"]

SmsRequests ==
    {taf_pa_sms_SetActivationStatus, taf_pa_sms_SetSmsCenterAddress,
     taf_pa_sms_GetPreferredStorage, taf_pa_sms_SetPreferredStorage,
     taf_pa_sms_ReadMessage, taf_pa_sms_SendRawSms, taf_pa_sms_SetTag,
     taf_pa_sms_DeleteMessage, taf_pa_sms_GetSmsCenterAddress,
     taf_pa_sms_RequestSmsMessageList, taf_pa_sms_RequestMessageFilters,
     taf_pa_sms_SendPDUMessageAsync}

==============================================================================
