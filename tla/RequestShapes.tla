----------------------------- MODULE RequestShapes -----------------------------
(***************************************************************************)
(* The functions of the PAs whose request Requests describes, each by its  *)
(* shape (Requests!ShapeSet): those of eCall, voice call, SAP, remote SIM  *)
(* and location here, the others in modules of their own; and what they do *)
(* for their clients.                                                      *)
(***************************************************************************)
EXTENDS Requests, RadioShapes, SmsShapes, AudioShapes, NetShapes, SimShapes, DeviceShapes,
        DataShapes

(* The eCall PA. *)

\* A function that checks and copies its manager, and does not wait.
SendOnly ==
    [checks |-> TRUE, keeps |-> TRUE, rejects |-> TRUE, voiced |-> FALSE,
     refusal |-> "return", waits |-> "no", answers |-> <<"callback">>, needs |-> "nothing",
     tail |-> FALSE, frame |-> "none", tells |-> "answer", returns |-> "ok", late |-> "timeout"]

\* Mutant of CommandCallback: the service is woken before the client is called.
CommandCallbackWakesFirst == <<"promise", "callback">>

\* The callback object of a command and its two steps.
CommandCallback == <<"callback", "promise">>

\* Mutant of Command: the manager is used as a member of the controller.
CommandOnMember ==
    [SendOnly EXCEPT !.keeps = FALSE, !.waits = "timed", !.answers = CommandCallback,
                     !.returns = "answer"]

\* Mutant of Command: the callback object refers to a promise of the function.
CommandOnFrame ==
    [SendOnly EXCEPT !.waits = "timed", !.answers = CommandCallback, !.frame = "answer",
                     !.returns = "answer"]

\* A command that waits for its callback object with a timeout.
Command ==
    [SendOnly EXCEPT !.waits = "timed", !.answers = CommandCallback, !.returns = "answer"]

\* What a dial answers with: a callback object, or a lambda.
MakeCallCallback == <<"call", "callback", "promise">>
DialLambda == <<"call", "promise", "callback">>

\* The list of phones is looked at and used in two steps.
taf_pa_ecall_SetOpMode == [SendOnly EXCEPT !.keeps = FALSE]
taf_pa_ecall_UpdateMsdPdu == SendOnly
taf_pa_ecall_UpdateHlapTimer == SendOnly
taf_pa_ecall_RequestHlapTimer == SendOnly
taf_pa_ecall_SetEcallRedial == SendOnly
taf_pa_ecall_RestartHlapTimer == SendOnly
taf_pa_ecall_RequestNetworkDeregistration == SendOnly
taf_pa_ecall_UpdateMsd == Command
taf_pa_ecall_Answer == Command
taf_pa_ecall_Hangup == Command
taf_pa_ecall_Reject == Command
taf_pa_ecall_RequestHlapTimerStatus ==
    [SendOnly EXCEPT !.waits = "forever", !.answers = <<"promise", "callback">>]
taf_pa_ecall_GetOpMode == [taf_pa_ecall_RequestHlapTimerStatus EXCEPT !.keeps = FALSE]
taf_pa_ecall_MakeECall == [SendOnly EXCEPT !.waits = "forever", !.answers = MakeCallCallback]
taf_pa_ecall_MakeECallPdu == [SendOnly EXCEPT !.waits = "forever", !.answers = DialLambda]
taf_pa_ecall_MakeECallNumber == taf_pa_ecall_MakeECallPdu

Commands ==
    {taf_pa_ecall_UpdateMsd, taf_pa_ecall_Answer, taf_pa_ecall_Hangup, taf_pa_ecall_Reject}
Sends ==
    {taf_pa_ecall_UpdateMsdPdu, taf_pa_ecall_UpdateHlapTimer, taf_pa_ecall_RequestHlapTimer,
     taf_pa_ecall_SetEcallRedial, taf_pa_ecall_RestartHlapTimer,
     taf_pa_ecall_RequestNetworkDeregistration}
PhoneRequests == {taf_pa_ecall_SetOpMode, taf_pa_ecall_GetOpMode}
Dials == {taf_pa_ecall_MakeECall, taf_pa_ecall_MakeECallPdu, taf_pa_ecall_MakeECallNumber}

-----------------------------------------------------------------------------
(* The voice call PA: a copied manager that nothing checks, a callback that *)
(* is told PA_OK whatever the answer to a command is.                      *)

VoiceCommand ==
    [checks |-> FALSE, keeps |-> TRUE, rejects |-> TRUE, voiced |-> FALSE,
     refusal |-> "return", waits |-> "forever", answers |-> <<"promise", "callback">>,
     needs |-> "nothing", tail |-> FALSE, frame |-> "none", tells |-> "ok",
     returns |-> "answer", late |-> "timeout"]

taf_pa_voicecall_Stop == VoiceCommand
taf_pa_voicecall_Hold == VoiceCommand
taf_pa_voicecall_Resume == VoiceCommand
taf_pa_voicecall_Answer == VoiceCommand
taf_pa_voicecall_Swap == VoiceCommand

\* The wait comes before the look at the SDK's status.
taf_pa_voicecall_Make ==
    [VoiceCommand EXCEPT !.rejects = FALSE, !.refusal = "wait", !.tells = "answer"]

VoiceCommands ==
    {taf_pa_voicecall_Stop, taf_pa_voicecall_Hold, taf_pa_voicecall_Resume,
     taf_pa_voicecall_Answer, taf_pa_voicecall_Swap, taf_pa_voicecall_Make}

-----------------------------------------------------------------------------
(* The SAP and remote SIM PAs: the promise is a local of the function, the  *)
(* callback object has its address.                                        *)

CardRequest ==
    [checks |-> TRUE, keeps |-> FALSE, rejects |-> FALSE, voiced |-> FALSE,
     refusal |-> "return", waits |-> "timed", answers |-> <<"promise", "callback">>,
     needs |-> "nothing", tail |-> FALSE, frame |-> "answer", tells |-> "answer",
     returns |-> "answer", late |-> "timeout"]

taf_pa_sap_OpenConnection == CardRequest
taf_pa_sap_CloseConnection == CardRequest
taf_pa_sap_TransmitApdu == CardRequest
taf_pa_sap_RequestAtr == CardRequest
taf_pa_sap_RequestCardReaderStatus == CardRequest
taf_pa_sap_RequestState == CardRequest
taf_pa_remotesim_SendConnectionAvailable == CardRequest
taf_pa_remotesim_SendConnectionUnavailable == CardRequest
taf_pa_remotesim_SendApdu == CardRequest
taf_pa_remotesim_SendCardReset == CardRequest
taf_pa_remotesim_SendCardInserted == CardRequest
taf_pa_remotesim_SendCardRemoved == CardRequest
taf_pa_remotesim_SendCardError == CardRequest
taf_pa_remotesim_SendCardWakeup == CardRequest
taf_pa_remotesim_SendReset == CardRequest

CardRequests ==
    {taf_pa_sap_OpenConnection, taf_pa_sap_CloseConnection, taf_pa_sap_TransmitApdu,
     taf_pa_sap_RequestAtr, taf_pa_sap_RequestCardReaderStatus, taf_pa_sap_RequestState,
     taf_pa_remotesim_SendConnectionAvailable, taf_pa_remotesim_SendConnectionUnavailable,
     taf_pa_remotesim_SendApdu, taf_pa_remotesim_SendCardReset,
     taf_pa_remotesim_SendCardInserted, taf_pa_remotesim_SendCardRemoved,
     taf_pa_remotesim_SendCardError, taf_pa_remotesim_SendCardWakeup,
     taf_pa_remotesim_SendReset}

-----------------------------------------------------------------------------
(* The location PA: the function calls the client itself, with the value of *)
(* the promise, and returns PA_OK whether it came or not.  The answer has   *)
(* references to locals of the function: to the controller, for the error, *)
(* and in a query to what is asked for.                                    *)

\* mLocationConfigurator is used as it is.
ConfigRequest ==
    [checks |-> FALSE, keeps |-> FALSE, rejects |-> FALSE, voiced |-> FALSE,
     refusal |-> "return", waits |-> "timed", answers |-> <<"promise">>, needs |-> "nothing",
     tail |-> TRUE, frame |-> "error", tells |-> "answer", returns |-> "ok", late |-> "ok"]

taf_pa_location_configureConstellations == ConfigRequest
taf_pa_location_deleteAidingData == ConfigRequest
taf_pa_location_deleteAllAidingData == ConfigRequest
taf_pa_location_configureMinSVElevation == ConfigRequest
taf_pa_location_configureNmeaTypes == ConfigRequest
taf_pa_location_configureDR == ConfigRequest
taf_pa_location_configureEngineState == ConfigRequest
taf_pa_location_configureRobustLocation == ConfigRequest
taf_pa_location_configureSecondaryBand == ConfigRequest
taf_pa_location_configureLeverArm == ConfigRequest
taf_pa_location_configureMinGpsWeek == ConfigRequest
taf_pa_location_configureNmea == ConfigRequest
taf_pa_location_injectMerkleTreeInformation == ConfigRequest
taf_pa_location_configureOsnma == ConfigRequest
taf_pa_location_configureEngineIntegrityRisk == ConfigRequest

ConfigRequests ==
    {taf_pa_location_configureConstellations, taf_pa_location_deleteAidingData,
     taf_pa_location_deleteAllAidingData, taf_pa_location_configureMinSVElevation,
     taf_pa_location_configureNmeaTypes, taf_pa_location_configureDR,
     taf_pa_location_configureEngineState, taf_pa_location_configureRobustLocation,
     taf_pa_location_configureSecondaryBand, taf_pa_location_configureLeverArm,
     taf_pa_location_configureMinGpsWeek, taf_pa_location_configureNmea,
     taf_pa_location_injectMerkleTreeInformation, taf_pa_location_configureOsnma,
     taf_pa_location_configureEngineIntegrityRisk}

\* What the SDK reports is written to a local of the function.
Query == [ConfigRequest EXCEPT !.frame = "answer"]

taf_pa_location_requestMinSVElevation == Query
taf_pa_location_requestRobustLocation == Query
taf_pa_location_requestSecondaryBandConfig == Query
taf_pa_location_requestMinGpsWeek == Query
taf_pa_location_requestXtraStatus == Query

Queries ==
    {taf_pa_location_requestMinSVElevation, taf_pa_location_requestRobustLocation,
     taf_pa_location_requestSecondaryBandConfig, taf_pa_location_requestMinGpsWeek,
     taf_pa_location_requestXtraStatus}

\* The client's object is looked up, and kept by its shared pointer.
ReportRequest == [ConfigRequest EXCEPT !.checks = TRUE, !.keeps = TRUE, !.rejects = TRUE]

taf_pa_location_startDetailedEngineReports == ReportRequest
taf_pa_location_stopReports == ReportRequest

ReportRequests ==
    {taf_pa_location_startDetailedEngineReports, taf_pa_location_stopReports}

LocationRequests == ConfigRequests \cup Queries \cup ReportRequests

-----------------------------------------------------------------------------
\* The functions of all the PAs.
PaRequests ==
    Commands \cup Sends \cup PhoneRequests \cup Dials
    \cup {taf_pa_ecall_RequestHlapTimerStatus} \cup VoiceCommands \cup CardRequests
    \cup LocationRequests \cup RadioRequests \cup SmsRequests \cup AudioRequests
    \cup NetRequests \cup SimRequests \cup NtnRequests \cup WlanRequests \cup PowerRequests
    \cup ThermalRequests \cup SensorRequests \cup DataRequests

-----------------------------------------------------------------------------
(* Properties.                                                             *)

\* A command of the eCall PA that returns the answer has told its client:
\* tafEcallPa.cpp:143 sets the promise last.
HeardBeforeReturn ==
    \A c \in Calls :
        shape[c] \in Commands /\ result[c] \in Answers => heard[c] = result[c]

\* The answer meets a frame that is gone only after the wait of a SAP or remote
\* SIM request (tafPaResponseCallback::promise) or of a location request timed
\* out, which in the location PA is the return of PA_OK to a client that hears
\* nothing; an answer that succeeds only when it was a query; or in the query for
\* NAT entries (tafNatPa.cpp:365), also when it failed in time, for the function
\* does not wait for the second promise then.  No other function lets its answer
\* use what it left.
FrameOutlivesAnswer ==
    \A c \in stray :
        \/ shape[c] \in CardRequests /\ result[c] = "timeout"
        \/ /\ shape[c] = taf_pa_nat_QueryDestNatEntryList
           /\ \/ result[c] = "timeout"
              \/ result[c] = "error" /\ answer[c] = "error"
        \/ /\ shape[c] \in LocationRequests /\ result[c] = "ok" /\ heard[c] = "none"
           /\ answer[c] = "ok" => shape[c] \in Queries

\* A Deinit at any moment leaves the commands, sends and dials of the eCall PA
\* alive, which work on copies of the manager they looked at; only the failed
\* answer to a dial, which may have no call object, ends the process.
CommandsSurvive ==
    \A c \in crashed :
        /\ shape[c] \notin Commands \cup Sends
        /\ shape[c] \in Dials => answer[c] = "error"

\* A function that may time out, or whose SDK has begun to answer, returns,
\* unless the process crashes, or it is the one of tafVlanPa.cpp:1096 that waits
\* for a preference which the failed answer does not give it.
RequestsReturn ==
    \A c \in Calls :
        (at[c] = "wait" /\ (shape[c].waits # "forever" \/ sdk[c] = "answering"))
            ~> \/ at[c] = "returned"
               \/ crashed # {}
               \/ shape[c] = taf_pa_net_GetBackhaulPreference /\ promise[c] = "error"

\* The functions that turn a failed answer into an empty list or configuration
\* and succeed.
EmptyOnFailure ==
    {taf_pa_sms_RequestSmsMessageList, taf_pa_sms_RequestMessageFilters,
     taf_pa_net_RequestL2tpConfig}

\* The commands of the voice call PA that tell the callback PA_OK of any answer.
CheerfulCommands == VoiceCommands \ {taf_pa_voicecall_Make}

\* A failure does not get lost between the callback, the return value and the
\* timeout, whichever thread is first.  Once the SDK's failed answer is through
\* and the function has returned, the client has the error from one of the two,
\* or PA_TIMEOUT; a command of the eCall PA or a SAP or remote SIM request that
\* returned PA_TIMEOUT still tells the error to its callback.  Those that lose it
\* are the functions of EmptyOnFailure, and a location request that timed out,
\* whose late error finds the frame gone.  A callback that hears of a success
\* that was none is that of a voice call command, which then returns the error.
\* (A look-up has what the SDK says when it returns: no answer comes later.)
FailureIsHeard ==
    \A c \in Calls :
        answer[c] = "error" =>
            /\ heard[c] = "ok" => shape[c] \in CheerfulCommands
            /\ sdk[c] = "done" /\ at[c] = "returned" /\ shape[c].answers # <<>> =>
                  \/ heard[c] = "error"
                  \/ result[c] = "error"
                  \/ result[c] = "timeout" /\ shape[c] \notin Commands \cup CardRequests
                  \/ shape[c] \in EmptyOnFailure
                  \/ shape[c] \in LocationRequests /\ c \in stray

=============================================================================
