----------------------------- MODULE DataShapes -----------------------------
(***************************************************************************)
(* The requests of the data PA that wait for an answer of their own or     *)
(* that the SDK answers within the call, each by its shape                 *)
(* (Requests!ShapeSet). The phone manager and the map of the slot's        *)
(* managers are looked at before the map is indexed.                       *)
(***************************************************************************)
SlotRequest ==
    [checks |-> TRUE, keeps |-> FALSE, rejects |-> TRUE, voiced |-> FALSE,
     refusal |-> "return", waits |-> "timed", answers |-> <<"promise">>,
     needs |-> "nothing", tail |-> FALSE, frame |-> "none", tells |-> "answer",
     returns |-> "answer", late |-> "timeout"]

PaGetDefaultProfile == SlotRequest
PaSetDefaultProfile == SlotRequest
paGetThrottledApnInfo == SlotRequest

\* One at a time, under the mutex of the function, which is taken after the look at
\* the map.
PaCreateProfile == SlotRequest
PaUpdateProfile == SlotRequest
PaDeleteProfile == SlotRequest

\* The status is asked of a slot, not of a phone.
PaGetServiceStatus == SlotRequest

ThroughputLookUp == [SlotRequest EXCEPT !.waits = "no", !.answers = <<>>, !.returns = "ok"]
PaSetThroughputReportInterval == ThroughputLookUp
PaGetLastThroughputInfo == ThroughputLookUp

DataRequests ==
    {PaGetDefaultProfile, PaSetDefaultProfile, paGetThrottledApnInfo, PaCreateProfile,
     PaUpdateProfile, PaDeleteProfile, PaGetServiceStatus,
     PaSetThroughputReportInterval, PaGetLastThroughputInfo}

=============================================================================
