------------------------------ MODULE SimShapes ------------------------------
(***************************************************************************)
(* The requests of the SIM PA that the card answers directly or that the   *)
(* SDK answers within the call, and those of the NTN PA, each by its shape *)
(* (Requests!ShapeSet).                                                    *)
(***************************************************************************)
CardLookUp ==
    [checks |-> TRUE, keeps |-> FALSE, rejects |-> FALSE, voiced |-> FALSE,
     refusal |-> "return", waits |-> "no", answers |-> <<>>,
     needs |-> "nothing", tail |-> FALSE, frame |-> "none", tells |-> "answer",
     returns |-> "ok", late |-> "timeout"]
SlotLookUp == [CardLookUp EXCEPT !.rejects = TRUE]
SubscriptionLookUp == [SlotLookUp EXCEPT !.refusal = "wait"]

taf_pa_sim_getSlotCount == CardLookUp
\* Whatever the service's status is, it is the answer.
taf_pa_sim_IsSubsystemReady == [CardLookUp EXCEPT !.refusal = "wait"]
taf_pa_sim_GetCarrierName == SlotLookUp
taf_pa_sim_IsNtnProfileActive == SlotLookUp
\* Without a subscription the networks are not written, and the function succeeds.
taf_pa_sim_GetHomeNetworkMccMnc == SubscriptionLookUp
taf_pa_sim_GetHomeNetworkMccMncStr == SubscriptionLookUp

\* The card is looked up; the power of it is the card manager's, that of the EID its own.
taf_pa_sim_SetPower ==
    [CardLookUp EXCEPT !.waits = "timed", !.answers = <<"promise">>, !.returns = "answer"]
taf_pa_sim_GetEID == [taf_pa_sim_SetPower EXCEPT !.keeps = TRUE, !.rejects = TRUE]

SimRequests ==
    {taf_pa_sim_getSlotCount, taf_pa_sim_IsSubsystemReady, taf_pa_sim_GetCarrierName,
     taf_pa_sim_IsNtnProfileActive, taf_pa_sim_GetHomeNetworkMccMnc,
     taf_pa_sim_GetHomeNetworkMccMncStr, taf_pa_sim_SetPower, taf_pa_sim_GetEID}

-----------------------------------------------------------------------------
\* The satellite manager, looked at and used in two steps.
NtnLookUp == [CardLookUp EXCEPT !.rejects = TRUE]
NtnSwitch == CardLookUp
taf_pa_ntn_IsNtnSupported == NtnLookUp
taf_pa_ntn_GetNtnCapabilities == NtnLookUp
taf_pa_ntn_GetSignalStrength == NtnLookUp
taf_pa_ntn_SendData == NtnLookUp
taf_pa_ntn_UpdateSystemSelectionSpecifiers == NtnLookUp
taf_pa_ntn_SetLocationFix == NtnLookUp
taf_pa_ntn_EnableNtn == NtnSwitch
taf_pa_ntn_EnableCellularScan == NtnSwitch
taf_pa_ntn_AbortData == NtnSwitch
taf_pa_ntn_LocationFixResponse == NtnSwitch
taf_pa_ntn_GetNtnState == [NtnLookUp EXCEPT !.refusal = "wait"]

NtnRequests ==
    {taf_pa_ntn_IsNtnSupported, taf_pa_ntn_GetNtnCapabilities,
     taf_pa_ntn_GetSignalStrength, taf_pa_ntn_SendData,
     taf_pa_ntn_UpdateSystemSelectionSpecifiers, taf_pa_ntn_SetLocationFix,
     taf_pa_ntn_EnableNtn, taf_pa_ntn_EnableCellularScan, taf_pa_ntn_AbortData,
     taf_pa_ntn_LocationFixResponse, taf_pa_ntn_GetNtnState}

==============================================================================
