----------------------------- MODULE RadioShapes -----------------------------
(***************************************************************************)
(* The requests of the radio PA, each by its shape (Requests!ShapeSet).    *)
(* All wait for their RequestCallback object, which is shared with the SDK *)
(* and is completed once.                                                  *)
(***************************************************************************)

\* The manager is looked at and used as a member of the adaptor.
RadioRequest ==
    [checks |-> TRUE, keeps |-> FALSE, rejects |-> TRUE, voiced |-> FALSE,
     refusal |-> "return", waits |-> "timed", answers |-> <<"promise">>,
     needs |-> "nothing", tail |-> FALSE, frame |-> "none", tells |-> "answer",
     returns |-> "answer", late |-> "timeout"]
AsksRadio(response) == [RadioRequest EXCEPT !.answers = response]

\* What the SDK answers with: the error, a null pointer or what was asked for is
\* noted in the object, which is then completed.
CommonResponse == <<"promise">>
operatingModeResponse == <<"promise">>
RatPreferenceResponse == <<"promise">>
ServiceDomainPreferenceResponse == <<"promise">>
voiceServiceStateResponse == <<"promise">>
signalStrengthResponse == <<"promise">>
DataServiceStatusResponse == <<"promise">>
CellInfoListResponse == <<"promise">>
OperatorInfoResponse == <<"promise">>
RfBandCapabilityResponse == <<"promise">>
RfBandPreferenceResponse == <<"promise">>
ImsRegistrationInfoResponse == <<"promise">>
ImsServiceInfoResponse == <<"promise">>
ImsPdpStatusResponse == <<"promise">>
ImsSigUserAgentResponse == <<"promise">>
cellularCapabilityResponse == <<"promise">>
RFBandInfoResponse == <<"promise">>
NrIconTypeResponse == <<"promise">>
NetworkModeInfoResponse == <<"promise">>
PreferredNetworksResponse == <<"promise">>

taf_pa_radio_SetOperatingMode == AsksRadio(CommonResponse)
taf_pa_radio_SetPreferredRat == AsksRadio(CommonResponse)
taf_pa_radio_SetServiceDomainPreferences == AsksRadio(CommonResponse)
taf_pa_radio_SetSignalStrengthInd == AsksRadio(CommonResponse)
taf_pa_radio_SetBandPreferences == AsksRadio(CommonResponse)
taf_pa_radio_SetLteBandPreferences == AsksRadio(CommonResponse)
taf_pa_radio_SetImsUserAgent == AsksRadio(CommonResponse)
taf_pa_radio_GetOperatingMode == AsksRadio(operatingModeResponse)
taf_pa_radio_GetPreferredRat == AsksRadio(RatPreferenceResponse)
taf_pa_radio_GetServiceDomainPreferences == AsksRadio(ServiceDomainPreferenceResponse)
taf_pa_radio_GetVoiceServiceInfo == AsksRadio(voiceServiceStateResponse)
taf_pa_radio_GetSignalStrengthLevel == AsksRadio(signalStrengthResponse)
taf_pa_radio_GetSignalStrengthInfo == AsksRadio(signalStrengthResponse)
taf_pa_radio_GetDataServiceState == AsksRadio(DataServiceStatusResponse)
taf_pa_radio_GetCellLocationListInfo == AsksRadio(CellInfoListResponse)
taf_pa_radio_GetCurrNetworkName == AsksRadio(OperatorInfoResponse)
taf_pa_radio_GetBandCapabilities == AsksRadio(RfBandCapabilityResponse)
taf_pa_radio_GetLteBandCapabilities == AsksRadio(RfBandCapabilityResponse)
taf_pa_radio_GetBandPreferences == AsksRadio(RfBandPreferenceResponse)
taf_pa_radio_GetLteBandPreferences == AsksRadio(RfBandPreferenceResponse)
taf_pa_radio_GetImsRegistrationStatus == AsksRadio(ImsRegistrationInfoResponse)
taf_pa_radio_GetImsServiceStatus == AsksRadio(ImsServiceInfoResponse)
taf_pa_radio_GetImsPdpFailureErrorCode == AsksRadio(ImsPdpStatusResponse)
taf_pa_radio_GetImsUserAgent == AsksRadio(ImsSigUserAgentResponse)
taf_pa_radio_GetSimCapacityInfo == AsksRadio(cellularCapabilityResponse)
taf_pa_radio_GetDeviceAndSimCardRatCapability == AsksRadio(cellularCapabilityResponse)
taf_pa_radio_GetServingCellBandInfo == AsksRadio(RFBandInfoResponse)
taf_pa_radio_GetNrIcon == AsksRadio(NrIconTypeResponse)

\* With the network selection manager as a copy.
taf_pa_radio_GetNetworkSelectionPreference ==
    [AsksRadio(NetworkModeInfoResponse) EXCEPT !.keeps = TRUE]
taf_pa_radio_GetPreferredNetwork ==
    [AsksRadio(PreferredNetworksResponse) EXCEPT !.keeps = TRUE]


\* What the SDK has at hand.
RadioLookUp == [RadioRequest EXCEPT !.waits = "no", !.answers = <<>>, !.returns = "ok"]
taf_pa_radio_GetServiceDomain == RadioLookUp
taf_pa_radio_GetLteCsCapability == RadioLookUp
taf_pa_radio_GetEndcAvailability == RadioLookUp
taf_pa_radio_GetDcnrRestriction == RadioLookUp
taf_pa_radio_GetServingRat == RadioLookUp
taf_pa_radio_GetRatSvcStatus == RadioLookUp
taf_pa_radio_GetSmsCapability == RadioLookUp

RadioRequests ==
    {taf_pa_radio_SetOperatingMode, taf_pa_radio_SetPreferredRat,
     taf_pa_radio_SetServiceDomainPreferences, taf_pa_radio_SetSignalStrengthInd,
     taf_pa_radio_SetBandPreferences, taf_pa_radio_SetLteBandPreferences,
     taf_pa_radio_SetImsUserAgent, taf_pa_radio_GetOperatingMode,
     taf_pa_radio_GetPreferredRat, taf_pa_radio_GetServiceDomainPreferences,
     taf_pa_radio_GetVoiceServiceInfo, taf_pa_radio_GetSignalStrengthLevel,
     taf_pa_radio_GetSignalStrengthInfo, taf_pa_radio_GetDataServiceState,
     taf_pa_radio_GetCellLocationListInfo, taf_pa_radio_GetCurrNetworkName,
     taf_pa_radio_GetBandCapabilities, taf_pa_radio_GetLteBandCapabilities,
     taf_pa_radio_GetBandPreferences, taf_pa_radio_GetLteBandPreferences,
     taf_pa_radio_GetImsRegistrationStatus, taf_pa_radio_GetImsServiceStatus,
     taf_pa_radio_GetImsPdpFailureErrorCode, taf_pa_radio_GetImsUserAgent,
     taf_pa_radio_GetSimCapacityInfo, taf_pa_radio_GetDeviceAndSimCardRatCapability,
     taf_pa_radio_GetServingCellBandInfo, taf_pa_radio_GetNrIcon,
     taf_pa_radio_GetNetworkSelectionPreference, taf_pa_radio_GetPreferredNetwork,
     taf_pa_radio_GetServiceDomain, taf_pa_radio_GetLteCsCapability,
     taf_pa_radio_GetEndcAvailability, taf_pa_radio_GetDcnrRestriction,
     taf_pa_radio_GetServingRat, taf_pa_radio_GetRatSvcStatus,
     taf_pa_radio_GetSmsCapability}

==============================================================================
