---------------------------- MODULE DeviceShapes ----------------------------
(***************************************************************************)
(* The requests of the WLAN, power, thermal and sensor PAs, each by its    *)
(* shape (Requests!ShapeSet).                                              *)
(***************************************************************************)
DeviceLookUp ==
    [checks |-> TRUE, keeps |-> FALSE, rejects |-> FALSE, voiced |-> FALSE,
     refusal |-> "return", waits |-> "no", answers |-> <<>>,
     needs |-> "nothing", tail |-> FALSE, frame |-> "none", tells |-> "answer",
     returns |-> "ok", late |-> "timeout"]

Wlan_getStatus == DeviceLookUp
Wlan_setDeviceMode == DeviceLookUp
Wlan_getDeviceMode == DeviceLookUp
Wlan_setStaBridgeMode == DeviceLookUp
Wlan_getStaBridgeMode == DeviceLookUp
Wlan_setStaIpType == DeviceLookUp
Wlan_setStaIpConfig == DeviceLookUp
Wlan_getStaIpConfig == DeviceLookUp

\* The data settings manager answers later; the promise is shared with the answer.
Wlan_getBandInterferenceConfig ==
    [DeviceLookUp EXCEPT !.waits = "timed", !.answers = <<"promise">>, !.returns = "answer"]
Wlan_setBandInterferenceConfig == Wlan_getBandInterferenceConfig

WlanRequests ==
    {Wlan_getStatus, Wlan_setDeviceMode, Wlan_getDeviceMode, Wlan_setStaBridgeMode,
     Wlan_getStaBridgeMode, Wlan_setStaIpType, Wlan_setStaIpConfig,
     Wlan_getStaIpConfig, Wlan_getBandInterferenceConfig,
     Wlan_setBandInterferenceConfig}

-----------------------------------------------------------------------------
\* The power managers are used without a look.  The promise of the power state dies
\* with the function, and the answer finds out.
PowerLookUp == [DeviceLookUp EXCEPT !.checks = FALSE]
taf_pa_pms_GetAllMachineNames == PowerLookUp
taf_pa_pms_SendAckForStateUpdate == [PowerLookUp EXCEPT !.rejects = TRUE]
taf_pa_pms_SetPowerStateAsMaster ==
    [PowerLookUp EXCEPT !.waits = "timed", !.answers = <<"promise">>, !.returns = "answer"]

PowerRequests ==
    {taf_pa_pms_GetAllMachineNames, taf_pa_pms_SendAckForStateUpdate,
     taf_pa_pms_SetPowerStateAsMaster}

-----------------------------------------------------------------------------
\* The thermal manager.
taf_pa_therm_GetThermalZones == DeviceLookUp
taf_pa_therm_GetThermalZoneById == DeviceLookUp
taf_pa_therm_GetThermalZoneByName == DeviceLookUp
taf_pa_therm_GetTripPoints == DeviceLookUp
taf_pa_therm_GetBoundCoolingDevices == DeviceLookUp
taf_pa_therm_GetCoolingDevices == DeviceLookUp
taf_pa_therm_GetCoolingDeviceById == DeviceLookUp
taf_pa_therm_GetCoolingDeviceByName == DeviceLookUp

ThermalRequests ==
    {taf_pa_therm_GetThermalZones, taf_pa_therm_GetThermalZoneById,
     taf_pa_therm_GetThermalZoneByName, taf_pa_therm_GetTripPoints,
     taf_pa_therm_GetBoundCoolingDevices, taf_pa_therm_GetCoolingDevices,
     taf_pa_therm_GetCoolingDeviceById, taf_pa_therm_GetCoolingDeviceByName}

-----------------------------------------------------------------------------
\* A sensor is looked up and kept; the angles are set on the manager, a copy that
\* nothing checks.  A self-test answers the client alone.
SensorLookUp == [DeviceLookUp EXCEPT !.keeps = TRUE, !.rejects = TRUE]
taf_pa_sensor_SetConfig == SensorLookUp
taf_pa_sensor_SetEulerAngle ==
    [SensorLookUp EXCEPT !.checks = FALSE, !.rejects = FALSE]
SelfTest == [SensorLookUp EXCEPT !.answers = <<"callback">>]
taf_pa_sensor_SelfTestAsync == SelfTest

SensorRequests ==
    {taf_pa_sensor_SetConfig, taf_pa_sensor_SetEulerAngle, taf_pa_sensor_SelfTestAsync}

=============================================================================
