---------------------------- MODULE HandlerSlots ----------------------------
(***************************************************************************)
(* The handler slots of the PAs (Handlers!SlotSet): how each Add or        *)
(* Register function writes its slot, how each callback of the SDK reads   *)
(* it, and how the slot is taken out.                                      *)
(***************************************************************************)
EXTENDS Handlers

\* Mutant of Adds: the lock is let go before the context is written.
AddsContextOutside ==
    [locks |-> {"handler"}, once |-> "no", context |-> TRUE, keeps |-> FALSE]

\* The writers and readers most slots have: handler and context under the lock, or the
\* handler alone, which is all the slot has.
Adds == [locks |-> Words, once |-> "no", context |-> TRUE, keeps |-> FALSE]
AddsHandler == [Adds EXCEPT !.context = FALSE]
AddsUnlocked == [Adds EXCEPT !.locks = {}]
AddsContextLater == [Adds EXCEPT !.locks = {"handler"}, !.keeps = TRUE]
Copies == [locks |-> Words, twice |-> FALSE, holds |-> FALSE]
CopiesHandler == [Copies EXCEPT !.locks = {"handler"}]
ReadsLive == [Copies EXCEPT !.locks = {}]
Clears == [words |-> Words, locks |-> TRUE]
ClearsHandler == [Clears EXCEPT !.words = {"handler"}]
ClearsUnlocked == [Clears EXCEPT !.locks = FALSE]
NoClearing == [words |-> {}, locks |-> FALSE]
SlotOf(writer, reader, removal, deinit) ==
    [writer |-> writer, reader |-> reader, removal |-> removal, deinit |-> deinit]

-----------------------------------------------------------------------------
(* The indications of the radio PA.                                        *)

RadioDeinit == Clears
taf_pa_radio_AddNetworkRejectHandler == Adds
taf_pa_radio_AddRatChangeHandler == Adds
taf_pa_radio_AddVoiceServiceInfoHandler == Adds
taf_pa_radio_AddDataServiceStatusHandler == Adds
taf_pa_radio_AddDataRoamingStatusHandler == Adds
taf_pa_radio_AddSignalStrengthInfoChangeHandler == Adds
taf_pa_radio_AddImsRegStatusChangeHandler == Adds
taf_pa_radio_AddOperatingModeChangeHandler == Adds
taf_pa_radio_AddServiceDomainHandler == Adds
taf_pa_radio_AddLteCsCapabilityHandler == Adds
taf_pa_radio_AddImsServiceInfoHandler == Adds
taf_pa_radio_AddImsPdpErrorHandler == Adds
taf_pa_radio_AddCellInfoChangeHandler == Adds
taf_pa_radio_AddNrIconChangeHandler == Adds
taf_pa_radio_AddRatSvcStatusHandler == Adds
taf_pa_radio_AddLteCphyCaHandler == Adds
taf_pa_radio_AddDataAvailSysStatusHandler == Adds
onNetworkRejection == Copies
onSystemInfoChanged == Copies
onLteCsCapabilityChanged == Copies
onVoiceServiceStateChanged == Copies
onSignalStrengthChanged == Copies
onOperatingModeChanged == Copies
onCellInfoListChanged == Copies
onServiceStateChanged == Copies
onRoamingStatusChanged == Copies
onNrIconTypeChanged == Copies
onImsRegStatusChange == Copies
onImsServiceInfoChange == Copies
onImsPdpStatusInfoChange == Copies
LteCphyCaHandler == Copies
DataAvailSysStatusHandler == Copies
RatSvcStatusHandler == CopiesHandler
NetworkReject ==
    SlotOf(taf_pa_radio_AddNetworkRejectHandler, onNetworkRejection, NoClearing, RadioDeinit)
RatChange ==
    SlotOf(taf_pa_radio_AddRatChangeHandler, onSystemInfoChanged, NoClearing, RadioDeinit)
VoiceServiceInfo ==
    SlotOf(taf_pa_radio_AddVoiceServiceInfoHandler, onVoiceServiceStateChanged,
           NoClearing, RadioDeinit)
DataServiceStatus ==
    SlotOf(taf_pa_radio_AddDataServiceStatusHandler, onServiceStateChanged,
           NoClearing, RadioDeinit)
DataRoamingStatus ==
    SlotOf(taf_pa_radio_AddDataRoamingStatusHandler, onRoamingStatusChanged,
           NoClearing, RadioDeinit)
SignalStrengthInfoChange ==
    SlotOf(taf_pa_radio_AddSignalStrengthInfoChangeHandler, onSignalStrengthChanged,
           NoClearing, RadioDeinit)
ImsRegStatusChange ==
    SlotOf(taf_pa_radio_AddImsRegStatusChangeHandler, onImsRegStatusChange,
           NoClearing, RadioDeinit)
OperatingModeChange ==
    SlotOf(taf_pa_radio_AddOperatingModeChangeHandler, onOperatingModeChanged,
           NoClearing, RadioDeinit)
ServiceDomain ==
    SlotOf(taf_pa_radio_AddServiceDomainHandler, onSystemInfoChanged, NoClearing, RadioDeinit)
LteCsCapability ==
    SlotOf(taf_pa_radio_AddLteCsCapabilityHandler, onLteCsCapabilityChanged,
           NoClearing, RadioDeinit)
ImsServiceInfo ==
    SlotOf(taf_pa_radio_AddImsServiceInfoHandler, onImsServiceInfoChange,
           NoClearing, RadioDeinit)
ImsPdpError ==
    SlotOf(taf_pa_radio_AddImsPdpErrorHandler, onImsPdpStatusInfoChange,
           NoClearing, RadioDeinit)
CellInfoChange ==
    SlotOf(taf_pa_radio_AddCellInfoChangeHandler, onCellInfoListChanged,
           NoClearing, RadioDeinit)
NrIconChange ==
    SlotOf(taf_pa_radio_AddNrIconChangeHandler, onNrIconTypeChanged, NoClearing, RadioDeinit)
RatSvcStatus ==
    SlotOf(taf_pa_radio_AddRatSvcStatusHandler, RatSvcStatusHandler, NoClearing, RadioDeinit)
LteCphyCa == SlotOf(taf_pa_radio_AddLteCphyCaHandler, LteCphyCaHandler, NoClearing, RadioDeinit)
DataAvailSysStatus ==
    SlotOf(taf_pa_radio_AddDataAvailSysStatusHandler, DataAvailSysStatusHandler,
           NoClearing, RadioDeinit)

\* This one came later: no lock, and Deinit leaves it.
taf_pa_radio_AddSmsCapabilityHandler == AddsUnlocked
taf_pa_radio_RemoveSmsCapabilityHandler == ClearsUnlocked
onSmsCapabilityChanged == ReadsLive
SmsCapability ==
    SlotOf(taf_pa_radio_AddSmsCapabilityHandler, onSmsCapabilityChanged,
           taf_pa_radio_RemoveSmsCapabilityHandler, NoClearing)

-----------------------------------------------------------------------------
(* The indications of the NTN PA: no lock anywhere.                        *)

NtnDeinit == ClearsUnlocked
taf_pa_ntn_AddSignalStrengthChangeHandler == AddsUnlocked
taf_pa_ntn_AddNtnStateChangeHandler == AddsUnlocked
taf_pa_ntn_AddDataAckHandler == AddsUnlocked
taf_pa_ntn_AddIncomingDataHandler == AddsUnlocked
taf_pa_ntn_AddCapabilitiesChangeHandler == AddsUnlocked
taf_pa_ntn_AddServiceStatusChangeHandler == AddsUnlocked
taf_pa_ntn_AddCellularCoverageAvailableHandler == AddsUnlocked
taf_pa_ntn_AddLocationFixRequestHandler == AddsUnlocked
taf_pa_ntn_AddNtnBandUpdateHandler == AddsUnlocked
taf_pa_ntn_RemoveSignalStrengthChangeHandler == ClearsUnlocked
taf_pa_ntn_RemoveNtnStateChangeHandler == ClearsUnlocked
taf_pa_ntn_RemoveDataAckHandler == ClearsUnlocked
taf_pa_ntn_RemoveIncomingDataHandler == ClearsUnlocked
taf_pa_ntn_RemoveCapabilitiesChangeHandler == ClearsUnlocked
taf_pa_ntn_RemoveServiceStatusChangeHandler == ClearsUnlocked
taf_pa_ntn_RemoveCellularCoverageAvailableHandler == ClearsUnlocked
taf_pa_ntn_RemoveLocationFixRequestHandler == ClearsUnlocked
taf_pa_ntn_RemoveNtnBandUpdateHandler == ClearsUnlocked
onSignalStrengthChange == ReadsLive
onNtnStateChange == ReadsLive
onDataAck == ReadsLive
onIncomingData == ReadsLive
onCapabilitiesChange == ReadsLive
onNtnServiceStatusChange == ReadsLive
onCellularCoverageAvailable == ReadsLive
onLocationFixRequest == ReadsLive
onNtnBandUpdate == ReadsLive
NtnSignalStrengthChange ==
    SlotOf(taf_pa_ntn_AddSignalStrengthChangeHandler, onSignalStrengthChange,
           taf_pa_ntn_RemoveSignalStrengthChangeHandler, NtnDeinit)
NtnStateChange ==
    SlotOf(taf_pa_ntn_AddNtnStateChangeHandler, onNtnStateChange,
           taf_pa_ntn_RemoveNtnStateChangeHandler, NtnDeinit)
NtnDataAck ==
    SlotOf(taf_pa_ntn_AddDataAckHandler, onDataAck,
           taf_pa_ntn_RemoveDataAckHandler, NtnDeinit)
NtnIncomingData ==
    SlotOf(taf_pa_ntn_AddIncomingDataHandler, onIncomingData,
           taf_pa_ntn_RemoveIncomingDataHandler, NtnDeinit)
NtnCapabilitiesChange ==
    SlotOf(taf_pa_ntn_AddCapabilitiesChangeHandler, onCapabilitiesChange,
           taf_pa_ntn_RemoveCapabilitiesChangeHandler, NtnDeinit)
NtnServiceStatusChange ==
    SlotOf(taf_pa_ntn_AddServiceStatusChangeHandler, onNtnServiceStatusChange,
           taf_pa_ntn_RemoveServiceStatusChangeHandler, NtnDeinit)
NtnCellularCoverageAvailable ==
    SlotOf(taf_pa_ntn_AddCellularCoverageAvailableHandler, onCellularCoverageAvailable,
           taf_pa_ntn_RemoveCellularCoverageAvailableHandler, NtnDeinit)
NtnLocationFixRequest ==
    SlotOf(taf_pa_ntn_AddLocationFixRequestHandler, onLocationFixRequest,
           taf_pa_ntn_RemoveLocationFixRequestHandler, NtnDeinit)
NtnBandUpdate ==
    SlotOf(taf_pa_ntn_AddNtnBandUpdateHandler, onNtnBandUpdate,
           taf_pa_ntn_RemoveNtnBandUpdateHandler, NtnDeinit)

-----------------------------------------------------------------------------
(* MRC, thermal, time, health.                                             *)

MrcDeinit == Clears
taf_pa_mrc_AddProcessStatusHandler == Adds
taf_pa_mrc_AddScrubStatusHandler == Adds
ProcessStatusHandler == Copies
ScrubStatusHandler == Copies
ProcessStatus ==
    SlotOf(taf_pa_mrc_AddProcessStatusHandler, ProcessStatusHandler, NoClearing, MrcDeinit)
ScrubStatus ==
    SlotOf(taf_pa_mrc_AddScrubStatusHandler, ScrubStatusHandler, NoClearing, MrcDeinit)

\* The mutex is not taken.
ThermDeinit == ClearsUnlocked
taf_pa_therm_RegisterTripEventHandler == AddsHandler
taf_pa_therm_DeregisterTripEventHandler == Clears
taf_pa_therm_RegisterCoolingLevelChangeHandler == AddsHandler
taf_pa_therm_DeregisterCoolingLevelChangeHandler == Clears
onTripEvent == Copies
onCoolingDeviceLevelChange == Copies
TripEvent ==
    SlotOf(taf_pa_therm_RegisterTripEventHandler, onTripEvent,
           taf_pa_therm_DeregisterTripEventHandler, ThermDeinit)
CoolingLevelChange ==
    SlotOf(taf_pa_therm_RegisterCoolingLevelChangeHandler, onCoolingDeviceLevelChange,
           taf_pa_therm_DeregisterCoolingLevelChangeHandler, ThermDeinit)

TimeDeinit == Clears
taf_pa_time_RegGnssUtcTimeUpdateHandler == [AddsHandler EXCEPT !.once = "locked"]
taf_pa_time_RegNetworkTimeChangeHandler == [AddsHandler EXCEPT !.once = "locked"]
onGnssUtcTimeUpdate == Copies
onNetworkTimeChanged == Copies
GnssUtcTimeUpdate ==
    SlotOf(taf_pa_time_RegGnssUtcTimeUpdateHandler, onGnssUtcTimeUpdate, NoClearing, TimeDeinit)
NetworkTimeChange ==
    SlotOf(taf_pa_time_RegNetworkTimeChangeHandler, onNetworkTimeChanged,
           NoClearing, TimeDeinit)

HealthDeinit == Clears
taf_pa_health_RegModemStatusUpdateHandler == [AddsHandler EXCEPT !.once = "unlocked"]
taf_pa_health_RegModemOperationModeUpdateHandler == [AddsHandler EXCEPT !.once = "unlocked"]
onStateChange == Copies
ModemStatusResponse == Copies
ModemStatusUpdate ==
    SlotOf(taf_pa_health_RegModemStatusUpdateHandler, onStateChange, NoClearing, HealthDeinit)
ModemOperationModeUpdate ==
    SlotOf(taf_pa_health_RegModemOperationModeUpdateHandler, ModemStatusResponse,
           NoClearing, HealthDeinit)

-----------------------------------------------------------------------------
(* A client of a sensor.                                                   *)

RegisterEventListener == [AddsUnlocked EXCEPT !.keeps = TRUE]
taf_pa_sensor_AddListener == RegisterEventListener
taf_pa_sensor_RemoveListener == [ClearsHandler EXCEPT !.locks = FALSE]
onEvent == [Copies EXCEPT !.twice = TRUE, !.holds = TRUE]
onSelfTestFailed == [ReadsLive EXCEPT !.twice = TRUE]
SensorEvents ==
    SlotOf(taf_pa_sensor_AddListener, onEvent, taf_pa_sensor_RemoveListener, NoClearing)
SelfTestFailures ==
    SlotOf(taf_pa_sensor_AddListener, onSelfTestFailed,
           taf_pa_sensor_RemoveListener, NoClearing)
RegisterConfigUpdateHandler == [Adds EXCEPT !.keeps = TRUE]
UnregisterConfigUpdateHandler == Clears
taf_pa_sensor_AddConfigUpdateHandler == RegisterConfigUpdateHandler
taf_pa_sensor_RemoveConfigUpdateHandler == UnregisterConfigUpdateHandler
onConfigurationUpdate == [Copies EXCEPT !.holds = TRUE]
ConfigurationUpdates ==
    SlotOf(taf_pa_sensor_AddConfigUpdateHandler, onConfigurationUpdate,
           taf_pa_sensor_RemoveConfigUpdateHandler, NoClearing)

-----------------------------------------------------------------------------
(* WLAN, SMS, SIM, remote SIM and power: the listener is copied under its lock.*)

registerDeviceListener == Adds
WlanDeinit == Clears
onWlanServiceStatusChange == Copies
onEnableChanged == Copies
WlanServiceStatus ==
    SlotOf(registerDeviceListener, onWlanServiceStatusChange, NoClearing, WlanDeinit)
WlanEnable == SlotOf(registerDeviceListener, onEnableChanged, NoClearing, WlanDeinit)

setIncomingSmsCallback == AddsHandler
setMemoryFullCallback == AddsHandler
taf_pa_sms_RegisterIncomingSmsCallback == setIncomingSmsCallback
taf_pa_sms_RegisterMemoryFullCallback == setMemoryFullCallback
SmsDeinit == Clears
onMemoryFull == Copies
onIncomingSms == Copies
MemoryFull == SlotOf(taf_pa_sms_RegisterMemoryFullCallback, onMemoryFull, NoClearing, SmsDeinit)
IncomingSms ==
    SlotOf(taf_pa_sms_RegisterIncomingSmsCallback, onIncomingSms, NoClearing, SmsDeinit)

taf_pa_sim_AddRefreshChangeHandler == Adds
taf_pa_sim_RemoveRefreshChangeHandler == Clears
SimDeinit == Clears
RefreshSvcStatusHandler == Copies
RefreshSvcStatus ==
    SlotOf(taf_pa_sim_AddRefreshChangeHandler, RefreshSvcStatusHandler,
           taf_pa_sim_RemoveRefreshChangeHandler, SimDeinit)

AddsRemoteSimListener == AddsHandler
taf_pa_remotesim_RegisterEventListener == AddsRemoteSimListener
taf_pa_remotesim_DeregisterEventListener == Clears
RemoteSimDeinit == Clears
onApduTransfer == Copies
onCardConnect == Copies
onCardDisconnect == Copies
onCardPowerUp == Copies
onCardPowerDown == Copies
onCardReset == Copies
onRemoteSimServiceStatusChange == Copies
RemoteSimApduTransfer ==
    SlotOf(taf_pa_remotesim_RegisterEventListener, onApduTransfer,
           taf_pa_remotesim_DeregisterEventListener, RemoteSimDeinit)
RemoteSimCardConnect ==
    SlotOf(taf_pa_remotesim_RegisterEventListener, onCardConnect,
           taf_pa_remotesim_DeregisterEventListener, RemoteSimDeinit)
RemoteSimCardDisconnect ==
    SlotOf(taf_pa_remotesim_RegisterEventListener, onCardDisconnect,
           taf_pa_remotesim_DeregisterEventListener, RemoteSimDeinit)
RemoteSimCardPowerUp ==
    SlotOf(taf_pa_remotesim_RegisterEventListener, onCardPowerUp,
           taf_pa_remotesim_DeregisterEventListener, RemoteSimDeinit)
RemoteSimCardPowerDown ==
    SlotOf(taf_pa_remotesim_RegisterEventListener, onCardPowerDown,
           taf_pa_remotesim_DeregisterEventListener, RemoteSimDeinit)
RemoteSimCardReset ==
    SlotOf(taf_pa_remotesim_RegisterEventListener, onCardReset,
           taf_pa_remotesim_DeregisterEventListener, RemoteSimDeinit)
RemoteSimServiceStatusChange ==
    SlotOf(taf_pa_remotesim_RegisterEventListener, onRemoteSimServiceStatusChange,
           taf_pa_remotesim_DeregisterEventListener, RemoteSimDeinit)

PmsInit == AddsHandler
PmsDeinit == Clears
RaiseEvent == Copies
onWakeup == RaiseEvent
onServiceStatusChange == RaiseEvent
onTcuActivityStateUpdate == RaiseEvent
onMachineUpdate == RaiseEvent
onSlaveAckStatusUpdate == RaiseEvent
PowerWakeup == SlotOf(PmsInit, onWakeup, NoClearing, PmsDeinit)
PowerServiceStatusChange == SlotOf(PmsInit, onServiceStatusChange, NoClearing, PmsDeinit)
PowerTcuActivityStateUpdate == SlotOf(PmsInit, onTcuActivityStateUpdate, NoClearing, PmsDeinit)
PowerMachineUpdate == SlotOf(PmsInit, onMachineUpdate, NoClearing, PmsDeinit)
PowerSlaveAckStatusUpdate == SlotOf(PmsInit, onSlaveAckStatusUpdate, NoClearing, PmsDeinit)

-----------------------------------------------------------------------------
(* Voice calls and location: the context is written and read without the lock.*)

registerEventListener == AddsContextLater
VoicecallDeinit == Clears
onCallInfoChange == CopiesHandler
onIncomingCall == CopiesHandler
CallInfo == SlotOf(registerEventListener, onCallInfoChange, NoClearing, VoicecallDeinit)
IncomingCall == SlotOf(registerEventListener, onIncomingCall, NoClearing, VoicecallDeinit)

AddsLocationListener == AddsContextLater
taf_pa_location_RegisterListener == AddsLocationListener
onGnssNmeaInfo == CopiesHandler
onCapabilitiesInfo == CopiesHandler
onGnssSVInfo == CopiesHandler
onGnssSignalInfo == CopiesHandler
onXtraStatusUpdate == CopiesHandler
onLocationSystemInfo == CopiesHandler
onDetailedEngineLocationUpdate == CopiesHandler
onGnssMeasurementsInfo == CopiesHandler
GnssNmeaInfo == SlotOf(taf_pa_location_RegisterListener, onGnssNmeaInfo, NoClearing, NoClearing)
CapabilitiesInfo ==
    SlotOf(taf_pa_location_RegisterListener, onCapabilitiesInfo, NoClearing, NoClearing)
GnssSVInfo == SlotOf(taf_pa_location_RegisterListener, onGnssSVInfo, NoClearing, NoClearing)
GnssSignalInfo == SlotOf(taf_pa_location_RegisterListener, onGnssSignalInfo, NoClearing, NoClearing)
XtraStatusUpdate ==
    SlotOf(taf_pa_location_RegisterListener, onXtraStatusUpdate, NoClearing, NoClearing)
LocationSystemInfo ==
    SlotOf(taf_pa_location_RegisterListener, onLocationSystemInfo, NoClearing, NoClearing)
DetailedEngineLocationUpdate ==
    SlotOf(taf_pa_location_RegisterListener, onDetailedEngineLocationUpdate, NoClearing, NoClearing)
GnssMeasurementsInfo ==
    SlotOf(taf_pa_location_RegisterListener, onGnssMeasurementsInfo, NoClearing, NoClearing)

\* The context of the DGNSS listener stays with the slot, and it is called under the lock.
RegisterDgnssEventListener == [Adds EXCEPT !.keeps = TRUE]
DeregisterDgnssEventListener == ClearsHandler
taf_pa_location_registerDgnssEventListener == RegisterDgnssEventListener
taf_pa_location_deregisterDgnssEventListener == DeregisterDgnssEventListener
DgnssDeinit == Clears
onDgnssStatusUpdate == [Copies EXCEPT !.holds = TRUE]
DgnssStatus ==
    SlotOf(taf_pa_location_registerDgnssEventListener, onDgnssStatusUpdate,
           taf_pa_location_deregisterDgnssEventListener, DgnssDeinit)

-----------------------------------------------------------------------------
Slots ==
    {NetworkReject, RatChange, VoiceServiceInfo, DataServiceStatus, DataRoamingStatus,
     SignalStrengthInfoChange, ImsRegStatusChange, OperatingModeChange, ServiceDomain,
     LteCsCapability, ImsServiceInfo, ImsPdpError, CellInfoChange, NrIconChange,
     RatSvcStatus, LteCphyCa, DataAvailSysStatus, SmsCapability,
     NtnSignalStrengthChange, NtnStateChange, NtnDataAck, NtnIncomingData,
     NtnCapabilitiesChange, NtnServiceStatusChange, NtnCellularCoverageAvailable,
     NtnLocationFixRequest, NtnBandUpdate, ProcessStatus, ScrubStatus, TripEvent,
     CoolingLevelChange, GnssUtcTimeUpdate, NetworkTimeChange, ModemStatusUpdate,
     ModemOperationModeUpdate, SensorEvents, SelfTestFailures, ConfigurationUpdates,
     WlanServiceStatus, WlanEnable, MemoryFull, IncomingSms, RefreshSvcStatus,
     RemoteSimApduTransfer, RemoteSimCardConnect, RemoteSimCardDisconnect,
     RemoteSimCardPowerUp, RemoteSimCardPowerDown, RemoteSimCardReset,
     RemoteSimServiceStatusChange, PowerWakeup, PowerServiceStatusChange,
     PowerTcuActivityStateUpdate, PowerMachineUpdate, PowerSlaveAckStatusUpdate,
     CallInfo, IncomingCall, GnssNmeaInfo, CapabilitiesInfo, GnssSVInfo,
     GnssSignalInfo, XtraStatusUpdate, LocationSystemInfo,
     DetailedEngineLocationUpdate, GnssMeasurementsInfo, DgnssStatus}

-----------------------------------------------------------------------------
(* Properties.                                                             *)

\* The slots that write or read their context outside the lock of the handler, or take
\* no lock at all.
MixedSlots ==
    {RatSvcStatus, SmsCapability, NtnSignalStrengthChange, NtnStateChange, NtnDataAck,
     NtnIncomingData, NtnCapabilitiesChange, NtnServiceStatusChange,
     NtnCellularCoverageAvailable, NtnLocationFixRequest, NtnBandUpdate, SensorEvents,
     SelfTestFailures, CallInfo, IncomingCall, GnssNmeaInfo, CapabilitiesInfo, GnssSVInfo,
     GnssSignalInfo, XtraStatusUpdate, LocationSystemInfo, DetailedEngineLocationUpdate,
     GnssMeasurementsInfo}

\* The slots that lock both, and leave a context to the client that gives none.
HeirSlots == {ConfigurationUpdates, DgnssStatus}

\* A handler is called with the context of its own client, though other clients replace
\* the two words, Remove and Deinit take them out, and several events read them: in every
\* slot but those that do not lock them together, and those whose client inherits one.
OwnHandlerContext ==
    \A e \in Events : delivery[e] = "inside" =>
        \/ ctx[e] = ContextOf(handlerFunc[e])
        \/ slot \in MixedSlots
        \/ slot \in HeirSlots /\ handlerFunc[e] \in BareClients

\* Of two clients that register a handler with the time PA the first one that wrote it
\* has it in the slot until it is taken out: taf_pa_time_RegGnssUtcTimeUpdateHandler looks
\* and writes under one lock.  (The health PA looks before it locks.)
FirstHandlerStays == slot.writer.once = "locked" => accepted \subseteq {handlerFuncPtr}

\* A handler that is called under the lock is in the slot while it runs, but for the events
\* of a sensor, whose registration does not take the lock.
NoLateCall ==
    \A e \in Events :
        delivery[e] = "inside" /\ slot.reader.holds /\ slot # SensorEvents =>
            handlerFunc[e] = handlerFuncPtr

=============================================================================
