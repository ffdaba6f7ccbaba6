---------------------------- MODULE Services_proofs ----------------------------
(* Theorems about the network selection of the radio PA, the handler slots,  *)
(* Init and Deinit, the requests that are made one at a time, and the files   *)
(* of the key store, for any calls, clients, events, slots, ways, paths and   *)
(* bounds.                                                                   *)
EXTENDS MCServices, FunctionTheorems, FiniteSetTheorems, SequenceTheorems,
        WellFoundedInduction, TLAPS

-----------------------------------------------------------------------------
(* ExclusiveRequests.                                                      *)

Answering == {"copy", "call", "clear", "release"}

\* a has the token, or has lost it.
Has(a) == Holds(a) \/ answering[a] = "dropped"

\* Where a request can be: it is asked for, then with the SDK, then answered, and only
\* in the last two while its caller waits or has returned.
Phases(a) ==
    /\ a \in pending => asking[a] \notin {"new", "set", "submit", "clear"}
    /\ a \in pending => answering[a] = "no" /\ promised[a] = "none"
    /\ asking[a] \in {"new", "set", "submit"} => promised[a] = "none"
    /\ answering[a] # "no" => request.calls /\ asking[a] = "done"
    /\ request.calls /\ a \in pending => asking[a] = "done"
    /\ ~request.calls /\ a \in pending => asking[a] = "wait" \/ outcome[a] = "timeout"
    /\ asking[a] = "wait" => ~request.calls
    /\ asking[a] \in {"set", "clear"} => request.calls

\* The entry is that of the one who has the token, until it is cleared.
Entry(a) ==
    /\ request.calls /\ (asking[a] = "submit" \/ a \in pending \/ answering[a] = "copy") =>
           entry = a
    /\ local[a] \in {a, NoAsker}

ExclusiveIInv ==
    /\ ExclusiveTypeOK
    /\ \A a \in Askers : Phases(a) /\ Entry(a)
    /\ \A a \in Askers : Has(a) => token
    /\ \A a, b \in Askers : Has(a) /\ Has(b) => a = b
    /\ TokenComesBack
    /\ OwnList

LEMMA ExclusiveInitInv == ExclusiveInit => ExclusiveIInv
<1> SUFFICES ASSUME ExclusiveInit PROVE ExclusiveIInv
  OBVIOUS
<1>1. ExclusiveTypeOK
  BY Zenon DEF ExclusiveInit, ExclusiveTypeOK, AnyAsker
<1>2. \A a \in Askers : Phases(a) /\ Entry(a) /\ ~Has(a)
  BY DEF ExclusiveInit, Phases, Entry, Has, Holds
<1> QED
  BY <1>1, <1>2 DEF ExclusiveInit, ExclusiveIInv, TokenComesBack, OwnList

LEMMA ExclusiveTypeStep == ExclusiveTypeOK /\ [ExclusiveNext]_exclusiveVars => ExclusiveTypeOK'
<1> SUFFICES ASSUME ExclusiveTypeOK, [ExclusiveNext]_exclusiveVars PROVE ExclusiveTypeOK'
  OBVIOUS
<1> USE DEF ExclusiveTypeOK, Asks, Outcome, AnswerGoes, AnyAsker
<1>1. ASSUME NEW a \in Askers,
             \/ TryAcquire(a) \/ SetCallback(a) \/ Ask(a) \/ ClearCallback(a)
      PROVE  ExclusiveTypeOK'
  <2>1. CASE TryAcquire(a)
    BY <2>1, Zenon DEF TryAcquire
  <2>2. CASE SetCallback(a) \/ ClearCallback(a)
    BY <2>2 DEF SetCallback, ClearCallback
  <2>3. CASE Ask(a)
    BY <2>3 DEF Ask
  <2> QED
    BY <1>1, <2>1, <2>2, <2>3
<1>2. ASSUME NEW a \in Askers, EndAsk(a) \/ Release(a) \/ Promise(a) \/ FindPhone(a)
      PROVE  ExclusiveTypeOK'
  <2>1. CASE EndAsk(a)
    BY <2>1 DEF EndAsk
  <2>2. CASE Release(a)
    BY <2>2, Zenon DEF Release
  <2>3. CASE FindPhone(a)
    BY <2>3 DEF FindPhone
  <2>4. CASE Promise(a)
    BY <2>4 DEF Promise
  <2> QED
    BY <1>2, <2>1, <2>2, <2>3, <2>4
<1>3. ASSUME NEW a \in Askers,
             CopyCallback(a) \/ TellClient(a) \/ ClearEntry(a) \/ ReleaseToken(a)
      PROVE  ExclusiveTypeOK'
  <2>1. CASE CopyCallback(a)
    BY <2>1 DEF CopyCallback
  <2>2. CASE TellClient(a)
    BY <2>2 DEF TellClient
  <2>3. CASE ClearEntry(a) \/ ReleaseToken(a)
    BY <2>3, Zenon DEF ClearEntry, ReleaseToken
  <2> QED
    BY <1>3, <2>1, <2>2, <2>3
<1>4. CASE UNCHANGED exclusiveVars
  BY <1>4 DEF exclusiveVars
<1> QED
  BY <1>1, <1>2, <1>3, <1>4 DEF ExclusiveNext

LEMMA ExclusiveStep == ExclusiveIInv /\ [ExclusiveNext]_exclusiveVars => ExclusiveIInv'
<1> SUFFICES ASSUME ExclusiveIInv, [ExclusiveNext]_exclusiveVars PROVE ExclusiveIInv'
  OBVIOUS
<1>0. ExclusiveTypeOK'
  BY ExclusiveTypeStep DEF ExclusiveIInv
<1> USE <1>0 DEF ExclusiveIInv, ExclusiveTypeOK, Phases, Entry, Has, Holds, TokenComesBack,
        OwnList, Asks, Outcome, AnswerGoes, AnyAsker
<1>1. ASSUME NEW a \in Askers, TryAcquire(a) PROVE ExclusiveIInv'
  BY <1>1 DEF TryAcquire
<1>2. ASSUME NEW a \in Askers, SetCallback(a) PROVE ExclusiveIInv'
  BY <1>2 DEF SetCallback
<1>3. ASSUME NEW a \in Askers, Ask(a) PROVE ExclusiveIInv'
  <2>1. CASE pending' = pending \cup {a}
    <3>1. CASE request.calls
      BY <1>3, <2>1, <3>1 DEF Ask
    <3>2. CASE ~request.calls
      BY <1>3, <2>1, <3>2 DEF Ask
    <3> QED
      BY <3>1, <3>2
  <2>2. CASE pending' # pending \cup {a}
    BY <1>3, <2>2 DEF Ask
  <2> QED
    BY <2>1, <2>2
<1>4. ASSUME NEW a \in Askers, ClearCallback(a) PROVE ExclusiveIInv'
  BY <1>4 DEF ClearCallback
<1>5. ASSUME NEW a \in Askers, EndAsk(a) PROVE ExclusiveIInv'
  BY <1>5 DEF EndAsk
<1>6. ASSUME NEW a \in Askers, Release(a) PROVE ExclusiveIInv'
  BY <1>6 DEF Release
<1>7. ASSUME NEW a \in Askers, Promise(a) PROVE ExclusiveIInv'
  BY <1>7 DEF Promise
<1>8. ASSUME NEW a \in Askers, FindPhone(a) PROVE ExclusiveIInv'
  BY <1>8 DEF FindPhone
<1>9. ASSUME NEW a \in Askers, CopyCallback(a) PROVE ExclusiveIInv'
  BY <1>9 DEF CopyCallback
<1>10. ASSUME NEW a \in Askers, TellClient(a) PROVE ExclusiveIInv'
  BY <1>10 DEF TellClient
<1>11. ASSUME NEW a \in Askers, ClearEntry(a) PROVE ExclusiveIInv'
  BY <1>11 DEF ClearEntry
<1>12. ASSUME NEW a \in Askers, ReleaseToken(a) PROVE ExclusiveIInv'
  BY <1>12 DEF ReleaseToken
<1>13. CASE UNCHANGED exclusiveVars
  BY <1>13 DEF exclusiveVars
<1> QED
  BY <1>1, <1>2, <1>3, <1>4, <1>5, <1>6, <1>7, <1>8, <1>9, <1>10, <1>11, <1>12, <1>13
     DEF ExclusiveNext

LEMMA ExclusiveInvariant == ExclusiveSpec => []ExclusiveIInv
<1> QED
  BY ExclusiveInitInv, ExclusiveStep, PTL DEF ExclusiveSpec

\* The state of an exclusive request stays within its types.
THEOREM ExclusiveTypes == ExclusiveSpec => []ExclusiveTypeOK
<1>1. ExclusiveIInv => ExclusiveTypeOK
  BY DEF ExclusiveIInv
<1> QED
  BY <1>1, ExclusiveInvariant, PTL

\* However many calls try the token, it is lost in one way only: the answer to a list
\* request that finds no phone for its slot.
THEOREM TokenAlwaysBack == ExclusiveSpec => []TokenComesBack
<1>1. ExclusiveIInv => TokenComesBack
  BY DEF ExclusiveIInv
<1> QED
  BY <1>1, ExclusiveInvariant, PTL

\* Two requests are with the SDK at once only after a caller gave up waiting.
THEOREM NeverInterleaved == ExclusiveSpec => []NoInterleave
<1>1. ExclusiveIInv => NoInterleave
  BY DEF ExclusiveIInv, ExclusiveTypeOK, Phases, Has, Holds, NoInterleave
<1> QED
  BY <1>1, ExclusiveInvariant, PTL

\* A client of the list of profiles hears the answer to its own request.
THEOREM ListsAreOwn == ExclusiveSpec => []OwnList
<1>1. ExclusiveIInv => OwnList
  BY DEF ExclusiveIInv
<1> QED
  BY <1>1, ExclusiveInvariant, PTL

-----------------------------------------------------------------------------
(* Handlers.                                                               *)

\* The words of the slot are written, read and taken out under its lock.
Locked(s) ==
    /\ s.writer.locks = Words /\ s.reader.locks = Words
    /\ \A how \in {s.removal, s.deinit} :
           how.words = {} \/ ("handler" \in how.words /\ how.locks)

\* What the properties need to know of a slot.
SoundSlot(s) ==
    /\ s \in MixedSlots \/ ~s.writer.context \/ Locked(s)
    /\ s.writer.keeps => s \in MixedSlots \cup HeirSlots
    /\ s.writer.once = "locked" => Locked(s)
    /\ s.reader.holds => s = SensorEvents \/ Locked(s)

\* A slot of the two words that is locked throughout, and one of the handler alone.
LEMMA SoundPairs ==
  ASSUME NEW removal \in {Clears, NoClearing}, NEW deinit \in {Clears, NoClearing}
  PROVE  SoundSlot(SlotOf(Adds, Copies, removal, deinit))
BY DEF SoundSlot, Locked, SlotOf, Adds, Copies, Clears, NoClearing, Words

LEMMA SoundHandlers ==
  ASSUME NEW once \in {"no", "unlocked"}, NEW removal, NEW deinit
  PROVE  SoundSlot(SlotOf([AddsHandler EXCEPT !.once = once], Copies, removal, deinit))
BY DEF SoundSlot, SlotOf, AddsHandler, Adds, Copies

LEMMA SoundSlots == ASSUME NEW s \in Slots PROVE SoundSlot(s)
<1>1. ASSUME s \in {NetworkReject, RatChange, VoiceServiceInfo, DataServiceStatus,
                    DataRoamingStatus, SignalStrengthInfoChange, ImsRegStatusChange,
                    OperatingModeChange, ServiceDomain, LteCsCapability, ImsServiceInfo,
                    ImsPdpError, CellInfoChange, NrIconChange, LteCphyCa,
                    DataAvailSysStatus}
      PROVE  s = SlotOf(Adds, Copies, NoClearing, Clears)
  BY <1>1
  DEF NetworkReject, RatChange, VoiceServiceInfo, DataServiceStatus, DataRoamingStatus,
      SignalStrengthInfoChange, ImsRegStatusChange, OperatingModeChange, ServiceDomain,
      LteCsCapability, ImsServiceInfo, ImsPdpError, CellInfoChange, NrIconChange, LteCphyCa,
      DataAvailSysStatus, RadioDeinit, taf_pa_radio_AddNetworkRejectHandler,
      taf_pa_radio_AddRatChangeHandler, taf_pa_radio_AddVoiceServiceInfoHandler,
      taf_pa_radio_AddDataServiceStatusHandler, taf_pa_radio_AddDataRoamingStatusHandler,
      taf_pa_radio_AddSignalStrengthInfoChangeHandler,
      taf_pa_radio_AddImsRegStatusChangeHandler, taf_pa_radio_AddOperatingModeChangeHandler,
      taf_pa_radio_AddServiceDomainHandler, taf_pa_radio_AddLteCsCapabilityHandler,
      taf_pa_radio_AddImsServiceInfoHandler, taf_pa_radio_AddImsPdpErrorHandler,
      taf_pa_radio_AddCellInfoChangeHandler, taf_pa_radio_AddNrIconChangeHandler,
      taf_pa_radio_AddLteCphyCaHandler, taf_pa_radio_AddDataAvailSysStatusHandler,
      onNetworkRejection, onSystemInfoChanged, onLteCsCapabilityChanged,
      onVoiceServiceStateChanged, onSignalStrengthChanged, onOperatingModeChanged,
      onCellInfoListChanged, onServiceStateChanged, onRoamingStatusChanged,
      onNrIconTypeChanged, onImsRegStatusChange, onImsServiceInfoChange,
      onImsPdpStatusInfoChange, LteCphyCaHandler, DataAvailSysStatusHandler
<1>2. ASSUME s \in {ProcessStatus, ScrubStatus, WlanServiceStatus, WlanEnable}
      PROVE  s = SlotOf(Adds, Copies, NoClearing, Clears)
  BY <1>2
  DEF ProcessStatus, ScrubStatus, WlanServiceStatus, WlanEnable, MrcDeinit, WlanDeinit,
      taf_pa_mrc_AddProcessStatusHandler, taf_pa_mrc_AddScrubStatusHandler,
      ProcessStatusHandler, ScrubStatusHandler, registerDeviceListener,
      onWlanServiceStatusChange, onEnableChanged
<1>3. RefreshSvcStatus = SlotOf(Adds, Copies, Clears, Clears)
  BY DEF RefreshSvcStatus, taf_pa_sim_AddRefreshChangeHandler, RefreshSvcStatusHandler,
         taf_pa_sim_RemoveRefreshChangeHandler, SimDeinit
<1>4. ASSUME s \in {TripEvent, CoolingLevelChange, MemoryFull, IncomingSms,
                    RemoteSimApduTransfer, RemoteSimCardConnect, RemoteSimCardDisconnect,
                    RemoteSimCardPowerUp, RemoteSimCardPowerDown, RemoteSimCardReset,
                    RemoteSimServiceStatusChange, PowerWakeup, PowerServiceStatusChange,
                    PowerTcuActivityStateUpdate, PowerMachineUpdate,
                    PowerSlaveAckStatusUpdate}
      PROVE  \E removal, deinit : s = SlotOf(AddsHandler, Copies, removal, deinit)
  BY <1>4
  DEF TripEvent, CoolingLevelChange, MemoryFull, IncomingSms, RemoteSimApduTransfer,
      RemoteSimCardConnect, RemoteSimCardDisconnect, RemoteSimCardPowerUp,
      RemoteSimCardPowerDown, RemoteSimCardReset, RemoteSimServiceStatusChange, PowerWakeup,
      PowerServiceStatusChange, PowerTcuActivityStateUpdate, PowerMachineUpdate,
      PowerSlaveAckStatusUpdate, taf_pa_therm_RegisterTripEventHandler,
      taf_pa_therm_RegisterCoolingLevelChangeHandler, onTripEvent,
      onCoolingDeviceLevelChange, taf_pa_sms_RegisterIncomingSmsCallback,
      taf_pa_sms_RegisterMemoryFullCallback, setIncomingSmsCallback, setMemoryFullCallback,
      onMemoryFull, onIncomingSms, taf_pa_remotesim_RegisterEventListener,
      AddsRemoteSimListener, onApduTransfer, onCardConnect, onCardDisconnect, onCardPowerUp,
      onCardPowerDown, onCardReset, onRemoteSimServiceStatusChange, PmsInit, RaiseEvent,
      onWakeup, onServiceStatusChange, onTcuActivityStateUpdate, onMachineUpdate,
      onSlaveAckStatusUpdate
<1>5. ASSUME s \in {ModemStatusUpdate, ModemOperationModeUpdate}
      PROVE  s = SlotOf([AddsHandler EXCEPT !.once = "unlocked"], Copies, NoClearing, Clears)
  BY <1>5
  DEF ModemStatusUpdate, ModemOperationModeUpdate, HealthDeinit,
      taf_pa_health_RegModemStatusUpdateHandler,
      taf_pa_health_RegModemOperationModeUpdateHandler, onStateChange, ModemStatusResponse
<1>6. ASSUME s \in {GnssUtcTimeUpdate, NetworkTimeChange}
      PROVE  SoundSlot(s)
  <2>1. s = SlotOf([AddsHandler EXCEPT !.once = "locked"], Copies, NoClearing, Clears)
    BY <1>6
    DEF GnssUtcTimeUpdate, NetworkTimeChange, TimeDeinit, onGnssUtcTimeUpdate,
        taf_pa_time_RegGnssUtcTimeUpdateHandler, taf_pa_time_RegNetworkTimeChangeHandler,
        onNetworkTimeChanged
  <2>2. /\ s.writer.once = "locked" /\ ~s.writer.context /\ ~s.writer.keeps
        /\ s.writer.locks = Words
    BY <2>1 DEF SlotOf, AddsHandler, Adds
  <2>3. /\ s.reader.locks = Words /\ ~s.reader.holds
        /\ s.removal = NoClearing /\ s.deinit = Clears
    BY <2>1 DEF SlotOf, Copies
  <2>4. NoClearing.words = {} /\ Clears.words = Words /\ Clears.locks
    BY DEF Clears, NoClearing
  <2>5. Locked(s)
    BY <2>2, <2>3, <2>4 DEF Locked, Words
  <2> QED
    BY <2>2, <2>3, <2>5 DEF SoundSlot
<1>7. ASSUME s \in {ConfigurationUpdates, DgnssStatus}
      PROVE  SoundSlot(s)
  <2>1. ConfigurationUpdates = SlotOf([Adds EXCEPT !.keeps = TRUE],
                                      [Copies EXCEPT !.holds = TRUE], Clears, NoClearing)
    BY DEF ConfigurationUpdates, taf_pa_sensor_AddConfigUpdateHandler,
           RegisterConfigUpdateHandler, onConfigurationUpdate, UnregisterConfigUpdateHandler,
           taf_pa_sensor_RemoveConfigUpdateHandler
  <2>2. DgnssStatus = SlotOf([Adds EXCEPT !.keeps = TRUE], [Copies EXCEPT !.holds = TRUE],
                             ClearsHandler, Clears)
    BY DEF DgnssStatus, RegisterDgnssEventListener, DeregisterDgnssEventListener,
           taf_pa_location_registerDgnssEventListener, onDgnssStatusUpdate,
           taf_pa_location_deregisterDgnssEventListener, DgnssDeinit
  <2>3. Locked(ConfigurationUpdates) /\ ConfigurationUpdates.writer.once = "no"
    BY <2>1 DEF Locked, SlotOf, Adds, Copies, Clears, NoClearing, Words
  <2>4. Locked(DgnssStatus) /\ DgnssStatus.writer.once = "no"
    BY <2>2 DEF Locked, SlotOf, Adds, Copies, Clears, ClearsHandler, Words
  <2> QED
    BY <1>7, <2>3, <2>4 DEF SoundSlot, HeirSlots
<1>8. ASSUME s \in MixedSlots
      PROVE  /\ s.writer.once = "no"
             /\ s.reader.holds => s = SensorEvents
  <2>1. RatSvcStatus = SlotOf(Adds, CopiesHandler, NoClearing, Clears)
    BY DEF RatSvcStatus, RatSvcStatusHandler, taf_pa_radio_AddRatSvcStatusHandler, RadioDeinit
  <2>2. SmsCapability = SlotOf(AddsUnlocked, ReadsLive, ClearsUnlocked, NoClearing)
    BY DEF SmsCapability, taf_pa_radio_AddSmsCapabilityHandler, onSmsCapabilityChanged,
           taf_pa_radio_RemoveSmsCapabilityHandler
  <2>3. CallInfo = SlotOf(AddsContextLater, CopiesHandler, NoClearing, Clears)
    BY DEF CallInfo, registerEventListener, onCallInfoChange, VoicecallDeinit
  <2>4. IncomingCall = SlotOf(AddsContextLater, CopiesHandler, NoClearing, Clears)
    BY DEF IncomingCall, registerEventListener, onIncomingCall, VoicecallDeinit
  <2>5. SelfTestFailures = SlotOf([AddsUnlocked EXCEPT !.keeps = TRUE],
                                  [ReadsLive EXCEPT !.twice = TRUE],
                                  [ClearsHandler EXCEPT !.locks = FALSE], NoClearing)
    BY DEF SelfTestFailures, taf_pa_sensor_AddListener, RegisterEventListener,
           onSelfTestFailed, taf_pa_sensor_RemoveListener
  <2>6. SensorEvents = SlotOf([AddsUnlocked EXCEPT !.keeps = TRUE],
                              [Copies EXCEPT !.twice = TRUE, !.holds = TRUE],
                              [ClearsHandler EXCEPT !.locks = FALSE], NoClearing)
    BY DEF SensorEvents, taf_pa_sensor_AddListener, RegisterEventListener,
           onEvent, taf_pa_sensor_RemoveListener
  <2>7. CASE s \in {RatSvcStatus, SmsCapability, CallInfo, IncomingCall, SelfTestFailures,
                    SensorEvents}
    <3>1. RatSvcStatus.writer.once = "no" /\ ~RatSvcStatus.reader.holds
      BY <2>1 DEF SlotOf, Adds, Copies, CopiesHandler
    <3>2. SmsCapability.writer.once = "no" /\ ~SmsCapability.reader.holds
      BY <2>2 DEF SlotOf, AddsUnlocked, Adds, ReadsLive, Copies
    <3>3. CallInfo.writer.once = "no" /\ ~CallInfo.reader.holds
      BY <2>3 DEF SlotOf, AddsContextLater, Adds, Copies, CopiesHandler
    <3>4. IncomingCall.writer.once = "no" /\ ~IncomingCall.reader.holds
      BY <2>4 DEF SlotOf, AddsContextLater, Adds, Copies, CopiesHandler
    <3>5. SelfTestFailures.writer.once = "no" /\ ~SelfTestFailures.reader.holds
      BY <2>5 DEF SlotOf, AddsUnlocked, Adds, ReadsLive, Copies
    <3>6. SensorEvents.writer.once = "no"
      BY <2>6 DEF SlotOf, AddsUnlocked, Adds
    <3> QED
      BY <2>7, <3>1, <3>2, <3>3, <3>4, <3>5, <3>6
  <2>8. CASE s \in {NtnSignalStrengthChange, NtnStateChange, NtnDataAck, NtnIncomingData,
                    NtnCapabilitiesChange, NtnServiceStatusChange,
                    NtnCellularCoverageAvailable, NtnLocationFixRequest, NtnBandUpdate}
    <3>1. s.writer = AddsUnlocked /\ s.reader = ReadsLive
      BY <2>8
      DEF NtnSignalStrengthChange, NtnStateChange, NtnDataAck, NtnIncomingData, SlotOf,
          NtnCapabilitiesChange, NtnServiceStatusChange, NtnCellularCoverageAvailable,
          NtnLocationFixRequest, NtnBandUpdate, taf_pa_ntn_AddSignalStrengthChangeHandler,
          taf_pa_ntn_AddNtnStateChangeHandler, taf_pa_ntn_AddDataAckHandler,
          taf_pa_ntn_AddIncomingDataHandler, taf_pa_ntn_AddCapabilitiesChangeHandler,
          taf_pa_ntn_AddServiceStatusChangeHandler,
          taf_pa_ntn_AddCellularCoverageAvailableHandler,
          taf_pa_ntn_AddLocationFixRequestHandler, taf_pa_ntn_AddNtnBandUpdateHandler,
          onSignalStrengthChange, onNtnStateChange, onDataAck, onIncomingData,
          onCapabilitiesChange, onNtnServiceStatusChange, onCellularCoverageAvailable,
          onLocationFixRequest, onNtnBandUpdate
    <3> QED
      BY <3>1 DEF AddsUnlocked, Adds, ReadsLive, Copies
  <2>9. CASE s \in {GnssNmeaInfo, CapabilitiesInfo, GnssSVInfo, GnssSignalInfo,
                    XtraStatusUpdate, LocationSystemInfo, DetailedEngineLocationUpdate,
                    GnssMeasurementsInfo}
    <3>1. s.writer = AddsContextLater /\ s.reader = CopiesHandler
      BY <2>9
      DEF GnssNmeaInfo, CapabilitiesInfo, GnssSVInfo, GnssSignalInfo, XtraStatusUpdate,
          LocationSystemInfo, DetailedEngineLocationUpdate, GnssMeasurementsInfo, SlotOf,
          AddsLocationListener, taf_pa_location_RegisterListener, onGnssNmeaInfo,
          onCapabilitiesInfo, onGnssSVInfo, onGnssSignalInfo, onXtraStatusUpdate,
          onLocationSystemInfo, onDetailedEngineLocationUpdate, onGnssMeasurementsInfo
    <3> QED
      BY <3>1 DEF AddsContextLater, Adds, CopiesHandler, Copies
  <2> QED
    BY <1>8, <2>7, <2>8, <2>9 DEF MixedSlots
<1>9. s \in MixedSlots => SoundSlot(s)
  BY <1>8 DEF SoundSlot
<1>10. ASSUME NEW removal, NEW deinit PROVE SoundSlot(SlotOf(AddsHandler, Copies, removal, deinit))
  BY DEF SoundSlot, SlotOf, AddsHandler, Adds, Copies
<1>11. Clears \in {Clears, NoClearing} /\ NoClearing \in {Clears, NoClearing}
  OBVIOUS
<1>12. CASE s \in {NetworkReject, RatChange, VoiceServiceInfo, DataServiceStatus,
                    DataRoamingStatus, SignalStrengthInfoChange, ImsRegStatusChange,
                    OperatingModeChange, ServiceDomain, LteCsCapability, ImsServiceInfo,
                    ImsPdpError, CellInfoChange, NrIconChange, LteCphyCa,
                    DataAvailSysStatus, ProcessStatus, ScrubStatus, WlanServiceStatus,
                    WlanEnable}
  BY <1>1, <1>2, <1>11, <1>12, SoundPairs
<1> QED
  BY <1>3, <1>4, <1>5, <1>6, <1>7, <1>9, <1>10, <1>11, <1>12, SoundPairs, SoundHandlers
  DEF Slots, MixedSlots

LEMMA Holders ==
  /\ Unlocked # Remover
  /\ \A c \in Clients : Registrar(c) # Unlocked /\ Registrar(c) # Remover
  /\ \A e \in Events : Reader(e) # Unlocked /\ Reader(e) # Remover
  /\ \A c \in Clients, e \in Events : Registrar(c) # Reader(e)
  /\ \A c, d \in Clients : Registrar(c) = Registrar(d) => c = d
  /\ \A e, f \in Events : Reader(e) = Reader(f) => e = f
BY DEF Unlocked, Remover, Registrar, Reader


\* The words of the slot belong together, and so do those a thread of the SDK read.
Paired(h, c) == c = ContextOf(h) \/ (slot.writer.keeps /\ h \in BareClients)

\* Who has a word to write, to take out or to use is the holder of the lock.
HoldersOnly ==
    /\ \A c \in Clients : unwritten[c] # {} => slotLock = Registrar(c)
    /\ clearing # {} => slotLock = Remover
    /\ \A e \in Events :
           \/ delivery[e] \in {"again", "context", "release"}
           \/ delivery[e] = "inside" /\ slot.reader.holds
           => slotLock = Reader(e)

\* The slot holds the two words of one client, but for the time its holder changes them.
SlotPaired ==
    /\ slotLock # Remover /\ (\A c \in Clients : slotLock # Registrar(c)) =>
           handlerFuncPtr = NoClient \/ Paired(handlerFuncPtr, contextPtr)
    /\ \A c \in Clients : slotLock = Registrar(c) =>
           /\ "handler" \notin unwritten[c] => handlerFuncPtr = c
           /\ "context" \notin unwritten[c] => Paired(c, contextPtr)
    /\ slotLock = Remover /\ "handler" \notin clearing => handlerFuncPtr = NoClient

\* What a thread of the SDK read, it read under the lock.
ReadPaired ==
    \A e \in Events :
        /\ delivery[e] \in {"again", "context"} =>
               handlerFunc[e] = handlerFuncPtr /\ handlerFuncPtr # NoClient
        /\ delivery[e] \in {"release", "inside"} => Paired(handlerFunc[e], ctx[e])
        /\ delivery[e] = "inside" /\ slot.reader.holds => handlerFunc[e] = handlerFuncPtr
        /\ delivery[e] = "release" => ~slot.reader.holds

\* Where a second handler is refused, who writes one found none.
FirstKept ==
    slot.writer.once = "locked" =>
        /\ accepted \subseteq {handlerFuncPtr}
        /\ \A c \in Clients : "handler" \in unwritten[c] => handlerFuncPtr = NoClient

\* A slot of the handler alone holds no context.
NoContext == ~slot.writer.context => contextPtr = NoClient /\ \A e \in Events : ctx[e] = NoClient

HandlersIInv ==
    /\ HandlersTypeOK
    /\ NoContext
    /\ Locked(slot) => HoldersOnly /\ SlotPaired /\ ReadPaired /\ FirstKept

LEMMA HandlersInitInv == HandlersInit => HandlersIInv
<1> SUFFICES ASSUME HandlersInit PROVE HandlersIInv
  OBVIOUS
<1>1. HandlersTypeOK
  BY Zenon DEF HandlersInit, HandlersTypeOK, AnyClient
<1>2. NoContext
  BY DEF HandlersInit, NoContext
<1>3. HoldersOnly /\ ReadPaired
  BY DEF HandlersInit, HoldersOnly, ReadPaired
<1>4. SlotPaired /\ FirstKept
  BY Holders DEF HandlersInit, SlotPaired, FirstKept
<1> QED
  BY <1>1, <1>2, <1>3, <1>4 DEF HandlersIInv

LEMMA HandlersTypeStep == HandlersTypeOK /\ [HandlersNext]_handlerVars => HandlersTypeOK'
<1> SUFFICES ASSUME HandlersTypeOK, [HandlersNext]_handlerVars PROVE HandlersTypeOK'
  OBVIOUS
<1> DEFINE LockStates == {Unlocked, Remover} \cup {Registrar(c) : c \in Clients}
                                             \cup {Reader(e) : e \in Events}
<1> USE DEF HandlersTypeOK, AnyClient, Words, Delivers, Take, LetGo, pairVars, clientVars,
            eventVars
<1>0. /\ \A c \in Clients : ContextOf(c) \in AnyClient /\ WordsOf(c) \in SUBSET Words
      /\ AfterHandler \in {"context", "release"}
      /\ Unlocked \in LockStates /\ Remover \in LockStates
      /\ \A c \in Clients : Registrar(c) \in LockStates
      /\ \A e \in Events : Reader(e) \in LockStates
  BY DEF ContextOf, WordsOf, AfterHandler
<1>1. ASSUME NEW c \in Clients, LookFirst(c) \/ Refuse(c) \/ Install(c) PROVE HandlersTypeOK'
  <2>1. CASE LookFirst(c)
    BY <2>1 DEF LookFirst
  <2>2. CASE Refuse(c)
    BY <2>2 DEF Refuse
  <2>3. CASE Install(c)
    BY <1>0, <2>3 DEF Install
  <2> QED
    BY <1>1, <2>1, <2>2, <2>3
<1>2. ASSUME NEW c \in Clients, WriteHandler(c) \/ WriteContext(c) \/ FinishLocked(c)
      PROVE  HandlersTypeOK'
  <2>1. CASE WriteHandler(c)
    BY <2>1 DEF WriteHandler, Writes
  <2>2. CASE WriteContext(c)
    BY <1>0, <2>2 DEF WriteContext, Writes
  <2>3. CASE FinishLocked(c)
    BY <1>0, <2>3 DEF FinishLocked
  <2> QED
    BY <1>2, <2>1, <2>2, <2>3
<1>3. ASSUME NEW how \in Clearings, TakeOut(how) PROVE HandlersTypeOK'
  BY <1>0, <1>3 DEF TakeOut, Clearings
<1>4. RemoveHandler \/ ClearAtDeinit => \E how \in Clearings : TakeOut(how)
  BY SlotsAssumption DEF RemoveHandler, ClearAtDeinit, SlotSet
<1>5. CASE ClearHandler \/ ClearContext \/ FinishClearing
  BY <1>0, <1>5 DEF ClearHandler, ClearContext, FinishClearing
<1>6. ASSUME NEW e \in Events, Deliver(e) PROVE HandlersTypeOK'
  <2> DEFINE Steps == {"idle", "again", "context", "release", "inside", "stuck", "crashed"}
  <2>1. UNCHANGED <<pairVars, clientVars, clearing>>
    BY <1>6 DEF Deliver, Notice, ReadAgain, ReadContext, StopReading, HandlerRemoves,
                HandlerReturns
  <2>2. UNCHANGED slotLock \/ slotLock' = Unlocked \/ slotLock' = Reader(e)
    BY <1>6 DEF Deliver, Notice, ReadAgain, ReadContext, StopReading, HandlerRemoves,
                HandlerReturns
  <2>3. slotLock \in LockStates /\ delivery \in [Events -> Steps]
    OBVIOUS
  <2>4. \E next \in Steps : delivery' = [delivery EXCEPT ![e] = next]
    BY <1>0, <1>6 DEF Deliver, Notice, ReadAgain, ReadContext, StopReading, HandlerRemoves,
                      HandlerReturns
  <2>5. handlerFunc' \in [Events -> AnyClient] /\ ctx' \in [Events -> AnyClient]
    BY <1>6 DEF Deliver, Notice, ReadAgain, ReadContext, StopReading, HandlerRemoves,
                HandlerReturns
  <2>6. slotLock' \in LockStates
    <3> HIDE DEF LockStates
    <3> QED
      BY <1>0, <2>2, <2>3
  <2>7. delivery' \in [Events -> Steps]
    <3> HIDE DEF Steps
    <3> QED
      BY <2>3, <2>4
  <2> QED
    BY Zenon, <2>1, <2>5, <2>6, <2>7
<1>7. CASE UNCHANGED handlerVars
  BY <1>7 DEF handlerVars
<1> QED
  BY <1>1, <1>2, <1>3, <1>4, <1>5, <1>6, <1>7 DEF HandlersNext, Register, Clear

\* A slot does not change, nor what belongs together in it.
LEMMA SlotStays ==
  ASSUME [HandlersNext]_handlerVars
  PROVE  slot' = slot /\ \A h, c : Paired(h, c)' <=> Paired(h, c)
<1>1. slot' = slot
  BY DEF HandlersNext, handlerVars, pairVars, Register, Clear, Deliver, LookFirst, Refuse,
         Install, WriteHandler, WriteContext, FinishLocked, RemoveHandler, ClearAtDeinit,
         TakeOut, ClearHandler, ClearContext, FinishClearing, Notice, ReadAgain, ReadContext,
         StopReading, HandlerRemoves, HandlerReturns
<1> QED
  BY <1>1 DEF Paired, ContextOf

LEMMA NoContextStep ==
  HandlersTypeOK /\ NoContext /\ [HandlersNext]_handlerVars => NoContext'
<1> SUFFICES ASSUME HandlersTypeOK, NoContext, [HandlersNext]_handlerVars, ~slot.writer.context
             PROVE  contextPtr' = NoClient /\ \A e \in Events : ctx'[e] = NoClient
  BY SlotStays DEF NoContext
<1>1. /\ contextPtr = NoClient /\ \A e \in Events : ctx[e] = NoClient
      /\ ctx \in [Events -> AnyClient]
      /\ \A c \in Clients : ContextOf(c) = NoClient
  BY DEF NoContext, HandlersTypeOK, ContextOf
<1>2. contextPtr' = NoClient
      /\ (ctx' = ctx \/ \E e \in Events : ctx' = [ctx EXCEPT ![e] = NoClient])
  BY <1>1 DEF HandlersNext, handlerVars, pairVars, eventVars, Register, Clear, Deliver,
         LookFirst, Refuse, Install, WriteHandler, WriteContext, FinishLocked, RemoveHandler,
         ClearAtDeinit, TakeOut, ClearHandler, ClearContext, FinishClearing, Notice, ReadAgain,
         ReadContext, StopReading, HandlerRemoves, HandlerReturns
<1>3. ASSUME NEW d \in Events, ctx' = [ctx EXCEPT ![d] = NoClient]
      PROVE  \A e \in Events : ctx'[e] = NoClient
  BY <1>1, <1>3
<1> QED
  BY <1>1, <1>2, <1>3

LEMMA HandlersStep == HandlersIInv /\ [HandlersNext]_handlerVars => HandlersIInv'
<1> SUFFICES ASSUME HandlersIInv, [HandlersNext]_handlerVars PROVE HandlersIInv'
  OBVIOUS
<1>0. HandlersTypeOK /\ HandlersTypeOK' /\ NoContext'
  BY HandlersTypeStep, NoContextStep DEF HandlersIInv
<1>1. slot' = slot /\ \A h, c : Paired(h, c)' <=> Paired(h, c)
  BY SlotStays
<1> DEFINE Good == HoldersOnly /\ SlotPaired /\ ReadPaired /\ FirstKept
<1> SUFFICES ASSUME Locked(slot), HoldersOnly, SlotPaired, ReadPaired, FirstKept PROVE Good'
  BY <1>0, <1>1 DEF HandlersIInv, Locked
<1>2. /\ slot.writer.locks = Words /\ slot.reader.locks = Words /\ Words # {}
      /\ \A how \in {slot.removal, slot.deinit} :
             how.words = {} \/ ("handler" \in how.words /\ how.locks)
      /\ AfterHandler = "context"
  BY DEF Locked, Words, AfterHandler
<1>3. \A c \in Clients :
          /\ c # NoClient /\ "handler" \in WordsOf(c)
          /\ Paired(c, ContextOf(c))
          /\ "context" \notin WordsOf(c) => Paired(c, contextPtr)
  BY ClientsAssumption DEF HandlersIInv, NoContext, Paired, WordsOf, ContextOf, Words
<1> USE <1>0, <1>1, <1>2, <1>3, Holders DEF Delivers, Take, LetGo, pairVars, clientVars, eventVars
<1>4. ASSUME NEW c \in Clients, LookFirst(c) \/ Refuse(c) PROVE Good'
  BY <1>4 DEF LookFirst, Refuse, HoldersOnly, SlotPaired, ReadPaired, FirstKept
<1>5. ASSUME NEW c \in Clients, Install(c) PROVE Good'
  <2>1. /\ slotLock = Unlocked /\ slotLock' = Registrar(c)
        /\ UNCHANGED <<pairVars, clearing, eventVars>>
        /\ slot.writer.once = "locked" => handlerFuncPtr = NoClient
        /\ unwritten' = [unwritten EXCEPT ![c] = WordsOf(c)]
    BY <1>5 DEF Install
  <2>2. HoldersOnly' /\ ReadPaired'
    BY <2>1 DEF HoldersOnly, ReadPaired, HandlersTypeOK
  <2>3. SlotPaired' /\ FirstKept'
    BY <2>1 DEF SlotPaired, FirstKept, HoldersOnly, HandlersTypeOK
  <2> QED
    BY <2>2, <2>3
<1>6. ASSUME NEW c \in Clients, WriteHandler(c) PROVE Good'
  <2>1. /\ slotLock = Registrar(c) /\ handlerFuncPtr' = c /\ accepted' = accepted \cup {c}
        /\ "handler" \in unwritten[c] /\ unwritten' = [unwritten EXCEPT ![c] = @ \ {"handler"}]
        /\ UNCHANGED <<contextPtr, slotLock, clearing, eventVars>>
    BY <1>6 DEF WriteHandler, Writes, Words
  <2>2. HoldersOnly' /\ ReadPaired'
    BY <2>1 DEF HoldersOnly, ReadPaired, HandlersTypeOK
  <2>3. SlotPaired'
    BY <2>1 DEF SlotPaired, HoldersOnly, HandlersTypeOK
  <2>4. FirstKept'
    BY <2>1 DEF FirstKept, HoldersOnly, HandlersTypeOK
  <2> QED
    BY <2>2, <2>3, <2>4
<1>7. ASSUME NEW c \in Clients, WriteContext(c) PROVE Good'
  <2>1. /\ slotLock = Registrar(c) /\ contextPtr' = ContextOf(c)
        /\ "context" \in unwritten[c] /\ unwritten' = [unwritten EXCEPT ![c] = @ \ {"context"}]
        /\ UNCHANGED <<handlerFuncPtr, accepted, slotLock, clearing, eventVars>>
    BY <1>7 DEF WriteContext, Writes, Words
  <2>2. HoldersOnly' /\ ReadPaired'
    BY <2>1 DEF HoldersOnly, ReadPaired, HandlersTypeOK
  <2>3. SlotPaired'
    BY <2>1 DEF SlotPaired, HoldersOnly, HandlersTypeOK
  <2>4. FirstKept'
    BY <2>1 DEF FirstKept, HoldersOnly, HandlersTypeOK
  <2> QED
    BY <2>2, <2>3, <2>4
<1>8. ASSUME NEW c \in Clients, FinishLocked(c) PROVE Good'
  <2>1. /\ slotLock = Registrar(c) /\ slotLock' = Unlocked
        /\ unwritten[c] = {} /\ UNCHANGED <<pairVars, clientVars, clearing, eventVars>>
    BY <1>8 DEF FinishLocked, HandlersTypeOK
  <2>2. HoldersOnly' /\ ReadPaired' /\ FirstKept'
    BY <2>1 DEF HoldersOnly, ReadPaired, FirstKept
  <2>3. SlotPaired'
    BY <2>1 DEF SlotPaired
  <2> QED
    BY <2>2, <2>3
<1>9. CASE RemoveHandler \/ ClearAtDeinit
  <2>1. /\ slotLock = Unlocked /\ slotLock' = Remover /\ "handler" \in clearing'
        /\ UNCHANGED <<pairVars, clientVars, eventVars>>
    BY <1>9 DEF RemoveHandler, ClearAtDeinit, TakeOut
  <2>2. HoldersOnly' /\ ReadPaired' /\ FirstKept'
    BY <2>1 DEF HoldersOnly, ReadPaired, FirstKept
  <2>3. SlotPaired'
    BY <2>1 DEF SlotPaired
  <2> QED
    BY <2>2, <2>3
<1>10. CASE ClearHandler
  <2>1. /\ slotLock = Remover /\ handlerFuncPtr' = NoClient /\ accepted' = {}
        /\ clearing' = clearing \ {"handler"}
        /\ UNCHANGED <<contextPtr, slotLock, clientVars, eventVars>>
    BY <1>10 DEF ClearHandler, HoldersOnly
  <2>2. HoldersOnly' /\ ReadPaired' /\ FirstKept'
    BY <2>1 DEF HoldersOnly, ReadPaired, FirstKept
  <2>3. SlotPaired'
    BY <2>1 DEF SlotPaired
  <2> QED
    BY <2>2, <2>3
<1>11. CASE ClearContext
  <2>1. /\ slotLock = Remover /\ contextPtr' = NoClient
        /\ clearing' = clearing \ {"context"}
        /\ UNCHANGED <<handlerFuncPtr, accepted, slotLock, clientVars, eventVars>>
    BY <1>11 DEF ClearContext, HoldersOnly
  <2>2. HoldersOnly' /\ ReadPaired' /\ FirstKept'
    BY <2>1 DEF HoldersOnly, ReadPaired, FirstKept
  <2>3. SlotPaired'
    BY <2>1 DEF SlotPaired
  <2> QED
    BY <2>2, <2>3
<1>12. CASE FinishClearing
  <2>1. /\ slotLock = Remover /\ slotLock' = Unlocked /\ clearing = {}
        /\ UNCHANGED <<pairVars, clientVars, clearing, eventVars>>
    BY <1>12 DEF FinishClearing
  <2>2. HoldersOnly' /\ ReadPaired' /\ FirstKept'
    BY <2>1 DEF HoldersOnly, ReadPaired, FirstKept
  <2>3. SlotPaired'
    BY <2>1 DEF SlotPaired
  <2> QED
    BY <2>2, <2>3
<1>13. ASSUME NEW e \in Events, Notice(e) PROVE Good'
  <2>1. /\ slotLock = Unlocked /\ slotLock' = Reader(e) /\ handlerFuncPtr # NoClient
        /\ delivery[e] = "idle" /\ handlerFunc' = [handlerFunc EXCEPT ![e] = handlerFuncPtr]
        /\ \E next \in {"again", "context"} : delivery' = [delivery EXCEPT ![e] = next]
        /\ UNCHANGED <<pairVars, clientVars, clearing, ctx>>
    BY <1>13 DEF Notice
  <2>2. HoldersOnly'
    BY <2>1 DEF HoldersOnly, HandlersTypeOK
  <2>3. SlotPaired' /\ FirstKept'
    BY <2>1 DEF SlotPaired, FirstKept
  <2>4. ReadPaired'
    BY <2>1 DEF ReadPaired, HandlersTypeOK
  <2> QED
    BY <2>2, <2>3, <2>4
<1>14. ASSUME NEW e \in Events, ReadAgain(e) PROVE Good'
  <2>1. /\ slotLock = Reader(e) /\ handlerFuncPtr # NoClient /\ handlerFunc[e] = handlerFuncPtr
        /\ delivery[e] = "again" /\ delivery' = [delivery EXCEPT ![e] = "context"]
        /\ UNCHANGED <<pairVars, slotLock, clientVars, clearing, ctx>>
        /\ handlerFunc' = [handlerFunc EXCEPT ![e] = handlerFuncPtr] \/ handlerFunc' = handlerFunc
    BY <1>14 DEF ReadAgain, HoldersOnly, ReadPaired
  <2>2. HoldersOnly' /\ SlotPaired' /\ FirstKept'
    BY <2>1 DEF HoldersOnly, SlotPaired, FirstKept, HandlersTypeOK
  <2>3. ReadPaired'
    BY <2>1 DEF ReadPaired, HandlersTypeOK
  <2> QED
    BY <2>2, <2>3
<1>15. ASSUME NEW e \in Events, ReadContext(e) PROVE Good'
  <2>1. /\ slotLock = Reader(e) /\ handlerFuncPtr # NoClient /\ handlerFunc[e] = handlerFuncPtr
        /\ delivery[e] = "context" /\ ctx' = [ctx EXCEPT ![e] = contextPtr]
        /\ delivery' = [delivery EXCEPT ![e] = IF slot.reader.holds THEN "inside" ELSE "release"]
        /\ UNCHANGED <<pairVars, slotLock, clientVars, clearing, handlerFunc>>
    BY <1>15 DEF ReadContext, HoldersOnly, ReadPaired
  <2>2. Paired(handlerFuncPtr, contextPtr)
    BY <2>1 DEF SlotPaired
  <2>3. HoldersOnly' /\ SlotPaired' /\ FirstKept'
    BY <2>1 DEF HoldersOnly, SlotPaired, FirstKept, HandlersTypeOK
  <2>4. ReadPaired'
    BY <2>1, <2>2 DEF ReadPaired, HandlersTypeOK
  <2> QED
    BY <2>3, <2>4
<1>16. ASSUME NEW e \in Events, StopReading(e) PROVE Good'
  <2>1. /\ slotLock = Reader(e) /\ slotLock' = Unlocked /\ delivery[e] = "release"
        /\ delivery' = [delivery EXCEPT ![e] = "inside"]
        /\ UNCHANGED <<pairVars, clientVars, clearing, handlerFunc, ctx>>
    BY <1>16 DEF StopReading, Words
  <2>2. ~slot.reader.holds
    BY <2>1 DEF ReadPaired
  <2>3. HoldersOnly' /\ SlotPaired' /\ FirstKept'
    BY <2>1, <2>2 DEF HoldersOnly, SlotPaired, FirstKept, HandlersTypeOK
  <2>4. ReadPaired'
    BY <2>1, <2>2 DEF ReadPaired, HandlersTypeOK
  <2> QED
    BY <2>3, <2>4
<1>17. ASSUME NEW e \in Events, HandlerRemoves(e) PROVE Good'
  <2>1. /\ delivery' = [delivery EXCEPT ![e] = "stuck"]
        /\ UNCHANGED <<pairVars, slotLock, clientVars, clearing, handlerFunc, ctx>>
    BY <1>17 DEF HandlerRemoves
  <2> QED
    BY <2>1 DEF HoldersOnly, SlotPaired, FirstKept, ReadPaired, HandlersTypeOK
<1>18. ASSUME NEW e \in Events, HandlerReturns(e) PROVE Good'
  <2>1. /\ delivery' = [delivery EXCEPT ![e] = "idle"]
        /\ slotLock' = IF slotLock = Reader(e) THEN Unlocked ELSE slotLock
        /\ handlerFunc' = [handlerFunc EXCEPT ![e] = NoClient]
        /\ ctx' = [ctx EXCEPT ![e] = NoClient]
        /\ UNCHANGED <<pairVars, clientVars, clearing>>
    BY <1>18 DEF HandlerReturns
  <2>2. HoldersOnly' /\ SlotPaired' /\ FirstKept'
    BY <2>1 DEF HoldersOnly, SlotPaired, FirstKept, HandlersTypeOK
  <2>3. ReadPaired'
    BY <2>1 DEF ReadPaired, HandlersTypeOK
  <2> QED
    BY <2>2, <2>3
<1>19. CASE UNCHANGED handlerVars
  BY <1>19 DEF handlerVars, HoldersOnly, SlotPaired, FirstKept, ReadPaired
<1> QED
  BY <1>4, <1>5, <1>6, <1>7, <1>8, <1>9, <1>10, <1>11, <1>12, <1>13, <1>14, <1>15, <1>16,
     <1>17, <1>18, <1>19 DEF HandlersNext, Register, Clear, Deliver

LEMMA HandlersInvariant == HandlersSpec => []HandlersIInv
<1> QED
  BY HandlersInitInv, HandlersStep, PTL DEF HandlersSpec

\* The state of a handler slot stays within its types.
THEOREM HandlerTypes == HandlersSpec => []HandlersTypeOK
<1>1. HandlersIInv => HandlersTypeOK
  BY DEF HandlersIInv
<1> QED
  BY <1>1, HandlersInvariant, PTL

\* A handler is called with the context of its own client, however many clients, removals
\* and events contend for the lock: in every slot of the repository but the mixed ones,
\* and but for the client that inherits one.
THEOREM ContextsAreOwn ==
  ASSUME SlotsHere \subseteq Slots PROVE HandlersSpec => []OwnHandlerContext
<1>1. HandlersIInv => OwnHandlerContext
  <2> SUFFICES ASSUME HandlersIInv, NEW e \in Events, delivery[e] = "inside",
                      slot \notin MixedSlots
               PROVE  \/ ctx[e] = ContextOf(handlerFunc[e])
                      \/ slot \in HeirSlots /\ handlerFunc[e] \in BareClients
    BY DEF OwnHandlerContext
  <2>1. SoundSlot(slot)
    BY SoundSlots DEF HandlersIInv, HandlersTypeOK
  <2>2. CASE ~slot.writer.context
    BY <2>2 DEF HandlersIInv, NoContext, ContextOf
  <2>3. CASE Locked(slot)
    BY <2>1, <2>3 DEF SoundSlot, HandlersIInv, ReadPaired, Paired
  <2> QED
    BY <2>1, <2>2, <2>3 DEF SoundSlot
<1> QED
  BY <1>1, HandlersInvariant, PTL

\* A handler that was accepted where a second is refused under the lock is not replaced,
\* in every slot of the repository.
THEOREM FirstStays ==
  ASSUME SlotsHere \subseteq Slots PROVE HandlersSpec => []FirstHandlerStays
<1>1. HandlersIInv => FirstHandlerStays
  <2>1. HandlersIInv => SoundSlot(slot)
    BY SoundSlots DEF HandlersIInv, HandlersTypeOK
  <2> QED
    BY <2>1 DEF SoundSlot, HandlersIInv, FirstKept, FirstHandlerStays
<1> QED
  BY <1>1, HandlersInvariant, PTL

\* Where the lock is held through the call, no handler runs once it is taken out, but for
\* the events of a sensor.
THEOREM NoneLate ==
  ASSUME SlotsHere \subseteq Slots PROVE HandlersSpec => []NoLateCall
<1>1. HandlersIInv => NoLateCall
  <2>1. HandlersIInv => SoundSlot(slot)
    BY SoundSlots DEF HandlersIInv, HandlersTypeOK
  <2> QED
    BY <2>1 DEF SoundSlot, HandlersIInv, ReadPaired, NoLateCall
<1> QED
  BY <1>1, HandlersInvariant, PTL

-----------------------------------------------------------------------------
(* NetworkSelection.                                                       *)

\* Where a call of this life is once it passed the look at the flags, until it returns.
Underway == {"get", "create", "lock", "listen", "reset", "ready", "wait", "collect", "pci"}

\* What Deinit and Init keep to, in their steps: the flags, and the mutex of the manager.
Steps ==
    /\ deinitStep \in {"cancel", "reset", "finish"} => isShuttingDown /\ radioUp
    /\ deinitStep = "init" => ~isShuttingDown /\ ~radioUp
    /\ deinitStep = "no" /\ radioUp => ~isShuttingDown
    /\ deinitStep = "finish" => networkSelection = NoLife /\ scanListener = NoLife
    /\ creating # NoOne => radioUp /\ deinitStep \in {"no", "cancel"}
    /\ \A w \in Workers : place[w] = "create" => creating = w

\* What a call keeps to.
CallKeeps(w) ==
    /\ captured[w] <= lifecycleGeneration
    /\ place[w] = "new" => captured[w] = NoLife
    /\ place[w] # "returned" => verdict[w] = "none"
    /\ place[w] \notin {"wait", "collect", "returned"} => sdkDoes[w] = "idle"
    /\ place[w] \in Underway /\ captured[w] = lifecycleGeneration =>
           radioUp /\ deinitStep = "no"
    /\ place[w] \in {"lock", "listen", "reset", "collect"} => kind[w] = "scan"
    /\ kind[w] = "scan" /\ place[w] \in {"reset", "ready", "wait", "collect"} =>
           box[w] \in Generations

RadioIInv ==
    /\ RadioTypeOK
    /\ Steps
    /\ \A w \in Workers : CallKeeps(w)
    /\ NothingLeft

LEMMA GenerationRange ==
    /\ Generations \subseteq Int /\ 0 \in Generations /\ NoLife \notin Generations
    /\ \A g \in Generations : g < MaxGeneration => g + 1 \in Generations
BY GenerationAssumption DEF Generations, NoLife

LEMMA LifeNumbers ==
    ASSUME RadioTypeOK, NEW w \in Workers
    PROVE  captured[w] \in Int /\ lifecycleGeneration \in Int
<1>1. captured[w] \in Generations \cup {NoLife} /\ lifecycleGeneration \in Generations
  BY DEF RadioTypeOK
<1>2. NoLife \in Int
  BY DEF NoLife
<1> QED
  BY <1>1, <1>2, GenerationRange, Zenon

LEMMA RadioInitInv == RadioInit => RadioIInv
<1> SUFFICES ASSUME RadioInit PROVE RadioIInv
  OBVIOUS
<1>1. RadioTypeOK
  BY GenerationRange, Zenon DEF RadioInit, RadioTypeOK, Places, Boxes, EmptyBox, Values
<1>2. Steps /\ NothingLeft
  BY DEF RadioInit, Steps, NothingLeft
<1>3. ASSUME NEW w \in Workers PROVE CallKeeps(w)
  <2>1. captured[w] = -1 /\ lifecycleGeneration = 0 /\ place[w] = "new"
    BY DEF RadioInit, NoLife
  <2> QED
    BY <2>1 DEF RadioInit, CallKeeps, Underway, NoLife
<1> QED
  BY <1>1, <1>2, <1>3 DEF RadioIInv

\* A box keeps its type under all that is written to it.
LEMMA BoxStep ==
    ASSUME RadioTypeOK, NEW g, NEW r \in Values
    PROVE  /\ [scanBox EXCEPT ![g] = EmptyBox] \in [Generations -> Boxes]
           /\ [scanBox EXCEPT ![g] = [@ EXCEPT !.completed = TRUE, !.result = r]]
                  \in [Generations -> Boxes]
           /\ [scanBox EXCEPT ![g].list = {}] \in [Generations -> Boxes]
<1>1. scanBox \in [Generations -> Boxes]
  BY DEF RadioTypeOK
<1>2. EmptyBox \in Boxes
  BY DEF EmptyBox, Boxes, Values
<1>3. ASSUME NEW b \in Boxes
      PROVE  /\ [b EXCEPT !.completed = TRUE, !.result = r] \in Boxes
             /\ [b EXCEPT !.list = {}] \in Boxes
  BY Zenon DEF Boxes
<1> QED
  BY <1>1, <1>2, <1>3, Zenon

LEMMA ReturnType ==
    ASSUME RadioTypeOK, NEW w \in Workers, NEW r \in Verdicts, NEW list \in SUBSET Workers,
           ReturnWith(w, r, list)
    PROVE  /\ place' \in [Workers -> Places]
           /\ verdict' \in [Workers -> Verdicts \cup {"none"}]
           /\ got' \in [Workers -> SUBSET Workers]
           /\ scanning' \in Workers \cup {NoOne}
BY DEF RadioTypeOK, ReturnWith, Go, Places

LEMMA RefusedType ==
    ASSUME RadioTypeOK, NEW w \in Workers, ReturnNothing(w, "refused")
    PROVE  /\ place' \in [Workers -> Places]
           /\ verdict' \in [Workers -> Verdicts \cup {"none"}]
           /\ got' \in [Workers -> SUBSET Workers]
           /\ scanning' \in Workers \cup {NoOne}
BY ReturnType DEF ReturnNothing, Verdicts

LEMMA RadioTypeStep == RadioIInv /\ [RadioNext]_radioVars => RadioTypeOK'
<1> SUFFICES ASSUME RadioIInv, [RadioNext]_radioVars PROVE RadioTypeOK'
  OBVIOUS
<1>0. RadioTypeOK /\ \A w \in Workers : CallKeeps(w)
  BY DEF RadioIInv
<1> USE <1>0
    DEF RadioTypeOK, lifeVars, managerVars, callVars, requestVars, returnVars
<1>1. ASSUME NEW w \in Workers, Capture(w) PROVE RadioTypeOK'
  BY <1>1 DEF Capture, Go, Places
<1>2. ASSUME NEW w \in Workers, CheckFlags(w) PROVE RadioTypeOK'
  <2>1. CASE isShuttingDown \/ ~radioUp
    <3>1. ReturnNothing(w, "refused")
      BY <1>2, <2>1 DEF CheckFlags
    <3> QED
      BY <1>2, <3>1, RefusedType DEF CheckFlags
  <2>2. CASE ~isShuttingDown /\ radioUp
    BY <1>2, <2>2 DEF CheckFlags, Go, Places
  <2> QED
    BY <2>1, <2>2
<1>3. ASSUME NEW w \in Workers, ScanCells(w) PROVE RadioTypeOK'
  <2>1. PICK r \in Verdicts : ReturnNothing(w, r)
    BY <1>3 DEF ScanCells, Verdicts, Values
  <2> QED
    BY <1>3, <2>1, ReturnType DEF ScanCells, ReturnNothing
<1>4. ASSUME NEW w \in Workers, GetManager(w) PROVE RadioTypeOK'
  <2>1. CASE isShuttingDown \/ ~radioUp
    <3>1. ReturnNothing(w, "refused") /\ UNCHANGED <<used, creating>>
      BY <1>4, <2>1 DEF GetManager
    <3> QED
      BY <1>4, <3>1, RefusedType DEF GetManager
  <2>2. CASE ~isShuttingDown /\ radioUp
    BY <1>4, <2>2 DEF GetManager, UseManager, Go, Places
  <2> QED
    BY <2>1, <2>2
<1>5. ASSUME NEW w \in Workers, Create(w) PROVE RadioTypeOK'
  <2>1. CASE ReturnNothing(w, "refused") /\ UNCHANGED <<networkSelection, scanListener, used>>
    BY <1>5, <2>1, RefusedType DEF Create
  <2>2. CASE /\ networkSelection' = lifecycleGeneration
             /\ scanListener' \in {scanListener, lifecycleGeneration}
             /\ UseManager(w, lifecycleGeneration)
             /\ UNCHANGED <<scanning, got, verdict>>
    <3>1. place' \in [Workers -> Places]
      BY <2>2 DEF UseManager, Go, Places
    <3> QED
      BY <1>5, <2>2, <3>1, Zenon DEF Create, UseManager
  <2> QED
    BY <1>5, <2>1, <2>2 DEF Create
<1>6. ASSUME NEW w \in Workers, LockScan(w) PROVE RadioTypeOK'
  BY <1>6 DEF LockScan, Go, Places
<1>7. ASSUME NEW w \in Workers, FindListener(w) PROVE RadioTypeOK'
  <2>1. CASE scanListener = NoLife
    <3>1. ReturnNothing(w, "refused") /\ UNCHANGED box
      BY <1>7, <2>1 DEF FindListener
    <3> QED
      BY <1>7, <3>1, RefusedType DEF FindListener
  <2>2. CASE scanListener # NoLife
    BY <1>7, <2>2 DEF FindListener, Go, Places
  <2> QED
    BY <2>1, <2>2
<1>8. ASSUME NEW w \in Workers, ResetBox(w) PROVE RadioTypeOK'
  <2>1. scanBox' \in [Generations -> Boxes]
    BY <1>8, BoxStep, Zenon DEF ResetBox, Values
  <2> QED
    BY <1>8, <2>1 DEF ResetBox, Go, Places
<1>9. ASSUME NEW w \in Workers, StartRequest(w) PROVE RadioTypeOK'
  <2>1. ASSUME NEW r \in {"shutdown", "fault"}, ReturnNothing(w, r),
               UNCHANGED <<registered, sdkDoes, scanRun>>
        PROVE  RadioTypeOK'
    BY <1>9, <2>1, ReturnType DEF StartRequest, ReturnNothing, Verdicts, Values
  <2>2. CASE /\ registered' = registered \cup {w}
             /\ sdkDoes' = [sdkDoes EXCEPT ![w] = "owes"]
             /\ scanRun' = IF kind[w] = "scan" THEN [scanRun EXCEPT ![w] = "running"]
                           ELSE scanRun
             /\ Go(w, "wait")
             /\ UNCHANGED <<scanning, got, verdict>>
    BY <1>9, <2>2 DEF StartRequest, Go, Places
  <2> QED
    BY <1>9, <2>1, <2>2 DEF StartRequest, Submit
<1>10. ASSUME NEW w \in Workers, EndWait(w) PROVE RadioTypeOK'
  <2>1. CASE Go(w, "collect") /\ UNCHANGED <<scanning, got, verdict>>
    BY <1>10, <2>1 DEF EndWait, Go, Places
  <2>2. ASSUME NEW r \in Verdicts, ReturnNothing(w, r) PROVE RadioTypeOK'
    BY <1>10, <2>2, ReturnType DEF EndWait, ReturnNothing
  <2>3. value[w] \in Verdicts /\ "shutdown" \in Verdicts
    BY <1>10 DEF EndWait, Verdicts, Values
  <2> QED
    BY <1>10, <2>1, <2>2, <2>3 DEF EndWait
<1>11. ASSUME NEW w \in Workers, TimeOutWait(w) PROVE RadioTypeOK'
  BY <1>11 DEF TimeOutWait, Values
<1>12. ASSUME NEW w \in Workers, Collect(w) PROVE RadioTypeOK'
  <2>1. scanBox[box[w]] \in Boxes
    BY <1>12 DEF Collect, CallKeeps
  <2>2. PICK r \in Verdicts, list \in SUBSET Workers : ReturnWith(w, r, list)
    BY <1>12, <2>1 DEF Collect, Verdicts, Values, Boxes
  <2>3. scanBox' \in [Generations -> Boxes]
    BY <1>12, BoxStep, Zenon DEF Collect, Values
  <2> QED
    BY <1>12, <2>2, <2>3, ReturnType DEF Collect
<1>13. ASSUME NEW w \in Workers, TimeOutCollect(w) PROVE RadioTypeOK'
  <2>1. scanBox' \in [Generations -> Boxes]
    BY <1>13, BoxStep, Zenon DEF TimeOutCollect, CompleteBox, Values
  <2> QED
    BY <1>13, <2>1 DEF TimeOutCollect
<1>14. ASSUME NEW w \in Workers, Respond(w) PROVE RadioTypeOK'
  BY <1>14 DEF Respond, Verdict, Values
<1>15. ASSUME NEW w \in Workers, Fulfil(w) PROVE RadioTypeOK'
  BY <1>15 DEF Fulfil
<1>16. ASSUME NEW w \in Workers, ScanResults(w) PROVE RadioTypeOK'
  <2>1. scanBox' \in [Generations -> Boxes]
    <3> DEFINE After(b, status) ==
                 [completed |-> status # "PARTIAL",
                  result |-> IF status = "FAILED" THEN "fault" ELSE b.result,
                  list |-> IF status = "FAILED" THEN b.list ELSE b.list \cup {w}]
    <3>1. ASSUME NEW b \in Boxes, NEW status PROVE After(b, status) \in Boxes
      <4>1. b.result \in Values /\ b.list \subseteq Workers /\ "fault" \in Values
        BY DEF Boxes, Values
      <4> QED
        BY <4>1 DEF Boxes
    <3>2. PICK status \in {"PARTIAL", "COMPLETE", "FAILED"} :
              scanBox' = IF scanBox[used[w]].completed THEN scanBox
                ELSE [scanBox EXCEPT ![used[w]] = After(@, status)]
      BY <1>16, Zenon DEF ScanResults
    <3> HIDE DEF After
    <3>3. scanBox \in [Generations -> Boxes]
      OBVIOUS
    <3>4. used[w] \in Generations => After(scanBox[used[w]], status) \in Boxes
      BY <3>1, <3>3
    <3> QED
      BY ONLY <3>2, <3>3, <3>4, Zenon
  <2> QED
    BY <1>16, <2>1 DEF ScanResults
<1>17. CASE MarkShutdown
  BY <1>17, GenerationRange DEF MarkShutdown, Values
<1>18. CASE CancelScans
  <2>1. scanBox' \in [Generations -> Boxes]
    <3>1. "shutdown" \in Values
      BY DEF Values
    <3>2. CASE CompleteBox(scanListener, "shutdown")
      BY <3>1, <3>2, BoxStep, Zenon DEF CompleteBox
    <3> QED
      BY <1>18, <3>2 DEF CancelScans
  <2> QED
    BY <1>18, <2>1 DEF CancelScans
<1>19. CASE ResetManager \/ FinishDeinit
  <2>1. CASE ResetManager
    BY <2>1 DEF ResetManager
  <2>2. CASE FinishDeinit
    BY <2>2, Zenon DEF FinishDeinit
  <2> QED
    BY <1>19, <2>1, <2>2
<1>20. CASE BeginInit \/ EndInit
  <2>1. CASE BeginInit
    BY <2>1, Zenon DEF BeginInit
  <2>2. CASE EndInit
    BY <2>2 DEF EndInit
  <2> QED
    BY <1>20, <2>1, <2>2
<1>21. CASE UNCHANGED radioVars
  BY <1>21 DEF radioVars
<1> QED
  BY Zenon, <1>1, <1>2, <1>3, <1>4, <1>5, <1>6, <1>7, <1>8, <1>9, <1>10, <1>11, <1>12, <1>13,
     <1>14, <1>15, <1>16, <1>17, <1>18, <1>19, <1>20, <1>21 DEF RadioNext, Deinit, Work

\* The steps that touch neither the flags nor the manager keep Steps.
LEMMA StepsCreate ==
    ASSUME RadioIInv, NEW w \in Workers, GetManager(w) \/ Create(w)
    PROVE  Steps' /\ NothingLeft'
<1> USE WorkersAssumption
    DEF RadioIInv, RadioTypeOK, Steps, NothingLeft, ReturnNothing, ReturnWith, Go,
        UseManager, lifeVars
<1>1. CASE GetManager(w)
  BY <1>1 DEF GetManager
<1>2. CASE Create(w)
  <2>1. place[w] = "create" /\ creating = w /\ radioUp /\ deinitStep \in {"no", "cancel"}
    BY <1>2 DEF Create
  <2> QED
    BY <1>2, <2>1 DEF Create
<1> QED
  BY <1>1, <1>2

LEMMA StepsOther ==
    ASSUME RadioIInv, NEW w \in Workers,
           \/ Capture(w) \/ CheckFlags(w) \/ ScanCells(w) \/ LockScan(w) \/ FindListener(w)
           \/ ResetBox(w) \/ StartRequest(w) \/ EndWait(w) \/ TimeOutWait(w) \/ Collect(w)
           \/ TimeOutCollect(w) \/ Respond(w) \/ Fulfil(w) \/ ScanResults(w)
    PROVE  Steps' /\ NothingLeft'
<1>1. UNCHANGED <<lifeVars, managerVars>>
  BY DEF Capture, CheckFlags, ScanCells, LockScan, FindListener, ResetBox, StartRequest,
         EndWait, TimeOutWait, Collect, TimeOutCollect, Respond, Fulfil, ScanResults
<1>2. \A v \in Workers : place'[v] = "create" => place[v] = "create"
  <2> USE DEF RadioIInv, RadioTypeOK, ReturnNothing, ReturnWith, Go, returnVars
  <2>1. CASE Capture(w) \/ CheckFlags(w) \/ ScanCells(w) \/ LockScan(w) \/ FindListener(w)
    BY <2>1 DEF Capture, CheckFlags, ScanCells, LockScan, FindListener
  <2>2. CASE ResetBox(w) \/ StartRequest(w) \/ EndWait(w) \/ Collect(w)
    BY <2>2 DEF ResetBox, StartRequest, Submit, EndWait, Collect
  <2>3. CASE TimeOutWait(w) \/ TimeOutCollect(w) \/ Respond(w) \/ Fulfil(w) \/ ScanResults(w)
    BY <2>3 DEF TimeOutWait, TimeOutCollect, Respond, Fulfil, ScanResults
  <2> QED
    BY <2>1, <2>2, <2>3
<1> QED
  BY <1>1, <1>2 DEF RadioIInv, Steps, NothingLeft, lifeVars, managerVars

LEMMA StepsLife ==
    ASSUME RadioIInv, Deinit \/ BeginInit \/ EndInit
    PROVE  Steps' /\ NothingLeft'
<1> USE DEF RadioIInv, RadioTypeOK, Steps, NothingLeft, managerVars, returnVars
<1>1. CASE MarkShutdown
  BY <1>1 DEF MarkShutdown
<1>2. CASE CancelScans
  BY <1>2 DEF CancelScans
<1>3. CASE ResetManager
  BY <1>3 DEF ResetManager
<1>4. CASE FinishDeinit
  BY <1>4 DEF FinishDeinit
<1>5. CASE BeginInit \/ EndInit
  BY <1>5 DEF BeginInit, EndInit
<1> QED
  BY <1>1, <1>2, <1>3, <1>4, <1>5 DEF Deinit

\* A call's own steps.
LEMMA CallOwn ==
    ASSUME RadioIInv, NEW w \in Workers, NEW v \in Workers,
           \/ Work(w) \/ TimeOutWait(w) \/ TimeOutCollect(w)
           \/ Respond(w) \/ Fulfil(w) \/ ScanResults(w)
    PROVE  CallKeeps(v)'
<1> USE GenerationRange
    DEF RadioIInv, RadioTypeOK, Steps, CallKeeps, Underway, ReturnNothing, ReturnWith, Go,
        lifeVars, managerVars, callVars, requestVars, returnVars
<1>1. CASE Capture(w)
  BY <1>1 DEF Capture
<1>2. CASE CheckFlags(w)
  BY <1>2 DEF CheckFlags
<1>3. CASE ScanCells(w)
  BY <1>3 DEF ScanCells
<1>4. CASE GetManager(w)
  BY <1>4 DEF GetManager, UseManager
<1>5. CASE Create(w)
  BY <1>5 DEF Create, UseManager
<1>6. CASE LockScan(w)
  BY <1>6 DEF LockScan
<1>7. CASE FindListener(w)
  <2>1. CASE scanListener = NoLife
    BY <1>7, <2>1 DEF FindListener
  <2>2. CASE scanListener # NoLife
    <3>1. scanListener \in Generations /\ place[w] = "listen" /\ Go(w, "reset")
      BY <1>7, <2>2 DEF FindListener
    <3>2. kind[w] = "scan"
      BY <3>1
    <3> QED
      BY <1>7, <2>2, <3>1, <3>2 DEF FindListener
  <2> QED
    BY <2>1, <2>2
<1>8. CASE ResetBox(w)
  BY <1>8 DEF ResetBox
<1>9. CASE StartRequest(w)
  BY <1>9 DEF StartRequest, Submit
<1>10. CASE EndWait(w)
  BY <1>10 DEF EndWait
<1>11. CASE Collect(w)
  BY <1>11 DEF Collect
<1>12. CASE TimeOutWait(w) \/ TimeOutCollect(w) \/ Respond(w) \/ Fulfil(w) \/ ScanResults(w)
  BY <1>12 DEF TimeOutWait, TimeOutCollect, Respond, Fulfil, ScanResults
<1> QED
  BY <1>1, <1>2, <1>3, <1>4, <1>5, <1>6, <1>7, <1>8, <1>9, <1>10, <1>11, <1>12 DEF Work

LEMMA CallLife ==
    ASSUME RadioIInv, Deinit \/ BeginInit \/ EndInit, NEW v \in Workers
    PROVE  CallKeeps(v)'
<1> USE GenerationRange
    DEF RadioIInv, RadioTypeOK, Steps, CallKeeps, managerVars, callVars, requestVars,
        returnVars
<1>1. CASE MarkShutdown
  <2>1. captured[v] \in Int /\ lifecycleGeneration \in Int
    BY LifeNumbers
  <2>2. captured[v] <= lifecycleGeneration /\ lifecycleGeneration' = lifecycleGeneration + 1
    BY <1>1 DEF MarkShutdown
  <2>3. captured[v] < lifecycleGeneration' /\ UNCHANGED <<captured, place>>
    BY <1>1, <2>1, <2>2 DEF MarkShutdown, callVars, returnVars
  <2>4. captured'[v] <= lifecycleGeneration' /\ captured'[v] # lifecycleGeneration'
    BY <2>1, <2>2, <2>3
  <2> QED
    BY <1>1, <2>3, <2>4 DEF MarkShutdown, callVars, returnVars
<1>2. CASE CancelScans \/ ResetManager \/ FinishDeinit
  BY <1>2 DEF CancelScans, ResetManager, FinishDeinit
<1>3. CASE BeginInit \/ EndInit
  BY <1>3 DEF BeginInit, EndInit
<1> QED
  BY <1>1, <1>2, <1>3 DEF Deinit

LEMMA RadioStep == RadioIInv /\ [RadioNext]_radioVars => RadioIInv'
<1> SUFFICES ASSUME RadioIInv, [RadioNext]_radioVars PROVE RadioIInv'
  OBVIOUS
<1>1. RadioTypeOK'
  BY RadioTypeStep
<1>2. Steps' /\ NothingLeft'
  <2>1. CASE UNCHANGED radioVars
    BY <2>1 DEF RadioIInv, Steps, NothingLeft, radioVars, lifeVars, managerVars, returnVars
  <2> QED
    BY <2>1, StepsCreate, StepsOther, StepsLife DEF RadioNext, Work
<1>3. ASSUME NEW v \in Workers PROVE CallKeeps(v)'
  <2>1. CASE UNCHANGED radioVars
    BY <2>1 DEF RadioIInv, CallKeeps, radioVars, lifeVars, callVars, requestVars, returnVars
  <2> QED
    BY <2>1, CallOwn, CallLife DEF RadioNext
<1> QED
  BY <1>1, <1>2, <1>3 DEF RadioIInv

LEMMA RadioInvariant == RadioSpec => []RadioIInv
<1> QED
  BY RadioInitInv, RadioStep, PTL DEF RadioSpec

\* The state of the network selection stays within its types.
THEOREM RadioTypes == RadioSpec => []RadioTypeOK
<1>1. RadioIInv => RadioTypeOK
  BY DEF RadioIInv
<1> QED
  BY <1>1, RadioInvariant, PTL

\* However many calls ask for the manager, none leaves it behind a Deinit.
THEOREM NothingIsLeft == RadioSpec => []NothingLeft
<1>1. RadioIInv => NothingLeft
  BY DEF RadioIInv
<1> QED
  BY <1>1, RadioInvariant, PTL

-----------------------------------------------------------------------------
(* The network selection implements ServiceLife.                           *)

LEMMA LifeInit == RadioInit => Life!Init
BY DEF RadioInit, Life!Init, NoLife

LEMMA LifeReturn ==
    ASSUME RadioIInv, NEW w \in Workers, NEW r \in Life!Results, ReturnNothing(w, r),
           place[w] # "returned",
           r = "ok" => captured[w] = lifecycleGeneration,
           r = "refused" => sdkDoes[w] = "idle",
           UNCHANGED <<lifecycleGeneration, radioUp, isShuttingDown, captured, sdkDoes>>
    PROVE  Life!Return(w, r)
BY DEF RadioIInv, CallKeeps, ReturnNothing, ReturnWith, Life!Return

\* A step of a call is a step of ServiceLife for that call, or none.
LEMMA LifeWork ==
    ASSUME RadioIInv, NEW w \in Workers, Work(w)
    PROVE  Life!Next \/ UNCHANGED Life!vars
<1>0. /\ RadioTypeOK /\ CallKeeps(w)
      /\ "ok" \in Life!Results /\ "refused" \in Life!Results /\ "fault" \in Life!Results
      /\ "timeout" \in Life!Results /\ "shutdown" \in Life!Results
  BY DEF RadioIInv, Life!Results
<1> USE <1>0 DEF CallKeeps, lifeVars, callVars, requestVars, returnVars
<1>1. ASSUME NEW r \in Life!Results, Life!Return(w, r) PROVE Life!Next
  BY <1>1 DEF Life!Next
<1>2. CASE Capture(w)
  <2>1. Life!Begin(w)
    BY <1>2 DEF Capture, Life!Begin, NoLife
  <2> QED
    BY <2>1 DEF Life!Next
<1>3. CASE CheckFlags(w)
  <2>1. CASE isShuttingDown \/ ~radioUp
    BY <1>1, <1>3, <2>1, LifeReturn DEF CheckFlags
  <2>2. CASE ~isShuttingDown /\ radioUp
    BY <1>3, <2>2 DEF CheckFlags, Life!vars
  <2> QED
    BY <2>1, <2>2
<1>4. CASE ScanCells(w)
  BY <1>1, <1>4, LifeReturn DEF ScanCells
<1>5. CASE GetManager(w)
  <2>1. CASE isShuttingDown \/ ~radioUp
    BY <1>1, <1>5, <2>1, LifeReturn DEF GetManager
  <2>2. CASE ~isShuttingDown /\ radioUp
    BY <1>5, <2>2 DEF GetManager, Life!vars
  <2> QED
    BY <2>1, <2>2
<1>6. CASE Create(w)
  <2>1. CASE ReturnNothing(w, "refused")
    BY <1>1, <1>6, <2>1, LifeReturn DEF Create
  <2>2. CASE UNCHANGED verdict
    BY <1>6, <2>2 DEF Create, Life!vars
  <2> QED
    BY <1>6, <2>1, <2>2 DEF Create
<1>7. CASE LockScan(w) \/ ResetBox(w)
  BY <1>7 DEF LockScan, ResetBox, Life!vars
<1>8. CASE FindListener(w)
  <2>1. CASE scanListener = NoLife
    BY <1>1, <1>8, <2>1, LifeReturn DEF FindListener
  <2>2. CASE scanListener # NoLife
    BY <1>8, <2>2 DEF FindListener, Life!vars
  <2> QED
    BY <2>1, <2>2
<1>9. CASE StartRequest(w)
  <2>1. ASSUME NEW r \in {"shutdown", "fault"}, ReturnNothing(w, r),
               UNCHANGED <<registered, sdkDoes, scanRun>>
        PROVE  Life!Next
    BY <1>1, <1>9, <2>1, LifeReturn DEF StartRequest
  <2>2. CASE /\ ~isShuttingDown /\ captured[w] = lifecycleGeneration
             /\ sdkDoes' = [sdkDoes EXCEPT ![w] = "owes"]
             /\ UNCHANGED verdict
    <3>1. radioUp /\ place[w] = "ready" /\ verdict[w] = "none" /\ sdkDoes[w] = "idle"
      BY <1>9, <2>2 DEF StartRequest, Underway
    <3>2. {v \in Workers : sdkDoes'[v] # "idle"} = {v \in Workers : sdkDoes[v] # "idle"} \cup {w}
      BY <2>2 DEF RadioTypeOK
    <3>3. Life!Submit(w)
      BY <1>9, <2>2, <3>1, <3>2 DEF StartRequest, Life!Submit
    <3> QED
      BY <3>3 DEF Life!Next
  <2> QED
    BY <1>9, <2>1, <2>2 DEF StartRequest, Submit
<1>10. CASE EndWait(w)
  <2>1. CASE UNCHANGED verdict
    BY <1>10, <2>1 DEF EndWait, Life!vars
  <2>2. ASSUME NEW r \in Values, ReturnNothing(w, r),
               r = "ok" => captured[w] = lifecycleGeneration
        PROVE  Life!Next
    BY <1>1, <1>10, <2>2, LifeReturn DEF EndWait, Values
  <2>3. value[w] \in Values /\ "shutdown" \in Values
    BY <1>10 DEF EndWait, RadioTypeOK, Values
  <2> QED
    BY <1>10, <2>1, <2>2, <2>3 DEF EndWait
<1>11. CASE Collect(w)
  <2>1. PICK r \in Values, list \in SUBSET Workers :
            ReturnWith(w, r, list) /\ (r = "ok" => captured[w] = lifecycleGeneration)
    BY <1>11 DEF Collect, RadioTypeOK, Boxes, Values
  <2>2. Life!Return(w, r)
    BY <1>11, <2>1, Zenon DEF Collect, ReturnWith, Life!Return, Values
  <2> QED
    BY <1>1, <2>2 DEF Values
<1> QED
  BY <1>2, <1>3, <1>4, <1>5, <1>6, <1>7, <1>8, <1>9, <1>10, <1>11 DEF Work

\* Deinit stops the service in its first step, Init starts it in its last.
LEMMA LifeSteps ==
    ASSUME RadioIInv, Deinit \/ BeginInit \/ EndInit
    PROVE  Life!Next \/ UNCHANGED Life!vars
<1> USE DEF RadioIInv, Steps, callVars, requestVars, returnVars
<1>1. CASE MarkShutdown
  <2>1. Life!Stop
    BY <1>1 DEF MarkShutdown, Life!Stop
  <2> QED
    BY <2>1 DEF Life!Next
<1>2. CASE CancelScans \/ ResetManager \/ FinishDeinit
  BY <1>2 DEF CancelScans, ResetManager, FinishDeinit, Life!vars
<1>3. CASE BeginInit
  BY <1>3 DEF BeginInit, Life!vars
<1>4. CASE EndInit
  <2>1. Life!Start
    BY <1>4 DEF EndInit, Life!Start
  <2> QED
    BY <2>1 DEF Life!Next
<1> QED
  BY <1>1, <1>2, <1>3, <1>4 DEF Deinit

LEMMA LifeStep == RadioIInv /\ [RadioNext]_radioVars => [Life!Next]_(Life!vars)
<1> SUFFICES ASSUME RadioIInv, [RadioNext]_radioVars
             PROVE  Life!Next \/ UNCHANGED Life!vars
  OBVIOUS
<1>1. ASSUME NEW w \in Workers,
             TimeOutWait(w) \/ TimeOutCollect(w) \/ Fulfil(w) \/ ScanResults(w)
      PROVE  UNCHANGED Life!vars
  BY <1>1 DEF TimeOutWait, TimeOutCollect, Fulfil, ScanResults, Life!vars, lifeVars,
              callVars, requestVars, returnVars
<1>2. ASSUME NEW w \in Workers, Respond(w) PROVE UNCHANGED Life!vars
  <2>1. {v \in Workers : sdkDoes'[v] # "idle"} = {v \in Workers : sdkDoes[v] # "idle"}
    BY <1>2 DEF Respond, RadioIInv, RadioTypeOK
  <2> QED
    BY <1>2, <2>1 DEF Respond, Life!vars, lifeVars, callVars, returnVars
<1>3. CASE UNCHANGED radioVars
  BY <1>3 DEF radioVars, lifeVars, callVars, requestVars, returnVars, Life!vars
<1> QED
  BY <1>1, <1>2, <1>3, LifeWork, LifeSteps DEF RadioNext

\* The network selection implements ServiceLife, for any calls and any number of
\* Deinits: no call reaches the SDK in another life than its own or succeeds there.
THEOREM LifeIsKept == RadioSpec => LifeKept
<1> QED
  BY RadioInvariant, LifeInit, LifeStep, PTL DEF RadioSpec, LifeKept, Life!Spec

\* Nobody gave up waiting for a scan that went on.
NoneGaveUp == \A v \in Workers : verdict[v] # "timeout"

\* The manager and its listener are of this life, but while Deinit takes them down.
Current ==
    deinitStep \in {"no", "init"} =>
        /\ networkSelection \in {NoLife, lifecycleGeneration}
        /\ scanListener \in {NoLife, lifecycleGeneration}

\* What a call holds: the mutex of the scans from the look for the listener on, and the
\* manager and the listener of the life it began in.
Keeper(w) ==
    /\ kind[w] = "scan" /\ place[w] \in {"listen", "reset", "ready", "wait", "collect"} =>
           scanning = w
    /\ place[w] = "pci" => kind[w] = "pci"
    /\ place[w] \in {"lock", "listen", "reset", "ready"}
           /\ captured[w] = lifecycleGeneration => used[w] = lifecycleGeneration
    /\ kind[w] = "scan" /\ place[w] \in {"reset", "ready"}
           /\ captured[w] = lifecycleGeneration => box[w] = lifecycleGeneration
    /\ place[w] \in {"wait", "collect"} => sdkDoes[w] # "idle"
    /\ sdkDoes[w] # "idle" => used[w] = captured[w] /\ (kind[w] = "scan" => box[w] = captured[w])

\* What is known of the request a call made, and of who completed it.
Asked(w) ==
    /\ sdkDoes[w] = "idle" => claim[w] = "none" /\ scanRun[w] = "none" /\ w \notin registered
    /\ scanRun[w] # "none" => kind[w] = "scan"
    /\ value[w] # "none" => value[w] = claim[w]
    /\ claim[w] = "shutdown" => captured[w] < lifecycleGeneration
    /\ claim[w] = "fault" => scanRun[w] # "running"

\* A scan of this life that goes on has its call waiting for it ...
Awaited(w) ==
    scanRun[w] = "running" /\ used[w] = lifecycleGeneration => place[w] \in {"wait", "collect"}

\* ... and nothing in the listener but what is its own.
Boxed(w) ==
    kind[w] = "scan" /\ captured[w] = lifecycleGeneration
        /\ place[w] \in {"ready", "wait", "collect"} =>
        LET b == scanBox[lifecycleGeneration]
        IN  /\ b.list \subseteq {w}
            /\ place[w] = "ready" => ~b.completed
            /\ b.completed /\ b.result = "ok" => b.list = {w}
            /\ b.completed /\ b.result # "timeout" => scanRun[w] # "running"

Given(w) == kind[w] = "scan" /\ verdict[w] = "ok" => got[w] = {w}

OwnInv ==
    /\ RadioIInv /\ Current
    /\ \A w \in Workers : Keeper(w) /\ Asked(w)
    /\ NoneGaveUp => \A w \in Workers : Awaited(w) /\ Boxed(w) /\ Given(w)

\* A call is left as it is.
CallSame(v) ==
    /\ UNCHANGED <<lifecycleGeneration, kind[v], place[v], captured[v], used[v], box[v]>>
    /\ UNCHANGED <<sdkDoes[v], scanRun[v], claim[v], value[v], got[v], verdict[v]>>
    /\ v \in registered' <=> v \in registered
    /\ scanning = v => scanning' = v

WorkerStep(w) ==
    \/ Work(w) \/ TimeOutWait(w) \/ TimeOutCollect(w)
    \/ Respond(w) \/ Fulfil(w) \/ ScanResults(w)

\* A step of one call leaves the others as they are.
LEMMA OthersSame ==
    ASSUME RadioTypeOK, NEW w \in Workers, NEW v \in Workers, v # w, WorkerStep(w)
    PROVE  CallSame(v)
<1> USE WorkersAssumption
    DEF RadioTypeOK, CallSame, ReturnNothing, ReturnWith, Go, lifeVars, managerVars,
        callVars, requestVars, returnVars
<1>1. CASE Capture(w)
  BY <1>1 DEF Capture
<1>2. CASE CheckFlags(w)
  BY <1>2 DEF CheckFlags
<1>3. CASE ScanCells(w)
  BY <1>3 DEF ScanCells
<1>4. CASE GetManager(w)
  BY <1>4 DEF GetManager, UseManager
<1>5. CASE Create(w)
  BY <1>5 DEF Create, UseManager
<1>6. CASE LockScan(w)
  BY <1>6 DEF LockScan
<1>7. CASE FindListener(w)
  BY <1>7 DEF FindListener
<1>8. CASE ResetBox(w)
  BY <1>8 DEF ResetBox
<1>9. CASE StartRequest(w)
  BY <1>9 DEF StartRequest, Submit
<1>10. CASE EndWait(w)
  BY <1>10 DEF EndWait
<1>11. CASE Collect(w)
  BY <1>11 DEF Collect
<1>12. CASE TimeOutWait(w)
  BY <1>12 DEF TimeOutWait
<1>13. CASE TimeOutCollect(w)
  BY <1>13 DEF TimeOutCollect
<1>14. CASE Respond(w)
  BY <1>14 DEF Respond
<1>15. CASE Fulfil(w)
  BY <1>15 DEF Fulfil
<1>16. CASE ScanResults(w)
  BY <1>16 DEF ScanResults
<1> QED
  BY <1>1, <1>2, <1>3, <1>4, <1>5, <1>6, <1>7, <1>8, <1>9, <1>10, <1>11, <1>12, <1>13,
     <1>14, <1>15, <1>16 DEF WorkerStep, Work

LEMMA CurrentStep ==
    ASSUME OwnInv, [RadioNext]_radioVars
    PROVE  Current'
<1>0. Current /\ Steps /\ RadioTypeOK
  BY DEF OwnInv, RadioIInv
<1> USE <1>0 DEF Current, lifeVars, managerVars
<1>1. ASSUME NEW w \in Workers, Create(w) PROVE Current'
  BY <1>1 DEF Create
<1>2. ASSUME NEW w \in Workers, Work(w), ~Create(w) PROVE Current'
  BY <1>2 DEF Work, Capture, CheckFlags, ScanCells, GetManager, LockScan, FindListener,
             ResetBox, StartRequest, EndWait, Collect
<1>3. ASSUME NEW w \in Workers,
             \/ TimeOutWait(w) \/ TimeOutCollect(w) \/ Respond(w) \/ Fulfil(w) \/ ScanResults(w)
      PROVE  Current'
  BY <1>3 DEF TimeOutWait, TimeOutCollect, Respond, Fulfil, ScanResults
<1>4. CASE MarkShutdown \/ CancelScans \/ ResetManager
  BY <1>4 DEF MarkShutdown, CancelScans, ResetManager
<1>5. CASE FinishDeinit
  BY <1>5 DEF FinishDeinit, Steps
<1>6. CASE BeginInit \/ EndInit
  BY <1>6 DEF BeginInit, EndInit
<1>7. CASE UNCHANGED radioVars
  BY <1>7 DEF radioVars
<1> QED
  BY <1>1, <1>2, <1>3, <1>4, <1>5, <1>6, <1>7 DEF RadioNext, Deinit

\* A call's own steps keep what is said of it.
LEMMA KeeperOwn ==
    ASSUME OwnInv, NEW w \in Workers, WorkerStep(w)
    PROVE  Keeper(w)' /\ Asked(w)'
<1>0. /\ RadioTypeOK /\ Current /\ Keeper(w) /\ Asked(w) /\ CallKeeps(w)
      /\ captured[w] \in Int /\ lifecycleGeneration \in Int
  BY LifeNumbers DEF OwnInv, RadioIInv
<1> USE <1>0, WorkersAssumption
    DEF RadioTypeOK, Keeper, Asked, CallKeeps, ReturnNothing, ReturnWith, Go, lifeVars,
        managerVars, callVars, requestVars, returnVars
<1>1. CASE Capture(w)
  BY <1>1 DEF Capture
<1>2. CASE CheckFlags(w)
  BY <1>2 DEF CheckFlags
<1>3. CASE ScanCells(w)
  BY <1>3 DEF ScanCells
<1>4. CASE GetManager(w)
  BY <1>4 DEF GetManager, UseManager, Underway, Current
<1>5. CASE Create(w)
  BY <1>5 DEF Create, UseManager
<1>6. CASE LockScan(w)
  BY <1>6 DEF LockScan
<1>7. CASE FindListener(w)
  BY <1>7 DEF FindListener, Underway, Current
<1>8. CASE ResetBox(w)
  BY <1>8 DEF ResetBox
<1>9. CASE StartRequest(w)
  BY <1>9 DEF StartRequest, Submit
<1>10. CASE EndWait(w)
  BY <1>10 DEF EndWait
<1>11. CASE Collect(w)
  BY <1>11 DEF Collect
<1>12. CASE TimeOutWait(w)
  BY <1>12 DEF TimeOutWait
<1>13. CASE TimeOutCollect(w)
  BY <1>13 DEF TimeOutCollect
<1>14. CASE Respond(w)
  BY <1>14 DEF Respond, Verdict
<1>15. CASE Fulfil(w)
  BY <1>15 DEF Fulfil
<1>16. CASE ScanResults(w)
  BY <1>16 DEF ScanResults
<1> QED
  BY <1>1, <1>2, <1>3, <1>4, <1>5, <1>6, <1>7, <1>8, <1>9, <1>10, <1>11, <1>12, <1>13,
     <1>14, <1>15, <1>16 DEF WorkerStep, Work

\* Deinit and Init keep it too: of the calls they only complete those that wait.
LEMMA KeeperLife ==
    ASSUME OwnInv, NEW w \in Workers, Deinit \/ BeginInit \/ EndInit
    PROVE  Keeper(w)' /\ Asked(w)'
<1>0. /\ RadioTypeOK /\ Keeper(w) /\ Asked(w) /\ CallKeeps(w)
      /\ captured[w] \in Int /\ lifecycleGeneration \in Int
  BY LifeNumbers DEF OwnInv, RadioIInv
<1> USE <1>0
    DEF RadioTypeOK, Keeper, Asked, managerVars, callVars, requestVars, returnVars
<1>1. CASE MarkShutdown
  <2>1. captured[w] < lifecycleGeneration' /\ lifecycleGeneration' = lifecycleGeneration + 1
    BY <1>1 DEF MarkShutdown, CallKeeps
  <2>2. UNCHANGED <<kind, place, captured, used, box, sdkDoes, scanRun, value, scanning>>
    BY <1>1 DEF MarkShutdown
  <2>3. Keeper(w)'
    BY <2>1, <2>2
  <2>4. /\ claim'[w] = IF w \in registered /\ claim[w] = "none" THEN "shutdown" ELSE claim[w]
        /\ w \notin registered'
    BY <1>1 DEF MarkShutdown
  <2>5. value[w] # "none" => claim[w] # "none"
    BY DEF Values
  <2> QED
    BY <2>1, <2>2, <2>3, <2>4, <2>5
<1>2. CASE CancelScans \/ ResetManager \/ FinishDeinit
  BY <1>2 DEF CancelScans, ResetManager, FinishDeinit
<1>3. CASE BeginInit \/ EndInit
  BY <1>3 DEF BeginInit, EndInit
<1> QED
  BY <1>1, <1>2, <1>3 DEF Deinit

LEMMA KeeperStep ==
    ASSUME OwnInv, [RadioNext]_radioVars
    PROVE  \A v \in Workers : Keeper(v)' /\ Asked(v)'
<1> SUFFICES ASSUME NEW v \in Workers PROVE Keeper(v)' /\ Asked(v)'
  OBVIOUS
<1>1. ASSUME NEW w \in Workers, WorkerStep(w), v # w PROVE Keeper(v)' /\ Asked(v)'
  <2>1. CallSame(v)
    BY <1>1, OthersSame DEF OwnInv, RadioIInv
  <2>2. Keeper(v) /\ Asked(v)
    BY DEF OwnInv
  <2> QED
    BY <2>1, <2>2 DEF CallSame, Keeper, Asked
<1>2. CASE UNCHANGED radioVars
  BY <1>2 DEF OwnInv, Keeper, Asked, radioVars, lifeVars, callVars, requestVars, returnVars
<1> QED
  BY <1>1, <1>2, KeeperOwn, KeeperLife DEF RadioNext, WorkerStep

\* What a call returned stays.
LEMMA ReturnedStays ==
    ASSUME RadioIInv, NEW w \in Workers, WorkerStep(w), place[w] = "returned"
    PROVE  UNCHANGED <<place[w], verdict[w], got[w]>>
<1> USE DEF returnVars
<1>1. CASE Work(w)
  BY <1>1 DEF Work, Capture, CheckFlags, ScanCells, GetManager, Create, LockScan,
         FindListener, ResetBox, StartRequest, EndWait, Collect
<1>2. CASE \/ TimeOutWait(w) \/ TimeOutCollect(w) \/ Respond(w) \/ Fulfil(w)
           \/ ScanResults(w)
  BY <1>2 DEF TimeOutWait, TimeOutCollect, Respond, Fulfil, ScanResults
<1> QED
  BY <1>1, <1>2 DEF WorkerStep

\* If nobody gave up by the end of a step, nobody did before.
LEMMA NoneGaveUpBefore ==
    ASSUME RadioIInv, [RadioNext]_radioVars, NoneGaveUp'
    PROVE  NoneGaveUp
<1> SUFFICES ASSUME NEW v \in Workers, verdict[v] = "timeout" PROVE verdict'[v] = "timeout"
  BY DEF NoneGaveUp
<1>0. place[v] = "returned" /\ RadioTypeOK
  BY DEF RadioIInv, CallKeeps
<1>1. ASSUME NEW w \in Workers, WorkerStep(w) PROVE verdict'[v] = "timeout"
  <2>1. CASE v = w
    BY <1>0, <1>1, <2>1, ReturnedStays
  <2>2. CASE v # w
    BY <1>0, <1>1, <2>2, OthersSame DEF CallSame
  <2> QED
    BY <2>1, <2>2
<1>2. CASE Deinit \/ BeginInit \/ EndInit
  BY <1>2 DEF Deinit, MarkShutdown, CancelScans, ResetManager, FinishDeinit, BeginInit,
         EndInit, returnVars
<1>3. CASE UNCHANGED radioVars
  BY <1>3 DEF radioVars, returnVars
<1> QED
  BY <1>1, <1>2, <1>3 DEF RadioNext, WorkerStep

\* The mutex of the scans: while w waits for the results of its scan, no other call
\* resets the listener, takes from it or gives up on it, and no other scan of this life
\* is told to it.
LEMMA BoxOfOne ==
    ASSUME OwnInv, NoneGaveUp, NEW v \in Workers, NEW w \in Workers, v # w, WorkerStep(w),
           kind[v] = "scan", captured[v] = lifecycleGeneration,
           place[v] \in {"ready", "wait", "collect"}
    PROVE  scanBox'[lifecycleGeneration] = scanBox[lifecycleGeneration]
<1>0. /\ Keeper(v) /\ Keeper(w) /\ Asked(w) /\ Awaited(w) /\ CallKeeps(w)
      /\ scanBox \in [Generations -> Boxes] /\ lifecycleGeneration \in Generations
  BY DEF OwnInv, RadioIInv, RadioTypeOK
<1>1. scanning = v
  BY <1>0 DEF Keeper
<1>2. ~(kind[w] = "scan" /\ place[w] \in {"listen", "reset", "ready", "wait", "collect"})
  BY <1>0, <1>1 DEF Keeper
<1>3. place[w] \notin {"reset", "collect"}
  BY <1>0, <1>2 DEF CallKeeps
<1>4. CASE ScanResults(w)
  <2>1. scanRun[w] = "running" /\ kind[w] = "scan"
    BY <1>0, <1>4 DEF ScanResults, Asked
  <2>2. used[w] # lifecycleGeneration
    BY <1>0, <1>2, <2>1 DEF Awaited
  <2> QED
    BY <1>0, <1>4, <2>2 DEF ScanResults
<1>5. CASE ~ScanResults(w)
  BY <1>3, <1>5 DEF WorkerStep, Work, Capture, CheckFlags, ScanCells, GetManager, Create, LockScan,
         FindListener, ResetBox, StartRequest, EndWait, Collect, TimeOutWait,
         TimeOutCollect, Respond, Fulfil
<1> QED
  BY <1>4, <1>5

\* A step of another call.
LEMMA OwnBoxOthers ==
    ASSUME OwnInv, NoneGaveUp, NEW v \in Workers, NEW w \in Workers, v # w, WorkerStep(w)
    PROVE  Awaited(v)' /\ Boxed(v)' /\ Given(v)'
<1>1. CallSame(v) /\ Awaited(v) /\ Boxed(v) /\ Given(v)
  BY OthersSame DEF OwnInv, RadioIInv
<1>2. Awaited(v)' /\ Given(v)'
  BY <1>1 DEF CallSame, Awaited, Given
<1>3. Boxed(v)'
  <2> SUFFICES ASSUME kind[v] = "scan", captured[v] = lifecycleGeneration,
                      place[v] \in {"ready", "wait", "collect"}
               PROVE  Boxed(v)'
    BY <1>1 DEF CallSame, Boxed
  <2>1. scanBox'[lifecycleGeneration] = scanBox[lifecycleGeneration]
    BY BoxOfOne
  <2> QED
    BY <1>1, <2>1 DEF CallSame, Boxed
<1> QED
  BY <1>2, <1>3

\* A call's own step.
LEMMA AwaitedOwn ==
    ASSUME OwnInv, NoneGaveUp', NEW w \in Workers, Awaited(w), Boxed(w), WorkerStep(w)
    PROVE  Awaited(w)'
<1>0. RadioTypeOK /\ Keeper(w) /\ Asked(w) /\ CallKeeps(w) /\ verdict'[w] # "timeout"
  BY DEF OwnInv, RadioIInv, NoneGaveUp
<1>1. captured[w] \in Int /\ lifecycleGeneration \in Int
  BY <1>0, LifeNumbers
<1>2. lifecycleGeneration' = lifecycleGeneration
  BY DEF WorkerStep, Work, Capture, CheckFlags, ScanCells, GetManager, Create, LockScan,
         FindListener, ResetBox, StartRequest, EndWait, Collect, TimeOutWait,
         TimeOutCollect, Respond, Fulfil, ScanResults, lifeVars
<1> USE <1>0, <1>2 DEF Awaited, RadioTypeOK
<1>3. CASE \/ Capture(w) \/ CheckFlags(w) \/ ScanCells(w) \/ GetManager(w) \/ Create(w)
           \/ LockScan(w) \/ FindListener(w) \/ ResetBox(w)
  <2>1. sdkDoes[w] = "idle" /\ scanRun' = scanRun
    BY <1>3 DEF Capture, CheckFlags, ScanCells, GetManager, Create, LockScan, FindListener,
                ResetBox, CallKeeps
  <2> QED
    BY <2>1 DEF Asked
<1>4. CASE StartRequest(w)
  <2>1. sdkDoes[w] = "idle"
    BY <1>4 DEF StartRequest, CallKeeps
  <2> QED
    BY <1>4, <2>1 DEF StartRequest, Submit, ReturnNothing, ReturnWith, Go, Asked
<1>5. CASE EndWait(w)
  <2> SUFFICES ASSUME scanRun[w] = "running", used[w] = lifecycleGeneration
               PROVE  place'[w] = "collect"
    BY <1>5 DEF EndWait, callVars
  <2>1. kind[w] = "scan" /\ captured[w] = lifecycleGeneration
    BY DEF Asked, Keeper
  <2>2. value[w] = claim[w] /\ value[w] \notin {"fault", "shutdown"}
    BY <1>1, <1>5, <2>1 DEF EndWait, Asked
  <2>3. CASE value[w] = "ok"
    BY <1>5, <2>1, <2>3 DEF EndWait, Go
  <2>4. CASE value[w] # "ok"
    <3>1. value[w] = "timeout" /\ ReturnNothing(w, value[w])
      BY <1>5, <2>1, <2>2, <2>4 DEF EndWait, Values
    <3> QED
      BY <3>1 DEF ReturnNothing, ReturnWith
  <2> QED
    BY <2>3, <2>4
<1>6. CASE Collect(w)
  <2> SUFFICES ASSUME scanRun[w] = "running", used[w] = lifecycleGeneration
               PROVE  FALSE
    BY <1>6 DEF Collect, callVars
  <2>1. /\ kind[w] = "scan" /\ captured[w] = lifecycleGeneration
        /\ box[w] = lifecycleGeneration /\ place[w] = "collect"
    BY <1>6 DEF Asked, Keeper, Collect
  <2>2. /\ scanBox[lifecycleGeneration].completed
        /\ verdict' = [verdict EXCEPT ![w] = scanBox[lifecycleGeneration].result]
    BY <1>6, <2>1 DEF Collect, ReturnWith
  <2>3. scanBox[lifecycleGeneration].result # "timeout"
    BY <2>2
  <2> QED
    BY <2>1, <2>2, <2>3 DEF Boxed
<1>7. CASE TimeOutWait(w) \/ TimeOutCollect(w) \/ Fulfil(w)
  BY <1>7 DEF TimeOutWait, TimeOutCollect, Fulfil, callVars, returnVars
<1>8. CASE Respond(w)
  BY <1>8 DEF Respond, callVars, returnVars
<1>9. CASE ScanResults(w)
  BY <1>9 DEF ScanResults, callVars, returnVars
<1> QED
  BY <1>3, <1>4, <1>5, <1>6, <1>7, <1>8, <1>9 DEF WorkerStep, Work

LEMMA BoxedOwn ==
    ASSUME OwnInv, NEW w \in Workers, Boxed(w), WorkerStep(w)
    PROVE  Boxed(w)'
<1>0. /\ RadioTypeOK /\ Keeper(w) /\ Asked(w) /\ CallKeeps(w)
      /\ scanBox \in [Generations -> Boxes] /\ lifecycleGeneration \in Generations
  BY DEF OwnInv, RadioIInv, RadioTypeOK
<1>1. \A r \in Workers : place[r] = "new" => captured[r] \in {NoLife}
  BY DEF OwnInv, RadioIInv, CallKeeps
<1>2. lifecycleGeneration' = lifecycleGeneration /\ kind' = kind
  BY DEF WorkerStep, Work, Capture, CheckFlags, ScanCells, GetManager, Create, LockScan,
         FindListener, ResetBox, StartRequest, EndWait, Collect, TimeOutWait,
         TimeOutCollect, Respond, Fulfil, ScanResults, lifeVars
<1> USE <1>0, <1>2 DEF RadioTypeOK
<1> SUFFICES ASSUME kind[w] = "scan", captured'[w] = lifecycleGeneration,
                    place'[w] \in {"ready", "wait", "collect"}
             PROVE  LET b == scanBox'[lifecycleGeneration]
                    IN  /\ b.list \subseteq {w}
                        /\ place'[w] = "ready" => ~b.completed
                        /\ b.completed /\ b.result = "ok" => b.list = {w}
                        /\ b.completed /\ b.result # "timeout" => scanRun'[w] # "running"
  BY DEF Boxed
<1>3. CASE \/ Capture(w) \/ CheckFlags(w) \/ ScanCells(w) \/ GetManager(w) \/ Create(w)
           \/ LockScan(w) \/ FindListener(w) \/ Collect(w)
  <2>1. place'[w] \notin {"ready", "wait", "collect"}
    BY <1>3 DEF Capture, CheckFlags, ScanCells, GetManager, UseManager, Create, LockScan,
                FindListener, Collect, ReturnNothing, ReturnWith, Go
  <2> QED
    BY <2>1
<1>4. CASE ResetBox(w)
  <2>1. box[w] = lifecycleGeneration
    BY <1>4 DEF ResetBox, Keeper, callVars
  <2>2. scanBox'[lifecycleGeneration] = EmptyBox
    BY <1>4, <2>1 DEF ResetBox
  <2> QED
    BY <2>2 DEF EmptyBox
<1>5. CASE StartRequest(w)
  <2>1. /\ captured[w] = lifecycleGeneration /\ place[w] = "ready" /\ scanBox' = scanBox
        /\ place'[w] # "ready"
    BY <1>5 DEF StartRequest, Submit, ReturnNothing, ReturnWith, Go, callVars
  <2> QED
    BY <2>1 DEF Boxed
<1>6. CASE EndWait(w)
  <2>1. /\ captured[w] = lifecycleGeneration /\ place[w] = "wait" /\ scanBox' = scanBox
        /\ place'[w] # "ready" /\ scanRun' = scanRun
    BY <1>6 DEF EndWait, ReturnNothing, ReturnWith, Go, callVars
  <2> QED
    BY <2>1 DEF Boxed
<1>7. CASE TimeOutWait(w) \/ Fulfil(w)
  BY <1>7 DEF TimeOutWait, Fulfil, Boxed, callVars, returnVars
<1>8. CASE TimeOutCollect(w)
  <2>1. captured[w] = lifecycleGeneration /\ place[w] = "collect" /\ place' = place
    BY <1>8 DEF TimeOutCollect, callVars, returnVars
  <2>2. box[w] = lifecycleGeneration
    BY <2>1 DEF Keeper
  <2>3. scanBox'[lifecycleGeneration]
          = [scanBox[lifecycleGeneration] EXCEPT !.completed = TRUE, !.result = "timeout"]
    BY <1>8, <2>2 DEF TimeOutCollect, CompleteBox
  <2>4. scanBox[lifecycleGeneration] \in Boxes
    OBVIOUS
  <2>5. /\ scanBox'[lifecycleGeneration].list = scanBox[lifecycleGeneration].list
        /\ scanBox'[lifecycleGeneration].result = "timeout"
    BY <2>3, <2>4 DEF Boxes
  <2> QED
    BY <2>1, <2>5 DEF Boxed
<1>9. CASE Respond(w)
  <2>1. /\ captured[w] = lifecycleGeneration /\ place' = place /\ scanBox' = scanBox
        /\ scanRun'[w] = "running" => scanRun[w] = "running"
    BY <1>9 DEF Respond, callVars, returnVars
  <2> QED
    BY <2>1 DEF Boxed
<1>10. CASE ScanResults(w)
  <2>1. /\ captured[w] = lifecycleGeneration /\ place' = place /\ scanRun[w] = "running"
        /\ sdkDoes[w] # "idle"
    BY <1>10 DEF ScanResults, callVars, returnVars, Asked
  <2>2. used[w] = lifecycleGeneration /\ place[w] # "ready"
    BY <2>1 DEF Keeper, CallKeeps
  <2> DEFINE b == scanBox[lifecycleGeneration]
  <2>3. /\ b.list \subseteq {w}
        /\ b.completed /\ b.result = "ok" => b.list = {w}
        /\ b.completed => b.result = "timeout"
    BY <2>1, <2>2 DEF Boxed
  <2>4. CASE b.completed
    BY <1>10, <2>1, <2>2, <2>3, <2>4 DEF ScanResults
  <2>5. CASE ~b.completed
    <3>1. PICK status \in {"PARTIAL", "COMPLETE", "FAILED"} :
              /\ scanRun' = [scanRun EXCEPT ![w] = IF status = "PARTIAL" THEN "running" ELSE "over"]
              /\ scanBox' = [scanBox EXCEPT ![lifecycleGeneration] =
                     [completed |-> status # "PARTIAL",
                      result |-> IF status = "FAILED" THEN "fault" ELSE @.result,
                      list |-> IF status = "FAILED" THEN @.list ELSE @.list \cup {w}]]
      BY <1>10, <2>2, <2>5, Zenon DEF ScanResults
    <3>2. scanBox'[lifecycleGeneration] =
                     [completed |-> status # "PARTIAL",
                      result |-> IF status = "FAILED" THEN "fault" ELSE b.result,
                      list |-> IF status = "FAILED" THEN b.list ELSE b.list \cup {w}]
      BY <3>1
    <3>3. CASE status = "PARTIAL"
      <4>1. ~scanBox'[lifecycleGeneration].completed
        <5>1. (status # "PARTIAL") = FALSE
          BY <3>3
        <5>2. scanBox'[lifecycleGeneration] =
                     [completed |-> FALSE, result |-> b.result, list |-> b.list \cup {w}]
          BY <3>2, <3>3, <5>1, Zenon
        <5> QED
          BY <5>2
      <4>2. scanBox'[lifecycleGeneration].list = b.list \cup {w}
        BY <3>2, <3>3
      <4> QED
        BY <2>3, <4>1, <4>2
    <3>4. CASE status # "PARTIAL"
      <4>1. scanRun'[w] = "over"
        BY <3>1, <3>4
      <4>2. CASE status = "FAILED"
        BY <2>1, <2>2, <2>3, <3>2, <4>1, <4>2
      <4>3. CASE status = "COMPLETE"
        BY <2>1, <2>2, <2>3, <3>2, <4>1, <4>3
      <4> QED
        BY <3>1, <3>4, <4>2, <4>3
    <3> QED
      BY <3>3, <3>4
  <2> QED
    BY <2>4, <2>5
<1> QED
  BY <1>3, <1>4, <1>5, <1>6, <1>7, <1>8, <1>9, <1>10 DEF WorkerStep, Work

LEMMA GivenOwn ==
    ASSUME OwnInv, NEW w \in Workers, Boxed(w), Given(w), WorkerStep(w)
    PROVE  Given(w)'
<1>0. /\ RadioTypeOK /\ Keeper(w) /\ CallKeeps(w)
      /\ scanBox \in [Generations -> Boxes] /\ lifecycleGeneration \in Generations
  BY DEF OwnInv, RadioIInv, RadioTypeOK
<1>1. kind' = kind
  BY DEF WorkerStep, Work, Capture, CheckFlags, ScanCells, GetManager, Create, LockScan,
         FindListener, ResetBox, StartRequest, EndWait, Collect, TimeOutWait,
         TimeOutCollect, Respond, Fulfil, ScanResults
<1> USE <1>0, <1>1 DEF RadioTypeOK
<1> SUFFICES ASSUME kind[w] = "scan", verdict'[w] = "ok" PROVE got'[w] = {w}
  BY DEF Given
<1>2. CASE verdict'[w] = verdict[w]
  <2>1. verdict[w] = "ok" /\ place[w] = "returned"
    BY <1>2 DEF CallKeeps
  <2>2. got'[w] = got[w]
    BY <2>1, ReturnedStays DEF OwnInv
  <2> QED
    BY <2>1, <2>2 DEF Given
<1>3. CASE Collect(w)
  <2>1. place[w] = "collect" /\ sdkDoes[w] # "idle" /\ box[w] = captured[w]
    BY <1>3 DEF Collect, Keeper
  <2>2. /\ captured[w] = lifecycleGeneration
        /\ scanBox[box[w]].completed /\ scanBox[box[w]].result = "ok"
        /\ got'[w] = scanBox[box[w]].list
    BY <1>3 DEF Collect, ReturnWith
  <2> QED
    BY <2>1, <2>2 DEF Boxed
<1>4. CASE EndWait(w) \/ StartRequest(w) \/ Create(w) \/ GetManager(w)
  <2>1. verdict'[w] = verdict[w] \/ verdict'[w] # "ok"
    BY <1>4 DEF EndWait, StartRequest, Submit, Create, GetManager, UseManager, ReturnNothing,
                ReturnWith
  <2> QED
    BY <1>2, <2>1
<1>5. CASE CheckFlags(w) \/ ScanCells(w) \/ FindListener(w)
  <2>1. verdict'[w] = verdict[w] \/ verdict'[w] # "ok"
    BY <1>5 DEF CheckFlags, ScanCells, FindListener, Keeper, ReturnNothing, ReturnWith
  <2> QED
    BY <1>2, <2>1
<1>6. CASE ~(\/ Collect(w) \/ EndWait(w) \/ StartRequest(w) \/ Create(w) \/ GetManager(w)
             \/ CheckFlags(w) \/ ScanCells(w) \/ FindListener(w))
  <2>1. verdict' = verdict
    BY <1>6 DEF WorkerStep, Work, Capture, LockScan, ResetBox, TimeOutWait, TimeOutCollect,
                Respond, Fulfil, ScanResults, returnVars
  <2>2. verdict'[w] = verdict[w]
    BY <2>1
  <2> QED
    BY <1>2, <2>2
<1> QED
  BY <1>3, <1>4, <1>5, <1>6

\* Deinit and Init.
LEMMA OwnBoxLife ==
    ASSUME OwnInv, NoneGaveUp, NEW v \in Workers, Deinit \/ BeginInit \/ EndInit
    PROVE  Awaited(v)' /\ Boxed(v)' /\ Given(v)'
<1>0. /\ RadioTypeOK /\ Keeper(v) /\ Asked(v) /\ CallKeeps(v)
      /\ Awaited(v) /\ Boxed(v) /\ Given(v)
      /\ captured[v] \in Int /\ lifecycleGeneration \in Int
  BY LifeNumbers DEF OwnInv, RadioIInv
<1>1. UNCHANGED <<kind, place, captured, used, scanRun, got, verdict>>
  BY DEF Deinit, MarkShutdown, CancelScans, ResetManager, FinishDeinit, BeginInit, EndInit,
         callVars, returnVars
<1>2. Given(v)'
  BY <1>0, <1>1 DEF Given
<1>3. CASE MarkShutdown
  <2>1. captured[v] < lifecycleGeneration'
    BY <1>0, <1>3 DEF MarkShutdown, CallKeeps
  <2>2. captured[v] # lifecycleGeneration'
    BY <1>0, <2>1
  <2>3. scanRun[v] = "running" => used[v] # lifecycleGeneration'
    BY <1>0, <2>2 DEF Asked, Keeper
  <2> QED
    BY <1>1, <1>2, <2>2, <2>3 DEF Awaited, Boxed
<1>4. CASE CancelScans
  <2>1. lifecycleGeneration' = lifecycleGeneration /\ deinitStep = "cancel"
    BY <1>4 DEF CancelScans
  <2>2. ~(captured[v] = lifecycleGeneration /\ place[v] \in {"ready", "wait", "collect"})
    BY <1>0, <2>1 DEF CallKeeps, Underway
  <2> QED
    BY <1>0, <1>1, <1>2, <2>1, <2>2 DEF Awaited, Boxed
<1>5. CASE ResetManager \/ FinishDeinit \/ BeginInit \/ EndInit
  <2>1. UNCHANGED <<lifecycleGeneration, scanBox>>
    BY <1>5 DEF ResetManager, FinishDeinit, BeginInit, EndInit
  <2> QED
    BY <1>0, <1>1, <1>2, <2>1 DEF Awaited, Boxed
<1> QED
  BY <1>3, <1>4, <1>5 DEF Deinit

LEMMA OwnInitInv == RadioInit => OwnInv
<1> SUFFICES ASSUME RadioInit PROVE OwnInv
  OBVIOUS
<1>1. RadioIInv
  BY RadioInitInv
<1>2. Current
  BY DEF RadioInit, Current
<1>3. ASSUME NEW w \in Workers
      PROVE  Keeper(w) /\ Asked(w) /\ Awaited(w) /\ Boxed(w) /\ Given(w)
  BY DEF RadioInit, Keeper, Asked, Awaited, Boxed, Given
<1> QED
  BY <1>1, <1>2, <1>3 DEF OwnInv

LEMMA OwnStep == OwnInv /\ [RadioNext]_radioVars => OwnInv'
<1> SUFFICES ASSUME OwnInv, [RadioNext]_radioVars PROVE OwnInv'
  OBVIOUS
<1>1. RadioIInv'
  BY RadioStep DEF OwnInv
<1>2. Current'
  BY CurrentStep
<1>3. \A v \in Workers : Keeper(v)' /\ Asked(v)'
  BY KeeperStep
<1>4. ASSUME NoneGaveUp', NEW v \in Workers PROVE Awaited(v)' /\ Boxed(v)' /\ Given(v)'
  <2>1. NoneGaveUp
    BY <1>4, NoneGaveUpBefore DEF OwnInv
  <2>2. Awaited(v) /\ Boxed(v) /\ Given(v)
    BY <2>1 DEF OwnInv
  <2>3. ASSUME NEW w \in Workers, WorkerStep(w)
        PROVE  Awaited(v)' /\ Boxed(v)' /\ Given(v)'
    <3>1. CASE v = w
      BY <1>4, <2>2, <2>3, <3>1, AwaitedOwn, BoxedOwn, GivenOwn
    <3>2. CASE v # w
      BY <2>1, <2>3, <3>2, OwnBoxOthers
    <3> QED
      BY <3>1, <3>2
  <2>4. CASE Deinit \/ BeginInit \/ EndInit
    BY <2>1, <2>4, OwnBoxLife
  <2>5. CASE UNCHANGED radioVars
    BY <2>2, <2>5 DEF Awaited, Boxed, Given, radioVars, lifeVars, callVars, returnVars
  <2> QED
    BY <2>3, <2>4, <2>5 DEF RadioNext, WorkerStep
<1>5. NoneGaveUp' => \A v \in Workers : Awaited(v)' /\ Boxed(v)' /\ Given(v)'
  BY <1>4
<1> QED
  BY <1>1, <1>2, <1>3, <1>5 DEF OwnInv

\* The operators a scan returns are its own, though every scan shares the listener and the
\* listener does not know whose results it is told, until some call gave up waiting.
THEOREM ResultsAreOwn == RadioSpec => []OwnResults
<1>1. OwnInv => OwnResults
  BY DEF OwnInv, NoneGaveUp, Given, OwnResults
<1> QED
  BY <1>1, OwnInitInv, OwnStep, PTL DEF RadioSpec

-----------------------------------------------------------------------------
(* BringUp.                                                                *)

Active(c) == step[c] \notin {"new", "done"}
Initialising(c) == step[c] \in {"get", "wait", "listen", "succeed", "fail"}

\* What a PA_OK says of a manager.
Good(s) ==
    \/ s \in managers /\ service[s] = "available"
    \/ ~way.stages[s].fails
    \/ way.stages[s].trusts = "ok" /\ way.stages[s].timeout = "keep"

AllGood == \A s \in StagesOf(way) : Good(s)

\* An Init that runs alone has the managers up to its stage; what it trusts of an earlier
\* one was ready; and the flag, where it is looked at, tells of all.
Alone == \A c, d \in Callers : Active(c) /\ Active(d) => c = d
Progress(c) ==
    /\ step[c] = "new" => stage[c] = 1
    /\ step[c] \in {"get", "wait"} => \A s \in StagesOf(way) : s < stage[c] => Good(s)
    /\ step[c] \in {"listen", "succeed"} => AllGood
    /\ step[c] = "wait" =>
           /\ ~way.stages[stage[c]].after => stage[c] \in managers
           /\ heard[c] = "available" => service[stage[c]] = "available"
Trusted ==
    \A s \in managers :
        way.stages[s].trusts = "ok" /\ way.stages[s].timeout # "keep" =>
            service[s] = "available" \/ \E c \in Callers : step[c] = "wait" /\ stage[c] = s
Flag ==
    /\ \A c \in Callers : Initialising(c) /\ way.guard # "no" => ~up
    /\ \A c \in Callers : step[c] = "lower" => ~told
    /\ told \/ (up /\ way.guard # "no") =>
           \/ \E c \in Callers : Initialising(c) \/ step[c] = "lower"
           \/ AllGood

Truth == Alone /\ (\A c \in Callers : Progress(c)) /\ Trusted /\ Flag
BringIInv == BringTypeOK /\ (~overlap /\ way.honest => Truth)

LEMMA WayType ==
    ASSUME BringTypeOK
    PROVE  /\ Len(way.stages) \in Nat /\ 1 \in StagesOf(way)
           /\ StagesOf(way) \subseteq Int /\ StagesOf(way) \subseteq Stages
           /\ \A s \in StagesOf(way) :
                  /\ way.stages[s].timeout \in {"keep", "drop"}
                  /\ way.stages[s].failed \in {"keep", "drop"}
                  /\ way.stages[s].trusts = "ok" =>
                         way.stages[s].timeout = "keep" \/ way.stages[s].failed = "drop"
           /\ \A s \in StagesOf(way) :
                  \/ s < Len(way.stages) /\ s + 1 \in StagesOf(way)
                  \/ \A r \in StagesOf(way) : r < s \/ r = s
           /\ \A s, r \in StagesOf(way) : r < s + 1 => r < s \/ r = s
<1>1. way \in WaysHere /\ way \in Way /\ Len(way.stages) \in 1..MaxStages
  BY WaysAssumption DEF BringTypeOK
<1>2. way.stages \in Seq(Stage)
  BY <1>1 DEF Way
<1>3. ASSUME NEW s \in StagesOf(way)
      PROVE  way.stages[s].timeout \in {"keep", "drop"} /\ way.stages[s].failed \in {"keep", "drop"}
  <2>1. way.stages[s] \in Stage
    BY <1>2 DEF StagesOf
  <2> QED
    BY <2>1 DEF Stage
<1>4. \A s \in StagesOf(way) : way.stages[s].trusts = "ok" =>
          way.stages[s].timeout = "keep" \/ way.stages[s].failed = "drop"
  BY <1>1, TrustAssumption DEF StagesOf
<1> QED
  BY <1>1, <1>3, <1>4, StagesAssumption DEF StagesOf, Stages

LEMMA BringInitInv == BringInit => BringIInv
<1> SUFFICES ASSUME BringInit PROVE BringIInv
  OBVIOUS
<1>1. 1 \in StagesOf(way)
  BY WaysAssumption, StagesAssumption DEF BringInit, StagesOf
<1>2. BringTypeOK
  BY <1>1, Zenon DEF BringInit, BringTypeOK
<1>3. Truth
  BY DEF BringInit, Truth, Alone, Progress, Trusted, Flag, Active, Initialising
<1> QED
  BY <1>2, <1>3 DEF BringIInv

LEMMA AdvanceType ==
    ASSUME BringTypeOK, NEW c \in Callers, Advance(c)
    PROVE  /\ step' \in [Callers -> {"new", "get", "wait", "listen", "succeed", "fail",
                                     "takedown", "lower", "done"}]
           /\ stage' \in [Callers -> StagesOf(way)]
           /\ UNCHANGED result
<1>1. stage[c] \in StagesOf(way)
  BY DEF BringTypeOK
<1>2. stage[c] < Len(way.stages) => stage[c] + 1 \in StagesOf(way)
  BY <1>1, WayType DEF StagesOf
<1> QED
  BY <1>2 DEF BringTypeOK, Advance, Goes

LEMMA GiveUpType ==
    ASSUME BringTypeOK, NEW c \in Callers, NEW how, NEW r \in {"fault", "timeout"},
           GiveUp(c, how, r)
    PROVE  /\ step' \in [Callers -> {"new", "get", "wait", "listen", "succeed", "fail",
                                     "takedown", "lower", "done"}]
           /\ stage' \in [Callers -> StagesOf(way)]
           /\ managers' \in SUBSET StagesOf(way)
           /\ result' \in [Callers -> {"none", "ok", "fault", "timeout", "refused"}]
<1>1. managers' \in SUBSET StagesOf(way)
  BY DEF GiveUp, BringTypeOK
<1>2. CASE ThisStage(c).fails
  BY <1>1, <1>2 DEF GiveUp, BringTypeOK, Goes, Results
<1>3. CASE ~ThisStage(c).fails
  BY <1>1, <1>3, AdvanceType DEF GiveUp, BringTypeOK
<1> QED
  BY <1>2, <1>3

LEMMA BringTypeStep == BringTypeOK /\ [BringNext]_bringVars => BringTypeOK'
<1> SUFFICES ASSUME BringTypeOK, [BringNext]_bringVars PROVE BringTypeOK'
  OBVIOUS
<1>0. Starters \subseteq Callers /\ Stoppers \subseteq Callers
  BY DEF Callers
<1>a. StagesOf(way) \subseteq Stages
  BY WayType
<1> USE <1>0, <1>a DEF BringTypeOK, Goes, Results, Leaves, Enters
<1>1. ASSUME NEW c \in Starters, EnterInit(c) PROVE BringTypeOK'
  <2>1. step' \in [Callers -> {"new", "get", "wait", "listen", "succeed", "fail",
                              "takedown", "lower", "done"}]
    BY <1>1 DEF EnterInit
  <2>2. result' \in [Callers -> {"none", "ok", "fault", "timeout", "refused"}]
    BY <1>1 DEF EnterInit
  <2>3. holder' \in Callers \cup {Nobody} /\ told' \in BOOLEAN
    BY <1>1, Zenon DEF EnterInit
  <2>4. overlap' \in BOOLEAN
    BY <1>1 DEF EnterInit, Idle
  <2> QED
    BY <1>1, <2>1, <2>2, <2>3, <2>4 DEF EnterInit
<1>2. ASSUME NEW c \in Starters, Trust(c) PROVE BringTypeOK'
  <2>1. CASE Advance(c)
    BY <1>2, <2>1, AdvanceType DEF Trust
  <2>2. CASE ~Advance(c)
    BY <1>2, <2>2 DEF Trust
  <2> QED
    BY <2>1, <2>2
<1>3. ASSUME NEW c \in Starters, Get(c) PROVE BringTypeOK'
  <2>0. stage[c] \in StagesOf(way) /\ stage[c] \in Stages
    OBVIOUS
  <2>1. ASSUME NEW how, GiveUp(c, how, "fault"), UNCHANGED <<service, owed, heard>>
        PROVE  BringTypeOK'
    BY <1>3, <2>1, GiveUpType DEF Get
  <2>2. CASE /\ managers' = managers \cup {stage[c]} /\ Advance(c)
             /\ UNCHANGED <<service, owed, heard>>
    BY <1>3, <2>0, <2>2, AdvanceType DEF Get
  <2>3. CASE /\ managers' \in {managers, managers \cup {stage[c]}}
             /\ service' = [service EXCEPT ![stage[c]] =
                               IF @ = "failed" THEN "starting" ELSE @]
             /\ owed' = owed \cup {<<c, stage[c]>>}
             /\ heard' = [heard EXCEPT ![c] = "none"]
             /\ Goes(c, "wait") /\ UNCHANGED <<stage, result>>
    BY <1>3, <2>0, <2>3 DEF Get
  <2> QED
    BY <1>3, <2>1, <2>2, <2>3 DEF Get
<1>4. ASSUME NEW c \in Starters, EndStage(c) PROVE BringTypeOK'
  <2>1. ASSUME NEW how, NEW r \in {"fault", "timeout"}, GiveUp(c, how, r) PROVE BringTypeOK'
    BY <1>4, <2>1, GiveUpType DEF EndStage
  <2>2. CASE managers' \in {managers, managers \cup {stage[c]}} /\ Advance(c)
    BY <1>4, <2>2, AdvanceType DEF EndStage
  <2> QED
    BY <1>4, <2>1, <2>2 DEF EndStage
<1>5. ASSUME NEW c \in Starters, RegisterListener(c) PROVE BringTypeOK'
  <2>1. managers' \in SUBSET StagesOf(way) /\ crashed' \in BOOLEAN
    BY <1>5, Zenon DEF RegisterListener
  <2>2. /\ step' \in [Callers -> {"new", "get", "wait", "listen", "succeed", "fail",
                                  "takedown", "lower", "done"}]
        /\ result' \in [Callers -> {"none", "ok", "fault", "timeout", "refused"}]
    BY <1>5 DEF RegisterListener
  <2> QED
    BY <1>5, <2>1, <2>2 DEF RegisterListener
<1>6. ASSUME NEW c \in Starters, Succeed(c) \/ Fail(c) PROVE BringTypeOK'
  <2>1. up' \in BOOLEAN /\ told' \in BOOLEAN
    BY <1>6, Zenon DEF Succeed, Fail
  <2>2. result' \in [Callers -> {"none", "ok", "fault", "timeout", "refused"}]
    BY <1>6 DEF Succeed, Fail
  <2> QED
    BY <1>6, <2>1, <2>2 DEF Succeed, Fail
<1>7. ASSUME NEW c \in Starters, NEW s \in StagesOf(way), Answer(c, s) PROVE BringTypeOK'
  <2>1. service[s] \in {"available", "failed"}
    BY <1>7 DEF Answer
  <2> QED
    BY <1>7, <2>1 DEF Answer
<1>8. ASSUME NEW c \in Stoppers, EnterDeinit(c) PROVE BringTypeOK'
  BY <1>8 DEF EnterDeinit
<1>9. ASSUME NEW c \in Stoppers, TakeDown(c) \/ Lower(c) PROVE BringTypeOK'
  <2>1. CASE TakeDown(c)
    <3>1. /\ managers' \in {managers, {}} /\ told' \in {told, FALSE}
          /\ \/ Goes(c, "lower") /\ UNCHANGED result
             \/ Goes(c, "done") /\ Results(c, "fault")
      BY <2>1, Zenon DEF TakeDown
    <3>2. /\ step' \in [Callers -> {"new", "get", "wait", "listen", "succeed", "fail",
                                    "takedown", "lower", "done"}]
          /\ result' \in [Callers -> {"none", "ok", "fault", "timeout", "refused"}]
      BY <3>1
    <3> QED
      BY <2>1, <3>1, <3>2, Zenon DEF TakeDown
  <2>2. CASE Lower(c)
    BY <2>2, Zenon DEF Lower
  <2> QED
    BY <1>9, <2>1, <2>2
<1>10. ASSUME NEW s \in StagesOf(way), Settle(s) PROVE BringTypeOK'
  BY <1>10 DEF Settle
<1>11. CASE UNCHANGED bringVars
  BY <1>11 DEF bringVars
<1> QED
  BY <1>1, <1>2, <1>3, <1>4, <1>5, <1>6, <1>7, <1>8, <1>9, <1>10, <1>11 DEF BringNext

\* What holds of a stage that is behind a call.
LEMMA GoodStays ==
    ASSUME NEW s \in StagesOf(way), Good(s), s \in managers => s \in managers', way' = way,
           service[s] = "available" => service'[s] = "available"
    PROVE  Good(s)'
BY DEF Good

LEMMA AdvanceProgress ==
    ASSUME BringTypeOK, NEW c \in Callers, Advance(c), way' = way,
           NEW this \in StagesOf(way), this = stage[c], Good(this)',
           \A s \in StagesOf(way) : s < stage[c] => Good(s)'
    PROVE  Progress(c)'
<1>1. stage[c] \in StagesOf(way) /\ c \in DOMAIN step /\ c \in DOMAIN stage
  BY DEF BringTypeOK
<1>2. CASE stage[c] < Len(way.stages)
  <2>1. step'[c] = "get" /\ stage'[c] = stage[c] + 1
    BY <1>1, <1>2 DEF Advance, Goes
  <2>2. \A s \in StagesOf(way) : s < stage[c] + 1 => s < stage[c] \/ s = stage[c]
    BY <1>1, WayType
  <2>3. ASSUME NEW s \in StagesOf(way), s < stage[c] + 1 PROVE Good(s)'
    <3>1. CASE s = this
      BY <3>1
    <3>2. CASE s # this
      BY <2>2, <2>3, <3>2
    <3> QED
      BY <3>1, <3>2
  <2> QED
    BY <2>1, <2>3 DEF Progress
<1>3. CASE ~(stage[c] < Len(way.stages))
  <2>1. step'[c] = "listen"
    BY <1>1, <1>3 DEF Advance, Goes
  <2>2. \A s \in StagesOf(way) : s < stage[c] \/ s = stage[c]
    BY <1>1, <1>3, WayType
  <2>3. ASSUME NEW s \in StagesOf(way) PROVE Good(s)'
    <3>1. CASE s = this
      BY <3>1
    <3>2. CASE s # this
      BY <2>2, <3>2
    <3> QED
      BY <3>1, <3>2
  <2> QED
    BY <2>1, <2>3 DEF Progress, AllGood
<1> QED
  BY <1>2, <1>3

\* While c runs alone only c has something to keep.
Others(c) ==
    \A d \in Callers : d # c =>
        step[d] \in {"new", "done"} /\ step'[d] = step[d] /\ stage'[d] = stage[d]

FlagOf(c) ==
    /\ Initialising(c) /\ way.guard # "no" => ~up
    /\ step[c] = "lower" => ~told
    /\ told \/ (up /\ way.guard # "no") => Initialising(c) \/ step[c] = "lower" \/ AllGood

TrustedBut(c) ==
    \A s \in managers :
        way.stages[s].trusts = "ok" /\ way.stages[s].timeout # "keep" =>
            service[s] = "available" \/ (step[c] = "wait" /\ stage[c] = s)

LEMMA AloneRuns ==
    ASSUME BringTypeOK, Truth, NEW c \in Callers, Active(c) \/ Idle,
           \A d \in Callers : d # c => step'[d] = step[d] /\ stage'[d] = stage[d]
    PROVE  Others(c) /\ Progress(c) /\ FlagOf(c) /\ TrustedBut(c)
<1>1. Others(c)
  BY DEF Truth, Alone, Active, Idle, Others
<1>2. Progress(c)
  BY DEF Truth
<1>3. FlagOf(c)
  BY <1>1 DEF Truth, Flag, FlagOf, Others, Initialising
<1>4. TrustedBut(c)
  BY <1>1 DEF Truth, Trusted, TrustedBut, Others
<1> QED
  BY <1>1, <1>2, <1>3, <1>4

LEMMA TruthOfOne ==
    ASSUME NEW c \in Callers, Truth, Others(c), Progress(c)', FlagOf(c)', TrustedBut(c)',
           way' = way
    PROVE  Truth'
<1>1. Alone'
  BY DEF Others, Alone, Active
<1>2. ASSUME NEW d \in Callers PROVE Progress(d)'
  <2>1. CASE d = c
    BY <2>1
  <2>2. CASE d # c
    BY <2>2 DEF Others, Progress, Truth
  <2> QED
    BY <2>1, <2>2
<1>3. Trusted'
  BY DEF TrustedBut, Trusted
<1>4. Flag'
  BY DEF FlagOf, Flag, Others, Initialising
<1> QED
  BY <1>1, <1>2, <1>3, <1>4 DEF Truth

LEMMA TruthEnter ==
    ASSUME BringTypeOK, Truth, way.honest, NEW c \in Callers, Idle, EnterInit(c) \/ EnterDeinit(c)
    PROVE  Truth'
<1>0. \A d \in Callers : d # c => step'[d] = step[d] /\ stage'[d] = stage[d]
  BY DEF EnterInit, EnterDeinit, Goes, BringTypeOK
<1>1. Others(c) /\ Progress(c) /\ FlagOf(c) /\ TrustedBut(c)
  BY <1>0, AloneRuns
<1>2. /\ step[c] = "new" /\ UNCHANGED <<way, up, managers, service, stage, heard>>
      /\ \/ step'[c] = "done" /\ up /\ way.guard # "no"
         \/ step'[c] = "done" /\ told' = told
         \/ step'[c] = "get" /\ (way.guard = "no" \/ ~up) /\ told' = told
         \/ step'[c] = "takedown" /\ told' = told
  BY DEF EnterInit, EnterDeinit, Goes, BringTypeOK
<1>3. stage[c] = 1 /\ \A s \in StagesOf(way) : ~(s < 1)
  BY <1>1, <1>2 DEF Progress, StagesOf
<1>4. AllGood => AllGood'
  BY <1>2 DEF AllGood, Good
<1>5. Progress(c)'
  BY <1>2, <1>3 DEF Progress
<1>6. FlagOf(c)'
  BY <1>1, <1>2, <1>4 DEF FlagOf, Initialising
<1>7. TrustedBut(c)'
  BY <1>1, <1>2 DEF TrustedBut
<1> QED
  BY <1>1, <1>2, <1>5, <1>6, <1>7, TruthOfOne

LEMMA TruthEnd ==
    ASSUME BringTypeOK, Truth, way.honest, NEW c \in Callers,
           RegisterListener(c) \/ Succeed(c) \/ Fail(c) \/ TakeDown(c) \/ Lower(c)
    PROVE  Truth'
<1>0. /\ Active(c) /\ UNCHANGED <<way, service, stage, heard>>
      /\ \A d \in Callers : d # c => step'[d] = step[d] /\ stage'[d] = stage[d]
  BY DEF RegisterListener, Succeed, Fail, TakeDown, Lower, Leaves, Goes, BringTypeOK, Active
<1>1. Others(c) /\ Progress(c) /\ FlagOf(c) /\ TrustedBut(c)
  BY <1>0, AloneRuns
<1>2. managers' = managers /\ AllGood => AllGood'
  BY <1>0 DEF AllGood, Good
<1> USE DEF Goes, Leaves, Initialising, BringTypeOK
<1>3. CASE RegisterListener(c)
  <2>1. CASE step' = step
    <3>1. managers' = managers /\ up' = up /\ told' = told
      BY <1>3, <2>1 DEF RegisterListener
    <3>2. Progress(c)' /\ FlagOf(c)' /\ TrustedBut(c)'
      BY <1>0, <1>1, <1>2, <2>1, <1>3, <3>1 DEF Progress, FlagOf, TrustedBut, RegisterListener
    <3> QED
      BY <1>0, <1>1, <3>2, TruthOfOne
  <2>2. CASE Goes(c, "succeed") /\ UNCHANGED managers
    <3>1. Progress(c)' /\ FlagOf(c)' /\ TrustedBut(c)'
      BY <1>0, <1>1, <1>2, <2>2, <1>3 DEF Progress, FlagOf, TrustedBut, RegisterListener
    <3> QED
      BY <1>0, <1>1, <3>1, TruthOfOne
  <2>3. CASE Goes(c, "fail") /\ managers' \in {managers, {}}
    <3>1. Progress(c)' /\ FlagOf(c)' /\ TrustedBut(c)'
      BY <1>0, <1>1, <2>3, <1>3 DEF Progress, FlagOf, TrustedBut, RegisterListener
    <3> QED
      BY <1>0, <1>1, <3>1, TruthOfOne
  <2> QED
    BY <1>3, <2>1, <2>2, <2>3 DEF RegisterListener
<1>4. CASE Succeed(c)
  <2>1. Progress(c)' /\ FlagOf(c)' /\ TrustedBut(c)'
    BY <1>0, <1>1, <1>2, <1>4 DEF Progress, FlagOf, TrustedBut, Succeed
  <2> QED
    BY <1>0, <1>1, <2>1, TruthOfOne
<1>5. CASE Fail(c)
  <2>1. Progress(c)' /\ FlagOf(c)' /\ TrustedBut(c)'
    BY <1>0, <1>1, <1>2, <1>5 DEF Progress, FlagOf, TrustedBut, Fail
  <2> QED
    BY <1>0, <1>1, <2>1, TruthOfOne
<1>6. CASE TakeDown(c)
  <2>1. CASE managers' = {} /\ told' = FALSE /\ Goes(c, "lower")
    <3>1. Progress(c)' /\ FlagOf(c)' /\ TrustedBut(c)'
      BY <1>0, <1>1, <1>6, <2>1 DEF Progress, FlagOf, TrustedBut, TakeDown
    <3> QED
      BY <1>0, <1>1, <3>1, TruthOfOne
  <2>2. CASE Goes(c, "done") /\ UNCHANGED <<managers, told>>
    <3>1. Progress(c)' /\ FlagOf(c)' /\ TrustedBut(c)'
      BY <1>0, <1>1, <1>2, <1>6, <2>2 DEF Progress, FlagOf, TrustedBut, TakeDown
    <3> QED
      BY <1>0, <1>1, <3>1, TruthOfOne
  <2> QED
    BY <1>6, <2>1, <2>2, Zenon DEF TakeDown
<1>7. CASE Lower(c)
  <2>1. Progress(c)' /\ FlagOf(c)' /\ TrustedBut(c)'
    BY <1>0, <1>1, <1>7 DEF Progress, FlagOf, TrustedBut, Lower
  <2> QED
    BY <1>0, <1>1, <2>1, TruthOfOne
<1> QED
  BY <1>3, <1>4, <1>5, <1>6, <1>7

\* A stage that is behind an Init, and one that is left without failing it.
LEMMA TruthAdvance ==
    ASSUME BringTypeOK, Truth, way.honest, NEW c \in Callers, step[c] \in {"get", "wait"},
           Advance(c), NEW this \in StagesOf(way), this = stage[c], Good(this)',
           \A s \in StagesOf(way) : s < this => (s \in managers => s \in managers'),
           managers' \subseteq managers \cup {this},
           this \in managers' /\ way.stages[this].trusts = "ok"
               /\ way.stages[this].timeout # "keep" => service[this] = "available",
           UNCHANGED <<way, up, told, service, heard>>
    PROVE  Truth'
<1>0. /\ Active(c)
      /\ \A d \in Callers : d # c => step'[d] = step[d] /\ stage'[d] = stage[d]
      /\ step'[c] \in {"get", "listen"}
  BY DEF Advance, Goes, BringTypeOK, Active
<1>1. Others(c) /\ Progress(c) /\ FlagOf(c) /\ TrustedBut(c)
  BY <1>0, AloneRuns
<1>2. ASSUME NEW s \in StagesOf(way), s < stage[c] PROVE Good(s)'
  <2>1. Good(s)
    BY <1>1, <1>2 DEF Progress
  <2> QED
    BY <2>1, <1>2, GoodStays
<1>3. Progress(c)'
  BY <1>2, AdvanceProgress
<1>4. FlagOf(c)'
  BY <1>0, <1>1 DEF FlagOf, Initialising
<1>5. TrustedBut(c)'
  BY <1>0, <1>1 DEF TrustedBut
<1> QED
  BY <1>1, <1>3, <1>4, <1>5, TruthOfOne

LEMMA TruthFail ==
    ASSUME BringTypeOK, Truth, NEW c \in Callers, step[c] \in {"get", "wait"},
           Goes(c, "fail"), managers' \subseteq managers,
           NEW this \in StagesOf(way), this = stage[c],
           step[c] = "wait" /\ this \in managers' /\ way.stages[this].trusts = "ok"
               /\ way.stages[this].timeout # "keep" => service[this] = "available",
           UNCHANGED <<way, up, told, service, stage>>
    PROVE  Truth'
<1>0. /\ Active(c) /\ step'[c] = "fail"
      /\ \A d \in Callers : d # c => step'[d] = step[d] /\ stage'[d] = stage[d]
  BY DEF Goes, BringTypeOK, Active
<1>1. Others(c) /\ Progress(c) /\ FlagOf(c) /\ TrustedBut(c)
  BY <1>0, AloneRuns
<1>2. Progress(c)' /\ FlagOf(c)' /\ TrustedBut(c)'
  BY <1>0, <1>1 DEF Progress, FlagOf, TrustedBut, Initialising
<1> QED
  BY <1>1, <1>2, TruthOfOne

LEMMA TruthGiveUp ==
    ASSUME BringTypeOK, Truth, way.honest, NEW c \in Callers, step[c] \in {"get", "wait"},
           NEW how \in {"keep", "drop"}, NEW r, GiveUp(c, how, r),
           step[c] = "wait" /\ way.stages[stage[c]].trusts = "ok"
               /\ way.stages[stage[c]].timeout # "keep" => how = "drop",
           UNCHANGED <<way, up, told, service, heard>>
    PROVE  Truth'
<1> DEFINE this == stage[c]
<1>1. this \in StagesOf(way) /\ this \in Int
  BY WayType DEF BringTypeOK
<1>2. managers' \subseteq managers
  BY DEF GiveUp
<1>3. CASE way.stages[this].fails
  <2>1. Goes(c, "fail") /\ UNCHANGED stage /\ (managers' = {} \/ (how = "drop" => this \notin managers'))
    BY <1>3 DEF GiveUp, ThisStage
  <2> QED
    BY <1>1, <1>2, <2>1, TruthFail
<1>4. CASE ~way.stages[this].fails
  <2>1. Advance(c) /\ managers' = IF how = "drop" THEN managers \ {this} ELSE managers
    BY <1>4 DEF GiveUp, ThisStage
  <2>2. PICK g \in StagesOf(way) : g = this
    BY <1>1
  <2>3. Good(g)'
    BY <1>4, <2>2 DEF Good
  <2>4. \A s \in StagesOf(way) : s < g => (s \in managers => s \in managers')
    BY <1>1, <2>1, <2>2, WayType
  <2>5. g \in managers' /\ way.stages[g].trusts = "ok" /\ way.stages[g].timeout # "keep"
            => service[g] = "available"
    <3>1. CASE step[c] = "wait"
      BY <2>1, <2>2, <3>1
    <3>2. CASE step[c] = "get"
      <4>1. TrustedBut(c)
        BY AloneRuns, <3>2 DEF Truth, Trusted, TrustedBut, Alone, Active
      <4> QED
        BY <1>2, <3>2, <4>1 DEF TrustedBut
    <3> QED
      BY <3>1, <3>2
  <2> QED
    BY <1>2, <2>1, <2>2, <2>3, <2>4, <2>5, TruthAdvance
<1> QED
  BY <1>3, <1>4

LEMMA TruthStage ==
    ASSUME BringTypeOK, Truth, way.honest, NEW c \in Starters,
           Trust(c) \/ Get(c) \/ EndStage(c)
    PROVE  Truth'
<1>0. c \in Callers /\ UNCHANGED <<way, up, told>> /\ step[c] \in {"get", "wait"}
  BY DEF Callers, Trust, Get, EndStage
<1>1. PICK this \in StagesOf(way) : this = stage[c]
  BY <1>0 DEF BringTypeOK
<1>2. /\ this \in Int
      /\ \A s \in StagesOf(way) : s < this => s # this
      /\ way.stages[this].timeout \in {"keep", "drop"}
      /\ way.stages[this].failed \in {"keep", "drop"}
      /\ way.stages[this].trusts = "ok" =>
             way.stages[this].timeout = "keep" \/ way.stages[this].failed = "drop"
  BY WayType
<1>a. \A d \in Callers : step[d] = "wait" => d = c
  BY <1>0 DEF Truth, Alone, Active
<1>3. CASE Trust(c)
  <2>1. CASE way.stages[this].trusts = "ok"
    <3>1. Advance(c) /\ this \in managers /\ UNCHANGED <<managers, service, heard>> /\ step[c] = "get"
      BY <1>1, <1>3, <2>1 DEF Trust, ThisStage
    <3>2. way.stages[this].timeout # "keep" => service[this] = "available"
      BY <1>a, <2>1, <3>1 DEF Truth, Trusted
    <3>3. Good(this)'
      BY <1>0, <1>2, <2>1, <3>1, <3>2 DEF Good
    <3> QED
      BY <1>0, <1>1, <3>1, <3>2, <3>3, TruthAdvance
  <2>2. CASE way.stages[this].trusts # "ok"
    <3>1. Goes(c, "fail") /\ UNCHANGED <<managers, service, stage>> /\ step[c] = "get"
      BY <1>1, <1>3, <2>2 DEF Trust, ThisStage
    <3> QED
      BY <1>0, <1>1, <3>1, TruthFail
  <2> QED
    BY <2>1, <2>2
<1>4. CASE Get(c)
  <2>1. ASSUME NEW how \in {"keep", "drop"}, GiveUp(c, how, "fault"),
               UNCHANGED <<service, owed, heard>>
        PROVE  Truth'
    <3>1. step[c] = "get"
      BY <1>4 DEF Get
    <3> QED
      BY <1>0, <2>1, <3>1, TruthGiveUp
  <2>2. CASE /\ service[this] = "available"
             /\ managers' = managers \cup {this} /\ Advance(c)
             /\ UNCHANGED <<service, owed, heard>>
    <3>1. Good(this)'
      BY <1>0, <2>2 DEF Good
    <3> QED
      BY <1>0, <1>1, <2>2, <3>1, TruthAdvance
  <2>3. CASE /\ managers' = IF way.stages[this].after THEN managers ELSE managers \cup {this}
             /\ service' = [service EXCEPT ![this] = IF @ = "failed" THEN "starting" ELSE @]
             /\ heard' = [heard EXCEPT ![c] = "none"]
             /\ Goes(c, "wait") /\ UNCHANGED <<stage, result>>
    <3>0. /\ Active(c) /\ step[c] = "get" /\ step'[c] = "wait" /\ stage'[c] = this
          /\ heard'[c] = "none"
          /\ \A d \in Callers : d # c => step'[d] = step[d] /\ stage'[d] = stage[d]
      BY <1>0, <1>1, <1>4, <2>3 DEF Get, Goes, BringTypeOK, Active
    <3>1. Others(c) /\ Progress(c) /\ FlagOf(c) /\ TrustedBut(c)
      BY <1>0, <3>0, AloneRuns
    <3>2. \A s \in StagesOf(way) : service[s] = "available" => service'[s] = "available"
      BY <2>3, WayType DEF BringTypeOK
    <3>3. ASSUME NEW s \in StagesOf(way), Good(s) PROVE Good(s)'
      BY <1>0, <2>3, <3>2, <3>3 DEF Good
    <3>4. Progress(c)'
      BY <1>0, <1>1, <2>3, <3>0, <3>1, <3>3 DEF Progress
    <3>5. FlagOf(c)'
      BY <1>0, <3>0, <3>1 DEF FlagOf, Initialising
    <3>6. TrustedBut(c)'
      BY <1>0, <2>3, <3>0, <3>1, <3>2 DEF TrustedBut, BringTypeOK
    <3> QED
      BY <1>0, <3>1, <3>4, <3>5, <3>6, TruthOfOne
  <2> QED
    BY <1>1, <1>4, <2>1, <2>2, <2>3 DEF Get, ThisStage
<1>5. CASE EndStage(c)
  <2>0. Progress(c) /\ step[c] = "wait" /\ UNCHANGED <<service, heard>>
    BY <1>0, <1>5 DEF Truth, EndStage
  <2>1. CASE heard[c] = "available" /\ Advance(c)
             /\ managers' = IF way.stages[this].after THEN managers \cup {this} ELSE managers
    <3>1. this \in managers' /\ service[this] = "available"
      BY <1>1, <2>0, <2>1 DEF Progress
    <3>2. Good(this)'
      BY <1>0, <2>0, <3>1 DEF Good
    <3> QED
      BY <1>0, <1>1, <2>0, <2>1, <3>1, <3>2, TruthAdvance
  <2>2. CASE GiveUp(c, way.stages[this].failed, "fault")
    BY <1>0, <1>1, <1>2, <2>0, <2>2, TruthGiveUp
  <2>3. CASE GiveUp(c, way.stages[this].timeout, "timeout")
    BY <1>0, <1>1, <1>2, <2>0, <2>3, TruthGiveUp
  <2> QED
    BY <1>1, <1>5, <2>1, <2>2, <2>3 DEF EndStage, ThisStage
<1> QED
  BY <1>3, <1>4, <1>5

LEMMA TruthSdk ==
    ASSUME BringTypeOK, Truth, NEW s \in StagesOf(way),
           Settle(s) \/ \E c \in Starters : Answer(c, s)
    PROVE  Truth'
<1>0. /\ UNCHANGED <<way, up, managers, step, stage, told>>
      /\ \A t \in StagesOf(way) : service[t] = "available" => service'[t] = "available"
  BY WayType, Zenon DEF Settle, Answer, BringTypeOK
<1>1. AllGood => AllGood'
  BY <1>0 DEF AllGood, Good
<1>2. ASSUME NEW t \in StagesOf(way), Good(t) PROVE Good(t)'
  BY <1>0, <1>2 DEF Good
<1>3. ASSUME NEW d \in Callers, step[d] = "wait", heard'[d] = "available"
      PROVE  service'[stage[d]] = "available"
  <2>1. stage[d] \in StagesOf(way)
    BY DEF BringTypeOK
  <2>2. heard[d] = "available" => service[stage[d]] = "available"
    BY <1>3 DEF Truth, Progress
  <2>3. CASE heard'[d] = heard[d]
    BY <1>0, <1>3, <2>1, <2>2, <2>3
  <2>4. CASE heard'[d] # heard[d]
    <3>1. stage[d] = s /\ heard'[d] = service[s] /\ service' = service
      BY <2>4, Zenon DEF Settle, Answer, BringTypeOK
    <3> QED
      BY <1>3, <3>1
  <2> QED
    BY <2>3, <2>4
<1>4. ASSUME NEW d \in Callers PROVE Progress(d)'
  BY <1>0, <1>1, <1>2, <1>3 DEF Truth, Progress
<1>5. Alone' /\ Flag'
  BY <1>0, <1>1 DEF Truth, Alone, Active, Flag, Initialising
<1>6. Trusted'
  BY <1>0 DEF Truth, Trusted, BringTypeOK
<1> QED
  BY <1>4, <1>5, <1>6 DEF Truth

LEMMA BringStep == BringIInv /\ [BringNext]_bringVars => BringIInv'
<1> SUFFICES ASSUME BringIInv, [BringNext]_bringVars, ~overlap', way'.honest PROVE Truth'
  BY BringTypeStep DEF BringIInv
<1>0. BringTypeOK /\ way' = way /\ ~overlap
  <2>1. ASSUME BringNext PROVE way' = way /\ (overlap => overlap')
    <3>0. ASSUME NEW c, EnterInit(c) \/ EnterDeinit(c) PROVE way' = way /\ (overlap => overlap')
      <4>1. way' = way /\ overlap' = (overlap \/ ~Idle)
        BY <3>0 DEF EnterInit, EnterDeinit
      <4> QED
        BY <4>1, Zenon
    <3>1. ASSUME NEW c \in Starters, Trust(c) \/ Get(c) \/ EndStage(c) \/ RegisterListener(c)
          PROVE  way' = way /\ overlap' = overlap
      BY <3>1 DEF Trust, Get, EndStage, RegisterListener
    <3>2. ASSUME NEW c \in Starters, Succeed(c) \/ Fail(c) PROVE way' = way /\ overlap' = overlap
      BY <3>2 DEF Succeed, Fail, Leaves
    <3>3. ASSUME NEW c \in Stoppers, TakeDown(c) \/ Lower(c)
          PROVE  way' = way /\ overlap' = overlap
      BY <3>3 DEF TakeDown, Lower, Leaves
    <3>4. ASSUME NEW s, Settle(s) \/ \E c \in Starters : Answer(c, s)
          PROVE  way' = way /\ overlap' = overlap
      BY <3>4, Zenon DEF Settle, Answer
    <3> QED
      BY <2>1, <3>0, <3>1, <3>2, <3>3, <3>4 DEF BringNext
  <2> QED
    BY <2>1 DEF BringIInv, bringVars
<1>1. Truth /\ way.honest
  BY <1>0 DEF BringIInv
<1>2. Starters \subseteq Callers /\ Stoppers \subseteq Callers
  BY DEF Callers
<1>3. ASSUME NEW c \in Callers, EnterInit(c) \/ EnterDeinit(c) PROVE Truth'
  <2>1. Idle
    BY <1>3, Zenon DEF EnterInit, EnterDeinit
  <2> QED
    BY <1>0, <1>1, <1>3, <2>1, TruthEnter
<1>4. CASE UNCHANGED bringVars
  <2>1. AllGood => AllGood'
    BY <1>4 DEF bringVars, AllGood, Good
  <2>2. ASSUME NEW s, Good(s) PROVE Good(s)'
    BY <1>4, <2>2 DEF bringVars, Good
  <2>3. ASSUME NEW d \in Callers PROVE Progress(d)'
    BY <1>1, <1>4, <2>1, <2>2 DEF bringVars, Truth, Progress
  <2> QED
    BY <1>1, <1>4, <2>1, <2>3 DEF bringVars, Truth, Alone, Trusted, Flag, Active, Initialising
<1> QED
  BY <1>0, <1>1, <1>2, <1>3, <1>4, TruthEnd, TruthStage, TruthSdk DEF BringNext

LEMMA BringInvariant == BringSpec => []BringIInv
<1> QED
  BY BringInitInv, BringStep, PTL DEF BringSpec

\* The state of an Init and Deinit stays within its types.
THEOREM BringTypes == BringSpec => []BringTypeOK
<1>1. BringIInv => BringTypeOK
  BY DEF BringIInv
<1> QED
  BY <1>1, BringInvariant, PTL

\* Whatever the SDK answers and however often Init and Deinit follow each other, a PA_OK
\* of calls that do not overlap says what is there.
THEOREM InitIsTrue == BringSpec => []InitTellsTruth
<1>1. BringIInv => InitTellsTruth
  BY DEF BringIInv, Truth, Flag, Initialising, Idle, AllGood, Good, InitTellsTruth
<1> QED
  BY <1>1, BringInvariant, PTL

-----------------------------------------------------------------------------
(* BackedFiles.  A step of a call that copies a file would leave something  *)
(* that is no file if there were none to copy.  The code never looks: it     *)
(* relies on the open, the backup or the failed step before it.  That is     *)
(* what Sound says of the steps a call has left, and it holds in all of      *)
(* them, whichever step fails and wherever the call goes on.                 *)

Deeds == {"enter", "open", "move", "leave", "match", "refresh", "copy_to_backup",
          "sync_copy_name", "label", "label_backup", "sync_backup", "copy_to_primary",
          "sync_restored_name", "label_restored", "sync_restored", "sync_name_again", "checksum",
          "sync", "unlink", "sync_unlink", "unlink_backup", "sync_unlink_backup",
          "fill_in_part", "fill", "copy_context", "sync_move", "checksum_moved"} \cup Landings
FileSteps == [do : Deeds, at : Paths, flags : Flags, to : Paths]

\* The paths whose file a step needs: it copies it, or puts steps that do in its place.
Needs(s) ==
    IF s.do \in {"copy_to_backup", "refresh", "filled"} THEN {s.at}
    ELSE IF s.do = "fill" THEN {s.to} ELSE {}

\* The steps after which a path has a file, or no call goes on; and those that take it away.
Provides(s) ==
    IF s.do \in {"enter", "open"} THEN {s.at} ELSE IF s.do = "move" THEN {s.to} \ {s.at} ELSE {}
Removes(s) == IF s.do \in {"unlink", "move"} THEN {s.at} ELSE {}

\* A step that can fail, or that puts such steps in its place.
Risky(s) ==
    s.do \notin {"enter", "open", "move", "leave", "match"}
                    \cup (Landings \ {"filled", "moved"})

\* A file is there when a step needs it, if there are files at the paths of there.
Provided(t, there) ==
    \A i \in 1..Len(t) : \A x \in Needs(t[i]) :
        /\ x \in there \/ \E j \in 1..(i - 1) : x \in Provides(t[j])
        /\ \A j \in 1..(i - 1) : x \notin Removes(t[j])

\* What a failure skips provides no file.
Caught(t) ==
    \A i, j \in 1..Len(t) :
        i < j /\ Risky(t[i]) /\ Provides(t[j]) # {} =>
            \E k \in (i + 1)..(j - 1) : t[k].do \in Landings

Sound(t, there) == t \in Seq(FileSteps) /\ Provided(t, there) /\ Caught(t)

\* A step that is done.
LEMMA TailSound ==
    ASSUME NEW t, NEW there, NEW after, Sound(t, there), t # <<>>,
           \A x \in there : x \notin Removes(Head(t)) => x \in after,
           Provides(Head(t)) \subseteq after
    PROVE  Sound(Tail(t), after)
<1>1. /\ t \in Seq(FileSteps) /\ Len(t) \in Nat /\ Len(t) >= 1 /\ Head(t) = t[1]
      /\ Tail(t) \in Seq(FileSteps) /\ Len(Tail(t)) = Len(t) - 1
      /\ \A i \in 1..Len(Tail(t)) : Tail(t)[i] = t[i + 1]
  BY HeadTailProperties DEF Sound
<1> DEFINE u == Tail(t)
<1> HIDE DEF u
<1>2. Provided(u, after)
  <2> SUFFICES ASSUME NEW i \in 1..Len(u), NEW x \in Needs(u[i])
               PROVE  /\ x \in after \/ \E j \in 1..(i - 1) : x \in Provides(u[j])
                      /\ \A j \in 1..(i - 1) : x \notin Removes(u[j])
    BY DEF Provided
  <2>1. i + 1 \in 1..Len(t) /\ u[i] = t[i + 1]
    BY <1>1 DEF u
  <2>2. /\ x \in there \/ \E j \in 1..i : x \in Provides(t[j])
        /\ \A j \in 1..i : x \notin Removes(t[j])
    BY <1>1, <2>1 DEF Sound, Provided
  <2>3. \A j \in 1..(i - 1) : u[j] = t[j + 1] /\ j + 1 \in 1..i
    BY <1>1 DEF u
  <2>4. x \in after \/ \E j \in 1..(i - 1) : x \in Provides(u[j])
    <3>1. CASE x \in there
      BY <1>1, <2>1, <2>2, <3>1
    <3>2. CASE x \in Provides(t[1])
      BY <1>1, <3>2
    <3>3. ASSUME NEW j \in 1..i, x \in Provides(t[j]), j # 1
          PROVE  \E k \in 1..(i - 1) : x \in Provides(u[k])
      <4>1. j - 1 \in 1..(i - 1) /\ u[j - 1] = t[j]
        BY <1>1, <2>3, <3>3
      <4> QED
        BY <3>3, <4>1
    <3> QED
      BY <2>2, <3>1, <3>2, <3>3
  <2> QED
    BY <2>2, <2>3, <2>4
<1>3. Caught(u)
  <2> SUFFICES ASSUME NEW i \in 1..Len(u), NEW j \in 1..Len(u), i < j, Risky(u[i]),
                      Provides(u[j]) # {}
               PROVE  \E k \in (i + 1)..(j - 1) : u[k].do \in Landings
    BY DEF Caught
  <2>1. /\ i + 1 \in 1..Len(t) /\ j + 1 \in 1..Len(t) /\ i + 1 < j + 1
        /\ u[i] = t[i + 1] /\ u[j] = t[j + 1]
    BY <1>1 DEF u
  <2>2. PICK k \in (i + 1 + 1)..(j + 1 - 1) : t[k].do \in Landings
    <3> DEFINE a == i + 1
               b == j + 1
    <3>1. a \in 1..Len(t) /\ b \in 1..Len(t) /\ a < b /\ Risky(t[a]) /\ Provides(t[b]) # {}
      BY <2>1
    <3> HIDE DEF a, b
    <3>2. \E k \in (a + 1)..(b - 1) : t[k].do \in Landings
      BY <3>1, Zenon DEF Sound, Caught
    <3> QED
      BY <3>2 DEF a, b
  <2>3. k - 1 \in (i + 1)..(j - 1) /\ k - 1 \in 1..Len(u) /\ u[k - 1] = t[k]
    BY <1>1 DEF u
  <2> QED
    BY <2>2, <2>3
<1> QED
  BY <1>1, <1>2, <1>3 DEF Sound, u

\* A failure goes to the next landing.
LEMMA LandingSound ==
    ASSUME NEW t, NEW there, NEW after, Sound(t, there), t # <<>>, Risky(Head(t)),
           there \subseteq after
    PROVE  Sound(FromLanding(t), after)
<1>1. t \in Seq(FileSteps) /\ Len(t) \in Nat /\ Len(t) >= 1 /\ Head(t) = t[1]
  BY HeadTailProperties DEF Sound
<1> DEFINE at == {i \in 1..Len(t) : t[i].do \in Landings}
<1>2. CASE at = {}
  <2>1. FromLanding(t) = <<>>
    BY <1>2 DEF FromLanding
  <2> QED
    BY <2>1 DEF Sound, Provided, Caught
<1>3. CASE at # {}
  <2> DEFINE k == CHOOSE i \in at : \A j \in at : i <= j
  <2>1. k \in at /\ \A j \in at : k <= j
    <3>1. at \subseteq Nat
      OBVIOUS
    <3>2. \E i \in at : \A j \in at : i <= j
      <4> DEFINE Less == OpToRel(<, Nat)
      <4>1. IsWellFoundedOn(Less, Nat)
        BY NatLessThanWellFounded, Zenon
      <4>2. PICK i \in at : \A j \in at : ~(<<j, i>> \in Less)
        <5> HIDE DEF at, Less
        <5> QED
          BY <1>3, <3>1, <4>1, WFMin, Zenon
      <4>3. \A j \in at : ~(j < i)
        BY <4>2, <3>1, Zenon DEF OpToRel, Less
      <4> QED
        BY <4>3, <3>1
    <3> QED
      BY <3>2, Zenon
  <2> DEFINE u == SubSeq(t, k, Len(t))
  <2>2. FromLanding(t) = u
    BY <1>3, Zenon DEF FromLanding
  <2> HIDE DEF k, at
  <2>3. k \in 1..Len(t) /\ \A j \in 1..(k - 1) : t[j].do \notin Landings
    BY <1>1, <2>1 DEF at
  <2>4. /\ u \in Seq(FileSteps) /\ Len(u) = Len(t) - k + 1
        /\ \A i \in 1..Len(u) : u[i] = t[k + i - 1]
    BY <1>1, <2>3
  <2> HIDE DEF u
  <2>5. \A j \in 1..(k - 1) : Provides(t[j]) = {}
    <3> SUFFICES ASSUME NEW j \in 1..(k - 1), Provides(t[j]) # {} PROVE FALSE
      OBVIOUS
    <3>1. CASE j = 1
      BY <1>1, <3>1 DEF Risky, Provides
    <3>2. CASE j # 1
      <4>1. PICK l \in (1 + 1)..(j - 1) : t[l].do \in Landings
        BY <1>1, <2>3, <3>2 DEF Sound, Caught
      <4> QED
        BY <2>3, <4>1
    <3> QED
      BY <3>1, <3>2
  <2>6. Provided(u, after)
    <3> SUFFICES ASSUME NEW i \in 1..Len(u), NEW x \in Needs(u[i])
                 PROVE  /\ x \in after \/ \E j \in 1..(i - 1) : x \in Provides(u[j])
                        /\ \A j \in 1..(i - 1) : x \notin Removes(u[j])
      BY DEF Provided
    <3>1. k + i - 1 \in 1..Len(t) /\ u[i] = t[k + i - 1]
      BY <1>1, <2>3, <2>4
    <3>2. /\ x \in there \/ \E j \in 1..(k + i - 1 - 1) : x \in Provides(t[j])
          /\ \A j \in 1..(k + i - 1 - 1) : x \notin Removes(t[j])
      <4> DEFINE a == k + i - 1
      <4>1. a \in 1..Len(t) /\ x \in Needs(t[a])
        BY <3>1
      <4> HIDE DEF a
      <4>2. /\ x \in there \/ \E j \in 1..(a - 1) : x \in Provides(t[j])
            /\ \A j \in 1..(a - 1) : x \notin Removes(t[j])
        BY <4>1, Zenon DEF Sound, Provided
      <4> QED
        BY <1>1, <2>3, <4>2 DEF a
    <3>3. \A j \in 1..(i - 1) : u[j] = t[k + j - 1] /\ k + j - 1 \in 1..(k + i - 1 - 1)
      BY <2>3, <2>4
    <3>4. ASSUME NEW j \in 1..(k + i - 1 - 1), x \in Provides(t[j])
          PROVE  \E l \in 1..(i - 1) : x \in Provides(u[l])
      <4>1. j >= k
        BY <2>3, <2>5, <3>4
      <4>2. j - k + 1 \in 1..(i - 1) /\ u[j - k + 1] = t[j]
        BY <2>3, <3>3, <4>1
      <4> QED
        BY <3>4, <4>2
    <3> QED
      BY <3>2, <3>3, <3>4, Zenon
  <2>7. Caught(u)
    <3> SUFFICES ASSUME NEW i \in 1..Len(u), NEW j \in 1..Len(u), i < j, Risky(u[i]),
                        Provides(u[j]) # {}
                 PROVE  \E l \in (i + 1)..(j - 1) : u[l].do \in Landings
      BY Zenon DEF Caught
    <3>1. /\ k + i - 1 \in 1..Len(t) /\ k + j - 1 \in 1..Len(t) /\ k + i - 1 < k + j - 1
          /\ u[i] = t[k + i - 1] /\ u[j] = t[k + j - 1]
      BY <1>1, <2>3, <2>4
    <3>2. PICK l \in (k + i - 1 + 1)..(k + j - 1 - 1) : t[l].do \in Landings
      <4> DEFINE a == k + i - 1
                 b == k + j - 1
      <4>1. a \in 1..Len(t) /\ b \in 1..Len(t) /\ a < b /\ Risky(t[a]) /\ Provides(t[b]) # {}
        BY <3>1
      <4> HIDE DEF a, b
      <4>2. \E l \in (a + 1)..(b - 1) : t[l].do \in Landings
        BY <4>1, Zenon DEF Sound, Caught
      <4> QED
        BY <1>1, <2>3, <4>2 DEF a, b
    <3>3. l - k + 1 \in (i + 1)..(j - 1) /\ l - k + 1 \in 1..Len(u) /\ u[l - k + 1] = t[l]
      BY <2>3, <2>4
    <3> QED
      BY <3>2, <3>3
  <2> QED
    BY <2>2, <2>4, <2>6, <2>7 DEF Sound
<1> QED
  BY <1>2, <1>3

\* Steps in the place of the one that put them there.
LEMMA SpliceSound ==
    ASSUME NEW t, NEW there, NEW b, Sound(t, there), t # <<>>, Sound(b, there),
           \A i \in 1..Len(b) : Removes(b[i]) = {},
           \A x \in Provides(Head(t)) : \E i \in 1..Len(b) : x \in Provides(b[i]),
           \A i \in 1..Len(b) : Risky(b[i]) =>
               Risky(Head(t)) \/ \E k \in (i + 1)..Len(b) : b[k].do \in Landings
    PROVE  Sound(b \o Tail(t), there)
<1> DEFINE v == b \o Tail(t)
           n == Len(b)
<1>1. /\ t \in Seq(FileSteps) /\ Len(t) \in Nat /\ Len(t) >= 1 /\ Head(t) = t[1]
      /\ Tail(t) \in Seq(FileSteps) /\ Len(Tail(t)) = Len(t) - 1
      /\ \A i \in 1..Len(Tail(t)) : Tail(t)[i] = t[i + 1]
      /\ b \in Seq(FileSteps) /\ n \in Nat
  BY HeadTailProperties DEF Sound
<1>2. /\ v \in Seq(FileSteps) /\ Len(v) = n + (Len(t) - 1)
      /\ \A i \in 1..Len(v) : v[i] = IF i <= n THEN b[i] ELSE Tail(t)[i - n]
  BY <1>1, ConcatProperties
<1> HIDE DEF v, n
<1>3. \A i \in 1..Len(v) : i <= n => i \in 1..n /\ v[i] = b[i]
  BY <1>1, <1>2
<1>4. \A i \in 1..Len(v) : i > n => i - n + 1 \in 2..Len(t) /\ v[i] = t[i - n + 1]
  BY <1>1, <1>2
<1>5. Provided(v, there)
  <2> SUFFICES ASSUME NEW i \in 1..Len(v), NEW x \in Needs(v[i])
               PROVE  /\ x \in there \/ \E j \in 1..(i - 1) : x \in Provides(v[j])
                      /\ \A j \in 1..(i - 1) : x \notin Removes(v[j])
    BY Zenon DEF Provided
  <2>1. CASE i <= n
    <3>1. /\ x \in there \/ \E j \in 1..(i - 1) : x \in Provides(b[j])
          /\ \A j \in 1..(i - 1) : x \notin Removes(b[j])
      BY <1>1, <1>3, <2>1, Zenon DEF Sound, Provided, n
    <3>2. \A j \in 1..(i - 1) : v[j] = b[j]
      BY <1>1, <1>2, <1>3, <2>1
    <3> QED
      BY <3>1, <3>2
  <2>2. CASE i > n
    <3> DEFINE a == i - n + 1
    <3>1. a \in 2..Len(t) /\ a \in 1..Len(t) /\ v[i] = t[a] /\ x \in Needs(t[a])
      BY <1>1, <1>4, <2>2
    <3> HIDE DEF a
    <3>2. /\ x \in there \/ \E j \in 1..(a - 1) : x \in Provides(t[j])
          /\ \A j \in 1..(a - 1) : x \notin Removes(t[j])
      BY <3>1, Zenon DEF Sound, Provided
    <3>3. ASSUME NEW j \in 1..(i - 1), j <= n PROVE x \notin Removes(v[j])
      <4>1. j \in 1..n /\ v[j] = b[j]
        BY <1>1, <1>2, <1>3, <3>3
      <4>2. Removes(b[j]) = {}
        BY <4>1 DEF n
      <4> QED
        BY <4>1, <4>2
    <3>4. ASSUME NEW j \in 1..(i - 1), j > n PROVE x \notin Removes(v[j])
      <4>1. v[j] = t[j - n + 1] /\ j - n + 1 \in 1..(a - 1)
        BY <1>1, <1>2, <1>4, <3>4 DEF a
      <4> QED
        BY <3>2, <4>1
    <3>5. ASSUME NEW j \in 1..(a - 1), x \in Provides(t[j])
          PROVE  \E k \in 1..(i - 1) : x \in Provides(v[k])
      <4>1. CASE j = 1
        <5>1. PICK k \in 1..n : x \in Provides(b[k])
          BY <1>1, <3>5, <4>1 DEF n
        <5>2. k \in 1..(i - 1) /\ k \in 1..Len(v) /\ v[k] = b[k]
          BY <1>1, <1>2, <1>3, <2>2
        <5> QED
          BY <5>1, <5>2
      <4>2. CASE j # 1
        <5> DEFINE k == j + n - 1
        <5>1. k \in 1..(i - 1) /\ k \in 1..Len(v) /\ k > n /\ k - n + 1 = j
          BY <1>1, <1>2, <2>2, <4>2 DEF a
        <5>2. v[k] = t[j]
          BY <1>4, <5>1
        <5> QED
          BY <3>5, <5>1, <5>2
      <4> QED
        BY <4>1, <4>2
    <3>6. \A j \in 1..(i - 1) : x \notin Removes(v[j])
      BY <1>1, <3>3, <3>4
    <3> QED
      BY <3>2, <3>5, <3>6
  <2> QED
    BY <1>1, <2>1, <2>2
<1>6. Caught(v)
  <2> SUFFICES ASSUME NEW i \in 1..Len(v), NEW j \in 1..Len(v), i < j, Risky(v[i]),
                      Provides(v[j]) # {}
               PROVE  \E k \in (i + 1)..(j - 1) : v[k].do \in Landings
    BY Zenon DEF Caught
  <2>1. CASE j <= n
    <3>1. i \in 1..n /\ j \in 1..n /\ v[i] = b[i] /\ v[j] = b[j]
      BY <1>1, <1>3, <2>1
    <3>2. PICK k \in (i + 1)..(j - 1) : b[k].do \in Landings
      BY <3>1, Zenon DEF Sound, Caught, n
    <3>3. k \in 1..Len(v) /\ k <= n
      BY <1>1, <2>1
    <3> QED
      BY <1>3, <3>2, <3>3
  <2>2. CASE i <= n /\ j > n
    <3>1. i \in 1..n /\ v[i] = b[i]
      BY <1>3, <2>2
    <3>2. CASE \E k \in (i + 1)..n : b[k].do \in Landings
      <4>1. PICK k \in (i + 1)..n : b[k].do \in Landings
        BY <3>2
      <4>2. k \in (i + 1)..(j - 1) /\ k \in 1..Len(v) /\ k <= n
        BY <1>1, <1>2, <2>2
      <4> QED
        BY <1>3, <4>1, <4>2
    <3>3. CASE Risky(t[1])
      <4> DEFINE d == j - n + 1
      <4>1. d \in 1..Len(t) /\ 1 < d /\ v[j] = t[d]
        BY <1>1, <1>4, <2>2
      <4> HIDE DEF d
      <4>2. PICK k \in (1 + 1)..(d - 1) : t[k].do \in Landings
        BY <1>1, <3>3, <4>1 DEF Sound, Caught
      <4>3. /\ k + n - 1 \in (i + 1)..(j - 1) /\ k + n - 1 \in 1..Len(v) /\ k + n - 1 > n
            /\ (k + n - 1) - n + 1 = k
        BY <1>1, <1>2, <2>2, <4>1 DEF d
      <4>4. v[k + n - 1] = t[k]
        BY <1>4, <4>3
      <4> QED
        BY <4>2, <4>3, <4>4
    <3> QED
      BY <1>1, <3>1, <3>2, <3>3 DEF n
  <2>3. CASE i > n
    <3> DEFINE c == i - n + 1
               d == j - n + 1
    <3>1. c \in 1..Len(t) /\ d \in 1..Len(t) /\ c < d /\ v[i] = t[c] /\ v[j] = t[d]
      BY <1>1, <1>4, <2>3
    <3> HIDE DEF c, d
    <3>2. PICK k \in (c + 1)..(d - 1) : t[k].do \in Landings
      BY <3>1, Zenon DEF Sound, Caught
    <3>3. /\ k + n - 1 \in (i + 1)..(j - 1) /\ k + n - 1 \in 1..Len(v) /\ k + n - 1 > n
          /\ (k + n - 1) - n + 1 = k
      BY <1>1, <1>2, <2>3, <3>1 DEF c, d
    <3>4. v[k + n - 1] = t[k]
      BY <1>4, <3>3, Zenon
    <3> QED
      BY <3>2, <3>3, <3>4
  <2> QED
    BY <1>1, <2>1, <2>2, <2>3
<1> QED
  BY <1>2, <1>5, <1>6 DEF Sound, v

\* One script after the other, of which the second provides no file.
LEMMA ConcatSound ==
    ASSUME NEW b, NEW c, NEW there, NEW both, Sound(b, there), Sound(c, both),
           \A i \in 1..Len(c) : Provides(c[i]) = {},
           \A i \in 1..Len(c) : \A x \in Needs(c[i]) :
               /\ x \in there \/ \E j \in 1..Len(b) : x \in Provides(b[j])
               /\ \A j \in 1..Len(b) : x \notin Removes(b[j])
    PROVE  Sound(b \o c, there)
<1> DEFINE v == b \o c
           n == Len(b)
<1>1. /\ b \in Seq(FileSteps) /\ n \in Nat /\ c \in Seq(FileSteps) /\ Len(c) \in Nat
  BY DEF Sound
<1>2. /\ v \in Seq(FileSteps) /\ Len(v) = n + Len(c)
      /\ \A i \in 1..Len(v) : v[i] = IF i <= n THEN b[i] ELSE c[i - n]
  BY <1>1, ConcatProperties
<1> HIDE DEF v, n
<1>3. \A i \in 1..Len(v) : i <= n => i \in 1..n /\ v[i] = b[i]
  BY <1>1, <1>2
<1>4. \A i \in 1..Len(v) : i > n => i - n \in 1..Len(c) /\ v[i] = c[i - n]
  BY <1>1, <1>2
<1>5. Provided(v, there)
  <2> SUFFICES ASSUME NEW i \in 1..Len(v), NEW x \in Needs(v[i])
               PROVE  /\ x \in there \/ \E j \in 1..(i - 1) : x \in Provides(v[j])
                      /\ \A j \in 1..(i - 1) : x \notin Removes(v[j])
    BY DEF Provided
  <2>1. CASE i <= n
    <3>1. /\ x \in there \/ \E j \in 1..(i - 1) : x \in Provides(b[j])
          /\ \A j \in 1..(i - 1) : x \notin Removes(b[j])
      BY <1>1, <1>3, <2>1 DEF Sound, Provided, n
    <3>2. \A j \in 1..(i - 1) : v[j] = b[j]
      BY <1>1, <1>2, <1>3, <2>1
    <3> QED
      BY <3>1, <3>2
  <2>2. CASE i > n
    <3> DEFINE a == i - n
    <3>1. a \in 1..Len(c) /\ v[i] = c[a] /\ x \in Needs(c[a])
      BY <1>1, <1>4, <2>2
    <3>2. ASSUME NEW j \in 1..(i - 1), j <= n PROVE x \notin Removes(v[j])
      <4>1. j \in 1..n /\ v[j] = b[j]
        BY <1>1, <1>2, <1>3, <3>2
      <4>2. x \notin Removes(b[j])
        BY <3>1, <4>1, Zenon DEF n
      <4> QED
        BY <4>1, <4>2
    <3> HIDE DEF a
    <3>3. \A j \in 1..(a - 1) : x \notin Removes(c[j])
      BY <3>1, Zenon DEF Sound, Provided
    <3>4. ASSUME NEW j \in 1..(i - 1), j > n PROVE x \notin Removes(v[j])
      <4>1. v[j] = c[j - n] /\ j - n \in 1..(a - 1)
        BY <1>1, <1>2, <1>4, <3>4 DEF a
      <4> QED
        BY <3>3, <4>1
    <3>5. ASSUME NEW j \in 1..n, x \in Provides(b[j])
          PROVE  \E k \in 1..(i - 1) : x \in Provides(v[k])
      <4>1. j \in 1..(i - 1) /\ j \in 1..Len(v) /\ v[j] = b[j]
        BY <1>1, <1>2, <1>3, <2>2
      <4> QED
        BY <3>5, <4>1
    <3>6. \A j \in 1..(i - 1) : x \notin Removes(v[j])
      BY <1>1, <3>2, <3>4
    <3> QED
      BY <3>1, <3>5, <3>6 DEF n
  <2> QED
    BY <1>1, <2>1, <2>2
<1>6. Caught(v)
  <2> SUFFICES ASSUME NEW i \in 1..Len(v), NEW j \in 1..Len(v), i < j, Risky(v[i]),
                      Provides(v[j]) # {}
               PROVE  \E k \in (i + 1)..(j - 1) : v[k].do \in Landings
    BY Zenon DEF Caught
  <2>1. j <= n
    <3>1. j > n => j - n \in 1..Len(c) /\ v[j] = c[j - n]
      BY <1>4
    <3>2. j > n => Provides(v[j]) = {}
      BY <3>1, Zenon
    <3> QED
      BY <1>1, <1>2, <3>2
  <2>2. i \in 1..n /\ j \in 1..n /\ v[i] = b[i] /\ v[j] = b[j]
    BY <1>1, <1>3, <2>1
  <2>3. PICK k \in (i + 1)..(j - 1) : b[k].do \in Landings
    BY <2>2, Zenon DEF Sound, Caught, n
  <2>4. k \in 1..Len(v) /\ k <= n
    BY <1>1, <2>1
  <2> QED
    BY <1>3, <2>3, <2>4
<1> QED
  BY <1>2, <1>5, <1>6 DEF Sound, v

\* What a step is made of.
LEMMA FlagsAre ==
    O_RDONLY \in Flags /\ O_CREAT \in Flags /\ O_TRUNC \in Flags /\ O_EXCL \in Flags
<1>1. O_RDONLY \in Flags
  BY DEF O_RDONLY, Flags
<1>2. O_CREAT \in Flags
  BY <1>1, Zenon DEF O_CREAT, Flags
<1>3. O_TRUNC \in Flags /\ O_EXCL \in Flags
  BY <1>2, Zenon DEF O_TRUNC, O_EXCL, Flags
<1> QED
  BY <1>1, <1>2, <1>3

\* A step with the flags of no open.
LEMMA StepIs ==
    ASSUME NEW do, NEW p \in Paths
    PROVE  /\ do \in Deeds => Step(do, p) \in FileSteps
           /\ Step(do, p).do = do /\ Step(do, p).at = p
BY FlagsAre DEF Step, FileSteps

\* A step with flags.
LEMMA StepWithIs ==
    ASSUME NEW do, NEW p \in Paths, NEW flags \in Flags
    PROVE  /\ do \in Deeds => StepWith(do, p, flags) \in FileSteps
           /\ StepWith(do, p, flags).do = do /\ StepWith(do, p, flags).at = p
           /\ StepWith(do, p, flags).flags = flags
BY FlagsAre DEF Step, StepWith, FileSteps

\* A step from one path to another.
LEMMA StepToIs ==
    ASSUME NEW do, NEW p \in Paths, NEW q \in Paths
    PROVE  /\ do \in Deeds => StepTo(do, p, q) \in FileSteps
           /\ StepTo(do, p, q).do = do /\ StepTo(do, p, q).at = p /\ StepTo(do, p, q).to = q
BY FlagsAre DEF Step, StepTo, FileSteps

\* A script that provides no file and takes none away.
Quiet(t) == \A i \in 1..Len(t) : Provides(t[i]) = {} /\ Removes(t[i]) = {}

\* Nothing to do.
LEMMA EmptySound == ASSUME NEW there PROVE Sound(<<>>, there) /\ Quiet(<<>>)
BY DEF Sound, Provided, Caught, Quiet

\* A backup needs its primary.
LEMMA BackupSound ==
    ASSUME NEW p \in Paths, NEW there, p \in there
    PROVE  Sound(BackupFileToStorage(p), there) /\ Quiet(BackupFileToStorage(p))
<1> DEFINE t == BackupFileToStorage(p)
<1>1. /\ Step("copy_to_backup", p) \in FileSteps /\ Step("sync_copy_name", p) \in FileSteps
      /\ Step("label", p) \in FileSteps /\ Step("label_backup", p) \in FileSteps
      /\ Step("sync_backup", p) \in FileSteps
  BY StepIs DEF Deeds
<1>2. t \in Seq(FileSteps)
  BY <1>1 DEF BackupFileToStorage
<1>3. Len(t) = 5
  BY <1>1 DEF BackupFileToStorage
<1>4. \A i \in 1..5 : Provides(t[i]) = {} /\ Removes(t[i]) = {} /\ Needs(t[i]) \subseteq {p}
  BY StepIs DEF Provides, Removes, Needs, BackupFileToStorage
<1> QED
  BY <1>2, <1>3, <1>4 DEF Sound, Provided, Caught, Quiet

\* So does its refresh.
LEMMA RefreshSound ==
    ASSUME NEW p \in Paths, NEW there, p \in there
    PROVE  Sound(RefreshBackupIfNeeded(p), there) /\ Quiet(RefreshBackupIfNeeded(p))
BY BackupSound, EmptySound DEF RefreshBackupIfNeeded

\* Deleting a backup needs nothing.
LEMMA DeleteBackupSound ==
    ASSUME NEW p \in Paths, NEW there
    PROVE  Sound(DeleteBackup(p), there) /\ Quiet(DeleteBackup(p))
<1> DEFINE t == DeleteBackup(p)
<1>1. Step("unlink_backup", p) \in FileSteps /\ Step("sync_unlink_backup", p) \in FileSteps
  BY StepIs DEF Deeds
<1>2. t \in Seq(FileSteps) /\ Len(t) = 2
  BY <1>1 DEF DeleteBackup
<1>3. \A i \in 1..2 : Provides(t[i]) = {} /\ Removes(t[i]) = {} /\ Needs(t[i]) = {}
  BY StepIs DEF Provides, Removes, Needs, DeleteBackup
<1> QED
  BY <1>2, <1>3 DEF Sound, Provided, Caught, Quiet

\* What a close does needs the file.
LEMMA LabellingSound ==
    ASSUME NEW p \in Paths, NEW there, p \in there
    PROVE  Sound(Labelling(p), there) /\ Quiet(Labelling(p))
<1> DEFINE t == Labelling(p)
<1>1. /\ Step("checksum", p) \in FileSteps /\ Step("sync", p) \in FileSteps
      /\ Step("refresh", p) \in FileSteps
  BY StepIs DEF Deeds
<1>2. t \in Seq(FileSteps) /\ Len(t) = 3
  BY <1>1 DEF Labelling
<1>3. \A i \in 1..3 : Provides(t[i]) = {} /\ Removes(t[i]) = {} /\ Needs(t[i]) \subseteq {p}
  BY StepIs DEF Provides, Removes, Needs, Labelling
<1> QED
  BY <1>2, <1>3 DEF Sound, Provided, Caught, Quiet

\* A landing, or a look at what there is.
LEMMA OneSound ==
    ASSUME NEW p \in Paths, NEW there, NEW do \in (Landings \ {"filled"}) \cup {"match"}
    PROVE  Sound(<<Step(do, p)>>, there) /\ Quiet(<<Step(do, p)>>)
<1> DEFINE t == <<Step(do, p)>>
<1>1. t \in Seq(FileSteps) /\ Len(t) = 1
  BY StepIs DEF Deeds
<1>2. \A i \in 1..1 : Provides(t[i]) = {} /\ Removes(t[i]) = {} /\ Needs(t[i]) = {}
  BY StepIs DEF Provides, Removes, Needs, Landings
<1> QED
  BY <1>1, <1>2 DEF Sound, Provided, Caught, Quiet

\* Quiet scripts one after the other.
LEMMA QuietConcat ==
    ASSUME NEW b, NEW c, NEW there, Sound(b, there), Sound(c, there), Quiet(b), Quiet(c),
           \A i \in 1..Len(c) : Needs(c[i]) \subseteq there
    PROVE  Sound(b \o c, there) /\ Quiet(b \o c)
<1>1. Sound(b \o c, there)
  BY ConcatSound, Zenon DEF Quiet
<1>2. /\ b \in Seq(FileSteps) /\ c \in Seq(FileSteps) /\ Len(b) \in Nat /\ Len(c) \in Nat
      /\ Len(b \o c) = Len(b) + Len(c)
      /\ \A i \in 1..(Len(b) + Len(c)) :
             (b \o c)[i] = IF i <= Len(b) THEN b[i] ELSE c[i - Len(b)]
  BY ConcatProperties DEF Sound
<1>3. ASSUME NEW i \in 1..Len(b \o c)
      PROVE  Provides((b \o c)[i]) = {} /\ Removes((b \o c)[i]) = {}
  <2>0. i \in 1..(Len(b) + Len(c)) /\ i \in Int /\ Len(b) \in Int
    BY <1>2
  <2>1. CASE i <= Len(b)
    <3>1. i \in 1..Len(b) /\ (b \o c)[i] = b[i]
      BY <1>2, <2>0, <2>1
    <3> QED
      BY <3>1, Zenon DEF Quiet
  <2>2. CASE i > Len(b)
    <3>1. i - Len(b) \in 1..Len(c) /\ (b \o c)[i] = c[i - Len(b)]
      BY <1>2, <2>0, <2>2
    <3> QED
      BY <3>1, Zenon DEF Quiet
  <2> QED
    BY <2>0, <2>1, <2>2
<1> QED
  BY <1>1, <1>3, Zenon DEF Quiet

\* A close of a file that has a path.
LEMMA ClosingSound ==
    ASSUME NEW p \in Paths, NEW there, p \in there
    PROVE  Sound(Closing(p), there) /\ Quiet(Closing(p))
<1>1. Len(<<Step("closed", p)>>) = 1 /\ Needs(<<Step("closed", p)>>[1]) = {}
  BY StepIs DEF Needs
<1> QED
  <2> DEFINE b == Labelling(p)
             c == <<Step("closed", p)>>
  <2>1. Sound(b, there) /\ Quiet(b)
    BY LabellingSound
  <2>2. Sound(c, there) /\ Quiet(c)
    BY OneSound DEF Landings
  <2>3. \A i \in 1..Len(c) : Needs(c[i]) \subseteq there
    BY <1>1
  <2> HIDE DEF b, c
  <2>4. Sound(b \o c, there) /\ Quiet(b \o c)
    BY <2>1, <2>2, <2>3, QuietConcat
  <2> QED
    BY <2>4 DEF Closing, b, c

\* A deletion needs nothing, and is the only script that takes a file away for good.
LEMMA DeletingSound ==
    ASSUME NEW p \in Paths, NEW there
    PROVE  /\ Sound(Deleting(p), there)
           /\ \A i \in 1..Len(Deleting(p)) :
                  Provides(Deleting(p)[i]) = {} /\ Needs(Deleting(p)[i]) = {}
<1> DEFINE t == Deleting(p)
<1>1. /\ Step("unlink", p) \in FileSteps /\ Step("sync_unlink", p) \in FileSteps
      /\ Step("unlink_backup", p) \in FileSteps /\ Step("sync_unlink_backup", p) \in FileSteps
      /\ Step("deleted", p) \in FileSteps
  BY StepIs DEF Deeds, Landings
<1>2. t \in Seq(FileSteps) /\ Len(t) = 5
  BY <1>1 DEF Deleting, DeleteBackup
<1>3. \A i \in 1..5 : Provides(t[i]) = {} /\ Needs(t[i]) = {}
  BY StepIs DEF Provides, Needs, Deleting, DeleteBackup
<1> QED
  BY <1>2, <1>3 DEF Sound, Provided, Caught

\* What an open puts in its place: steps that may fail, a landing, and open() itself.
Opens(b, p, there) ==
    /\ Sound(b, there)
    /\ \A i \in 1..Len(b) : Removes(b[i]) = {}
    /\ \E i \in 1..Len(b) : p \in Provides(b[i])
    /\ \A i \in 1..Len(b) : Risky(b[i]) => \E k \in (i + 1)..Len(b) : b[k].do \in Landings

\* A quiet script, a landing and open().
LEMMA OpenAfter ==
    ASSUME NEW b, NEW p \in Paths, NEW there, NEW land \in FileSteps, NEW open \in FileSteps,
           Sound(b, there), Quiet(b), land.do \in Landings \ {"filled", "moved"},
           open.do = "open", open.at = p
    PROVE  Opens(b \o <<land, open>>, p, there)
<1> DEFINE v == b \o <<land, open>>
           n == Len(b)
<1>1. b \in Seq(FileSteps) /\ n \in Nat /\ <<land, open>> \in Seq(FileSteps)
  BY DEF Sound
<1>2. /\ v \in Seq(FileSteps) /\ Len(v) = n + 2
      /\ \A i \in 1..(n + 2) : v[i] = IF i <= n THEN b[i] ELSE <<land, open>>[i - n]
  BY <1>1, ConcatProperties
<1>3. \A i \in 1..n : v[i] = b[i]
  BY <1>1, <1>2
<1>4. v[n + 1] = land /\ v[n + 2] = open
  <2>1. n + 1 \in 1..(n + 2) /\ n + 2 \in 1..(n + 2) /\ ~(n + 1 <= n) /\ ~(n + 2 <= n)
        /\ (n + 1) - n = 1 /\ (n + 2) - n = 2
    BY <1>1
  <2>2. v[n + 1] = <<land, open>>[(n + 1) - n] /\ v[n + 2] = <<land, open>>[(n + 2) - n]
    BY <1>2, <2>1
  <2> QED
    BY <2>1, <2>2
<1> HIDE DEF v, n
<1>5. \A i \in 1..Len(v) : i \in 1..n \/ i = n + 1 \/ i = n + 2
  BY <1>1, <1>2
<1>6. /\ Provides(land) = {} /\ Removes(land) = {} /\ Needs(land) = {} /\ ~Risky(land)
      /\ Provides(open) = {p} /\ Removes(open) = {} /\ Needs(open) = {} /\ ~Risky(open)
  BY DEF Provides, Removes, Needs, Risky, Landings
<1>7. \A i \in 1..n : Provides(v[i]) = {} /\ Removes(v[i]) = {}
  BY <1>3, Zenon DEF Quiet, n
<1>8. Provided(v, there)
  <2> SUFFICES ASSUME NEW i \in 1..Len(v), NEW x \in Needs(v[i])
               PROVE  /\ x \in there \/ \E j \in 1..(i - 1) : x \in Provides(v[j])
                      /\ \A j \in 1..(i - 1) : x \notin Removes(v[j])
    BY Zenon DEF Provided
  <2>1. i \in 1..n
    BY <1>4, <1>5, <1>6
  <2>2. /\ x \in there \/ \E j \in 1..(i - 1) : x \in Provides(b[j])
        /\ \A j \in 1..(i - 1) : x \notin Removes(b[j])
    BY <1>1, <1>3, <2>1 DEF Sound, Provided, n
  <2>3. \A j \in 1..(i - 1) : v[j] = b[j]
    BY <1>1, <1>3, <2>1
  <2> QED
    BY <2>2, <2>3
<1>9. ASSUME NEW i \in 1..Len(v), Risky(v[i]) PROVE i \in 1..n
  BY <1>4, <1>5, <1>6, <1>9
<1>10. Caught(v)
  <2> SUFFICES ASSUME NEW i \in 1..Len(v), NEW j \in 1..Len(v), i < j, Risky(v[i]),
                      Provides(v[j]) # {}
               PROVE  \E k \in (i + 1)..(j - 1) : v[k].do \in Landings
    BY Zenon DEF Caught
  <2>1. i \in 1..n
    BY <1>9
  <2>2. j = n + 2
    BY <1>4, <1>5, <1>6, <1>7, Zenon
  <2>3. n + 1 \in (i + 1)..(j - 1)
    BY <1>1, <2>1, <2>2
  <2> QED
    BY <1>4, <2>3
<1>11. \A i \in 1..Len(v) : Removes(v[i]) = {}
  BY <1>4, <1>5, <1>6, <1>7, Zenon
<1>12. \E i \in 1..Len(v) : p \in Provides(v[i])
  <2>1. n + 2 \in 1..Len(v)
    BY <1>1, <1>2
  <2> QED
    BY <1>4, <1>6, <2>1
<1>13. \A i \in 1..Len(v) : Risky(v[i]) => \E k \in (i + 1)..Len(v) : v[k].do \in Landings
  <2> SUFFICES ASSUME NEW i \in 1..Len(v), Risky(v[i])
               PROVE  \E k \in (i + 1)..Len(v) : v[k].do \in Landings
    OBVIOUS
  <2>1. i \in 1..n
    BY <1>9
  <2>2. n + 1 \in (i + 1)..Len(v)
    BY <1>1, <1>2, <2>1
  <2> QED
    BY <1>4, <2>2
<1> QED
  BY <1>2, <1>8, <1>10, <1>11, <1>12, <1>13, Zenon DEF Sound, Opens, v

\* Restoring needs no primary: it makes one, or fails.
LEMMA RestoreOpens ==
    ASSUME NEW p \in Paths, NEW flags \in Flags, NEW optional, NEW there
    PROVE  Opens(Restore(p, flags, optional), p, there)
<1> DEFINE b == ReplaceFileWithBackup(p)
<1>1. /\ Step("copy_to_primary", p) \in FileSteps
      /\ Step("sync_restored_name", p) \in FileSteps /\ Step("label_restored", p) \in FileSteps
      /\ Step("sync_restored", p) \in FileSteps /\ Step("sync_name_again", p) \in FileSteps
  BY StepIs DEF Deeds
<1>2. b \in Seq(FileSteps) /\ Len(b) = 5
  BY <1>1 DEF ReplaceFileWithBackup
<1>3. \A i \in 1..5 : Provides(b[i]) = {} /\ Removes(b[i]) = {} /\ Needs(b[i]) = {}
  BY StepIs DEF Provides, Removes, Needs, ReplaceFileWithBackup
<1>4. Sound(b, there) /\ Quiet(b)
  BY <1>2, <1>3 DEF Sound, Provided, Caught, Quiet
<1> DEFINE do == IF optional THEN "restored" ELSE "tracked"
           land == StepWith(do, p, flags)
           open == StepWith("open", p, flags)
<1>5. do \in Landings \ {"filled", "moved"} /\ do \in Deeds /\ "open" \in Deeds
  BY DEF Landings, Deeds
<1> HIDE DEF do
<1>6. land \in FileSteps /\ land.do = do /\ open \in FileSteps /\ open.do = "open" /\ open.at = p
  BY <1>5, StepWithIs
<1> HIDE DEF b, land, open
<1>7. Opens(b \o <<land, open>>, p, there)
  BY <1>4, <1>5, <1>6, OpenAfter
<1> QED
  BY <1>7 DEF Restore, b, land, open, do

There == {p \in Paths : Exists(Primary(p))}

\* Whatever open finds: a backup is made only of a primary that is there.
LEMMA OpeningOpens ==
    ASSUME NEW p \in Paths, NEW flags \in Flags
    PROVE  Opens(Opening(p, flags), p, There)
<1> DEFINE open == StepWith("open", p, flags)
<1>1. open \in FileSteps /\ open.do = "open" /\ open.at = p
  <2>1. "open" \in Deeds
    BY DEF Deeds
  <2> QED
    BY <2>1, StepWithIs
<1>2. ASSUME NEW do \in {"refreshed", "tracked"}
      PROVE  Step(do, p) \in FileSteps /\ Step(do, p).do \in Landings \ {"filled", "moved"}
  <2>1. do \in Deeds /\ do \in Landings \ {"filled", "moved"}
    BY DEF Deeds, Landings
  <2> QED
    BY <2>1, StepIs
<1> HIDE DEF open
<1>3. CASE Opening(p, flags) = <<open>>
  <2> DEFINE b == <<open>>
  <2>1. b \in Seq(FileSteps) /\ Len(b) = 1 /\ \A i \in 1..1 : b[i] = open
    BY <1>1
  <2>2. Needs(open) = {} /\ Removes(open) = {} /\ Provides(open) = {p} /\ ~Risky(open)
    BY <1>1 DEF Needs, Removes, Provides, Risky
  <2> HIDE DEF b
  <2>3. Sound(b, There)
    BY <2>1, <2>2 DEF Sound, Provided, Caught
  <2>4. Opens(b, p, There)
    BY <2>1, <2>2, <2>3 DEF Opens
  <2> QED
    BY <1>3, <2>4 DEF b
<1>4. CASE \E optional : Opening(p, flags) = Restore(p, flags, optional)
  BY <1>4, RestoreOpens
<1>5. CASE /\ p \in There
           /\ Opening(p, flags) = RefreshBackupIfNeeded(p) \o <<Step("refreshed", p), open>>
  <2>1. Opens(RefreshBackupIfNeeded(p) \o <<Step("refreshed", p), open>>, p, There)
    BY <1>1, <1>2, <1>5, RefreshSound, OpenAfter
  <2> QED
    BY <1>5, <2>1
<1>6. CASE /\ p \in There
           /\ Opening(p, flags) = BackupFileToStorage(p) \o <<Step("tracked", p), open>>
  <2>1. Opens(BackupFileToStorage(p) \o <<Step("tracked", p), open>>, p, There)
    BY <1>1, <1>2, <1>6, BackupSound, OpenAfter
  <2> QED
    BY <1>6, <2>1
<1> QED
  BY <1>3, <1>4, <1>5, <1>6, Zenon DEF Opening, There, open

\* A copy fills its target from a source that open() has found.
LEMMA CopyingSound ==
    ASSUME NEW p \in Paths, NEW q \in Paths, NEW there
    PROVE  Sound(Copying(p, q), there)
<1> DEFINE t == Copying(p, q)
<1>1. /\ StepWith("enter", p, O_RDONLY) \in FileSteps
      /\ StepWith("enter", q, O_TRUNC) \in FileSteps
      /\ StepTo("fill", q, p) \in FileSteps
  <2>1. "enter" \in Deeds /\ "fill" \in Deeds
    BY DEF Deeds
  <2>2. StepTo("fill", q, p) \in FileSteps
    BY <2>1, StepToIs
  <2>3. /\ StepWith("enter", p, O_RDONLY) \in FileSteps
        /\ StepWith("enter", q, O_TRUNC) \in FileSteps
    BY <2>1, StepWithIs, FlagsAre
  <2> QED
    BY <2>2, <2>3
<1>2. /\ Step("fill_in_part", q) \in FileSteps /\ Step("copy_context", q) \in FileSteps
      /\ Step("filled", q) \in FileSteps /\ Step("checksum", q) \in FileSteps
      /\ Step("sync", q) \in FileSteps /\ Step("refresh", q) \in FileSteps
      /\ Step("closed", q) \in FileSteps /\ Step("match", q) \in FileSteps
  BY StepIs DEF Deeds, Landings
<1>3. t \in Seq(FileSteps) /\ Len(t) = 11
  BY <1>1, <1>2 DEF Copying, Closing, Labelling
<1>4. /\ t[1] = StepWith("enter", p, O_RDONLY) /\ t[2] = StepWith("enter", q, O_TRUNC)
      /\ t[3] = Step("fill_in_part", q) /\ t[4] = StepTo("fill", q, p)
      /\ t[5] = Step("copy_context", q) /\ t[6] = Step("filled", q)
      /\ t[7] = Step("checksum", q) /\ t[8] = Step("sync", q) /\ t[9] = Step("refresh", q)
      /\ t[10] = Step("closed", q) /\ t[11] = Step("match", q)
  BY DEF Copying, Closing, Labelling
<1> HIDE DEF t
<1>5. /\ t[1].do = "enter" /\ t[1].at = p /\ t[2].do = "enter" /\ t[2].at = q
      /\ t[3].do = "fill_in_part" /\ t[4].do = "fill" /\ t[4].to = p
      /\ t[5].do = "copy_context" /\ t[6].do = "filled" /\ t[6].at = q
      /\ t[7].do = "checksum" /\ t[8].do = "sync" /\ t[9].do = "refresh" /\ t[9].at = q
      /\ t[10].do = "closed" /\ t[11].do = "match"
  <2>1. t[1].do = "enter" /\ t[1].at = p /\ t[2].do = "enter" /\ t[2].at = q
    <3>1. /\ StepWith("enter", p, O_RDONLY).do = "enter" /\ StepWith("enter", p, O_RDONLY).at = p
          /\ StepWith("enter", q, O_TRUNC).do = "enter" /\ StepWith("enter", q, O_TRUNC).at = q
      BY StepWithIs, FlagsAre
    <3> QED
      BY <1>4, <3>1
  <2>2. t[4].do = "fill" /\ t[4].to = p
    <3>1. StepTo("fill", q, p).do = "fill" /\ StepTo("fill", q, p).to = p
      BY DEF StepTo, Step
    <3> QED
      BY <1>4, <3>1
  <2>3. /\ t[3].do = "fill_in_part" /\ t[5].do = "copy_context"
        /\ t[6].do = "filled" /\ t[6].at = q
    BY <1>4, StepIs
  <2>4. t[7].do = "checksum" /\ t[8].do = "sync" /\ t[9].do = "refresh" /\ t[9].at = q
    BY <1>4, StepIs
  <2>5. t[10].do = "closed" /\ t[11].do = "match"
    BY <1>4, StepIs
  <2> QED
    BY <2>1, <2>2, <2>3, <2>4, <2>5
<1>6. /\ p \in Provides(t[1]) /\ q \in Provides(t[2])
      /\ \A i \in 1..11 : Removes(t[i]) = {}
      /\ \A i \in 3..11 : Provides(t[i]) = {}
      /\ \A i \in 1..11 : Needs(t[i]) # {} => i \in 4..9
      /\ \A i \in 1..11 : Needs(t[i]) \subseteq {p, q}
      /\ ~Risky(t[1])
  BY <1>5 DEF Provides, Removes, Needs, Risky
<1>7. Provided(t, there)
  BY <1>3, <1>6 DEF Provided
<1>8. Caught(t)
  BY <1>3, <1>6 DEF Caught
<1> QED
  BY <1>3, <1>6, <1>7, <1>8 DEF Sound, t

\* A rename backs up the file where it moved it, not where it was.
LEMMA RenamingSound ==
    ASSUME NEW p \in Paths, NEW q \in Paths, NEW there, p # q
    PROVE  Sound(Renaming(p, q), there)
<1> DEFINE t == Renaming(p, q)
<1>1. /\ StepTo("move", p, q) \in FileSteps /\ StepTo("moved", p, q) \in FileSteps
      /\ StepTo("renamed", p, q) \in FileSteps
  BY StepToIs DEF Deeds, Landings
<1>2. /\ Step("sync_move", q) \in FileSteps /\ Step("after_move", q) \in FileSteps /\ Step("after_unlink", q) \in FileSteps
      /\ Step("unlink_backup", p) \in FileSteps /\ Step("sync_unlink_backup", p) \in FileSteps
      /\ Step("checksum_moved", q) \in FileSteps
      /\ Step("copy_to_backup", q) \in FileSteps /\ Step("sync_copy_name", q) \in FileSteps
      /\ Step("label", q) \in FileSteps /\ Step("label_backup", q) \in FileSteps
      /\ Step("sync_backup", q) \in FileSteps
  BY StepIs DEF Deeds, Landings
<1>3. t \in Seq(FileSteps) /\ Len(t) = 14
  BY <1>1, <1>2 DEF Renaming, DeleteBackup, BackupFileToStorage
<1>4. /\ t[1] = StepTo("move", p, q) /\ t[2] = Step("sync_move", q) /\ t[3] = Step("after_move", q)
      /\ t[4] = Step("unlink_backup", p) /\ t[5] = Step("sync_unlink_backup", p)
      /\ t[6] = Step("after_unlink", q) /\ t[7] = Step("checksum_moved", q)
      /\ t[8] = Step("copy_to_backup", q) /\ t[9] = Step("sync_copy_name", q)
      /\ t[10] = Step("label", q) /\ t[11] = Step("label_backup", q)
      /\ t[12] = Step("sync_backup", q)
      /\ t[13] = StepTo("moved", p, q) /\ t[14] = StepTo("renamed", p, q)
  BY DEF Renaming, DeleteBackup, BackupFileToStorage
<1> HIDE DEF t
<1>5. /\ t[1].do = "move" /\ t[1].at = p /\ t[1].to = q /\ t[2].do = "sync_move"
      /\ t[3].do = "after_move" /\ t[4].do = "unlink_backup" /\ t[5].do = "sync_unlink_backup"
      /\ t[6].do = "after_unlink" /\ t[7].do = "checksum_moved" /\ t[8].do = "copy_to_backup" /\ t[8].at = q
      /\ t[9].do = "sync_copy_name" /\ t[10].do = "label" /\ t[11].do = "label_backup"
      /\ t[12].do = "sync_backup" /\ t[13].do = "moved" /\ t[14].do = "renamed"
  <2>1. t[1].do = "move" /\ t[1].at = p /\ t[1].to = q
    <3>1. /\ StepTo("move", p, q).do = "move" /\ StepTo("move", p, q).at = p
          /\ StepTo("move", p, q).to = q
      BY DEF StepTo, Step
    <3> QED
      BY <1>4, <3>1
  <2>2. t[13].do = "moved" /\ t[14].do = "renamed"
    <3>1. StepTo("moved", p, q).do = "moved" /\ StepTo("renamed", p, q).do = "renamed"
      BY DEF StepTo, Step
    <3> QED
      BY <1>4, <3>1
  <2>3. /\ t[2].do = "sync_move" /\ t[3].do = "after_move" /\ t[4].do = "unlink_backup"
        /\ t[5].do = "sync_unlink_backup" /\ t[6].do = "after_unlink"
    BY <1>4, StepIs
  <2>4. t[7].do = "checksum_moved" /\ t[8].do = "copy_to_backup" /\ t[8].at = q
    BY <1>4, StepIs
  <2>5. /\ t[9].do = "sync_copy_name" /\ t[10].do = "label" /\ t[11].do = "label_backup"
        /\ t[12].do = "sync_backup"
    BY <1>4, StepIs
  <2> QED
    BY <2>1, <2>2, <2>3, <2>4, <2>5
<1>6. /\ q \in Provides(t[1]) /\ Removes(t[1]) = {p}
      /\ \A i \in 2..14 : Provides(t[i]) = {} /\ Removes(t[i]) = {}
      /\ \A i \in 1..14 : Needs(t[i]) # {} => i = 8
      /\ Needs(t[8]) = {q}
  BY <1>5 DEF Provides, Removes, Needs
<1>7. Provided(t, there)
  BY <1>3, <1>6 DEF Provided
<1>8. Caught(t)
  BY <1>3, <1>6 DEF Caught
<1> QED
  BY <1>3, <1>7, <1>8 DEF Sound, t

\* A rename across file systems deletes the source last.
LEMMA RenamingByCopySound ==
    ASSUME NEW p \in Paths, NEW q \in Paths, NEW there
    PROVE  Sound(RenamingByCopy(p, q), there)
<1> DEFINE b == Copying(p, q)
           c == <<Step("match", q), StepTo("leave", p, q)>>
           d == Deleting(p)
<1>1. Sound(b, there)
  BY CopyingSound
<1>2. /\ c \in Seq(FileSteps) /\ Len(c) = 2 /\ c[1] = Step("match", q)
      /\ c[2] = StepTo("leave", p, q)
  <2> "match" \in Deeds /\ "leave" \in Deeds
    BY DEF Deeds
  <2>1. Step("match", q) \in FileSteps
    BY StepIs
  <2>2. StepTo("leave", p, q) \in FileSteps
    BY StepToIs
  <2> QED
    BY <2>1, <2>2
<1>3. \A i \in 1..Len(c) : Provides(c[i]) = {} /\ Needs(c[i]) = {}
  <2>1. c[1].do = "match"
    BY <1>2, StepIs
  <2>2. c[2].do = "leave"
    BY <1>2, StepToIs
  <2> HIDE DEF c
  <2> QED
    BY <1>2, <2>1, <2>2 DEF Provides, Needs
<1>4. Sound(c, there)
  BY <1>2, <1>3 DEF Sound, Provided, Caught
<1>5. Sound(d, there) /\ \A i \in 1..Len(d) : Provides(d[i]) = {} /\ Needs(d[i]) = {}
  BY DeletingSound, Zenon
<1> HIDE DEF b, c, d
<1>6. Sound(b \o c, there)
  BY <1>1, <1>3, <1>4, ConcatSound, Zenon
<1>7. Sound((b \o c) \o d, there)
  BY <1>5, <1>6, ConcatSound, Zenon
<1> QED
  BY <1>7 DEF RenamingByCopy, b, c, d

\* A copy that failed.
LEMMA DiscardingSound ==
    ASSUME NEW p \in Paths, NEW there, p \in there
    PROVE  Sound(Labelling(p) \o <<Step("discarded", p)>> \o Deleting(p), there)
<1> DEFINE b == Labelling(p)
           c == <<Step("discarded", p)>>
           d == Deleting(p)
<1>1. Sound(b, there) /\ Quiet(b)
  BY LabellingSound
<1>2. Sound(c, there) /\ Quiet(c)
  BY OneSound DEF Landings
<1>3. Len(c) = 1 /\ Needs(c[1]) = {}
  BY StepIs DEF Needs
<1>4. Sound(d, there) /\ \A i \in 1..Len(d) : Provides(d[i]) = {} /\ Needs(d[i]) = {}
  BY DeletingSound, Zenon
<1> HIDE DEF b, c, d
<1>5. \A i \in 1..Len(c) : Needs(c[i]) \subseteq there
  BY <1>3
<1>6. Sound(b \o c, there)
  BY <1>1, <1>2, <1>5, QuietConcat
<1>7. Sound((b \o c) \o d, there)
  BY <1>4, <1>6, ConcatSound, Zenon
<1> QED
  BY <1>7 DEF b, c, d

\* A call of open() begins with one step.
LEMMA EnteringSound ==
    ASSUME NEW p \in Paths, NEW flags \in Flags, NEW there
    PROVE  Sound(<<StepWith("enter", p, flags)>>, there)
<1> DEFINE t == <<StepWith("enter", p, flags)>>
<1>1. StepWith("enter", p, flags) \in FileSteps /\ StepWith("enter", p, flags).do = "enter"
  <2> "enter" \in Deeds
    BY DEF Deeds
  <2> QED
    BY StepWithIs
<1>2. t \in Seq(FileSteps) /\ Len(t) = 1 /\ Needs(t[1]) = {}
  BY <1>1 DEF Needs
<1> HIDE DEF t
<1>3. Sound(t, there)
  BY <1>2 DEF Sound, Provided, Caught
<1> QED
  BY <1>3 DEF t

DiskTypeOK ==
    /\ names \in [Names -> Ids] /\ namesLeft \subseteq [Names -> Ids] /\ names \in namesLeft
    /\ inodes \in Seq(File \cup {NoFile}) /\ inodesLeft \in Seq(SUBSET (File \cup {NoFile}))
    /\ Len(inodesLeft) = Len(inodes)
    /\ \A i \in 1..Len(inodes) : inodes[i] \in inodesLeft[i]

\* A name leads to a file, also after a crash.
Rooted == \A n \in Names : Exists(n) => inodesLeft[names[n]] \subseteq File
Disk == DiskTypeOK /\ Rooted

Data == Whole \cup {"part", "rot"}

\* The two names of a path.
LEMMA NamesAre ==
    ASSUME NEW p \in Paths
    PROVE  /\ Primary(p) \in Names /\ Backup(p) \in Names
           /\ \A q \in Paths : Primary(p) # Backup(q) /\ (Primary(p) = Primary(q) => p = q)
BY DEF Primary, Backup, Names

\* The file a name leads to.
LEMMA AtIs ==
    ASSUME Disk, NEW n \in Names
    PROVE  /\ names[n] \in Nat
           /\ Exists(n) => /\ names[n] \in 1..Len(inodes) /\ At(n) = inodes[names[n]]
                           /\ At(n) \in File /\ inodesLeft[names[n]] \subseteq File
           /\ ~Exists(n) => names[n] = 0 /\ At(n) = NoFile
<1>1. names[n] \in Ids /\ Len(inodes) \in Nat
  BY DEF Disk, DiskTypeOK
<1>2. Exists(n) => names[n] \in 1..Len(inodes)
  BY <1>1 DEF Exists, Ids
<1>3. Exists(n) => inodesLeft[names[n]] \subseteq File
  BY DEF Disk, Rooted
<1>4. Exists(n) => inodes[names[n]] \in inodesLeft[names[n]]
  BY <1>2 DEF Disk, DiskTypeOK
<1> QED
  BY <1>1, <1>2, <1>3, <1>4 DEF Exists, At, Ids

\* What makes a file.
LEMMA FileIs ==
    /\ \A d \in Data : [data |-> d, label |-> "none"] \in File
    /\ \A d \in Data : [data |-> d, label |-> d] \in File
    /\ \A f \in File : f.data \in Data /\ f.label \in Data \cup {"none"}
    /\ \A f \in File, d \in Data : [f EXCEPT !.data = d] \in File
BY DEF File, Data

\* A file whose content or label changes, with all a crash may leave of it.
LEMMA BecomesDisk ==
    ASSUME Disk, NEW n \in Names, NEW f, Exists(n) => f \in File, Becomes(names[n], f)
    PROVE  Disk' /\ names' = names
<1>0. names' = names /\ namesLeft' = namesLeft
  BY DEF Becomes
<1> DEFINE i == names[n]
<1>1. CASE ~Exists(n)
  <2>1. i = 0 /\ 0 \notin DOMAIN inodes /\ 0 \notin DOMAIN inodesLeft
    BY <1>1, AtIs DEF Disk, DiskTypeOK
  <2>2. inodes' = inodes /\ inodesLeft' = inodesLeft
    BY <2>1 DEF Becomes, Disk, DiskTypeOK
  <2> QED
    BY <1>0, <2>2 DEF Disk, DiskTypeOK, Rooted, Ids, Exists
<1>2. CASE Exists(n)
  <2>1. i \in 1..Len(inodes) /\ inodesLeft[i] \subseteq File /\ f \in File /\ Len(inodes) \in Nat
    BY <1>2, AtIs DEF Disk, DiskTypeOK
  <2> DEFINE contents == {g.data : g \in inodesLeft[i]} \cup {f.data}
                             \cup IF f.data = inodes[i].data THEN {} ELSE {"part"}
             labels == {g.label : g \in inodesLeft[i]} \cup {f.label}
             S == [data : contents, label : labels]
  <2>2. inodes' = [inodes EXCEPT ![i] = f] /\ inodesLeft' = [inodesLeft EXCEPT ![i] = S]
    BY DEF Becomes
  <2>3. contents \subseteq Data
    BY <2>1, FileIs DEF Data
  <2>4. labels \subseteq Data \cup {"none"}
    BY <2>1, FileIs
  <2>5. S \subseteq File
    BY <2>3, <2>4 DEF File, Data
  <2>6. f \in S
    <3>1. f.data \in contents /\ f.label \in labels
      OBVIOUS
    <3>2. f = [data |-> f.data, label |-> f.label]
      BY <2>1 DEF File
    <3> HIDE DEF contents, labels
    <3> QED
      BY <3>1, <3>2
  <2> HIDE DEF S, i
  <2>7. /\ inodes' \in Seq(File \cup {NoFile}) /\ Len(inodes') = Len(inodes)
        /\ inodesLeft' \in Seq(SUBSET (File \cup {NoFile})) /\ Len(inodesLeft') = Len(inodes)
        /\ \A j \in 1..Len(inodes) : /\ inodes'[j] = IF j = i THEN f ELSE inodes[j]
                                     /\ inodesLeft'[j] = IF j = i THEN S ELSE inodesLeft[j]
    BY <2>1, <2>2, <2>5 DEF Disk, DiskTypeOK
  <2>8. DiskTypeOK'
    BY <1>0, <2>6, <2>7 DEF Disk, DiskTypeOK, Ids
  <2>9. Rooted'
    <3> SUFFICES ASSUME NEW m \in Names, Exists(m)' PROVE inodesLeft'[names[m]] \subseteq File
      BY <1>0 DEF Rooted
    <3>1. names[m] \in 1..Len(inodes) /\ inodesLeft[names[m]] \subseteq File
      BY <1>0, AtIs DEF Exists
    <3> QED
      BY <2>5, <2>7, <3>1
  <2> QED
    BY <1>0, <2>8, <2>9 DEF Disk
<1> QED
  BY <1>1, <1>2

\* A new file under a name.
LEMMA CreatesDisk ==
    ASSUME Disk, NEW n \in Names, NEW d \in Data, Creates(n, d)
    PROVE  /\ Disk' /\ names'[n] = Len(inodes) + 1
           /\ \A m \in Names \ {n} : names'[m] = names[m]
           /\ Len(inodes') = Len(inodes) + 1
<1> DEFINE f == [data |-> d, label |-> "none"]
<1>1. f \in File
  BY FileIs
<1>2. /\ inodes' = Append(inodes, f) /\ inodesLeft' = Append(inodesLeft, {f})
      /\ names' = [names EXCEPT ![n] = Len(inodes) + 1]
      /\ namesLeft' = namesLeft \cup {names'}
  BY DEF Creates, Points
<1> HIDE DEF f
<1>3. /\ Len(inodes) \in Nat /\ Len(inodesLeft) = Len(inodes)
      /\ inodes \in Seq(File \cup {NoFile}) /\ inodesLeft \in Seq(SUBSET (File \cup {NoFile}))
  BY DEF Disk, DiskTypeOK
<1>4. /\ inodes' \in Seq(File \cup {NoFile}) /\ Len(inodes') = Len(inodes) + 1
      /\ \A j \in 1..(Len(inodes) + 1) :
             inodes'[j] = IF j = Len(inodes) + 1 THEN f ELSE inodes[j]
  BY <1>1, <1>2, <1>3
<1>5. /\ inodesLeft' \in Seq(SUBSET (File \cup {NoFile})) /\ Len(inodesLeft') = Len(inodes) + 1
      /\ \A j \in 1..(Len(inodes) + 1) :
             inodesLeft'[j] = IF j = Len(inodes) + 1 THEN {f} ELSE inodesLeft[j]
  <2>1. {f} \in SUBSET (File \cup {NoFile})
    BY <1>1
  <2> QED
    BY <1>2, <1>3, <2>1
<1>6. Ids \subseteq Ids' /\ Len(inodes) + 1 \in Ids'
  BY <1>3, <1>4 DEF Ids
<1>7. names' \in [Names -> Ids'] /\ namesLeft' \subseteq [Names -> Ids'] /\ names' \in namesLeft'
  BY <1>2, <1>6 DEF Disk, DiskTypeOK
<1>8. \A j \in 1..Len(inodes') : inodes'[j] \in inodesLeft'[j]
  BY <1>3, <1>4, <1>5 DEF Disk, DiskTypeOK
<1>9. DiskTypeOK'
  BY <1>4, <1>5, <1>7, <1>8 DEF DiskTypeOK
<1>10. names'[n] = Len(inodes) + 1 /\ \A m \in Names \ {n} : names'[m] = names[m]
  BY <1>2 DEF Disk, DiskTypeOK
<1>11. Rooted'
  <2> SUFFICES ASSUME NEW m \in Names, Exists(m)' PROVE inodesLeft'[names'[m]] \subseteq File
    BY DEF Rooted
  <2>1. CASE m = n
    BY <1>1, <1>3, <1>5, <1>10, <2>1
  <2>2. CASE m # n
    <3>1. names[m] \in 1..Len(inodes) /\ inodesLeft[names[m]] \subseteq File
      BY <1>10, <2>2, AtIs DEF Exists
    <3>2. inodesLeft'[names[m]] = inodesLeft[names[m]]
      BY <1>3, <1>5, <3>1
    <3> QED
      BY <1>10, <2>2, <3>1, <3>2
  <2> QED
    BY <2>1, <2>2
<1> QED
  BY <1>4, <1>9, <1>10, <1>11 DEF Disk

\* A flush of a file or of a name.
LEMMA SyncDisk ==
    ASSUME Disk, NEW n \in Names, SyncFile(n) \/ SyncName(n)
    PROVE  Disk' /\ names' = names
<1>0. names' = names /\ inodes' = inodes
  BY DEF SyncFile, SyncName
<1>1. CASE SyncName(n)
  BY <1>0, <1>1 DEF SyncName, Disk, DiskTypeOK, Rooted, Ids, Exists
<1>2. CASE SyncFile(n) /\ ~Exists(n)
  BY <1>0, <1>2 DEF SyncFile, Disk, DiskTypeOK, Rooted, Ids, Exists
<1>3. CASE SyncFile(n) /\ Exists(n)
  <2> DEFINE i == names[n]
  <2>1. i \in 1..Len(inodes) /\ At(n) = inodes[i] /\ At(n) \in File
    BY <1>3, AtIs
  <2>2. inodesLeft' = [inodesLeft EXCEPT ![i] = {At(n)}] /\ namesLeft' = namesLeft
    BY <1>3 DEF SyncFile
  <2> HIDE DEF i
  <2>3. /\ inodesLeft' \in Seq(SUBSET (File \cup {NoFile})) /\ Len(inodesLeft') = Len(inodes)
        /\ \A j \in 1..Len(inodes) :
               inodesLeft'[j] = IF j = i THEN {At(n)} ELSE inodesLeft[j]
    <3>1. {At(n)} \in SUBSET (File \cup {NoFile})
      BY <2>1
    <3> QED
      BY <2>1, <2>2, <3>1 DEF Disk, DiskTypeOK
  <2>4. DiskTypeOK'
    BY <1>0, <2>1, <2>2, <2>3 DEF Disk, DiskTypeOK, Ids
  <2>5. Rooted'
    <3> SUFFICES ASSUME NEW m \in Names, Exists(m)' PROVE inodesLeft'[names[m]] \subseteq File
      BY <1>0 DEF Rooted
    <3>1. names[m] \in 1..Len(inodes) /\ inodesLeft[names[m]] \subseteq File
      BY <1>0, AtIs DEF Exists
    <3> QED
      BY <2>1, <2>3, <3>1
  <2> QED
    BY <1>0, <2>4, <2>5 DEF Disk
<1> QED
  BY <1>1, <1>2, <1>3

\* A name that goes.
LEMMA UnlinksDisk ==
    ASSUME Disk, NEW n \in Names, Unlinks(n)
    PROVE  Disk' /\ \A m \in Names \ {n} : names'[m] = names[m]
<1>1. /\ names' = [names EXCEPT ![n] = 0] /\ namesLeft' = namesLeft \cup {names'}
      /\ inodes' = inodes /\ inodesLeft' = inodesLeft
  BY DEF Unlinks, Points
<1>2. 0 \in Ids
  BY DEF Ids, Disk, DiskTypeOK
<1>3. names' \in [Names -> Ids] /\ \A m \in Names : names'[m] = IF m = n THEN 0 ELSE names[m]
  BY <1>1, <1>2 DEF Disk, DiskTypeOK
<1>4. DiskTypeOK'
  BY <1>1, <1>3, Zenon DEF Disk, DiskTypeOK, Ids
<1>5. Rooted'
  BY <1>1, <1>3 DEF Disk, Rooted, Exists
<1> QED
  BY <1>3, <1>4, <1>5 DEF Disk

\* A file that goes bad.
LEMMA RotsDisk ==
    ASSUME Disk, NEW n \in Names, NEW label \in Data \cup {"none"}, Exists(n), Rots(n, label)
    PROVE  Disk' /\ names' = names
<1> DEFINE i == names[n]
           f == [data |-> "rot", label |-> label]
<1>1. i \in 1..Len(inodes) /\ f \in File
  BY AtIs DEF Data, File
<1>2. /\ inodes' = [inodes EXCEPT ![i] = f] /\ inodesLeft' = [inodesLeft EXCEPT ![i] = {f}]
      /\ names' = names /\ namesLeft' = namesLeft
  BY DEF Rots
<1> HIDE DEF i, f
<1>3. {f} \in SUBSET (File \cup {NoFile})
  BY <1>1
<1>4. /\ inodes' \in Seq(File \cup {NoFile}) /\ Len(inodes') = Len(inodes)
      /\ inodesLeft' \in Seq(SUBSET (File \cup {NoFile})) /\ Len(inodesLeft') = Len(inodes)
      /\ \A j \in 1..Len(inodes) : /\ inodes'[j] = IF j = i THEN f ELSE inodes[j]
                                   /\ inodesLeft'[j] = IF j = i THEN {f} ELSE inodesLeft[j]
  BY <1>1, <1>2, <1>3 DEF Disk, DiskTypeOK
<1>5. DiskTypeOK'
  BY <1>2, <1>4 DEF Disk, DiskTypeOK, Ids
<1>6. Rooted'
  <2> SUFFICES ASSUME NEW m \in Names, Exists(m)' PROVE inodesLeft'[names[m]] \subseteq File
    BY <1>2 DEF Rooted
  <2>1. names[m] \in 1..Len(inodes) /\ inodesLeft[names[m]] \subseteq File
    BY <1>2, AtIs DEF Exists
  <2> QED
    BY <1>1, <1>4, <2>1
<1> QED
  BY <1>2, <1>5, <1>6 DEF Disk

\* A file that is gone, whatever a crash leaves.
LEMMA DisappearsDisk ==
    ASSUME Disk, NEW n \in Names, Disappears(n)
    PROVE  Disk'
<1>1. /\ names' = [names EXCEPT ![n] = 0]
      /\ namesLeft' = {[left EXCEPT ![n] = 0] : left \in namesLeft}
      /\ inodes' = inodes /\ inodesLeft' = inodesLeft
  BY DEF Disappears
<1>2. 0 \in Ids
  BY DEF Ids, Disk, DiskTypeOK
<1>3. \A left \in [Names -> Ids] : [left EXCEPT ![n] = 0] \in [Names -> Ids]
  BY <1>2
<1>4. names' \in [Names -> Ids] /\ \A m \in Names : names'[m] = IF m = n THEN 0 ELSE names[m]
  BY <1>1, <1>2 DEF Disk, DiskTypeOK
<1>5. namesLeft' \subseteq [Names -> Ids] /\ names' \in namesLeft'
  <2>1. names \in namesLeft /\ namesLeft \subseteq [Names -> Ids]
    BY DEF Disk, DiskTypeOK
  <2>2. names' \in namesLeft'
    BY <1>1, <2>1, Zenon
  <2>3. namesLeft' \subseteq [Names -> Ids]
    BY <1>1, <1>3, <2>1
  <2> QED
    BY <2>2, <2>3
<1>6. DiskTypeOK'
  BY <1>1, <1>4, <1>5, Zenon DEF Disk, DiskTypeOK, Ids
<1>7. Rooted'
  BY <1>1, <1>4 DEF Disk, Rooted, Exists
<1> QED
  BY <1>6, <1>7 DEF Disk

\* A file that gets another name.
LEMMA MoveDisk ==
    ASSUME Disk, NEW n \in Names, NEW m \in Names, n # m,
           names' = [names EXCEPT ![m] = names[n], ![n] = 0],
           namesLeft' = namesLeft \cup {names'}, UNCHANGED <<inodes, inodesLeft>>
    PROVE  /\ Disk' /\ names'[m] = names[n]
           /\ \A l \in Names \ {n, m} : names'[l] = names[l]
<1>1. 0 \in Ids /\ names[n] \in Ids
  BY DEF Ids, Disk, DiskTypeOK
<1>2. /\ names' \in [Names -> Ids]
      /\ \A l \in Names : names'[l] = IF l = n THEN 0 ELSE IF l = m THEN names[n] ELSE names[l]
  BY <1>1 DEF Disk, DiskTypeOK
<1>3. DiskTypeOK'
  BY <1>2, Zenon DEF Disk, DiskTypeOK, Ids
<1>4. Rooted'
  BY <1>2 DEF Disk, Rooted, Exists
<1> QED
  BY <1>2, <1>3, <1>4 DEF Disk

\* Nothing on the disk changes.
LEMMA SameDisk == ASSUME Disk, UNCHANGED diskVars PROVE Disk' /\ names' = names
BY DEF diskVars, Disk, DiskTypeOK, Rooted, Ids, Exists

\* As many numbers as names, and each name has one of its own.
LEMMA NumberIs ==
    /\ Cardinality(Names) \in Nat
    /\ Number \in [Names -> 1..Cardinality(Names)]
    /\ \A m, n \in Names : m # n => Number[m] # Number[n]
    /\ \A i \in 1..Cardinality(Names) : \E n \in Names : Number[n] = i
<1> DEFINE N == 1..Cardinality(Names)
<1>1. IsFiniteSet(Names)
  <2>1. IsFiniteSet({"primary", "backup"})
    <3>1. IsFiniteSet({"primary"} \cup {"backup"})
      BY FS_Singleton, FS_Union, Zenon
    <3>2. {"primary"} \cup {"backup"} = {"primary", "backup"}
      OBVIOUS
    <3> QED
      BY <3>1, <3>2
  <2> QED
    BY <2>1, FS_Product, FilesAssumption DEF Names
<1>2. Cardinality(Names) \in Nat /\ ExistsBijection(N, Names)
  BY <1>1, FS_CardinalityType
<1>3. ExistsBijection(Names, N)
  BY <1>2, Fun_ExistsBijSymmetric
<1>4. PICK f \in Bijection(Names, N) : TRUE
  BY <1>3 DEF ExistsBijection
<1>5. f \in [Names -> N] /\ \A m, n \in Names : m # n => f[m] # f[n]
  BY <1>4 DEF Bijection, Injection, IsInjective
<1>6. /\ Number \in [Names -> N]
      /\ \A m, n \in Names : m # n => Number[m] # Number[n]
  BY <1>5 DEF Number
<1> HIDE DEF Number
<1>7. Number \in Injection(Names, N)
  BY <1>6 DEF Injection, IsInjective
<1>8. IsFiniteSet(N) /\ Cardinality(N) = Cardinality(Names)
  BY <1>1, <1>2, <1>3, FS_Bijection
<1>9. Number \in Surjection(Names, N)
  BY <1>7, <1>8, FS_Injection
<1> QED
  BY <1>2, <1>6, <1>9 DEF Surjection

\* A disk on which nothing waits to be flushed.
Settled ==
    \E files \in [Names -> File \cup {NoFile}] :
        /\ names = NamesFor(files) /\ inodes = InodesFor(files) /\ namesLeft = {names}
        /\ inodesLeft = [i \in 1..Len(inodes) |-> {inodes[i]}]

\* It is in order.
LEMMA SettledDisk == Settled => Disk
<1> SUFFICES ASSUME NEW files \in [Names -> File \cup {NoFile}],
                    names = NamesFor(files), inodes = InodesFor(files), namesLeft = {names},
                    inodesLeft = [i \in 1..Len(inodes) |-> {inodes[i]}]
             PROVE  Disk
  BY DEF Settled
<1> DEFINE c == Cardinality(Names)
           NameOf(i) == CHOOSE n \in Names : Number[n] = i
<1>1. c \in Nat /\ \A i \in 1..c : NameOf(i) \in Names /\ Number[NameOf(i)] = i
  BY NumberIs
<1>2. inodes = [i \in 1..c |-> files[NameOf(i)]]
  BY DEF InodesFor
<1>3. \A n \in Names : Number[n] \in 1..c /\ NameOf(Number[n]) = n
  BY <1>1, NumberIs
<1> HIDE DEF c, NameOf
<1>4. /\ inodes \in Seq(File \cup {NoFile}) /\ Len(inodes) = c
      /\ \A i \in 1..c : inodes[i] = files[NameOf(i)]
  BY <1>1, <1>2
<1>5. /\ inodesLeft \in Seq(SUBSET (File \cup {NoFile})) /\ Len(inodesLeft) = c
      /\ \A i \in 1..c : inodesLeft[i] = {inodes[i]}
  <2>1. inodesLeft = [i \in 1..c |-> {inodes[i]}]
    BY <1>4
  <2>2. \A i \in 1..c : {inodes[i]} \in SUBSET (File \cup {NoFile})
    BY <1>1, <1>4
  <2> QED
    BY <1>1, <2>1, <2>2
<1>6. /\ names \in [Names -> 0..c]
      /\ \A n \in Names : names[n] = IF files[n] = NoFile THEN 0 ELSE Number[n]
  BY <1>1, <1>3 DEF NamesFor
<1>7. Ids = 0..c
  BY <1>4 DEF Ids
<1>8. DiskTypeOK
  BY <1>4, <1>5, <1>6, <1>7 DEF DiskTypeOK
<1>9. Rooted
  <2> SUFFICES ASSUME NEW n \in Names, Exists(n) PROVE inodesLeft[names[n]] \subseteq File
    BY DEF Rooted
  <2>1. files[n] # NoFile /\ names[n] = Number[n]
    BY <1>6 DEF Exists
  <2>2. inodesLeft[Number[n]] = {files[n]}
    BY <1>3, <1>4, <1>5
  <2> QED
    BY <2>1, <2>2
<1> QED
  BY <1>8, <1>9 DEF Disk

\* So is what a crash leaves.
LEMMA SettledNext == Settled' => Disk'
BY SettledDisk, PTL

\* What a crash may leave of a file is a file, or nothing.
LEMMA LeftIs ==
    ASSUME Disk, NEW i \in Ids
    PROVE  Left(i) # {} /\ Left(i) \subseteq File \cup {NoFile}
BY DEF Left, Ids, Disk, DiskTypeOK

\* A crash leaves each name a version of its file, or none.
LEMMA CrashDisk ==
    ASSUME Disk, Crash PROVE Disk'
<1>1. PICK left \in namesLeft :
          LET unsure == {n \in Names : Cardinality(Left(left[n])) > 1}
          IN  \E found \in [unsure -> UNION {Left(left[n]) : n \in unsure}] :
                   /\ \A n \in unsure : found[n] \in Left(left[n])
                   /\ LET files == [n \in Names |-> IF n \in unsure THEN found[n]
                                                    ELSE CHOOSE f \in Left(left[n]) : TRUE]
                      IN  names' = NamesFor(files) /\ inodes' = InodesFor(files)
  BY Zenon DEF Crash
<1> DEFINE unsure == {n \in Names : Cardinality(Left(left[n])) > 1}
<1>2. PICK found \in [unsure -> UNION {Left(left[n]) : n \in unsure}] :
          /\ \A n \in unsure : found[n] \in Left(left[n])
          /\ LET files == [n \in Names |-> IF n \in unsure THEN found[n]
                                           ELSE CHOOSE f \in Left(left[n]) : TRUE]
             IN  names' = NamesFor(files) /\ inodes' = InodesFor(files)
  BY <1>1, Zenon
<1> DEFINE files == [n \in Names |-> IF n \in unsure THEN found[n]
                                     ELSE CHOOSE f \in Left(left[n]) : TRUE]
<1>3. \A n \in Names : left[n] \in Ids
  BY DEF Disk, DiskTypeOK
<1> HIDE DEF unsure
<1>4. \A n \in Names : files[n] \in File \cup {NoFile}
  <2> SUFFICES ASSUME NEW n \in Names PROVE files[n] \in File \cup {NoFile}
    BY Zenon
  <2>1. Left(left[n]) # {} /\ Left(left[n]) \subseteq File \cup {NoFile}
    BY <1>3, LeftIs
  <2> QED
    BY <1>2, <2>1
<1>5. files \in [Names -> File \cup {NoFile}]
  BY <1>4
<1>6. names' = NamesFor(files) /\ inodes' = InodesFor(files)
  BY <1>2
<1>7. namesLeft' = {names'} /\ inodesLeft' = [i \in 1..Len(inodes') |-> {inodes'[i]}]
  BY DEF Crash
<1> HIDE DEF files
<1>8. Settled'
  BY <1>5, <1>6, <1>7 DEF Settled
<1> QED
  BY <1>8, SettledNext

\* A descriptor is one of a file that was there.
Descriptors == \A fd \in fds : fd.id # 0

ClientTypeOK ==
    /\ fds \subseteq [id : Ids, writes : BOOLEAN]
    /\ failed \in BOOLEAN /\ backupResult \in BOOLEAN
    /\ worth \in [Paths -> SUBSET (Whole \cup {"missing"})]
    /\ loose \subseteq Paths
    /\ rounds \in 0..MaxRounds /\ trouble \in 0..MaxTrouble

FilesIInv == Disk /\ ClientTypeOK /\ Descriptors /\ Sound(todo, There)

\* Files are never given up.
LEMMA IdsGrow ==
    ASSUME Disk,
           \/ inodes' = inodes \/ \E i, f : inodes' = [inodes EXCEPT ![i] = f]
           \/ \E f : inodes' = Append(inodes, f)
    PROVE  Ids \subseteq Ids'
<1>1. inodes \in Seq(File \cup {NoFile}) /\ Len(inodes) \in Nat
  BY DEF Disk, DiskTypeOK
<1>2. CASE inodes' = inodes
  BY <1>2 DEF Ids
<1>3. ASSUME NEW i, NEW f, inodes' = [inodes EXCEPT ![i] = f] PROVE Ids \subseteq Ids'
  <2>1. Len(inodes') = Len(inodes)
    <3> DEFINE T == File \cup {NoFile} \cup {f}
    <3>1. inodes \in Seq(T)
      BY <1>1
    <3> HIDE DEF T
    <3>2. inodes' \in Seq(T) /\ Len(inodes') = Len(inodes)
      <4>1. f \in T
        BY DEF T
      <4>2. CASE i \in 1..Len(inodes)
        BY <1>3, <3>1, <4>1, <4>2
      <4>3. CASE i \notin 1..Len(inodes)
        <5>1. inodes' = inodes
          BY <1>1, <1>3, <4>3
        <5> QED
          BY <3>1, <5>1
      <4> QED
        BY <4>2, <4>3
    <3> QED
      BY <3>2
  <2> QED
    BY <2>1 DEF Ids
<1>4. ASSUME NEW f, inodes' = Append(inodes, f) PROVE Ids \subseteq Ids'
  <2>1. Len(inodes') = Len(inodes) + 1
    BY <1>1, <1>4
  <2> QED
    BY <1>1, <2>1 DEF Ids
<1> QED
  BY <1>2, <1>3, <1>4, Zenon

\* The step that is next.
LEMMA HeadIs ==
    ASSUME Sound(todo, There), todo # <<>>
    PROVE  /\ Head(todo) \in FileSteps /\ Path \in Paths /\ Head(todo).to \in Paths
           /\ Head(todo).flags \in Flags
           /\ Primary(Path) \in Names /\ Backup(Path) \in Names
           /\ Needs(Head(todo)) \subseteq There
<1>1. todo \in Seq(FileSteps) /\ 1 \in 1..Len(todo) /\ Head(todo) = todo[1]
  BY HeadTailProperties DEF Sound
<1>2. \A x \in Needs(todo[1]) : x \in There
  BY <1>1 DEF Sound, Provided
<1>3. Head(todo) \in FileSteps /\ Needs(Head(todo)) \subseteq There
  BY <1>1, <1>2
<1>4. Path \in Paths /\ Head(todo).to \in Paths /\ Head(todo).flags \in Flags
  BY <1>3 DEF FileSteps, Path
<1> QED
  BY <1>3, <1>4, NamesAre

\* A content there is.
LEMMA ContentIs ==
    ASSUME Disk, NEW p \in There
    PROVE  Content(p) \in Data /\ At(Primary(p)) \in File
BY AtIs, NamesAre, FileIs DEF There, Content

\* Names that do not change.
LEMMA ThereIs ==
    /\ There \subseteq Paths
    /\ \A p \in Paths : p \in There <=> names[Primary(p)] # 0
    /\ \A p \in Paths : p \in There' <=> names'[Primary(p)] # 0
BY DEF There, Exists

\* Every path that has a file keeps one, but for the one the step is to remove.
Stays == \A p \in There : p \in Removes(Head(todo)) \/ p \in There'

\* A step leaves the disk in order, takes no file away, and has the paths it is to have.
LEMMA StepDisk ==
    ASSUME FilesIInv, StepNext
    PROVE  Disk' /\ Ids \subseteq Ids' /\ Stays
<1> USE DEF FilesIInv, Stays
<1>0. todo # <<>>
  BY Zenon
     DEF StepNext, Enter, Refresh, CopyToBackup, CopyToPrimary, Label, LabelBackup, Sync, Unlink,
         Open, Fill, Match, Move, Leave, Overlook, Tracked, Filled, CloseDone, Deleted, GoOn,
         Moved, Renamed, Doing, DoingOneOf, NoCall
<1>1. /\ Path \in Paths /\ Head(todo).to \in Paths /\ Needs(Head(todo)) \subseteq There
      /\ Primary(Path) \in Names /\ Backup(Path) \in Names
  BY <1>0, HeadIs
<1>2. ASSUME names' = names PROVE Stays
  BY <1>2, ThereIs
<1>3. CASE UNCHANGED diskVars
  BY <1>2, <1>3, SameDisk, IdsGrow DEF diskVars
<1>4. ASSUME NEW n \in Names, NEW f, Exists(n) => f \in File, Becomes(names[n], f)
      PROVE  Disk' /\ Ids \subseteq Ids' /\ Stays
  <2>1. \E i, g : inodes' = [inodes EXCEPT ![i] = g]
    BY <1>4, Zenon DEF Becomes
  <2> QED
    BY <1>2, <1>4, <2>1, BecomesDisk, IdsGrow, Zenon
<1>5. ASSUME NEW n \in Names, NEW d \in Data, Creates(n, d)
      PROVE  Disk' /\ Ids \subseteq Ids' /\ Stays
  <2>1. /\ Disk' /\ names'[n] = Len(inodes) + 1 /\ \A m \in Names \ {n} : names'[m] = names[m]
    BY <1>5, CreatesDisk
  <2>2. \E g : inodes' = Append(inodes, g)
    BY <1>5 DEF Creates
  <2>3. Len(inodes) + 1 # 0
    BY DEF Disk, DiskTypeOK
  <2>4. Stays
    BY <2>1, <2>3, ThereIs, NamesAre
  <2> QED
    BY <2>1, <2>2, <2>4, IdsGrow
<1>6. CASE CopyToBackup
  <2>1. CASE Creates(Backup(Path), Content(Path))
    <3>1. Path \in There
      BY <1>1, <1>6 DEF CopyToBackup, Doing, DoingOneOf, Needs, Path
    <3> QED
      BY <1>1, <1>5, <2>1, <3>1, ContentIs
  <2>2. CASE Fails
    BY <1>3, <2>2 DEF Fails
  <2> QED
    BY <1>6, <2>1, <2>2 DEF CopyToBackup
<1>7. CASE CopyToPrimary
  <2>1. CASE Validates(At(Backup(Path))) /\ Creates(Primary(Path), At(Backup(Path)).data)
    <3>1. At(Backup(Path)) \in File
      BY <1>1, <2>1, AtIs DEF Validates, NoFile
    <3> QED
      BY <1>1, <1>5, <2>1, <3>1, FileIs
  <2>2. CASE Fails
    BY <1>3, <2>2 DEF Fails
  <2> QED
    BY <1>7, <2>1, <2>2 DEF CopyToPrimary
<1>8. CASE Label
  <2> DEFINE f == [data |-> Content(Path), label |-> Content(Path)]
  <2>1. Becomes(names[Primary(Path)], f)
    BY <1>8 DEF Label
  <2>2. Exists(Primary(Path)) => f \in File
    BY <1>1, ContentIs, FileIs DEF There
  <2> HIDE DEF f
  <2> QED
    BY <1>1, <1>4, <2>1, <2>2
<1>9. CASE LabelBackup
  <2> DEFINE f == [data |-> At(Backup(Path)).data, label |-> At(Backup(Path)).data]
  <2>1. Becomes(names[Backup(Path)], f)
    BY <1>9 DEF LabelBackup
  <2>2. Exists(Backup(Path)) => f \in File
    BY <1>1, AtIs, FileIs
  <2> HIDE DEF f
  <2> QED
    BY <1>1, <1>4, <2>1, <2>2
<1>10. CASE Sync
  <2>1. \E n \in Names : SyncFile(n) \/ SyncName(n)
    <3>1. \/ SyncFile(Primary(Path)) \/ SyncFile(Backup(Path))
          \/ SyncName(Primary(Path)) \/ SyncName(Backup(Path))
      BY <1>10 DEF Sync
    <3> QED
      BY <1>1, <3>1
  <2>2. inodes' = inodes
    BY <2>1 DEF SyncFile, SyncName
  <2> QED
    BY <1>2, <2>1, <2>2, SyncDisk, IdsGrow
<1>11. CASE Unlink
  <2>1. PICK n \in Names :
          Unlinks(n) /\ (n = Backup(Path) \/ (Doing("unlink") /\ n = Primary(Path)))
    <3>1. \/ Doing("unlink") /\ Unlinks(Primary(Path))
          \/ Unlinks(Backup(Path))
      BY <1>11 DEF Unlink
    <3> QED
      BY <1>1, <3>1
  <2>2. Disk' /\ \A m \in Names \ {n} : names'[m] = names[m]
    BY <2>1, UnlinksDisk
  <2>3. inodes' = inodes
    BY <2>1 DEF Unlinks
  <2>4. Stays
    <3> SUFFICES ASSUME NEW p \in There, p \notin Removes(Head(todo)) PROVE p \in There'
      OBVIOUS
    <3>1. Primary(p) # n /\ Primary(p) \in Names /\ p \in Paths
      <4>1. p \in Paths /\ Primary(p) \in Names
        BY NamesAre, ThereIs
      <4>2. CASE n = Backup(Path)
        BY <1>1, <4>1, <4>2, NamesAre
      <4>3. CASE Doing("unlink") /\ n = Primary(Path)
        <5>1. p # Path
          BY <4>3 DEF Doing, DoingOneOf, Removes, Path
        <5> QED
          BY <1>1, <4>1, <4>3, <5>1, NamesAre
      <4> QED
        BY <2>1, <4>1, <4>2, <4>3
    <3> QED
      BY <2>2, <3>1, ThereIs
  <2> QED
    BY <2>2, <2>3, <2>4, IdsGrow
<1>12. CASE Open
  <2>1. CASE UNCHANGED diskVars
    BY <1>3, <2>1
  <2>2. CASE Creates(Primary(Path), "empty")
    BY <1>1, <1>5, <2>2 DEF Data, Whole
  <2>3. CASE /\ Exists(Primary(Path))
             /\ Becomes(names[Primary(Path)], [At(Primary(Path)) EXCEPT !.data = "empty"])
    <3>1. "empty" \in Data /\ At(Primary(Path)) \in File
      BY <1>1, <2>3, AtIs DEF Data, Whole
    <3>2. [At(Primary(Path)) EXCEPT !.data = "empty"] \in File
      BY <3>1, FileIs
    <3> QED
      BY <1>1, <1>4, <2>3, <3>2
  <2> QED
    BY <1>12, <2>1, <2>2, <2>3 DEF Open
<1>13. CASE Fill
  <2> DEFINE target == names[Primary(Path)]
  <2>1. CASE UNCHANGED diskVars
    BY <1>3, <2>1
  <2>2. ASSUME NEW d \in Data, Becomes(target, [inodes[target] EXCEPT !.data = d])
        PROVE  Disk' /\ Ids \subseteq Ids' /\ Stays
    <3> DEFINE f == [inodes[target] EXCEPT !.data = d]
    <3>1. Exists(Primary(Path)) => f \in File
      BY <1>1, AtIs, FileIs
    <3> HIDE DEF f
    <3>2. Becomes(target, f)
      BY <2>2 DEF f
    <3> QED
      BY <1>1, <1>4, <3>1, <3>2, Zenon
  <2>3. ASSUME Doing("fill") PROVE Content(Head(todo).to) \in Data
    <3>1. Head(todo).to \in There
      BY <1>1, <2>3 DEF Doing, DoingOneOf, Needs
    <3> QED
      BY <3>1, ContentIs
  <2>4. "part" \in Data
    BY DEF Data
  <2> QED
    BY <1>13, <2>1, <2>2, <2>3, <2>4 DEF Fill
<1>14. CASE Move
  <2>1. CASE UNCHANGED diskVars
    BY <1>3, <2>1
  <2>2. CASE ~UNCHANGED diskVars
    <3> DEFINE q == Head(todo).to
    <3>1. /\ names' = [names EXCEPT ![Primary(q)] = names[Primary(Path)], ![Primary(Path)] = 0]
          /\ namesLeft' = namesLeft \cup {names'} /\ UNCHANGED <<inodes, inodesLeft>>
          /\ Exists(Primary(Path)) /\ Doing("move")
      BY <1>14, <2>2 DEF Move
    <3>2. CASE q = Path
      <4>1. names' = [names EXCEPT ![Primary(Path)] = 0]
        BY <1>1, <3>1, <3>2, Zenon DEF Disk, DiskTypeOK
      <4>2. Unlinks(Primary(Path))
        BY <3>1, <4>1, Zenon DEF Unlinks, Points
      <4>3. Disk' /\ \A m \in Names \ {Primary(Path)} : names'[m] = names[m]
        BY <1>1, <4>2, UnlinksDisk
      <4>4. Stays
        BY <1>1, <3>1, <4>3, NamesAre, ThereIs, Zenon DEF Doing, DoingOneOf, Removes, Path
      <4> QED
        BY <3>1, <4>3, <4>4, IdsGrow
    <3>3. CASE q # Path
      <4>1. /\ Primary(q) \in Names /\ Primary(q) # Primary(Path)
        BY <1>1, <3>3, NamesAre
      <4>2. /\ Disk' /\ names'[Primary(q)] = names[Primary(Path)]
            /\ \A l \in Names \ {Primary(Path), Primary(q)} : names'[l] = names[l]
        BY <1>1, <3>1, <4>1, MoveDisk, Zenon
      <4>3. Stays
        <5> SUFFICES ASSUME NEW p \in There, p \notin Removes(Head(todo)) PROVE p \in There'
          OBVIOUS
        <5>1. p # Path /\ p \in Paths /\ Primary(p) \in Names /\ Primary(p) # Primary(Path)
          BY <1>1, <3>1, NamesAre, ThereIs DEF Doing, DoingOneOf, Removes, Path
        <5>2. names'[Primary(p)] # 0
          BY <3>1, <4>2, <5>1, ThereIs, Zenon DEF Exists
        <5> QED
          BY <5>1, <5>2, ThereIs
      <4> QED
        BY <3>1, <4>2, <4>3, IdsGrow
    <3> QED
      BY <3>2, <3>3
  <2> QED
    BY <2>1, <2>2
<1>15. CASE Enter \/ Refresh \/ Match \/ Leave \/ Overlook \/ Tracked \/ Filled \/ CloseDone
  BY <1>3, <1>15, Zenon DEF Enter, Refresh, Match, Leave, Overlook, Tracked, Filled, CloseDone
<1>16. CASE Deleted \/ GoOn \/ Moved \/ Renamed
  BY <1>3, <1>16, Zenon DEF Deleted, GoOn, Moved, Renamed
<1> QED
  BY <1>6, <1>7, <1>8, <1>9, <1>10, <1>11, <1>12, <1>13, <1>14, <1>15, <1>16 DEF StepNext

\* What the steps of a call preserve: the rest is sound.
LEMMA ProceedsSound ==
    ASSUME Sound(todo, There), todo # <<>>, Stays, Proceeds, Provides(Head(todo)) \subseteq There'
    PROVE  Sound(todo, There)'
<1>1. \A x \in There : x \notin Removes(Head(todo)) => x \in There'
  BY DEF Stays
<1>2. Sound(Tail(todo), There')
  BY <1>1, TailSound
<1> QED
  BY <1>2 DEF Proceeds

\* A call that ends.
LEMMA EndSound == ASSUME todo' = <<>> PROVE Sound(todo, There)'
BY EmptySound

\* A step that fails.
LEMMA FailsSound ==
    ASSUME Sound(todo, There), todo # <<>>, Risky(Head(todo)), Fails
    PROVE  Sound(todo, There)'
<1>1. There \subseteq There'
  BY ThereIs DEF Fails, diskVars
<1>2. Sound(FromLanding(todo), There')
  BY <1>1, LandingSound
<1> QED
  BY <1>2 DEF Fails

\* Every step leaves steps that find the files they need.
LEMMA StepSound ==
    ASSUME FilesIInv, StepNext
    PROVE  Sound(todo, There)'
<1>0. todo # <<>> /\ Sound(todo, There) /\ Disk
  BY Zenon
     DEF StepNext, Enter, Refresh, CopyToBackup, CopyToPrimary, Label, LabelBackup, Sync, Unlink,
         Open, Fill, Match, Move, Leave, Overlook, Tracked, Filled, CloseDone, Deleted, GoOn,
         Moved, Renamed, Doing, DoingOneOf, NoCall, FilesIInv
<1>1. /\ Path \in Paths /\ Head(todo).to \in Paths /\ Needs(Head(todo)) \subseteq There
      /\ Primary(Path) \in Names /\ Head(todo).flags \in Flags
  BY <1>0, HeadIs
<1>2. Stays
  BY StepDisk
<1>3. ASSUME Proceeds, Provides(Head(todo)) = {} PROVE Sound(todo, There)'
  BY <1>0, <1>2, <1>3, ProceedsSound
<1>4. ASSUME UNCHANGED diskVars PROVE There' = There
  BY <1>4 DEF There, Exists, diskVars
<1>5. CASE EndCall
  BY <1>5, EndSound DEF EndCall
<1>6. CASE Enter
  <2> DEFINE b == Opening(Path, Head(todo).flags)
  <2>1. Opens(b, Path, There)
    BY <1>1, OpeningOpens
  <2>2. Provides(Head(todo)) = {Path}
    BY <1>6 DEF Enter, Doing, DoingOneOf, Provides, Path
  <2>3. todo' = b \o Tail(todo) /\ There' = There
    BY <1>4, <1>6 DEF Enter
  <2> HIDE DEF b
  <2>4. /\ Sound(b, There) /\ \A i \in 1..Len(b) : Removes(b[i]) = {}
        /\ \A x \in Provides(Head(todo)) : \E i \in 1..Len(b) : x \in Provides(b[i])
        /\ \A i \in 1..Len(b) : Risky(b[i]) => \E k \in (i + 1)..Len(b) : b[k].do \in Landings
    BY <2>1, <2>2, Zenon DEF Opens
  <2>5. Sound(b \o Tail(todo), There)
    BY <1>0, <2>4, SpliceSound, Zenon
  <2> QED
    BY <2>3, <2>5
<1>7. ASSUME NEW b, Sound(b, There), Quiet(b), todo' = b \o Tail(todo), There' = There,
             Provides(Head(todo)) = {}, Risky(Head(todo))
      PROVE  Sound(todo, There)'
  <2>1. /\ \A i \in 1..Len(b) : Removes(b[i]) = {}
        /\ \A x \in Provides(Head(todo)) : \E i \in 1..Len(b) : x \in Provides(b[i])
    BY <1>7, Zenon DEF Quiet
  <2>2. Sound(b \o Tail(todo), There)
    BY <1>0, <1>7, <2>1, SpliceSound, Zenon
  <2> QED
    BY <1>7, <2>2
<1>8. CASE Refresh
  <2>1. Path \in There /\ Provides(Head(todo)) = {} /\ Risky(Head(todo))
    BY <1>1, <1>8 DEF Refresh, Doing, DoingOneOf, Needs, Provides, Risky, Path, Landings
  <2>2. Sound(RefreshBackupIfNeeded(Path), There) /\ Quiet(RefreshBackupIfNeeded(Path))
    BY <1>1, <2>1, RefreshSound
  <2> QED
    BY <1>4, <1>7, <1>8, <2>1, <2>2, Zenon DEF Refresh
<1>9. CASE Moved
  <2> DEFINE b == IF failed THEN DeleteBackup(Head(todo).to) ELSE <<>>
  <2>1. Provides(Head(todo)) = {} /\ Risky(Head(todo))
    BY <1>9 DEF Moved, Doing, DoingOneOf, Provides, Risky, Landings
  <2>2. Sound(b, There) /\ Quiet(b)
    BY <1>1, DeleteBackupSound, EmptySound
  <2>3. todo' = b \o Tail(todo) /\ There' = There
    <3>1. UNCHANGED diskVars
      BY <1>9 DEF Moved
    <3> QED
      BY <1>4, <1>9, <3>1 DEF Moved
  <2> HIDE DEF b
  <2> QED
    BY <1>7, <2>1, <2>2, <2>3, Zenon
<1>10. CASE CopyToBackup
  <2>1. Provides(Head(todo)) = {} /\ Risky(Head(todo))
    BY <1>10 DEF CopyToBackup, Doing, DoingOneOf, Provides, Risky, Landings
  <2> QED
    BY <1>0, <1>3, <1>10, <2>1, FailsSound DEF CopyToBackup
<1>11. CASE CopyToPrimary
  <2>1. Provides(Head(todo)) = {} /\ Risky(Head(todo))
    BY <1>11 DEF CopyToPrimary, Doing, DoingOneOf, Provides, Risky, Landings
  <2> QED
    BY <1>0, <1>3, <1>11, <2>1, FailsSound DEF CopyToPrimary
<1>12. CASE Filled
  <2>1. Path \in There /\ Provides(Head(todo)) = {}
    BY <1>1, <1>12 DEF Filled, Doing, DoingOneOf, Needs, Provides, Path
  <2>2. CASE Proceeds
    BY <1>3, <2>1, <2>2
  <2>3. CASE todo' = Labelling(Path) \o <<Step("discarded", Path)>> \o Deleting(Path)
    <3>1. There' = There
      BY <1>4, <1>12 DEF Filled
    <3>2. Sound(Labelling(Path) \o <<Step("discarded", Path)>> \o Deleting(Path), There)
      BY <1>1, <2>1, DiscardingSound
    <3> QED
      BY <2>3, <3>1, <3>2
  <2> QED
    BY <1>12, <2>2, <2>3 DEF Filled
<1>13. CASE Open /\ ~EndCall
  <2>1. Provides(Head(todo)) = {Path} /\ Proceeds
    BY <1>13 DEF Open, Doing, DoingOneOf, Provides, Path
  <2>2. Path \in There'
    <3>1. CASE Exists(Primary(Path))
      <4>1. Path \in There /\ Removes(Head(todo)) = {}
        BY <1>1, <1>13, <3>1 DEF There, Open, Doing, DoingOneOf, Removes
      <4> QED
        BY <1>2, <4>1 DEF Stays
    <3>2. CASE ~Exists(Primary(Path))
      <4>1. Creates(Primary(Path), "empty")
        BY <1>13, <3>2 DEF Open
      <4>2. "empty" \in Data /\ Len(inodes) + 1 # 0
        BY <1>0 DEF Data, Whole, Disk, DiskTypeOK
      <4>3. names'[Primary(Path)] # 0
        BY <1>0, <1>1, <4>1, <4>2, CreatesDisk
      <4> QED
        BY <1>1, <4>3, ThereIs
    <3> QED
      BY <3>1, <3>2
  <2> QED
    BY <1>0, <1>2, <2>1, <2>2, ProceedsSound
<1>14. CASE Move /\ ~EndCall
  <2> DEFINE q == Head(todo).to
  <2>1. /\ Provides(Head(todo)) = {q} \ {Path} /\ Proceeds /\ Exists(Primary(Path))
        /\ names' = [names EXCEPT ![Primary(q)] = names[Primary(Path)], ![Primary(Path)] = 0]
        /\ namesLeft' = namesLeft \cup {names'} /\ UNCHANGED <<inodes, inodesLeft>>
    BY <1>14 DEF Move, Doing, DoingOneOf, Provides, Path
  <2>2. CASE q = Path
    BY <1>3, <2>1, <2>2
  <2>3. CASE q # Path
    <3>1. Primary(q) \in Names /\ Primary(q) # Primary(Path)
      BY <1>1, <2>3, NamesAre
    <3>2. names'[Primary(q)] # 0
      BY <1>0, <1>1, <2>1, <3>1, MoveDisk, Zenon DEF Exists
    <3>3. q \in There'
      BY <1>1, <3>2, ThereIs
    <3> QED
      BY <1>0, <1>2, <2>1, <3>3, ProceedsSound
  <2> QED
    BY <2>2, <2>3
<1>15. CASE Label \/ LabelBackup \/ Sync \/ Unlink \/ Fill
  <2>1. Proceeds /\ Provides(Head(todo)) = {}
    BY <1>15 DEF Label, LabelBackup, Sync, Unlink, Fill, Doing, DoingOneOf, Checksums, Provides
  <2> QED
    BY <1>3, <2>1
<1>16. CASE ~EndCall /\ (Match \/ Leave \/ Overlook \/ Tracked)
  <2>1. Proceeds /\ Provides(Head(todo)) = {}
    BY <1>16 DEF Match, Leave, Overlook, Tracked, Doing, DoingOneOf, Provides
  <2> QED
    BY <1>3, <2>1
<1>17. CASE CloseDone \/ Deleted \/ GoOn \/ Renamed
  <2>1. Proceeds /\ Provides(Head(todo)) = {}
    BY <1>17 DEF CloseDone, Deleted, GoOn, Renamed, Doing, DoingOneOf, Provides
  <2> QED
    BY <1>3, <2>1
<1> QED
  BY <1>5, <1>6, <1>8, <1>9, <1>10, <1>11, <1>12, <1>13, <1>14, <1>15, <1>16, <1>17 DEF StepNext

\* What a step tells the client, and its descriptors.
LEMMA StepClient ==
    ASSUME FilesIInv, StepNext
    PROVE  ClientTypeOK' /\ Descriptors'
<1>0. /\ todo # <<>> /\ Sound(todo, There) /\ Disk /\ ClientTypeOK /\ Descriptors
      /\ Ids \subseteq Ids'
  BY StepDisk, Zenon
     DEF StepNext, Enter, Refresh, CopyToBackup, CopyToPrimary, Label, LabelBackup, Sync, Unlink,
         Open, Fill, Match, Move, Leave, Overlook, Tracked, Filled, CloseDone, Deleted, GoOn,
         Moved, Renamed, Doing, DoingOneOf, NoCall, FilesIInv
<1>1. /\ Path \in Paths /\ Head(todo).to \in Paths /\ Head(todo).flags \in Flags
      /\ Primary(Path) \in Names
  BY <1>0, HeadIs
<1>2. /\ failed \in BOOLEAN /\ backupResult \in BOOLEAN
      /\ worth \in [Paths -> SUBSET (Whole \cup {"missing"})] /\ loose \subseteq Paths
      /\ rounds \in 0..MaxRounds /\ trouble \in 0..MaxTrouble
  BY <1>0 DEF ClientTypeOK
<1>3. fds \subseteq [id : Ids', writes : BOOLEAN]
  BY <1>0 DEF ClientTypeOK
<1>4. rounds' = rounds /\ trouble' = trouble
  BY Zenon
     DEF StepNext, Enter, Refresh, CopyToBackup, CopyToPrimary, Label, LabelBackup, Sync, Unlink,
         Open, Fill, Match, Move, Leave, Overlook, Tracked, Filled, CloseDone, Deleted, GoOn,
         Moved, Renamed
<1>5. failed' \in BOOLEAN
  BY <1>2, Zenon
     DEF StepNext, Enter, Refresh, CopyToBackup, CopyToPrimary, Label, LabelBackup, Sync,
         Unlink, Open, Fill, Match, Move, Leave, Overlook, Tracked, Filled, CloseDone, Deleted,
         GoOn, Moved, Renamed, EndCall, Fails
<1>6. backupResult' \in BOOLEAN
  <2>1. (backupResult /\ ~failed) \in BOOLEAN
    OBVIOUS
  <2>2. CASE GoOn \/ Moved \/ Renamed
    BY <2>1, <2>2, Zenon DEF GoOn, Moved, Renamed
  <2>3. CASE ~(GoOn \/ Moved \/ Renamed)
    BY <1>2, <2>3, Zenon
       DEF StepNext, Enter, Refresh, CopyToBackup, CopyToPrimary, Label, LabelBackup,
       Sync, Unlink, Open, Fill, Match, Move, Leave, Overlook, Tracked, Filled, CloseDone, Deleted
  <2> QED
    BY <2>2, <2>3
<1>7. loose' \subseteq Paths
  <2>1. CASE Label \/ Open \/ Move \/ Filled \/ Renamed \/ CloseDone \/ Deleted
    BY <1>1, <1>2, <2>1 DEF Label, Open, Move, Filled, Renamed, CloseDone, Deleted, Keeps
  <2>2. CASE CopyToBackup \/ CopyToPrimary
    BY <1>1, <1>2, <2>2 DEF CopyToBackup, CopyToPrimary, Fails, promiseVars
  <2>3. CASE ~(Label \/ Open \/ Move \/ Filled \/ Renamed \/ CloseDone \/ Deleted
                     \/ CopyToBackup \/ CopyToPrimary)
    BY <1>2, <2>3, Zenon
       DEF StepNext, Enter, Refresh, LabelBackup, Sync, Unlink, Fill, Match, Leave,
       Overlook, Tracked, GoOn, Moved, promiseVars
  <2> QED
    BY <2>1, <2>2, <2>3
<1>8. worth' \in [Paths -> SUBSET (Whole \cup {"missing"})]
  <2>1. ASSUME NEW w \in [Paths -> SUBSET (Whole \cup {"missing"})], NEW p \in Paths,
               NEW S \in SUBSET (Whole \cup {"missing"})
        PROVE  /\ [w EXCEPT ![p] = S] \in [Paths -> SUBSET (Whole \cup {"missing"})]
               /\ [w EXCEPT ![p] = @ \cup S] \in [Paths -> SUBSET (Whole \cup {"missing"})]
    OBVIOUS
  <2>2. CASE Label
    <3> DEFINE S == {Content(Path)} \cap Whole
    <3>1. S \in SUBSET (Whole \cup {"missing"})
      OBVIOUS
    <3>2. worth' = [worth EXCEPT ![Path] = @ \cup S] \/ worth' = worth
      BY <2>2 DEF Label
    <3> HIDE DEF S
    <3> QED
      BY <1>1, <1>2, <2>1, <3>1, <3>2
  <2>3. CASE Unlink
    <3>1. worth' = [worth EXCEPT ![Path] = @ \cup {"missing"}] \/ worth' = worth
      BY <2>3 DEF Unlink
    <3> QED
      BY <1>1, <1>2, <2>1, <3>1
  <2>4. CASE Move
    <3> DEFINE S == {Content(Path)} \cap Whole
               T == SUBSET (Whole \cup {"missing"})
               q == Head(todo).to
    <3>1. /\ S \in T /\ worth \in [Paths -> T]
          /\ \A A \in T : A \cup S \in T /\ A \cup {"missing"} \in T
      BY <1>2
    <3>2. CASE ~Exists(Primary(Path))
      BY <1>2, <2>4, <3>2 DEF Move
    <3>3. CASE Exists(Primary(Path))
      <4>1. worth' = [worth EXCEPT ![q] = @ \cup S, ![Path] = @ \cup {"missing"}]
        BY <2>4, <3>3 DEF Move
      <4> HIDE DEF S, T, q
      <4>2. q \in Paths /\ Path \in Paths
        BY <1>1 DEF q
      <4>3. worth' \in [Paths -> T]
        BY <3>1, <4>1, <4>2, Zenon
      <4> QED
        BY <4>3 DEF T
    <3> QED
      BY <3>2, <3>3
  <2>5. CASE CloseDone
    <3>1. \/ worth' = worth
          \/ Content(Path) \in Whole /\ worth' = [worth EXCEPT ![Path] = {Content(Path)}]
      BY <2>5 DEF CloseDone, Keeps
    <3> QED
      BY <1>1, <1>2, <2>1, <3>1
  <2>6. CASE Deleted
    <3>1. worth' = worth \/ worth' = [worth EXCEPT ![Path] = {"missing"}]
      BY <2>6 DEF Deleted, Keeps
    <3> QED
      BY <1>1, <1>2, <2>1, <3>1
  <2>7. CASE Renamed
    <3> DEFINE q == Head(todo).to
               w == [worth EXCEPT ![Path] = {"missing"}]
    <3>1. w \in [Paths -> SUBSET (Whole \cup {"missing"})]
      BY <1>1, <1>2, <2>1
    <3>2. worth' = worth \/ (Content(q) \in Whole /\ worth' = [w EXCEPT ![q] = {Content(q)}])
      BY <2>7 DEF Renamed
    <3>3. PICK v \in SUBSET (Whole \cup {"missing"}) :
              worth' = worth \/ worth' = [w EXCEPT ![q] = v]
      BY <3>2
    <3> HIDE DEF w, q
    <3>4. [w EXCEPT ![q] = v] \in [Paths -> SUBSET (Whole \cup {"missing"})]
      BY <3>1
    <3> QED
      BY <1>2, <3>3, <3>4
  <2>8. CASE ~(Label \/ Unlink \/ Move \/ CloseDone \/ Deleted \/ Renamed)
    BY <1>2, <2>8, Zenon
       DEF StepNext, Enter, Refresh, CopyToBackup, CopyToPrimary, LabelBackup, Sync,
       Open, Fill, Match, Leave, Overlook, Tracked, Filled, GoOn, Moved, Fails, promiseVars
  <2> QED
    BY <2>2, <2>3, <2>4, <2>5, <2>6, <2>7, <2>8
<1>9. fds' \subseteq [id : Ids', writes : BOOLEAN] /\ Descriptors'
  <2>1. CASE fds' = fds
    BY <1>0, <1>3, <2>1 DEF Descriptors
  <2>2. ASSUME Open, fds' # fds
        PROVE  fds' \subseteq [id : Ids', writes : BOOLEAN] /\ Descriptors'
    <3> DEFINE fd == [id |-> names'[Primary(Path)], writes |-> Head(todo).flags.writes]
    <3>1. fds' = fds \cup {fd} /\ Proceeds /\ Doing("open")
      BY <2>2 DEF Open, EndCall
    <3>2. names'[Primary(Path)] \in Ids' /\ Head(todo).flags.writes \in BOOLEAN
      BY <1>1, StepDisk DEF Disk, DiskTypeOK, Flags
    <3>3. names'[Primary(Path)] # 0
      <4>1. CASE Exists(Primary(Path))
        <5>1. Path \in There /\ Removes(Head(todo)) = {}
          BY <1>1, <3>1, <4>1 DEF There, Doing, DoingOneOf, Removes
        <5>2. Path \in There'
          BY <5>1, StepDisk DEF Stays
        <5> QED
          BY <1>1, <5>2, ThereIs
      <4>2. CASE ~Exists(Primary(Path))
        <5>1. Creates(Primary(Path), "empty")
          BY <2>2, <4>2 DEF Open, EndCall
        <5>2. "empty" \in Data /\ Len(inodes) + 1 # 0
          BY <1>0 DEF Data, Whole, Disk, DiskTypeOK
        <5> QED
          BY <1>0, <1>1, <5>1, <5>2, CreatesDisk
      <4> QED
        BY <4>1, <4>2
    <3>4. fd \in [id : Ids', writes : BOOLEAN] /\ fd.id # 0
      BY <3>2, <3>3
    <3> HIDE DEF fd
    <3> QED
      BY <1>0, <1>3, <3>1, <3>4 DEF Descriptors
  <2>3. Open \/ fds' = fds
    BY Zenon
       DEF StepNext, Enter, Refresh, CopyToBackup, CopyToPrimary, Label, LabelBackup, Sync, Unlink,
           Fill, Match, Move, Leave, Overlook, Tracked, Filled, CloseDone, Deleted, GoOn,
           Moved, Renamed
  <2> QED
    BY <2>1, <2>2, <2>3
<1> QED
  BY <1>2, <1>4, <1>5, <1>6, <1>7, <1>8, <1>9 DEF ClientTypeOK

\* What a call of the client, a failure and a crash leave.
LEMMA ClientStep ==
    ASSUME FilesIInv, ClientCalls
    PROVE  FilesIInv'
<1> USE DEF FilesIInv
<1>1. ASSUME NEW steps, Sound(steps, There), Calls(steps) PROVE FilesIInv'
  <2>1. Disk' /\ There' = There /\ Ids' = Ids
    BY <1>1, SameDisk DEF Calls, diskVars, There, Exists, Ids
  <2>2. Sound(todo, There)'
    BY <1>1, <2>1 DEF Calls
  <2>3. rounds' \in 0..MaxRounds
    <3>1. rounds \in Nat /\ rounds < MaxRounds /\ rounds' = rounds + 1 /\ MaxRounds \in Nat
      BY <1>1, FilesAssumption DEF Calls, ClientTypeOK
    <3> QED
      BY <3>1
  <2>4. ClientTypeOK' /\ Descriptors'
    BY <1>1, <2>1, <2>3 DEF Calls, ClientTypeOK, Descriptors
  <2> QED
    BY <2>1, <2>2, <2>4
<1>2. ASSUME NEW p \in Paths,
             taf_pa_file_Delete(p)
                 \/ \E flags \in {O_RDONLY, O_CREAT, O_TRUNC, O_EXCL} : taf_pa_file_Open(p, flags)
      PROVE  FilesIInv'
  <2>1. CASE taf_pa_file_Delete(p)
    BY <1>1, <2>1, DeletingSound DEF taf_pa_file_Delete
  <2>2. ASSUME NEW flags \in {O_RDONLY, O_CREAT, O_TRUNC, O_EXCL}, taf_pa_file_Open(p, flags)
        PROVE  FilesIInv'
    <3>1. flags \in Flags
      BY FlagsAre
    <3> QED
      BY <1>1, <2>2, <3>1, EnteringSound DEF taf_pa_file_Open
  <2> QED
    BY <1>2, <2>1, <2>2
<1>3. ASSUME NEW p \in Paths, NEW q \in Paths, taf_pa_file_Copy(p, q) \/ taf_pa_file_Rename(p, q)
      PROVE  FilesIInv'
  <2>1. p # q
    BY <1>3 DEF taf_pa_file_Copy, taf_pa_file_Rename
  <2>2. /\ Sound(Copying(p, q), There) /\ Sound(Renaming(p, q), There)
        /\ Sound(RenamingByCopy(p, q), There)
    BY <2>1, CopyingSound, RenamingSound, RenamingByCopySound
  <2>3. \/ Calls(Copying(p, q)) \/ Calls(Renaming(p, q)) \/ Calls(RenamingByCopy(p, q))
    BY <1>3 DEF taf_pa_file_Copy, taf_pa_file_Rename
  <2> QED
    BY <1>1, <2>2, <2>3
<1>4. ASSUME NEW fd \in fds, taf_pa_file_Write(fd) PROVE FilesIInv'
  <2>1. PICK n \in Names : names[n] = fd.id
    BY <1>4 DEF taf_pa_file_Write
  <2>2. PICK content \in Versions : Becomes(fd.id, [inodes[fd.id] EXCEPT !.data = content])
    BY <1>4 DEF taf_pa_file_Write
  <2> DEFINE f == [inodes[names[n]] EXCEPT !.data = content]
  <2>3. content \in Data
    BY DEF Data, Whole
  <2>4. Exists(n) => f \in File
    BY <2>3, AtIs, FileIs
  <2>5. Becomes(names[n], f)
    BY <2>1, <2>2
  <2> HIDE DEF f
  <2>6. Disk' /\ names' = names
    BY <2>4, <2>5, BecomesDisk
  <2>7. Ids \subseteq Ids'
    <3>1. \E i, g : inodes' = [inodes EXCEPT ![i] = g]
      BY <2>5, Zenon DEF Becomes
    <3> QED
      BY <3>1, IdsGrow, Zenon
  <2>8. There' = There
    BY <2>6 DEF There, Exists
  <2>9. ClientTypeOK' /\ Descriptors'
    BY <1>4, <2>7 DEF taf_pa_file_Write, ClientTypeOK, Descriptors
  <2>10. Sound(todo, There)'
    BY <1>4, <2>8 DEF taf_pa_file_Write
  <2> QED
    BY <2>6, <2>9, <2>10
<1>5. ASSUME NEW fd \in fds, taf_pa_file_Close(fd) PROVE FilesIInv'
  <2>1. Disk' /\ There' = There /\ Ids' = Ids
    BY <1>5, SameDisk DEF taf_pa_file_Close, diskVars, There, Exists, Ids
  <2>2. ClientTypeOK' /\ Descriptors'
    BY <1>5, <2>1 DEF taf_pa_file_Close, promiseVars, ClientTypeOK, Descriptors
  <2>3. Sound(todo, There)'
    <3>1. CASE todo' = todo
      BY <2>1, <3>1
    <3>2. ASSUME NEW p \in Paths, names[Primary(p)] = fd.id, todo' = Closing(p)
          PROVE  Sound(todo, There)'
      <4>1. p \in There
        BY <3>2, ThereIs DEF Descriptors
      <4> QED
        BY <2>1, <3>2, <4>1, ClosingSound
    <3> QED
      BY <1>5, <3>1, <3>2 DEF taf_pa_file_Close
  <2> QED
    BY <2>1, <2>2, <2>3
<1> QED
  BY <1>2, <1>3, <1>4, <1>5 DEF ClientCalls

\* A failure, a crash and damage.
LEMMA TroubleStep ==
    ASSUME FilesIInv, SystemCallFails \/ Crash \/ \E p \in Paths : Damage(p)
    PROVE  FilesIInv'
<1> USE DEF FilesIInv
<1>1. ASSUME trouble < MaxTrouble, trouble' = trouble + 1 PROVE trouble' \in 0..MaxTrouble
  BY <1>1, FilesAssumption DEF ClientTypeOK
<1>2. CASE SystemCallFails
  <2>1. /\ todo # <<>> /\ Head(todo).do \notin Decisions /\ UNCHANGED diskVars
        /\ trouble' \in 0..MaxTrouble
    BY <1>1, <1>2 DEF SystemCallFails, NoCall, Fails
  <2>2. Disk' /\ There' = There /\ Ids' = Ids
    BY <2>1, SameDisk DEF diskVars, There, Exists, Ids
  <2>3. CASE EndCall /\ UNCHANGED promiseVars
    <3>1. ClientTypeOK' /\ Descriptors'
      BY <1>2, <2>1, <2>2, <2>3, Zenon
         DEF SystemCallFails, EndCall, promiseVars, ClientTypeOK, Descriptors
    <3> QED
      BY <2>2, <2>3, <3>1, EndSound DEF EndCall
  <2>4. CASE Head(todo).do \notin {"open", "move"} /\ Fails
    <3>1. Risky(Head(todo))
      BY <2>1, <2>4 DEF Risky, Decisions
    <3>2. Sound(todo, There)'
      BY <2>1, <2>4, <3>1, FailsSound
    <3>3. Path \in Paths
      BY <2>1, HeadIs
    <3>4. ClientTypeOK' /\ Descriptors'
      BY <1>2, <2>1, <2>2, <2>4, <3>3 DEF SystemCallFails, Fails, ClientTypeOK, Descriptors
    <3> QED
      BY <2>2, <3>2, <3>4
  <2> QED
    BY <1>2, <2>3, <2>4 DEF SystemCallFails
<1>3. CASE Crash
  <2>1. Disk'
    BY <1>3, CrashDisk
  <2>2. Sound(todo, There)'
    BY <1>3, EndSound DEF Crash
  <2>3. ClientTypeOK' /\ Descriptors'
    BY <1>1, <1>3, Zenon DEF Crash, promiseVars, ClientTypeOK, Descriptors
  <2> QED
    BY <2>1, <2>2, <2>3
<1>4. ASSUME NEW p \in Paths, Damage(p) PROVE FilesIInv'
  <2>0. Primary(p) \in Names /\ Backup(p) \in Names
    BY NamesAre
  <2>1. ASSUME NEW n \in Names, NEW label \in Data \cup {"none"}, Exists(n), Rots(n, label)
        PROVE  Disk' /\ Ids \subseteq Ids'
    <3>1. \E i, f : inodes' = [inodes EXCEPT ![i] = f]
      BY <2>1, Zenon DEF Rots
    <3> QED
      BY <2>1, <3>1, RotsDisk, IdsGrow, Zenon
  <2>2. ASSUME NEW n \in Names, Validates(At(n))
        PROVE  Exists(n) /\ At(n).data \in Data /\ At(n).label \in Data \cup {"none"}
    BY <2>2, AtIs, FileIs DEF Validates, NoFile
  <2>3. Disk' /\ Ids \subseteq Ids'
    <3>1. CASE /\ Validates(At(Primary(p)))
               /\ Rots(Primary(p), Content(p)) \/ Rots(Primary(p), "none")
      <4>1. Exists(Primary(p)) /\ Content(p) \in Data
        BY <2>0, <2>2, <3>1 DEF Content
      <4> QED
        BY <2>0, <2>1, <3>1, <4>1
    <3>2. CASE Disappears(Primary(p))
      <4>1. inodes' = inodes
        BY <3>2 DEF Disappears
      <4> QED
        BY <2>0, <3>2, <4>1, DisappearsDisk, IdsGrow
    <3>3. CASE Validates(At(Backup(p))) /\ Rots(Backup(p), At(Backup(p)).label)
      BY <2>0, <2>1, <2>2, <3>3
    <3> QED
      BY <1>4, <3>1, <3>2, <3>3 DEF Damage
  <2>4. ClientTypeOK' /\ Descriptors'
    BY <1>1, <1>4, <2>3 DEF Damage, ClientTypeOK, Descriptors
  <2>5. Sound(todo, There)'
    BY <1>4, EndSound DEF Damage, NoCall
  <2> QED
    BY <2>3, <2>4, <2>5
<1> QED
  BY <1>2, <1>3, <1>4

\* The files a service finds when it starts.
LEMMA FilesInitInv == FilesInit => FilesIInv
<1> SUFFICES ASSUME FilesInit PROVE FilesIInv
  OBVIOUS
<1>1. PICK kept \in SUBSET Paths, untracked \in SUBSET Paths :
          /\ LET files == [n \in Names |->
                     IF n[1] \in kept THEN [data |-> n[1], label |-> n[1]]
                     ELSE IF n[1] \in untracked /\ n[2] = "primary"
                     THEN [data |-> n[1], label |-> "none"] ELSE NoFile]
             IN  names = NamesFor(files) /\ inodes = InodesFor(files)
          /\ worth = [p \in Paths |->
                 IF p \in kept \cup untracked THEN {p} ELSE {"missing"}]
  BY Zenon DEF FilesInit
<1> DEFINE files == [n \in Names |->
                IF n[1] \in kept THEN [data |-> n[1], label |-> n[1]]
                ELSE IF n[1] \in untracked /\ n[2] = "primary"
                THEN [data |-> n[1], label |-> "none"] ELSE NoFile]
<1>2. files \in [Names -> File \cup {NoFile}]
  <2>1. \A n \in Names : n[1] \in Data
    BY DEF Names, Data, Whole
  <2>2. \A n \in Names : files[n] \in File \cup {NoFile}
    BY <2>1, FileIs
  <2> QED
    BY <2>2
<1>3. names = NamesFor(files) /\ inodes = InodesFor(files)
  BY <1>1
<1> HIDE DEF files
<1>4. Len(inodes) = Cardinality(Names)
  BY <1>3, NumberIs DEF InodesFor
<1>5. namesLeft = {names} /\ inodesLeft = [i \in 1..Len(inodes) |-> {inodes[i]}]
  BY <1>4 DEF FilesInit
<1>6. Disk
  BY <1>2, <1>3, <1>5, SettledDisk DEF Settled
<1>7. ClientTypeOK /\ Descriptors
  <2>1. worth \in [Paths -> SUBSET (Whole \cup {"missing"})]
    <3>1. worth = [p \in Paths |-> IF p \in kept \cup untracked THEN {p} ELSE {"missing"}]
      BY <1>1
    <3> QED
      BY <3>1 DEF Whole
  <2>2. 0 \in 0..MaxRounds /\ 0 \in 0..MaxTrouble
    BY FilesAssumption
  <2> QED
    BY <2>1, <2>2, Zenon DEF FilesInit, ClientTypeOK, Descriptors
<1>8. Sound(todo, There)
  BY EmptySound DEF FilesInit
<1> QED
  BY <1>6, <1>7, <1>8 DEF FilesIInv

\* The invariant of the files is inductive.
LEMMA FilesStep == FilesIInv /\ [FilesNext]_fileVars => FilesIInv'
<1> SUFFICES ASSUME FilesIInv, [FilesNext]_fileVars PROVE FilesIInv'
  OBVIOUS
<1>1. CASE ClientCalls
  BY <1>1, ClientStep
<1>2. CASE StepNext
  BY <1>2, StepDisk, StepSound, StepClient DEF FilesIInv
<1>3. CASE SystemCallFails \/ Crash \/ \E p \in Paths : Damage(p)
  BY <1>3, TroubleStep
<1>4. CASE UNCHANGED fileVars
  <2>1. Disk'
    BY <1>4, SameDisk DEF fileVars, FilesIInv
  <2>2. ClientTypeOK' /\ Descriptors' /\ Sound(todo, There)'
    BY <1>4 DEF fileVars, diskVars, promiseVars, FilesIInv, ClientTypeOK, Descriptors, Ids,
                There, Exists
  <2> QED
    BY <2>1, <2>2 DEF FilesIInv
<1> QED
  BY <1>1, <1>2, <1>3, <1>4 DEF FilesNext

\* So it always holds.
LEMMA FilesInvariant == FilesSpec => []FilesIInv
<1> QED
  BY FilesInitInv, FilesStep, PTL DEF FilesSpec

\* The key store's files: every name leads to a file, every version a crash may leave of one
\* is a file, and no step copies or backs up a file that is not there, whatever failed, was
\* damaged or was cut before it (tafFilePa.c:1520, 1741, 1940).
THEOREM FilesTypes == FilesSpec => []FilesTypeOK
<1>1. FilesIInv => FilesTypeOK
  BY DEF FilesIInv, Disk, DiskTypeOK, ClientTypeOK, FilesTypeOK
<1> QED
  BY <1>1, FilesInvariant, PTL

-----------------------------------------------------------------------------
(* What a crash leaves.  A call is a chain of steps: which step may follow   *)
(* which, and what the whole is for, is what its last step says.             *)

BlockDeeds == {"copy_to_backup", "sync_copy_name", "label", "label_backup", "sync_backup"}
RestoreDeeds ==
    {"copy_to_primary", "sync_restored_name", "label_restored", "sync_restored", "sync_name_again"}
ClientFlags == {O_RDONLY, O_CREAT, O_TRUNC, O_EXCL}

\* Step u comes after step s: of the same path, unless it says otherwise.
FollowsHere(s, u) ==
    \/ s.do \in {"enter", "open"} /\ s.flags = O_TRUNC /\ u.do = "fill_in_part"
    \/ s.do = "fill_in_part" /\ u.do = "fill"
    \/ s.do = "fill" /\ u.do = "copy_context"
    \/ s.do = "copy_context" /\ u.do = "filled"
    \/ s.do = "filled" /\ u.do = "checksum"
    \/ s.do = "checksum" /\ u.do = "sync"
    \/ s.do = "sync" /\ u.do = "refresh"
    \/ s.do = "refresh" /\ u.do \in {"closed", "discarded"}
    \/ s.do \in {"closed", "match"} /\ u.do = "match"
    \/ s.do \in {"leave", "discarded"} /\ u.do = "unlink"
    \/ s.do = "unlink" /\ u.do = "sync_unlink"
    \/ s.do = "sync_unlink" /\ u.do = "unlink_backup"
    \/ s.do = "unlink_backup" /\ u.do = "sync_unlink_backup"
    \/ s.do = "sync_unlink_backup" /\ u.do = "deleted"
    \/ s.do = "copy_to_backup" /\ u.do = "sync_copy_name"
    \/ s.do = "sync_copy_name" /\ u.do = "label"
    \/ s.do = "label" /\ u.do = "label_backup"
    \/ s.do = "label_backup" /\ u.do = "sync_backup"
    \/ s.do = "sync_backup" /\ u.do \in {"tracked", "refreshed", "closed", "discarded"}
    \/ s.do = "copy_to_primary" /\ u.do = "sync_restored_name"
    \/ s.do = "sync_restored_name" /\ u.do = "label_restored"
    \/ s.do = "label_restored" /\ u.do = "sync_restored"
    \/ s.do = "sync_restored" /\ u.do = "sync_name_again"
    \/ s.do = "sync_name_again" /\ u.do \in {"restored", "tracked"}
    \/ s.do \in {"tracked", "refreshed"} /\ u.do = "open"
    \/ s.do = "restored" /\ u.do = "open" /\ u.flags = O_CREAT
    \/ s.do = "sync_move" /\ u.do = "after_move"
    \/ s.do = "after_unlink" /\ u.do = "checksum_moved"
    \/ s.do = "checksum_moved" /\ u.do = "copy_to_backup"
FollowsThere(s, u) ==
    \/ /\ s.do \in {"enter", "open"} /\ s.flags = O_RDONLY
       /\ u.do = "enter" /\ u.flags = O_TRUNC /\ u.at # s.at
    \/ s.do = "match" /\ u.do = "leave" /\ u.to = s.at /\ u.at # s.at
    \/ s.do = "move" /\ u.do = "sync_move" /\ u.at = s.to
    \/ s.do = "after_move" /\ u.do = "unlink_backup" /\ u.at # s.at
    \/ s.do = "sync_unlink_backup" /\ u.do = "after_unlink" /\ u.at # s.at
    \/ s.do = "sync_unlink_backup" /\ u.do = "renamed" /\ u.to = s.at
    \/ s.do = "moved" /\ u.do = "renamed"
    \/ s.do = "sync_backup" /\ u.do = "moved" /\ u.to = s.at
Follows(s, u) == (u.at = s.at /\ FollowsHere(s, u)) \/ FollowsThere(s, u)

Endings == {"enter", "open", "closed", "deleted", "match", "renamed"}
PairDeeds == {"move", "moved", "renamed"}
TargetDeeds == {"sync_move", "after_move", "after_unlink", "checksum_moved"}

\* Step s may be in a call whose last step is l.
Belongs(s, l) ==
    /\ s.do \in {"enter", "open"} => s.flags \in ClientFlags
    /\ l.do = "renamed" =>
         /\ l.at # l.to
         /\ \/ s.do \in PairDeeds /\ s.at = l.at /\ s.to = l.to
            \/ s.do \in TargetDeeds \cup BlockDeeds /\ s.at = l.to
            \/ s.do \in {"unlink_backup", "sync_unlink_backup"} /\ s.at \in {l.at, l.to}
    /\ l.do # "renamed" => s.do \notin PairDeeds \cup TargetDeeds
    /\ l.do = "deleted" /\ s.do = "fill" => s.to = l.at /\ s.at # l.at
    /\ s.do = "leave" => l.do = "deleted" /\ s.at = l.at
    /\ l.do = "deleted" /\ s.do \in {"enter", "open"} /\ s.at # l.at => s.flags = O_TRUNC

Linked(t) == \A i \in 1..(Len(t) - 1) : Follows(t[i], t[i + 1])
All(t, l) == \A i \in 1..Len(t) : Belongs(t[i], l)
Chained(t) ==
    /\ t \in Seq(FileSteps)
    /\ Linked(t)
    /\ t # <<>> => t[Len(t)].do \in Endings /\ All(t, t[Len(t)])

\* What is left of a chain after its first step.
LEMMA TailChained ==
    ASSUME NEW t, Chained(t), t # <<>>
    PROVE  /\ Chained(Tail(t)) /\ Head(t) = t[1] /\ Belongs(Head(t), t[Len(t)])
           /\ Head(t) \in FileSteps /\ Len(Tail(t)) = Len(t) - 1
           /\ Tail(t) # <<>> => /\ Follows(Head(t), Head(Tail(t)))
                                /\ Tail(t)[Len(Tail(t))] = t[Len(t)]
                                /\ Head(Tail(t)) = t[2] /\ Len(t) > 1
           /\ Tail(t) = <<>> => Head(t).do \in Endings /\ Len(t) = 1 /\ t[Len(t)] = Head(t)
<1> DEFINE u == Tail(t)
<1>1. /\ t \in Seq(FileSteps) /\ Len(t) \in Nat /\ Len(t) >= 1 /\ Head(t) = t[1]
      /\ u \in Seq(FileSteps) /\ Len(u) = Len(t) - 1
      /\ \A i \in 1..Len(u) : u[i] = t[i + 1]
  BY HeadTailProperties DEF Chained
<1>2. /\ Linked(t) /\ All(t, t[Len(t)]) /\ t[Len(t)].do \in Endings
  BY DEF Chained
<1> HIDE DEF u
<1>3. Linked(u)
  <2> SUFFICES ASSUME NEW i \in 1..(Len(u) - 1) PROVE Follows(u[i], u[i + 1])
    BY DEF Linked
  <2>1. i + 1 \in 1..(Len(t) - 1) /\ u[i] = t[i + 1] /\ u[i + 1] = t[(i + 1) + 1]
    BY <1>1
  <2> QED
    BY <1>2, <2>1 DEF Linked
<1>4. u # <<>> => u[Len(u)] = t[Len(t)] /\ Len(u) >= 1
  <2>1. u # <<>> => Len(u) >= 1
    BY <1>1
  <2> QED
    BY <1>1, <2>1
<1>5. All(u, t[Len(t)])
  <2> SUFFICES ASSUME NEW i \in 1..Len(u) PROVE Belongs(u[i], t[Len(t)])
    BY DEF All
  <2>1. i + 1 \in 1..Len(t) /\ u[i] = t[i + 1]
    BY <1>1
  <2> QED
    BY <1>2, <2>1 DEF All
<1>6. Chained(u)
  BY <1>1, <1>2, <1>3, <1>4, <1>5 DEF Chained
<1>7. u # <<>> => Follows(Head(t), Head(u)) /\ Head(u) = t[2] /\ Len(t) > 1
  <2> HAVE u # <<>>
  <2>1. Head(u) = u[1] /\ 1 \in 1..Len(u) /\ 1 \in 1..(Len(t) - 1)
    BY <1>1, <1>4
  <2>2. u[1] = t[1 + 1] /\ Follows(t[1], t[1 + 1])
    BY <1>1, <1>2, <2>1 DEF Linked
  <2> QED
    BY <1>1, <2>1, <2>2
<1>8. u = <<>> => Len(t) = 1
  BY <1>1
<1>9. Belongs(t[1], t[Len(t)]) /\ t[1] \in FileSteps
  <2>1. 1 \in 1..Len(t)
    BY <1>1
  <2> QED
    BY <1>1, <1>2, <2>1 DEF All
<1> QED
  BY <1>1, <1>2, <1>4, <1>6, <1>7, <1>8, <1>9 DEF u

\* Steps put before a chain.
LEMMA ConcatChained ==
    ASSUME NEW a \in Seq(FileSteps), NEW b, Linked(a), Chained(b), a # <<>>,
           b = <<>> => a[Len(a)].do \in Endings /\ All(a, a[Len(a)]),
           b # <<>> => Follows(a[Len(a)], Head(b)) /\ All(a, b[Len(b)])
    PROVE  /\ Chained(a \o b) /\ a \o b # <<>> /\ Head(a \o b) = Head(a)
           /\ (a \o b)[Len(a \o b)] = IF b = <<>> THEN a[Len(a)] ELSE b[Len(b)]
<1> DEFINE t == a \o b
           n == Len(a)
<1>1. b \in Seq(FileSteps) /\ Linked(b)
  BY DEF Chained
<1>2. /\ t \in Seq(FileSteps) /\ Len(t) = n + Len(b) /\ n \in Nat /\ Len(b) \in Nat /\ n >= 1
      /\ \A i \in 1..Len(t) : t[i] = IF i <= n THEN a[i] ELSE b[i - n]
  BY <1>1, ConcatProperties
<1> HIDE DEF t, n
<1>3. Linked(t)
  <2> SUFFICES ASSUME NEW i \in 1..(Len(t) - 1) PROVE Follows(t[i], t[i + 1])
    BY DEF Linked
  <2>1. CASE i < n
    <3>1. t[i] = a[i] /\ t[i + 1] = a[i + 1] /\ i \in 1..(n - 1)
      BY <1>2, <2>1
    <3> QED
      BY <3>1 DEF Linked, n
  <2>2. CASE i = n
    <3>1. t[i] = a[n] /\ t[i + 1] = b[1] /\ Len(b) >= 1
      BY <1>2, <2>2
    <3>2. b # <<>> /\ Head(b) = b[1]
      BY <1>1, <3>1, HeadTailProperties
    <3> QED
      BY <3>1, <3>2 DEF n
  <2>3. CASE i > n
    <3>1. t[i] = b[i - n] /\ t[i + 1] = b[(i - n) + 1] /\ i - n \in 1..(Len(b) - 1)
      <4>1. (i + 1) - n = (i - n) + 1 /\ i \in 1..Len(t) /\ i + 1 \in 1..Len(t) /\ ~(i + 1 <= n)
        BY <1>2, <2>3
      <4> QED
        BY <1>2, <2>3, <4>1
    <3> QED
      BY <1>1, <3>1 DEF Linked
  <2> QED
    BY <1>2, <2>1, <2>2, <2>3
<1>4. t[Len(t)] = IF b = <<>> THEN a[n] ELSE b[Len(b)]
  <2>1. CASE b = <<>>
    BY <1>2, <2>1
  <2>2. CASE b # <<>>
    <3>1. Len(b) >= 1
      BY <1>1, <2>2
    <3> QED
      BY <1>2, <2>2, <3>1
  <2> QED
    BY <2>1, <2>2
<1> DEFINE l == IF b = <<>> THEN a[n] ELSE b[Len(b)]
<1>5. l.do \in Endings /\ All(a, l) /\ All(b, l)
  <2>1. CASE b = <<>>
    BY <2>1 DEF All, n
  <2>2. CASE b # <<>>
    BY <2>2 DEF Chained
  <2> QED
    BY <2>1, <2>2
<1> HIDE DEF l
<1>6. All(t, l)
  <2> SUFFICES ASSUME NEW i \in 1..Len(t) PROVE Belongs(t[i], l)
    BY DEF All
  <2>1. CASE i <= n
    BY <1>2, <1>5, <2>1 DEF All, n
  <2>2. CASE i > n
    <3>1. i - n \in 1..Len(b) /\ t[i] = b[i - n]
      BY <1>2, <2>2
    <3> QED
      BY <1>5, <3>1 DEF All
  <2> QED
    BY <1>2, <2>1, <2>2
<1>7. t[Len(t)] = l
  BY <1>4 DEF l
<1>8. t # <<>> /\ Head(t) = Head(a)
  <2>1. Head(a) = a[1]
    BY HeadTailProperties
  <2>2. Head(t) = t[1] /\ t # <<>>
    BY <1>2, HeadTailProperties
  <2> QED
    BY <1>2, <2>1, <2>2
<1> QED
  BY <1>2, <1>3, <1>4, <1>5, <1>6, <1>7, <1>8 DEF Chained, t, n

\* The landing ahead.
LEMMA LandingIs ==
    ASSUME NEW t \in Seq(FileSteps)
    PROVE  \/ FromLanding(t) = <<>> /\ \A i \in 1..Len(t) : t[i].do \notin Landings
           \/ \E k \in 1..Len(t) :
                  /\ t[k].do \in Landings /\ \A j \in 1..(k - 1) : t[j].do \notin Landings
                  /\ FromLanding(t) = SubSeq(t, k, Len(t)) /\ FromLanding(t) # <<>>
                  /\ FromLanding(t) \in Seq(FileSteps) /\ Len(FromLanding(t)) = Len(t) - k + 1
                  /\ \A i \in 1..(Len(t) - k + 1) : FromLanding(t)[i] = t[k + i - 1]
<1> DEFINE at == {i \in 1..Len(t) : t[i].do \in Landings}
<1>1. CASE at = {}
  BY <1>1 DEF FromLanding
<1>2. CASE at # {}
  <2> DEFINE k == CHOOSE i \in at : \A j \in at : i <= j
  <2>1. k \in at /\ \A j \in at : k <= j
    <3>1. at \subseteq Nat
      OBVIOUS
    <3>2. \E i \in at : \A j \in at : i <= j
      <4> DEFINE Less == OpToRel(<, Nat)
      <4>1. IsWellFoundedOn(Less, Nat)
        BY NatLessThanWellFounded, Zenon
      <4>2. PICK i \in at : \A j \in at : ~(<<j, i>> \in Less)
        <5> HIDE DEF at, Less
        <5> QED
          BY <1>2, <3>1, <4>1, WFMin, Zenon
      <4>3. \A j \in at : ~(j < i)
        BY <4>2, <3>1, Zenon DEF OpToRel, Less
      <4> QED
        BY <4>3, <3>1
    <3> QED
      BY <3>2, Zenon
  <2>2. FromLanding(t) = SubSeq(t, k, Len(t))
    BY <1>2, Zenon DEF FromLanding
  <2> HIDE DEF k, at
  <2>3. k \in 1..Len(t) /\ t[k].do \in Landings /\ \A j \in 1..(k - 1) : t[j].do \notin Landings
    BY <2>1 DEF at
  <2> DEFINE u == SubSeq(t, k, Len(t))
  <2>4. /\ u \in Seq(FileSteps) /\ Len(u) = Len(t) - k + 1
        /\ \A i \in 1..(Len(t) - k + 1) : u[i] = t[k + i - 1]
    BY <2>3
  <2> HIDE DEF u
  <2>5. u # <<>>
    <3>1. Len(t) \in Nat
      OBVIOUS
    <3>2. Len(u) # 0
      BY <2>3, <2>4, <3>1
    <3> QED
      BY <3>2
  <2> QED
    BY <2>2, <2>3, <2>4, <2>5 DEF u
<1> QED
  BY <1>1, <1>2

\* A landing lands on itself.
LEMMA LandingHere ==
    ASSUME NEW t \in Seq(FileSteps), t # <<>>, Head(t).do \in Landings
    PROVE  FromLanding(t) # <<>> /\ Head(FromLanding(t)) = Head(t)
<1>1. 1 \in 1..Len(t) /\ Head(t) = t[1]
  BY HeadTailProperties
<1>2. PICK k \in 1..Len(t) :
          /\ \A j \in 1..(k - 1) : t[j].do \notin Landings
          /\ FromLanding(t) # <<>> /\ FromLanding(t) \in Seq(FileSteps)
          /\ Len(FromLanding(t)) = Len(t) - k + 1
          /\ \A i \in 1..(Len(t) - k + 1) : FromLanding(t)[i] = t[k + i - 1]
  BY <1>1, LandingIs
<1>3. k = 1
  BY <1>1, <1>2
<1>4. FromLanding(t)[1] = t[1]
  BY <1>1, <1>2, <1>3
<1> QED
  BY <1>1, <1>2, <1>4, HeadTailProperties

\* A step that is no landing lands where those after it do.
LEMMA LandingAfter ==
    ASSUME NEW t \in Seq(FileSteps), t # <<>>, Head(t).do \notin Landings,
           FromLanding(Tail(t)) # <<>>
    PROVE  FromLanding(t) # <<>> /\ Head(FromLanding(t)) = Head(FromLanding(Tail(t)))
<1> DEFINE u == Tail(t)
<1>1. /\ Len(t) \in Nat /\ Len(t) >= 1 /\ Head(t) = t[1]
      /\ u \in Seq(FileSteps) /\ Len(u) = Len(t) - 1
      /\ \A i \in 1..Len(u) : u[i] = t[i + 1]
  BY HeadTailProperties
<1> HIDE DEF u
<1>2. PICK k \in 1..Len(u) :
          /\ u[k].do \in Landings /\ \A j \in 1..(k - 1) : u[j].do \notin Landings
          /\ FromLanding(u) # <<>> /\ FromLanding(u) \in Seq(FileSteps)
          /\ Len(FromLanding(u)) = Len(u) - k + 1
          /\ \A i \in 1..(Len(u) - k + 1) : FromLanding(u)[i] = u[k + i - 1]
  BY <1>1, LandingIs DEF u
<1>3. Head(FromLanding(u)) = u[k]
  <2>1. Head(FromLanding(u)) = FromLanding(u)[1]
    BY <1>2, HeadTailProperties
  <2> QED
    BY <1>1, <1>2, <2>1
<1>4. k + 1 \in 1..Len(t) /\ t[k + 1] = u[k]
  BY <1>1, <1>2
<1>5. PICK m \in 1..Len(t) :
          /\ t[m].do \in Landings /\ \A j \in 1..(m - 1) : t[j].do \notin Landings
          /\ FromLanding(t) # <<>> /\ FromLanding(t) \in Seq(FileSteps)
          /\ Len(FromLanding(t)) = Len(t) - m + 1
          /\ \A i \in 1..(Len(t) - m + 1) : FromLanding(t)[i] = t[m + i - 1]
  BY <1>2, <1>4, LandingIs
<1>6. Head(FromLanding(t)) = t[m]
  <2>1. Head(FromLanding(t)) = FromLanding(t)[1]
    BY <1>5, HeadTailProperties
  <2> QED
    BY <1>1, <1>5, <2>1
<1>7. m = k + 1
  <2>1. m # 1
    BY <1>1, <1>5
  <2>2. m - 1 \in 1..Len(u) /\ u[m - 1] = t[m]
    BY <1>1, <1>5, <2>1
  <2>3. ~(m - 1 < k)
    BY <1>2, <1>5, <2>2
  <2>4. ~(k + 1 < m)
    BY <1>2, <1>4, <1>5
  <2> QED
    BY <1>2, <1>5, <2>3, <2>4
<1> QED
  BY <1>3, <1>4, <1>5, <1>6, <1>7 DEF u

\* What is left of a chain from its next landing on.
LEMMA SuffixChained ==
    ASSUME NEW t, Chained(t), t # <<>>
    PROVE  /\ Chained(FromLanding(t))
           /\ FromLanding(t) # <<>> =>
                  /\ FromLanding(t)[Len(FromLanding(t))] = t[Len(t)]
                  /\ Head(FromLanding(t)).do \in Landings
<1>1. t \in Seq(FileSteps) /\ Linked(t) /\ All(t, t[Len(t)]) /\ t[Len(t)].do \in Endings
  BY DEF Chained
<1>2. CASE FromLanding(t) = <<>>
  BY <1>2 DEF Chained, Linked
<1>3. CASE FromLanding(t) # <<>>
  <2> DEFINE u == FromLanding(t)
  <2>1. PICK k \in 1..Len(t) :
          /\ t[k].do \in Landings
          /\ u \in Seq(FileSteps) /\ Len(u) = Len(t) - k + 1
          /\ \A i \in 1..(Len(t) - k + 1) : u[i] = t[k + i - 1]
    BY <1>1, <1>3, LandingIs
  <2> HIDE DEF u
  <2>2. Len(t) \in Nat /\ \A i \in 1..Len(u) : u[i] = t[k + i - 1] /\ k + i - 1 \in 1..Len(t)
    BY <1>1, <2>1
  <2>3. Linked(u)
    <3> SUFFICES ASSUME NEW i \in 1..(Len(u) - 1) PROVE Follows(u[i], u[i + 1])
      BY DEF Linked
    <3> DEFINE a == k + i - 1
    <3>1. u[i] = t[a] /\ u[i + 1] = t[a + 1] /\ a \in 1..(Len(t) - 1)
      <4>1. k + (i + 1) - 1 = (k + i - 1) + 1
        BY <2>1, <2>2
      <4> QED
        BY <2>1, <2>2, <4>1
    <3> HIDE DEF a
    <3> QED
      BY <1>1, <3>1 DEF Linked
  <2>4. u[Len(u)] = t[Len(t)]
    BY <2>1, <2>2
  <2>5. All(u, t[Len(t)])
    BY <1>1, <2>2 DEF All
  <2>6. Head(u) = t[k]
    <3>1. u # <<>> /\ 1 \in 1..Len(u)
      BY <2>1, <2>2
    <3>2. Head(u) = u[1]
      BY <2>1, <3>1, HeadTailProperties
    <3> QED
      BY <2>1, <2>2, <3>1, <3>2
  <2> QED
    BY <1>1, <2>1, <2>3, <2>4, <2>5, <2>6 DEF Chained, u
<1> QED
  BY <1>2, <1>3

\* Where a step that fails lands.
Lands(t) ==
    LET s == Head(t)
        l == Head(FromLanding(t))
    IN  /\ FromLanding(t) # <<>>
        /\ s.do \in BlockDeeds =>
               \/ l.do \in {"tracked", "refreshed", "closed", "discarded"} /\ l.at = s.at
               \/ l.do = "moved" /\ l.to = s.at
        /\ s.do \in RestoreDeeds => l.do \in {"restored", "tracked"} /\ l.at = s.at
        /\ s.do \in {"fill_in_part", "fill", "copy_context"} => l.do = "filled" /\ l.at = s.at
        /\ s.do \in {"checksum", "sync", "refresh"} => l.do \in {"closed", "discarded"} /\ l.at = s.at
        /\ s.do \in {"unlink", "sync_unlink"} => l.do = "deleted" /\ l.at = s.at
        /\ s.do \in {"unlink_backup", "sync_unlink_backup"} =>
               \/ l.do = "deleted" /\ l.at = s.at
               \/ l.do = "after_unlink" /\ l.at # s.at
               \/ l.do = "renamed"
        /\ s.do = "sync_move" => l.do = "after_move" /\ l.at = s.at
        /\ s.do = "checksum_moved" => l.do = "moved" /\ l.to = s.at

\* The steps that can fail and have a landing ahead.
Landed == BlockDeeds \cup RestoreDeeds \cup
    {"fill_in_part", "fill", "copy_context", "checksum", "sync", "refresh", "unlink", "sync_unlink",
     "unlink_backup", "sync_unlink_backup", "sync_move", "checksum_moved"}

\* The landings that a call goes on from.
LEMMA LandsAhead ==
    ASSUME NEW t, Chained(t), t # <<>>, Head(t).do \in Landed PROVE Lands(t)
<1> DEFINE After(do) ==
             \A u : Chained(u) /\ u # <<>> /\ Head(u).do = do => Lands(u)
<1>1. ASSUME NEW u, Chained(u), u # <<>>, Head(u).do \in Landed
      PROVE  /\ Tail(u) # <<>> /\ Chained(Tail(u)) /\ Follows(Head(u), Head(Tail(u)))
             /\ Head(Tail(u)).do \in Landings =>
                    /\ FromLanding(u) # <<>> /\ Head(FromLanding(u)) = Head(Tail(u))
             /\ Lands(Tail(u)) =>
                    /\ FromLanding(u) # <<>> /\ Head(FromLanding(u)) = Head(FromLanding(Tail(u)))
  <2>1. u \in Seq(FileSteps) /\ Head(u).do \notin Landings /\ Head(u).do \notin Endings
    BY <1>1 DEF Chained, Landed, Landings, Endings, BlockDeeds, RestoreDeeds
  <2>2. Tail(u) # <<>> /\ Chained(Tail(u)) /\ Follows(Head(u), Head(Tail(u)))
    BY <1>1, <2>1, TailChained
  <2>3. Tail(u) \in Seq(FileSteps)
    BY <2>2 DEF Chained
  <2>4. Head(Tail(u)).do \in Landings =>
            FromLanding(Tail(u)) # <<>> /\ Head(FromLanding(Tail(u))) = Head(Tail(u))
    BY <2>2, <2>3, LandingHere
  <2>5. FromLanding(Tail(u)) # <<>> =>
            FromLanding(u) # <<>> /\ Head(FromLanding(u)) = Head(FromLanding(Tail(u)))
    BY <1>1, <2>1, LandingAfter
  <2> QED
    BY <2>2, <2>4, <2>5 DEF Lands
<1>2. \A do \in Landed : do \in {"sync_backup", "sync_name_again", "copy_context", "refresh",
                                 "sync_unlink_backup", "sync_move"} => After(do)
  <2> SUFFICES ASSUME NEW u, Chained(u), u # <<>>,
                      Head(u).do \in {"sync_backup", "sync_name_again", "copy_context", "refresh",
                                      "sync_unlink_backup", "sync_move"}
               PROVE  Lands(u)
    OBVIOUS
  <2> DEFINE s == Head(u)
             n == Head(Tail(u))
  <2>1. s.do \in Landed
    BY DEF Landed, BlockDeeds, RestoreDeeds
  <2>2. /\ Follows(s, n)
        /\ n.do \in Landings => FromLanding(u) # <<>> /\ Head(FromLanding(u)) = n
    BY <1>1, <2>1
  <2> HIDE DEF s, n
  <2>3. s.do \in {"sync_backup", "sync_name_again", "copy_context", "refresh",
                  "sync_unlink_backup", "sync_move"}
    BY DEF s
  <2>4. n.do \in Landings
    BY <2>2, <2>3 DEF Follows, FollowsHere, FollowsThere, Landings
  <2> QED
    BY <2>2, <2>3, <2>4
       DEF Lands, s, Follows, FollowsHere, FollowsThere, BlockDeeds, RestoreDeeds
<1>3. ASSUME NEW do \in Landed, NEW next \in Landed, After(next),
             <<do, next>> \in {
                 <<"label_backup", "sync_backup">>, <<"label", "label_backup">>,
                 <<"sync_copy_name", "label">>, <<"copy_to_backup", "sync_copy_name">>,
                 <<"sync_restored", "sync_name_again">>, <<"label_restored", "sync_restored">>,
                 <<"sync_restored_name", "label_restored">>,
                 <<"copy_to_primary", "sync_restored_name">>, <<"fill", "copy_context">>,
                 <<"fill_in_part", "fill">>, <<"sync", "refresh">>, <<"checksum", "sync">>,
                 <<"unlink_backup", "sync_unlink_backup">>}
      PROVE  After(do)
  <2> SUFFICES ASSUME NEW u, Chained(u), u # <<>>, Head(u).do = do PROVE Lands(u)
    OBVIOUS
  <2> DEFINE s == Head(u)
             n == Head(Tail(u))
             l == Head(FromLanding(u))
  <2>1. Tail(u) # <<>> /\ Chained(Tail(u)) /\ Follows(s, n)
    BY <1>1
  <2>2. s.do = do
    OBVIOUS
  <2>3. n.do = next /\ n.at = s.at
    <3> HIDE DEF s, n
    <3> QED
      BY <1>3, <2>1, <2>2 DEF Follows, FollowsHere, FollowsThere
  <2>4. Lands(Tail(u))
    BY <1>3, <2>1, <2>3
  <2>5. FromLanding(u) # <<>> /\ l = Head(FromLanding(Tail(u)))
    BY <1>1, <2>4
  <2> HIDE DEF s, n, l
  <2>6. s.do = do /\ n.do = next /\ n.at = s.at
    BY <2>2, <2>3
  <2>7. /\ n.do \in BlockDeeds =>
               \/ l.do \in {"tracked", "refreshed", "closed", "discarded"} /\ l.at = n.at
               \/ l.do = "moved" /\ l.to = n.at
        /\ n.do \in RestoreDeeds => l.do \in {"restored", "tracked"} /\ l.at = n.at
        /\ n.do \in {"fill_in_part", "fill", "copy_context"} => l.do = "filled" /\ l.at = n.at
        /\ n.do \in {"checksum", "sync", "refresh"} => l.do \in {"closed", "discarded"} /\ l.at = n.at
        /\ n.do \in {"unlink_backup", "sync_unlink_backup"} =>
               \/ l.do = "deleted" /\ l.at = n.at
               \/ l.do = "after_unlink" /\ l.at # n.at
               \/ l.do = "renamed"
    BY <2>4, <2>5 DEF Lands, n
  <2> QED
    BY <1>3, <2>5, <2>6, <2>7 DEF Lands, s, l, BlockDeeds, RestoreDeeds
<1>4. ASSUME NEW u, Chained(u), u # <<>>, FromLanding(u) # <<>>
      PROVE  Belongs(Head(u), u[Len(u)]) /\ Belongs(Head(FromLanding(u)), u[Len(u)])
             /\ Head(FromLanding(u)).do \in Landings
  BY <1>4, SuffixChained, TailChained, Zenon
<1>5. ASSUME NEW do \in Landed, NEW next \in Landed, After(next),
             <<do, next>> \in {<<"sync_unlink", "unlink_backup">>, <<"unlink", "sync_unlink">>,
                               <<"checksum_moved", "copy_to_backup">>}
      PROVE  After(do)
  <2> SUFFICES ASSUME NEW u, Chained(u), u # <<>>, Head(u).do = do PROVE Lands(u)
    OBVIOUS
  <2> DEFINE s == Head(u)
             n == Head(Tail(u))
             l == Head(FromLanding(u))
             e == u[Len(u)]
  <2>1. Tail(u) # <<>> /\ Chained(Tail(u)) /\ Follows(s, n)
    BY <1>1
  <2>2. s.do = do
    OBVIOUS
  <2>3. n.do = next /\ n.at = s.at
    <3> HIDE DEF s, n
    <3> QED
      BY <1>5, <2>1, <2>2 DEF Follows, FollowsHere, FollowsThere
  <2>4. Lands(Tail(u))
    BY <1>5, <2>1, <2>3
  <2>5. FromLanding(u) # <<>> /\ l = Head(FromLanding(Tail(u)))
    BY <1>1, <2>4
  <2>6. Belongs(s, e) /\ Belongs(l, e)
    BY <1>4, <2>5
  <2> HIDE DEF s, n, l, e
  <2>7. s.do = do /\ n.do = next /\ n.at = s.at
    BY <2>2, <2>3
  <2>8. /\ n.do \in BlockDeeds =>
               \/ l.do \in {"tracked", "refreshed", "closed", "discarded"} /\ l.at = n.at
               \/ l.do = "moved" /\ l.to = n.at
        /\ n.do \in {"unlink", "sync_unlink"} => l.do = "deleted" /\ l.at = n.at
        /\ n.do \in {"unlink_backup", "sync_unlink_backup"} =>
               \/ l.do = "deleted" /\ l.at = n.at
               \/ l.do = "after_unlink" /\ l.at # n.at
               \/ l.do = "renamed"
    BY <2>4, <2>5 DEF Lands, n
  <2>9. CASE do = "checksum_moved"
    <3>1. e.do = "renamed"
      BY <2>6, <2>7, <2>9 DEF Belongs, TargetDeeds
    <3>2. l.do = "moved" /\ l.to = n.at
      BY <1>5, <2>6, <2>7, <2>8, <2>9, <3>1 DEF Belongs, TargetDeeds, BlockDeeds, PairDeeds
    <3> QED
      BY <2>5, <2>7, <2>9, <3>2 DEF Lands, s, l, BlockDeeds, RestoreDeeds
  <2>10. CASE do \in {"unlink", "sync_unlink"}
    <3>1. e.do # "renamed"
      BY <2>6, <2>7, <2>10 DEF Belongs, TargetDeeds, PairDeeds, BlockDeeds
    <3>2. l.do = "deleted" /\ l.at = n.at
      BY <1>5, <2>6, <2>7, <2>8, <2>10, <3>1 DEF Belongs, TargetDeeds, PairDeeds
    <3> QED
      BY <2>5, <2>7, <2>10, <3>2 DEF Lands, s, l, BlockDeeds, RestoreDeeds
  <2> QED
    BY <1>5, <2>9, <2>10
<1> HIDE DEF After
<1>6. /\ \A do \in BlockDeeds \cup RestoreDeeds : do \in Landed
      /\ "fill_in_part" \in Landed /\ "fill" \in Landed /\ "copy_context" \in Landed
      /\ "checksum" \in Landed /\ "sync" \in Landed /\ "refresh" \in Landed
      /\ "unlink" \in Landed /\ "sync_unlink" \in Landed /\ "unlink_backup" \in Landed
      /\ "sync_unlink_backup" \in Landed /\ "sync_move" \in Landed /\ "checksum_moved" \in Landed
  BY DEF Landed
<1>7. /\ After("sync_backup") /\ After("sync_name_again") /\ After("copy_context")
      /\ After("refresh") /\ After("sync_unlink_backup") /\ After("sync_move")
  BY <1>2, <1>6 DEF BlockDeeds, RestoreDeeds
<1>8. After("label_backup") /\ After("sync_restored") /\ After("fill") /\ After("sync")
      /\ After("unlink_backup")
  BY <1>3, <1>6, <1>7 DEF BlockDeeds, RestoreDeeds
<1>9. After("label") /\ After("label_restored") /\ After("fill_in_part") /\ After("checksum")
      /\ After("sync_unlink")
  BY <1>3, <1>5, <1>6, <1>8 DEF BlockDeeds, RestoreDeeds
<1>10. After("sync_copy_name") /\ After("sync_restored_name") /\ After("unlink")
  BY <1>3, <1>5, <1>6, <1>9 DEF BlockDeeds, RestoreDeeds
<1>11. After("copy_to_backup") /\ After("copy_to_primary")
  BY <1>3, <1>6, <1>10 DEF BlockDeeds, RestoreDeeds
<1>12. After("checksum_moved")
  BY <1>5, <1>6, <1>11 DEF BlockDeeds
<1>13. After(Head(t).do)
  BY <1>7, <1>8, <1>9, <1>10, <1>11, <1>12 DEF Landed, BlockDeeds, RestoreDeeds
<1> QED
  BY <1>13 DEF After

\* Steps a may be put before the steps t.
Fits(a, t) ==
    /\ a \in Seq(FileSteps) /\ a # <<>> /\ Linked(a)
    /\ t = <<>> => a[Len(a)].do \in Endings /\ All(a, a[Len(a)])
    /\ t # <<>> => Follows(a[Len(a)], Head(t)) /\ All(a, t[Len(t)])

\* One step before a chain.
LEMMA OneFits ==
    ASSUME NEW s \in FileSteps, NEW t,
           t = <<>> => s.do \in Endings /\ Belongs(s, s),
           t # <<>> => Follows(s, Head(t)) /\ Belongs(s, t[Len(t)])
    PROVE  Fits(<<s>>, t)
BY DEF Fits, Linked, All

\* Steps that fit before a chain give one.
LEMMA FitsChained ==
    ASSUME NEW a, NEW t, Fits(a, t), Chained(t)
    PROVE  /\ Chained(a \o t) /\ a \o t # <<>> /\ Head(a \o t) = Head(a)
           /\ (a \o t)[Len(a \o t)] = IF t = <<>> THEN a[Len(a)] ELSE t[Len(t)]
BY ConcatChained DEF Fits

\* A call other than a rename may have the steps of a block.
PlainDeeds == BlockDeeds \cup RestoreDeeds \cup
    {"fill_in_part", "copy_context", "filled", "checksum", "sync", "refresh", "closed", "match",
     "discarded", "unlink", "sync_unlink", "unlink_backup", "sync_unlink_backup", "deleted",
     "tracked", "refreshed", "restored"}

\* The steps that every call but a rename may have.
LEMMA PlainBelongs ==
    ASSUME NEW s, NEW l, s.do \in PlainDeeds, l.do # "renamed" PROVE Belongs(s, l)
BY DEF Belongs, PlainDeeds, BlockDeeds, RestoreDeeds, PairDeeds, TargetDeeds

\* The steps that write a backup.
LEMMA BackupIs ==
    ASSUME NEW p \in Paths
    PROVE  LET t == BackupFileToStorage(p)
           IN  /\ t \in Seq(FileSteps) /\ t # <<>> /\ Len(t) = 5 /\ Linked(t)
               /\ \A i \in 1..Len(t) : t[i].do \in BlockDeeds /\ t[i].at = p
               /\ t[Len(t)].do = "sync_backup" /\ t[Len(t)].at = p
               /\ Head(t).do = "copy_to_backup" /\ Head(t).at = p
<1> DEFINE t == BackupFileToStorage(p)
<1>1. /\ Step("copy_to_backup", p) \in FileSteps /\ Step("sync_copy_name", p) \in FileSteps
      /\ Step("label", p) \in FileSteps /\ Step("label_backup", p) \in FileSteps
      /\ Step("sync_backup", p) \in FileSteps
  BY StepIs DEF Deeds
<1>2. /\ t \in Seq(FileSteps) /\ Len(t) = 5 /\ t # <<>> /\ Head(t) = t[1]
      /\ t[1] = Step("copy_to_backup", p) /\ t[2] = Step("sync_copy_name", p)
      /\ t[3] = Step("label", p) /\ t[4] = Step("label_backup", p) /\ t[5] = Step("sync_backup", p)
  BY <1>1 DEF BackupFileToStorage
<1> HIDE DEF t
<1>3. /\ t[1].do = "copy_to_backup" /\ t[2].do = "sync_copy_name" /\ t[3].do = "label"
      /\ t[4].do = "label_backup" /\ t[5].do = "sync_backup"
      /\ \A i \in 1..5 : t[i].at = p
  BY <1>2, StepIs
<1>4. Follows(t[1], t[2]) /\ Follows(t[2], t[3]) /\ Follows(t[3], t[4]) /\ Follows(t[4], t[5])
  BY <1>3 DEF Follows, FollowsHere
<1>5. Linked(t)
  BY <1>2, <1>4 DEF Linked
<1> QED
  BY <1>2, <1>3, <1>5 DEF BlockDeeds, t

\* The steps that restore a file.
LEMMA ReplaceIs ==
    ASSUME NEW p \in Paths
    PROVE  LET t == ReplaceFileWithBackup(p)
           IN  /\ t \in Seq(FileSteps) /\ t # <<>> /\ Len(t) = 5 /\ Linked(t)
               /\ \A i \in 1..Len(t) : t[i].do \in RestoreDeeds /\ t[i].at = p
               /\ t[Len(t)].do = "sync_name_again" /\ t[Len(t)].at = p
               /\ Head(t).do = "copy_to_primary" /\ Head(t).at = p
<1> DEFINE t == ReplaceFileWithBackup(p)
<1>1. /\ Step("copy_to_primary", p) \in FileSteps /\ Step("sync_restored_name", p) \in FileSteps
      /\ Step("label_restored", p) \in FileSteps /\ Step("sync_restored", p) \in FileSteps
      /\ Step("sync_name_again", p) \in FileSteps
  BY StepIs DEF Deeds
<1>2. /\ t \in Seq(FileSteps) /\ Len(t) = 5 /\ t # <<>> /\ Head(t) = t[1]
      /\ t[1] = Step("copy_to_primary", p) /\ t[2] = Step("sync_restored_name", p)
      /\ t[3] = Step("label_restored", p) /\ t[4] = Step("sync_restored", p)
      /\ t[5] = Step("sync_name_again", p)
  BY <1>1 DEF ReplaceFileWithBackup
<1> HIDE DEF t
<1>3. /\ t[1].do = "copy_to_primary" /\ t[2].do = "sync_restored_name" /\ t[3].do = "label_restored"
      /\ t[4].do = "sync_restored" /\ t[5].do = "sync_name_again"
      /\ \A i \in 1..5 : t[i].at = p
  BY <1>2, StepIs
<1>4. Follows(t[1], t[2]) /\ Follows(t[2], t[3]) /\ Follows(t[3], t[4]) /\ Follows(t[4], t[5])
  BY <1>3 DEF Follows, FollowsHere
<1>5. Linked(t)
  BY <1>2, <1>4 DEF Linked
<1> QED
  BY <1>2, <1>3, <1>5 DEF RestoreDeeds, t

\* The steps that delete a backup.
LEMMA DeleteBackupIs ==
    ASSUME NEW p \in Paths
    PROVE  LET t == DeleteBackup(p)
           IN  /\ t \in Seq(FileSteps) /\ t # <<>> /\ Len(t) = 2 /\ Linked(t)
               /\ \A i \in 1..Len(t) : t[i].do \in {"unlink_backup", "sync_unlink_backup"} /\ t[i].at = p
               /\ t[Len(t)].do = "sync_unlink_backup" /\ t[Len(t)].at = p
               /\ Head(t).do = "unlink_backup" /\ Head(t).at = p
<1> DEFINE t == DeleteBackup(p)
<1>1. Step("unlink_backup", p) \in FileSteps /\ Step("sync_unlink_backup", p) \in FileSteps
  BY StepIs DEF Deeds
<1>2. /\ t \in Seq(FileSteps) /\ Len(t) = 2 /\ t # <<>> /\ Head(t) = t[1]
      /\ t[1] = Step("unlink_backup", p) /\ t[2] = Step("sync_unlink_backup", p)
  BY <1>1 DEF DeleteBackup
<1> HIDE DEF t
<1>3. /\ t[1].do = "unlink_backup" /\ t[2].do = "sync_unlink_backup"
      /\ \A i \in 1..2 : t[i].at = p
  BY <1>2, StepIs
<1>4. Follows(t[1], t[2])
  BY <1>3 DEF Follows, FollowsHere
<1>5. Linked(t)
  BY <1>2, <1>4 DEF Linked
<1> QED
  BY <1>2, <1>3, <1>5 DEF t

\* The steps that label a file.
LEMMA LabellingIs ==
    ASSUME NEW p \in Paths
    PROVE  LET t == Labelling(p)
           IN  /\ t \in Seq(FileSteps) /\ t # <<>> /\ Len(t) = 3 /\ Linked(t)
               /\ \A i \in 1..Len(t) : t[i].do \in {"checksum", "sync", "refresh"} /\ t[i].at = p
               /\ t[Len(t)].do = "refresh" /\ t[Len(t)].at = p
               /\ Head(t).do = "checksum" /\ Head(t).at = p
<1> DEFINE t == Labelling(p)
<1>1. /\ Step("checksum", p) \in FileSteps /\ Step("sync", p) \in FileSteps
      /\ Step("refresh", p) \in FileSteps
  BY StepIs DEF Deeds
<1>2. /\ t \in Seq(FileSteps) /\ Len(t) = 3 /\ t # <<>> /\ Head(t) = t[1]
      /\ t[1] = Step("checksum", p) /\ t[2] = Step("sync", p) /\ t[3] = Step("refresh", p)
  BY <1>1 DEF Labelling
<1> HIDE DEF t
<1>3. /\ t[1].do = "checksum" /\ t[2].do = "sync" /\ t[3].do = "refresh"
      /\ \A i \in 1..3 : t[i].at = p
  BY <1>2, StepIs
<1>4. Follows(t[1], t[2]) /\ Follows(t[2], t[3])
  BY <1>3 DEF Follows, FollowsHere
<1>5. Linked(t)
  BY <1>2, <1>4 DEF Linked
<1> QED
  BY <1>2, <1>3, <1>5 DEF t

\* Steps that may be in any call but a rename, before the steps t.
LEMMA PlainFits ==
    ASSUME NEW a, NEW t, a \in Seq(FileSteps), a # <<>>, Linked(a), Chained(t), t # <<>>,
           t[Len(t)].do # "renamed", \A i \in 1..Len(a) : a[i].do \in PlainDeeds,
           Follows(a[Len(a)], Head(t))
    PROVE  /\ Chained(a \o t) /\ a \o t # <<>> /\ Head(a \o t) = Head(a)
           /\ (a \o t)[Len(a \o t)] = t[Len(t)]
<1>1. Fits(a, t)
  BY PlainBelongs DEF Fits, All
<1> QED
  BY <1>1, FitsChained

\* A plain step before a chain.
LEMMA OnePlain ==
    ASSUME NEW s \in FileSteps, NEW t, Chained(t), t # <<>>, t[Len(t)].do # "renamed",
           s.do \in PlainDeeds, Follows(s, Head(t))
    PROVE  /\ Chained(<<s>> \o t) /\ <<s>> \o t # <<>> /\ Head(<<s>> \o t) = s
           /\ (<<s>> \o t)[Len(<<s>> \o t)] = t[Len(t)]
<1>1. Fits(<<s>>, t)
  BY OneFits, PlainBelongs
<1> QED
  BY <1>1, FitsChained

\* Sequences are joined in any order.
LEMMA Join ==
    ASSUME NEW a \in Seq(FileSteps), NEW s \in FileSteps, NEW u \in FileSteps, NEW t \in Seq(FileSteps)
    PROVE  /\ (a \o <<s, u>>) \o t = a \o (<<s>> \o (<<u>> \o t))
           /\ <<s, u>> \o t = <<s>> \o (<<u>> \o t)
           /\ (a \o <<s>>) \o t = a \o (<<s>> \o t)
<1>1. <<s, u>> = <<s>> \o <<u>>
  <2> DEFINE a1 == <<s, u>>
             b1 == <<s>> \o <<u>>
  <2>1. a1 \in Seq(FileSteps) /\ Len(a1) = 2 /\ a1[1] = s /\ a1[2] = u
    OBVIOUS
  <2>2. b1 \in Seq(FileSteps) /\ Len(b1) = 2 /\ b1[1] = s /\ b1[2] = u
    OBVIOUS
  <2> HIDE DEF a1, b1
  <2>3. a1 = b1
    BY <2>1, <2>2, SeqEqual
  <2> QED
    BY <2>3 DEF a1, b1
<1>2. <<s>> \in Seq(FileSteps) /\ <<u>> \in Seq(FileSteps) /\ <<s, u>> \in Seq(FileSteps)
  OBVIOUS
<1>3. <<s, u>> \o t = <<s>> \o (<<u>> \o t)
  BY <1>1, <1>2, ConcatAssociative
<1>4. (a \o <<s, u>>) \o t = a \o (<<s, u>> \o t) /\ (a \o <<s>>) \o t = a \o (<<s>> \o t)
  BY <1>2, ConcatAssociative
<1> QED
  BY <1>3, <1>4

\* An open, with what it does before.
LEMMA OpeningChained ==
    ASSUME NEW t, Chained(t), t # <<>>, Head(t).do = "enter"
    PROVE  LET o == Opening(Head(t).at, Head(t).flags) \o Tail(t)
           IN  /\ Chained(o) /\ o # <<>>
               /\ o[Len(o)].do # "renamed" /\ t[Len(t)].do # "renamed"
               /\ IF Tail(t) = <<>> THEN o[Len(o)].do = "open" ELSE o[Len(o)] = t[Len(t)]
<1> DEFINE s == Head(t)
           p == s.at
           flags == s.flags
           u == Tail(t)
           e == t[Len(t)]
           open == StepWith("open", p, flags)
           v == <<open>> \o u
<1>1. /\ Chained(u) /\ Belongs(s, e) /\ s \in FileSteps
      /\ u # <<>> => Follows(s, Head(u)) /\ u[Len(u)] = e
      /\ u = <<>> => e = s
  BY TailChained
<1>2. u \in Seq(FileSteps) /\ p \in Paths /\ flags \in Flags
  BY <1>1 DEF Chained, FileSteps
<1>3. open \in FileSteps /\ open.do = "open" /\ open.at = p /\ open.flags = flags
  <2>1. "open" \in Deeds
    BY DEF Deeds
  <2> QED
    BY <1>2, <2>1, StepWithIs
<1> DEFINE done(d) == Step(d, p)
           landed(d) == StepWith(d, p, flags)
<1>4. \A d \in Landings : /\ done(d) \in FileSteps /\ done(d).do = d /\ done(d).at = p
                          /\ landed(d) \in FileSteps /\ landed(d).do = d /\ landed(d).at = p
  <2>1. Landings \subseteq Deeds
    BY DEF Deeds
  <2> QED
    BY <1>2, <2>1, StepIs, StepWithIs
<1>5. s.do = "enter"
  OBVIOUS
<1> HIDE DEF s, u, p, flags, open, e, done, landed
<1>6. e.do # "renamed" /\ flags \in ClientFlags
  BY <1>1, <1>5 DEF Belongs, PairDeeds, TargetDeeds, BlockDeeds, flags
<1>7. Fits(<<open>>, u)
  <2>1. Belongs(open, e) /\ Belongs(open, open)
    BY <1>1, <1>3, <1>5, <1>6 DEF Belongs, PairDeeds, TargetDeeds, p, flags
  <2>2. u # <<>> => Follows(open, Head(u))
    BY <1>1, <1>3, <1>5 DEF Follows, FollowsHere, FollowsThere, p, flags
  <2> QED
    BY <1>1, <1>3, <1>6, <2>1, <2>2, OneFits DEF Endings
<1>8. /\ Chained(v) /\ v # <<>> /\ Head(v) = open
      /\ v[Len(v)] = IF u = <<>> THEN open ELSE e
  <2>1. Head(<<open>>) = open /\ <<open>>[Len(<<open>>)] = open
    OBVIOUS
  <2> QED
    BY <1>1, <1>7, <2>1, FitsChained
<1> DEFINE z == v[Len(v)]
<1>9. z.do # "renamed" /\ (u = <<>> => z.do = "open") /\ (u # <<>> => z = e)
  BY <1>3, <1>6, <1>8
<1> HIDE DEF v, z
<1> DEFINE Ending(o) == Chained(o) /\ o # <<>> /\ o[Len(o)] = z
<1>10. ASSUME NEW d \in Landings, NEW w \in {done(d), landed(d)},
              d \in {"tracked", "refreshed"} \/ (d = "restored" /\ flags = O_CREAT)
       PROVE  Ending(<<w>> \o v) /\ Head(<<w>> \o v) = w
  <2>1. w \in FileSteps /\ w.do = d /\ w.at = p
    BY <1>4
  <2>2. Follows(w, open)
    BY <1>3, <1>10, <2>1 DEF Follows, FollowsHere
  <2>3. w.do \in PlainDeeds
    BY <1>10, <2>1 DEF PlainDeeds
  <2> QED
    BY <1>8, <1>9, <2>1, <2>2, <2>3, OnePlain DEF z
<1> DEFINE b == BackupFileToStorage(p)
           r == ReplaceFileWithBackup(p)
<1>11. /\ b \in Seq(FileSteps) /\ r \in Seq(FileSteps)
       /\ \A i \in 1..Len(b) : b[i].do \in PlainDeeds
       /\ \A i \in 1..Len(r) : r[i].do \in PlainDeeds
       /\ b # <<>> /\ Linked(b) /\ b[Len(b)].do = "sync_backup" /\ b[Len(b)].at = p
       /\ r # <<>> /\ Linked(r) /\ r[Len(r)].do = "sync_name_again" /\ r[Len(r)].at = p
  BY <1>2, BackupIs, ReplaceIs DEF PlainDeeds
<1> HIDE DEF b, r
<1>12. ASSUME NEW d \in Landings, NEW w \in {done(d), landed(d)}, NEW a \in {b, r},
              Ending(<<w>> \o v), Head(<<w>> \o v) = w,
              IF a = b THEN d \in {"tracked", "refreshed"} ELSE d \in {"restored", "tracked"}
       PROVE  Ending((a \o <<w, open>>) \o u)
  <2>1. w \in FileSteps /\ w.do = d /\ w.at = p
    BY <1>4
  <2>2. Follows(a[Len(a)], w)
    BY <1>11, <1>12, <2>1 DEF Follows, FollowsHere
  <2>3. Ending(a \o (<<w>> \o v))
    BY <1>9, <1>11, <1>12, <2>2, PlainFits
  <2>4. (a \o <<w, open>>) \o u = a \o (<<w>> \o v)
    <3>1. a \in Seq(FileSteps)
      BY <1>11
    <3> HIDE DEF Ending
    <3> QED
      BY <1>2, <1>3, <2>1, <3>1, Join, Zenon DEF v
  <2> QED
    BY <2>3, <2>4
<1>13. CASE Opening(p, flags) = <<open>>
  BY <1>8, <1>9, <1>13 DEF v, z, s, u, p, flags, e
<1>14. ASSUME Ending(Opening(p, flags) \o u) PROVE Ending(Opening(s.at, s.flags) \o u)
  BY <1>14 DEF p, flags
<1>15. CASE Opening(p, flags) = <<>> \o <<done("refreshed"), open>>
  <2>1. done("refreshed") \in FileSteps /\ "refreshed" \in Landings
    BY <1>4 DEF Landings
  <2>2. Opening(p, flags) = <<done("refreshed"), open>>
    <3>1. <<done("refreshed"), open>> \in Seq(FileSteps)
      BY <1>3, <2>1
    <3> QED
      BY <1>15, <3>1, ConcatEmptySeq
  <2>3. Opening(p, flags) \o u = <<done("refreshed")>> \o v
    <3>1. \A w \in FileSteps : <<w, open>> \o u = <<w>> \o (<<open>> \o u)
      BY <1>2, <1>3, <1>11, Join, Zenon
    <3> QED
      BY <2>1, <2>2, <3>1 DEF v
  <2>4. Ending(<<done("refreshed")>> \o v)
    BY <1>10, <2>1
  <2>5. Ending(Opening(p, flags) \o u)
    BY <2>3, <2>4
  <2> QED
    BY <1>6, <1>9, <1>14, <2>5 DEF s, u, p, flags, e
<1>16. ASSUME NEW d \in Landings, NEW w \in {done(d), landed(d)}, NEW a \in {b, r},
              Opening(p, flags) = a \o <<w, open>>,
              IF a = b THEN d \in {"tracked", "refreshed"}
              ELSE d = "tracked" \/ (d = "restored" /\ flags = O_CREAT)
       PROVE  Ending(Opening(p, flags) \o u)
  <2>1. Ending(<<w>> \o v) /\ Head(<<w>> \o v) = w
    BY <1>10, <1>16
  <2>2. Ending((a \o <<w, open>>) \o u)
    BY <1>12, <1>16, <2>1
  <2> QED
    BY <1>16, <2>2
<1>17. flags.creates /\ ~WantsFresh(flags) => flags = O_CREAT
  <2>1. O_RDONLY.creates = FALSE
    BY DEF O_RDONLY
  <2>2. O_TRUNC.truncates = TRUE
    BY DEF O_TRUNC, O_CREAT, O_RDONLY
  <2>3. O_EXCL.exclusive = TRUE
    BY DEF O_EXCL, O_CREAT, O_RDONLY
  <2> QED
    BY <1>6, <2>1, <2>2, <2>3 DEF ClientFlags, WantsFresh
<1>18. \/ Opening(p, flags) = <<open>>
       \/ Opening(p, flags) = <<>> \o <<done("refreshed"), open>>
       \/ Opening(p, flags) = b \o <<done("refreshed"), open>>
       \/ Opening(p, flags) = b \o <<done("tracked"), open>>
       \/ flags = O_CREAT /\ Opening(p, flags) = r \o <<landed("restored"), open>>
       \/ Opening(p, flags) = r \o <<landed("tracked"), open>>
  BY <1>17, Zenon DEF Opening, Restore, RefreshBackupIfNeeded, b, r, open, done, landed
<1>19. "refreshed" \in Landings /\ "tracked" \in Landings /\ "restored" \in Landings
  BY DEF Landings
<1>20. \/ Opening(p, flags) = <<open>>
       \/ Opening(p, flags) = <<>> \o <<done("refreshed"), open>>
       \/ Ending(Opening(p, flags) \o u)
  <2> HIDE DEF Ending
  <2>1. b # r
    <3>1. b[Len(b)].do # r[Len(r)].do
      BY <1>11
    <3> QED
      BY <3>1
  <2> QED
    BY <1>16, <1>18, <1>19, <2>1
<1> QED
  BY <1>6, <1>9, <1>13, <1>14, <1>15, <1>20 DEF s, u, p, flags, e

AheadOf(t) == IF FromLanding(t) = <<>> THEN "open" ELSE Head(FromLanding(t)).do

\* Before a landing there may be steps that are none.
LEMMA LandingBehind ==
    ASSUME NEW a \in Seq(FileSteps), NEW t \in Seq(FileSteps), t # <<>>, Head(t).do \in Landings,
           \A i \in 1..Len(a) : a[i].do \notin Landings
    PROVE  AheadOf(a \o t) = Head(t).do
<1> DEFINE u == a \o t
           n == Len(a)
<1>1. /\ u \in Seq(FileSteps) /\ Len(u) = n + Len(t) /\ n \in Nat /\ Len(t) \in Nat
      /\ \A i \in 1..Len(u) : u[i] = IF i <= n THEN a[i] ELSE t[i - n]
  BY ConcatProperties
<1>2. Len(t) >= 1 /\ Head(t) = t[1]
  BY HeadTailProperties
<1> HIDE DEF u, n
<1>3. u[n + 1] = Head(t) /\ n + 1 \in 1..Len(u)
  BY <1>1, <1>2
<1>4. PICK k \in 1..Len(u) :
          /\ u[k].do \in Landings /\ \A j \in 1..(k - 1) : u[j].do \notin Landings
          /\ FromLanding(u) # <<>> /\ FromLanding(u) \in Seq(FileSteps)
          /\ Len(FromLanding(u)) = Len(u) - k + 1
          /\ \A i \in 1..(Len(u) - k + 1) : FromLanding(u)[i] = u[k + i - 1]
  BY <1>1, <1>3, LandingIs
<1>5. k = n + 1
  <2>1. ASSUME k <= n PROVE FALSE
    <3>1. u[k] = a[k] /\ k \in 1..Len(a)
      BY <1>1, <2>1 DEF n
    <3> QED
      BY <1>4, <3>1
  <2>2. ~(n + 1 < k)
    BY <1>1, <1>3, <1>4
  <2>3. k \in Nat /\ n \in Nat
    BY <1>1, <1>4
  <2> QED
    BY ONLY <2>1, <2>2, <2>3
<1>6. Head(FromLanding(u)) = u[k]
  <2>1. Head(FromLanding(u)) = FromLanding(u)[1]
    BY <1>4, HeadTailProperties
  <2>2. k \in Nat /\ Len(u) \in Nat /\ k <= Len(u)
    BY <1>1, <1>4
  <2>3. 1 \in 1..(Len(u) - k + 1) /\ k + 1 - 1 = k
    BY ONLY <2>2
  <2>4. FromLanding(u)[1] = u[k + 1 - 1]
    BY ONLY <1>4, <2>3
  <2> QED
    BY ONLY <2>1, <2>3, <2>4
<1> QED
  BY <1>3, <1>4, <1>5, <1>6 DEF AheadOf, u

\* None of the steps of a block is a landing.
LEMMA BlocksLandNot ==
    /\ \A d \in BlockDeeds \cup RestoreDeeds : d \notin Landings
    /\ \A d \in {"unlink_backup", "sync_unlink_backup", "checksum", "sync", "refresh"} : d \notin Landings
BY DEF BlockDeeds, RestoreDeeds, Landings

\* The first step of an open, and where it lands if it fails.
LEMMA OpeningHead ==
    ASSUME NEW p \in Paths, NEW flags \in Flags, NEW u \in Seq(FileSteps)
    PROVE  LET o == Opening(p, flags) \o u
               s == Head(o)
               copies == s.do = "copy_to_backup" /\ s.at = p
               opens == s.do = "open" /\ s.at = p /\ s.flags = flags
               restores(l) == s.do = "copy_to_primary" /\ s.at = p /\ AheadOf(o) = l
           IN  IF ~Exists(Primary(p))
               THEN IF WantsFresh(flags) THEN opens
                    ELSE restores(IF flags.creates THEN "restored" ELSE "tracked")
               ELSE IF Validates(At(Primary(p)))
               THEN IF HasMatchingBackup(p) THEN s.do = "refreshed" /\ s.at = p
                    ELSE copies /\ AheadOf(o) = "refreshed"
               ELSE IF At(Primary(p)).label = "none" /\ ~Validates(At(Backup(p)))
               THEN copies /\ AheadOf(o) = "tracked"
               ELSE restores("tracked")
<1> DEFINE open == StepWith("open", p, flags)
           b == BackupFileToStorage(p)
           r == ReplaceFileWithBackup(p)
<1>1. open \in FileSteps /\ open.do = "open" /\ open.at = p /\ open.flags = flags
  <2>1. "open" \in Deeds
    BY DEF Deeds
  <2> QED
    BY <2>1, StepWithIs
<1>2. \A d \in Landings : /\ Step(d, p) \in FileSteps /\ Step(d, p).do = d /\ Step(d, p).at = p
                          /\ StepWith(d, p, flags) \in FileSteps
                          /\ StepWith(d, p, flags).do = d /\ StepWith(d, p, flags).at = p
  <2>1. Landings \subseteq Deeds
    BY DEF Deeds
  <2> QED
    BY <2>1, StepIs, StepWithIs
<1>3. "refreshed" \in Landings /\ "tracked" \in Landings /\ "restored" \in Landings
  BY DEF Landings
<1>4. /\ b \in Seq(FileSteps) /\ b # <<>> /\ Head(b).do = "copy_to_backup" /\ Head(b).at = p
      /\ r \in Seq(FileSteps) /\ r # <<>> /\ Head(r).do = "copy_to_primary" /\ Head(r).at = p
      /\ \A i \in 1..Len(b) : b[i].do \notin Landings
      /\ \A i \in 1..Len(r) : r[i].do \notin Landings
  BY BackupIs, ReplaceIs, BlocksLandNot
<1> HIDE DEF open, b, r
<1>5. ASSUME NEW a \in {b, r}, NEW w \in FileSteps, w.do \in Landings
      PROVE  LET o == (a \o <<w, open>>) \o u IN Head(o) = Head(a) /\ AheadOf(o) = w.do
  <2> DEFINE t == <<w>> \o (<<open>> \o u)
  <2>1. (a \o <<w, open>>) \o u = a \o t
    <3>1. a \in Seq(FileSteps)
      BY <1>4
    <3> QED
      BY <1>1, <3>1, Join, Zenon
  <2>2. t \in Seq(FileSteps) /\ t # <<>> /\ Head(t) = w
    <3>1. <<open>> \o u \in Seq(FileSteps)
      BY <1>1
    <3> QED
      BY <1>5, <3>1
  <2> HIDE DEF t
  <2>3. Head(a \o t) = Head(a)
    BY <1>4, <2>2
  <2>4. AheadOf(a \o t) = w.do
    BY <1>4, <1>5, <2>2, LandingBehind
  <2> QED
    BY <2>1, <2>3, <2>4
<1>6. Head(<<open>> \o u) = open
  BY <1>1
<1>7. \A w \in FileSteps : Head((<<>> \o <<w, open>>) \o u) = w
  BY <1>1
<1> DEFINE o == Opening(p, flags) \o u
<1>8. ASSUME NEW a \in {b, r}, NEW d \in {"refreshed", "tracked", "restored"},
             \/ Opening(p, flags) = a \o <<Step(d, p), open>>
             \/ Opening(p, flags) = a \o <<StepWith(d, p, flags), open>>
      PROVE  Head(o) = Head(a) /\ AheadOf(o) = d
  <2>1. PICK w \in {Step(d, p), StepWith(d, p, flags)} : Opening(p, flags) = a \o <<w, open>>
    BY <1>8
  <2>2. w \in FileSteps /\ w.do = d /\ d \in Landings
    BY <1>2, <1>3
  <2> QED
    BY <1>5, <2>1, <2>2
<1>9. CASE ~Exists(Primary(p)) /\ WantsFresh(flags)
  <2>1. Opening(p, flags) = <<open>>
    BY <1>9, Zenon DEF Opening, open
  <2> QED
    BY <1>1, <1>6, <1>9, <2>1
<1>10. CASE ~Exists(Primary(p)) /\ ~WantsFresh(flags)
  <2>1. Opening(p, flags) = r \o <<StepWith(IF flags.creates THEN "restored" ELSE "tracked", p, flags), open>>
    BY <1>10, Zenon DEF Opening, Restore, open, r
  <2>2. Head(o) = Head(r) /\ AheadOf(o) = IF flags.creates THEN "restored" ELSE "tracked"
    BY <1>8, <2>1
  <2> QED
    BY <1>4, <1>10, <2>2
<1>11. CASE Exists(Primary(p)) /\ Validates(At(Primary(p))) /\ HasMatchingBackup(p)
  <2>1. Opening(p, flags) = <<>> \o <<Step("refreshed", p), open>>
    BY <1>11, Zenon DEF Opening, RefreshBackupIfNeeded, open
  <2> QED
    BY <1>2, <1>3, <1>7, <1>11, <2>1
<1>12. CASE Exists(Primary(p)) /\ Validates(At(Primary(p))) /\ ~HasMatchingBackup(p)
  <2>1. Opening(p, flags) = b \o <<Step("refreshed", p), open>>
    BY <1>12, Zenon DEF Opening, RefreshBackupIfNeeded, open, b
  <2>2. Head(o) = Head(b) /\ AheadOf(o) = "refreshed"
    BY <1>8, <2>1
  <2> QED
    BY <1>4, <1>12, <2>2
<1>13. CASE /\ Exists(Primary(p)) /\ ~Validates(At(Primary(p)))
            /\ At(Primary(p)).label = "none" /\ ~Validates(At(Backup(p)))
  <2>1. Opening(p, flags) = b \o <<Step("tracked", p), open>>
    BY <1>13, Zenon DEF Opening, open, b
  <2>2. Head(o) = Head(b) /\ AheadOf(o) = "tracked"
    BY <1>8, <2>1
  <2> QED
    BY <1>4, <1>13, <2>2
<1>14. CASE /\ Exists(Primary(p)) /\ ~Validates(At(Primary(p)))
            /\ ~(At(Primary(p)).label = "none" /\ ~Validates(At(Backup(p))))
  <2>1. Opening(p, flags) = r \o <<StepWith("tracked", p, flags), open>>
    <3>1. Opening(p, flags) = Restore(p, flags, FALSE)
      BY <1>14, Zenon DEF Opening
    <3> QED
      BY <3>1, Zenon DEF Restore, open, r
  <2>2. Head(o) = Head(r) /\ AheadOf(o) = "tracked"
    BY <1>8, <2>1
  <2> QED
    BY <1>4, <1>14, <2>2
<1> QED
  BY <1>9, <1>10, <1>11, <1>12, <1>13, <1>14

\* The last step of a refresh, and its first.
LEMMA RefreshChained ==
    ASSUME NEW t, Chained(t), t # <<>>, Head(t).do = "refresh"
    PROVE  LET o == RefreshBackupIfNeeded(Head(t).at) \o Tail(t)
           IN  /\ Chained(o) /\ o # <<>> /\ o[Len(o)] = t[Len(t)] /\ t[Len(t)].do # "renamed"
               /\ Tail(t) # <<>> /\ Head(Tail(t)).do \in {"closed", "discarded"}
               /\ Head(Tail(t)).at = Head(t).at
               /\ IF HasMatchingBackup(Head(t).at) THEN o = Tail(t)
                  ELSE /\ Head(o).do = "copy_to_backup" /\ Head(o).at = Head(t).at
                       /\ AheadOf(o) = Head(Tail(t)).do
<1> DEFINE p == Head(t).at
           u == Tail(t)
           b == BackupFileToStorage(p)
           o == RefreshBackupIfNeeded(p) \o u
<1>1. /\ Chained(u) /\ u # <<>> /\ Follows(Head(t), Head(u)) /\ u[Len(u)] = t[Len(t)]
      /\ t[Len(t)].do # "renamed" /\ p \in Paths /\ u \in Seq(FileSteps)
  <2>1. Head(t).do \notin Endings
    BY DEF Endings
  <2>2. u # <<>> /\ Chained(u) /\ Head(t) \in FileSteps /\ Belongs(Head(t), t[Len(t)])
    BY <2>1, TailChained
  <2>3. t[Len(t)].do # "renamed"
    BY <2>2 DEF Belongs, PairDeeds, TargetDeeds, BlockDeeds
  <2> QED
    BY <2>2, <2>3, TailChained DEF Chained, FileSteps
<1>2. Head(u).do \in {"closed", "discarded"} /\ Head(u).at = p
  <2> HIDE DEF u
  <2> QED
    BY <1>1 DEF Follows, FollowsHere, FollowsThere
<1>3. CASE HasMatchingBackup(p)
  <2>1. o = u
    BY <1>1, <1>3, ConcatEmptySeq DEF RefreshBackupIfNeeded
  <2> QED
    BY <1>1, <1>2, <1>3, <2>1
<1>4. CASE ~HasMatchingBackup(p)
  <2>1. o = b \o u
    BY <1>4, Zenon DEF RefreshBackupIfNeeded
  <2>2. /\ b \in Seq(FileSteps) /\ b # <<>> /\ Linked(b)
        /\ \A i \in 1..Len(b) : b[i].do \in BlockDeeds
        /\ b[Len(b)].do = "sync_backup" /\ b[Len(b)].at = p
        /\ Head(b).do = "copy_to_backup" /\ Head(b).at = p
    BY <1>1, BackupIs
  <2> HIDE DEF b, u
  <2>3. Follows(b[Len(b)], Head(u))
    BY <1>2, <2>2 DEF Follows, FollowsHere
  <2>4. /\ Chained(b \o u) /\ b \o u # <<>> /\ Head(b \o u) = Head(b)
        /\ (b \o u)[Len(b \o u)] = u[Len(u)]
    <3>1. \A i \in 1..Len(b) : b[i].do \in PlainDeeds
      BY <2>2 DEF PlainDeeds
    <3> QED
      BY <1>1, <2>2, <2>3, <3>1, PlainFits
  <2>5. AheadOf(b \o u) = Head(u).do
    <3>1. Head(u).do \in Landings /\ \A i \in 1..Len(b) : b[i].do \notin Landings
      BY <1>2, <2>2, BlocksLandNot DEF Landings
    <3> QED
      BY <1>1, <2>2, <3>1, LandingBehind
  <2> HIDE DEF o, p
  <2>6. /\ Chained(o) /\ o # <<>> /\ o[Len(o)] = t[Len(t)] /\ Head(o) = Head(b)
        /\ AheadOf(o) = Head(u).do
    BY <1>1, <2>1, <2>4, <2>5
  <2> QED
    BY <1>1, <1>2, <1>4, <2>2, <2>6 DEF o, u, p
<1> QED
  BY <1>3, <1>4

\* A backup that was not made is deleted at the end of a rename.
LEMMA MovedChained ==
    ASSUME NEW t, Chained(t), t # <<>>, Head(t).do = "moved"
    PROVE  /\ t[Len(t)].do = "renamed" /\ Head(t).to = t[Len(t)].to /\ Head(t).at = t[Len(t)].at
           /\ Tail(t) # <<>> /\ Chained(Tail(t)) /\ Head(Tail(t)).do = "renamed"
           /\ Tail(t)[Len(Tail(t))] = t[Len(t)]
           /\ LET o == DeleteBackup(Head(t).to) \o Tail(t)
              IN  /\ Chained(o) /\ o # <<>> /\ o[Len(o)] = t[Len(t)]
                  /\ Head(o).do = "unlink_backup" /\ Head(o).at = Head(t).to
<1> DEFINE q == Head(t).to
           u == Tail(t)
           b == DeleteBackup(q)
           l == t[Len(t)]
<1>1. /\ Chained(u) /\ u # <<>> /\ Follows(Head(t), Head(u)) /\ u[Len(u)] = l
      /\ l.do = "renamed" /\ q \in Paths /\ q = l.to /\ Head(t).at = l.at /\ l.at # l.to
  <2>1. Head(t).do \notin Endings
    BY DEF Endings
  <2>2. u # <<>> /\ Chained(u) /\ Head(t) \in FileSteps /\ Belongs(Head(t), l)
    BY <2>1, TailChained
  <2>3. l.do = "renamed" /\ q = l.to /\ Head(t).at = l.at /\ l.at # l.to
    BY <2>2 DEF Belongs, PairDeeds, TargetDeeds, BlockDeeds
  <2> QED
    BY <2>2, <2>3, TailChained DEF FileSteps
<1>2. Head(u).do = "renamed"
  <2> HIDE DEF u
  <2> QED
    BY <1>1 DEF Follows, FollowsHere, FollowsThere
<1>3. /\ b \in Seq(FileSteps) /\ b # <<>> /\ Linked(b)
      /\ \A i \in 1..Len(b) : b[i].do \in {"unlink_backup", "sync_unlink_backup"} /\ b[i].at = q
      /\ b[Len(b)].do = "sync_unlink_backup"
      /\ Head(b).do = "unlink_backup" /\ Head(b).at = q
  BY <1>1, DeleteBackupIs
<1> HIDE DEF b, u, q, l
<1>4. Head(u).to = q
  <2>1. Belongs(Head(u), l)
    BY <1>1, TailChained
  <2> QED
    BY <1>1, <1>2, <2>1 DEF Belongs, PairDeeds, TargetDeeds, BlockDeeds
<1>6. Fits(b, u)
  <2>1. \A i \in 1..Len(b) : Belongs(b[i], l)
    BY <1>1, <1>3 DEF Belongs
  <2>2. Follows(b[Len(b)], Head(u))
    BY <1>2, <1>3, <1>4 DEF Follows, FollowsThere
  <2> QED
    BY <1>1, <1>3, <2>1, <2>2 DEF Fits, All
<1>5. /\ Chained(b \o u) /\ b \o u # <<>> /\ Head(b \o u) = Head(b)
      /\ (b \o u)[Len(b \o u)] = l
  BY <1>1, <1>6, FitsChained
<1> QED
  BY <1>1, <1>2, <1>3, <1>5 DEF q, u, l, b

\* The calls of a client.
LEMMA EnteringChained ==
    ASSUME NEW p \in Paths, NEW flags \in ClientFlags
    PROVE  LET t == <<StepWith("enter", p, flags)>>
           IN  Chained(t) /\ t # <<>> /\ Head(t).do = "enter" /\ Head(t).at = p
               /\ t[Len(t)] = Head(t) /\ t[Len(t)].do = "enter"
<1>1. flags \in Flags
  BY FlagsAre DEF ClientFlags
<1>2. "enter" \in Deeds
  BY DEF Deeds
<1> DEFINE s == StepWith("enter", p, flags)
<1>3. s \in FileSteps /\ s.do = "enter" /\ s.at = p /\ s.flags = flags
  BY <1>1, <1>2, StepWithIs
<1> HIDE DEF s
<1>4. Belongs(s, s)
  BY <1>3 DEF Belongs, PairDeeds, TargetDeeds
<1>5. Fits(<<s>>, <<>>)
  BY <1>3, <1>4, OneFits DEF Endings
<1>6. Chained(<<>>)
  BY DEF Chained, Linked
<1>7. Chained(<<s>> \o <<>>) /\ <<s>> \o <<>> = <<s>>
  <2>1. <<s>> \in Seq(FileSteps)
    BY <1>3
  <2>2. <<s>> \o <<>> = <<s>>
    BY <2>1, ConcatEmptySeq, Zenon
  <2>3. Chained(<<s>> \o <<>>)
    BY <1>5, <1>6, FitsChained, Zenon
  <2> QED
    BY <2>2, <2>3
<1>8. Chained(<<s>>) /\ <<s>> # <<>> /\ Head(<<s>>) = s /\ <<s>>[Len(<<s>>)] = s
  BY <1>7
<1> QED
  BY <1>3, <1>8 DEF s

\* A close is a chain.
LEMMA ClosingChained ==
    ASSUME NEW p \in Paths
    PROVE  LET t == Closing(p)
           IN  Chained(t) /\ t # <<>> /\ Head(t).do = "checksum" /\ Head(t).at = p
               /\ t[Len(t)].do = "closed"
<1> DEFINE a == Labelling(p)
           s == Step("closed", p)
           t == <<s>>
<1>1. s \in FileSteps /\ s.do = "closed" /\ s.at = p
  BY StepIs DEF Deeds, Landings
<1>2. /\ a \in Seq(FileSteps) /\ a # <<>> /\ Linked(a)
      /\ \A i \in 1..Len(a) : a[i].do \in {"checksum", "sync", "refresh"}
      /\ a[Len(a)].do = "refresh" /\ a[Len(a)].at = p
      /\ Head(a).do = "checksum" /\ Head(a).at = p
  BY LabellingIs
<1>3. t \in Seq(FileSteps) /\ t # <<>> /\ Head(t) = s /\ Len(t) = 1 /\ t[1] = s
  BY <1>1
<1> HIDE DEF a, s, t
<1>4. Chained(t) /\ t[Len(t)] = s
  <2>1. Belongs(s, s)
    BY <1>1, PlainBelongs DEF PlainDeeds
  <2> QED
    BY <1>1, <1>3, <2>1 DEF Chained, Linked, All, Endings
<1>5. \A i \in 1..Len(a) : a[i].do \in PlainDeeds
  BY <1>2 DEF PlainDeeds
<1>6. Follows(a[Len(a)], Head(t))
  BY <1>1, <1>2, <1>3 DEF Follows, FollowsHere
<1>7. /\ Chained(a \o t) /\ a \o t # <<>> /\ Head(a \o t) = Head(a)
      /\ (a \o t)[Len(a \o t)] = t[Len(t)]
  BY <1>1, <1>2, <1>3, <1>4, <1>5, <1>6, PlainFits
<1> QED
  BY <1>1, <1>2, <1>4, <1>7 DEF Closing, a, s, t

\* A deletion is a chain.
LEMMA DeletingChained ==
    ASSUME NEW p \in Paths
    PROVE  LET t == Deleting(p)
           IN  Chained(t) /\ t # <<>> /\ Head(t).do = "unlink" /\ Head(t).at = p
               /\ t[Len(t)].do = "deleted" /\ t[Len(t)].at = p
<1> DEFINE t == Deleting(p)
<1>1. /\ Step("unlink", p) \in FileSteps /\ Step("sync_unlink", p) \in FileSteps
      /\ Step("unlink_backup", p) \in FileSteps /\ Step("sync_unlink_backup", p) \in FileSteps
      /\ Step("deleted", p) \in FileSteps
  BY StepIs DEF Deeds, Landings
<1>2. /\ t \in Seq(FileSteps) /\ Len(t) = 5 /\ t # <<>> /\ Head(t) = t[1]
      /\ t[1] = Step("unlink", p) /\ t[2] = Step("sync_unlink", p)
      /\ t[3] = Step("unlink_backup", p) /\ t[4] = Step("sync_unlink_backup", p)
      /\ t[5] = Step("deleted", p)
  BY <1>1 DEF Deleting, DeleteBackup
<1> HIDE DEF t
<1>3. /\ t[1].do = "unlink" /\ t[2].do = "sync_unlink" /\ t[3].do = "unlink_backup"
      /\ t[4].do = "sync_unlink_backup" /\ t[5].do = "deleted"
      /\ \A i \in 1..5 : t[i].at = p
  BY <1>2, StepIs
<1>4. Follows(t[1], t[2]) /\ Follows(t[2], t[3]) /\ Follows(t[3], t[4]) /\ Follows(t[4], t[5])
  BY <1>3 DEF Follows, FollowsHere
<1>5. Linked(t)
  BY <1>2, <1>4 DEF Linked
<1>6. \A i \in 1..5 : Belongs(t[i], t[5])
  BY <1>3, PlainBelongs DEF PlainDeeds
<1>7. Chained(t)
  BY <1>2, <1>3, <1>5, <1>6 DEF Chained, All, Endings
<1> QED
  BY <1>2, <1>3, <1>7 DEF t

\* A copy that is given up is labelled and deleted.
LEMMA DiscardingChained ==
    ASSUME NEW p \in Paths
    PROVE  LET t == Labelling(p) \o <<Step("discarded", p)>> \o Deleting(p)
           IN  Chained(t) /\ t # <<>> /\ Head(t).do = "checksum" /\ Head(t).at = p
               /\ t[Len(t)].do = "deleted" /\ t[Len(t)].at = p
<1> DEFINE a == Labelling(p)
           s == Step("discarded", p)
           d == Deleting(p)
           t == <<s>> \o d
<1>1. s \in FileSteps /\ s.do = "discarded" /\ s.at = p
  BY StepIs DEF Deeds, Landings
<1>2. /\ a \in Seq(FileSteps) /\ a # <<>> /\ Linked(a)
      /\ \A i \in 1..Len(a) : a[i].do \in {"checksum", "sync", "refresh"}
      /\ a[Len(a)].do = "refresh" /\ a[Len(a)].at = p
      /\ Head(a).do = "checksum" /\ Head(a).at = p
  BY LabellingIs
<1>3. /\ Chained(d) /\ d # <<>> /\ Head(d).do = "unlink" /\ Head(d).at = p
      /\ d[Len(d)].do = "deleted" /\ d[Len(d)].at = p /\ d \in Seq(FileSteps)
  BY DeletingChained DEF Chained
<1> HIDE DEF a, s, d
<1>4. Chained(t) /\ t # <<>> /\ Head(t) = s /\ t[Len(t)] = d[Len(d)]
  <2>1. Follows(s, Head(d))
    BY <1>1, <1>3 DEF Follows, FollowsHere
  <2>2. s.do \in PlainDeeds
    BY <1>1 DEF PlainDeeds
  <2> QED
    BY <1>1, <1>3, <2>1, <2>2, OnePlain
<1>5. (a \o <<s>>) \o d = a \o t
  BY <1>1, <1>2, <1>3, Join
<1> HIDE DEF t
<1>6. \A i \in 1..Len(a) : a[i].do \in PlainDeeds
  BY <1>2 DEF PlainDeeds
<1>7. Follows(a[Len(a)], Head(t))
  BY <1>1, <1>2, <1>4 DEF Follows, FollowsHere
<1>8. /\ Chained(a \o t) /\ a \o t # <<>> /\ Head(a \o t) = Head(a)
      /\ (a \o t)[Len(a \o t)] = d[Len(d)]
  BY <1>2, <1>3, <1>4, <1>6, <1>7, PlainFits
<1> QED
  BY <1>2, <1>3, <1>5, <1>8 DEF a, s, d

\* The steps of a copy, up to the look at the backup.
LEMMA CopyingIs ==
    ASSUME NEW p \in Paths, NEW q \in Paths, p # q
    PROVE  LET t == Copying(p, q)
           IN  /\ t \in Seq(FileSteps) /\ t # <<>> /\ Linked(t)
               /\ Head(t).do = "enter" /\ Head(t).at = p /\ Head(t).flags = O_RDONLY
               /\ t[Len(t)].do = "match" /\ t[Len(t)].at = q
               /\ \A l : l.do \in {"match", "deleted"} /\ (l.do = "deleted" => l.at = p) => All(t, l)
<1> DEFINE t == Copying(p, q)
<1>0. O_RDONLY \in Flags /\ O_TRUNC \in Flags /\ O_RDONLY \in ClientFlags /\ O_TRUNC \in ClientFlags
  BY FlagsAre DEF ClientFlags
<1>1. /\ StepWith("enter", p, O_RDONLY) \in FileSteps
      /\ StepWith("enter", q, O_TRUNC) \in FileSteps
      /\ StepTo("fill", q, p) \in FileSteps
  <2>1. "enter" \in Deeds /\ "fill" \in Deeds
    BY DEF Deeds
  <2> QED
    BY <1>0, <2>1, StepToIs, StepWithIs
<1>2. /\ Step("fill_in_part", q) \in FileSteps /\ Step("copy_context", q) \in FileSteps
      /\ Step("filled", q) \in FileSteps /\ Step("checksum", q) \in FileSteps
      /\ Step("sync", q) \in FileSteps /\ Step("refresh", q) \in FileSteps
      /\ Step("closed", q) \in FileSteps /\ Step("match", q) \in FileSteps
  BY StepIs DEF Deeds, Landings
<1>3. /\ t \in Seq(FileSteps) /\ Len(t) = 11 /\ t # <<>> /\ Head(t) = t[1]
      /\ t[1] = StepWith("enter", p, O_RDONLY) /\ t[2] = StepWith("enter", q, O_TRUNC)
      /\ t[3] = Step("fill_in_part", q) /\ t[4] = StepTo("fill", q, p)
      /\ t[5] = Step("copy_context", q) /\ t[6] = Step("filled", q)
      /\ t[7] = Step("checksum", q) /\ t[8] = Step("sync", q) /\ t[9] = Step("refresh", q)
      /\ t[10] = Step("closed", q) /\ t[11] = Step("match", q)
  BY <1>1, <1>2 DEF Copying, Closing, Labelling
<1> HIDE DEF t
<1>4. /\ t[1].do = "enter" /\ t[1].at = p /\ t[1].flags = O_RDONLY
      /\ t[2].do = "enter" /\ t[2].at = q /\ t[2].flags = O_TRUNC
  <2> DEFINE a == StepWith("enter", p, O_RDONLY)
             b == StepWith("enter", q, O_TRUNC)
  <2>1. /\ a.do = "enter" /\ a.at = p /\ a.flags = O_RDONLY
        /\ b.do = "enter" /\ b.at = q /\ b.flags = O_TRUNC
    BY DEF StepWith, Step
  <2> QED
    BY <1>3, <2>1
<1>5. t[4].do = "fill" /\ t[4].at = q /\ t[4].to = p
  <2> DEFINE a == StepTo("fill", q, p)
  <2>1. a.do = "fill" /\ a.at = q /\ a.to = p
    BY DEF StepTo, Step
  <2> QED
    BY <1>3, <2>1
<1>6. /\ t[3].do = "fill_in_part" /\ t[5].do = "copy_context" /\ t[6].do = "filled"
      /\ t[7].do = "checksum" /\ t[8].do = "sync" /\ t[9].do = "refresh"
      /\ t[10].do = "closed" /\ t[11].do = "match"
      /\ t[3].at = q /\ \A i \in 5..11 : t[i].at = q
  BY <1>3, StepIs
<1>7. /\ Follows(t[1], t[2]) /\ Follows(t[2], t[3])
      /\ Follows(t[3], t[4]) /\ Follows(t[4], t[5]) /\ Follows(t[5], t[6])
  BY <1>4, <1>5, <1>6 DEF Follows, FollowsHere, FollowsThere
<1>8. /\ Follows(t[6], t[7]) /\ Follows(t[7], t[8])
      /\ Follows(t[8], t[9]) /\ Follows(t[9], t[10]) /\ Follows(t[10], t[11])
  BY <1>6 DEF Follows, FollowsHere
<1>9. Linked(t)
  BY <1>3, <1>7, <1>8 DEF Linked
<1>10. ASSUME NEW l, l.do \in {"match", "deleted"}, l.do = "deleted" => l.at = p
       PROVE  All(t, l)
  <2>1. Belongs(t[1], l) /\ Belongs(t[2], l) /\ Belongs(t[4], l)
    BY <1>0, <1>4, <1>5, <1>10 DEF Belongs, PairDeeds, TargetDeeds
  <2>2. Belongs(t[3], l) /\ \A i \in 5..11 : Belongs(t[i], l)
    BY <1>6, <1>10, PlainBelongs DEF PlainDeeds
  <2> QED
    BY <1>3, <2>1, <2>2 DEF All
<1> QED
  BY <1>3, <1>4, <1>6, <1>9, <1>10 DEF t

\* A copy is a chain.
LEMMA CopyingChained ==
    ASSUME NEW p \in Paths, NEW q \in Paths, p # q
    PROVE  LET t == Copying(p, q)
           IN  Chained(t) /\ t # <<>> /\ Head(t).do = "enter" /\ Head(t).at = p
               /\ t[Len(t)].do = "match"
<1> DEFINE t == Copying(p, q)
           l == t[Len(t)]
<1>1. /\ t \in Seq(FileSteps) /\ t # <<>> /\ Linked(t)
      /\ Head(t).do = "enter" /\ Head(t).at = p /\ l.do = "match"
  BY CopyingIs
<1>2. \A e : e.do \in {"match", "deleted"} /\ (e.do = "deleted" => e.at = p) => All(t, e)
  BY CopyingIs, Zenon
<1> HIDE DEF t, l
<1>3. All(t, l)
  BY <1>1, <1>2
<1>4. Chained(t)
  BY <1>1, <1>3 DEF Chained, Endings, l
<1> QED
  BY <1>1, <1>4 DEF t, l

\* A rename across file systems is a chain.
LEMMA RenamingByCopyChained ==
    ASSUME NEW p \in Paths, NEW q \in Paths, p # q
    PROVE  LET t == RenamingByCopy(p, q)
           IN  Chained(t) /\ t # <<>> /\ Head(t).do = "enter" /\ Head(t).at = p
               /\ t[Len(t)].do = "deleted" /\ t[Len(t)].at = p
<1> DEFINE c == Copying(p, q)
           s == Step("match", q)
           u == StepTo("leave", p, q)
           d == Deleting(p)
           l == d[Len(d)]
           t1 == <<u>> \o d
           t2 == <<s>> \o t1
<1>1. /\ s \in FileSteps /\ s.do = "match" /\ s.at = q
      /\ u \in FileSteps /\ u.do = "leave" /\ u.at = p /\ u.to = q
  <2> "match" \in Deeds /\ "leave" \in Deeds
    BY DEF Deeds
  <2> QED
    BY StepIs, StepToIs
<1>2. /\ Chained(d) /\ d # <<>> /\ Head(d).do = "unlink" /\ Head(d).at = p
      /\ l.do = "deleted" /\ l.at = p /\ d \in Seq(FileSteps)
  BY DeletingChained DEF Chained
<1>3. /\ c \in Seq(FileSteps) /\ c # <<>> /\ Linked(c)
      /\ Head(c).do = "enter" /\ Head(c).at = p
      /\ c[Len(c)].do = "match" /\ c[Len(c)].at = q /\ All(c, l)
  <2>1. \A e : e.do \in {"match", "deleted"} /\ (e.do = "deleted" => e.at = p) => All(c, e)
    BY CopyingIs, Zenon
  <2>2. All(c, l)
    BY <1>2, <2>1
  <2> QED
    BY <2>2, CopyingIs
<1> HIDE DEF c, s, u, d, l
<1>4. Chained(t1) /\ t1 # <<>> /\ Head(t1) = u /\ t1[Len(t1)] = l
  <2>1. Follows(u, Head(d)) /\ Belongs(u, l)
    BY <1>1, <1>2 DEF Follows, FollowsHere, Belongs, PairDeeds, TargetDeeds
  <2>2. Fits(<<u>>, d)
    BY <1>1, <1>2, <2>1, OneFits DEF l
  <2> QED
    BY <1>2, <2>2, FitsChained DEF l
<1> HIDE DEF t1
<1>5. Chained(t2) /\ t2 # <<>> /\ Head(t2) = s /\ t2[Len(t2)] = l
  <2>1. Follows(s, Head(t1))
    BY <1>1, <1>4 DEF Follows, FollowsThere
  <2>2. s.do \in PlainDeeds
    BY <1>1 DEF PlainDeeds
  <2> QED
    BY <1>1, <1>2, <1>4, <2>1, <2>2, OnePlain
<1> HIDE DEF t2
<1>6. Fits(c, t2)
  <2>1. Follows(c[Len(c)], Head(t2))
    BY <1>1, <1>3, <1>5 DEF Follows, FollowsHere
  <2> QED
    BY <1>3, <1>5, <2>1 DEF Fits
<1>7. Chained(c \o t2) /\ c \o t2 # <<>> /\ Head(c \o t2) = Head(c) /\ (c \o t2)[Len(c \o t2)] = l
  BY <1>5, <1>6, FitsChained
<1>8. (c \o <<s, u>>) \o d = c \o t2
  BY <1>1, <1>2, <1>3, Join DEF t1, t2
<1> QED
  BY <1>2, <1>3, <1>7, <1>8 DEF RenamingByCopy, c, s, u, d

\* A rename is a chain.
LEMMA RenamingChained ==
    ASSUME NEW p \in Paths, NEW q \in Paths, p # q
    PROVE  LET t == Renaming(p, q)
           IN  Chained(t) /\ t # <<>> /\ Head(t).do = "move" /\ Head(t).at = p /\ Head(t).to = q
               /\ t[Len(t)].do = "renamed" /\ t[Len(t)].at = p /\ t[Len(t)].to = q
<1> DEFINE t == Renaming(p, q)
<1>1. /\ StepTo("move", p, q) \in FileSteps /\ StepTo("moved", p, q) \in FileSteps
      /\ StepTo("renamed", p, q) \in FileSteps
  BY StepToIs DEF Deeds, Landings
<1>2. /\ Step("sync_move", q) \in FileSteps /\ Step("after_move", q) \in FileSteps /\ Step("after_unlink", q) \in FileSteps
      /\ Step("unlink_backup", p) \in FileSteps /\ Step("sync_unlink_backup", p) \in FileSteps
      /\ Step("checksum_moved", q) \in FileSteps
      /\ Step("copy_to_backup", q) \in FileSteps /\ Step("sync_copy_name", q) \in FileSteps
      /\ Step("label", q) \in FileSteps /\ Step("label_backup", q) \in FileSteps
      /\ Step("sync_backup", q) \in FileSteps
  BY StepIs DEF Deeds, Landings
<1>3. /\ t \in Seq(FileSteps) /\ Len(t) = 14 /\ t # <<>> /\ Head(t) = t[1]
      /\ t[1] = StepTo("move", p, q) /\ t[2] = Step("sync_move", q) /\ t[3] = Step("after_move", q)
      /\ t[4] = Step("unlink_backup", p) /\ t[5] = Step("sync_unlink_backup", p)
      /\ t[6] = Step("after_unlink", q) /\ t[7] = Step("checksum_moved", q)
      /\ t[8] = Step("copy_to_backup", q) /\ t[9] = Step("sync_copy_name", q)
      /\ t[10] = Step("label", q) /\ t[11] = Step("label_backup", q)
      /\ t[12] = Step("sync_backup", q)
      /\ t[13] = StepTo("moved", p, q) /\ t[14] = StepTo("renamed", p, q)
  BY <1>1, <1>2 DEF Renaming, DeleteBackup, BackupFileToStorage
<1> HIDE DEF t
<1>4. /\ t[1].do = "move" /\ t[1].at = p /\ t[1].to = q
      /\ t[13].do = "moved" /\ t[13].at = p /\ t[13].to = q
      /\ t[14].do = "renamed" /\ t[14].at = p /\ t[14].to = q
  <2> DEFINE a(d) == StepTo(d, p, q)
  <2>1. /\ a("move").do = "move" /\ a("move").at = p /\ a("move").to = q
        /\ a("moved").do = "moved" /\ a("moved").at = p /\ a("moved").to = q
        /\ a("renamed").do = "renamed" /\ a("renamed").at = p /\ a("renamed").to = q
    BY DEF StepTo, Step
  <2> QED
    BY <1>3, <2>1
<1>5. /\ t[2].do = "sync_move" /\ t[3].do = "after_move" /\ t[4].do = "unlink_backup"
      /\ t[5].do = "sync_unlink_backup" /\ t[6].do = "after_unlink" /\ t[7].do = "checksum_moved"
      /\ t[2].at = q /\ t[3].at = q /\ t[4].at = p /\ t[5].at = p /\ t[6].at = q /\ t[7].at = q
  BY <1>3, StepIs
<1>6. /\ t[8].do = "copy_to_backup" /\ t[9].do = "sync_copy_name" /\ t[10].do = "label"
      /\ t[11].do = "label_backup" /\ t[12].do = "sync_backup"
      /\ \A i \in 8..12 : t[i].at = q
  BY <1>3, StepIs
<1>7. /\ Follows(t[1], t[2]) /\ Follows(t[2], t[3]) /\ Follows(t[3], t[4]) /\ Follows(t[4], t[5])
      /\ Follows(t[5], t[6]) /\ Follows(t[6], t[7]) /\ Follows(t[7], t[8])
  BY <1>4, <1>5, <1>6 DEF Follows, FollowsHere, FollowsThere
<1>8. /\ Follows(t[8], t[9]) /\ Follows(t[9], t[10]) /\ Follows(t[10], t[11])
      /\ Follows(t[11], t[12]) /\ Follows(t[12], t[13]) /\ Follows(t[13], t[14])
  BY <1>4, <1>6 DEF Follows, FollowsHere, FollowsThere
<1>9. Linked(t)
  BY <1>3, <1>7, <1>8 DEF Linked
<1>10. /\ Belongs(t[1], t[14]) /\ Belongs(t[13], t[14]) /\ Belongs(t[14], t[14])
  BY <1>4 DEF Belongs, PairDeeds
<1>11. \A i \in 2..7 : Belongs(t[i], t[14])
  BY <1>4, <1>5 DEF Belongs, TargetDeeds
<1>12. \A i \in 8..12 : Belongs(t[i], t[14])
  BY <1>4, <1>6 DEF Belongs, BlockDeeds
<1>13. All(t, t[14])
  BY <1>3, <1>10, <1>11, <1>12 DEF All
<1>14. Chained(t)
  BY <1>3, <1>4, <1>9, <1>13 DEF Chained, Endings
<1> QED
  BY <1>3, <1>4, <1>14 DEF t

Struct == Chained(todo)

\* No call is under way.
LEMMA NothingChained == Chained(<<>>)
BY DEF Chained, Linked

\* A call that begins.
LEMMA CallChained ==
    ASSUME ClientCalls, Struct
    PROVE  Struct'
<1>1. CASE \E p \in Paths : taf_pa_file_Delete(p)
  BY <1>1, DeletingChained DEF taf_pa_file_Delete, Calls, Struct
<1>2. ASSUME NEW p \in Paths, NEW flags \in {O_RDONLY, O_CREAT, O_TRUNC, O_EXCL},
             taf_pa_file_Open(p, flags)
      PROVE  Struct'
  BY <1>2, EnteringChained DEF taf_pa_file_Open, Calls, Struct, ClientFlags
<1>3. ASSUME NEW p \in Paths, NEW q \in Paths, taf_pa_file_Copy(p, q) PROVE Struct'
  BY <1>3, CopyingChained DEF taf_pa_file_Copy, Calls, Struct
<1>4. ASSUME NEW p \in Paths, NEW q \in Paths, taf_pa_file_Rename(p, q) PROVE Struct'
  BY <1>4, RenamingChained, RenamingByCopyChained DEF taf_pa_file_Rename, Calls, Struct
<1>5. ASSUME NEW fd \in fds, taf_pa_file_Write(fd) PROVE Struct'
  BY <1>5 DEF taf_pa_file_Write, Struct
<1>6. ASSUME NEW fd \in fds, taf_pa_file_Close(fd) PROVE Struct'
  BY <1>6, ClosingChained DEF taf_pa_file_Close, Struct
<1> QED
  BY <1>1, <1>2, <1>3, <1>4, <1>5, <1>6 DEF ClientCalls

\* A call goes on, as it was laid out.
LEMMA StructStep ==
    ASSUME Struct, [FilesNext]_fileVars
    PROVE  Struct'
<1>1. ASSUME todo # <<>>, \/ Proceeds \/ EndCall \/ todo' = FromLanding(todo) PROVE Struct'
  BY <1>1, TailChained, NothingChained, SuffixChained, Zenon DEF Struct, Proceeds, EndCall
<1>2. ASSUME todo' = todo PROVE Struct'
  BY <1>2 DEF Struct
<1>3. CASE ClientCalls
  BY <1>3, CallChained
<1>4. CASE Enter
  <2>1. todo # <<>> /\ Head(todo).do = "enter"
    BY <1>4 DEF Enter, Doing, NoCall
  <2>2. todo' = Opening(Head(todo).at, Head(todo).flags) \o Tail(todo)
    BY <1>4 DEF Enter, Path
  <2> QED
    BY <2>1, <2>2, OpeningChained, Zenon DEF Struct
<1>5. CASE Refresh
  <2>1. todo # <<>> /\ Head(todo).do = "refresh"
    BY <1>5 DEF Refresh, Doing, NoCall
  <2>2. todo' = RefreshBackupIfNeeded(Head(todo).at) \o Tail(todo)
    BY <1>5 DEF Refresh, Path
  <2> QED
    BY <2>1, <2>2, RefreshChained, Zenon DEF Struct
<1>6. CASE Moved
  <2>1. todo # <<>> /\ Head(todo).do = "moved"
    BY <1>6 DEF Moved, Doing, NoCall
  <2>2. todo' = DeleteBackup(Head(todo).to) \o Tail(todo) \/ todo' = <<>> \o Tail(todo)
    BY <1>6 DEF Moved
  <2>3. Tail(todo) \in Seq(FileSteps) /\ Chained(Tail(todo))
    BY <2>1, TailChained DEF Struct, Chained
  <2>4. <<>> \o Tail(todo) = Tail(todo)
    BY <2>3, ConcatEmptySeq
  <2>5. Chained(DeleteBackup(Head(todo).to) \o Tail(todo))
    BY <2>1, MovedChained, Zenon DEF Struct
  <2> QED
    BY <2>2, <2>3, <2>4, <2>5 DEF Struct
<1>7. CASE Filled
  <2>1. todo # <<>> /\ Path \in Paths
    <3>1. todo # <<>>
      BY <1>7 DEF Filled, Doing, NoCall
    <3>2. Head(todo) \in FileSteps
      BY <3>1, TailChained DEF Struct
    <3> QED
      BY <3>1, <3>2 DEF FileSteps, Path
  <2>2. \/ todo' = Labelling(Path) \o <<Step("discarded", Path)>> \o Deleting(Path)
        \/ Proceeds
    BY <1>7 DEF Filled
  <2> QED
    BY <1>1, <2>1, <2>2, DiscardingChained DEF Struct
<1>8. CASE CopyToBackup \/ CopyToPrimary \/ Label \/ LabelBackup \/ Sync
  BY <1>1, <1>8, Zenon
     DEF CopyToBackup, CopyToPrimary, Label, LabelBackup, Sync, Fails, Doing, DoingOneOf, NoCall
<1>9. CASE Unlink \/ Open \/ Fill \/ Match \/ Move \/ Leave
  BY <1>1, <1>9, Zenon DEF Unlink, Open, Fill, Match, Move, Leave, Doing, DoingOneOf, NoCall
<1>10. CASE Overlook \/ Tracked \/ CloseDone \/ Deleted \/ GoOn \/ Renamed
  BY <1>1, <1>10, Zenon
     DEF Overlook, Tracked, CloseDone, Deleted, GoOn, Renamed, Doing, DoingOneOf, NoCall
<1>11. CASE SystemCallFails
  BY <1>1, <1>11, Zenon DEF SystemCallFails, Fails, NoCall
<1>12. CASE Crash
  BY <1>12, NothingChained DEF Crash, Struct
<1>13. CASE \E p \in Paths : Damage(p)
  BY <1>2, <1>13 DEF Damage
<1>14. CASE UNCHANGED fileVars
  BY <1>2, <1>14 DEF fileVars
<1> QED
  BY <1>3, <1>4, <1>5, <1>6, <1>7, <1>8, <1>9, <1>10, <1>11, <1>12, <1>13, <1>14
     DEF FilesNext, StepNext

\* What a crash may leave under a name, and what of it the name leads to now.
Reach(n) == UNION {Left(left[n]) : left \in namesLeft}
Now(n) == Left(names[n])
Durable(n) == \A left \in namesLeft : left[n] = names[n]
\* The operation on name n is the last one: a flush of it is one of all.
Newest(n) == \A left \in namesLeft : left[n] = names[n] => left = names
Still == namesLeft = {names}
\* No crash leaves a path a file that another name leads to.
Apart(p) ==
    \A left \in namesLeft, m \in Names, n \in {Primary(p), Backup(p)} :
        left[n] = names[m] /\ Exists(m) => m = n
Injective == \A m, n \in Names : names[m] = names[n] /\ Exists(m) => m = n
Roles == \A fd \in fds : \A p \in Paths : names[Backup(p)] # fd.id

Sealed(c) == [data |-> c, label |-> c]
Bare(c) == [data |-> c, label |-> "none"]

Writer(p) == \E fd \in fds : fd.writes /\ fd.id = names[Primary(p)]
Watched(p) == p \notin loose \/ trouble = 0
Kept(p) == p \notin loose \/ (trouble = 0 /\ Exists(Backup(p)))
Ready(p) == Validates(At(Backup(p))) /\ At(Primary(p)).label = At(Backup(p)).label

Trusts(p, f, g) ==
    /\ Found(f, g) \in worth[p]
    /\ Validates(g) => g.data \in worth[p]
    /\ f.label # "none" => f.label \in worth[p]
Safe(p) == \A f \in Reach(Primary(p)), g \in Reach(Backup(p)) : Trusts(p, f, g)

Labels(p) == \A f \in Now(Primary(p)) : f.label \in {"none", At(Primary(p)).label}
Uniform(p) == \A f \in Now(Primary(p)) : f.data = Content(p)
Own(p) == At(Primary(p)).label \in {"none", Content(p)}
Flush(p) == Durable(Primary(p)) /\ Durable(Backup(p)) /\ Now(Backup(p)) = {At(Backup(p))}

\* A path between two calls.
Resting(p, writes) ==
    /\ Watched(p) => Labels(p) /\ (writes \/ Uniform(p))
    /\ Kept(p) => Flush(p) /\ (writes => Ready(p))
    /\ trouble = 0 =>
           /\ Exists(Backup(p)) => Exists(Primary(p)) /\ Validates(At(Backup(p)))
           /\ ~writes /\ Exists(Primary(p)) => Own(p) /\ (p \notin loose => Content(p) \in worth[p])
Rest(p) == Resting(p, Writer(p))

\* What the client was told stays.
Steady == UNCHANGED <<fds, worth, loose, trouble>>

\* A path whose file is backed up, up to landing l.
Begun(p, l) ==
    /\ Exists(Primary(p))
    /\ Watched(p) => /\ Own(p) /\ Labels(p)
                     /\ l \notin {"tracked", "refreshed"} \/ p \notin loose \/ ~Writer(p) => Uniform(p)
    /\ p \notin loose => Durable(Primary(p)) /\ Content(p) \in worth[p]
    /\ l \in {"closed", "discarded"} =>
           At(Primary(p)) = Sealed(Content(p)) /\ Now(Primary(p)) = {Sealed(Content(p))}
    /\ l \in {"tracked", "refreshed"} => p \in loose \/ ~Writer(p)
Block(p, d, l) ==
    /\ Begun(p, l)
    /\ d = "copy_to_backup" /\ trouble = 0 /\ Exists(Backup(p)) => Validates(At(Backup(p)))
    /\ d # "copy_to_backup" => Exists(Backup(p))
    /\ d \in {"sync_copy_name", "label", "label_backup"} =>
           At(Backup(p)) = Bare(Content(p)) /\ Now(Backup(p)) = {Bare(Content(p))}
    /\ d = "sync_copy_name" => Newest(Backup(p))
    /\ d \in {"label", "label_backup", "sync_backup"} => Still
    /\ d \in {"label_backup", "sync_backup"} => At(Primary(p)) = Sealed(Content(p))
    /\ d = "sync_backup" => At(Backup(p)) = Sealed(Content(p))
Backed(p) ==
    /\ Still /\ At(Primary(p)) = Sealed(Content(p)) /\ Exists(Primary(p)) /\ Exists(Backup(p))
    /\ At(Backup(p)) = Sealed(Content(p)) /\ Now(Backup(p)) = {Sealed(Content(p))}

\* A path whose file is restored.
Restoring(p, d) ==
    LET c == At(Backup(p)).data
    IN  /\ Exists(Primary(p)) /\ Validates(At(Backup(p)))
        /\ Watched(p) => Now(Backup(p)) = {At(Backup(p))} /\ Durable(Backup(p))
        /\ d \in {"sync_restored_name", "label_restored"} =>
               At(Primary(p)) = Bare(c) /\ Now(Primary(p)) = {Bare(c)}
        /\ d = "sync_restored_name" => Newest(Primary(p))
        /\ d # "sync_restored_name" => Still
        /\ d \in {"sync_restored", "sync_name_again"} => At(Primary(p)) = Sealed(c)
        /\ d = "sync_name_again" => Now(Primary(p)) = {Sealed(c)}

\* A path that may be opened.
MayOpen(p, fresh) ==
    /\ Kept(p) /\ Exists(Primary(p)) => Ready(p)
    /\ p \notin loose => IF Exists(Primary(p)) THEN Content(p) \in worth[p] ELSE fresh
Summed(p) ==
    /\ Exists(Primary(p)) /\ At(Primary(p)) = Sealed(Content(p))
    /\ Kept(p) => Flush(p)
    /\ trouble = 0 /\ Exists(Backup(p)) => Validates(At(Backup(p)))
    /\ p \notin loose => Content(p) \in worth[p]
Gone(p, d) ==
    /\ ~Exists(Primary(p)) /\ (p \notin loose => "missing" \in worth[p])
    /\ d # "sync_unlink" => Durable(Primary(p))
    /\ d = "sync_unlink_backup" => ~Exists(Backup(p))

RestDeeds == {"enter", "match", "leave", "unlink", "move", "discarded", "copy_to_primary",
              "closed", "tracked", "refreshed", "restored", "open", "deleted"}
Place(p, d, l, flags) ==
    /\ d \in RestDeeds => Rest(p)
    /\ d = "move" => trouble = 0 /\ Closed(p)
    /\ d = "closed" =>
         \/ failed
         \/ /\ At(Primary(p)) = Sealed(Content(p)) /\ Now(Primary(p)) = {Sealed(Content(p))}
            /\ HasMatchingBackup(p) /\ Exists(Primary(p))
    /\ d = "tracked" => failed \/ MayOpen(p, FALSE)
    /\ d \in {"refreshed", "restored"} => MayOpen(p, FALSE)
    /\ d = "open" => MayOpen(p, WantsFresh(flags))
    /\ d \in BlockDeeds => Block(p, d, l)
    /\ d \in RestoreDeeds \ {"copy_to_primary"} => Restoring(p, d)
    /\ d \in {"checksum", "fill_in_part", "fill", "copy_context", "filled"} =>
           Exists(Primary(p)) /\ Resting(p, TRUE)
    /\ d \in {"sync", "refresh"} => Summed(p)
    /\ d = "refresh" => Now(Primary(p)) = {Sealed(Content(p))}
    /\ d \in {"sync_unlink", "unlink_backup", "sync_unlink_backup"} => Gone(p, d)
    /\ d = "deleted" =>
           \/ failed
           \/ ~Exists(Primary(p)) /\ ~Exists(Backup(p)) /\ Durable(Primary(p)) /\ Durable(Backup(p))

\* A rename between its first step and its last.
Source(p, q) ==
    /\ ~Exists(Primary(p))
    /\ p \notin loose =>
         /\ "missing" \in worth[p] /\ Content(q) \in worth[p]
         /\ \A left \in namesLeft : left[Primary(p)] \in {0, names[Primary(q)]}
         /\ \A left \in namesLeft, m \in Names :
                left[Backup(p)] = names[m] /\ Exists(m) => m = Backup(p)
         /\ Own(q) /\ Labels(q) /\ Uniform(q)
Target(q, d) ==
    /\ Exists(Primary(q)) /\ ~Writer(q)
    /\ Watched(q) => Own(q) /\ Labels(q) /\ Uniform(q)
    /\ q \notin loose => Content(q) \in worth[q] /\ (d # "sync_move" => Durable(Primary(q)))
RenameAt(p, q, d, at) ==
  /\ p # q /\ Target(q, d) /\ Source(p, q)
  /\ backupResult /\ ~failed => trouble = 0
  /\ failed => d \in {"after_move", "after_unlink", "moved", "renamed"}
  /\ failed /\ trouble = 0 => d = "moved"
  /\ d \in BlockDeeds => Block(q, d, "moved")
  /\ trouble = 0 =>
       /\ backupResult \/ d = "renamed" \/ (d \in {"unlink_backup", "sync_unlink_backup"} /\ at = q)
       /\ d \in {"sync_move", "after_move", "after_unlink", "checksum_moved"} \/ at = p =>
              (Exists(Backup(q)) => Validates(At(Backup(q))))
       /\ ~(d \in {"sync_move", "after_move"} \/ (d = "unlink_backup" /\ at = p)) => ~Exists(Backup(p))
       /\ d \in {"unlink_backup", "sync_unlink_backup"} /\ at = q => ~Exists(Backup(q))
       /\ d = "moved" => IF failed THEN ~Exists(Backup(q)) ELSE Backed(q)
       /\ d = "renamed" => IF backupResult THEN Backed(q) ELSE ~Exists(Backup(q))
  /\ d \in {"unlink_backup", "sync_unlink_backup"} /\ at = q => ~backupResult

Last == todo[Len(todo)]
Ahead == AheadOf(todo)
Renames(s, e) == e.do = "renamed" /\ s.do # "move"
PointAt(s, l, e) ==
    IF Renames(s, e) THEN RenameAt(e.at, e.to, s.do, s.at)
    ELSE /\ Place(s.at, s.do, l, s.flags)
         /\ failed => s.do \in Landings /\ s.at \in loose
Point == todo # <<>> => PointAt(Head(todo), Ahead, Last)
Busy == IF todo = <<>> THEN {} ELSE IF Renames(Head(todo), Last) THEN {Last.at, Last.to} ELSE {Path}
OthersRest == \A p \in Paths \ Busy : Rest(p)
AllSafe == \A p \in Paths \ loose : Safe(p)
AllApart == \A p \in Paths \ loose : Apart(p) \/ (todo # <<>> /\ Renames(Head(todo), Last) /\ p = Last.at)
AtRest == todo = <<>> => ~failed /\ backupResult
NotRename == todo # <<>> /\ ~Renames(Head(todo), Last) => backupResult

-----------------------------------------------------------------------------
(* What a step does to the names.                                           *)

\* Name n leads to the same file.
Same(n) == names'[n] = names[n] /\ At(n)' = At(n) /\ Now(n)' = Now(n)
Stable(n) == (Durable(n) => Durable(n)') /\ Reach(n)' \subseteq Reach(n)

\* What there is is what a crash may leave.
LEMMA NowIs ==
    ASSUME Disk, NEW n \in Names
    PROVE  /\ At(n) \in Now(n) /\ Now(n) \subseteq Reach(n)
           /\ Exists(n) => At(n) \in File /\ Now(n) \subseteq File
           /\ ~Exists(n) => At(n) = NoFile /\ Now(n) = {NoFile}
           /\ Durable(n) => Reach(n) = Now(n)
           /\ Reach(n) \subseteq File \cup {NoFile}
           /\ \A left \in namesLeft : left[n] \in Ids /\ Left(left[n]) \subseteq Reach(n)
           /\ names \in namesLeft
<1>1. names \in namesLeft /\ \A left \in namesLeft : left[n] \in Ids
  BY DEF Disk, DiskTypeOK
<1>2. \A left \in namesLeft : Left(left[n]) \subseteq Reach(n)
  BY DEF Reach
<1>3. Now(n) \subseteq Reach(n)
  BY <1>1, <1>2 DEF Now
<1>4. At(n) \in Now(n)
  BY AtIs DEF Now, Left, Exists, Disk, DiskTypeOK
<1>5. Exists(n) => At(n) \in File /\ Now(n) \subseteq File
  BY AtIs DEF Now, Left, Exists
<1>6. ~Exists(n) => At(n) = NoFile /\ Now(n) = {NoFile}
  BY AtIs DEF Now, Left
<1>7. Durable(n) => Reach(n) = Now(n)
  <2> HAVE Durable(n)
  <2>1. Reach(n) \subseteq Now(n)
    BY DEF Reach, Now, Durable
  <2> QED
    BY <1>3, <2>1
<1>8. Reach(n) \subseteq File \cup {NoFile}
  <2>1. \A left \in namesLeft : Left(left[n]) \subseteq File \cup {NoFile}
    BY <1>1, LeftIs
  <2> QED
    BY <2>1 DEF Reach
<1> QED
  BY <1>1, <1>2, <1>3, <1>4, <1>5, <1>6, <1>7, <1>8

\* Names that stay.
LEMMA NamesStay ==
    ASSUME UNCHANGED names, UNCHANGED namesLeft
    PROVE  /\ \A n \in Names : /\ Exists(n)' <=> Exists(n)
                               /\ Durable(n)' <=> Durable(n)
                               /\ Newest(n)' <=> Newest(n)
           /\ Still' <=> Still
           /\ Injective' <=> Injective
           /\ \A p \in Paths : Apart(p)' <=> Apart(p)
BY DEF Exists, Durable, Newest, Still, Injective, Apart

\* Nothing changes.
LEMMA NoEffect ==
    ASSUME UNCHANGED diskVars
    PROVE  /\ \A n \in Names : Same(n) /\ Stable(n) /\ (Exists(n)' <=> Exists(n))
                               /\ (Newest(n)' <=> Newest(n)) /\ (Durable(n)' <=> Durable(n))
           /\ Still' <=> Still
           /\ Injective' <=> Injective
           /\ \A p \in Paths : Apart(p)' <=> Apart(p)
BY DEF diskVars, Exists, Durable, Newest, Still, Injective, Apart, Same, Stable, Reach, Now, Left, At

\* A file that changes, under the only name that leads to it.
LEMMA BecomesEffect ==
    ASSUME Disk, Injective, NEW n \in Names, NEW f \in File, Exists(n), Becomes(names[n], f)
    PROVE  /\ UNCHANGED <<names, namesLeft>>
           /\ At(n)' = f /\ f \in Now(n)'
           /\ \A x \in Now(n)' :
                  /\ x \in File
                  /\ x.label = f.label \/ \E y \in Now(n) : y.label = x.label
                  /\ \/ x.data = f.data \/ \E y \in Now(n) : y.data = x.data
                     \/ x.data = "part" /\ f.data # At(n).data
           /\ \A x \in Reach(n)' : x \in Now(n)' \/ x \in Reach(n)
           /\ \A m \in Names \ {n} :
                  /\ Same(m)
                  /\ (\A left \in namesLeft : left[m] # names[n]) => Stable(m)
<1> DEFINE i == names[n]
           contents == {g.data : g \in inodesLeft[i]} \cup {f.data}
                           \cup IF f.data = inodes[i].data THEN {} ELSE {"part"}
           labels == {g.label : g \in inodesLeft[i]} \cup {f.label}
           S == [data : contents, label : labels]
<1>1. i \in 1..Len(inodes) /\ At(n) = inodes[i] /\ Now(n) = inodesLeft[i]
  BY AtIs DEF Now, Left, Exists
<1>2. /\ names' = names /\ namesLeft' = namesLeft
      /\ inodes' = [inodes EXCEPT ![i] = f] /\ inodesLeft' = [inodesLeft EXCEPT ![i] = S]
  BY DEF Becomes
<1>3. Disk'
  BY BecomesDisk
<1>4. /\ inodes \in Seq(File \cup {NoFile}) /\ inodesLeft \in Seq(SUBSET (File \cup {NoFile}))
      /\ Len(inodesLeft) = Len(inodes) /\ Len(inodes) \in Nat
  BY DEF Disk, DiskTypeOK
<1>5. \A x \in S :
          /\ x.label = f.label \/ \E y \in Now(n) : y.label = x.label
          /\ \/ x.data = f.data \/ \E y \in Now(n) : y.data = x.data
             \/ x.data = "part" /\ f.data # At(n).data
  BY <1>1
<1>6. f \in S
  BY DEF File
<1> HIDE DEF S, i
<1>7. \A j \in Nat : j # 0 /\ j \in 1..Len(inodes) =>
          /\ inodes'[j] = IF j = i THEN f ELSE inodes[j]
          /\ inodesLeft'[j] = IF j = i THEN S ELSE inodesLeft[j]
  BY <1>2, <1>4
<1>8. \A j \in Ids : Left(j)' = IF j = i THEN S ELSE Left(j)
  BY <1>1, <1>4, <1>7 DEF Left, Ids
<1>9. i \in Ids /\ i # 0 /\ Exists(n)'
  BY <1>1, <1>2, <1>4 DEF Ids, Exists, i
<1>10. Now(n)' = S /\ At(n)' = f
  BY <1>1, <1>2, <1>7, <1>8, <1>9 DEF Now, At, Exists, i
<1>11. Now(n)' \subseteq File
  BY <1>3, <1>9, AtIs, <1>10, <1>2 DEF Now, Left, Exists, Disk, Rooted
<1>12. ASSUME NEW x \in Reach(n)' PROVE x \in Now(n)' \/ x \in Reach(n)
  <2>1. PICK left \in namesLeft : x \in Left(left[n])'
    BY <1>2, <1>12 DEF Reach
  <2>2. left[n] \in Ids
    BY NowIs
  <2> QED
    BY <1>8, <1>10, <2>1, <2>2 DEF Reach
<1>13. ASSUME NEW m \in Names \ {n} PROVE Same(m)
  <2>1. names[m] \in Ids /\ names[m] # i
    BY <1>13, AtIs DEF Ids, Exists, Injective, i, Disk, DiskTypeOK
  <2>2. Now(m)' = Now(m)
    BY <1>2, <1>8, <2>1 DEF Now
  <2>3. At(m)' = At(m)
    BY <1>2, <1>7, <2>1, AtIs, <1>4 DEF At, Exists, Ids
  <2> QED
    BY <1>2, <2>2, <2>3 DEF Same
<1>14. ASSUME NEW m \in Names \ {n}, \A left \in namesLeft : left[m] # names[n] PROVE Stable(m)
  <2>1. \A left \in namesLeft : Left(left[m])' = Left(left[m])
    BY <1>8, <1>14, NowIs DEF i
  <2>2. Reach(m)' \subseteq Reach(m)
    BY <1>2, <2>1 DEF Reach
  <2> QED
    BY <1>2, <2>2, NamesStay DEF Stable
<1> QED
  BY <1>2, <1>5, <1>6, <1>10, <1>11, <1>12, <1>13, <1>14

\* A file is flushed.
LEMMA SyncFileEffect ==
    ASSUME Disk, Injective, NEW n \in Names, SyncFile(n)
    PROVE  /\ UNCHANGED <<names, namesLeft>>
           /\ At(n)' = At(n) /\ Now(n)' = {At(n)}
           /\ \A m \in Names : Stable(m) /\ (m # n => Same(m))
<1>1. UNCHANGED <<names, namesLeft, inodes>>
  BY DEF SyncFile
<1>2. /\ inodes \in Seq(File \cup {NoFile}) /\ inodesLeft \in Seq(SUBSET (File \cup {NoFile}))
      /\ Len(inodesLeft) = Len(inodes) /\ Len(inodes) \in Nat
  BY DEF Disk, DiskTypeOK
<1>3. \A m \in Names : At(m)' = At(m) /\ (Exists(m)' <=> Exists(m))
  BY <1>1 DEF At, Exists
<1>4. CASE ~Exists(n)
  <2>1. inodesLeft' = inodesLeft
    BY <1>4 DEF SyncFile
  <2>2. \A m \in Names : Same(m) /\ Stable(m)
    BY <1>1, <2>1 DEF Same, Stable, Now, Left, Reach, At, Exists, Durable
  <2>3. Now(n)' = {At(n)}
    BY <1>4, <2>2, NowIs DEF Same
  <2> QED
    BY <1>1, <1>3, <2>2, <2>3
<1>5. CASE Exists(n)
  <2> DEFINE i == names[n]
  <2>1. i \in 1..Len(inodes) /\ At(n) = inodes[i] /\ Now(n) = inodesLeft[i] /\ i # 0
    BY <1>5, AtIs DEF Now, Left, Exists
  <2>2. inodesLeft' = [inodesLeft EXCEPT ![i] = {At(n)}]
    BY <1>5 DEF SyncFile
  <2> HIDE DEF i
  <2>3. \A j \in Ids : Left(j)' = IF j = i THEN {At(n)} ELSE Left(j)
    BY <1>2, <2>1, <2>2 DEF Left, Ids
  <2>4. At(n) \in Left(i)
    BY NowIs DEF Now, i
  <2>5. \A j \in Ids : Left(j)' \subseteq Left(j)
    BY <2>3, <2>4
  <2>6. i \in Ids
    BY <1>2, <2>1 DEF Ids
  <2>7. Now(n)' = {At(n)}
    BY <1>1, <2>3, <2>6 DEF Now, i
  <2>8. ASSUME NEW m \in Names PROVE Stable(m)
    <3>1. \A left \in namesLeft : Left(left[m])' \subseteq Left(left[m])
      BY <2>5, NowIs
    <3>2. Reach(m)' \subseteq Reach(m)
      BY <1>1, <3>1 DEF Reach
    <3> QED
      BY <1>1, <3>2, NamesStay DEF Stable
  <2>9. ASSUME NEW m \in Names \ {n} PROVE Same(m)
    <3>1. names[m] \in Ids /\ names[m] # i
      BY <1>5, <2>9 DEF Ids, Injective, i, Disk, DiskTypeOK
    <3>2. Now(m)' = Now(m)
      BY <1>1, <2>3, <3>1 DEF Now
    <3> QED
      BY <1>1, <1>3, <3>2 DEF Same
  <2> QED
    BY <1>1, <1>3, <2>7, <2>8, <2>9
<1> QED
  BY <1>4, <1>5

\* The directory of a name is flushed.
LEMMA SyncNameEffect ==
    ASSUME Disk, NEW n \in Names, SyncName(n)
    PROVE  /\ UNCHANGED <<names, inodes, inodesLeft>> /\ namesLeft' \subseteq namesLeft
           /\ Durable(n)'
           /\ \A m \in Names : Same(m) /\ Stable(m)
           /\ Still \/ Newest(n) => Still'
           /\ Injective' <=> Injective
           /\ \A p \in Paths : Apart(p) => Apart(p)'
<1>1. /\ UNCHANGED <<names, inodes, inodesLeft>>
      /\ namesLeft' = {left \in namesLeft : left[n] = names[n]}
  BY DEF SyncName
<1>2. \A m \in Names : Same(m)
  BY <1>1 DEF Same, At, Now, Left, Exists
<1>3. \A j : Left(j)' = Left(j)
  BY <1>1 DEF Left
<1>4. \A m \in Names : Reach(m)' \subseteq Reach(m)
  BY <1>1, <1>3 DEF Reach
<1>5. \A m \in Names : Durable(m) => Durable(m)'
  BY <1>1 DEF Durable
<1>6. Durable(n)'
  BY <1>1 DEF Durable
<1>7. Still \/ Newest(n) => Still'
  BY <1>1, NowIs DEF Still, Newest
<1>8. Injective' <=> Injective
  BY <1>1 DEF Injective, Exists
<1>9. \A p \in Paths : Apart(p) => Apart(p)'
  BY <1>1 DEF Apart, Exists
<1> QED
  BY <1>1, <1>2, <1>4, <1>5, <1>6, <1>7, <1>8, <1>9 DEF Stable

\* A name that comes to lead to a new file, or to none.
LEMMA PointsEffect ==
    ASSUME Disk, Injective, NEW n \in Names, NEW i, Points(n, i),
           i = 0 \/ i = Len(inodes) + 1,
           \A j \in Ids : Left(j)' = Left(j), \A m \in Names \ {n} : At(m)' = At(m)
    PROVE  /\ names'[n] = i
           /\ \A m \in Names \ {n} : Same(m) /\ Stable(m)
           /\ \A x \in Reach(n)' : x \in Now(n)' \/ x \in Reach(n)
           /\ i # 0 => Newest(n)'
           /\ Injective'
           /\ \A p \in Paths : Apart(p) => Apart(p)'
<1>1. /\ names' = [names EXCEPT ![n] = i] /\ namesLeft' = namesLeft \cup {names'}
      /\ names \in [Names -> Ids] /\ namesLeft \subseteq [Names -> Ids] /\ names \in namesLeft
      /\ Len(inodes) \in Nat
  BY DEF Points, Disk, DiskTypeOK
<1>2. names'[n] = i /\ \A m \in Names \ {n} : names'[m] = names[m]
  BY <1>1
<1>3. \A left \in namesLeft, m \in Names : left[m] \in Ids /\ Left(left[m])' = Left(left[m])
  BY <1>1
<1>4. i \in Ids => i = 0
  BY <1>1 DEF Ids
<1>5. ASSUME NEW m \in Names \ {n} PROVE Same(m) /\ Stable(m)
  <2>1. Now(m)' = Now(m)
    BY <1>1, <1>2, <1>3 DEF Now
  <2>2. Reach(m)' \subseteq Reach(m)
    <3> SUFFICES ASSUME NEW left \in namesLeft \cup {names'}, NEW x \in Left(left[m])'
                 PROVE  x \in Reach(m)
      BY <1>1 DEF Reach
    <3>1. CASE left \in namesLeft
      BY <1>3, <3>1 DEF Reach
    <3>2. CASE left = names'
      <4>1. x \in Now(m)
        BY <2>1, <3>2, <1>2 DEF Now
      <4> QED
        BY <4>1, NowIs
    <3> QED
      BY <3>1, <3>2
  <2>3. Durable(m) => Durable(m)'
    BY <1>1, <1>2 DEF Durable
  <2> QED
    BY <1>2, <1>5, <2>1, <2>2, <2>3 DEF Same, Stable
<1>6. ASSUME NEW x \in Reach(n)' PROVE x \in Now(n)' \/ x \in Reach(n)
  <2>1. PICK left \in namesLeft \cup {names'} : x \in Left(left[n])'
    BY <1>1, <1>6 DEF Reach
  <2>2. CASE left \in namesLeft
    BY <1>3, <2>1, <2>2 DEF Reach
  <2>3. CASE left = names'
    BY <2>1, <2>3 DEF Now
  <2> QED
    BY <2>2, <2>3
<1>7. i # 0 => Newest(n)'
  <2> HAVE i # 0
  <2> SUFFICES ASSUME NEW left \in namesLeft \cup {names'}, left[n] = names'[n]
               PROVE  left = names'
    BY <1>1 DEF Newest
  <2> QED
    BY <1>2, <1>3, <1>4
<1>8. Injective'
  <2> SUFFICES ASSUME NEW m \in Names, NEW o \in Names, names'[m] = names'[o], names'[m] # 0
               PROVE  m = o
    BY DEF Injective, Exists
  <2>1. CASE m # n /\ o # n
    BY <1>2, <2>1 DEF Injective, Exists
  <2>2. CASE m = n \/ o = n
    BY <1>1, <1>2, <1>4, <2>2
  <2> QED
    BY <2>1, <2>2
<1>9. ASSUME NEW p \in Paths, Apart(p) PROVE Apart(p)'
  <2> SUFFICES ASSUME NEW left \in namesLeft \cup {names'}, NEW m \in Names,
                      NEW o \in {Primary(p), Backup(p)}, left[o] = names'[m], names'[m] # 0
               PROVE  m = o
    BY <1>1 DEF Apart, Exists
  <2>0. o \in Names
    BY NamesAre
  <2>1. CASE left = names'
    BY <1>8, <2>0, <2>1 DEF Injective, Exists
  <2>2. CASE left \in namesLeft /\ m = n
    BY <1>2, <1>3, <1>4, <2>0, <2>2
  <2>3. CASE left \in namesLeft /\ m # n
    BY <1>2, <1>9, <2>3 DEF Apart, Exists
  <2> QED
    BY <2>1, <2>2, <2>3
<1> QED
  BY <1>2, <1>5, <1>6, <1>7, <1>8, <1>9

\* A new file.
LEMMA CreatesEffect ==
    ASSUME Disk, Injective, NEW n \in Names, NEW c, Creates(n, c)
    PROVE  /\ Exists(n)' /\ At(n)' = Bare(c) /\ Now(n)' = {Bare(c)} /\ names'[n] \notin Ids
           /\ \A m \in Names \ {n} : Same(m) /\ Stable(m)
           /\ \A x \in Reach(n)' : x = Bare(c) \/ x \in Reach(n)
           /\ Newest(n)' /\ Injective'
           /\ \A p \in Paths : Apart(p) => Apart(p)'
<1> DEFINE f == Bare(c)
           i == Len(inodes) + 1
<1>1. /\ inodes' = Append(inodes, f) /\ inodesLeft' = Append(inodesLeft, {f})
      /\ Points(n, i)
  BY DEF Creates, Bare
<1>2. /\ inodes \in Seq(File \cup {NoFile}) /\ inodesLeft \in Seq(SUBSET (File \cup {NoFile}))
      /\ Len(inodesLeft) = Len(inodes) /\ Len(inodes) \in Nat
  BY DEF Disk, DiskTypeOK
<1> HIDE DEF f
<1>3. /\ inodes'[i] = f /\ inodesLeft'[i] = {f}
      /\ \A j \in 1..Len(inodes) : inodes'[j] = inodes[j] /\ inodesLeft'[j] = inodesLeft[j]
  BY <1>1, <1>2
<1>4. i # 0 /\ i \notin Ids
  BY <1>2 DEF Ids
<1>5. \A j \in Ids : Left(j)' = Left(j)
  BY <1>2, <1>3 DEF Left, Ids
<1>6. names' = [names EXCEPT ![n] = i] /\ names \in [Names -> Ids]
  BY <1>1 DEF Points, Disk, DiskTypeOK
<1>7. \A m \in Names \ {n} : At(m)' = At(m)
  BY <1>2, <1>3, <1>6, AtIs DEF At, Exists
<1> HIDE DEF i
<1>8. /\ names'[n] = i
      /\ \A m \in Names \ {n} : Same(m) /\ Stable(m)
      /\ \A x \in Reach(n)' : x \in Now(n)' \/ x \in Reach(n)
      /\ Newest(n)' /\ Injective'
      /\ \A p \in Paths : Apart(p) => Apart(p)'
  <2>1. i = Len(inodes) + 1
    BY DEF i
  <2> QED
    BY <1>1, <1>4, <1>5, <1>7, <2>1, PointsEffect
<1>9. Exists(n)' /\ At(n)' = f /\ Now(n)' = {f}
  BY <1>3, <1>4, <1>8 DEF Exists, At, Now, Left
<1> QED
  BY <1>4, <1>8, <1>9 DEF f

\* A name that goes.
LEMMA UnlinksEffect ==
    ASSUME Disk, Injective, NEW n \in Names, Unlinks(n)
    PROVE  /\ ~Exists(n)' /\ At(n)' = NoFile /\ Now(n)' = {NoFile}
           /\ \A m \in Names \ {n} : Same(m) /\ Stable(m)
           /\ \A x \in Reach(n)' : x = NoFile \/ x \in Reach(n)
           /\ Injective'
           /\ \A p \in Paths : Apart(p) => Apart(p)'
<1>1. Points(n, 0) /\ inodes' = inodes /\ inodesLeft' = inodesLeft
  BY DEF Unlinks
<1>2. \A j \in Ids : Left(j)' = Left(j)
  BY <1>1 DEF Left
<1>3. names' = [names EXCEPT ![n] = 0] /\ names \in [Names -> Ids]
  BY <1>1 DEF Points, Disk, DiskTypeOK
<1>4. \A m \in Names \ {n} : At(m)' = At(m)
  BY <1>1, <1>3 DEF At, Exists
<1>5. /\ names'[n] = 0
      /\ \A m \in Names \ {n} : Same(m) /\ Stable(m)
      /\ \A x \in Reach(n)' : x \in Now(n)' \/ x \in Reach(n)
      /\ Injective'
      /\ \A p \in Paths : Apart(p) => Apart(p)'
  BY <1>1, <1>2, <1>4, PointsEffect
<1>6. ~Exists(n)' /\ At(n)' = NoFile /\ Now(n)' = {NoFile}
  BY <1>5 DEF Exists, At, Now, Left
<1> QED
  BY <1>5, <1>6

\* A file that goes bad.
LEMMA RotsEffect ==
    ASSUME Disk, Injective, NEW n \in Names, NEW l, Exists(n), Rots(n, l)
    PROVE  /\ UNCHANGED <<names, namesLeft>>
           /\ At(n)' = [data |-> "rot", label |-> l] /\ Now(n)' = {At(n)'}
           /\ \A m \in Names \ {n} :
                  /\ Same(m)
                  /\ (\A left \in namesLeft : left[m] # names[n]) => Stable(m)
<1> DEFINE i == names[n]
           f == [data |-> "rot", label |-> l]
<1>1. i \in 1..Len(inodes) /\ i # 0
  BY AtIs DEF Exists
<1>2. /\ names' = names /\ namesLeft' = namesLeft
      /\ inodes' = [inodes EXCEPT ![i] = f] /\ inodesLeft' = [inodesLeft EXCEPT ![i] = {f}]
  BY DEF Rots
<1>4. /\ inodes \in Seq(File \cup {NoFile}) /\ inodesLeft \in Seq(SUBSET (File \cup {NoFile}))
      /\ Len(inodesLeft) = Len(inodes) /\ Len(inodes) \in Nat
  BY DEF Disk, DiskTypeOK
<1> HIDE DEF f, i
<1>7. \A j \in Nat : j # 0 /\ j \in 1..Len(inodes) =>
          /\ inodes'[j] = IF j = i THEN f ELSE inodes[j]
          /\ inodesLeft'[j] = IF j = i THEN {f} ELSE inodesLeft[j]
  BY <1>2, <1>4
<1>8. \A j \in Ids : Left(j)' = IF j = i THEN {f} ELSE Left(j)
  <2> SUFFICES ASSUME NEW j \in Ids PROVE Left(j)' = IF j = i THEN {f} ELSE Left(j)
    OBVIOUS
  <2>1. CASE j = 0
    BY <1>1, <2>1 DEF Left
  <2>2. CASE j # 0
    <3>1. j \in 1..Len(inodes) /\ j \in Nat
      BY <1>4, <2>2 DEF Ids
    <3> QED
      BY <1>7, <2>2, <3>1 DEF Left
  <2> QED
    BY <2>1, <2>2
<1>9. i \in Ids /\ i # 0 /\ Exists(n)'
  BY <1>1, <1>2, <1>4 DEF Ids, Exists, i
<1>10. Now(n)' = {f} /\ At(n)' = f
  BY <1>1, <1>2, <1>7, <1>8, <1>9 DEF Now, At, Exists, i
<1>13. ASSUME NEW m \in Names \ {n} PROVE Same(m)
  <2>1. names[m] \in Ids /\ names[m] # i
    BY <1>13, AtIs DEF Ids, Exists, Injective, i, Disk, DiskTypeOK
  <2>2. Now(m)' = Now(m)
    BY <1>2, <1>8, <2>1 DEF Now
  <2>3. At(m)' = At(m)
    BY <1>2, <1>7, <2>1, AtIs, <1>4 DEF At, Exists, Ids
  <2> QED
    BY <1>2, <2>2, <2>3 DEF Same
<1>14. ASSUME NEW m \in Names \ {n}, \A left \in namesLeft : left[m] # names[n] PROVE Stable(m)
  <2>1. \A left \in namesLeft : Left(left[m])' = Left(left[m])
    BY <1>8, <1>14, NowIs DEF i
  <2>2. Reach(m)' \subseteq Reach(m)
    BY <1>2, <2>1 DEF Reach
  <2> QED
    BY <1>2, <2>2, NamesStay DEF Stable
<1> QED
  BY <1>2, <1>10, <1>13, <1>14 DEF f

\* A name that is gone, and from whatever a crash may leave.
LEMMA DisappearsEffect ==
    ASSUME Disk, Injective, NEW n \in Names, Disappears(n)
    PROVE  /\ ~Exists(n)' /\ At(n)' = NoFile /\ Now(n)' = {NoFile} /\ Durable(n)'
           /\ \A m \in Names \ {n} : Same(m) /\ Stable(m)
           /\ Injective'
           /\ \A p \in Paths : Apart(p) => Apart(p)'
<1>1. /\ names' = [names EXCEPT ![n] = 0] /\ inodes' = inodes /\ inodesLeft' = inodesLeft
      /\ namesLeft' = {[left EXCEPT ![n] = 0] : left \in namesLeft}
      /\ names \in [Names -> Ids] /\ namesLeft \subseteq [Names -> Ids]
  BY DEF Disappears, Disk, DiskTypeOK
<1>2. names'[n] = 0 /\ \A m \in Names \ {n} : names'[m] = names[m]
  BY <1>1
<1>3. \A left \in namesLeft' : left[n] = 0 /\ \E old \in namesLeft :
          \A m \in Names \ {n} : left[m] = old[m]
  BY <1>1
<1>4. \A i : Left(i)' = Left(i)
  BY <1>1 DEF Left
<1>5. \A m \in Names \ {n} : Same(m)
  BY <1>1, <1>2, <1>4 DEF Same, At, Now, Exists
<1>6. \A m \in Names \ {n} : Stable(m)
  <2> SUFFICES ASSUME NEW m \in Names \ {n} PROVE Stable(m)
    OBVIOUS
  <2>1. Durable(m) => Durable(m)'
    BY <1>2, <1>3 DEF Durable
  <2>2. Reach(m)' \subseteq Reach(m)
    BY <1>3, <1>4 DEF Reach
  <2> QED
    BY <2>1, <2>2 DEF Stable
<1>7. ~Exists(n)' /\ At(n)' = NoFile /\ Now(n)' = {NoFile}
  BY <1>2, <1>4 DEF Exists, At, Now, Left
<1>8. Durable(n)'
  BY <1>2, <1>3 DEF Durable
<1>9. Injective'
  BY <1>2 DEF Injective, Exists
<1>10. ASSUME NEW p \in Paths, Apart(p) PROVE Apart(p)'
  <2> SUFFICES ASSUME NEW left \in namesLeft', NEW m \in Names,
                      NEW o \in {Primary(p), Backup(p)}, left[o] = names'[m], names'[m] # 0
               PROVE  m = o
    BY DEF Apart, Exists
  <2>1. o \in Names \ {n} /\ m \in Names \ {n}
    BY <1>2, <1>3, NamesAre
  <2> QED
    BY <1>2, <1>3, <1>10, <2>1 DEF Apart, Exists
<1> QED
  BY <1>5, <1>6, <1>7, <1>8, <1>9, <1>10

\* A file that goes from one name to another.
LEMMA MoveEffect ==
    ASSUME Disk, Injective, NEW n \in Names, NEW m \in Names, n # m, Exists(n),
           names' = [names EXCEPT ![m] = names[n], ![n] = 0],
           namesLeft' = namesLeft \cup {names'}, UNCHANGED <<inodes, inodesLeft>>
    PROVE  /\ ~Exists(n)' /\ At(n)' = NoFile /\ Now(n)' = {NoFile}
           /\ Exists(m)' /\ At(m)' = At(n) /\ Now(m)' = Now(n) /\ names'[m] = names[n]
           /\ \A o \in Names \ {n, m} : Same(o) /\ Stable(o)
           /\ \A x \in Reach(n)' : x = NoFile \/ x \in Reach(n)
           /\ \A x \in Reach(m)' : x \in Now(n) \/ x \in Reach(m)
           /\ \A left \in namesLeft' : left \in namesLeft \/ left[n] = 0
           /\ Injective'
           /\ \A p \in Paths : n # Primary(p) /\ n # Backup(p) /\ Apart(p) => Apart(p)'
<1>1. names \in [Names -> Ids] /\ namesLeft \subseteq [Names -> Ids] /\ names \in namesLeft
  BY DEF Disk, DiskTypeOK
<1>2. names'[n] = 0 /\ names'[m] = names[n] /\ \A o \in Names \ {n, m} : names'[o] = names[o]
  BY <1>1
<1>3. \A i : Left(i)' = Left(i)
  BY DEF Left
<1>4. \A left : left \in namesLeft' <=> left \in namesLeft \/ left = names'
  OBVIOUS
<1>5. ASSUME NEW o \in Names
      PROVE  /\ At(o)' = IF o = n THEN NoFile ELSE IF o = m THEN At(n) ELSE At(o)
             /\ Now(o)' = IF o = n THEN {NoFile} ELSE IF o = m THEN Now(n) ELSE Now(o)
             /\ \A x \in Reach(o)' : x \in Now(o)' \/ x \in Reach(o)
  <2>0. names'[o] = IF o = n THEN 0 ELSE IF o = m THEN names[n] ELSE names[o]
    BY <1>2
  <2>1. At(o)' = IF o = n THEN NoFile ELSE IF o = m THEN At(n) ELSE At(o)
    <3>1. At(o)' = IF names'[o] # 0 THEN inodes[names'[o]] ELSE NoFile
      BY DEF At, Exists
    <3> QED
      BY <2>0, <3>1 DEF At, Exists
  <2>2. Now(o)' = IF o = n THEN {NoFile} ELSE IF o = m THEN Now(n) ELSE Now(o)
    <3>1. Now(o)' = Left(names'[o])
      BY <1>3 DEF Now
    <3>2. Left(0) = {NoFile}
      BY DEF Left
    <3> QED
      BY <2>0, <3>1, <3>2 DEF Now
  <2>3. \A x \in Reach(o)' : x \in Now(o)' \/ x \in Reach(o)
    BY <1>3, <1>4 DEF Reach, Now
  <2> QED
    BY <2>1, <2>2, <2>3
<1>6. \A o \in Names \ {n, m} : Same(o)
  BY <1>2, <1>5 DEF Same
<1>7. \A o \in Names \ {n, m} : Stable(o)
  <2> SUFFICES ASSUME NEW o \in Names \ {n, m} PROVE Stable(o)
    OBVIOUS
  <2>1. Durable(o) => Durable(o)'
    BY <1>2, <1>4 DEF Durable
  <2>2. Reach(o)' \subseteq Reach(o)
    BY <1>5, NowIs
  <2> QED
    BY <2>1, <2>2 DEF Stable
<1>8. Injective'
  <2> SUFFICES ASSUME NEW k \in Names, NEW o \in Names, names'[k] = names'[o], names'[k] # 0
               PROVE  k = o
    BY DEF Injective, Exists
  <2>1. k # n /\ o # n
    BY <1>2
  <2>2. \A x, y \in Names : names[x] = names[y] /\ names[x] # 0 => x = y
    BY DEF Injective, Exists
  <2>3. CASE k = m
    BY <1>2, <2>1, <2>2, <2>3
  <2>4. CASE k # m
    BY <1>2, <2>1, <2>2, <2>4
  <2> QED
    BY <2>3, <2>4
<1>9. ASSUME NEW p \in Paths, n # Primary(p), n # Backup(p), Apart(p) PROVE Apart(p)'
  <2> SUFFICES ASSUME NEW left \in namesLeft', NEW k \in Names,
                      NEW o \in {Primary(p), Backup(p)}, left[o] = names'[k], names'[k] # 0
               PROVE  k = o
    BY DEF Apart, Exists
  <2>0. o \in Names
    BY NamesAre
  <2>1. CASE left = names'
    BY <1>8, <2>0, <2>1 DEF Injective, Exists
  <2>2. CASE left \in namesLeft
    <3>1. k # n
      BY <1>2
    <3>2. k = m => FALSE
      BY <1>2, <1>9, <2>2 DEF Apart, Exists
    <3> QED
      BY <1>2, <1>9, <2>2, <3>1, <3>2 DEF Apart, Exists
  <2> QED
    BY <1>4, <2>1, <2>2
<1>10. Exists(m)' /\ ~Exists(n)'
  BY <1>2 DEF Exists
<1> QED
  BY <1>2, <1>4, <1>5, <1>6, <1>7, <1>8, <1>9, <1>10, Zenon

-----------------------------------------------------------------------------
(* What holds of a path, from what holds of its two names.                  *)

\* No content goes by the name of a missing label.
LEMMA NoneIsNone == "none" \notin Data
BY FilesAssumption DEF Data, Whole

\* The content and the label of a file.
LEMMA PlainIs ==
    ASSUME Disk, NEW p \in Paths
    PROVE  /\ Primary(p) \in Names /\ Backup(p) \in Names /\ Primary(p) # Backup(p)
           /\ Exists(Primary(p)) => Content(p) \in Data /\ Content(p) # "none"
           /\ Validates(At(Primary(p))) => Exists(Primary(p)) /\ At(Primary(p)) = Sealed(Content(p))
           /\ Validates(At(Backup(p))) =>
                  Exists(Backup(p)) /\ At(Backup(p)) = Sealed(At(Backup(p)).data)
                  /\ At(Backup(p)).data # "none"
<1>1. /\ Primary(p) \in Names /\ Backup(p) \in Names /\ Primary(p) # Backup(p)
  BY NamesAre
<1>2. ASSUME NEW n \in Names, Exists(n) PROVE At(n).data \in Data /\ At(n) \in File
  BY <1>2, AtIs, FileIs
<1>3. ASSUME NEW n \in Names, Validates(At(n)) PROVE Exists(n) /\ At(n) = Sealed(At(n).data)
  <2>1. Exists(n)
    BY <1>3, AtIs DEF Validates, NoFile
  <2>2. At(n) \in File /\ At(n).label = At(n).data
    BY <1>2, <1>3, <2>1 DEF Validates
  <2> QED
    BY <2>1, <2>2 DEF Sealed, File
<1> QED
  BY <1>1, <1>2, <1>3, NoneIsNone DEF Content

\* A file with one content, whose backup is another of its contents.
LEMMA SafeFrom ==
    ASSUME NEW p \in Paths, NEW c, c \in worth[p],
           \A f \in Reach(Primary(p)) : f.data = c /\ f.label \in {"none", c},
           \A g \in Reach(Backup(p)) : Validates(g) => g.data \in worth[p], c # "none"
    PROVE  Safe(p)
<1> SUFFICES ASSUME NEW f \in Reach(Primary(p)), NEW g \in Reach(Backup(p)) PROVE Trusts(p, f, g)
  BY DEF Safe
<1>1. f.data = c /\ f.label \in {"none", c}
  OBVIOUS
<1>2. Found(f, g) \in worth[p]
  <2>1. f # NoFile
    BY <1>1 DEF NoFile
  <2>2. CASE f.label = c
    BY <1>1, <2>1, <2>2 DEF Found, Validates
  <2>3. CASE f.label = "none"
    BY <1>1, <2>1, <2>3 DEF Found, Validates
  <2> QED
    BY <1>1, <2>2, <2>3
<1> QED
  BY <1>1, <1>2 DEF Trusts

\* A path that has no file.
LEMMA SafeGone ==
    ASSUME NEW p \in Paths, "missing" \in worth[p],
           \A f \in Reach(Primary(p)) : f = NoFile,
           \A g \in Reach(Backup(p)) : Validates(g) => g.data \in worth[p]
    PROVE  Safe(p)
<1> SUFFICES ASSUME NEW f \in Reach(Primary(p)), NEW g \in Reach(Backup(p)) PROVE Trusts(p, f, g)
  BY DEF Safe
<1>1. f = NoFile /\ f.label = "none"
  BY DEF NoFile
<1> QED
  BY <1>1 DEF Trusts, Found

\* A file that is backed up, by another of its contents.
LEMMA SafeBacked ==
    ASSUME NEW p \in Paths, NEW b, b \in worth[p], b # "none",
           \A g \in Reach(Backup(p)) : g = Sealed(b),
           \A f \in Reach(Primary(p)) :
               /\ f.label = "none" \/ f.label \in worth[p]
    PROVE  Safe(p)
<1> SUFFICES ASSUME NEW f \in Reach(Primary(p)), NEW g \in Reach(Backup(p)) PROVE Trusts(p, f, g)
  BY DEF Safe
<1>1. Validates(g) /\ g.data = b
  BY DEF Validates, Sealed
<1>2. Found(f, g) \in worth[p]
  BY <1>1 DEF Found, Validates
<1> QED
  BY <1>1, <1>2 DEF Trusts

\* What is left of a path is worth something, as it was.
LEMMA SafeShrinks ==
    ASSUME NEW p \in Paths, Safe(p), worth'[p] = worth[p],
           Reach(Primary(p))' \subseteq Reach(Primary(p)), Reach(Backup(p))' \subseteq Reach(Backup(p))
    PROVE  Safe(p)'
BY DEF Safe, Trusts

\* A failed step, a crash or damage leave of a path that is exempt nothing to be said.
LEMMA ExemptRests ==
    ASSUME NEW p \in Paths, NEW w, NEW fresh, p \in loose, trouble # 0
    PROVE  Resting(p, w) /\ MayOpen(p, fresh)
BY DEF Resting, MayOpen, Watched, Kept

\* A path stays as it is when it becomes exempt.
LEMMA LooseRests ==
    ASSUME NEW p \in Paths, NEW w, Resting(p, w), UNCHANGED diskVars, p \in loose',
           trouble' = trouble \/ trouble' # 0
    PROVE  Resting(p, w)'
<1>1. \A n \in Names : Same(n) /\ (Exists(n)' <=> Exists(n)) /\ (Durable(n)' <=> Durable(n))
  BY NoEffect
<1>2. Primary(p) \in Names /\ Backup(p) \in Names
  BY NamesAre
<1>3. CASE trouble' # 0
  BY <1>3 DEF Resting, Watched, Kept
<1>4. CASE trouble' = 0 /\ trouble = 0
  <2>1. Labels(p) /\ (w \/ Uniform(p)) /\ Watched(p)
    BY <1>4 DEF Resting, Watched
  <2>2. Labels(p)' /\ (w \/ Uniform(p)')
    BY <1>1, <1>2, <2>1 DEF Labels, Uniform, Content, Same
  <2>3. Exists(Backup(p)) => Flush(p) /\ (w => Ready(p))
    BY <1>4 DEF Resting, Kept
  <2>4. Exists(Backup(p))' => Flush(p)' /\ (w => Ready(p)')
    BY <1>1, <1>2, <2>3 DEF Flush, Ready, Same
  <2>5. /\ Exists(Backup(p))' => Exists(Primary(p))' /\ Validates(At(Backup(p)))'
        /\ ~w /\ Exists(Primary(p))' => Own(p)'
    BY <1>1, <1>2, <1>4 DEF Resting, Own, Content, Same
  <2> QED
    BY <2>2, <2>4, <2>5, <1>4 DEF Resting, Kept
<1> QED
  BY <1>3, <1>4

\* A path nothing is done to.
Calm(p) ==
    /\ \A n \in {Primary(p), Backup(p)} :
           Same(n) /\ (Durable(n) => Durable(n)') /\ (p \notin loose => Reach(n)' \subseteq Reach(n))
    /\ (p \in loose' <=> p \in loose) /\ worth'[p] = worth[p]
    /\ Writer(p)' <=> Writer(p)
    /\ trouble' = trouble \/ trouble' # 0

\* A path that nothing touches stays as it rests.
LEMMA CalmRests ==
    ASSUME NEW p \in Paths, Calm(p), NEW w, Resting(p, w)
    PROVE  Resting(p, w)'
<1>1. \A n \in {Primary(p), Backup(p)} :
          Same(n) /\ (Exists(n)' <=> Exists(n)) /\ (Durable(n) => Durable(n)')
  BY DEF Calm, Same, Exists
<1>2. trouble' = 0 => trouble = 0
  BY DEF Calm
<1>3. Watched(p)' => Watched(p)
  BY <1>2 DEF Watched, Calm
<1>4. Kept(p)' => Kept(p)
  BY <1>1, <1>2 DEF Kept, Calm
<1>5. (Labels(p) => Labels(p)') /\ (Uniform(p) => Uniform(p)') /\ (Own(p) => Own(p)')
  BY <1>1 DEF Labels, Uniform, Own, Content, Same
<1>6. (Flush(p) => Flush(p)') /\ (Ready(p) => Ready(p)')
  BY <1>1 DEF Flush, Ready, Same
<1>7. Content(p)' = Content(p) /\ At(Backup(p))' = At(Backup(p)) /\ worth'[p] = worth[p]
      /\ (p \in loose' <=> p \in loose)
  BY <1>1 DEF Content, Same, Calm
<1>8. Watched(p)' => Labels(p)' /\ (w \/ Uniform(p)')
  BY <1>3, <1>5 DEF Resting
<1>9. Kept(p)' => Flush(p)' /\ (w => Ready(p)')
  BY <1>4, <1>6 DEF Resting
<1>10. trouble' = 0 =>
           /\ Exists(Backup(p))' => Exists(Primary(p))' /\ Validates(At(Backup(p)))'
           /\ ~w /\ Exists(Primary(p))' => Own(p)' /\ (p \notin loose' => Content(p)' \in worth'[p])
  BY <1>1, <1>2, <1>5, <1>7 DEF Resting
<1> QED
  BY <1>8, <1>9, <1>10 DEF Resting

\* It rests, or is safe, as before.
LEMMA CalmPath ==
    ASSUME NEW p \in Paths, Calm(p)
    PROVE  (Rest(p) => Rest(p)') /\ (p \notin loose /\ Safe(p) => Safe(p)')
<1>1. (Writer(p)' <=> Writer(p)) /\ Writer(p) \in BOOLEAN
  BY DEF Calm, Writer
<1>2. Rest(p) => Resting(p, Writer(p))'
  <2>1. CASE Writer(p)
    <3>1. Rest(p) => Resting(p, TRUE)
      BY <2>1 DEF Rest, Resting
    <3>2. Rest(p) => Resting(p, TRUE)'
      BY <3>1, CalmRests
    <3> QED
      BY <1>1, <2>1, <3>2 DEF Resting
  <2>2. CASE ~Writer(p)
    <3>1. Rest(p) => Resting(p, FALSE)
      BY <2>2 DEF Rest, Resting
    <3>2. Rest(p) => Resting(p, FALSE)'
      BY <3>1, CalmRests
    <3> QED
      BY <1>1, <2>2, <3>2 DEF Resting
  <2> QED
    BY <2>1, <2>2
<1>3. p \notin loose /\ Safe(p) => Safe(p)'
  BY SafeShrinks DEF Calm
<1> QED
  BY <1>2, <1>3 DEF Rest

\* A rest is one with writers or without.
LEMMA RestIs ==
    ASSUME NEW p \in Paths
    PROVE  /\ Rest(p) /\ Writer(p) => Resting(p, TRUE)
           /\ Rest(p) /\ ~Writer(p) => Resting(p, FALSE)
           /\ Resting(p, TRUE) /\ Writer(p) => Rest(p)
           /\ Resting(p, FALSE) /\ ~Writer(p) => Rest(p)
           /\ Resting(p, TRUE) /\ Resting(p, FALSE) => Rest(p)
BY DEF Rest, Resting

\* Names that keep their file in any crash are told apart.
LEMMA DurableApart ==
    ASSUME Disk, Injective, NEW p \in Paths, Durable(Primary(p)), Durable(Backup(p))
    PROVE  Apart(p)
BY NamesAre DEF Apart, Durable, Injective, Exists

\* What there is is what a crash may leave, in the next state.
LEMMA NowIsNext ==
    (Disk => \A n \in Names :
         /\ At(n) \in Now(n) /\ Now(n) \subseteq Reach(n)
         /\ Exists(n) => At(n) \in File /\ Now(n) \subseteq File
         /\ ~Exists(n) => At(n) = NoFile /\ Now(n) = {NoFile}
         /\ Durable(n) => Reach(n) = Now(n))'
<1>1. Disk => \A n \in Names :
         /\ At(n) \in Now(n) /\ Now(n) \subseteq Reach(n)
         /\ Exists(n) => At(n) \in File /\ Now(n) \subseteq File
         /\ ~Exists(n) => At(n) = NoFile /\ Now(n) = {NoFile}
         /\ Durable(n) => Reach(n) = Now(n)
  BY NowIs
<1> QED
  BY <1>1, PTL


\* The same in the next state.
LEMMA PlainIsNext ==
    (Disk => \A p \in Paths :
         /\ Exists(Primary(p)) => Content(p) \in Data /\ Content(p) # "none"
         /\ Validates(At(Primary(p))) => Exists(Primary(p)) /\ At(Primary(p)) = Sealed(Content(p))
         /\ Validates(At(Backup(p))) =>
                Exists(Backup(p)) /\ At(Backup(p)) = Sealed(At(Backup(p)).data))'
<1>1. Disk => \A p \in Paths :
         /\ Exists(Primary(p)) => Content(p) \in Data /\ Content(p) # "none"
         /\ Validates(At(Primary(p))) => Exists(Primary(p)) /\ At(Primary(p)) = Sealed(Content(p))
         /\ Validates(At(Backup(p))) =>
                Exists(Backup(p)) /\ At(Backup(p)) = Sealed(At(Backup(p)).data)
  BY PlainIs
<1> QED
  BY <1>1, PTL


\* The same in the next state.
LEMMA SafeFromNext ==
    (\A p \in Paths : \A c : (
         /\ c \in worth[p] /\ c # "none"
         /\ \A f \in Reach(Primary(p)) : f.data = c /\ f.label \in {"none", c}
         /\ \A g \in Reach(Backup(p)) : Validates(g) => g.data \in worth[p]) => Safe(p))'
<1>1. \A p \in Paths : \A c : (
         /\ c \in worth[p] /\ c # "none"
         /\ \A f \in Reach(Primary(p)) : f.data = c /\ f.label \in {"none", c}
         /\ \A g \in Reach(Backup(p)) : Validates(g) => g.data \in worth[p]) => Safe(p)
  BY SafeFrom
<1> QED
  BY <1>1, PTL


\* The same in the next state.
LEMMA SafeGoneNext ==
    (\A p \in Paths : (
         /\ "missing" \in worth[p]
         /\ \A f \in Reach(Primary(p)) : f = NoFile
         /\ \A g \in Reach(Backup(p)) : Validates(g) => g.data \in worth[p]) => Safe(p))'
<1>1. \A p \in Paths : (
         /\ "missing" \in worth[p]
         /\ \A f \in Reach(Primary(p)) : f = NoFile
         /\ \A g \in Reach(Backup(p)) : Validates(g) => g.data \in worth[p]) => Safe(p)
  BY SafeGone
<1> QED
  BY <1>1, PTL


\* The same in the next state.
LEMMA SafeBackedNext ==
    (\A p \in Paths : \A b : (
         /\ b \in worth[p] /\ b # "none"
         /\ \A g \in Reach(Backup(p)) : g = Sealed(b)
         /\ \A f \in Reach(Primary(p)) : f.label = "none" \/ f.label \in worth[p]) => Safe(p))'
<1>1. \A p \in Paths : \A b : (
         /\ b \in worth[p] /\ b # "none"
         /\ \A g \in Reach(Backup(p)) : g = Sealed(b)
         /\ \A f \in Reach(Primary(p)) : f.label = "none" \/ f.label \in worth[p]) => Safe(p)
  BY SafeBacked
<1> QED
  BY <1>1, PTL


\* The same in the next state.
LEMMA ExemptRestsNext ==
    (\A p \in Paths : p \in loose /\ trouble # 0 =>
         \A w : Resting(p, w) /\ MayOpen(p, w) /\ Rest(p))'
<1>1. \A p \in Paths : p \in loose /\ trouble # 0 =>
         \A w : Resting(p, w) /\ MayOpen(p, w) /\ Rest(p)
  BY ExemptRests DEF Rest
<1> QED
  BY <1>1, PTL


\* The same in the next state.
LEMMA RestIsNext ==
    (\A p \in Paths :
         /\ Rest(p) /\ Writer(p) => Resting(p, TRUE)
         /\ Rest(p) /\ ~Writer(p) => Resting(p, FALSE)
         /\ Resting(p, TRUE) /\ Writer(p) => Rest(p)
         /\ Resting(p, FALSE) /\ ~Writer(p) => Rest(p)
         /\ Resting(p, TRUE) /\ Resting(p, FALSE) => Rest(p))'
<1>1. \A p \in Paths :
         /\ Rest(p) /\ Writer(p) => Resting(p, TRUE)
         /\ Rest(p) /\ ~Writer(p) => Resting(p, FALSE)
         /\ Resting(p, TRUE) /\ Writer(p) => Rest(p)
         /\ Resting(p, FALSE) /\ ~Writer(p) => Rest(p)
         /\ Resting(p, TRUE) /\ Resting(p, FALSE) => Rest(p)
  BY RestIs
<1> QED
  BY <1>1, PTL


\* The same in the next state.
LEMMA DurableApartNext ==
    (Disk /\ Injective =>
         \A p \in Paths : Durable(Primary(p)) /\ Durable(Backup(p)) => Apart(p))'
<1>1. Disk /\ Injective =>
         \A p \in Paths : Durable(Primary(p)) /\ Durable(Backup(p)) => Apart(p)
  BY DurableApart
<1> QED
  BY <1>1, PTL


\* The same in the next state.
LEMMA StillNext ==
    (Still => \A n : Durable(n))'
<1>1. Still => \A n : Durable(n)
  BY DEF Still, Durable
<1> QED
  BY <1>1, PTL

-----------------------------------------------------------------------------
(* A backup that is made.                                                  *)

\* What is begun goes on while the file and its name stay.
LEMMA BegunStays ==
    ASSUME NEW p \in Paths, NEW l, Begun(p, l), Steady, Same(Primary(p)),
           Durable(Primary(p)) => Durable(Primary(p))'
    PROVE  Begun(p, l)'
<1>1. /\ Exists(Primary(p))' <=> Exists(Primary(p))
      /\ At(Primary(p))' = At(Primary(p)) /\ Now(Primary(p))' = Now(Primary(p))
      /\ Content(p)' = Content(p)
  BY DEF Same, Exists, Content
<1>2. /\ worth' = worth /\ loose' = loose /\ trouble' = trouble
      /\ Writer(p)' <=> Writer(p)
  BY DEF Steady, Writer, Same
<1>3. (Own(p)' <=> Own(p)) /\ (Labels(p)' <=> Labels(p)) /\ (Uniform(p)' <=> Uniform(p))
      /\ (Watched(p)' <=> Watched(p))
  BY <1>1, <1>2 DEF Own, Labels, Uniform, Watched
<1> QED
  BY <1>1, <1>2, <1>3 DEF Begun

\* The versions of a file while it is backed up, of a path that is not exempt.
LEMMA BegunIs ==
    ASSUME Disk, NEW p \in Paths, NEW l, Begun(p, l), p \notin loose
    PROVE  /\ Content(p) \in worth[p] /\ Content(p) # "none" /\ Durable(Primary(p))
           /\ \A f \in Reach(Primary(p)) : f.data = Content(p) /\ f.label \in {"none", Content(p)}
           /\ \A f \in Now(Primary(p)) : f.data = Content(p) /\ f.label \in {"none", Content(p)}
<1>1. Own(p) /\ Labels(p) /\ Uniform(p) /\ Durable(Primary(p)) /\ Content(p) \in worth[p]
  BY DEF Begun, Watched
<1>2. Reach(Primary(p)) = Now(Primary(p))
  BY <1>1, NowIs, PlainIs
<1>3. Content(p) # "none"
  BY PlainIs DEF Begun
<1> QED
  BY <1>1, <1>2, <1>3 DEF Own, Labels, Uniform

\* The copy gets its name.
LEMMA CopiedBlock ==
    ASSUME Disk, Injective, NEW p \in Paths, NEW l, Block(p, "copy_to_backup", l), Steady,
           Creates(Backup(p), Content(p))
    PROVE  Block(p, "sync_copy_name", l)' /\ (p \notin loose /\ Safe(p) => Safe(p)')
<1>1. Primary(p) \in Names \ {Backup(p)} /\ Backup(p) \in Names
  BY NamesAre
<1>2. /\ Exists(Backup(p))' /\ At(Backup(p))' = Bare(Content(p)) /\ Now(Backup(p))' = {Bare(Content(p))}
      /\ \A m \in Names \ {Backup(p)} : Same(m) /\ Stable(m)
      /\ \A x \in Reach(Backup(p))' : x = Bare(Content(p)) \/ x \in Reach(Backup(p))
      /\ Newest(Backup(p))'
  BY <1>1, CreatesEffect
<1>3. Begun(p, l) /\ Content(p)' = Content(p)
  BY <1>1, <1>2 DEF Block, Content, Same
<1>4. Begun(p, l)'
  BY <1>1, <1>2, <1>3, BegunStays DEF Stable
<1>5. Block(p, "sync_copy_name", l)'
  BY <1>2, <1>3, <1>4 DEF Block
<1>6. ASSUME p \notin loose, Safe(p) PROVE Safe(p)'
  <2>1. /\ Content(p) \in worth[p] /\ Content(p) # "none"
        /\ \A f \in Reach(Primary(p)) : f.data = Content(p) /\ f.label \in {"none", Content(p)}
    BY <1>3, <1>6, BegunIs
  <2>2. Reach(Primary(p))' \subseteq Reach(Primary(p))
    BY <1>1, <1>2 DEF Stable
  <2>3. \A g \in Reach(Backup(p))' : Validates(g) => g.data \in worth[p]
    <3>1. ~Validates(Bare(Content(p)))
      BY DEF Validates, Bare
    <3>2. \E f : f \in Reach(Primary(p))
      BY <1>1, NowIs
    <3> QED
      BY <1>2, <1>6, <3>1, <3>2 DEF Safe, Trusts
  <2>4. worth'[p] = worth[p]
    BY DEF Steady
  <2> DEFINE c == Content(p)
  <2>5. /\ c \in worth'[p] /\ c # "none"
        /\ \A f \in Reach(Primary(p))' : f.data = c /\ f.label \in {"none", c}
        /\ \A g \in Reach(Backup(p))' : Validates(g) => g.data \in worth'[p]
    BY <2>1, <2>2, <2>3, <2>4
  <2> HIDE DEF c
  <2> QED
    BY <2>5, SafeFromNext
<1> QED
  BY <1>5, <1>6

\* The name of the copy is flushed.
LEMMA CopySynced ==
    ASSUME Disk, NEW p \in Paths, NEW l, Block(p, "sync_copy_name", l), Steady, SyncName(Backup(p))
    PROVE  Block(p, "label", l)' /\ (p \notin loose /\ Safe(p) => Safe(p)')
<1>1. Primary(p) \in Names /\ Backup(p) \in Names
  BY NamesAre
<1>2. (\A m \in Names : Same(m) /\ Stable(m)) /\ Still'
  BY <1>1, SyncNameEffect DEF Block
<1>3. Begun(p, l) /\ Content(p)' = Content(p)
  BY <1>1, <1>2 DEF Block, Content, Same
<1>4. Begun(p, l)'
  BY <1>1, <1>2, <1>3, BegunStays DEF Stable
<1>5. Block(p, "label", l)'
  BY <1>1, <1>2, <1>3, <1>4 DEF Block, Same, Exists
<1> QED
  BY <1>1, <1>2, <1>5, SafeShrinks DEF Steady, Stable

\* A file that gets the label of its content keeps the content in every version.
LEMMA LabelsOwn ==
    ASSUME Disk, Disk', Injective, NEW p \in Paths, Exists(Primary(p)),
           Becomes(names[Primary(p)], Sealed(Content(p)))
    PROVE  /\ Exists(Primary(p))' /\ Content(p)' = Content(p)
           /\ At(Primary(p))' = Sealed(Content(p)) /\ Own(p)'
           /\ Own(p) /\ Labels(p) => Labels(p)'
           /\ Uniform(p) => Uniform(p)'
           /\ Now(Primary(p)) = {Sealed(Content(p))} => Now(Primary(p))' = {Sealed(Content(p))}
           /\ \A n \in Names \ {Primary(p)} :
                  Same(n) /\ ((\A left \in namesLeft : left[n] # names[Primary(p)]) => Stable(n))
           /\ UNCHANGED <<names, namesLeft>>
<1> DEFINE c == Content(p)
<1>1. Primary(p) \in Names /\ c \in Data
  BY PlainIs
<1>2. Sealed(c) \in File
  BY <1>1, FileIs DEF Sealed
<1>3. /\ UNCHANGED <<names, namesLeft>>
      /\ At(Primary(p))' = Sealed(c) /\ Sealed(c) \in Now(Primary(p))'
      /\ \A x \in Now(Primary(p))' :
             /\ x \in File
             /\ x.label = c \/ \E y \in Now(Primary(p)) : y.label = x.label
             /\ x.data = c \/ \E y \in Now(Primary(p)) : y.data = x.data
      /\ \A n \in Names \ {Primary(p)} :
             Same(n) /\ ((\A left \in namesLeft : left[n] # names[Primary(p)]) => Stable(n))
  <2>1. Sealed(c).label = c /\ Sealed(c).data = c /\ c = At(Primary(p)).data
    BY DEF Sealed, Content
  <2> HIDE DEF c
  <2>2. Becomes(names[Primary(p)], Sealed(c))
    BY DEF c
  <2> QED
    BY <1>1, <1>2, <2>1, <2>2, BecomesEffect
<1>4. Content(p)' = c /\ Own(p)' /\ Exists(Primary(p))'
  BY <1>3 DEF Content, Own, Sealed, Exists
<1>5. Own(p) /\ Labels(p) => Labels(p)'
  BY <1>3 DEF Own, Labels, Sealed
<1>6. Uniform(p) => Uniform(p)'
  BY <1>3, <1>4 DEF Uniform
<1>7. Now(Primary(p)) = {Sealed(c)} => Now(Primary(p))' = {Sealed(c)}
  <2> HAVE Now(Primary(p)) = {Sealed(c)}
  <2> SUFFICES ASSUME NEW x \in Now(Primary(p))' PROVE x = Sealed(c)
    BY <1>3
  <2>1. x \in File /\ x.label = c /\ x.data = c
    BY <1>3 DEF Sealed
  <2> QED
    BY <2>1 DEF File, Sealed
<1> QED
  BY <1>3, <1>4, <1>5, <1>6, <1>7

\* The file gets its label.
LEMMA LabelledBlock ==
    ASSUME Disk, Disk', Injective, NEW p \in Paths, NEW l, Block(p, "label", l), Steady,
           Becomes(names[Primary(p)], Sealed(Content(p)))
    PROVE  Block(p, "label_backup", l)' /\ (p \notin loose /\ Safe(p) => Safe(p)')
<1>0. Primary(p) \in Names /\ Backup(p) \in Names \ {Primary(p)} /\ Begun(p, l) /\ Exists(Primary(p))
  BY NamesAre DEF Block, Begun
<1> DEFINE c == Content(p)
<1>1. /\ Exists(Primary(p))' /\ Content(p)' = c
      /\ At(Primary(p))' = Sealed(c) /\ Own(p)'
      /\ Own(p) /\ Labels(p) => Labels(p)'
      /\ Uniform(p) => Uniform(p)'
      /\ Now(Primary(p)) = {Sealed(c)} => Now(Primary(p))' = {Sealed(c)}
      /\ Same(Backup(p)) /\ UNCHANGED <<names, namesLeft>>
  BY <1>0, LabelsOwn
<1>2. (Durable(Primary(p))' <=> Durable(Primary(p))) /\ (Still' <=> Still)
  BY <1>0, <1>1, NamesStay
<1>3. worth' = worth /\ loose' = loose /\ (Watched(p)' <=> Watched(p)) /\ (Writer(p)' <=> Writer(p))
  BY <1>1 DEF Steady, Watched, Writer
<1>4. Begun(p, l)'
  BY <1>0, <1>1, <1>2, <1>3 DEF Begun
<1>5. Block(p, "label_backup", l)'
  BY <1>0, <1>1, <1>2, <1>4 DEF Block, Same, Exists
<1>6. ASSUME p \notin loose PROVE Safe(p)'
  <2>0. p \notin loose'
    BY <1>3, <1>6
  <2>1. /\ c \in worth[p] /\ c # "none"
    BY <1>0, <1>6, BegunIs
  <2>2. \A f \in Now(Primary(p))' : f.data = c /\ f.label \in {"none", c}
    BY <1>1, <1>4, <2>0 DEF Begun, Watched, Own, Labels, Uniform, Sealed
  <2>3. Durable(Primary(p))' /\ Durable(Backup(p))'
    BY <1>2, StillNext DEF Block
  <2>4. Now(Backup(p))' = {Bare(c)}
    BY <1>1 DEF Same, Block
  <2>5. ~Validates(Bare(c))
    BY DEF Validates, Bare
  <2>6. Reach(Primary(p))' = Now(Primary(p))' /\ Reach(Backup(p))' = Now(Backup(p))'
    BY <1>0, <2>3, NowIsNext
  <2> HIDE DEF c
  <2> QED
    BY <1>3, <2>1, <2>2, <2>4, <2>5, <2>6, SafeFromNext
<1> QED
  BY <1>5, <1>6

\* The copy gets its label.
LEMMA LabelledBackup ==
    ASSUME Disk, Disk', Injective, NEW p \in Paths, NEW l, Block(p, "label_backup", l), Steady,
           Becomes(names[Backup(p)], Sealed(At(Backup(p)).data))
    PROVE  Block(p, "sync_backup", l)' /\ (p \notin loose /\ Safe(p) => Safe(p)')
<1> DEFINE c == Content(p)
<1>0. /\ Primary(p) \in Names \ {Backup(p)} /\ Backup(p) \in Names /\ Begun(p, l)
      /\ Exists(Primary(p)) /\ Exists(Backup(p)) /\ Still /\ c \in Data
      /\ At(Backup(p)) = Bare(c) /\ Now(Backup(p)) = {Bare(c)} /\ At(Primary(p)) = Sealed(c)
  BY NamesAre, PlainIs DEF Block, Begun
<1>1. Sealed(c) \in File /\ Bare(c).data = c /\ Bare(c).label = "none" /\ Sealed(c).label = c
      /\ Sealed(c).data = c
  BY <1>0, FileIs DEF Sealed, Bare
<1> HIDE DEF c
<1>2. Becomes(names[Backup(p)], Sealed(c))
  BY <1>0, <1>1
<1>3. /\ UNCHANGED <<names, namesLeft>> /\ At(Backup(p))' = Sealed(c)
      /\ \A x \in Now(Backup(p))' : x.data = c /\ x.label \in {"none", c}
      /\ \A m \in Names \ {Backup(p)} :
             Same(m) /\ ((\A left \in namesLeft : left[m] # names[Backup(p)]) => Stable(m))
  BY <1>0, <1>1, <1>2, BecomesEffect
<1>4. (\A n \in Names : Durable(n)' <=> Durable(n)) /\ Still'
  BY <1>0, <1>3, NamesStay
<1>5. Begun(p, l)' /\ Content(p)' = c /\ At(Primary(p))' = Sealed(c)
  BY <1>0, <1>3, <1>4, BegunStays DEF Same, Content, c
<1>6. Block(p, "sync_backup", l)'
  BY <1>0, <1>3, <1>4, <1>5 DEF Block, Exists
<1>7. ASSUME p \notin loose PROVE Safe(p)'
  <2>1. /\ c \in worth[p] /\ c # "none"
        /\ \A f \in Now(Primary(p)) : f.data = c /\ f.label \in {"none", c}
    BY <1>0, <1>7, BegunIs DEF c
  <2>2. Reach(Primary(p))' = Now(Primary(p)) /\ Reach(Backup(p))' = Now(Backup(p))'
    BY <1>0, <1>3, <1>4, NowIsNext, StillNext DEF Same
  <2> QED
    BY <1>3, <2>1, <2>2, SafeFromNext DEF Steady, Validates
<1> QED
  BY <1>6, <1>7

\* A path with a backup that is flushed rests, and may be opened.
LEMMA BackedRests ==
    ASSUME Disk, NEW p \in Paths, NEW w, Backed(p), Watched(p) => Labels(p) /\ (w \/ Uniform(p)),
           p \notin loose => Content(p) \in worth[p], NEW fresh
    PROVE  /\ Resting(p, w) /\ MayOpen(p, fresh) /\ HasMatchingBackup(p)
           /\ Durable(Primary(p)) /\ Durable(Backup(p))
<1>1. /\ Durable(Primary(p)) /\ Durable(Backup(p)) /\ Now(Backup(p)) = {At(Backup(p))}
      /\ Exists(Primary(p)) /\ Exists(Backup(p))
      /\ At(Primary(p)) = Sealed(Content(p)) /\ At(Backup(p)) = Sealed(Content(p))
  BY DEF Backed, Still, Durable
<1>2. Content(p) # "none"
  BY <1>1, PlainIs
<1>3. /\ Validates(At(Backup(p))) /\ Ready(p) /\ Own(p) /\ Flush(p) /\ HasMatchingBackup(p)
  BY <1>1, <1>2 DEF Validates, Ready, Own, Flush, Sealed, HasMatchingBackup, Content
<1> QED
  BY <1>1, <1>3 DEF Resting, MayOpen

\* The same in the next state.
LEMMA BackedRestsNext ==
    (\A q \in Paths : \A x, y : (Disk /\ Backed(q) /\ (Watched(q) => Labels(q) /\ (x \/ Uniform(q)))
         /\ (q \notin loose => Content(q) \in worth[q]))
         => /\ Resting(q, x) /\ MayOpen(q, y) /\ HasMatchingBackup(q)
            /\ Durable(Primary(q)) /\ Durable(Backup(q)))'
<1>1. \A q \in Paths : \A x, y : (Disk /\ Backed(q) /\ (Watched(q) => Labels(q) /\ (x \/ Uniform(q)))
         /\ (q \notin loose => Content(q) \in worth[q]))
         => /\ Resting(q, x) /\ MayOpen(q, y) /\ HasMatchingBackup(q)
            /\ Durable(Primary(q)) /\ Durable(Backup(q))
  BY BackedRests
<1> QED
  BY <1>1, PTL

\* The copy is flushed.
LEMMA BackupSynced ==
    ASSUME Disk, Disk', Injective, NEW p \in Paths, NEW l, Block(p, "sync_backup", l), Steady,
           SyncFile(Backup(p))
    PROVE  /\ Backed(p)' /\ Begun(p, l)' /\ Same(Primary(p))
           /\ (p \notin loose /\ Safe(p) => Safe(p)')
           /\ l \in {"tracked", "refreshed", "closed", "discarded"} =>
                  Rest(p)' /\ MayOpen(p, FALSE)' /\ HasMatchingBackup(p)'
<1> DEFINE c == Content(p)
<1>0. /\ Primary(p) \in Names \ {Backup(p)} /\ Backup(p) \in Names /\ Begun(p, l)
      /\ Exists(Primary(p)) /\ Exists(Backup(p)) /\ Still
      /\ At(Backup(p)) = Sealed(c) /\ At(Primary(p)) = Sealed(c)
  BY NamesAre DEF Block, Begun
<1>1. /\ UNCHANGED <<names, namesLeft>>
      /\ At(Backup(p))' = At(Backup(p)) /\ Now(Backup(p))' = {At(Backup(p))}
      /\ \A m \in Names : Stable(m) /\ (m # Backup(p) => Same(m))
  BY <1>0, SyncFileEffect
<1>2. Still' /\ Begun(p, l)' /\ Content(p)' = c /\ At(Primary(p))' = Sealed(c)
  BY <1>0, <1>1, NamesStay, BegunStays DEF Same, Content, Stable
<1>3. Backed(p)'
  BY <1>0, <1>1, <1>2 DEF Backed, Exists
<1>4. p \notin loose /\ Safe(p) => Safe(p)'
  BY <1>0, <1>1, SafeShrinks DEF Steady, Stable
<1>5. ASSUME l \in {"tracked", "refreshed", "closed", "discarded"}
      PROVE  Rest(p)' /\ MayOpen(p, FALSE)' /\ HasMatchingBackup(p)'
  <2>1. Watched(p)' => Labels(p)'
    BY <1>2 DEF Begun
  <2>2. ASSUME Watched(p)' PROVE Writer(p)' \/ Uniform(p)'
    BY <1>2, <1>5, <2>2 DEF Begun
  <2>3. p \notin loose' => Content(p)' \in worth'[p]
    BY <1>2 DEF Begun
  <2> QED
    BY <1>3, <2>1, <2>2, <2>3, BackedRestsNext, Zenon DEF Rest
<1> QED
  BY <1>1, <1>2, <1>3, <1>4, <1>5, <1>0

\* A backup that fails, of a path that is exempt from then on.
LEMMA BackupFails ==
    ASSUME NEW p \in Paths, NEW l, Begun(p, l), UNCHANGED diskVars, UNCHANGED fds, p \in loose',
           trouble' # 0 \/ (trouble' = trouble /\ ~Exists(Backup(p))), NEW fresh
    PROVE  Rest(p)' /\ MayOpen(p, fresh)'
<1>0. Primary(p) \in Names /\ Backup(p) \in Names
  BY NamesAre
<1>1. \A n \in Names : Same(n) /\ (Exists(n)' <=> Exists(n))
  BY NoEffect
<1>2. CASE trouble' # 0
  BY <1>2, ExemptRestsNext DEF Resting, MayOpen, Watched, Kept, Rest
<1>3. CASE trouble' = 0
  <2>1. trouble = 0 /\ ~Exists(Backup(p))' /\ Watched(p)
    BY <1>0, <1>1, <1>3 DEF Watched
  <2>2. Own(p) /\ Labels(p) /\ (~Writer(p) => Uniform(p))
    BY <2>1 DEF Begun
  <2>3. Own(p)' /\ Labels(p)' /\ (~Writer(p)' => Uniform(p)')
    BY <1>0, <1>1, <2>2 DEF Own, Labels, Uniform, Content, Same, Writer
  <2> QED
    BY <2>1, <2>3 DEF Rest, Resting, Kept, MayOpen
<1> QED
  BY <1>2, <1>3

-----------------------------------------------------------------------------
(* A file that is restored.                                                *)

\* The backup of a path between two calls, when it is good.
LEMMA RestoresFrom ==
    ASSUME Disk, NEW p \in Paths, NEW w, Resting(p, w), Validates(At(Backup(p)))
    PROVE  /\ Exists(Backup(p)) /\ At(Backup(p)).data \in Data /\ At(Backup(p)).data # "none"
           /\ At(Backup(p)) = Sealed(At(Backup(p)).data)
           /\ Watched(p) => Kept(p)
           /\ Kept(p) => /\ Durable(Primary(p)) /\ Durable(Backup(p))
                         /\ Now(Backup(p)) = {At(Backup(p))} /\ Reach(Backup(p)) = {At(Backup(p))}
<1>0. Primary(p) \in Names /\ Backup(p) \in Names
  BY NamesAre
<1>1. Exists(Backup(p)) /\ At(Backup(p)) = Sealed(At(Backup(p)).data) /\ At(Backup(p)).data # "none"
  BY PlainIs
<1>2. At(Backup(p)).data \in Data
  BY <1>0, <1>1, AtIs, FileIs
<1>3. Watched(p) => Kept(p)
  BY <1>1 DEF Watched, Kept
<1>4. Kept(p) => Flush(p)
  BY DEF Resting
<1>5. Kept(p) => Reach(Backup(p)) = {At(Backup(p))}
  BY <1>0, <1>4, NowIs DEF Flush
<1> QED
  BY <1>1, <1>2, <1>3, <1>4, <1>5 DEF Flush

\* The copy of the backup gets the name.
LEMMA CopiedBack ==
    ASSUME Disk, Injective, NEW p \in Paths, NEW w, Resting(p, w), Steady,
           Validates(At(Backup(p))), Creates(Primary(p), At(Backup(p)).data)
    PROVE  Restoring(p, "sync_restored_name")' /\ (p \notin loose /\ Safe(p) => Safe(p)')
<1> DEFINE b == At(Backup(p)).data
<1>0. /\ Backup(p) \in Names \ {Primary(p)} /\ Primary(p) \in Names
  BY NamesAre
<1>1. /\ Exists(Primary(p))' /\ At(Primary(p))' = Bare(b) /\ Now(Primary(p))' = {Bare(b)}
      /\ \A m \in Names \ {Primary(p)} : Same(m) /\ Stable(m)
      /\ \A x \in Reach(Primary(p))' : x = Bare(b) \/ x \in Reach(Primary(p))
      /\ Newest(Primary(p))'
  BY <1>0, CreatesEffect
<1>2. /\ Watched(p)' => Watched(p)
      /\ At(Backup(p))' = At(Backup(p)) /\ Now(Backup(p))' = Now(Backup(p))
      /\ Durable(Backup(p)) => Durable(Backup(p))'
      /\ Reach(Backup(p))' \subseteq Reach(Backup(p))
  BY <1>0, <1>1 DEF Steady, Watched, Same, Stable
<1>3. Restoring(p, "sync_restored_name")'
  BY <1>1, <1>2, RestoresFrom DEF Restoring
<1>4. ASSUME p \notin loose, Safe(p) PROVE Safe(p)'
  <2>1. Reach(Backup(p)) = {Sealed(b)} /\ b # "none"
    BY <1>4, RestoresFrom DEF Kept
  <2>2. \A f \in Reach(Primary(p)) : f.label = "none" \/ f.label \in worth[p]
    BY <2>1 , <1>4 DEF Safe, Trusts
  <2>3. b \in worth[p]
    <3>1. Sealed(b).data = b /\ Validates(Sealed(b))
      BY <2>1 DEF Sealed, Validates
    <3>2. \E f : f \in Reach(Primary(p))
      BY <1>0, NowIs
    <3> QED
      BY <1>4, <2>1, <3>1, <3>2 DEF Safe, Trusts
  <2>4. Bare(b).label = "none"
    BY DEF Bare
  <2> HIDE DEF b
  <2> QED
    BY <1>1, <1>2, <2>1, <2>2, <2>3, <2>4, SafeBackedNext DEF Steady
<1> QED
  BY <1>3, <1>4

\* The name is flushed.
LEMMA RestoredName ==
    ASSUME Disk, NEW p \in Paths, Restoring(p, "sync_restored_name"), Steady, SyncName(Primary(p))
    PROVE  Restoring(p, "label_restored")' /\ (p \notin loose /\ Safe(p) => Safe(p)')
<1>1. Primary(p) \in Names /\ Backup(p) \in Names
  BY NamesAre
<1>2. (\A m \in Names : Same(m) /\ Stable(m)) /\ Still'
  BY <1>1, SyncNameEffect DEF Restoring
<1>3. Restoring(p, "label_restored")'
  BY <1>1, <1>2 DEF Restoring, Same, Stable, Exists, Steady, Watched
<1> QED
  BY <1>1, <1>2, <1>3, SafeShrinks DEF Steady, Stable

\* A path that is being restored is worth its backup.
LEMMA RestoringIs ==
    ASSUME Disk, NEW p \in Paths, NEW d, Restoring(p, d)
    PROVE  LET b == At(Backup(p)).data
           IN  /\ Exists(Backup(p)) /\ b \in Data /\ b # "none" /\ At(Backup(p)) = Sealed(b)
               /\ Validates(Sealed(b)) /\ Sealed(b).data = b
               /\ p \notin loose /\ Safe(p) => b \in worth[p]
<1> DEFINE b == At(Backup(p)).data
<1>0. Primary(p) \in Names /\ Backup(p) \in Names
  BY NamesAre
<1>1. /\ Exists(Backup(p)) /\ b # "none" /\ At(Backup(p)) = Sealed(b)
  BY PlainIs DEF Restoring
<1>2. b \in Data
  BY <1>0, <1>1, AtIs, FileIs
<1>3. Validates(Sealed(b)) /\ Sealed(b).data = b
  BY <1>1 DEF Validates, Sealed
<1>4. ASSUME Safe(p) PROVE b \in worth[p]
  <2>1. At(Backup(p)) \in Reach(Backup(p)) /\ At(Primary(p)) \in Reach(Primary(p))
    BY <1>0, NowIs
  <2> QED
    BY <1>1, <1>3, <1>4, <2>1 DEF Safe, Trusts
<1> QED
  BY <1>1, <1>2, <1>3, <1>4

\* The file gets its label.
LEMMA LabelledBack ==
    ASSUME Disk, Disk', Injective, NEW p \in Paths, Restoring(p, "label_restored"), Steady,
           Becomes(names[Primary(p)], Sealed(Content(p)))
    PROVE  Restoring(p, "sync_restored")' /\ (p \notin loose /\ Safe(p) => Safe(p)')
<1> DEFINE b == At(Backup(p)).data
<1>0. /\ Primary(p) \in Names /\ Backup(p) \in Names \ {Primary(p)} /\ Still
      /\ Exists(Primary(p)) /\ At(Primary(p)) = Bare(b) /\ Now(Primary(p)) = {Bare(b)}
      /\ Watched(p) => Now(Backup(p)) = {At(Backup(p))}
  BY NamesAre DEF Restoring
<1>1. Content(p) = b /\ Bare(b).data = b /\ Bare(b).label = "none" /\ Sealed(b).label = b
      /\ Sealed(b).data = b
  BY <1>0 DEF Bare, Content, Sealed
<1>2. /\ b \in Data /\ b # "none" /\ At(Backup(p)) = Sealed(b)
      /\ p \notin loose /\ Safe(p) => b \in worth[p]
  BY RestoringIs
<1> HIDE DEF b
<1>3. Own(p) /\ Labels(p) /\ Uniform(p)
  BY <1>0, <1>1 DEF Own, Labels, Uniform
<1>4. /\ Exists(Primary(p))' /\ At(Primary(p))' = Sealed(b)
      /\ Labels(p)' /\ Uniform(p)' /\ Content(p)' = b
      /\ Same(Backup(p)) /\ UNCHANGED <<names, namesLeft>>
  BY <1>0, <1>1, <1>3, LabelsOwn
<1>5. Still'
  BY <1>0, <1>4, NamesStay
<1>6. At(Backup(p))' = Sealed(b) /\ (Watched(p)' => Now(Backup(p))' = {Sealed(b)})
  BY <1>0, <1>2, <1>4 DEF Same, Steady, Watched
<1>7. Durable(Primary(p))' /\ Durable(Backup(p))'
  BY <1>5, StillNext
<1>8. Restoring(p, "sync_restored")'
  <2>1. Validates(At(Backup(p)))'
    BY <1>1, <1>2, <1>6 DEF Validates
  <2>2. At(Backup(p)).data' = b
    BY <1>1, <1>6
  <2> QED
    BY <1>4, <1>5, <1>6, <1>7, <2>1, <2>2 DEF Restoring
<1>9. ASSUME p \notin loose, Safe(p) PROVE Safe(p)'
  <2>1. /\ Reach(Primary(p))' = Now(Primary(p))' /\ Reach(Backup(p))' = {Sealed(b)}
    BY <1>0, <1>6, <1>7, <1>9, NowIsNext DEF Watched, Steady
  <2>2. \A f \in Now(Primary(p))' : f.data = b /\ f.label \in {"none", b}
    BY <1>1, <1>4 DEF Labels, Uniform
  <2> QED
    BY <1>1, <1>2, <1>9, <2>1, <2>2, SafeFromNext DEF Steady
<1> QED
  BY <1>8, <1>9

\* The file is flushed.
LEMMA RestoredFile ==
    ASSUME Disk, Injective, NEW p \in Paths, Restoring(p, "sync_restored"), Steady,
           SyncFile(Primary(p))
    PROVE  Restoring(p, "sync_name_again")' /\ (p \notin loose /\ Safe(p) => Safe(p)')
<1>1. Primary(p) \in Names /\ Backup(p) \in Names \ {Primary(p)}
  BY NamesAre
<1>2. /\ UNCHANGED <<names, namesLeft>>
      /\ At(Primary(p))' = At(Primary(p)) /\ Now(Primary(p))' = {At(Primary(p))}
      /\ Same(Backup(p)) /\ Stable(Primary(p)) /\ Stable(Backup(p))
  BY <1>1, SyncFileEffect
<1>3. Still' /\ (Durable(Backup(p)) => Durable(Backup(p))')
  BY <1>1, <1>2, NamesStay DEF Restoring
<1>4. Restoring(p, "sync_name_again")'
  BY <1>2, <1>3 DEF Restoring, Same, Exists, Steady, Watched
<1> QED
  BY <1>2, <1>4, SafeShrinks DEF Steady, Stable

\* The name is flushed again: the file is restored.
LEMMA RestoredAgain ==
    ASSUME Disk, NEW p \in Paths, Restoring(p, "sync_name_again"), Steady, SyncName(Primary(p)),
           p \notin loose => Safe(p)
    PROVE  Rest(p)' /\ MayOpen(p, FALSE)' /\ (p \notin loose /\ Safe(p) => Safe(p)')
<1> DEFINE b == At(Backup(p)).data
<1>1. Primary(p) \in Names /\ Backup(p) \in Names
  BY NamesAre
<1>2. (\A m \in Names : Same(m) /\ Stable(m)) /\ Still'
  BY <1>1, SyncNameEffect DEF Restoring
<1>3. /\ At(Backup(p)) = Sealed(b) /\ At(Primary(p)) = Sealed(b) /\ Now(Primary(p)) = {Sealed(b)}
      /\ Exists(Primary(p)) /\ Exists(Backup(p)) /\ Validates(Sealed(b)) /\ Sealed(b).data = b
      /\ p \notin loose => b \in worth[p]
      /\ Watched(p) => Now(Backup(p)) = {Sealed(b)}
  BY RestoringIs DEF Restoring
<1> HIDE DEF b
<1>4. /\ At(Backup(p))' = Sealed(b) /\ At(Primary(p))' = Sealed(b) /\ Now(Primary(p))' = {Sealed(b)}
      /\ Exists(Primary(p))' /\ Exists(Backup(p))' /\ Content(p)' = b
      /\ p \notin loose' => b \in worth'[p]
      /\ Watched(p)' => Now(Backup(p))' = {Sealed(b)}
      /\ Durable(Primary(p))' /\ Durable(Backup(p))'
  BY <1>1, <1>2, <1>3, StillNext DEF Same, Exists, Content, Steady, Watched
<1>5. Labels(p)' /\ Uniform(p)' /\ Own(p)' /\ Ready(p)' /\ (Watched(p)' => Flush(p)')
  BY <1>3, <1>4 DEF Labels, Uniform, Own, Ready, Flush, Sealed
<1>6. Kept(p)' => Watched(p)'
  BY DEF Kept, Watched
<1>7. Rest(p)' /\ MayOpen(p, FALSE)'
  BY <1>3, <1>4, <1>5, <1>6 DEF Rest, Resting, MayOpen
<1> QED
  BY <1>1, <1>2, <1>7, SafeShrinks DEF Steady, Stable

-----------------------------------------------------------------------------
(* A file that is written.                                                 *)

\* The versions of a path that is not exempt and whose label is its backup's.
LEMMA ReadyIs ==
    ASSUME Disk, NEW p \in Paths, NEW w, Resting(p, w), Ready(p), p \notin loose, Safe(p)
    PROVE  LET b == At(Backup(p)).data
           IN  /\ b \in worth[p] /\ b # "none" /\ Validates(Sealed(b)) /\ Sealed(b).data = b
               /\ Durable(Primary(p)) /\ Durable(Backup(p)) /\ At(Backup(p)) = Sealed(b)
               /\ Reach(Backup(p)) = {Sealed(b)} /\ At(Primary(p)).label = b
               /\ \A f \in Now(Primary(p)) : f.label \in {"none", b}
<1> DEFINE b == At(Backup(p)).data
<1>0. Primary(p) \in Names /\ Backup(p) \in Names
  BY NamesAre
<1>1. /\ At(Backup(p)) = Sealed(b) /\ b # "none" /\ Durable(Primary(p)) /\ Durable(Backup(p))
      /\ Reach(Backup(p)) = {Sealed(b)}
  BY RestoresFrom DEF Ready, Kept
<1>2. Validates(Sealed(b)) /\ Sealed(b).data = b /\ Sealed(b).label = b
  BY <1>1 DEF Validates, Sealed
<1>3. At(Primary(p)).label = b
  BY <1>1, <1>2 DEF Ready
<1>4. \A f \in Now(Primary(p)) : f.label \in {"none", b}
  BY <1>3 DEF Resting, Watched, Labels
<1>5. b \in worth[p]
  <2>1. \E f : f \in Reach(Primary(p))
    BY <1>0, NowIs
  <2> QED
    BY <1>1, <1>2, <2>1 DEF Safe, Trusts
<1> QED
  BY <1>1, <1>2, <1>3, <1>4, <1>5

\* Whatever is written over a file whose label is its backup's, the backup is what counts.
LEMMA Overwritten ==
    ASSUME Disk, Disk', Injective, NEW p \in Paths, NEW w, Resting(p, w), Kept(p) => Ready(p),
           Exists(Primary(p)), NEW d \in Data,
           Becomes(names[Primary(p)], [At(Primary(p)) EXCEPT !.data = d]),
           UNCHANGED <<worth, loose, trouble>>
    PROVE  Exists(Primary(p))' /\ Resting(p, TRUE)' /\ (p \notin loose /\ Safe(p) => Safe(p)')
<1> DEFINE f == [At(Primary(p)) EXCEPT !.data = d]
           k == At(Primary(p)).label
<1>0. Primary(p) \in Names /\ Backup(p) \in Names \ {Primary(p)}
  BY NamesAre
<1>1. f \in File /\ f.label = k
  <2>1. At(Primary(p)) \in File
    BY <1>0, AtIs
  <2> QED
    BY <2>1, FileIs DEF File
<1> HIDE DEF f, k
<1>2. /\ UNCHANGED <<names, namesLeft>> /\ At(Primary(p))' = f
      /\ \A x \in Now(Primary(p))' : x.label = k \/ \E y \in Now(Primary(p)) : y.label = x.label
      /\ Same(Backup(p))
  <2>1. Becomes(names[Primary(p)], f)
    BY DEF f
  <2> QED
    BY <1>0, <1>1, <2>1, BecomesEffect
<1>3. /\ \A n \in Names : (Durable(n)' <=> Durable(n)) /\ (Exists(n)' <=> Exists(n))
  BY <1>2, NamesStay
<1>4. At(Primary(p)).label' = k /\ At(Backup(p))' = At(Backup(p)) /\ Now(Backup(p))' = Now(Backup(p))
  BY <1>1, <1>2 DEF Same
<1>5. (Watched(p)' <=> Watched(p)) /\ (Kept(p)' <=> Kept(p))
  BY <1>0, <1>3 DEF Watched, Kept
<1>6. Labels(p) => Labels(p)'
  BY <1>2, <1>4 DEF Labels, k
<1>7. (Flush(p) => Flush(p)') /\ (Ready(p) => Ready(p)')
  BY <1>0, <1>3, <1>4 DEF Flush, Ready, k
<1>8. Resting(p, TRUE)'
  BY <1>0, <1>3, <1>4, <1>5, <1>6, <1>7 DEF Resting
<1>9. ASSUME p \notin loose, Safe(p) PROVE Safe(p)'
  <2> DEFINE b == At(Backup(p)).data
  <2>1. /\ b \in worth[p] /\ b # "none" /\ At(Backup(p)) = Sealed(b)
        /\ Durable(Primary(p)) /\ Durable(Backup(p))
        /\ Reach(Backup(p)) = {Sealed(b)} /\ k = b
        /\ \A x \in Now(Primary(p)) : x.label \in {"none", b}
    BY <1>9, ReadyIs DEF Kept, k
  <2>2. Now(Backup(p)) = {Sealed(b)}
    BY <1>0, <2>1, NowIs
  <2> HIDE DEF b
  <2>3. Reach(Primary(p))' = Now(Primary(p))' /\ Reach(Backup(p))' = {Sealed(b)}
    BY <1>0, <1>3, <1>4, <2>1, <2>2, NowIsNext
  <2>4. \A x \in Now(Primary(p))' : x.label \in {"none", b}
    BY <1>2, <2>1
  <2> QED
    BY <2>1, <2>3, <2>4, SafeBackedNext
<1> QED
  BY <1>0, <1>3, <1>8, <1>9

\* An empty file is created.
LEMMA CreatedRests ==
    ASSUME Disk, Injective, NEW p \in Paths, NEW w, Resting(p, w), ~Exists(Primary(p)),
           Creates(Primary(p), "empty"), p \in loose', trouble' = trouble, NEW v
    PROVE  Exists(Primary(p))' /\ Resting(p, v)'
<1>0. Primary(p) \in Names /\ Backup(p) \in Names \ {Primary(p)}
  BY NamesAre
<1>1. /\ Exists(Primary(p))' /\ At(Primary(p))' = Bare("empty") /\ Now(Primary(p))' = {Bare("empty")}
      /\ Same(Backup(p))
  BY <1>0, CreatesEffect
<1>2. Labels(p)' /\ Uniform(p)' /\ Own(p)'
  BY <1>1 DEF Labels, Uniform, Own, Content, Bare
<1>3. trouble = 0 => ~Exists(Backup(p))'
  BY <1>1 DEF Same, Exists, Resting
<1> QED
  BY <1>1, <1>2, <1>3 DEF Resting, Watched, Kept

\* A file is opened as it is.
LEMMA OpenedRests ==
    ASSUME NEW p \in Paths, Rest(p), NEW fresh, MayOpen(p, fresh), UNCHANGED diskVars,
           UNCHANGED <<worth, loose, trouble>>, fds \subseteq fds', Exists(Primary(p))
    PROVE  Rest(p)'
<1>1. \A n \in {Primary(p), Backup(p)} : Same(n) /\ (Exists(n)' <=> Exists(n)) /\ (Durable(n)' <=> Durable(n))
  BY NoEffect, NamesAre
<1>2. /\ (Watched(p)' <=> Watched(p)) /\ (Kept(p)' <=> Kept(p)) /\ (Writer(p) => Writer(p)')
      /\ (Labels(p)' <=> Labels(p)) /\ (Uniform(p)' <=> Uniform(p)) /\ (Own(p)' <=> Own(p))
      /\ (Flush(p)' <=> Flush(p)) /\ (Ready(p)' <=> Ready(p)) /\ Content(p)' = Content(p)
  BY <1>1 DEF Watched, Kept, Writer, Labels, Uniform, Own, Flush, Ready, Content, Same
<1>3. Resting(p, Writer(p)')
  BY <1>2 DEF Rest, Resting, MayOpen
<1>4. Resting(p, Writer(p))'
  BY <1>1, <1>2, <1>3 DEF Resting, Same
<1> QED
  BY <1>4 DEF Rest

\* The checksum of what there is becomes its label.
LEMMA Checksummed ==
    ASSUME Disk, Disk', Injective, NEW p \in Paths, Resting(p, TRUE), Exists(Primary(p)),
           Becomes(names[Primary(p)], Sealed(Content(p))), trouble' = trouble,
           worth'[p] = worth[p] \cup ({Content(p)} \cap Whole),
           loose' = IF Content(p) \in Whole THEN loose ELSE loose \cup {p}
    PROVE  Summed(p)' /\ (p \notin loose' /\ (p \notin loose => Safe(p)) => Safe(p)')
<1> DEFINE c == Content(p)
<1>0. /\ Primary(p) \in Names /\ Backup(p) \in Names \ {Primary(p)} /\ c \in Data /\ c # "none"
  BY NamesAre, PlainIs
<1>1. /\ Exists(Primary(p))' /\ Content(p)' = c /\ At(Primary(p))' = Sealed(c)
      /\ Same(Backup(p)) /\ UNCHANGED <<names, namesLeft>>
  BY <1>0, LabelsOwn
<1>2. \A n \in Names : (Durable(n)' <=> Durable(n)) /\ (Exists(n)' <=> Exists(n))
  BY <1>1, NamesStay
<1>3. p \notin loose' => p \notin loose /\ c \in Whole /\ c \in worth'[p]
  OBVIOUS
<1>4. Kept(p)' => Kept(p)
  BY <1>0, <1>2, <1>3 DEF Kept
<1>5. Kept(p)' => Flush(p)'
  BY <1>0, <1>1, <1>2, <1>4 DEF Resting, Flush, Same
<1>6. trouble' = 0 /\ Exists(Backup(p))' => Validates(At(Backup(p)))'
  BY <1>0, <1>1, <1>2 DEF Resting, Same
<1>7. Summed(p)'
  BY <1>1, <1>3, <1>5, <1>6 DEF Summed
<1>8. ASSUME p \notin loose', Safe(p) PROVE Safe(p)'
  <2> DEFINE b == At(Backup(p)).data
  <2>1. p \notin loose /\ Kept(p) /\ Ready(p)
    BY <1>3, <1>8 DEF Kept, Resting
  <2>2. /\ b \in worth[p] /\ b # "none" /\ At(Backup(p)) = Sealed(b)
        /\ Durable(Primary(p)) /\ Durable(Backup(p))
        /\ Reach(Backup(p)) = {Sealed(b)}
        /\ \A x \in Now(Primary(p)) : x.label \in {"none", b}
    BY <1>8, <2>1, ReadyIs
  <2>3. Now(Backup(p)) = {Sealed(b)}
    BY <1>0, <2>2, NowIs
  <2> HIDE DEF b
  <2>4. Reach(Primary(p))' = Now(Primary(p))' /\ Reach(Backup(p))' = {Sealed(b)}
    BY <1>0, <1>1, <1>2, <2>2, <2>3, NowIsNext DEF Same
  <2>5. Sealed(c) \in File /\ Sealed(c).label = c
    BY <1>0, FileIs DEF Sealed
  <2>6. \A x \in Now(Primary(p))' : x.label = c \/ \E y \in Now(Primary(p)) : y.label = x.label
    <3> HIDE DEF c
    <3>1. Becomes(names[Primary(p)], Sealed(c))
      BY DEF c
    <3> QED
      BY <1>0, <2>5, <3>1, BecomesEffect
  <2>7. \A x \in Now(Primary(p))' : x.label = "none" \/ x.label \in worth'[p]
    BY <1>3, <1>8, <2>2, <2>6
  <2>8. b \in worth'[p]
    BY <2>2
  <2> HIDE DEF c
  <2> QED
    BY <2>2, <2>4, <2>7, <2>8, SafeBackedNext
<1> QED
  BY <1>3, <1>7, <1>8

\* The file is flushed.
LEMMA SummedSynced ==
    ASSUME Disk, Injective, NEW p \in Paths, Summed(p), Steady, SyncFile(Primary(p))
    PROVE  /\ Summed(p)' /\ Now(Primary(p))' = {Sealed(Content(p)')}
           /\ (p \notin loose /\ Safe(p) => Safe(p)')
<1>1. Primary(p) \in Names /\ Backup(p) \in Names \ {Primary(p)}
  BY NamesAre
<1>2. /\ UNCHANGED <<names, namesLeft>>
      /\ At(Primary(p))' = At(Primary(p)) /\ Now(Primary(p))' = {At(Primary(p))}
      /\ Same(Backup(p)) /\ Stable(Primary(p)) /\ Stable(Backup(p))
  BY <1>1, SyncFileEffect
<1>3. \A n \in Names : (Durable(n)' <=> Durable(n)) /\ (Exists(n)' <=> Exists(n))
  BY <1>2, NamesStay
<1>4. Content(p)' = Content(p) /\ (Kept(p)' <=> Kept(p)) /\ (Flush(p) => Flush(p)')
  BY <1>1, <1>2, <1>3 DEF Content, Kept, Flush, Same, Steady
<1>5. Summed(p)'
  BY <1>1, <1>2, <1>3, <1>4 DEF Summed, Same, Steady
<1> QED
  BY <1>2, <1>4, <1>5, SafeShrinks DEF Steady, Stable, Summed

\* A file that is labelled and flushed, with the backup it has.
LEMMA SummedRests ==
    ASSUME Disk, NEW p \in Paths, Summed(p), Now(Primary(p)) = {Sealed(Content(p))}
    PROVE  /\ HasMatchingBackup(p) => Rest(p)
           /\ Block(p, "copy_to_backup", "closed") /\ Block(p, "copy_to_backup", "discarded")
<1>1. /\ At(Primary(p)) = Sealed(Content(p)) /\ Exists(Primary(p)) /\ Content(p) # "none"
      /\ Sealed(Content(p)).data = Content(p) /\ Sealed(Content(p)).label = Content(p)
  BY PlainIs DEF Summed, Sealed
<1>2. Labels(p) /\ Uniform(p) /\ Own(p)
  BY <1>1 DEF Labels, Uniform, Own
<1>3. HasMatchingBackup(p) => Rest(p)
  <2> HAVE HasMatchingBackup(p)
  <2>1. Ready(p) /\ Validates(At(Backup(p)))
    BY <1>1 DEF HasMatchingBackup, Ready
  <2> QED
    BY <1>1, <1>2, <2>1 DEF Rest, Resting, Summed
<1>4. p \notin loose => Durable(Primary(p)) /\ Content(p) \in worth[p]
  BY DEF Summed, Kept, Flush
<1> QED
  BY <1>1, <1>2, <1>3, <1>4 DEF Block, Begun, Summed

-----------------------------------------------------------------------------
(* The five parts beside each other.                                       *)

PartsIInv == RadioIInv /\ HandlersTypeOK /\ BringTypeOK /\ ExclusiveTypeOK /\ FilesIInv

\* At first.
LEMMA PartsInit == ServicesInit => PartsIInv
BY RadioInitInv, HandlersInitInv, BringInitInv, ExclusiveInitInv, FilesInitInv
   DEF ServicesInit, PartsIInv, HandlersIInv, BringIInv, ExclusiveIInv

\* A step of one part leaves the others alone.
LEMMA PartsStep == PartsIInv /\ [ServicesNext]_allVars => PartsIInv'
<1> SUFFICES ASSUME PartsIInv, [ServicesNext]_allVars PROVE PartsIInv'
  OBVIOUS
<1>1. /\ [RadioNext]_radioVars /\ [HandlersNext]_handlerVars /\ [BringNext]_bringVars
      /\ [ExclusiveNext]_exclusiveVars /\ [FilesNext]_fileVars
  BY DEF ServicesNext, RadioRuns, HandlersRun, BringUpRuns, ExclusiveRuns, FilesRun, allVars
<1> QED
  BY <1>1, RadioStep, HandlersTypeStep, BringTypeStep, ExclusiveTypeStep, FilesStep DEF PartsIInv

\* Every part keeps its state within its types, whichever of them runs: the slots, the ways
\* and the requests of the repository are ones their modules allow.
THEOREM ServicesTypes == ServicesSpec => []ServicesTypeOK
<1>1. PartsIInv => ServicesTypeOK
  BY DEF PartsIInv, ServicesTypeOK, RadioIInv, FilesIInv, Disk, DiskTypeOK, ClientTypeOK,
         FilesTypeOK
<1>2. ServicesSpec => ServicesInit /\ [][ServicesNext]_allVars
  BY DEF ServicesSpec
<1> QED
  BY <1>1, <1>2, PartsInit, PartsStep, PTL
=============================================================================
