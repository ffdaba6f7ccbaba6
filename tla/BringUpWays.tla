----------------------------- MODULE BringUpWays -----------------------------
(***************************************************************************)
(* How the PAs of the repository are brought up and taken down             *)
(* (BringUp!Way): the managers each Init asks the SDK for, what it does    *)
(* when one is not ready, and what Deinit looks at. The data PA has a      *)
(* module of its own.                                                      *)
(***************************************************************************)
EXTENDS BringUp


\* A manager whose callback is always waited for, and one that is first asked whether it is
\* ready; GoesOn is one whose failure does not end the Init.
Waits ==
    [trusts |-> "no", status |-> FALSE, after |-> FALSE, frame |-> FALSE,
     timeout |-> "keep", failed |-> "keep", fails |-> TRUE]
AsksFirst == [Waits EXCEPT !.status = TRUE, !.failed = "drop"]
GoesOn == [Waits EXCEPT !.timeout = "drop", !.failed = "drop", !.fails = FALSE]

HoldsLocal(manager) == [manager EXCEPT !.frame = TRUE]
Drops(manager) == [manager EXCEPT !.timeout = "drop", !.failed = "drop"]

\* An Init without a guard, whose Deinit looks at the flag.
taf_pa_therm_Init ==
    [guard |-> "no", stages |-> <<Waits>>, registers |-> "keep", rollback |-> FALSE,
     raises |-> TRUE, clears |-> FALSE, honest |-> TRUE, undo |-> "flag"]
taf_pa_therm_Deinit == "flag"

Plain(stages, registers) ==
    [taf_pa_therm_Init EXCEPT !.stages = stages, !.registers = registers]
Taken(init, deinit) == [init EXCEPT !.undo = deinit]

\* The network PAs: the flag follows the last Init.
VlanManager == AsksFirst
SettingsManager == [AsksFirst EXCEPT !.failed = "keep", !.fails = FALSE]
taf_pa_vlan_Init ==
    [Plain(<<VlanManager, SettingsManager>>, "no") EXCEPT !.clears = TRUE]
taf_pa_vlan_Deinit == "flag"
taf_pa_l2tp_Init == [Plain(<<AsksFirst>>, "no") EXCEPT !.clears = TRUE]
taf_pa_l2tp_Deinit == "flag"
SocksManager == AsksFirst
taf_pa_socks_Init == [Plain(<<SocksManager>>, "ignored") EXCEPT !.clears = TRUE]
taf_pa_socks_Deinit == "flag"
NatManager == AsksFirst
taf_pa_nat_Init ==
    [Plain(<<NatManager>>, "no") EXCEPT !.clears = TRUE, !.honest = FALSE]
taf_pa_nat_Deinit == "flag"

\* WLAN.
taf_pa_wlan_Init == [Plain(<<Waits>>, "ignored") EXCEPT !.guard = "flag"]
taf_pa_wlan_Deinit == "flag"

\* MRC and power hold a mutex; power rolls everything back.
taf_pa_mrc_Init == [Plain(<<Waits>>, "drop") EXCEPT !.guard = "mutex"]
taf_pa_mrc_Deinit == "ok"
MasterManager == Drops(Waits)
SlaveManager == Drops(Waits)
WakeupManager == Drops(Waits)
taf_pa_pms_Init ==
    [Plain(<<MasterManager, SlaveManager, WakeupManager>>, "drop") EXCEPT
        !.guard = "mutex", !.rollback = TRUE]
taf_pa_pms_Deinit == "flag"

\* Sensors: their list is read where others register a listener.
SensorManager == HoldsLocal(Waits)
taf_pa_sensor_Init == Plain(<<SensorManager>>, "keep")
SensorDeinit == "flag"
taf_pa_sensor_Deinit == SensorDeinit

\* Time: the network part trusts what it finds and does not set the flag.
taf_pa_gnss_Init == Plain(<<HoldsLocal(Waits)>>, "no")
IsPhoneSubSystemReady == [Waits EXCEPT !.trusts = "ok", !.status = TRUE]
taf_pa_network_Init ==
    [Plain(<<IsPhoneSubSystemReady, [HoldsLocal(Waits) EXCEPT !.trusts = "ok"]>>, "no")
        EXCEPT !.raises = FALSE]
taf_pa_time_Deinit == "flag"

\* Health: the phone manager is stored once it is ready.
taf_pa_health_PhoneInit ==
    Plain(<<[Drops(Waits) EXCEPT !.trusts = "ok", !.after = TRUE]>>, "no")
taf_pa_health_ModemNotificationInit ==
    [Plain(<<HoldsLocal(Waits)>>, "no") EXCEPT !.raises = FALSE]
taf_pa_health_Deinit == "flag"

\* Radio goes on without a manager that is not ready: the first two of them all stand here.
\* So do NTN, which has no flag, and SMS, which stores a manager once it is ready.
taf_pa_radio_Init ==
    [Plain(<<GoesOn, GoesOn>>, "no") EXCEPT !.guard = "mutex"]
taf_pa_radio_Deinit == "flag"
taf_pa_ntn_Init == [Plain(<<GoesOn>>, "checked") EXCEPT !.raises = FALSE]
taf_pa_ntn_Deinit == "no"
SmsManager == [GoesOn EXCEPT !.after = TRUE]
CbManager == SmsManager
taf_pa_sms_Init == Plain(<<SmsManager, CbManager>>, "checked")
SmsTakeDown == "flag"
taf_pa_sms_Deinit == SmsTakeDown

\* Remote SIM, SAP and SIM: the callback sets a promise of the Init that waits.
taf_pa_remotesim_Init == Plain(<<HoldsLocal(Drops(AsksFirst))>>, "drop")
taf_pa_remotesim_Deinit == "flag"
taf_pa_sap_Init == Plain(<<HoldsLocal(Drops(AsksFirst))>>, "no")
taf_pa_sap_Deinit == "flag"
SubscriptionManager == HoldsLocal(Drops(AsksFirst))
CardManager == HoldsLocal(Drops(AsksFirst))
MultiSimManager == HoldsLocal(Drops(AsksFirst))
taf_pa_sim_Init ==
    Plain(<<SubscriptionManager, CardManager, MultiSimManager, GoesOn>>, "keep")
taf_pa_sim_Deinit == "flag"

\* Voice calls and audio.
CallManager == HoldsLocal(Waits)
taf_pa_voicecall_Init == Plain(<<CallManager>>, "keep")
taf_pa_voicecall_Deinit == "flag"
AudioManager == HoldsLocal(Waits)
taf_pa_audio_Init == Plain(<<AudioManager>>, "ignored")
AudioDeinit == "flag"
taf_pa_audio_Deinit == AudioDeinit

\* Location, and DGNSS, which a second call finds begun and refuses.
LocationConfigurator == [HoldsLocal(Drops(AsksFirst)) EXCEPT !.trusts = "ok"]
taf_pa_location_Init ==
    [Plain(<<LocationConfigurator>>, "no") EXCEPT !.guard = "flag"]
taf_pa_location_Deinit == "flag"
DgnssManager == [HoldsLocal(Drops(Waits)) EXCEPT !.trusts = "fault"]
RegisterDgnssManager == "keep"
taf_pa_location_initializeDgnss ==
    [Plain(<<DgnssManager>>, RegisterDgnssManager) EXCEPT !.raises = FALSE]
DeInitializeDgnss == "refusable"
taf_pa_location_deInitializeDgnss == DeInitializeDgnss

-----------------------------------------------------------------------------
Ways ==
    {Taken(taf_pa_therm_Init, taf_pa_therm_Deinit),
     Taken(taf_pa_vlan_Init, taf_pa_vlan_Deinit),
     Taken(taf_pa_l2tp_Init, taf_pa_l2tp_Deinit),
     Taken(taf_pa_socks_Init, taf_pa_socks_Deinit),
     Taken(taf_pa_nat_Init, taf_pa_nat_Deinit),
     Taken(taf_pa_wlan_Init, taf_pa_wlan_Deinit),
     Taken(taf_pa_mrc_Init, taf_pa_mrc_Deinit),
     Taken(taf_pa_pms_Init, taf_pa_pms_Deinit),
     Taken(taf_pa_sensor_Init, taf_pa_sensor_Deinit),
     Taken(taf_pa_gnss_Init, taf_pa_time_Deinit),
     Taken(taf_pa_network_Init, taf_pa_time_Deinit),
     Taken(taf_pa_health_PhoneInit, taf_pa_health_Deinit),
     Taken(taf_pa_health_ModemNotificationInit, taf_pa_health_Deinit),
     Taken(taf_pa_radio_Init, taf_pa_radio_Deinit),
     Taken(taf_pa_ntn_Init, taf_pa_ntn_Deinit),
     Taken(taf_pa_sms_Init, taf_pa_sms_Deinit),
     Taken(taf_pa_remotesim_Init, taf_pa_remotesim_Deinit),
     Taken(taf_pa_sap_Init, taf_pa_sap_Deinit),
     Taken(taf_pa_sim_Init, taf_pa_sim_Deinit),
     Taken(taf_pa_voicecall_Init, taf_pa_voicecall_Deinit),
     Taken(taf_pa_audio_Init, taf_pa_audio_Deinit),
     Taken(taf_pa_location_Init, taf_pa_location_Deinit),
     Taken(taf_pa_location_initializeDgnss, taf_pa_location_deInitializeDgnss)}

==============================================================================
