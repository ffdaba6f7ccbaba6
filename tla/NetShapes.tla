------------------------------ MODULE NetShapes ------------------------------
(***************************************************************************)
(* The requests of the VLAN, NAT, L2TP and SOCKS PAs, each by its shape    *)
(* (Requests!ShapeSet). Each copies its manager and shares its promise     *)
(* with the answer, with the exception of the query for the NAT entries.   *)
(***************************************************************************)
NetRequest ==
    [checks |-> TRUE, keeps |-> TRUE, rejects |-> FALSE, voiced |-> FALSE,
     refusal |-> "return", waits |-> "timed", answers |-> <<"promise">>,
     needs |-> "nothing", tail |-> FALSE, frame |-> "none", tells |-> "answer",
     returns |-> "answer", late |-> "timeout"]
CheckedNetRequest == [NetRequest EXCEPT !.rejects = TRUE]

taf_pa_net_AddVlanInterface == NetRequest
taf_pa_net_RemoveVlanInterface == NetRequest
taf_pa_net_BindWithBackhaul == CheckedNetRequest
taf_pa_net_UnbindWithBackhaul == CheckedNetRequest
taf_pa_nat_AddDestNatEntry == CheckedNetRequest
taf_pa_nat_RemoveDestNatEntry == CheckedNetRequest
taf_pa_net_SetL2tpConfigSync == NetRequest
taf_pa_net_RemoveTunnelSync == NetRequest
taf_pa_net_AddTunnelSync == CheckedNetRequest
taf_pa_net_EnableSocksCmdSync == NetRequest
taf_pa_net_DisableSocksCmdSync == NetRequest

\* What is asked for comes with a promise of its own, after that of the error; the
\* second function waits without a timeout.
taf_pa_net_QueryVlanInfo ==
    [NetRequest EXCEPT !.answers = <<"promise", "value">>, !.needs = "value if ok"]
taf_pa_net_QueryVlanToBackhaulMappingList ==
    [taf_pa_net_QueryVlanInfo EXCEPT !.rejects = TRUE, !.waits = "forever"]

\* Both promises are locals of the function.
taf_pa_nat_QueryDestNatEntryList == [taf_pa_net_QueryVlanInfo EXCEPT !.frame = "answer"]

\* A failed answer is an empty configuration, and the request succeeds.
taf_pa_net_RequestL2tpConfig == [NetRequest EXCEPT !.returns = "ok"]

\* The settings manager, which nothing checks.  A failed answer gives no preference,
\* and the function waits for it.
taf_pa_net_SetBackhaulPreference == [CheckedNetRequest EXCEPT !.checks = FALSE]
taf_pa_net_GetBackhaulPreference ==
    [NetRequest EXCEPT !.checks = FALSE, !.answers = <<"good value", "promise">>,
                       !.needs = "value"]

\* The SDK answers within the call.
SettingsLookUp ==
    [NetRequest EXCEPT !.checks = FALSE, !.waits = "no", !.answers = <<>>,
                       !.returns = "ok"]
CheckedLookUp == [SettingsLookUp EXCEPT !.rejects = TRUE]
taf_pa_net_GetIPPassThroughNatConfig == SettingsLookUp
taf_pa_net_SetIPPassThroughNatConfig == SettingsLookUp
taf_pa_net_SetIPPassThroughConfig == CheckedLookUp
taf_pa_net_GetIPPassThroughConfig == CheckedLookUp
taf_pa_net_SetIPConfig == CheckedLookUp
taf_pa_net_GetIPConfig == CheckedLookUp

NetRequests ==
    {taf_pa_net_AddVlanInterface, taf_pa_net_RemoveVlanInterface,
     taf_pa_net_BindWithBackhaul, taf_pa_net_UnbindWithBackhaul,
     taf_pa_nat_AddDestNatEntry, taf_pa_nat_RemoveDestNatEntry,
     taf_pa_net_SetL2tpConfigSync, taf_pa_net_RemoveTunnelSync,
     taf_pa_net_AddTunnelSync, taf_pa_net_EnableSocksCmdSync,
     taf_pa_net_DisableSocksCmdSync, taf_pa_net_QueryVlanInfo,
     taf_pa_net_QueryVlanToBackhaulMappingList, taf_pa_nat_QueryDestNatEntryList,
     taf_pa_net_RequestL2tpConfig, taf_pa_net_SetBackhaulPreference,
     taf_pa_net_GetBackhaulPreference, taf_pa_net_GetIPPassThroughNatConfig,
     taf_pa_net_SetIPPassThroughNatConfig, taf_pa_net_SetIPPassThroughConfig,
     taf_pa_net_GetIPPassThroughConfig, taf_pa_net_SetIPConfig, taf_pa_net_GetIPConfig}

==============================================================================
