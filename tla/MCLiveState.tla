----------------------------- MODULE MCLiveState -----------------------------
(***************************************************************************)
(* The names of init.sql (two of the four metrics), and reports of every   *)
(* format around the 1.00 dBm threshold.                                   *)
(***************************************************************************)
EXTENDS LiveState, TLC

TwoMetricKeys == <<"rx_optical_power", "optical_power">>
BothParamKeys == <<"Device.Optical.Interface.1.OpticalSignalLevel",
                   "Device.Optical.Interface.1.RxPower">>
NormalKey == "rx_optical_power"

AllNames == Keys(TwoMetricKeys) \cup Keys(BothParamKeys) \cup {"Device.DeviceInfo.UpTime"}

Level == BothParamKeys[1]
RxPower == BothParamKeys[2]

Json(tm, m, cp, p) ==
    [format |-> "json", telemetry_metrics |-> tm, metrics |-> m,
     current_parameters |-> cp, parameters |-> p]
JsonMetrics(m) == Json(None, m, None, None)
Inform(power, p) == [format |-> "inform", power |-> power, parameters |-> p]
Usp(p) == [format |-> "usp", parameters |-> p]

\* Powers that differ by exactly and by just more than 1.00 dBm.
PlainReports ==
    {JsonMetrics(NormalKey :> p) : p \in {-2000, -2100, -2101}}
      \cup {Inform(-2000, Level :> -2000000), Inform(None, Level :> 0)}

OddReports ==
    {JsonMetrics("optical_power" :> -2500),
     JsonMetrics(NormalKey :> Null),
     JsonMetrics(NormalKey :> Text),
     JsonMetrics(NotObject),
     Json(NormalKey :> -2200, "optical_power" :> -1900, None, NotObject),
     Json(NormalKey :> -2200, NotObject, Level :> Text, RxPower :> -2300),
     Json(None, None, None, Level :> Null),
     Usp((Level :> -2000) @@ (RxPower :> -2300)),
     Usp(Level :> -1950000),
     Usp("Device.DeviceInfo.UpTime" :> 100)}

AllReports == PlainReports \cup OddReports

=============================================================================
