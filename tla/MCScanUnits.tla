----------------------------- MODULE MCScanUnits -----------------------------
(***************************************************************************)
(* ScanUnits over its inputs: for each setting of the parameters, each     *)
(* prediction and each pressure, the native number of pages walks from one *)
(* to U64_MAX.                                                             *)
(***************************************************************************)
EXTENDS ScanUnits

\* The module parameters: unsigned numbers, whatever was stored.
Params ==
    [foreground : Nat, high : Nat, medium : Nat, low : Nat, minimum : Nat, maximum : Nat,
     highFrom : Nat, mediumFrom : Nat, minUnits : Nat, maxExtra : Nat]

CONSTANT Settings     \* the settings to be tried

ASSUME SettingsAssumption == Settings \subseteq Params

VARIABLES params, foreground, score, pressure, native

vars == <<params, foreground, score, pressure, native>>
fixed == <<params, foreground, score, pressure>>

\* The defaults of the module parameters scaled from 32768 to 8, a setting with
\* wide limits and a floor of several units, and two that scan_config_valid()
\* rejects but that may be stored between the check and the use, the second with
\* its limits crossed.
MCParams ==
  {[foreground |-> 4, high |-> 5, medium |-> 6, low |-> 10, minimum |-> 4, maximum |-> 12,
    highFrom |-> 6, mediumFrom |-> 3, minUnits |-> 1, maxExtra |-> 10],
   [foreground |-> 0, high |-> 3, medium |-> 8, low |-> 16, minimum |-> 0, maximum |-> 16,
    highFrom |-> 7, mediumFrom |-> 1, minUnits |-> 4, maxExtra |-> 3],
   [foreground |-> 4, high |-> 5, medium |-> 6, low |-> 40, minimum |-> 6, maximum |-> 40,
    highFrom |-> 6, mediumFrom |-> 3, minUnits |-> 2, maxExtra |-> 60],
   [foreground |-> 3, high |-> 5, medium |-> 6, low |-> 10, minimum |-> 12, maximum |-> 4,
    highFrom |-> 6, mediumFrom |-> 3, minUnits |-> 1, maxExtra |-> 10]}

Proposed == propose(params, native, foreground, score, pressure)

Init ==
    /\ params \in Settings /\ foreground \in BOOLEAN /\ score \in 0..(Scale - 1)
    /\ pressure \in Pressures \ {"emergency"} /\ native = 1

Walk == native < UMax /\ native' = native + 1 /\ UNCHANGED fixed

Spec == Init /\ [][Walk]_vars

\* parp_scale_scan_units() rounds half up and saturates exactly, for every
\* multiplier, and none of its 64-bit divisions overflows.
ScalingExact == \A m \in 0..(6 * Scale) : scale_scan_units(native, m) = Rounded(native, m)

\* A proposal never falls below the smaller of the native number and
\* minimum_scan_units, and never exceeds the native number by more than
\* maximum_extra_scan_units: also for parameters that fail the validity check
\* but are stored after it was made, and next to U64_MAX.
ProposalBounded ==
    /\ Proposed >= Smaller(native, params.minUnits)
    /\ Proposed <= native + params.maxExtra /\ Proposed <= UMax

\* With multipliers ordered as the defaults are (scan_config_valid() does not ask
\* for it) and limits that are not crossed (clamp() gives a small multiplier the
\* larger value otherwise), an application that is more likely to be used, or in
\* the foreground, is never scanned harder, at any pressure.
LikelierScannedLess ==
    /\ params.foreground <= params.high /\ params.high <= params.medium /\ params.medium <= params.low
    /\ params.minimum <= params.maximum
    =>
      /\ \A s \in score..(Scale - 1) :
            propose(params, native, foreground, s, pressure) <= Proposed
      /\ propose(params, native, TRUE, score, pressure) <= Proposed

\* Pressure only ever takes protection away: an application whose scan is
\* reduced at normal pressure is not reduced further under elevated or high
\* pressure, and under high pressure it keeps at least three quarters of the
\* native scan, up to rounding.
PressureWeakensProtection ==
    LET calm == propose(params, native, foreground, score, "normal")
    IN  /\ calm <= native => Proposed >= calm
        /\ pressure = "high" => 4 * Proposed >= 3 * native - 2
=============================================================================
