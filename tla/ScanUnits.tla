------------------------------ MODULE ScanUnits ------------------------------
(***************************************************************************)
(* The arithmetic of the PARP scan budget (mm/parp/core/scan_budget.c):    *)
(* from a native number of pages to scan, the predicted use of the         *)
(* application and the reclaim pressure to a proposed number.              *)
(*                                                                         *)
(* Scale stands for PARP_Q15_SCALE, UMax for U64_MAX; p is the record of   *)
(* module parameters, which root may change one by one at any time.        *)
(***************************************************************************)
EXTENDS Integers

CONSTANTS Scale, UMax

ASSUME ScaleAssumption == Scale \in Nat \ {0} /\ Scale % 4 = 0 /\ UMax \in Nat \ {0}

Pressures == {"normal", "elevated", "high", "emergency"}

Smaller(a, b) == IF a <= b THEN a ELSE b
Larger(a, b) == IF a >= b THEN a ELSE b

\* The quotient does not fit: mulq/divq raises a divide error.
DivideError == -1

mul_u64_u32_div(a, mul, div) ==
    LET q == (a * mul) \div div IN IF q > UMax THEN DivideError ELSE q

\* Defect: the overflow is not foreseen.
Saturates_Never(native, multiplier) == FALSE

\* The early return of parp_scale_scan_units().
Saturates(native, multiplier) ==
    multiplier > Scale /\ native > mul_u64_u32_div(UMax, Scale, multiplier)

scale_scan_units(native, multiplier) ==
    LET scaled == mul_u64_u32_div(native, multiplier, Scale)
        remainder == ((native % Scale) * multiplier) % Scale
        rounded == IF remainder >= Scale \div 2 /\ scaled # UMax THEN scaled + 1 ELSE scaled
    IN  IF Saturates(native, multiplier) THEN UMax
        ELSE IF scaled = DivideError THEN DivideError
        ELSE IF multiplier > Scale /\ rounded < native THEN UMax ELSE rounded

scan_config_valid(p) ==
    /\ p.minimum <= p.maximum /\ p.maximum <= 2 * Scale
    /\ \A m \in {p.foreground, p.high, p.medium, p.low} : m <= p.maximum
    /\ p.highFrom <= Scale - 1 /\ p.mediumFrom <= p.highFrom

\* The kernel's clamp(): the upper bound wins.
Clamp(v, lo, hi) == IF v >= hi THEN hi ELSE IF v <= lo THEN lo ELSE v

\* Defect: the comparison with the upper threshold is reversed.
class_Reversed(p, foreground, score) ==
    CASE foreground -> "foreground"
      [] ~foreground /\ score <= p.highFrom -> "high"
      [] OTHER -> "low"

class(p, foreground, score) ==
    CASE foreground -> "foreground"
      [] ~foreground /\ score >= p.highFrom -> "high"
      [] ~foreground /\ score < p.highFrom /\ score >= p.mediumFrom -> "medium"
      [] OTHER -> "low"

\* Before the pressure is looked at.
BaseMultiplier(p, foreground, score) ==
    LET m == [c \in {"foreground", "high", "medium", "low"} |-> p[c]]
    IN  Clamp(m[class(p, foreground, score)], p.minimum, p.maximum)

\* Defect: the floor of three quarters is a ceiling.
UnderPressure_Ceiling(m, pressure) ==
    CASE pressure = "elevated" -> (m + Scale + 1) \div 2
      [] pressure = "high" -> Smaller(m, (3 * Scale) \div 4)
      [] OTHER -> m

UnderPressure(m, pressure) ==
    CASE pressure = "elevated" -> (m + Scale + 1) \div 2
      [] pressure = "high" -> Larger(m, (3 * Scale) \div 4)
      [] OTHER -> m

\* Defect: no floor under a small share.
AtLeast_Dropped(p, native, n) == n

AtLeast(p, native, n) == IF n < p.minUnits THEN Smaller(native, p.minUnits) ELSE n

AtMost(p, native, n) == Smaller(n, Smaller(native + p.maxExtra, UMax))

\* proposed_nr_to_scan of a valid input with a native number above zero.
propose(p, native, foreground, score, pressure) ==
    LET m == UnderPressure(BaseMultiplier(p, foreground, score), pressure)
    IN  AtMost(p, native, AtLeast(p, native, scale_scan_units(native, m)))

-----------------------------------------------------------------------------
(* Reference: the product rounded half up, cut off at U64_MAX.             *)

Rounded(native, multiplier) ==
    Smaller(UMax, (native * multiplier + Scale \div 2) \div Scale)
=============================================================================
