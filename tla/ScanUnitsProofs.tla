--------------------------- MODULE ScanUnitsProofs ---------------------------
(***************************************************************************)
(* The arithmetic of the scan budget for every native number of pages up   *)
(* to U64_MAX and every setting of the module parameters, consistent or    *)
(* not: parp_scale_scan_units() rounds and saturates exactly, a proposal    *)
(* stays within its limits, and it follows prediction and pressure         *)
(* monotonically.                                                           *)
(*                                                                         *)
(* The lemmas go from the outside in: division, then exactness of the      *)
(* scaling (its quotient never overflows, since the early return takes      *)
(* exactly the products above UMax * Scale), and from there on only the     *)
(* monotonicity of Rounded, of the two limits and of the multiplier is     *)
(* needed.                                                                  *)
(***************************************************************************)
EXTENDS MCScanUnits, TLAPS

---------------------------------------------------------------------------
(* Division.                                                                *)

\* Quotient and remainder.
LEMMA Division ==
    ASSUME NEW a \in Int, NEW b \in Int, b > 0
    PROVE  a \div b \in Int /\ a % b \in 0..(b - 1) /\ a = b * (a \div b) + (a % b)
<1>1. a \div b \in Int /\ a % b \in 0..(b - 1)
  OBVIOUS
<1>2. a = b * (a \div b) + (a % b)
  OBVIOUS
<1> QED BY <1>1, <1>2

\* They are the only ones.
LEMMA DivisionUnique ==
    ASSUME NEW a \in Int, NEW b \in Int, b > 0, NEW q \in Int, NEW r \in 0..(b - 1), a = b * q + r
    PROVE  a \div b = q /\ a % b = r
OBVIOUS

\* Multiplication and division keep the order.
LEMMA ProductMonotone ==
    ASSUME NEW a \in Int, NEW b \in Int, a <= b, NEW c \in Nat
    PROVE  c * a <= c * b /\ a * c <= b * c
OBVIOUS

\* A quotient compared with a number.
LEMMA QuotientBounds ==
    ASSUME NEW a \in Int, NEW b \in Int, b > 0, NEW c \in Int
    PROVE  /\ a >= b * c <=> a \div b >= c
           /\ a < b * c <=> a \div b < c
<1> DEFINE q == a \div b
           r == a % b
<1>1. q \in Int /\ r \in 0..(b - 1) /\ a = b * q + r
  BY Division
<1> HIDE DEF q, r
<1>2. ASSUME q >= c PROVE a >= b * c
  <2>1. b * q >= b * c
    BY <1>1, <1>2, ProductMonotone
  <2> QED BY <1>1, <2>1
<1>3. ASSUME q < c PROVE a < b * c
  <2>1. b * (q + 1) <= b * c
    BY <1>1, <1>3, ProductMonotone
  <2>2. b * (q + 1) = b * q + b
    BY <1>1
  <2> QED BY <1>1, <2>1, <2>2
<1>4. q >= c \/ q < c
  BY <1>1
<1>5. b * c \in Int
  OBVIOUS
<1> QED BY <1>1, <1>2, <1>3, <1>4, <1>5 DEF q

\* Division keeps the order.
LEMMA QuotientMonotone ==
    ASSUME NEW a \in Int, NEW c \in Int, a <= c, NEW b \in Int, b > 0
    PROVE  a \div b <= c \div b
<1>1. a \div b \in Int /\ c \div b \in Int
  BY Division
<1>2. a >= b * (a \div b)
  BY <1>1, QuotientBounds
<1>3. b * (a \div b) \in Int
  BY <1>1
<1>4. c >= b * (a \div b)
  BY <1>2, <1>3
<1> QED BY <1>1, <1>4, QuotientBounds

\* Half and three quarters of the scale.
LEMMA ScaleParts ==
    /\ Scale \in Nat /\ Scale > 0 /\ UMax \in Nat /\ UMax > 0
    /\ Scale \div 2 \in Nat /\ Scale = 2 * (Scale \div 2)
    /\ Scale \div 4 \in Nat /\ Scale = 4 * (Scale \div 4)
    /\ (3 * Scale) \div 4 = 3 * (Scale \div 4) /\ (3 * Scale) \div 4 \in Nat
<1>1. Scale \in Nat /\ Scale > 0 /\ UMax \in Nat /\ UMax > 0 /\ Scale % 4 = 0
  BY ScaleAssumption
<1>2. Scale \div 4 \in Nat /\ Scale = 4 * (Scale \div 4)
  BY <1>1
<1>3. Scale \div 2 \in Nat /\ Scale = 2 * (Scale \div 2)
  BY <1>1
<1>4. (3 * Scale) \div 4 = 3 * (Scale \div 4)
  BY <1>1
<1> QED BY <1>1, <1>2, <1>3, <1>4

---------------------------------------------------------------------------
(* Scaling.                                                                 *)

\* Half up: the quotient, and one more from half a unit on.
LEMMA RoundHalfUp ==
    ASSUME NEW a \in Nat
    PROVE  (a + Scale \div 2) \div Scale =
              IF a % Scale >= Scale \div 2 THEN (a \div Scale) + 1 ELSE a \div Scale
<1> DEFINE q == a \div Scale
           r == a % Scale
           h == Scale \div 2
<1>1. Scale \in Nat /\ Scale > 0 /\ h \in Nat /\ Scale = 2 * h
  BY ScaleParts
<1>2. q \in Int /\ r \in 0..(Scale - 1) /\ a = Scale * q + r
  BY <1>1, Division
<1> HIDE DEF q, r, h
<1>3. CASE r >= h
  <2>1. a + h = Scale * (q + 1) + (r - h)
    <3>1. Scale * (q + 1) = Scale * q + Scale
      BY <1>1, <1>2
    <3> QED BY <1>1, <1>2, <3>1
  <2>2. r - h \in 0..(Scale - 1)
    BY <1>1, <1>2, <1>3
  <2>3. (a + h) \div Scale = q + 1
    <3>1. a + h \in Int /\ q + 1 \in Int /\ Scale \in Int
      BY <1>1, <1>2
    <3> DEFINE x == q + 1
               y == r - h
               z == a + h
    <3>2. z \in Int /\ x \in Int /\ y \in 0..(Scale - 1) /\ z = Scale * x + y
      BY <2>1, <2>2, <3>1
    <3> HIDE DEF x, y, z
    <3>3. z \div Scale = x
      BY <1>1, <3>2, DivisionUnique
    <3> QED BY <3>3 DEF x, z
  <2> QED BY <1>3, <2>3 DEF q, r, h
<1>4. CASE ~(r >= h)
  <2> DEFINE y == r + h
             z == a + h
  <2>1. z = Scale * q + y /\ z \in Int
    BY <1>1, <1>2
  <2>2. y \in 0..(Scale - 1)
    BY <1>1, <1>2, <1>4
  <2> HIDE DEF y, z
  <2>3. z \div Scale = q
    BY <1>1, <1>2, <2>1, <2>2, DivisionUnique
  <2> QED BY <1>4, <2>3 DEF q, r, h, z
<1> QED BY <1>3, <1>4

\* The remainder the code computes is that of the whole product.
LEMMA RemainderOfProduct ==
    ASSUME NEW n \in Nat, NEW m \in Nat
    PROVE  ((n % Scale) * m) % Scale = (n * m) % Scale
<1> DEFINE k == n \div Scale
           j == n % Scale
           q == (j * m) \div Scale
           r == (j * m) % Scale
<1>1. Scale \in Nat /\ Scale > 0
  BY ScaleParts
<1>2. k \in Int /\ j \in 0..(Scale - 1) /\ n = Scale * k + j
  BY <1>1, Division
<1>3. j * m \in Int
  BY <1>1, <1>2
<1> HIDE DEF k, j
<1>4. q \in Int /\ r \in 0..(Scale - 1) /\ j * m = Scale * q + r
  BY <1>1, <1>3, Division
<1> HIDE DEF q, r
<1> DEFINE x == k * m + q
           z == n * m
<1>5. x \in Int /\ z \in Int
  BY <1>2, <1>4
<1>6. z = Scale * x + r
  <2>1. z = (Scale * k) * m + j * m
    BY <1>1, <1>2
  <2>2. (Scale * k) * m = Scale * (k * m)
    BY <1>1, <1>2
  <2>3. Scale * x = Scale * (k * m) + Scale * q
    BY <1>1, <1>2, <1>4
  <2>4. k * m \in Int /\ Scale * q \in Int /\ Scale * (k * m) \in Int
    BY <1>1, <1>2, <1>4
  <2> HIDE DEF x, z
  <2> QED BY <2>1, <2>2, <2>3, <2>4, <1>3, <1>4, <1>5
<1> HIDE DEF x, z
<1>7. z % Scale = r
  BY <1>1, <1>4, <1>5, <1>6, DivisionUnique
<1> QED BY <1>7 DEF z, r, j

\* The early return is taken only for products of UMax * Scale and more, and
\* leaves no product whose quotient would not fit.
LEMMA SaturatesExactly ==
    ASSUME NEW n \in 0..UMax, NEW m \in Nat
    PROVE  IF Saturates(n, m) THEN n * m >= Scale * UMax ELSE n * m <= Scale * UMax
<1> DEFINE P == n * m
           M == UMax * Scale
           v == M \div m
<1>1. /\ Scale \in Nat /\ Scale > 0 /\ UMax \in Nat /\ n \in Nat /\ n <= UMax
      /\ P \in Nat /\ M \in Nat /\ M = Scale * UMax
  BY ScaleParts
<1>2. CASE ~(m > Scale)
  <2>1. n * m <= n * Scale /\ n * Scale <= UMax * Scale
    BY <1>1, <1>2, ProductMonotone
  <2>2. P <= M
    BY <1>1, <2>1
  <2> QED BY <1>1, <1>2, <2>2 DEF Saturates
<1>3. CASE m > Scale
  <2>1. m \in Int /\ m > 0 /\ v \in Int
    BY <1>1, <1>3, Division
  <2>2. v <= UMax
    <3>1. Scale * UMax <= m * UMax
      BY <1>1, <1>3, ProductMonotone
    <3>2. m * (UMax + 1) = m * UMax + m
      BY <1>1
    <3>3. m * UMax \in Int
      BY <1>1
    <3>4. M < m * (UMax + 1)
      BY <1>1, <1>3, <3>1, <3>2, <3>3
    <3> HIDE DEF M
    <3>5. v < UMax + 1
      BY <1>1, <2>1, <3>4, QuotientBounds
    <3> QED BY <1>1, <2>1, <3>5
  <2>3. Saturates(n, m) <=> n > v
    <3>1. mul_u64_u32_div(UMax, Scale, m) = v
      BY <1>1, <2>1, <2>2 DEF mul_u64_u32_div
    <3> HIDE DEF v
    <3> QED BY <1>3, <3>1 DEF Saturates
  <2> HIDE DEF v
  <2>4. CASE n > v
    <3>1. M < m * (v + 1)
      <4>1. v + 1 \in Int /\ v < v + 1
        BY <2>1
      <4> HIDE DEF M
      <4> QED BY <1>1, <2>1, <4>1, QuotientBounds DEF v
    <3>2. m * (v + 1) <= m * n
      BY <1>1, <2>1, <2>4, ProductMonotone
    <3>3. m * n = P /\ m * (v + 1) \in Int
      BY <1>1, <2>1
    <3>4. P >= M
      BY <1>1, <3>1, <3>2, <3>3
    <3> QED BY <1>1, <2>3, <2>4, <3>4
  <2>5. CASE ~(n > v)
    <3>1. m * n <= m * v
      BY <1>1, <2>1, <2>5, ProductMonotone
    <3>2. m * v <= M
      <4> HIDE DEF M
      <4> QED BY <1>1, <2>1, QuotientBounds DEF v
    <3>3. m * n = P /\ m * v \in Int
      BY <1>1, <2>1
    <3>4. P <= M
      BY <1>1, <3>1, <3>2, <3>3
    <3> QED BY <1>1, <2>3, <2>5, <3>4
  <2> QED BY <2>4, <2>5
<1> QED BY <1>2, <1>3

\* parp_scale_scan_units() computes the rounded product, cut off at U64_MAX: for
\* every native number and every multiplier, without a divide error and without
\* the wrap its last check looks for.
THEOREM ScalingIsExact ==
    \A n \in 0..UMax, m \in Nat : scale_scan_units(n, m) = Rounded(n, m)
<1> SUFFICES ASSUME NEW n \in 0..UMax, NEW m \in Nat
             PROVE  scale_scan_units(n, m) = Rounded(n, m)
  OBVIOUS
<1> DEFINE P == n * m
           h == Scale \div 2
           q == P \div Scale
           r == P % Scale
           up == (P + h) \div Scale
<1>1. /\ Scale \in Nat /\ Scale > 0 /\ UMax \in Nat /\ n \in Nat /\ n <= UMax /\ P \in Nat
      /\ h \in Nat /\ Scale * UMax \in Nat
  BY ScaleParts
<1>2. q \in Int /\ r \in 0..(Scale - 1) /\ P = Scale * q + r
  BY <1>1, Division
<1>3. up = IF r >= h THEN q + 1 ELSE q
  <2> HIDE DEF P
  <2> QED BY <1>1, RoundHalfUp
<1>4. Rounded(n, m) = Smaller(UMax, up)
  BY DEF Rounded
<1>5. CASE Saturates(n, m)
  <2>1. P + h >= Scale * UMax /\ P + h \in Int
    BY <1>1, <1>5, SaturatesExactly
  <2> DEFINE z == P + h
  <2>2. z \in Int /\ z >= Scale * UMax
    BY <2>1
  <2> HIDE DEF z
  <2>3. z \div Scale >= UMax
    BY <1>1, <2>2, QuotientBounds
  <2>4. up >= UMax
    BY <2>3 DEF z
  <2> HIDE DEF up
  <2>5. up \in Int
    BY <1>2, <1>3
  <2>6. Smaller(UMax, up) = UMax
    BY <2>4 DEF Smaller
  <2> QED BY <1>4, <1>5, <2>6 DEF scale_scan_units
<1>6. CASE ~Saturates(n, m)
  <2>1. q <= UMax
    <3>1. P <= Scale * UMax
      BY <1>6, SaturatesExactly
    <3>2. Scale * (UMax + 1) = Scale * UMax + Scale
      BY <1>1
    <3>3. P < Scale * (UMax + 1)
      BY <1>1, <3>1, <3>2
    <3> HIDE DEF P
    <3>4. q < UMax + 1
      BY <1>1, <3>3, QuotientBounds
    <3> QED BY <1>1, <1>2, <3>4
  <2>2. mul_u64_u32_div(n, m, Scale) = q
    <3> HIDE DEF P
    <3>1. ~(q > UMax)
      BY <1>1, <1>2, <2>1
    <3> QED BY <3>1 DEF mul_u64_u32_div, P
  <2>3. ((n % Scale) * m) % Scale = r
    BY <1>1, RemainderOfProduct
  <2> DEFINE rounded == IF r >= h /\ q # UMax THEN q + 1 ELSE q
  <2>4. q # DivideError
    <3>1. P >= Scale * 0
      BY <1>1
    <3> HIDE DEF P
    <3>2. q >= 0
      BY <1>1, <3>1, QuotientBounds
    <3> QED BY <1>2, <3>2 DEF DivideError
  <2>5. m > Scale => rounded >= n
    <3> SUFFICES ASSUME m > Scale PROVE rounded >= n
      OBVIOUS
    <3>1. n * Scale <= n * m /\ n * Scale = Scale * n
      BY <1>1, ProductMonotone
    <3>2. P >= Scale * n
      BY <3>1
    <3> HIDE DEF P
    <3>3. q >= n
      BY <1>1, <3>2, QuotientBounds
    <3> HIDE DEF q, r, h
    <3> QED BY <1>1, <1>2, <3>3
  <2>6. rounded = Smaller(UMax, up)
    <3> HIDE DEF q, r, h, up
    <3> QED BY <1>1, <1>2, <1>3, <2>1 DEF Smaller
  <2>7. scale_scan_units(n, m) =
            IF q = DivideError THEN DivideError
            ELSE IF m > Scale /\ rounded < n THEN UMax ELSE rounded
    <3> HIDE DEF P, q, r
    <3> QED BY <1>6, <2>2, <2>3 DEF scale_scan_units
  <2>8. ~(m > Scale /\ rounded < n)
    <3>1. rounded \in Int
      BY <1>2
    <3> HIDE DEF rounded
    <3> QED BY <1>1, <2>5, <3>1
  <2> HIDE DEF rounded, q, r, up
  <2> QED BY <1>4, <2>4, <2>6, <2>7, <2>8
<1> QED BY <1>5, <1>6

---------------------------------------------------------------------------
(* Proposals.                                                               *)

\* The multiplier of an application is a number.
LEMMA MultiplierType ==
    ASSUME NEW p \in Params, NEW f \in BOOLEAN, NEW s \in 0..(Scale - 1), NEW u
    PROVE  /\ BaseMultiplier(p, f, s) \in Nat
           /\ UnderPressure(BaseMultiplier(p, f, s), u) \in Nat
<1> DEFINE c == class(p, f, s)
           m == BaseMultiplier(p, f, s)
<1>1. c \in {"foreground", "high", "medium", "low"}
  BY DEF class
<1>2. m \in Nat
  <2>1. \A x \in {"foreground", "high", "medium", "low"} : p[x] \in Nat
    BY DEF Params
  <2>2. p.minimum \in Nat /\ p.maximum \in Nat
    BY DEF Params
  <2> HIDE DEF c
  <2> QED BY <1>1, <2>1, <2>2 DEF BaseMultiplier, Clamp, c
<1> HIDE DEF m
<1>3. /\ (m + Scale + 1) \div 2 \in Nat
      /\ Larger(m, (3 * Scale) \div 4) \in Nat
  BY <1>2, ScaleParts DEF Larger
<1>4. UnderPressure(m, u) \in Nat
  BY <1>2, <1>3 DEF UnderPressure
<1> QED BY <1>2, <1>4 DEF m

\* A proposal is what the limits leave of a rounded product.
LEMMA ProposalIsLimited ==
    ASSUME NEW p \in Params, NEW n \in 0..UMax, NEW f \in BOOLEAN,
           NEW s \in 0..(Scale - 1), NEW u
    PROVE  LET m == UnderPressure(BaseMultiplier(p, f, s), u)
           IN  /\ m \in Nat /\ Rounded(n, m) \in Nat
               /\ propose(p, n, f, s, u) =
                     AtMost(p, n, AtLeast(p, n, Rounded(n, m)))
<1> DEFINE m == UnderPressure(BaseMultiplier(p, f, s), u)
<1>1. m \in Nat
  BY MultiplierType
<1> HIDE DEF m
<1>2. scale_scan_units(n, m) = Rounded(n, m)
  BY <1>1, ScalingIsExact
<1>3. Rounded(n, m) \in Nat
  <2> DEFINE z == n * m + Scale \div 2
  <2>1. z \in Int /\ z >= Scale * 0 /\ Scale \in Int /\ Scale > 0 /\ UMax \in Nat
    BY <1>1, ScaleParts
  <2> HIDE DEF z
  <2>2. z \div Scale \in Int /\ z \div Scale >= 0
    BY <2>1, Division, QuotientBounds
  <2> QED BY <2>1, <2>2 DEF Rounded, Smaller, z
<1> QED BY <1>1, <1>2, <1>3 DEF propose, m

\* The two limits keep the order, and bound what they are applied to.
LEMMA Limits ==
    ASSUME NEW p \in Params, NEW n \in 0..UMax, NEW x \in Nat
    PROVE  LET l == AtMost(p, n, AtLeast(p, n, x))
           IN  /\ l \in Nat
               /\ l >= Smaller(n, p.minUnits) /\ l <= n + p.maxExtra /\ l <= UMax
               /\ l >= Smaller(x, n)
               /\ \A y \in Nat : x <= y => l <= AtMost(p, n, AtLeast(p, n, y))
<1>1. p.minUnits \in Nat /\ p.maxExtra \in Nat /\ n \in Nat /\ n <= UMax /\ UMax \in Nat
  BY ScaleParts DEF Params
<1> QED BY <1>1 DEF AtMost, AtLeast, Smaller

\* A larger multiplier gives no smaller a product.
LEMMA RoundedMonotone ==
    ASSUME NEW n \in 0..UMax, NEW m \in Nat, NEW k \in Nat, m <= k
    PROVE  Rounded(n, m) <= Rounded(n, k)
<1> DEFINE a == n * m + Scale \div 2
           b == n * k + Scale \div 2
<1>1. Scale \in Int /\ Scale > 0 /\ UMax \in Nat /\ n \in Nat
  BY ScaleParts
<1>2. a \in Int /\ b \in Int /\ a <= b
  BY ScaleParts, ProductMonotone
<1> HIDE DEF a, b
<1>3. a \div Scale <= b \div Scale /\ a \div Scale \in Int /\ b \div Scale \in Int
  BY <1>1, <1>2, QuotientMonotone, Division
<1> QED BY <1>1, <1>3 DEF Rounded, Smaller, a, b

\* Hence a larger multiplier gives no smaller a proposal.
LEMMA ProposalMonotone ==
    ASSUME NEW p \in Params, NEW n \in 0..UMax, NEW f \in BOOLEAN, NEW g \in BOOLEAN,
           NEW s \in 0..(Scale - 1), NEW t \in 0..(Scale - 1), NEW u, NEW v,
           UnderPressure(BaseMultiplier(p, f, s), u) <= UnderPressure(BaseMultiplier(p, g, t), v)
    PROVE  propose(p, n, f, s, u) <= propose(p, n, g, t, v)
<1> DEFINE m == UnderPressure(BaseMultiplier(p, f, s), u)
           k == UnderPressure(BaseMultiplier(p, g, t), v)
<1>1. /\ m \in Nat /\ Rounded(n, m) \in Nat
      /\ propose(p, n, f, s, u) = AtMost(p, n, AtLeast(p, n, Rounded(n, m)))
  BY ProposalIsLimited
<1>2. /\ k \in Nat /\ Rounded(n, k) \in Nat
      /\ propose(p, n, g, t, v) = AtMost(p, n, AtLeast(p, n, Rounded(n, k)))
  BY ProposalIsLimited
<1>3. m <= k
  OBVIOUS
<1> HIDE DEF m, k
<1>4. Rounded(n, m) <= Rounded(n, k)
  BY <1>1, <1>2, <1>3, RoundedMonotone
<1> QED BY <1>1, <1>2, <1>4, Limits

\* Pressure ranks applications no differently: a smaller multiplier stays the
\* smaller one.
LEMMA PressureMonotone ==
    ASSUME NEW m \in Nat, NEW k \in Nat, m <= k, NEW u
    PROVE  UnderPressure(m, u) <= UnderPressure(k, u)
<1>1. Scale \in Nat /\ (3 * Scale) \div 4 \in Nat
  BY ScaleParts
<1>2. (m + Scale + 1) \div 2 <= (k + Scale + 1) \div 2
  BY <1>1
<1> QED BY <1>1, <1>2 DEF UnderPressure, Larger

\* With ordered multipliers the more likely application has the smaller one,
\* whatever the two thresholds are.
LEMMA LikelierHasLess ==
    ASSUME NEW p \in Params, NEW f \in BOOLEAN, NEW s \in 0..(Scale - 1), NEW t \in 0..(Scale - 1),
           s <= t, p.foreground <= p.high, p.high <= p.medium, p.medium <= p.low,
           p.minimum <= p.maximum
    PROVE  /\ BaseMultiplier(p, f, t) <= BaseMultiplier(p, f, s)
           /\ BaseMultiplier(p, TRUE, s) <= BaseMultiplier(p, f, s)
<1> DEFINE C(x) == Clamp(x, p.minimum, p.maximum)
           F == C(p.foreground)
           H == C(p.high)
           M == C(p.medium)
           L == C(p.low)
<1>1. /\ p.foreground \in Nat /\ p.high \in Nat /\ p.medium \in Nat /\ p.low \in Nat
      /\ p.minimum \in Nat /\ p.maximum \in Nat /\ p.highFrom \in Nat /\ p.mediumFrom \in Nat
      /\ p["foreground"] = p.foreground /\ p["high"] = p.high
      /\ p["medium"] = p.medium /\ p["low"] = p.low
  BY DEF Params
<1>2. F <= H /\ H <= M /\ M <= L /\ F \in Nat /\ H \in Nat /\ M \in Nat /\ L \in Nat
  BY <1>1 DEF Clamp
<1>3. ASSUME NEW g \in BOOLEAN, NEW x \in 0..(Scale - 1)
      PROVE  BaseMultiplier(p, g, x) =
                IF g THEN F ELSE IF x >= p.highFrom THEN H ELSE IF x >= p.mediumFrom THEN M ELSE L
  <2>1. BaseMultiplier(p, g, x) = C(p[class(p, g, x)])
    <3>1. class(p, g, x) \in {"foreground", "high", "medium", "low"}
      BY DEF class
    <3> QED BY <3>1 DEF BaseMultiplier
  <2>2. class(p, g, x) = IF g THEN "foreground" ELSE IF x >= p.highFrom THEN "high"
                         ELSE IF x >= p.mediumFrom THEN "medium" ELSE "low"
    BY <1>1, ScaleParts DEF class
  <2> HIDE DEF C
  <2> QED BY <1>1, <2>1, <2>2
<1> HIDE DEF F, H, M, L
<1>4. BaseMultiplier(p, TRUE, s) = F
  BY <1>3
<1>5. /\ BaseMultiplier(p, f, s) =
            IF f THEN F ELSE IF s >= p.highFrom THEN H ELSE IF s >= p.mediumFrom THEN M ELSE L
      /\ BaseMultiplier(p, f, t) =
            IF f THEN F ELSE IF t >= p.highFrom THEN H ELSE IF t >= p.mediumFrom THEN M ELSE L
  BY <1>3
<1>6. s \in Int /\ t \in Int
  BY ScaleParts
<1>7. CASE f = TRUE
  <2>1. BaseMultiplier(p, f, s) = F /\ BaseMultiplier(p, f, t) = F
    BY <1>5, <1>7
  <2>2. F <= F
    BY <1>2
  <2> QED BY <1>4, <2>1, <2>2, Zenon
<1>8. CASE f = FALSE
  <2> DEFINE x == BaseMultiplier(p, f, s)
             y == BaseMultiplier(p, f, t)
  <2>1. /\ x = IF s >= p.highFrom THEN H ELSE IF s >= p.mediumFrom THEN M ELSE L
        /\ y = IF t >= p.highFrom THEN H ELSE IF t >= p.mediumFrom THEN M ELSE L
    BY <1>5, <1>8
  <2> HIDE DEF x, y
  <2>2. y <= x /\ F <= x
    BY <1>1, <1>2, <1>6, <2>1
  <2> QED BY <1>4, <2>2 DEF x, y
<1> QED BY <1>7, <1>8

\* A multiplier of one and more takes no page away.
LEMMA NothingTakenAway ==
    ASSUME NEW n \in 0..UMax, NEW m \in Nat, m >= Scale
    PROVE  Rounded(n, m) >= n
<1> DEFINE a == n * m + Scale \div 2
<1>1. Scale \in Int /\ Scale > 0 /\ UMax \in Nat /\ n \in Nat /\ n <= UMax /\ Scale \div 2 \in Nat
  BY ScaleParts
<1>2. a \in Int /\ a >= Scale * n
  <2>1. n * Scale <= n * m
    BY <1>1, ProductMonotone
  <2>2. n * Scale = Scale * n /\ n * m \in Int /\ Scale * n \in Int
    BY <1>1
  <2> QED BY <1>1, <2>1, <2>2
<1> HIDE DEF a
<1>3. a \div Scale \in Int /\ a \div Scale >= n
  BY <1>1, <1>2, Division, QuotientBounds
<1> QED BY <1>1, <1>3 DEF Rounded, Smaller, a

\* Three quarters keep three quarters, up to rounding.
LEMMA ThreeQuarters ==
    ASSUME NEW n \in 0..UMax, NEW m \in Nat, m >= (3 * Scale) \div 4
    PROVE  4 * Rounded(n, m) >= 3 * n - 2
<1> DEFINE Q == Scale \div 4
           a == n * m + Scale \div 2
           q == a \div Scale
<1>1. /\ Scale \in Int /\ Scale > 0 /\ UMax \in Nat /\ n \in Nat /\ n <= UMax
      /\ Q \in Nat /\ Scale = 4 * Q /\ Scale \div 2 = 2 * Q /\ m >= 3 * Q
  BY ScaleParts
<1>2. a \in Int /\ a >= Q * (3 * n + 2)
  <2>1. n * (3 * Q) <= n * m
    BY <1>1, ProductMonotone
  <2>2. Q * (3 * n + 2) = n * (3 * Q) + 2 * Q
    BY <1>1
  <2>3. n * m \in Int /\ n * (3 * Q) \in Int
    BY <1>1
  <2> HIDE DEF Q
  <2> QED BY <1>1, <2>1, <2>2, <2>3
<1> HIDE DEF a, Q
<1>3. q \in Int
  BY <1>1, <1>2, Division
<1>4. 4 * q >= 3 * n - 1
  <2> SUFFICES ASSUME 4 * q + 4 <= 3 * n + 2 PROVE FALSE
    BY <1>1, <1>3
  <2>1. 4 * q + 4 \in Int /\ 3 * n + 2 \in Int
    BY <1>1, <1>3
  <2> DEFINE x == 4 * q + 4
             y == 3 * n + 2
  <2>2. Q * x <= Q * y
    <3>1. x \in Int /\ y \in Int /\ x <= y
      BY <2>1
    <3> HIDE DEF x, y, q
    <3> QED BY <1>1, <3>1, ProductMonotone
  <2>3. Q * x = Scale * (q + 1) /\ Q * x \in Int
    <3> HIDE DEF q
    <3> QED BY <1>1, <1>3
  <2>4. Q * y \in Int
    BY <1>1
  <2> HIDE DEF q, x
  <2>5. a >= Scale * (q + 1)
    BY <1>2, <2>2, <2>3, <2>4
  <2>6. q >= q + 1
    <3>1. q + 1 \in Int
      BY <1>3
    <3> QED BY <1>1, <1>2, <2>5, <3>1, QuotientBounds DEF q
  <2> QED BY <1>3, <2>6
<1> QED BY <1>1, <1>3, <1>4 DEF Rounded, Smaller, a

---------------------------------------------------------------------------
(* The theorems.                                                            *)

\* The walk stays within the range of its inputs.
Walking ==
    /\ params \in Params /\ foreground \in BOOLEAN /\ score \in 0..(Scale - 1)
    /\ pressure \in Pressures \ {"emergency"} /\ native \in 1..UMax

\* Every setting of the walk is one of the module parameters.
LEMMA Walks == Spec => []Walking
<1>1. Init => Walking
  BY ScaleParts, SettingsAssumption DEF Init, Walking
<1>2. Walking /\ [Walk]_vars => Walking'
  <2> SUFFICES ASSUME Walking, [Walk]_vars PROVE Walking'
    OBVIOUS
  <2>1. CASE Walk
    BY <2>1, ScaleParts DEF Walk, Walking, fixed
  <2>2. CASE UNCHANGED vars
    BY <2>2 DEF vars, Walking
  <2> QED BY <2>1, <2>2
<1> QED BY <1>1, <1>2, PTL DEF Spec

\* Every proposal is at least the smaller of the native number and
\* minimum_scan_units and at most maximum_extra_scan_units above the native
\* number, for all parameters: also for those scan_config_valid() would reject.
THEOREM ProposalWithinLimits ==
    \A p \in Params, n \in 0..UMax, f \in BOOLEAN, s \in 0..(Scale - 1), u \in Pressures :
        LET x == propose(p, n, f, s, u)
        IN  x >= Smaller(n, p.minUnits) /\ x <= n + p.maxExtra /\ x <= UMax
<1> SUFFICES ASSUME NEW p \in Params, NEW n \in 0..UMax, NEW f \in BOOLEAN,
                    NEW s \in 0..(Scale - 1), NEW u \in Pressures
             PROVE  LET x == propose(p, n, f, s, u)
                    IN  x >= Smaller(n, p.minUnits) /\ x <= n + p.maxExtra /\ x <= UMax
  OBVIOUS
<1> DEFINE m == UnderPressure(BaseMultiplier(p, f, s), u)
<1>1. /\ Rounded(n, m) \in Nat
      /\ propose(p, n, f, s, u) = AtMost(p, n, AtLeast(p, n, Rounded(n, m)))
  BY ProposalIsLimited
<1> HIDE DEF m
<1> QED BY <1>1, Limits

\* ScalingExact, on every walk.
THEOREM WalkIsExact == Spec => []ScalingExact
<1>1. Walking => ScalingExact
  <2> SUFFICES ASSUME Walking, NEW m \in 0..(6 * Scale)
               PROVE  scale_scan_units(native, m) = Rounded(native, m)
    BY DEF ScalingExact
  <2>1. native \in 0..UMax /\ m \in Nat
    BY ScaleParts DEF Walking
  <2> QED BY <2>1, ScalingIsExact
<1> QED BY <1>1, Walks, PTL

\* ProposalBounded, on every walk.
THEOREM WalkIsBounded == Spec => []ProposalBounded
<1>1. Walking => ProposalBounded
  <2> SUFFICES ASSUME Walking PROVE ProposalBounded
    OBVIOUS
  <2>1. native \in 0..UMax /\ params \in Params /\ foreground \in BOOLEAN
        /\ score \in 0..(Scale - 1) /\ pressure \in Pressures
    BY ScaleParts DEF Walking
  <2> QED BY <2>1, ProposalWithinLimits DEF ProposalBounded, Proposed
<1> QED BY <1>1, Walks, PTL

\* With ordered multipliers a more likely or foreground application is never
\* scanned harder, for every number of pages and at every pressure.
THEOREM LikelierIsScannedLess == Spec => []LikelierScannedLess
<1>1. Walking => LikelierScannedLess
  <2> SUFFICES ASSUME Walking, params.foreground <= params.high, params.high <= params.medium,
                      params.medium <= params.low, params.minimum <= params.maximum
               PROVE  /\ \A s \in score..(Scale - 1) :
                            propose(params, native, foreground, s, pressure) <= Proposed
                      /\ propose(params, native, TRUE, score, pressure) <= Proposed
    BY DEF LikelierScannedLess
  <2>1. native \in 0..UMax /\ params \in Params /\ foreground \in BOOLEAN /\ TRUE \in BOOLEAN
        /\ score \in 0..(Scale - 1)
    BY ScaleParts DEF Walking
  <2>2. ASSUME NEW s \in score..(Scale - 1)
        PROVE  propose(params, native, foreground, s, pressure) <= Proposed
    <3>1. s \in 0..(Scale - 1) /\ score <= s
      BY <2>1, ScaleParts
    <3>2. BaseMultiplier(params, foreground, s) <= BaseMultiplier(params, foreground, score)
      BY <2>1, <3>1, LikelierHasLess
    <3>3. UnderPressure(BaseMultiplier(params, foreground, s), pressure)
            <= UnderPressure(BaseMultiplier(params, foreground, score), pressure)
      BY <2>1, <3>1, <3>2, MultiplierType, PressureMonotone
    <3> QED BY <2>1, <3>1, <3>3, ProposalMonotone DEF Proposed
  <2>3. propose(params, native, TRUE, score, pressure) <= Proposed
    <3>1. score <= score
      BY <2>1, ScaleParts
    <3>2. BaseMultiplier(params, TRUE, score) <= BaseMultiplier(params, foreground, score)
      BY <2>1, <3>1, LikelierHasLess
    <3>3. UnderPressure(BaseMultiplier(params, TRUE, score), pressure)
            <= UnderPressure(BaseMultiplier(params, foreground, score), pressure)
      BY <2>1, <3>2, MultiplierType, PressureMonotone
    <3> QED BY <2>1, <3>3, ProposalMonotone DEF Proposed
  <2> QED BY <2>2, <2>3
<1> QED BY <1>1, Walks, PTL

\* Elevated and high pressure never reduce a reduced scan further, and high
\* pressure leaves every application three quarters of the native scan.
THEOREM PressureTakesProtectionAway == Spec => []PressureWeakensProtection
<1>1. Walking => PressureWeakensProtection
  <2> SUFFICES ASSUME Walking PROVE PressureWeakensProtection
    OBVIOUS
  <2> DEFINE b == BaseMultiplier(params, foreground, score)
             m == UnderPressure(b, pressure)
             calm == propose(params, native, foreground, score, "normal")
  <2>1. /\ native \in 0..UMax /\ native \in Nat /\ params \in Params /\ foreground \in BOOLEAN
        /\ score \in 0..(Scale - 1) /\ pressure \in {"normal", "elevated", "high"}
        /\ Scale \in Nat /\ (3 * Scale) \div 4 \in Nat
    BY ScaleParts DEF Walking, Pressures
  <2>2. b \in Nat /\ m \in Nat /\ UnderPressure(b, "normal") = b
    BY <2>1, MultiplierType DEF UnderPressure
  <2>3. /\ Rounded(native, m) \in Nat
        /\ Proposed = AtMost(params, native, AtLeast(params, native, Rounded(native, m)))
    BY <2>1, ProposalIsLimited DEF Proposed
  <2>4. Proposed \in Nat /\ Proposed >= Smaller(Rounded(native, m), native)
    <3> HIDE DEF m
    <3> QED BY <2>1, <2>3, Limits
  <2>5. calm \in Nat
    <3>1. /\ Rounded(native, b) \in Nat
          /\ calm = AtMost(params, native, AtLeast(params, native, Rounded(native, b)))
      BY <2>1, <2>2, ProposalIsLimited
    <3> HIDE DEF b, calm
    <3> QED BY <2>1, <3>1, Limits
  <2>6. ASSUME b <= m PROVE calm <= Proposed
    <3>1. UnderPressure(b, "normal") <= UnderPressure(b, pressure)
      BY <2>2, <2>6
    <3> QED BY <2>1, <3>1, ProposalMonotone DEF Proposed
  <2>7. calm <= native => Proposed >= calm
    <3>1. CASE pressure = "normal"
      BY <2>2, <2>5, <3>1 DEF Proposed
    <3>2. CASE pressure = "high"
      <4>1. m = Larger(b, (3 * Scale) \div 4)
        BY <3>2 DEF UnderPressure
      <4> HIDE DEF b, m, calm
      <4>2. b <= m
        BY <2>1, <2>2, <4>1 DEF Larger
      <4> QED BY <2>4, <2>5, <2>6, <4>2
    <3>3. CASE pressure = "elevated"
      <4>1. m = (b + Scale + 1) \div 2
        BY <3>3 DEF UnderPressure
      <4> HIDE DEF b, m, calm
      <4>2. CASE b <= Scale
        <5>1. b <= m
          BY <2>1, <2>2, <4>1, <4>2
        <5> QED BY <2>4, <2>5, <2>6, <5>1
      <4>3. CASE ~(b <= Scale)
        <5>1. m >= Scale
          BY <2>1, <2>2, <4>1, <4>3
        <5>2. Rounded(native, m) >= native
          BY <2>1, <2>2, <5>1, NothingTakenAway
        <5>3. Smaller(Rounded(native, m), native) = native
          BY <2>1, <2>3, <5>2 DEF Smaller
        <5> QED BY <2>1, <2>4, <2>5, <5>3
      <4> QED BY <4>2, <4>3
    <3> QED BY <2>1, <3>1, <3>2, <3>3
  <2>8. pressure = "high" => 4 * Proposed >= 3 * native - 2
    <3> SUFFICES ASSUME pressure = "high" PROVE 4 * Proposed >= 3 * native - 2
      OBVIOUS
    <3>1. m = Larger(b, (3 * Scale) \div 4)
      BY DEF UnderPressure
    <3> HIDE DEF b, m
    <3>2. m >= (3 * Scale) \div 4
      BY <2>1, <2>2, <3>1 DEF Larger
    <3>3. 4 * Rounded(native, m) >= 3 * native - 2
      BY <2>1, <2>2, <3>2, ThreeQuarters
    <3> QED BY <2>1, <2>3, <2>4, <3>3 DEF Smaller
  <2> QED BY <2>7, <2>8 DEF PressureWeakensProtection
<1> QED BY <1>1, Walks, PTL
=============================================================================
