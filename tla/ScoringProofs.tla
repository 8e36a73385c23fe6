--------------------------- MODULE ScoringProofs ----------------------------
(***************************************************************************)
(* Theorems about Scoring, for every market and every configuration that   *)
(* load_settings accepts.                                                  *)
(*                                                                         *)
(* The argument: smoothing only looks back, so the RSI of what came first  *)
(* does not depend on what comes after (SmoothingAgrees, SeriesGrows), and *)
(* a day's candle does not depend on later hours (PartsStay, LowsStay).    *)
(* What a scan loads is the end of the history (LoadedIs, SupportsWithin). *)
(* The two averages of a falling market are ordered because each value is  *)
(* below both of them and the faster one follows it faster; the first      *)
(* value of the slow one is a mean, which an average with a growing window *)
(* bounds (BelowMean, FastIsLower).  A rising market is a falling one with *)
(* its sign turned.                                                        *)
(***************************************************************************)
EXTENDS Scoring, WellFoundedInduction, SequenceTheorems, TLAPS

(* Counting up, and the recursions over 0 .. n that it shows to exist.     *)
LEMMA HasLeast ==
  ASSUME NEW T \in SUBSET Nat, T # {} PROVE \E m \in T : \A n \in T : m <= n
  <1> DEFINE below == OpToRel(<, Nat)
  <1>1. \E m \in T : \A n \in T : ~ (<<n, m>> \in below)
    BY NatLessThanWellFounded, WFMin, Zenon
  <1>2. \A a, b \in Nat : a < b => <<a, b>> \in below
    BY DEF OpToRel
  <1>3. \E m \in T : \A n \in T : ~(n < m)
    <2> HIDE DEF below
    <2> QED BY <1>1, <1>2, T \subseteq Nat, Zenon
  <1> QED BY <1>3

(* What holds of 0, and of each number up to n after the one before, holds *)
(* of all of them.                                                         *)
LEMMA CountUp ==
  ASSUME NEW n \in Nat, NEW Good, 0 \in Good,
         \A k \in 1 .. n : k - 1 \in Good => k \in Good
  PROVE  \A k \in 0 .. n : k \in Good
  <1> DEFINE Bad == {k \in 0 .. n : k \notin Good}
  <1>1. SUFFICES ASSUME Bad # {} PROVE FALSE
    OBVIOUS
  <1>2. Bad \in SUBSET Nat
    OBVIOUS
  <1>3. PICK k \in Bad : \A j \in Bad : k <= j
    <2> HIDE DEF Bad
    <2> QED BY <1>1, <1>2, HasLeast
  <1>4. k \in 1 .. n /\ k - 1 \in 0 .. n /\ k - 1 \notin Bad
    BY <1>3
  <1> QED BY <1>3, <1>4

(* it unrolls a recursion over 0 .. n: from zero, each value is a times the *)
(* one before and what add says.                                           *)
Unrolls(it, zero, a, add, n) ==
  it = [k \in 0 .. n |-> IF k = 0 THEN zero ELSE it[k - 1] * a + add[k]]

LEMMA UnrollsGrow ==
  ASSUME NEW zero, NEW a, NEW add, NEW n \in Nat, NEW it, Unrolls(it, zero, a, add, n)
  PROVE  \E up : Unrolls(up, zero, a, add, n + 1)
  <1> DEFINE up == [k \in 0 .. n + 1 |-> IF k = 0 THEN zero ELSE it[k - 1] * a + add[k]]
  <1>1. ASSUME NEW k \in 0 .. n PROVE up[k] = it[k]
    <2>1. it[k] = IF k = 0 THEN zero ELSE it[k - 1] * a + add[k]
      BY DEF Unrolls
    <2>2. up[k] = IF k = 0 THEN zero ELSE it[k - 1] * a + add[k]
      OBVIOUS
    <2> QED BY <2>1, <2>2
  <1>2. \A k \in 0 .. n + 1 : k # 0 => up[k - 1] = it[k - 1]
    <2>1. \A k \in 0 .. n + 1 : k # 0 => k - 1 \in 0 .. n
      OBVIOUS
    <2> HIDE DEF up
    <2> QED BY <1>1, <2>1
  <1> DEFINE old(k) == IF k = 0 THEN zero ELSE it[k - 1] * a + add[k]
             new(k) == IF k = 0 THEN zero ELSE up[k - 1] * a + add[k]
  <1>3. ASSUME NEW k \in 0 .. n + 1 PROVE old(k) = new(k)
    <2>1. k # 0 => up[k - 1] = it[k - 1]
      BY <1>2
    <2> HIDE DEF up
    <2> QED BY <2>1, Zenon
  <1>4. [k \in 0 .. n + 1 |-> old(k)] = [k \in 0 .. n + 1 |-> new(k)]
    <2> HIDE DEF old, new
    <2> QED BY <1>3
  <1>5. up = [k \in 0 .. n + 1 |-> new(k)]
    BY <1>4, Zenon
  <1>6. Unrolls(up, zero, a, add, n + 1)
    BY <1>5, Zenon DEF Unrolls
  <1> QED BY <1>6, Zenon

LEMMA UnrollingExists ==
  ASSUME NEW zero, NEW a, NEW add, NEW n \in Nat
  PROVE  \E it : Unrolls(it, zero, a, add, n)
  <1> DEFINE Good == {k \in 0 .. n : \E it : Unrolls(it, zero, a, add, k)}
  <1>1. 0 \in Good
    <2> DEFINE one == [k \in 0 .. 0 |-> zero]
    <2>1. \A k \in 0 .. 0 : k = 0
      OBVIOUS
    <2> DEFINE new(k) == IF k = 0 THEN zero ELSE one[k - 1] * a + add[k]
    <2>2. \A k \in 0 .. 0 : new(k) = zero
      BY <2>1, Zenon
    <2>3. one = [k \in 0 .. 0 |-> new(k)]
      <3> HIDE DEF new
      <3> QED BY <2>2
    <2>4. Unrolls(one, zero, a, add, 0)
      BY <2>3, Zenon DEF Unrolls
    <2>5. \E it : Unrolls(it, zero, a, add, 0)
      BY <2>4, Zenon
    <2> QED BY <2>5
  <1>2. \A k \in 1 .. n : k - 1 \in Good => k \in Good
    <2> SUFFICES ASSUME NEW k \in 1 .. n, k - 1 \in Good PROVE k \in Good
      OBVIOUS
    <2>1. PICK it : Unrolls(it, zero, a, add, k - 1)
      OBVIOUS
    <2>2. k - 1 \in Nat /\ (k - 1) + 1 = k /\ k \in 0 .. n
      OBVIOUS
    <2>3. \E up : Unrolls(up, zero, a, add, (k - 1) + 1)
      BY <2>1, <2>2, UnrollsGrow
    <2> QED BY <2>2, <2>3
  <1>3. \A k \in 0 .. n : k \in Good
    <2> HIDE DEF Good
    <2> QED BY ONLY n \in Nat, <1>1, <1>2, CountUp
  <1>4. n \in Good
    BY <1>3
  <1> QED BY <1>4

-----------------------------------------------------------------------------
(* it smooths xs, over up to n further values.                             *)
Smooths(it, xs, p, n) ==
  it = [k \in 0 .. n |->
          IF k = 0 THEN Total(Until(xs, p)) ELSE it[k - 1] * (p - 1) + xs[p + k] * p ^ k]

LEMMA WilderIs ==
  ASSUME NEW xs, NEW p
  PROVE  Wilder(xs, p) = CHOOSE it : Smooths(it, xs, p, Len(xs) - p)
  BY DEF Wilder, Smooths

LEMMA SmoothingExists ==
  ASSUME NEW xs, NEW p, NEW n \in Nat
  PROVE  \E it : Smooths(it, xs, p, n)
  <1> DEFINE zero == Total(Until(xs, p))
             add == [k \in 1 .. n |-> xs[p + k] * p ^ k]
  <1>1. PICK it : Unrolls(it, zero, p - 1, add, n)
    BY UnrollingExists, Zenon
  <1> DEFINE old(k) == IF k = 0 THEN zero ELSE it[k - 1] * (p - 1) + add[k]
             new(k) == IF k = 0 THEN zero ELSE it[k - 1] * (p - 1) + xs[p + k] * p ^ k
  <1>2. ASSUME NEW k \in 0 .. n PROVE old(k) = new(k)
    <2>1. k # 0 => k \in 1 .. n
      OBVIOUS
    <2>2. k # 0 => add[k] = xs[p + k] * p ^ k
      BY <2>1
    <2> HIDE DEF add
    <2> QED BY <2>2, Zenon
  <1>3. [k \in 0 .. n |-> old(k)] = [k \in 0 .. n |-> new(k)]
    <2> HIDE DEF old, new
    <2> QED BY <1>2
  <1>4. it = [k \in 0 .. n |-> new(k)]
    BY <1>1, <1>3, Zenon DEF Unrolls
  <1>5. Smooths(it, xs, p, n)
    BY <1>4, Zenon DEF Smooths
  <1> QED BY <1>5, Zenon

(* Smoothing depends only on the values it has seen.                       *)
LEMMA SmoothingAgrees ==
  ASSUME NEW xs, NEW ys, NEW p \in Nat, NEW n \in Nat, NEW m \in Nat,
         NEW a, Smooths(a, xs, p, n), NEW b, Smooths(b, ys, p, m), m <= n,
         Until(xs, p) = Until(ys, p), \A i \in p + 1 .. p + m : xs[i] = ys[i]
  PROVE  \A k \in 0 .. m : a[k] = b[k]
  <1> DEFINE Good == {k \in 0 .. m : a[k] = b[k]}
  <1>1. \A k \in 0 .. m :
          a[k] = IF k = 0 THEN Total(Until(xs, p)) ELSE a[k - 1] * (p - 1) + xs[p + k] * p ^ k
    <2>1. \A k \in 0 .. m : k \in 0 .. n
      OBVIOUS
    <2> QED BY <2>1 DEF Smooths
  <1>2. \A k \in 0 .. m :
          b[k] = IF k = 0 THEN Total(Until(ys, p)) ELSE b[k - 1] * (p - 1) + ys[p + k] * p ^ k
    BY DEF Smooths
  <1>3. 0 \in Good
    BY <1>1, <1>2
  <1>4. \A k \in 1 .. m : k - 1 \in Good => k \in Good
    <2> SUFFICES ASSUME NEW k \in 1 .. m, k - 1 \in Good PROVE k \in Good
      OBVIOUS
    <2>1. k \in 0 .. m /\ k # 0 /\ p + k \in p + 1 .. p + m /\ a[k - 1] = b[k - 1]
      OBVIOUS
    <2>2. xs[p + k] = ys[p + k]
      BY <2>1
    <2>3. a[k] = a[k - 1] * (p - 1) + xs[p + k] * p ^ k /\ b[k] = b[k - 1] * (p - 1) + ys[p + k] * p ^ k
      BY <1>1, <1>2, <2>1
    <2>4. a[k] = b[k]
      BY <2>1, <2>2, <2>3, Zenon
    <2> QED BY <2>1, <2>4
  <1>5. \A k \in 0 .. m : k \in Good
    <2> HIDE DEF Good
    <2> QED BY ONLY m \in Nat, <1>3, <1>4, CountUp
  <1> QED BY <1>5

-----------------------------------------------------------------------------
(* Sequences, and the greater and the smaller of two numbers.              *)

LEMMA FromFunction ==
  ASSUME NEW S, NEW n \in Nat, NEW s \in [1 .. n -> S]
  PROVE  s \in Seq(S) /\ Len(s) = n
  OBVIOUS

LEMMA UntilIs ==
  ASSUME NEW S, NEW s \in Seq(S), NEW n \in Nat, n <= Len(s)
  PROVE  Until(s, n) \in Seq(S) /\ Len(Until(s, n)) = n /\ \A i \in 1 .. n : Until(s, n)[i] = s[i]
  BY DEF Until

LEMMA AppendIs ==
  ASSUME NEW S, NEW s \in Seq(S), NEW e \in S
  PROVE  Append(s, e) = [i \in 1 .. Len(s) + 1 |-> IF i <= Len(s) THEN s[i] ELSE e]
  <1>1. Append(s, e) \in Seq(S) /\ Len(Append(s, e)) = Len(s) + 1
    OBVIOUS
  <1>2. DOMAIN Append(s, e) = 1 .. Len(s) + 1 /\ Append(s, e) = [i \in DOMAIN Append(s, e) |-> Append(s, e)[i]]
    <2> DEFINE a == Append(s, e)
    <2>1. a \in [1 .. Len(a) -> S] /\ DOMAIN a = 1 .. Len(a)
      BY <1>1, LenProperties
    <2>2. Len(a) = Len(s) + 1
      BY <1>1
    <2> HIDE DEF a
    <2>3. a = [i \in DOMAIN a |-> a[i]]
      BY <2>1
    <2> QED BY <2>1, <2>2, <2>3 DEF a
  <1>3. \A i \in 1 .. Len(s) + 1 : Append(s, e)[i] = IF i <= Len(s) THEN s[i] ELSE e
    OBVIOUS
  <1> DEFINE old(i) == Append(s, e)[i]
             new(i) == IF i <= Len(s) THEN s[i] ELSE e
             D == 1 .. Len(s) + 1
  <1>4. [i \in D |-> old(i)] = [i \in D |-> new(i)]
    <2>1. \A i \in D : old(i) = new(i)
      BY <1>3
    <2> HIDE DEF old, new, D
    <2> QED BY <2>1
  <1>5. Append(s, e) = [i \in D |-> old(i)]
    BY <1>2, Zenon
  <1> QED BY <1>4, <1>5, Zenon


LEMMA MaxOfTwo ==
  ASSUME NEW a \in Int, NEW b \in Int
  PROVE  Max({a, b}) \in {a, b} /\ a <= Max({a, b}) /\ b <= Max({a, b})
  <1>1. \E x \in {a, b} : \A y \in {a, b} : x >= y
    OBVIOUS
  <1> QED BY <1>1 DEF Max

LEMMA MinOfTwo ==
  ASSUME NEW a \in Int, NEW b \in Int
  PROVE  Min({a, b}) \in {a, b} /\ Min({a, b}) <= a /\ Min({a, b}) <= b
  <1>1. \E x \in {a, b} : \A y \in {a, b} : x <= y
    OBVIOUS
  <1> QED BY <1>1 DEF Min

-----------------------------------------------------------------------------
(* The RSI of what came first does not depend on what comes after.         *)

Begins(cs, ds) == Len(cs) <= Len(ds) /\ \A i \in 1 .. Len(cs) : cs[i] = ds[i]

LEMMA Periods ==
  /\ RsiPeriod \in Nat /\ RsiPeriod > 1 /\ RsiLookback \in Nat /\ RsiLookback > 1
  /\ SwingWindow \in Nat /\ SwingWindow > 0 /\ SupportLookback \in Nat /\ SupportLookback > 0
  BY IndicatorsAssumption

LEMMA Moves ==
  ASSUME NEW cs \in Seq(Int), Len(cs) > 0
  PROVE  /\ Gains(cs) \in Seq(Int) /\ Len(Gains(cs)) = Len(cs) - 1
         /\ \A i \in 1 .. Len(cs) - 1 : Gains(cs)[i] = Max({cs[i + 1] - cs[i], 0})
         /\ Losses(cs) \in Seq(Int) /\ Len(Losses(cs)) = Len(cs) - 1
         /\ \A i \in 1 .. Len(cs) - 1 : Losses(cs)[i] = Max({cs[i] - cs[i + 1], 0})
  <1>1. Len(cs) - 1 \in Nat
    OBVIOUS
  <1>2. ASSUME NEW i \in 1 .. Len(cs) - 1
        PROVE  Max({cs[i + 1] - cs[i], 0}) \in Int /\ Max({cs[i] - cs[i + 1], 0}) \in Int
    <2> i \in 1 .. Len(cs) /\ i + 1 \in 1 .. Len(cs)
      OBVIOUS
    <2> cs[i] \in Int /\ cs[i + 1] \in Int
      BY ElementOfSeq
    <2>1. cs[i + 1] - cs[i] \in Int /\ cs[i] - cs[i + 1] \in Int
      OBVIOUS
    <2>2. ASSUME NEW a \in Int PROVE Max({a, 0}) \in Int
      <3>1. Max({a, 0}) \in {a, 0}
        BY MaxOfTwo, 0 \in Int, Zenon
      <3> QED BY <3>1
    <2> QED BY <2>1, <2>2, Zenon
  <1>3. Gains(cs) \in [1 .. Len(cs) - 1 -> Int] /\ Losses(cs) \in [1 .. Len(cs) - 1 -> Int]
    BY <1>2 DEF Gains, Losses
  <1>4. Gains(cs) \in Seq(Int) /\ Len(Gains(cs)) = Len(cs) - 1
    BY <1>1, <1>3, FromFunction
  <1>5. Losses(cs) \in Seq(Int) /\ Len(Losses(cs)) = Len(cs) - 1
    BY <1>1, <1>3, FromFunction
  <1>6. \A i \in 1 .. Len(cs) - 1 : Gains(cs)[i] = Max({cs[i + 1] - cs[i], 0})
    BY DEF Gains
  <1>7. \A i \in 1 .. Len(cs) - 1 : Losses(cs)[i] = Max({cs[i] - cs[i + 1], 0})
    BY DEF Losses
  <1> QED BY <1>4, <1>5, <1>6, <1>7

LEMMA MovesAgree ==
  ASSUME NEW cs \in Seq(Int), NEW ds \in Seq(Int), Begins(cs, ds), Len(cs) > 0
  PROVE  Begins(Gains(cs), Gains(ds)) /\ Begins(Losses(cs), Losses(ds))
  <1>1. Len(ds) > 0 /\ Len(cs) <= Len(ds) /\ \A i \in 1 .. Len(cs) : cs[i] = ds[i]
    BY DEF Begins
  <1>2. ASSUME NEW i \in 1 .. Len(cs) - 1
        PROVE  Gains(cs)[i] = Gains(ds)[i] /\ Losses(cs)[i] = Losses(ds)[i]
    <2>1. i \in 1 .. Len(cs) /\ i + 1 \in 1 .. Len(cs) /\ i \in 1 .. Len(ds) - 1
      BY <1>1
    <2>2. cs[i] = ds[i] /\ cs[i + 1] = ds[i + 1]
      BY <1>1, <2>1
    <2>3. Gains(cs)[i] = Max({cs[i + 1] - cs[i], 0}) /\ Losses(cs)[i] = Max({cs[i] - cs[i + 1], 0})
      BY Moves
    <2>4. Gains(ds)[i] = Max({ds[i + 1] - ds[i], 0}) /\ Losses(ds)[i] = Max({ds[i] - ds[i + 1], 0})
      BY <1>1, <2>1, Moves
    <2> QED BY <2>2, <2>3, <2>4, Zenon
  <1>3. Len(Gains(cs)) = Len(cs) - 1 /\ Len(Gains(ds)) = Len(ds) - 1
        /\ Len(Losses(cs)) = Len(cs) - 1 /\ Len(Losses(ds)) = Len(ds) - 1
    BY <1>1, Moves
  <1>4. Len(cs) \in Nat /\ Len(ds) \in Nat
    OBVIOUS
  <1>5. Len(Gains(cs)) <= Len(Gains(ds)) /\ Len(Losses(cs)) <= Len(Losses(ds))
    BY <1>1, <1>3, <1>4
  <1>6. 1 .. Len(Gains(cs)) = 1 .. Len(cs) - 1 /\ 1 .. Len(Losses(cs)) = 1 .. Len(cs) - 1
    BY <1>3, Zenon
  <1> QED BY <1>2, <1>5, <1>6, Zenon DEF Begins

LEMMA WilderAgrees ==
  ASSUME NEW ys \in Seq(Int), NEW xs \in Seq(Int), Begins(ys, xs),
         NEW p \in Nat, p <= Len(ys), NEW k \in 0 .. Len(ys) - p
  PROVE  Wilder(xs, p)[k] = Wilder(ys, p)[k]
  <1> DEFINE n == Len(xs) - p
             m == Len(ys) - p
             a == CHOOSE it : Smooths(it, xs, p, n)
             b == CHOOSE it : Smooths(it, ys, p, m)
  <1>1. n \in Nat /\ m \in Nat /\ m <= n /\ p + m = Len(ys) /\ Len(ys) <= Len(xs)
    BY DEF Begins
  <1>2. Until(xs, p) = Until(ys, p)
    <2>1. \A i \in 1 .. p : xs[i] = ys[i]
      BY DEF Begins
    <2>2. Until(xs, p) \in Seq(Int) /\ Until(ys, p) \in Seq(Int)
          /\ Len(Until(xs, p)) = p /\ Len(Until(ys, p)) = p
          /\ \A i \in 1 .. p : Until(xs, p)[i] = xs[i] /\ Until(ys, p)[i] = ys[i]
      <3>1. p \in Nat /\ p <= Len(xs) /\ p <= Len(ys)
        BY <1>1
      <3> QED BY <3>1, UntilIs
    <2> QED BY <2>1, <2>2, SeqEqual
  <1>3. \A i \in p + 1 .. p + m : xs[i] = ys[i]
    BY <1>1 DEF Begins
  <1>4. Smooths(a, xs, p, n) /\ Smooths(b, ys, p, m)
    <2> HIDE DEF n, m
    <2> QED BY <1>1, SmoothingExists
  <1>5. a[k] = b[k]
    <2>1. k \in 0 .. m
      OBVIOUS
    <2> HIDE DEF a, b, n, m
    <2>2. \A j \in 0 .. m : a[j] = b[j]
      <3>1. p \in Nat /\ n \in Nat /\ m \in Nat /\ m <= n
        BY <1>1
      <3> QED BY ONLY <3>1, <1>2, <1>3, <1>4, SmoothingAgrees
    <2> QED BY <2>1, <2>2
  <1> QED BY <1>5, WilderIs, Zenon

LEMMA SeriesAgrees ==
  ASSUME NEW cs \in Seq(Int), NEW ds \in Seq(Int), Begins(cs, ds), NEW i \in 1 .. Len(cs)
  PROVE  RsiSeries(cs)[i] = RsiSeries(ds)[i]
  <1> DEFINE k == i - 1 - RsiPeriod
             at(s) == IF k < 0 THEN None
                      ELSE RsiFrom(Wilder(Gains(s), RsiPeriod)[k], Wilder(Losses(s), RsiPeriod)[k])
  <1>1. i \in DOMAIN cs /\ i \in DOMAIN ds
    BY DEF Begins
  <1>2. RsiSeries(cs)[i] = at(cs) /\ RsiSeries(ds)[i] = at(ds)
    BY <1>1 DEF RsiSeries
  <1>3. CASE k < 0
    BY <1>2, <1>3
  <1>4. CASE ~(k < 0)
    <2>1. Len(cs) > 0 /\ Len(ds) > 0
      BY DEF Begins
    <2>2. Len(Gains(cs)) = Len(cs) - 1 /\ Len(Losses(cs)) = Len(cs) - 1
      BY <2>1, Moves
    <2>3. RsiPeriod \in Nat /\ RsiPeriod <= Len(cs) - 1 /\ k \in 0 .. (Len(cs) - 1) - RsiPeriod
      BY <1>4, Periods
    <2>4. /\ Gains(cs) \in Seq(Int) /\ Gains(ds) \in Seq(Int) /\ Begins(Gains(cs), Gains(ds))
          /\ Losses(cs) \in Seq(Int) /\ Losses(ds) \in Seq(Int) /\ Begins(Losses(cs), Losses(ds))
      BY <2>1, Moves, MovesAgree
    <2> HIDE DEF k
    <2>5. Wilder(Gains(ds), RsiPeriod)[k] = Wilder(Gains(cs), RsiPeriod)[k]
      <3>1. RsiPeriod <= Len(Gains(cs)) /\ k \in 0 .. Len(Gains(cs)) - RsiPeriod
        BY <2>2, <2>3
      <3> QED BY <2>3, <2>4, <3>1, WilderAgrees, Zenon
    <2>6. Wilder(Losses(ds), RsiPeriod)[k] = Wilder(Losses(cs), RsiPeriod)[k]
      <3>1. RsiPeriod <= Len(Losses(cs)) /\ k \in 0 .. Len(Losses(cs)) - RsiPeriod
        BY <2>2, <2>3
      <3> QED BY <2>3, <2>4, <3>1, WilderAgrees, Zenon
    <2> QED BY <1>2, <2>5, <2>6, Zenon
  <1> QED BY <1>3, <1>4

LEMMA SeriesEndsInRsi ==
  ASSUME NEW cs \in Seq(Int), Len(cs) > 0
  PROVE  RsiSeries(cs)[Len(cs)] = Rsi(cs)
  <1> DEFINE n == Len(cs)
  <1>1. n \in DOMAIN cs /\ n \in Nat
    OBVIOUS
  <1>2. (n - 1 - RsiPeriod < 0) <=> (n < RsiPeriod + 1)
    BY <1>1, Periods
  <1> QED BY <1>1, <1>2 DEF RsiSeries, Rsi

LEMMA EarlierRsi ==
  ASSUME NEW cs \in Seq(Int), NEW m \in 1 .. Len(cs)
  PROVE  Rsi(Until(cs, m)) = RsiSeries(cs)[m]
  <1>1. Until(cs, m) \in Seq(Int) /\ Len(Until(cs, m)) = m
        /\ \A i \in 1 .. m : Until(cs, m)[i] = cs[i]
    BY UntilIs
  <1>2. Begins(Until(cs, m), cs) /\ m \in 1 .. Len(Until(cs, m)) /\ Len(Until(cs, m)) > 0
    BY <1>1 DEF Begins
  <1>3. RsiSeries(Until(cs, m))[m] = RsiSeries(cs)[m]
    BY <1>1, <1>2, SeriesAgrees
  <1>4. RsiSeries(Until(cs, m))[m] = Rsi(Until(cs, m))
    BY <1>1, <1>2, SeriesEndsInRsi
  <1> QED BY <1>3, <1>4

(* One more candle adds one RSI to the series and changes none.            *)
LEMMA SeriesGrows ==
  ASSUME NEW cs \in Seq(Int), NEW c \in Int
  PROVE  RsiSeries(Append(cs, c)) = Append(RsiSeries(cs), Rsi(Append(cs, c)))
  <1> DEFINE ds == Append(cs, c)
             n == Len(cs)
             was == RsiSeries(cs)
             is == RsiSeries(ds)
             R == {was[i] : i \in 1 .. n} \cup {Rsi(ds)}
  <1>1. /\ ds \in Seq(Int) /\ n \in Nat /\ Len(ds) = n + 1 /\ DOMAIN ds = 1 .. n + 1 /\ DOMAIN cs = 1 .. n
        /\ \A i \in 1 .. n : ds[i] = cs[i]
    OBVIOUS
  <1>2. DOMAIN was = 1 .. n /\ DOMAIN is = 1 .. n + 1
        /\ was = [i \in 1 .. n |-> was[i]] /\ is = [i \in 1 .. n + 1 |-> is[i]]
    BY <1>1 DEF RsiSeries
  <1>3. ASSUME NEW i \in 1 .. n PROVE is[i] = was[i]
    <2>1. Begins(cs, ds)
      BY <1>1 DEF Begins
    <2> QED BY <1>1, <2>1, SeriesAgrees, Zenon
  <1>4. is[n + 1] = Rsi(ds)
    <2>1. Len(ds) > 0
      BY <1>1
    <2>2. RsiSeries(ds)[Len(ds)] = Rsi(ds)
      BY <1>1, <2>1, SeriesEndsInRsi, Zenon
    <2> QED BY <1>1, <2>2, Zenon
  <1>5. was \in Seq(R) /\ Len(was) = n /\ Rsi(ds) \in R
    <2>1. was \in [1 .. n -> R]
      BY <1>2
    <2> HIDE DEF was, R, ds
    <2>2. was \in Seq(R) /\ Len(was) = n
      BY <1>1, <2>1, FromFunction, Zenon
    <2> QED BY <2>2 DEF R
  <1>6. Append(was, Rsi(ds)) = [i \in 1 .. n + 1 |-> IF i <= n THEN was[i] ELSE Rsi(ds)]
    <2> HIDE DEF was, R, ds
    <2>1. Append(was, Rsi(ds)) = [i \in 1 .. Len(was) + 1 |-> IF i <= Len(was) THEN was[i] ELSE Rsi(ds)]
      BY ONLY <1>5, AppendIs
    <2> QED BY <1>5, <2>1, Zenon
  <1>7. \A i \in 1 .. n + 1 : is[i] = IF i <= n THEN was[i] ELSE Rsi(ds)
    <2> HIDE DEF was, is, R, ds
    <2> QED BY <1>1, <1>3, <1>4
  <1> HIDE DEF was, is, R, ds
  <1>8. is = Append(was, Rsi(ds))
    BY <1>2, <1>6, <1>7
  <1> QED BY <1>8 DEF was, is, ds

-----------------------------------------------------------------------------
(* What the settings are, and the candles that are printed.                *)

Candles == [open : Int, close : Nat, volume : Nat, high : Int, low : Int]

LEMMA Config ==
  /\ Shapes \subseteq [body : Int, upper : Nat, lower : Nat, volume : Nat]
  /\ StartPrice \in Int /\ FourHours \in Nat \ {0} /\ Day \in Nat \ {0} /\ LoadLimit \in Nat \ {0}
  /\ Weights \in [Factors -> 0 .. 100]
  /\ Levels \in [Names -> Seq(Int)] /\ Points \in [Names -> Seq(Int)]
  /\ \A name \in Names : Len(Levels[name]) = Len(Points[name])
  /\ MinSignalScore \in Int /\ Normal \in Int /\ Strong \in Int /\ VeryStrong \in Int
  /\ RiskOn \in Int /\ RiskOff \in Int
  <1> USE ScoringAssumption
  <1>1. Shapes \subseteq [body : Int, upper : Nat, lower : Nat, volume : Nat]
        /\ Weights \in [Factors -> 0 .. 100]
        /\ \A name \in Names : Len(Levels[name]) = Len(Points[name])
    BY Zenon
  <1>2. StartPrice \in Int /\ FourHours \in Nat \ {0} /\ Day \in Nat \ {0} /\ LoadLimit \in Nat \ {0}
    BY {StartPrice, MaxHours} \subseteq Nat, {FourHours, Day, LoadLimit} \subseteq Nat \ {0}
  <1>3. Levels \in [Names -> Seq(Int)] /\ Points \in [Names -> Seq(Int)]
    BY {Levels, Points} \subseteq [Names -> Seq(Int)], Zenon
  <1>4. /\ MinSignalScore \in Int /\ Normal \in Int /\ Strong \in Int /\ VeryStrong \in Int
        /\ RiskOn \in Int /\ RiskOff \in Int
    BY {MinSignalScore, Normal, Strong, VeryStrong, RiskOn, RiskOff} \subseteq Int, Zenon
  <1> QED BY <1>1, <1>2, <1>3, <1>4

LEMMA PrintedTyped ==
  ASSUME NEW close \in Int, NEW shape \in Shapes, Printed(close, shape).low > 0
  PROVE  Printed(close, shape) \in Candles
  <1> DEFINE to == close + shape.body
  <1>1. shape.body \in Int /\ shape.upper \in Nat /\ shape.lower \in Nat /\ shape.volume \in Nat
    BY Config
  <1>2. to \in Int
    BY <1>1
  <1> HIDE DEF to
  <1>3. Max({close, to}) \in {close, to} /\ Min({close, to}) \in {close, to} /\ Min({close, to}) <= to
    BY <1>2, MaxOfTwo, MinOfTwo, Zenon
  <1> DEFINE top == Max({close, to}) + shape.upper
             low == Min({close, to}) - shape.lower
  <1>4. top \in Int /\ low \in Int
    BY <1>1, <1>2, <1>3
  <1> HIDE DEF top, low
  <1>6. to \in Nat
    <2>1. Printed(close, shape).low = low
      BY DEF Printed, low, to
    <2>2. low > 0
      BY <2>1, Zenon
    <2> QED BY <1>1, <1>2, <1>3, <2>2 DEF low
  <1>5. [open |-> close, close |-> to, volume |-> shape.volume, high |-> top, low |-> low] \in Candles
    BY <1>1, <1>4, <1>6 DEF Candles
  <1> QED BY <1>5 DEF Printed, to, top, low

(* What is loaded of a list: its last candles, all of them while they are  *)
(* no more than the limit.                                                 *)
LEMMA LoadedIs ==
  ASSUME NEW S, NEW s \in Seq(S)
  PROVE  /\ Loaded(s) \in Seq(S) /\ Len(Loaded(s)) \in Nat /\ Len(s) \in Nat
         /\ Len(Loaded(s)) = IF Len(s) <= LoadLimit THEN Len(s) ELSE LoadLimit
         /\ \A i \in 1 .. Len(Loaded(s)) : Loaded(s)[i] = s[Len(s) - Len(Loaded(s)) + i]
         /\ Len(s) <= LoadLimit => Loaded(s) = s
  <1> DEFINE n == Len(s)
             from == Max({1, n - LoadLimit + 1})
             rest == SubSeq(s, from, n)
  <1>1. n \in Nat /\ LoadLimit \in Nat /\ LoadLimit > 0
    BY Config, LenProperties
  <1>2. from \in {1, n - LoadLimit + 1} /\ 1 <= from /\ n - LoadLimit + 1 <= from
    <2>1. 1 \in Int /\ n - LoadLimit + 1 \in Int
      BY <1>1
    <2> HIDE DEF n
    <2> QED BY <2>1, MaxOfTwo, Zenon
  <1> HIDE DEF from
  <1>3. from \in Int /\ \A j \in from .. n : s[j] \in S
    <2>1. from \in Int /\ \A j \in from .. n : j \in 1 .. n
      BY <1>1, <1>2
    <2> QED BY <2>1, ElementOfSeq
  <1>4. /\ rest \in Seq(S) /\ Len(rest) = (IF from <= n THEN n - from + 1 ELSE 0)
        /\ \A i \in 1 .. n - from + 1 : rest[i] = s[from + i - 1]
    BY <1>1, <1>3, SubSeqProperties
  <1>5. Loaded(s) = rest
    BY Zenon DEF Loaded, from
  <1> HIDE DEF rest
  <1>6. Len(rest) \in Nat /\ Len(rest) = IF n <= LoadLimit THEN n ELSE LoadLimit
    BY <1>1, <1>2, <1>4
  <1>7. \A i \in 1 .. Len(rest) : rest[i] = s[n - Len(rest) + i]
    <2> DEFINE l == Len(rest)
    <2>1. l \in Nat /\ n \in Nat /\ from \in Int /\ l = IF from <= n THEN n - from + 1 ELSE 0
      BY <1>1, <1>3, <1>4, <1>6
    <2> SUFFICES ASSUME NEW i \in 1 .. l PROVE rest[i] = s[n - l + i]
      OBVIOUS
    <2> HIDE DEF n, l
    <2>2. i \in Int /\ i >= 1 /\ i <= l
      BY <2>1
    <2>3. l = n - from + 1
      BY <2>1, <2>2
    <2>4. i \in 1 .. n - from + 1 /\ from + i - 1 = n - l + i
      BY <2>1, <2>2, <2>3
    <2> QED BY <1>4, <2>4
  <1>8. n <= LoadLimit => rest = s
    <2> SUFFICES ASSUME n <= LoadLimit PROVE rest = s
      OBVIOUS
    <2>1. Len(rest) = n /\ \A i \in 1 .. n : n - n + i = i
      BY <1>1, <1>6
    <2>2. \A i \in 1 .. Len(rest) : rest[i] = s[i]
      BY <1>7, <2>1
    <2> QED BY <1>4, <2>1, <2>2, SeqEqual
  <1> QED BY <1>1, <1>4, <1>5, <1>6, <1>7, <1>8

LEMMA Closes ==
  ASSUME NEW hours \in Seq(Candles)
  PROVE  /\ Column(hours, "close") \in Seq(Int)
         /\ Len(Column(hours, "close")) = Len(hours)
         /\ \A i \in 1 .. Len(hours) : Column(hours, "close")[i] = hours[i].close
  <1>1. DOMAIN hours = 1 .. Len(hours) /\ Len(hours) \in Nat
    BY LenProperties
  <1>2. \A i \in 1 .. Len(hours) : Column(hours, "close")[i] = hours[i].close
    BY <1>1 DEF Column
  <1>3. \A i \in 1 .. Len(hours) : hours[i].close \in Int
    <2> SUFFICES ASSUME NEW i \in 1 .. Len(hours) PROVE hours[i].close \in Int
      OBVIOUS
    <2>1. hours[i] \in Candles
      BY ElementOfSeq
    <2> QED BY <2>1 DEF Candles
  <1>4. Column(hours, "close") \in [1 .. Len(hours) -> Int]
    BY <1>1, <1>3 DEF Column
  <1> QED BY <1>1, <1>2, <1>4, FromFunction

LEMMA ClosesGrow ==
  ASSUME NEW hours \in Seq(Candles), NEW candle \in Candles
  PROVE  Column(Append(hours, candle), "close") = Append(Column(hours, "close"), candle.close)
  <1> DEFINE more == Append(hours, candle)
             was == Column(hours, "close")
             is == Column(more, "close")
  <1>1. more \in Seq(Candles) /\ Len(more) = Len(hours) + 1 /\ Len(hours) \in Nat
        /\ \A i \in 1 .. Len(hours) : more[i] = hours[i]
    OBVIOUS
  <1>2. more[Len(hours) + 1] = candle
    OBVIOUS
  <1> HIDE DEF more
  <1>3. /\ was \in Seq(Int) /\ Len(was) = Len(hours) /\ is \in Seq(Int) /\ Len(is) = Len(hours) + 1
        /\ \A i \in 1 .. Len(hours) : was[i] = hours[i].close
        /\ \A i \in 1 .. Len(hours) + 1 : is[i] = more[i].close
    <2>1. was \in Seq(Int) /\ Len(was) = Len(hours) /\ \A i \in 1 .. Len(hours) : was[i] = hours[i].close
      BY Closes, Zenon
    <2>2. is \in Seq(Int) /\ Len(is) = Len(more) /\ \A i \in 1 .. Len(more) : is[i] = more[i].close
      BY <1>1, Closes, Zenon
    <2> QED BY <1>1, <2>1, <2>2
  <1>4. candle.close \in Int
    BY DEF Candles
  <1> HIDE DEF was, is
  <1> DEFINE put == Append(was, candle.close)
  <1>5. put \in Seq(Int) /\ Len(put) = Len(hours) + 1
    BY <1>3, <1>4
  <1>6. ASSUME NEW i \in 1 .. Len(hours) + 1 PROVE put[i] = is[i]
    <2>1. CASE i \in 1 .. Len(hours)
      <3>1. put[i] = was[i]
        BY <1>3, <1>4, <2>1
      <3>2. is[i] = more[i].close /\ was[i] = hours[i].close /\ more[i] = hours[i]
        BY <1>1, <1>3, <2>1
      <3> QED BY <3>1, <3>2
    <2>2. CASE i = Len(hours) + 1
      <3>1. put[i] = candle.close
        BY <1>3, <1>4, <2>2
      <3>2. is[i] = more[i].close
        BY <1>3
      <3> QED BY <1>2, <2>2, <3>1, <3>2, Zenon
    <2>3. i \in 1 .. Len(hours) \/ i = Len(hours) + 1
      BY <1>1
    <2> QED BY <2>1, <2>2, <2>3, Zenon
  <1> HIDE DEF put
  <1>7. put = is
    BY <1>3, <1>5, <1>6, SeqEqual
  <1> QED BY <1>7 DEF put, is, was, more

-----------------------------------------------------------------------------
(* The candles are typed, and while all are loaded their series is what    *)
(* the scans read.                                                         *)
Read ==
  /\ hourly \in Seq(Candles)
  /\ Len(hourly) <= LoadLimit => RsiSeries(Column(hourly, "close")) = rsis

LEMMA ReadStart == Init => Read
  <1> SUFFICES ASSUME Init PROVE Read
    OBVIOUS
  <1>1. hourly = <<>> /\ rsis = <<>>
    BY DEF Init
  <1>2. hourly \in Seq(Candles)
    BY <1>1
  <1>3. DOMAIN hourly = {} /\ DOMAIN rsis = {}
    BY <1>1
  <1>4. DOMAIN Column(hourly, "close") = {}
    BY <1>3 DEF Column
  <1>5. DOMAIN RsiSeries(Column(hourly, "close")) = {}
    BY <1>4 DEF RsiSeries
  <1>6. RsiSeries(Column(hourly, "close")) = <<>>
    BY <1>4, <1>5 DEF RsiSeries
  <1> QED BY <1>1, <1>2, <1>6 DEF Read

LEMMA HourAdds ==
  ASSUME Read, NEW shape \in Shapes, Hour(shape)
  PROVE  \E candle \in Candles :
           /\ hourly' = Append(hourly, candle)
           /\ rsis' = Append(rsis, Rsi(Column(Loaded(hourly'), "close")))
  <1> DEFINE close == IF Len(hourly) = 0 THEN StartPrice ELSE hourly[Len(hourly)].close
             candle == Printed(close, shape)
  <1>1. close \in Int
    <2>1. hourly \in Seq(Candles)
      BY DEF Read
    <2>2. CASE Len(hourly) = 0
      BY <2>2, Config
    <2>3. CASE Len(hourly) # 0
      <3>1. Len(hourly) \in 1 .. Len(hourly)
        BY <2>1, <2>3
      <3>2. hourly[Len(hourly)] \in Candles
        BY <2>1, <3>1, ElementOfSeq, Zenon
      <3> QED BY <2>3, <3>2 DEF Candles
    <2> QED BY <2>2, <2>3
  <1> HIDE DEF close
  <1>2. candle \in Candles
    <2>1. candle.low > 0
      BY Zenon DEF Hour, candle, close
    <2> QED BY <1>1, <2>1, PrintedTyped
  <1>3. hourly' = Append(hourly, candle)
    BY Zenon DEF Hour, candle, close
  <1>4. rsis' = Append(rsis, Rsi(Column(Loaded(hourly'), "close")))
    <2>1. rsis' = Append(rsis, Rsi(Column(Loaded(Append(hourly, candle)), "close")))
      BY Zenon DEF Hour, candle, close
    <2> QED BY <1>3, <2>1, Zenon
  <1> QED BY <1>2, <1>3, <1>4, Zenon

LEMMA ReadStep == Read /\ [Next]_vars => Read'
  <1> SUFFICES ASSUME Read, [Next]_vars PROVE Read'
    OBVIOUS
  <1>1. ASSUME NEW shape \in Shapes, Hour(shape) PROVE Read'
    <2>1. PICK candle \in Candles :
            /\ hourly' = Append(hourly, candle)
            /\ rsis' = Append(rsis, Rsi(Column(Loaded(hourly'), "close")))
      BY <1>1, HourAdds, Zenon
    <2>2. /\ hourly \in Seq(Candles)
          /\ Len(hourly) <= LoadLimit => RsiSeries(Column(hourly, "close")) = rsis
      BY Zenon DEF Read
    <2>3. hourly' \in Seq(Candles)
      BY <2>1, <2>2
    <2>4. Column(hourly', "close") = Append(Column(hourly, "close"), candle.close)
      BY <2>1, <2>2, ClosesGrow, Zenon
    <2>5. Column(hourly, "close") \in Seq(Int) /\ candle.close \in Int
      <3>1. candle.close \in Int
        BY DEF Candles
      <3> QED BY <2>2, <3>1, Closes, Zenon
    <2>6. ASSUME Len(hourly') <= LoadLimit
          PROVE  RsiSeries(Column(hourly', "close")) = rsis'
      <3>1. Len(hourly) <= LoadLimit
        <4>1. Len(hourly') = Len(hourly) + 1 /\ Len(hourly) \in Nat
          BY <2>1, <2>2
        <4> QED BY <2>6, <4>1, Config
      <3>2. Loaded(hourly') = hourly'
        BY <2>3, <2>6, LoadedIs, Zenon
      <3> QED BY <2>1, <2>2, <2>4, <2>5, <3>1, <3>2, SeriesGrows, Zenon
    <2> QED BY <2>3, <2>6, Zenon DEF Read
  <1>2. CASE UNCHANGED vars
    BY <1>2 DEF Read, vars
  <1> QED BY <1>1, <1>2, Zenon DEF Next

LEMMA Reads == Spec => []Read
  <1> QED BY ReadStart, ReadStep, PTL DEF Spec

LEMMA ReadAgrees == Read => ReadingsAgree
  <1> SUFFICES ASSUME Read PROVE ReadingsAgree
    OBVIOUS
  <1> DEFINE closes == Column(Loaded(hourly), "close")
             n == Len(closes)
  <1>1. hourly \in Seq(Candles) /\ Loaded(hourly) \in Seq(Candles)
    <2>1. hourly \in Seq(Candles)
      BY Zenon DEF Read
    <2> QED BY <2>1, LoadedIs, Zenon
  <1>2. closes \in Seq(Int)
    BY <1>1, Closes, Zenon
  <1>3. Len(hourly) <= LoadLimit => RsiSeries(closes) = rsis
    <2> SUFFICES ASSUME Len(hourly) <= LoadLimit PROVE RsiSeries(closes) = rsis
      OBVIOUS
    <2>1. Loaded(hourly) = hourly
      BY <1>1, LoadedIs, Zenon
    <2> QED BY <2>1, Zenon DEF Read
  <1> HIDE DEF closes
  <1>4. n \in Nat
    BY <1>2, LenProperties
  <1> HIDE DEF n
  <1>5. ASSUME NEW i \in 1 .. n PROVE RsiSeries(closes)[i] = Rsi(Until(closes, i))
    BY <1>2, EarlierRsi, Zenon DEF n
  <1>6. ASSUME DetectRsiRecovery(closes)
        PROVE  /\ ~AtMost(RsiSeries(closes)[n], Oversold)
               /\ \E i \in n - RsiLookback + 1 .. n - 1 : AtMost(RsiSeries(closes)[i], Oversold)
    <2>1. /\ n >= RsiPeriod + RsiLookback /\ ~AtMost(Rsi(closes), Oversold)
          /\ \E k \in 1 .. RsiLookback - 1 : AtMost(Rsi(Until(closes, n - k)), Oversold)
      BY <1>6, Zenon DEF DetectRsiRecovery, n
    <2>2. n > 0
      BY <1>4, <2>1, Periods
    <2>3. RsiSeries(closes)[n] = Rsi(closes)
      BY <1>2, <2>2, SeriesEndsInRsi, Zenon DEF n
    <2>4. PICK k \in 1 .. RsiLookback - 1 : AtMost(Rsi(Until(closes, n - k)), Oversold)
      BY <2>1
    <2>5. n - k \in 1 .. n /\ n - k \in n - RsiLookback + 1 .. n - 1
      BY <1>4, <2>1, Periods
    <2> QED BY <1>5, <2>1, <2>3, <2>4, <2>5, Zenon
  <1>7. /\ \A i \in 1 .. n : RsiSeries(closes)[i] = Rsi(Until(closes, i))
        /\ DetectRsiRecovery(closes) =>
             /\ ~AtMost(RsiSeries(closes)[n], Oversold)
             /\ \E i \in n - RsiLookback + 1 .. n - 1 : AtMost(RsiSeries(closes)[i], Oversold)
    BY <1>5, <1>6, Zenon
  <1> QED BY <1>3, <1>7, Zenon DEF ReadingsAgree, closes, n

(* The RSI series of the list a scan loads agrees everywhere with the RSI  *)
(* of its beginnings (rsi_series and detect_rsi_recovery against rsi), for *)
(* every market, period and load limit; and with what earlier scans read   *)
(* for as long as nothing has left the list.                               *)
THEOREM ReadingsCoincide == Spec => []ReadingsAgree
  BY Reads, ReadAgrees, PTL

-----------------------------------------------------------------------------
(* Days, and the lows among them.                                          *)

LEMMA Division ==
  ASSUME NEW m \in Nat \ {0}, NEW n \in Nat
  PROVE  /\ n \div m \in Nat
         /\ m * (n \div m) <= n /\ n < m * (n \div m) + m
  OBVIOUS

LEMMA PartsFit ==
  ASSUME NEW m \in Nat \ {0}, NEW n \in Nat, NEW i \in 1 .. n \div m
  PROVE  /\ (i - 1) * m + 1 \in Nat /\ (i - 1) * m + 1 > 0 /\ i * m \in Nat
         /\ i * m <= n /\ i * m - ((i - 1) * m + 1) + 1 = m
  <1>1. i \in Nat /\ i - 1 \in Nat /\ m \in Nat
    BY Division
  <1>2. \A a, b, c \in Nat : a <= b => a * c <= b * c
    OBVIOUS
  <1>3. i * m <= (n \div m) * m
    BY <1>1, <1>2, Division
  <1>4. (n \div m) * m = m * (n \div m)
    BY Division
  <1>5. (i - 1) * m \in Nat /\ i * m = (i - 1) * m + m
    BY <1>1
  <1>6. n \div m \in Nat /\ (n \div m) * m \in Nat
    BY Division
  <1> QED BY <1>1, <1>3, <1>4, <1>5, <1>6, Division

LEMMA DaysGrow ==
  ASSUME NEW m \in Nat \ {0}, NEW n \in Nat
  PROVE  (n + 1) \div m \in {n \div m, n \div m + 1}
  <1> DEFINE a == n \div m
             b == (n + 1) \div m
  <1>1. a \in Nat /\ m * a <= n /\ n < m * a + m
    BY Division
  <1>2. b \in Nat /\ m * b <= n + 1 /\ n + 1 < m * b + m
    BY Division, n + 1 \in Nat
  <1> HIDE DEF a, b
  <1>3. m * a < m * (b + 1) /\ m * b < m * (a + 2)
    BY <1>1, <1>2
  <1>4. \A x, y \in Nat : m * x < m * y => x < y
    OBVIOUS
  <1>5. a < b + 1 /\ b < a + 2
    BY <1>1, <1>2, <1>3, <1>4
  <1> QED BY <1>1, <1>2, <1>5 DEF a, b

LEMMA PartsStay ==
  ASSUME NEW hours \in Seq(Candles), NEW candle \in Candles, NEW m \in Nat \ {0},
         NEW i \in 1 .. Len(hours) \div m
  PROVE  SubSeq(Append(hours, candle), (i - 1) * m + 1, i * m) = SubSeq(hours, (i - 1) * m + 1, i * m)
  <1> DEFINE more == Append(hours, candle)
             from == (i - 1) * m + 1
             to == i * m
  <1>1. Len(hours) \in Nat /\ from \in Nat /\ from > 0 /\ to \in Nat /\ to <= Len(hours)
    BY PartsFit, LenProperties
  <1>2. \A j \in 1 .. Len(hours) : more[j] = hours[j] /\ hours[j] \in Candles
    BY ElementOfSeq
  <1> HIDE DEF more, from, to
  <1>3. \A j \in from .. to : more[j] = hours[j] /\ hours[j] \in Candles
    BY <1>1, <1>2
  <1> DEFINE a == SubSeq(more, from, to)
             b == SubSeq(hours, from, to)
  <1>4. from \in Int /\ to \in Int /\ \A j \in from .. to : more[j] \in Candles
    BY <1>1, <1>3
  <1>5. /\ a \in Seq(Candles) /\ Len(a) = (IF from <= to THEN to - from + 1 ELSE 0)
        /\ \A j \in 1 .. to - from + 1 : a[j] = more[from + j - 1]
    BY <1>4, SubSeqProperties
  <1>6. /\ b \in Seq(Candles) /\ Len(b) = (IF from <= to THEN to - from + 1 ELSE 0)
        /\ \A j \in 1 .. to - from + 1 : b[j] = hours[from + j - 1]
    BY <1>3, <1>4, SubSeqProperties
  <1> HIDE DEF a, b
  <1>7. \A j \in 1 .. Len(a) : j \in 1 .. to - from + 1 /\ from + j - 1 \in from .. to
    BY <1>1, <1>5
  <1>8. \A j \in 1 .. Len(a) : a[j] = b[j]
    BY <1>3, <1>5, <1>6, <1>7
  <1>9. a = b
    BY <1>5, <1>6, <1>8, SeqEqual
  <1> QED BY <1>9 DEF a, b, more, from, to

LEMMA DaysStay ==
  ASSUME NEW hours \in Seq(Candles), NEW candle \in Candles
  PROVE  LET was == Every(Day, hours) is == Every(Day, Append(hours, candle)) IN
         /\ Len(was) = Len(hours) \div Day /\ Len(was) \in Nat
         /\ Len(is) = (Len(hours) + 1) \div Day /\ Len(is) \in {Len(was), Len(was) + 1}
         /\ \A i \in 1 .. Len(was) : was[i] = is[i]
         /\ (\E S : was \in Seq(S)) /\ (\E S : is \in Seq(S))
  <1> DEFINE more == Append(hours, candle)
             was == Every(Day, hours)
             is == Every(Day, more)
             day(part) == [open |-> part[1].open, close |-> part[Day].close,
                           high |-> Max({part[j].high : j \in 1 .. Day}),
                           low |-> Min({part[j].low : j \in 1 .. Day}),
                           volume |-> Total(Column(part, "volume"))]
             at(hs, i) == SubSeq(hs, (i - 1) * Day + 1, i * Day)
             a == Len(hours) \div Day
             b == (Len(hours) + 1) \div Day
  <1>1. Len(hours) \in Nat /\ Len(more) = Len(hours) + 1 /\ Day \in Nat \ {0}
    BY Config
  <1>2. a \in Nat /\ b \in Nat /\ b \in {a, a + 1}
    <2>1. Len(hours) + 1 \in Nat
      BY <1>1
    <2>2. a \in Nat /\ b \in Nat
      BY <1>1, <2>1, Division, Zenon
    <2>3. b \in {a, a + 1}
      BY <1>1, DaysGrow, Zenon
    <2> QED BY <2>2, <2>3
  <1>3. was = [i \in 1 .. a |-> day(at(hours, i))] /\ is = [i \in 1 .. b |-> day(at(more, i))]
    <2>1. was = [i \in 1 .. a |-> day(at(hours, i))]
      BY Zenon DEF Every
    <2>2. is = [i \in 1 .. Len(more) \div Day |-> day(at(more, i))]
      BY Zenon DEF Every
    <2> QED BY <1>1, <2>1, <2>2, Zenon
  <1>4. ASSUME NEW i \in 1 .. a PROVE at(hours, i) = at(more, i)
    BY <1>1, <1>4, PartsStay
  <1> HIDE DEF more, was, is, day, at, a, b
  <1>5. \A i \in 1 .. a : was[i] = is[i]
    <2> SUFFICES ASSUME NEW i \in 1 .. a PROVE was[i] = is[i]
      OBVIOUS
    <2>1. i \in 1 .. b
      BY <1>2
    <2>2. was[i] = day(at(hours, i))
      BY <1>3
    <2>3. is[i] = day(at(more, i))
      BY <1>3, <2>1
    <2> QED BY <1>4, <2>2, <2>3, Zenon
  <1>6. Len(was) = a /\ \E S : was \in Seq(S)
    <2>1. was \in [1 .. a -> {was[i] : i \in 1 .. a}]
      BY <1>3
    <2> QED BY <1>2, <2>1, FromFunction
  <1>7. Len(is) = b /\ \E S : is \in Seq(S)
    <2>1. is \in [1 .. b -> {is[i] : i \in 1 .. b}]
      BY <1>3
    <2> QED BY <1>2, <2>1, FromFunction
  <1>8. Len(was) = a /\ Len(was) \in Nat /\ Len(is) = b /\ Len(is) \in {Len(was), Len(was) + 1}
        /\ \A i \in 1 .. Len(was) : was[i] = is[i]
    BY <1>2, <1>5, <1>6, <1>7
  <1>9. \E S : Every(Day, hours) \in Seq(S)
    BY <1>6, Zenon DEF was
  <1>10. \E S : Every(Day, Append(hours, candle)) \in Seq(S)
    BY <1>7, Zenon DEF is, more
  <1>11. LET ws == Every(Day, hours) iz == Every(Day, Append(hours, candle)) IN
         /\ Len(ws) = Len(hours) \div Day /\ Len(ws) \in Nat
         /\ Len(iz) = (Len(hours) + 1) \div Day /\ Len(iz) \in {Len(ws), Len(ws) + 1}
         /\ \A i \in 1 .. Len(ws) : ws[i] = iz[i]
    BY <1>8, Zenon DEF was, is, more, a, b
  <1> HIDE DEF Every
  <1> QED BY <1>9, <1>10, <1>11, Zenon

(* The swing lows of the last b days.                                      *)
LowsWithin(days, b) ==
  LET n == Len(days) IN
  {i \in Max({0, n - b}) + 1 + SwingWindow .. n - SwingWindow :
     \A j \in (i - SwingWindow .. i + SwingWindow) \ {i} : days[i].low < days[j].low}

(* A longer list of days keeps the lows of a shorter one, but for those    *)
(* that leave the lookback, and gains at most the one it confirms.         *)
LEMMA LowsStay ==
  ASSUME NEW b \in Nat, NEW ys, NEW xs, Len(ys) \in Nat, Len(xs) \in {Len(ys), Len(ys) + 1},
         \A i \in 1 .. Len(ys) : ys[i] = xs[i]
  PROVE  /\ LowsWithin(xs, b) \ LowsWithin(ys, b) \subseteq {Len(xs) - SwingWindow}
         /\ LowsWithin(ys, b) \ LowsWithin(xs, b) \subseteq 1 .. Len(xs) - b + SwingWindow
  <1> DEFINE m == Len(ys)
             n == Len(xs)
             past == Max({0, m - b})
             now == Max({0, n - b})
             W == SwingWindow
             Low(days, i) == \A j \in (i - W .. i + W) \ {i} : days[i].low < days[j].low
  <1>1. W \in Nat /\ W > 0 /\ b \in Nat /\ m \in Nat /\ n \in Nat /\ n \in {m, m + 1}
    BY Periods
  <1>2. LowsWithin(ys, b) = {i \in past + 1 + W .. m - W : Low(ys, i)}
        /\ LowsWithin(xs, b) = {i \in now + 1 + W .. n - W : Low(xs, i)}
    BY Zenon DEF LowsWithin
  <1>3. /\ past \in {0, m - b} /\ 0 <= past /\ m - b <= past
        /\ now \in {0, n - b} /\ 0 <= now /\ n - b <= now
    <2>1. 0 \in Int /\ m - b \in Int /\ n - b \in Int
      BY <1>1
    <2> HIDE DEF m, n
    <2>2. past \in {0, m - b} /\ 0 <= past /\ m - b <= past
      BY <2>1, MaxOfTwo, Zenon
    <2>3. now \in {0, n - b} /\ 0 <= now /\ n - b <= now
      BY <2>1, MaxOfTwo, Zenon
    <2> QED BY <2>2, <2>3
  <1>4. ASSUME NEW i \in past + 1 + W .. m - W PROVE Low(ys, i) <=> Low(xs, i)
    <2> HIDE DEF m, n, past, now, W
    <2>0. past \in Int
      BY <1>1, <1>3
    <2>1. i \in 1 .. m /\ i - W .. i + W \subseteq 1 .. m
      BY <1>1, <1>3, <2>0
    <2>2. ys[i] = xs[i] /\ \A j \in i - W .. i + W : ys[j] = xs[j]
      BY <2>1 DEF m
    <2> QED BY <2>2, Zenon
  <1> HIDE DEF Low, m, n, past, now, W
  <1>5. ASSUME NEW i \in LowsWithin(xs, b), i \notin LowsWithin(ys, b) PROVE i = n - W
    <2>1. i \in now + 1 + W .. n - W /\ Low(xs, i)
      BY <1>2, <1>5
    <2>2. CASE i \in past + 1 + W .. m - W
      BY <1>2, <1>4, <1>5, <2>1, <2>2
    <2>3. CASE i \notin past + 1 + W .. m - W
      BY <1>1, <1>3, <2>1, <2>3
    <2> QED BY <2>2, <2>3
  <1>6. ASSUME NEW i \in LowsWithin(ys, b), i \notin LowsWithin(xs, b)
        PROVE  i \in 1 .. n - b + W
    <2>1. i \in past + 1 + W .. m - W /\ Low(ys, i)
      BY <1>2, <1>6
    <2>2. i \notin now + 1 + W .. n - W
      <3>1. Low(xs, i)
        BY <1>4, <2>1
      <3> QED BY <1>2, <1>6, <3>1
    <2> QED BY <1>1, <1>3, <2>1, <2>2
  <1> QED BY <1>5, <1>6 DEF m, n, W

(* Of a list of days a scan sees those in the lookback that are loaded.    *)
LEMMA SupportsWithin ==
  ASSUME NEW S, NEW days \in Seq(S)
  PROVE  {Len(days) - Len(Loaded(days)) + i : i \in SwingLows(Loaded(days))}
           = LowsWithin(days, Min({SupportLookback, LoadLimit}))
  <1> DEFINE part == Loaded(days)
             n == Len(days)
             l == Len(part)
             b == Min({SupportLookback, LoadLimit})
             W == SwingWindow
             start == Max({0, l - SupportLookback})
             past == Max({0, n - b})
             Low(ds, i) == \A j \in (i - W .. i + W) \ {i} : ds[i].low < ds[j].low
             Shifted == {n - l + i : i \in SwingLows(part)}
  <1>1. /\ W \in Nat /\ W > 0 /\ SupportLookback \in Nat /\ SupportLookback > 0
        /\ LoadLimit \in Nat /\ LoadLimit > 0
    BY Periods, Config
  <1>2. /\ l \in Nat /\ n \in Nat /\ l = IF n <= LoadLimit THEN n ELSE LoadLimit
        /\ \A i \in 1 .. l : part[i] = days[n - l + i]
    BY LoadedIs, Zenon
  <1>3. /\ SwingLows(part) = {i \in start + 1 + W .. l - W : Low(part, i)}
        /\ LowsWithin(days, b) = {i \in past + 1 + W .. n - W : Low(days, i)}
    BY Zenon DEF SwingLows, LowsWithin
  <1> HIDE DEF part, n, l
  <1>4. b \in {SupportLookback, LoadLimit} /\ b <= SupportLookback /\ b <= LoadLimit
    <2>1. SupportLookback \in Int /\ LoadLimit \in Int
      BY <1>1
    <2> QED BY <2>1, MinOfTwo, Zenon
  <1> HIDE DEF b
  <1>5. start \in {0, l - SupportLookback} /\ 0 <= start /\ l - SupportLookback <= start
    <2>1. 0 \in Int /\ l - SupportLookback \in Int
      BY <1>1, <1>2
    <2> QED BY <2>1, MaxOfTwo, Zenon
  <1>6. past \in {0, n - b} /\ 0 <= past /\ n - b <= past
    <2>1. 0 \in Int /\ n - b \in Int
      BY <1>1, <1>2, <1>4
    <2> QED BY <2>1, MaxOfTwo, Zenon
  <1> HIDE DEF start, past, W
  <1>7. start \in Int /\ past = start + (n - l) /\ n - l \in Nat
    BY <1>1, <1>2, <1>4, <1>5, <1>6
  <1>8. ASSUME NEW i \in start + 1 + W .. l - W
        PROVE  Low(part, i) <=> Low(days, n - l + i)
    <2>1. i \in 1 .. l /\ i \in Int /\ i - W .. i + W \subseteq 1 .. l
      BY <1>1, <1>2, <1>5, <1>7
    <2>2. \A j \in i - W .. i + W : part[j] = days[n - l + j]
      BY <1>2, <2>1
    <2>3. part[i] = days[n - l + i]
      BY <1>2, <2>1
    <2> DEFINE c == n - l
               at == c + i
               D == (i - W .. i + W) \ {i}
               E == (at - W .. at + W) \ {at}
    <2>4. c \in Nat /\ at \in Int /\ at = c + i
      BY <1>7, <2>1
    <2>5. \A j \in D : part[j] = days[c + j]
      BY <2>2
    <2> HIDE DEF c, at
    <2>6. /\ \A j \in D : c + j \in E /\ part[j] = days[c + j]
          /\ \A k \in E : k - c \in D /\ c + (k - c) = k
      <3>1. \A j \in D : c + j \in E
        BY <1>1, <2>1, <2>4
      <3>2. \A k \in E : k - c \in D /\ c + (k - c) = k
        BY <1>1, <2>1, <2>4
      <3> HIDE DEF D, E
      <3> QED BY <2>5, <3>1, <3>2
    <2>7. part[i] = days[at]
      BY <2>3 DEF at, c
    <2>8. (\A j \in D : part[i].low < part[j].low) <=> (\A k \in E : days[at].low < days[k].low)
      <3> HIDE DEF D, E
      <3>1. part[i] = days[at]
        BY <2>7
      <3>2. ASSUME \A j \in D : part[i].low < part[j].low, NEW k \in E
            PROVE  days[at].low < days[k].low
        <4>1. k - c \in D /\ part[k - c] = days[c + (k - c)] /\ c + (k - c) = k
          BY <2>6
        <4>2. part[k - c] = days[k] /\ part[i].low < part[k - c].low
          BY <3>2, <4>1
        <4> QED BY <3>1, <4>2
      <3>3. ASSUME \A k \in E : days[at].low < days[k].low, NEW j \in D
            PROVE  part[i].low < part[j].low
        BY <2>6, <3>1, <3>3
      <3> QED BY <3>2, <3>3
    <2> QED BY <2>8 DEF at, c
  <1>9. ASSUME NEW k \in Shifted PROVE k \in LowsWithin(days, b)
    <2>1. PICK i \in start + 1 + W .. l - W : k = n - l + i /\ Low(part, i)
      BY <1>3
    <2>2. Low(days, k)
      BY <1>8, <2>1
    <2> HIDE DEF Low
    <2>3. k \in past + 1 + W .. n - W
      BY <1>1, <1>2, <1>7, <2>1
    <2> QED BY <1>3, <2>2, <2>3
  <1>10. ASSUME NEW k \in LowsWithin(days, b) PROVE k \in Shifted
    <2>1. k \in past + 1 + W .. n - W /\ Low(days, k)
      BY <1>3
    <2> DEFINE i == k - (n - l)
    <2>2. i \in start + 1 + W .. l - W /\ k = n - l + i
      BY <1>1, <1>2, <1>7, <2>1
    <2> HIDE DEF i
    <2>3. Low(part, i)
      BY <1>8, <2>1, <2>2
    <2> QED BY <1>3, <2>2, <2>3
  <1>11. Shifted = LowsWithin(days, b)
    <2> HIDE DEF Shifted
    <2> QED BY <1>9, <1>10
  <1> QED BY <1>11 DEF b, n, l, part

(* Support does not repaint: a new hour confirms at most one low of        *)
(* find_heuristic_support and drops only those that leave the lookback.    *)
THEOREM SupportIsSettled == Spec => SwingsStay
  <1>1. ASSUME Read, Next
        PROVE  LET was == Supports(hourly)
                   is == Supports(hourly')
                   n == Len(hourly') \div Day
                   left == 1 .. n - Min({SupportLookback, LoadLimit}) + SwingWindow IN
               /\ is \ was \subseteq {n - SwingWindow}
               /\ was \ is \subseteq left
    <2>1. PICK shape \in Shapes : Hour(shape)
      BY <1>1, Zenon DEF Next
    <2>2. PICK candle \in Candles : hourly' = Append(hourly, candle)
      BY <1>1, <2>1, HourAdds, Zenon
    <2>3. hourly \in Seq(Candles)
      BY <1>1, Zenon DEF Read
    <2> DEFINE ys == Every(Day, hourly)
               xs == Every(Day, hourly')
               n == Len(hourly') \div Day
               b == Min({SupportLookback, LoadLimit})
    <2>4. Len(hourly') = Len(hourly) + 1
      BY <2>2, <2>3
    <2>5. /\ Len(ys) \in Nat
          /\ Len(xs) = (Len(hourly) + 1) \div Day /\ Len(xs) \in {Len(ys), Len(ys) + 1}
          /\ \A i \in 1 .. Len(ys) : ys[i] = xs[i]
          /\ (\E S : ys \in Seq(S)) /\ (\E S : xs \in Seq(S))
      BY <2>2, <2>3, DaysStay, Zenon
    <2>6. Len(xs) = n
      BY <2>4, <2>5, Zenon
    <2>7. b \in Nat
      <3>1. SupportLookback \in Nat /\ LoadLimit \in Nat
        BY Periods, Config
      <3>2. b \in {SupportLookback, LoadLimit}
        BY <3>1, MinOfTwo
      <3> QED BY <3>1, <3>2
    <2> HIDE DEF ys, xs, n, b
    <2>8. Supports(hourly) = LowsWithin(ys, b) /\ Supports(hourly') = LowsWithin(xs, b)
      BY <2>5, SupportsWithin, Zenon DEF Supports, ys, xs, b
    <2>9. /\ LowsWithin(xs, b) \ LowsWithin(ys, b) \subseteq {Len(xs) - SwingWindow}
          /\ LowsWithin(ys, b) \ LowsWithin(xs, b) \subseteq 1 .. Len(xs) - b + SwingWindow
      BY <2>5, <2>7, LowsStay, Zenon
    <2> QED BY <2>6, <2>8, <2>9, Zenon DEF n, b
  <1>2. Read /\ [Next]_vars =>
          [LET was == Supports(hourly)
               is == Supports(hourly')
               n == Len(hourly') \div Day
               left == 1 .. n - Min({SupportLookback, LoadLimit}) + SwingWindow IN
           /\ is \ was \subseteq {n - SwingWindow}
           /\ was \ is \subseteq left]_hourly
    BY <1>1, Zenon DEF vars
  <1> QED BY <1>2, Reads, PTL DEF Spec, SwingsStay

-----------------------------------------------------------------------------
(* Points and their caps.                                                  *)

LEMMA HasGreatest ==
  ASSUME NEW T \in SUBSET Nat, NEW b \in Nat, T # {}, \A t \in T : t <= b
  PROVE  Max(T) \in T
  <1> DEFINE D == {b - t : t \in T}
  <1>1. D \in SUBSET Nat /\ D # {}
    <2>1. \A t \in T : b - t \in Nat
      OBVIOUS
    <2> QED BY <2>1
  <1>2. PICK m \in D : \A n \in D : m <= n
    <2> HIDE DEF D
    <2> QED BY <1>1, HasLeast
  <1>3. PICK x \in T : m = b - x
    BY <1>2
  <1>4. \A t \in T : b - x <= b - t
    BY <1>2, <1>3
  <1>5. \A t \in T : x >= t
    BY <1>4
  <1> QED BY <1>5 DEF Max

LEMMA HasSmallest ==
  ASSUME NEW T \in SUBSET Nat, T # {}
  PROVE  Min(T) \in T
  <1>1. PICK x \in T : \A t \in T : x <= t
    BY HasLeast
  <1> QED BY <1>1 DEF Min

(* No setting takes points away.  load_settings does not check this.       *)
PointsAreNatural == \A name \in Names : Points[name] \in Seq(Nat)

LEMMA TiersGivePoints ==
  ASSUME PointsAreNatural, NEW value, NEW name \in Names
  PROVE  /\ TierUp(value, name) \in Nat
         /\ TierDown(value, name) \in Nat
         /\ TierFirstMatch(value, name) \in Nat
  <1>1. /\ Points[name] \in Seq(Nat) /\ DOMAIN Levels[name] = 1 .. Len(Points[name])
        /\ Len(Points[name]) \in Nat
    <2>1. Levels[name] \in Seq(Int) /\ Len(Levels[name]) = Len(Points[name])
      BY Config
    <2>2. Points[name] \in Seq(Nat)
      BY DEF PointsAreNatural
    <2> QED BY <2>1, <2>2, LenProperties
  <1>2. ASSUME NEW met \in SUBSET DOMAIN Levels[name], met # {}
        PROVE  Points[name][Max(met)] \in Nat /\ Points[name][Min(met)] \in Nat
    <2>1. met \in SUBSET Nat /\ \A t \in met : t <= Len(Points[name])
      BY <1>1
    <2>2. Max(met) \in met /\ Min(met) \in met
      BY <1>1, <1>2, <2>1, HasGreatest, HasSmallest
    <2>3. Max(met) \in 1 .. Len(Points[name]) /\ Min(met) \in 1 .. Len(Points[name])
      BY <1>1, <2>2
    <2> QED BY <1>1, <2>3, ElementOfSeq, Zenon
  <1> DEFINE up == {i \in DOMAIN Levels[name] : AtLeast(value, Levels[name][i])}
             down == {i \in DOMAIN Levels[name] : AtMost(value, Levels[name][i])}
  <1>3. up \in SUBSET DOMAIN Levels[name] /\ down \in SUBSET DOMAIN Levels[name]
    OBVIOUS
  <1>4. TierUp(value, name) = (IF up = {} THEN 0 ELSE Points[name][Max(up)])
    BY Zenon DEF TierUp
  <1>5. TierDown(value, name) = (IF down = {} THEN 0 ELSE Points[name][Max(down)])
    BY Zenon DEF TierDown
  <1>6. TierFirstMatch(value, name)
          = IF down = {} \/ ~AtLeast(value, 0) THEN 0 ELSE Points[name][Min(down)]
    BY Zenon DEF TierFirstMatch
  <1> HIDE DEF up, down
  <1>7. 0 \in Nat
    OBVIOUS
  <1>8. TierUp(value, name) \in Nat
    BY <1>2, <1>3, <1>4, <1>7, Zenon
  <1>9. TierDown(value, name) \in Nat
    BY <1>2, <1>3, <1>5, <1>7, Zenon
  <1>10. TierFirstMatch(value, name) \in Nat
    BY <1>2, <1>3, <1>6, <1>7, Zenon
  <1> QED BY <1>8, <1>9, <1>10

LEMMA CapHolds ==
  ASSUME NEW raw \in Nat, NEW f \in Factors
  PROVE  Capped(raw, f) \in 0 .. Weights[f]
  <1>1. Weights[f] \in Nat
    <2>1. Weights[f] \in 0 .. 100
      BY Config
    <2> QED BY <2>1
  <1> DEFINE w == Weights[f]
  <1> HIDE DEF w
  <1>2. w \in Int /\ raw \in Int
    BY <1>1 DEF w
  <1>3. Min({raw, w}) \in {raw, w} /\ Min({raw, w}) <= raw /\ Min({raw, w}) <= w
    BY <1>2, MinOfTwo, Zenon
  <1>4. Min({raw, w}) \in 0 .. w
    BY <1>1, <1>3 DEF w
  <1> QED BY <1>4 DEF Capped, w

LEMMA BestOf ==
  ASSUME NEW scored \in [Horizons -> Nat]
  PROVE  Max({scored[h] : h \in Horizons}) \in Nat
  <1> DEFINE T == {scored[h] : h \in Horizons}
             b == scored["1h"] + scored["24h"] + scored["7d"] + scored["30d"] + scored["180d"]
  <1>1. scored["1h"] \in Nat /\ scored["24h"] \in Nat /\ scored["7d"] \in Nat
        /\ scored["30d"] \in Nat /\ scored["180d"] \in Nat
    BY DEF Horizons
  <1>2. b \in Nat /\ \A h \in Horizons : scored[h] <= b
    BY <1>1 DEF Horizons
  <1>3. T \in SUBSET Nat /\ T # {} /\ \A t \in T : t <= b
    BY <1>2 DEF Horizons
  <1> HIDE DEF T, b
  <1>4. Max(T) \in T
    BY <1>2, <1>3, HasGreatest
  <1>5. Max(T) \in Nat
    BY <1>3, <1>4
  <1> QED BY <1>5 DEF T

LEMMA SumsAreNatural ==
  ASSUME NEW a \in Nat, NEW b \in Nat PROVE a + b \in Nat
  OBVIOUS

LEMMA DropScored ==
  ASSUME PointsAreNatural, NEW hours, NEW daily
  PROVE  ScoreDropMagnitude(hours, daily) \in 0 .. Weights["drop"]
  <1> DEFINE drops == Drops(hours, daily)
             atr == Atr(hours)
             price == hours[Len(hours)].close
             scored(h) == TierUp(Normalized(drops[h], atr, price), DropName[h])
             best == [h \in Horizons |-> scored(h)]
  <1>1. \A h \in Horizons : DropName[h] \in Names
    BY DEF DropName, Horizons, Names
  <1>2. \A h \in Horizons : scored(h) \in Nat
    <2> SUFFICES ASSUME NEW h \in Horizons PROVE scored(h) \in Nat
      OBVIOUS
    <2> QED BY <1>1, TiersGivePoints, Zenon
  <1>3. ScoreDropMagnitude(hours, daily) = Capped(Max({scored(h) : h \in Horizons}), "drop")
    BY Zenon DEF ScoreDropMagnitude
  <1> HIDE DEF scored
  <1>4. best \in [Horizons -> Nat] /\ {scored(h) : h \in Horizons} = {best[h] : h \in Horizons}
    BY <1>2
  <1> HIDE DEF best
  <1>5. Max({scored(h) : h \in Horizons}) \in Nat
    BY <1>4, BestOf, Zenon
  <1>6. "drop" \in Factors
    BY DEF Factors
  <1> QED BY <1>3, <1>5, <1>6, CapHolds, Zenon

LEMMA TwoTiersScored ==
  ASSUME PointsAreNatural, NEW hours, NEW fours, NEW daily, NEW price
  PROVE  /\ ScoreRsiOversold(hours, fours) \in 0 .. Weights["rsi"]
         /\ ScoreDiscount(daily, price) \in 0 .. Weights["discount"]
  <1>1. {"rsi_1h", "rsi_4h", "discount_30d", "discount_180d"} \subseteq Names
        /\ "rsi" \in Factors /\ "discount" \in Factors
    BY DEF Names, Factors
  <1>2. "rsi_1h" \in Names /\ "rsi_4h" \in Names /\ "discount_30d" \in Names /\ "discount_180d" \in Names
    BY <1>1
  <1> DEFINE a == TierDown(Rsi(Column(hours, "close")), "rsi_1h")
             b == TierDown(Rsi(Column(fours, "close")), "rsi_4h")
             c == TierUp(DiscountPct(daily, price, DropDays["30d"]), "discount_30d")
             d == TierUp(DiscountPct(daily, price, DropDays["180d"]), "discount_180d")
  <1>3. a \in Nat /\ b \in Nat /\ c \in Nat /\ d \in Nat
    BY <1>2, TiersGivePoints, Zenon
  <1>4. ScoreRsiOversold(hours, fours) = Capped(a + b, "rsi")
        /\ ScoreDiscount(daily, price) = Capped(c + d, "discount")
    BY Zenon DEF ScoreRsiOversold, ScoreDiscount
  <1> HIDE DEF a, b, c, d
  <1>5. a + b \in Nat /\ c + d \in Nat
    BY <1>3
  <1> QED BY <1>1, <1>4, <1>5, CapHolds, Zenon

LEMMA PatternsScored ==
  ASSUME NEW hours, NEW daily
  PROVE  /\ ScoreReversal(hours) \in 0 .. Weights["reversal"]
         /\ ScoreTrend(daily) \in 0 .. Weights["trend"]
  <1>1. "reversal" \in Factors /\ "trend" \in Factors
    BY DEF Factors
  <1> DEFINE closes == Column(hours, "close")
             a == IF DetectReversal(hours) THEN 5 ELSE 0
             b == IF DetectRsiRecovery(closes) THEN 3 ELSE 0
             c == IF DetectHighReclaim(hours) THEN 2 ELSE 0
             d == IF DivergenceEnabled /\ DetectBullishDivergence(closes) THEN 2 ELSE 0
             label == TrendLabel(Column(daily, "close"))
             t == CASE label = "uptrend" -> 5 [] label = "sideways" -> 3 [] OTHER -> 0
  <1>2. ScoreReversal(hours) = Capped(a + b + c + d, "reversal")
    BY Zenon DEF ScoreReversal
  <1>3. ScoreTrend(daily) = Capped(t, "trend")
    BY Zenon DEF ScoreTrend
  <1>4. a \in Nat /\ b \in Nat /\ c \in Nat /\ d \in Nat
    <2>1. \A p \in BOOLEAN : (IF p THEN 5 ELSE 0) \in Nat /\ (IF p THEN 3 ELSE 0) \in Nat
                             /\ (IF p THEN 2 ELSE 0) \in Nat
      OBVIOUS
    <2>2. 5 \in Nat /\ 3 \in Nat /\ 2 \in Nat /\ 0 \in Nat
      OBVIOUS
    <2> QED BY <2>2, Zenon
  <1>5. t \in Nat
    <2> HIDE DEF label
    <2> QED OBVIOUS
  <1> HIDE DEF a, b, c, d, t
  <1>6. a + b + c + d \in Nat
    BY <1>4
  <1> QED BY <1>1, <1>2, <1>3, <1>5, <1>6, CapHolds, Zenon

LEMMA PartsBounded ==
  ASSUME PointsAreNatural, NEW history
  PROVE  /\ ScoreSignal(history) = [f \in Factors |-> ScoreSignal(history)[f]]
         /\ \A f \in Factors : ScoreSignal(history)[f] \in 0 .. Weights[f]
  <1> DEFINE hours == Loaded(history)
             daily == Loaded(Every(Day, history))
             price == hours[Len(hours)].close
             fours == Loaded(Every(FourHours, history))
             v == Capped(TierUp(RelativeVolume(Column(hours, "volume")), "rel_volume"), "volume")
             s == Capped(TierFirstMatch(SupportDistance(daily, price), "support_distance"), "support")
             d == ScoreDropMagnitude(hours, daily)
             r == ScoreRsiOversold(hours, fours)
             c == ScoreDiscount(daily, price)
             e == ScoreReversal(hours)
             t == ScoreTrend(daily)
             parts == [drop |-> d, rsi |-> r, volume |-> v, support |-> s,
                       discount |-> c, reversal |-> e, trend |-> t]
  <1>1. ScoreSignal(history) = parts
    BY Zenon DEF ScoreSignal
  <1>2. v \in 0 .. Weights["volume"] /\ s \in 0 .. Weights["support"]
    <2>1. "rel_volume" \in Names /\ "support_distance" \in Names
          /\ "volume" \in Factors /\ "support" \in Factors
      BY DEF Names, Factors
    <2>2. TierUp(RelativeVolume(Column(hours, "volume")), "rel_volume") \in Nat
      BY <2>1, TiersGivePoints, Zenon
    <2>3. TierFirstMatch(SupportDistance(daily, price), "support_distance") \in Nat
      BY <2>1, TiersGivePoints, Zenon
    <2> QED BY <2>1, <2>2, <2>3, CapHolds, Zenon
  <1>3. d \in 0 .. Weights["drop"] /\ r \in 0 .. Weights["rsi"] /\ c \in 0 .. Weights["discount"]
        /\ e \in 0 .. Weights["reversal"] /\ t \in 0 .. Weights["trend"]
    BY DropScored, TwoTiersScored, PatternsScored, Zenon
  <1> HIDE DEF v, s, d, r, c, e, t
  <1>4. parts = [f \in Factors |-> parts[f]]
    <2>1. DOMAIN parts = Factors
      BY DEF Factors
    <2> QED BY <2>1
  <1>5. \A f \in Factors : parts[f] \in 0 .. Weights[f]
    BY <1>2, <1>3 DEF Factors
  <1> QED BY <1>1, <1>4, <1>5, Zenon

LEMMA SevenPoints ==
  ASSUME NEW a \in [Factors -> Nat], NEW b \in [Factors -> Nat], \A f \in Factors : a[f] <= b[f]
  PROVE  ScoreOf(a) \in Nat /\ ScoreOf(b) \in Nat /\ ScoreOf(a) <= ScoreOf(b)
  <1>1. \A f \in {"drop", "rsi", "volume", "support", "discount", "reversal", "trend"} :
          a[f] \in Nat /\ b[f] \in Nat /\ a[f] <= b[f]
    BY DEF Factors
  <1>2. /\ a["drop"] \in Nat /\ b["drop"] \in Nat /\ a["drop"] <= b["drop"]
        /\ a["rsi"] \in Nat /\ b["rsi"] \in Nat /\ a["rsi"] <= b["rsi"]
        /\ a["volume"] \in Nat /\ b["volume"] \in Nat /\ a["volume"] <= b["volume"]
        /\ a["support"] \in Nat /\ b["support"] \in Nat /\ a["support"] <= b["support"]
        /\ a["discount"] \in Nat /\ b["discount"] \in Nat /\ a["discount"] <= b["discount"]
        /\ a["reversal"] \in Nat /\ b["reversal"] \in Nat /\ a["reversal"] <= b["reversal"]
        /\ a["trend"] \in Nat /\ b["trend"] \in Nat /\ a["trend"] <= b["trend"]
    BY <1>1
  <1> QED BY <1>2 DEF ScoreOf

LEMMA LowestAdjustment ==
  ASSUME NEW regime
  PROVE  Adjustment(regime) \in Int /\ Min({RiskOn, RiskOff, 0}) \in Int
         /\ Min({RiskOn, RiskOff, 0}) <= Adjustment(regime)
  <1>1. RiskOn \in Int /\ RiskOff \in Int
    BY Config
  <1>2. Adjustment(regime) \in {RiskOn, RiskOff, 0}
    BY DEF Adjustment
  <1>3. \E x \in {RiskOn, RiskOff, 0} : \A y \in {RiskOn, RiskOff, 0} : x <= y
    BY <1>1
  <1>4. Min({RiskOn, RiskOff, 0}) \in {RiskOn, RiskOff, 0}
        /\ \A y \in {RiskOn, RiskOff, 0} : Min({RiskOn, RiskOff, 0}) <= y
    BY <1>3 DEF Min
  <1> QED BY <1>1, <1>2, <1>4

LEMMA FloorHolds ==
  ASSUME NEW score \in Int, NEW regime, SeverityForScore(score, Adjustment(regime)) # "none"
  PROVE  score >= MinSignalScore + Min({RiskOn, RiskOff, 0})
  <1> DEFINE adjust == Adjustment(regime)
             least == Min({RiskOn, RiskOff, 0})
             a == MinSignalScore + adjust
             b == Normal + Min({adjust, 0})
  <1>1. adjust \in Int /\ least \in Int /\ least <= adjust /\ MinSignalScore \in Int /\ Normal \in Int
    BY LowestAdjustment, Config
  <1>2. Min({adjust, 0}) \in Int
    <2>1. 0 \in Int
      OBVIOUS
    <2> HIDE DEF adjust
    <2>2. Min({adjust, 0}) \in {adjust, 0}
      BY <1>1, <2>1, MinOfTwo, Zenon
    <2> QED BY <1>1, <2>1, <2>2
  <1> HIDE DEF adjust, least
  <1>3. a \in Int /\ b \in Int
    BY <1>1, <1>2
  <1>4. ~(score < EffectiveEmitFloor(adjust))
    BY Zenon DEF SeverityForScore, adjust
  <1> HIDE DEF a, b
  <1>5. EffectiveEmitFloor(adjust) = Max({a, b})
    BY Zenon DEF EffectiveEmitFloor, a, b
  <1>6. Max({a, b}) \in {a, b} /\ a <= Max({a, b})
    BY <1>3, MaxOfTwo, Zenon
  <1>7. a <= score
    BY <1>3, <1>4, <1>5, <1>6
  <1>8. score >= MinSignalScore + least
    BY <1>1, <1>7 DEF a
  <1> QED BY <1>8 DEF least

(* No factor of score_signal outgrows its weight, and the weights bound    *)
(* the score against the lowest floor, whatever the levels, the adjustments*)
(* of the regime and the market.  A factor with negative points would be   *)
(* below 0, hence the hypothesis.                                          *)
THEOREM BudgetsAreKept == ASSUME PointsAreNatural PROVE Spec => []BudgetsHold
  <1> DEFINE top(parts) == [f \in Factors |-> IF parts[f] > 0 THEN Weights[f] ELSE 0]
  <1>1. Init => BudgetsHold
    <2> SUFFICES ASSUME Init PROVE BudgetsHold
      OBVIOUS
    <2>1. severity = "none" /\ points = [f \in Factors |-> 0]
      BY DEF Init
    <2>2. \A f \in Factors : points[f] \in 0 .. Weights[f]
      <3> SUFFICES ASSUME NEW f \in Factors PROVE points[f] \in 0 .. Weights[f]
        OBVIOUS
      <3>1. Weights[f] \in 0 .. 100 /\ points[f] = 0
        BY <2>1, Config
      <3> QED BY <3>1
    <2> QED BY <2>1, <2>2, Zenon DEF BudgetsHold
  <1>2. ASSUME NEW shape \in Shapes, Hour(shape) PROVE BudgetsHold'
    <2>1. PICK hours, regime :
            points' = ScoreSignal(hours)
            /\ severity' = SeverityForScore(ScoreOf(ScoreSignal(hours)), Adjustment(regime))
      BY <1>2, Zenon DEF Hour
    <2> DEFINE parts == ScoreSignal(hours)
    <2>2. parts = [f \in Factors |-> parts[f]] /\ \A f \in Factors : parts[f] \in 0 .. Weights[f]
      BY PartsBounded, Zenon
    <2> HIDE DEF parts
    <2>3. \A f \in Factors : Weights[f] \in Nat
      <3>1. \A f \in Factors : Weights[f] \in 0 .. 100
        BY Config
      <3> QED BY <3>1
    <2>4. parts \in [Factors -> Nat] /\ top(parts) \in [Factors -> Nat]
          /\ \A f \in Factors : parts[f] <= top(parts)[f]
      <3>1. \A f \in Factors : parts[f] \in Nat /\ parts[f] <= Weights[f]
        BY <2>2, <2>3
      <3>2. parts \in [Factors -> Nat]
        BY <2>2, <3>1
      <3> QED BY <2>3, <3>1, <3>2
    <2> HIDE DEF top
    <2>5. ScoreOf(parts) \in Nat /\ ScoreOf(top(parts)) \in Nat /\ ScoreOf(parts) <= ScoreOf(top(parts))
      BY <2>4, SevenPoints, Zenon
    <2>6. severity' # "none" => ScoreOf(top(parts)) >= MinSignalScore + Min({RiskOn, RiskOff, 0})
      <3> SUFFICES ASSUME severity' # "none"
                   PROVE  ScoreOf(top(parts)) >= MinSignalScore + Min({RiskOn, RiskOff, 0})
        OBVIOUS
      <3>1. ScoreOf(parts) \in Int
        BY <2>5
      <3>2. SeverityForScore(ScoreOf(parts), Adjustment(regime)) # "none"
        BY <2>1, Zenon DEF parts
      <3>3. ScoreOf(parts) >= MinSignalScore + Min({RiskOn, RiskOff, 0})
        BY <3>1, <3>2, FloorHolds, Zenon
      <3>4. MinSignalScore \in Int /\ Min({RiskOn, RiskOff, 0}) \in Int
        BY Config, LowestAdjustment, Zenon
      <3> QED BY <2>5, <3>3, <3>4
    <2>7. points' = parts
      BY <2>1, Zenon DEF parts
    <2>8. \A f \in Factors : points'[f] \in 0 .. Weights[f]
      BY <2>2, <2>7, Zenon
    <2>9. severity' # "none" => ScoreOf(top(points')) >= MinSignalScore + Min({RiskOn, RiskOff, 0})
      BY <2>6, <2>7, Zenon
    <2> QED BY <2>8, <2>9, Zenon DEF BudgetsHold, top
  <1>3. BudgetsHold /\ UNCHANGED vars => BudgetsHold'
    BY Zenon DEF BudgetsHold, vars
  <1>4. BudgetsHold /\ [Next]_vars => BudgetsHold'
    BY <1>2, <1>3, Zenon DEF Next
  <1> QED BY <1>1, <1>4, PTL DEF Spec

-----------------------------------------------------------------------------
(* Totals.                                                                 *)

LEMMA UnrolledValues ==
  ASSUME NEW it, NEW zero, NEW a, NEW add, NEW n, Unrolls(it, zero, a, add, n),
         n \in Nat, zero \in Int, a \in Int, \A k \in 1 .. n : add[k] \in Int
  PROVE  /\ it \in [0 .. n -> Int] /\ it[0] = zero
         /\ \A k \in 1 .. n : it[k] = it[k - 1] * a + add[k]
  <1>1. it[0] = zero
    BY DEF Unrolls
  <1>2. ASSUME NEW k \in 1 .. n PROVE it[k] = it[k - 1] * a + add[k]
    <2>1. k \in 0 .. n /\ k # 0
      OBVIOUS
    <2> QED BY <2>1, Zenon DEF Unrolls
  <1> DEFINE Good == {k \in 0 .. n : it[k] \in Int}
  <1>3. 0 \in Good
    BY <1>1
  <1>4. \A k \in 1 .. n : k - 1 \in Good => k \in Good
    <2> SUFFICES ASSUME NEW k \in 1 .. n, k - 1 \in Good PROVE k \in Good
      OBVIOUS
    <2>1. it[k - 1] \in Int /\ add[k] \in Int /\ k \in 0 .. n
      OBVIOUS
    <2>2. it[k - 1] * a + add[k] \in Int
      BY <2>1
    <2> QED BY <1>2, <2>1, <2>2
  <1>5. \A k \in 0 .. n : k \in Good
    <2> HIDE DEF Good
    <2> QED BY ONLY n \in Nat, <1>3, <1>4, CountUp
  <1>6. DOMAIN it = 0 .. n /\ it = [k \in DOMAIN it |-> it[k]]
    BY DEF Unrolls
  <1>7. it \in [0 .. n -> Int]
    BY <1>5, <1>6
  <1> QED BY <1>1, <1>2, <1>7

(* it sums the first values of s, up to n of them.                         *)
SumsUp(it, s, n) == it = [k \in 0 .. n |-> IF k = 0 THEN 0 ELSE it[k - 1] + s[k]]

LEMMA TotalIs ==
  ASSUME NEW s PROVE Total(s) = (CHOOSE it : SumsUp(it, s, Len(s)))[Len(s)]
  BY DEF Total, SumsUp

LEMMA SumsExist ==
  ASSUME NEW n \in Nat, NEW s, \A k \in 1 .. n : s[k] \in Int
  PROVE  \E it : SumsUp(it, s, n)
  <1>1. PICK it : Unrolls(it, 0, 1, s, n)
    BY UnrollingExists, Zenon
  <1>2. it \in [0 .. n -> Int] /\ it[0] = 0 /\ \A k \in 1 .. n : it[k] = it[k - 1] * 1 + s[k]
    BY <1>1, UnrolledValues
  <1> DEFINE new(k) == IF k = 0 THEN 0 ELSE it[k - 1] + s[k]
  <1>3. ASSUME NEW k \in 0 .. n PROVE it[k] = new(k)
    <2>1. CASE k = 0
      BY <1>2, <2>1
    <2>2. CASE k # 0
      <3>1. k \in 1 .. n /\ k - 1 \in 0 .. n
        BY <2>2
      <3>2. it[k - 1] \in Int /\ it[k] = it[k - 1] * 1 + s[k]
        BY <1>2, <3>1
      <3>3. it[k - 1] * 1 = it[k - 1]
        BY <3>2
      <3> QED BY <2>2, <3>2, <3>3
    <2> QED BY <2>1, <2>2
  <1>4. it = [k \in 0 .. n |-> new(k)]
    <2>1. it = [k \in 0 .. n |-> it[k]]
      BY <1>2
    <2> HIDE DEF new
    <2>2. [k \in 0 .. n |-> it[k]] = [k \in 0 .. n |-> new(k)]
      BY <1>3
    <2> QED BY <2>1, <2>2, Zenon
  <1>5. SumsUp(it, s, n)
    BY <1>4, Zenon DEF SumsUp
  <1> QED BY <1>5, Zenon

LEMMA SumsStep ==
  ASSUME NEW n \in Nat, NEW it, NEW s, SumsUp(it, s, n)
  PROVE  it[0] = 0 /\ \A k \in 1 .. n : it[k] = it[k - 1] + s[k]
  <1>1. it[0] = 0
    BY DEF SumsUp
  <1>2. ASSUME NEW k \in 1 .. n PROVE it[k] = it[k - 1] + s[k]
    <2>1. k \in 0 .. n /\ k # 0
      OBVIOUS
    <2> QED BY <2>1, Zenon DEF SumsUp
  <1> QED BY <1>1, <1>2

LEMMA SumsAgree ==
  ASSUME NEW n \in Nat, NEW m \in Nat, m <= n, NEW s, NEW t, NEW a, NEW b,
         SumsUp(a, s, n), SumsUp(b, t, m), \A i \in 1 .. m : s[i] = t[i]
  PROVE  \A k \in 0 .. m : a[k] = b[k]
  <1> DEFINE Good == {k \in 0 .. m : a[k] = b[k]}
  <1>1. a[0] = 0 /\ \A k \in 1 .. n : a[k] = a[k - 1] + s[k]
    BY SumsStep
  <1>2. b[0] = 0 /\ \A k \in 1 .. m : b[k] = b[k - 1] + t[k]
    BY SumsStep
  <1>3. 0 \in Good
    BY <1>1, <1>2
  <1>4. \A k \in 1 .. m : k - 1 \in Good => k \in Good
    <2> SUFFICES ASSUME NEW k \in 1 .. m, k - 1 \in Good PROVE k \in Good
      OBVIOUS
    <2>1. a[k - 1] = b[k - 1] /\ s[k] = t[k] /\ k \in 1 .. n /\ k \in 0 .. m
      OBVIOUS
    <2>2. a[k] = a[k - 1] + s[k] /\ b[k] = b[k - 1] + t[k]
      BY <1>1, <1>2, <2>1
    <2>3. a[k] = b[k]
      BY <2>1, <2>2, Zenon
    <2> QED BY <2>1, <2>3
  <1>5. \A k \in 0 .. m : k \in Good
    <2> HIDE DEF Good
    <2> QED BY ONLY m \in Nat, <1>3, <1>4, CountUp
  <1> QED BY <1>5

(* The totals of what a sequence begins with, one by one.                  *)
Totals(it, v) ==
  /\ it \in [0 .. Len(v) -> Int]
  /\ it[0] = 0
  /\ \A k \in 1 .. Len(v) : it[k] = it[k - 1] + v[k]
  /\ \A k \in 0 .. Len(v) : Total(Until(v, k)) = it[k]

LEMMA TotalsExist ==
  ASSUME NEW v \in Seq(Int) PROVE \E it : Totals(it, v)
  <1> DEFINE n == Len(v)
  <1>1. n \in Nat /\ \A k \in 1 .. n : v[k] \in Int
    BY ElementOfSeq, LenProperties
  <1> HIDE DEF n
  <1>2. PICK it : SumsUp(it, v, n)
    BY <1>1, SumsExist, Zenon
  <1>3. it[0] = 0 /\ \A k \in 1 .. n : it[k] = it[k - 1] + v[k]
    BY ONLY <1>1, <1>2, SumsStep
  <1>4. \A k \in 0 .. n : it[k] \in Int
    <2> DEFINE Good == {k \in 0 .. n : it[k] \in Int}
    <2>1. 0 \in Good
      BY <1>1, <1>3
    <2>2. \A k \in 1 .. n : k - 1 \in Good => k \in Good
      <3> SUFFICES ASSUME NEW k \in 1 .. n, k - 1 \in Good PROVE k \in Good
        OBVIOUS
      <3>1. it[k - 1] \in Int /\ v[k] \in Int /\ k \in 0 .. n /\ it[k] = it[k - 1] + v[k]
        BY <1>1, <1>3
      <3> QED BY <3>1
    <2>3. \A k \in 0 .. n : k \in Good
      <3> HIDE DEF Good
      <3> QED BY ONLY <1>1, <2>1, <2>2, CountUp
    <2> QED BY <2>3
  <1>5. it \in [0 .. n -> Int]
    <2>1. DOMAIN it = 0 .. n /\ it = [k \in DOMAIN it |-> it[k]]
      BY <1>2 DEF SumsUp
    <2> QED BY <1>4, <2>1
  <1>6. ASSUME NEW k \in 0 .. n PROVE Total(Until(v, k)) = it[k]
    <2> DEFINE u == Until(v, k)
               table == CHOOSE b : SumsUp(b, u, k)
    <2>1. k \in Nat /\ k <= n
      BY <1>1
    <2>2. u \in Seq(Int) /\ Len(u) = k /\ \A i \in 1 .. k : u[i] = v[i]
      BY <2>1, UntilIs DEF n
    <2> HIDE DEF u
    <2>3. \A i \in 1 .. k : u[i] \in Int /\ v[i] = u[i]
      BY <1>1, <2>1, <2>2
    <2>4. SumsUp(table, u, k)
      BY <2>1, <2>3, SumsExist, Zenon
    <2>5. Total(u) = table[k]
      BY <2>2, TotalIs, Zenon
    <2> HIDE DEF table
    <2>6. \A i \in 0 .. k : it[i] = table[i]
      BY ONLY <1>1, <1>2, <2>1, <2>3, <2>4, SumsAgree
    <2>7. it[k] = table[k]
      BY <2>1, <2>6
    <2> QED BY <2>5, <2>7, Zenon DEF u
  <1>7. Totals(it, v)
    BY <1>3, <1>5, <1>6, Zenon DEF Totals, n
  <1> QED BY <1>7, Zenon

-----------------------------------------------------------------------------
(* The tables behind an exponential average.                               *)

(* sum and unit are the tables Ema unrolls for a mean of p values.         *)
Averages(sum, unit, t, v, p, n) ==
  /\ sum \in [0 .. n -> Int] /\ unit \in [0 .. n -> Int]
  /\ sum[0] = t[p] /\ unit[0] = p
  /\ \A k \in 1 .. n : unit[k] = unit[k - 1] * (p + 1)
  /\ \A k \in 1 .. n : sum[k] = sum[k - 1] * (p - 1) + v[p + k] * 2 * unit[k - 1]

UnitTable(it, p, n) == it = [k \in 0 .. n |-> IF k = 0 THEN p ELSE it[k - 1] * (p + 1)]
SumTable(it, unit, v, p, n) ==
  it = [k \in 0 .. n |-> IF k = 0 THEN Total(Until(v, p))
                         ELSE it[k - 1] * (p - 1) + v[p + k] * 2 * unit[k - 1]]

LEMMA UnitsExist ==
  ASSUME NEW p \in Int, NEW n \in Nat
  PROVE  \E it : UnitTable(it, p, n)
  <1> DEFINE none == [k \in 1 .. n |-> 0]
  <1>1. PICK it : Unrolls(it, p, p + 1, none, n)
    BY UnrollingExists, Zenon
  <1>2. p + 1 \in Int /\ \A k \in 1 .. n : none[k] \in Int
    OBVIOUS
  <1>3. it \in [0 .. n -> Int] /\ it[0] = p /\ \A k \in 1 .. n : it[k] = it[k - 1] * (p + 1) + none[k]
    <2> HIDE DEF none
    <2>1. it \in [0 .. n -> Int]
      BY <1>1, <1>2, UnrolledValues
    <2>2. it[0] = p
      BY <1>1, <1>2, UnrolledValues
    <2>3. \A k \in 1 .. n : it[k] = it[k - 1] * (p + 1) + none[k]
      BY <1>1, <1>2, UnrolledValues
    <2> QED BY <2>1, <2>2, <2>3
  <1> DEFINE new(k) == IF k = 0 THEN p ELSE it[k - 1] * (p + 1)
  <1>4. ASSUME NEW k \in 0 .. n PROVE it[k] = new(k)
    <2>1. CASE k = 0
      BY <1>3, <2>1
    <2>2. CASE k # 0
      <3>1. k \in 1 .. n /\ k - 1 \in 0 .. n
        BY <2>2
      <3>2. it[k - 1] \in Int /\ it[k] = it[k - 1] * (p + 1) + 0
        BY <1>3, <3>1
      <3>3. it[k - 1] * (p + 1) \in Int
        BY <3>2
      <3>4. it[k] = it[k - 1] * (p + 1)
        BY <3>2, <3>3
      <3> QED BY <2>2, <3>4
    <2> QED BY <2>1, <2>2
  <1>5. it = [k \in 0 .. n |-> new(k)]
    <2>1. it = [k \in 0 .. n |-> it[k]]
      BY <1>3
    <2> HIDE DEF new
    <2>2. [k \in 0 .. n |-> it[k]] = [k \in 0 .. n |-> new(k)]
      BY <1>4
    <2> QED BY <2>1, <2>2, Zenon
  <1>6. UnitTable(it, p, n)
    BY <1>5, Zenon DEF UnitTable
  <1> QED BY <1>6, Zenon

LEMMA UnitValues ==
  ASSUME NEW p \in Nat, p > 0, NEW n \in Nat, NEW it, UnitTable(it, p, n)
  PROVE  /\ it \in [0 .. n -> Int] /\ it[0] = p
         /\ \A k \in 0 .. n : it[k] > 0
         /\ \A k \in 1 .. n : it[k] = it[k - 1] * (p + 1)
  <1>1. it[0] = p
    BY DEF UnitTable
  <1>2. ASSUME NEW k \in 1 .. n PROVE it[k] = it[k - 1] * (p + 1)
    <2>1. k \in 0 .. n /\ k # 0
      OBVIOUS
    <2> QED BY <2>1, Zenon DEF UnitTable
  <1> DEFINE Good == {k \in 0 .. n : it[k] \in Int /\ it[k] > 0}
  <1>3. 0 \in Good
    BY <1>1
  <1>4. \A k \in 1 .. n : k - 1 \in Good => k \in Good
    <2> SUFFICES ASSUME NEW k \in 1 .. n, k - 1 \in Good PROVE k \in Good
      OBVIOUS
    <2>1. it[k - 1] \in Int /\ it[k - 1] > 0 /\ k \in 0 .. n
      OBVIOUS
    <2>2. it[k] = it[k - 1] * (p + 1)
      BY <1>2
    <2>3. \A x, y \in Int : x > 0 /\ y > 0 => x * y \in Int /\ x * y > 0
      OBVIOUS
    <2>4. p + 1 \in Int /\ p + 1 > 0
      OBVIOUS
    <2>5. it[k] \in Int /\ it[k] > 0
      BY <2>1, <2>2, <2>3, <2>4
    <2> QED BY <2>1, <2>5
  <1>5. \A k \in 0 .. n : k \in Good
    <2> HIDE DEF Good
    <2> QED BY ONLY n \in Nat, <1>3, <1>4, CountUp
  <1>6. DOMAIN it = 0 .. n /\ it = [k \in DOMAIN it |-> it[k]]
    BY DEF UnitTable
  <1>7. it \in [0 .. n -> Int]
    BY <1>5, <1>6
  <1> QED BY <1>1, <1>2, <1>5, <1>7

LEMMA SumTablesExist ==
  ASSUME NEW p, NEW n \in Nat, NEW v, NEW unit
  PROVE  \E it : SumTable(it, unit, v, p, n)
  <1> DEFINE zero == Total(Until(v, p))
             add == [k \in 1 .. n |-> v[p + k] * 2 * unit[k - 1]]
  <1>1. PICK it : Unrolls(it, zero, p - 1, add, n)
    BY UnrollingExists, Zenon
  <1> DEFINE old(k) == IF k = 0 THEN zero ELSE it[k - 1] * (p - 1) + add[k]
             new(k) == IF k = 0 THEN zero ELSE it[k - 1] * (p - 1) + v[p + k] * 2 * unit[k - 1]
  <1>2. ASSUME NEW k \in 0 .. n PROVE old(k) = new(k)
    <2>1. k # 0 => k \in 1 .. n
      OBVIOUS
    <2>2. k # 0 => add[k] = v[p + k] * 2 * unit[k - 1]
      BY <2>1
    <2> HIDE DEF add
    <2> QED BY <2>2, Zenon
  <1>3. [k \in 0 .. n |-> old(k)] = [k \in 0 .. n |-> new(k)]
    <2> HIDE DEF old, new
    <2> QED BY <1>2
  <1>4. it = [k \in 0 .. n |-> new(k)]
    BY <1>1, <1>3, Zenon DEF Unrolls
  <1>5. SumTable(it, unit, v, p, n)
    BY <1>4, Zenon DEF SumTable
  <1> QED BY <1>5, Zenon

LEMMA SumTableIsWhole ==
  ASSUME NEW it, NEW unit, NEW v, NEW p, NEW n, SumTable(it, unit, v, p, n),
         p \in Nat, n \in Nat, \A k \in 1 .. n : v[p + k] \in Int,
         unit \in [0 .. n -> Int], Total(Until(v, p)) \in Int
  PROVE  it \in [0 .. n -> Int]
  <1>1. it[0] = Total(Until(v, p))
    BY DEF SumTable
  <1>2. ASSUME NEW k \in 1 .. n
        PROVE  it[k] = it[k - 1] * (p - 1) + v[p + k] * 2 * unit[k - 1]
    <2>1. k \in 0 .. n /\ k # 0
      OBVIOUS
    <2> QED BY <2>1, Zenon DEF SumTable
  <1> DEFINE Good == {k \in 0 .. n : it[k] \in Int}
  <1>3. 0 \in Good
    BY <1>1
  <1>4. \A k \in 1 .. n : k - 1 \in Good => k \in Good
    <2> SUFFICES ASSUME NEW k \in 1 .. n, k - 1 \in Good PROVE k \in Good
      OBVIOUS
    <2>1. it[k - 1] \in Int /\ v[p + k] \in Int /\ unit[k - 1] \in Int /\ k \in 0 .. n
      OBVIOUS
    <2>2. it[k - 1] * (p - 1) + v[p + k] * 2 * unit[k - 1] \in Int
      BY <2>1, SMTT(30)
    <2> QED BY <1>2, <2>1, <2>2
  <1>5. \A k \in 0 .. n : k \in Good
    <2> HIDE DEF Good
    <2> QED BY ONLY n \in Nat, <1>3, <1>4, CountUp
  <1>6. DOMAIN it = 0 .. n /\ it = [k \in DOMAIN it |-> it[k]]
    BY DEF SumTable
  <1>7. it \in [0 .. n -> Int]
    BY <1>5, <1>6
  <1> QED BY <1>7

LEMMA EmaIs ==
  ASSUME NEW v \in Seq(Int), NEW p \in Nat, p > 0, p <= Len(v), NEW t, Totals(t, v)
  PROVE  \E sum, unit : /\ Averages(sum, unit, t, v, p, Len(v) - p)
                        /\ \A k \in 0 .. Len(v) - p : unit[k] > 0
                        /\ Ema(v, p) = <<sum[Len(v) - p], unit[Len(v) - p]>>
  <1> DEFINE n == Len(v) - p
             unit == CHOOSE it : UnitTable(it, p, n)
             sum == CHOOSE it : SumTable(it, unit, v, p, n)
  <1>1. n \in Nat /\ Len(v) \in Nat /\ p \in 0 .. Len(v)
    OBVIOUS
  <1>2. Ema(v, p) = <<sum[n], unit[n]>>
    BY Zenon DEF Ema, UnitTable, SumTable
  <1>3. \A k \in 1 .. n : v[p + k] \in Int
    <2>1. \A k \in 1 .. n : p + k \in 1 .. Len(v)
      OBVIOUS
    <2> QED BY <2>1, ElementOfSeq
  <1>4. UnitTable(unit, p, n)
    <2> HIDE DEF n
    <2> QED BY <1>1, UnitsExist
  <1>5. SumTable(sum, unit, v, p, n)
    <2> HIDE DEF n, unit
    <2> QED BY <1>1, SumTablesExist
  <1>6. Total(Until(v, p)) = t[p] /\ t[p] \in Int
    BY <1>1, Zenon DEF Totals
  <1> HIDE DEF n, unit, sum
  <1>7. /\ unit \in [0 .. n -> Int] /\ unit[0] = p
        /\ \A k \in 0 .. n : unit[k] > 0
        /\ \A k \in 1 .. n : unit[k] = unit[k - 1] * (p + 1)
    BY <1>1, <1>4, UnitValues, Zenon
  <1>8. /\ sum \in [0 .. n -> Int] /\ sum[0] = Total(Until(v, p))
        /\ \A k \in 1 .. n : sum[k] = sum[k - 1] * (p - 1) + v[p + k] * 2 * unit[k - 1]
    <2>1. Total(Until(v, p)) \in Int
      BY <1>6
    <2>2. sum \in [0 .. n -> Int]
      BY <1>1, <1>3, <1>5, <1>7, <2>1, SumTableIsWhole
    <2>3. sum[0] = Total(Until(v, p))
      BY <1>1, <1>5 DEF SumTable
    <2>4. ASSUME NEW k \in 1 .. n
          PROVE  sum[k] = sum[k - 1] * (p - 1) + v[p + k] * 2 * unit[k - 1]
      <3>1. k \in 0 .. n /\ k # 0
        BY <1>1
      <3> QED BY <1>5, <3>1, Zenon DEF SumTable
    <2> QED BY <2>2, <2>3, <2>4
  <1>9. Averages(sum, unit, t, v, p, n)
    BY <1>6, <1>7, <1>8, Zenon DEF Averages
  <1> QED BY <1>2, <1>7, <1>9, Zenon DEF n

-----------------------------------------------------------------------------
(* What one more value does to averages.                                   *)

LEMMA ProductsKeepOrder ==
  ASSUME NEW a \in Int, NEW b \in Int, NEW c \in Int, a <= b, c >= 0
  PROVE  a * c <= b * c /\ c * a <= c * b
  OBVIOUS

(* The weight of a new value d in an average x / y of p.                   *)
LEMMA StaysAbove ==
  ASSUME NEW x \in Int, NEW y \in Int, NEW d \in Int, NEW p \in Int, p >= 1, d * y <= x
  PROVE  d * (y * (p + 1)) <= x * (p - 1) + d * 2 * y
  <1>1. (d * y) * (p - 1) <= x * (p - 1)
    BY ProductsKeepOrder, d * y \in Int, p - 1 \in Int, p - 1 >= 0
  <1>2. d * (y * (p + 1)) = (d * y) * (p - 1) + d * 2 * y
    OBVIOUS
  <1> QED BY <1>1, <1>2

LEMMA StaysBelowMean ==
  ASSUME NEW x \in Int, NEW y \in Int, NEW d \in Int, NEW p \in Int, NEW j \in Int, NEW t \in Int,
         p >= 1, j >= p, d * y <= x, x * j <= t * y
  PROVE  (x * (p - 1) + d * 2 * y) * (j + 1) <= (t + d) * (y * (p + 1))
  <1>1. (x * j) * (p + 1) <= (t * y) * (p + 1)
    BY ProductsKeepOrder, x * j \in Int, t * y \in Int, p + 1 \in Int, p + 1 >= 0
  <1>2. (d * y) * (2 * j - p + 1) <= x * (2 * j - p + 1)
    BY ProductsKeepOrder, d * y \in Int, 2 * j - p + 1 \in Int, 2 * j - p + 1 >= 0
  <1>3. (t + d) * (y * (p + 1)) - (x * (p - 1) + d * 2 * y) * (j + 1)
          = ((t * y) * (p + 1) - (x * j) * (p + 1)) + (x * (2 * j - p + 1) - (d * y) * (2 * j - p + 1))
    OBVIOUS
  <1> DEFINE a == (t + d) * (y * (p + 1))
             b == (x * (p - 1) + d * 2 * y) * (j + 1)
             e == (t * y) * (p + 1)
             f == (x * j) * (p + 1)
             g == x * (2 * j - p + 1)
             h == (d * y) * (2 * j - p + 1)
  <1>4. a \in Int /\ b \in Int /\ e \in Int /\ f \in Int /\ g \in Int /\ h \in Int
    OBVIOUS
  <1>5. f <= e /\ h <= g /\ a - b = (e - f) + (g - h)
    BY <1>1, <1>2, <1>3
  <1> HIDE DEF a, b, e, f, g, h
  <1>6. b <= a
    BY <1>4, <1>5
  <1> QED BY <1>6 DEF a, b

LEMMA StaysBelowSlow ==
  ASSUME NEW x \in Int, NEW y \in Int, NEW d \in Int, NEW p \in Int, NEW q \in Int,
         NEW u \in Int, NEW w \in Int, p >= 1, q >= p, w >= 0, d * y <= x, x * w <= u * y
  PROVE  (x * (p - 1) + d * 2 * y) * (w * (q + 1)) <= (u * (q - 1) + d * 2 * w) * (y * (p + 1))
  <1> DEFINE a == (u * (q - 1) + d * 2 * w) * (y * (p + 1))
             b == (x * (p - 1) + d * 2 * y) * (w * (q + 1))
             r == (q - 1) * (p + 1)
             s == 2 * (w * (q - p))
             e == (u * y) * r
             f == (x * w) * r
             g == x * s
             h == (d * y) * s
  <1>1. r \in Int /\ r >= 0 /\ s \in Int /\ s >= 0
    <2>1. \A m, n \in Int : m >= 0 /\ n >= 0 => m * n \in Int /\ m * n >= 0
      OBVIOUS
    <2>2. q - 1 \in Int /\ q - 1 >= 0 /\ p + 1 \in Int /\ p + 1 >= 0 /\ q - p \in Int /\ q - p >= 0
      OBVIOUS
    <2> QED BY <2>1, <2>2
  <1>2. d * y \in Int /\ x * w \in Int /\ u * y \in Int
    OBVIOUS
  <1>3. a - b = (e - f) + (g - h)
    OBVIOUS
  <1>4. f <= e
    <2> HIDE DEF r
    <2> QED BY <1>1, <1>2, ProductsKeepOrder
  <1>5. h <= g
    <2> HIDE DEF s
    <2> QED BY <1>1, <1>2, ProductsKeepOrder
  <1>6. a \in Int /\ b \in Int /\ e \in Int /\ f \in Int /\ g \in Int /\ h \in Int
    OBVIOUS
  <1> HIDE DEF a, b, e, f, g, h
  <1>7. b <= a
    BY <1>3, <1>4, <1>5, <1>6
  <1> QED BY <1>7 DEF a, b

-----------------------------------------------------------------------------
(* Averages of a market that never rises, and of one that never falls.     *)

(* N values that never rise, and the sums of the first of them.            *)
Falling(v, t, N) ==
  /\ \A i \in 1 .. N : v[i] \in Int
  /\ \A i \in 2 .. N : v[i] <= v[i - 1]
  /\ t \in [0 .. N -> Int] /\ t[0] = 0
  /\ \A k \in 1 .. N : t[k] = t[k - 1] + v[k]

LEMMA LastIsLeast ==
  ASSUME NEW v, NEW t, NEW N \in Nat, Falling(v, t, N), NEW j \in 1 .. N
  PROVE  v[j] * j <= t[j]
  <1> DEFINE Good == {k \in 0 .. N : k = 0 \/ v[k] * k <= t[k]}
  <1>1. 0 \in Good
    OBVIOUS
  <1>2. \A k \in 1 .. N : k - 1 \in Good => k \in Good
    <2> SUFFICES ASSUME NEW k \in 1 .. N, k - 1 \in Good PROVE v[k] * k <= t[k]
      OBVIOUS
    <2>1. v[k] \in Int /\ t[k] = t[k - 1] + v[k] /\ t[0] = 0 /\ t[k - 1] \in Int
      <3>1. k - 1 \in 0 .. N
        OBVIOUS
      <3> QED BY <3>1 DEF Falling
    <2>2. CASE k = 1
      <3>1. v[k] * k = v[k]
        BY <2>1, <2>2
      <3> QED BY <2>1, <2>2, <3>1
    <2>3. CASE k # 1
      <3>1. k - 1 \in 1 .. N /\ k \in 2 .. N /\ k - 1 # 0
        BY <2>3
      <3>2. v[k - 1] \in Int /\ v[k] <= v[k - 1] /\ v[k - 1] * (k - 1) <= t[k - 1]
        BY <3>1 DEF Falling
      <3>3. v[k] * (k - 1) <= v[k - 1] * (k - 1)
        BY <2>1, <3>1, <3>2, ProductsKeepOrder
      <3>4. v[k] * k = v[k] * (k - 1) + v[k]
        BY <2>1
      <3>5. v[k] * (k - 1) \in Int /\ v[k - 1] * (k - 1) \in Int
        BY <2>1, <3>2
      <3> QED BY <2>1, <3>2, <3>3, <3>4, <3>5
    <2> QED BY <2>2, <2>3
  <1>3. \A k \in 0 .. N : k \in Good
    <2> HIDE DEF Good
    <2> QED BY ONLY N \in Nat, <1>1, <1>2, CountUp
  <1> QED BY <1>3

LEMMA AverageStep ==
  ASSUME NEW sum, NEW unit, NEW t, NEW v, NEW p, NEW n, Averages(sum, unit, t, v, p, n),
         n \in Nat, NEW k \in 1 .. n
  PROVE  /\ sum[k - 1] \in Int /\ unit[k - 1] \in Int
         /\ unit[k] = unit[k - 1] * (p + 1)
         /\ sum[k] = sum[k - 1] * (p - 1) + v[p + k] * 2 * unit[k - 1]
  <1>1. k - 1 \in 0 .. n
    OBVIOUS
  <1>2. sum[k - 1] \in Int /\ unit[k - 1] \in Int
    BY <1>1 DEF Averages
  <1>3. unit[k] = unit[k - 1] * (p + 1)
    BY Zenon DEF Averages
  <1>4. sum[k] = sum[k - 1] * (p - 1) + v[p + k] * 2 * unit[k - 1]
    BY Zenon DEF Averages
  <1> QED BY <1>2, <1>3, <1>4, Zenon

(* The latest value is at most the average, and so is the next one.        *)
LEMMA LastIsBelow ==
  ASSUME NEW sum, NEW unit, NEW t, NEW v, NEW p \in Nat, NEW n \in Nat, NEW N \in Nat,
         Averages(sum, unit, t, v, p, n), Falling(v, t, N), p >= 1, p + n <= N,
         \A k \in 0 .. n : unit[k] > 0
  PROVE  /\ \A k \in 0 .. n : v[p + k] * unit[k] <= sum[k]
         /\ \A k \in 1 .. n : v[p + k] * unit[k - 1] <= sum[k - 1]
  <1> DEFINE Good == {k \in 0 .. n : v[p + k] * unit[k] <= sum[k]}
  <1>1. 0 \in Good
    <2>1. p \in 1 .. N /\ p + 0 = p
      OBVIOUS
    <2>2. v[p] * p <= t[p]
      BY <2>1, LastIsLeast
    <2>3. sum[0] = t[p] /\ unit[0] = p
      BY DEF Averages
    <2> QED BY <2>1, <2>2, <2>3
  <1>2. ASSUME NEW k \in 1 .. n, k - 1 \in Good
        PROVE  v[p + k] * unit[k - 1] <= sum[k - 1] /\ k \in Good
    <2>1. p + k \in 2 .. N /\ p + k \in 1 .. N /\ (p + k) - 1 \in 1 .. N /\ (p + k) - 1 = p + (k - 1)
          /\ k - 1 \in 0 .. n /\ k \in 0 .. n
      OBVIOUS
    <2>2. v[p + k] <= v[p + (k - 1)] /\ v[p + k] \in Int /\ v[p + (k - 1)] \in Int
      BY <2>1 DEF Falling
    <2>3. unit[k - 1] \in Int /\ unit[k - 1] > 0 /\ sum[k - 1] \in Int
      BY <2>1, AverageStep
    <2>4. v[p + k] * unit[k - 1] <= v[p + (k - 1)] * unit[k - 1]
      BY <2>2, <2>3, ProductsKeepOrder
    <2>5. v[p + (k - 1)] * unit[k - 1] <= sum[k - 1]
      BY <1>2
    <2> DEFINE d == v[p + k]
               e == v[p + (k - 1)]
               x == sum[k - 1]
               y == unit[k - 1]
    <2> HIDE DEF d, e, x, y
    <2>6. d \in Int /\ e \in Int /\ x \in Int /\ y \in Int /\ d * y <= e * y /\ e * y <= x
      BY <2>2, <2>3, <2>4, <2>5 DEF d, e, x, y
    <2>7. d * y <= x
      <3>1. d * y \in Int /\ e * y \in Int
        BY <2>6
      <3> QED BY <2>6, <3>1
    <2>8. d * (y * (p + 1)) <= x * (p - 1) + d * 2 * y
      <3>1. p \in Int
        OBVIOUS
      <3> QED BY <2>6, <2>7, <3>1, StaysAbove
    <2>9. unit[k] = y * (p + 1) /\ sum[k] = x * (p - 1) + d * 2 * y
      <3>1. unit[k] = unit[k - 1] * (p + 1) /\ sum[k] = sum[k - 1] * (p - 1) + v[p + k] * 2 * unit[k - 1]
        BY AverageStep
      <3> QED BY <3>1, Zenon DEF d, x, y
    <2>10. d * unit[k] <= sum[k]
      BY <2>8, <2>9, Zenon
    <2> QED BY <2>1, <2>7, <2>10 DEF d, x, y
  <1>3. \A k \in 1 .. n : k - 1 \in Good => k \in Good
    BY <1>2
  <1>4. \A k \in 0 .. n : k \in Good
    <2> HIDE DEF Good
    <2> QED BY ONLY n \in Nat, <1>1, <1>3, CountUp
  <1>5. ASSUME NEW k \in 1 .. n PROVE v[p + k] * unit[k - 1] <= sum[k - 1]
    <2>1. k - 1 \in 0 .. n
      OBVIOUS
    <2>2. k - 1 \in Good
      BY <1>4, <2>1
    <2> QED BY <1>2, <2>2
  <1> QED BY <1>4, <1>5

(* An average of falling values is below their mean.                       *)
LEMMA BelowMean ==
  ASSUME NEW sum, NEW unit, NEW t, NEW v, NEW p \in Nat, NEW n \in Nat, NEW N \in Nat,
         Averages(sum, unit, t, v, p, n), Falling(v, t, N), p >= 1, p + n <= N,
         \A k \in 0 .. n : unit[k] > 0
  PROVE  \A k \in 0 .. n : sum[k] * (p + k) <= t[p + k] * unit[k]
  <1> DEFINE Good == {k \in 0 .. n : sum[k] * (p + k) <= t[p + k] * unit[k]}
  <1>1. 0 \in Good
    <2>1. p \in 0 .. N /\ p + 0 = p
      OBVIOUS
    <2>2. sum[0] = t[p] /\ unit[0] = p
      BY DEF Averages
    <2>3. t[p] \in Int
      BY <2>1 DEF Falling
    <2>4. t[p] * p <= t[p] * p
      BY <2>3
    <2> QED BY <2>1, <2>2, <2>4
  <1>2. \A k \in 1 .. n : k - 1 \in Good => k \in Good
    <2> SUFFICES ASSUME NEW k \in 1 .. n, k - 1 \in Good PROVE k \in Good
      OBVIOUS
    <2> DEFINE d == v[p + k]
               x == sum[k - 1]
               y == unit[k - 1]
               j == p + (k - 1)
               s == t[j]
    <2>1. /\ p + k \in 1 .. N /\ j \in 0 .. N /\ j \in Int /\ j >= p /\ p + k = j + 1 /\ (p + k) - 1 = j
          /\ k - 1 \in 0 .. n /\ k \in 0 .. n
      OBVIOUS
    <2> HIDE DEF j
    <2>2. d \in Int /\ s \in Int /\ t[p + k] = s + d
      BY <2>1 DEF Falling
    <2>3. x \in Int /\ y \in Int /\ unit[k] = y * (p + 1) /\ sum[k] = x * (p - 1) + d * 2 * y
      BY AverageStep
    <2>4. d * y <= x
      BY LastIsBelow
    <2>5. x * j <= s * y
      BY DEF j
    <2> HIDE DEF d, x, y, s
    <2>6. (x * (p - 1) + d * 2 * y) * (j + 1) <= (s + d) * (y * (p + 1))
      <3>1. p \in Int
        OBVIOUS
      <3> QED BY <2>1, <2>2, <2>3, <2>4, <2>5, <3>1, StaysBelowMean
    <2>7. sum[k] * (p + k) <= t[p + k] * unit[k]
      BY <2>1, <2>2, <2>3, <2>6, Zenon
    <2> QED BY <2>1, <2>7
  <1>3. \A k \in 0 .. n : k \in Good
    <2> HIDE DEF Good
    <2> QED BY ONLY n \in Nat, <1>1, <1>2, CountUp
  <1> QED BY <1>3

(* Of two averages of falling values the faster one is lower.              *)
LEMMA FastIsLower ==
  ASSUME NEW fast, NEW fu, NEW slow, NEW su, NEW t, NEW v,
         NEW p \in Nat, NEW q \in Nat, NEW N \in Nat, p >= 1, p < q, q <= N,
         Falling(v, t, N), Averages(fast, fu, t, v, p, N - p), Averages(slow, su, t, v, q, N - q),
         \A k \in 0 .. N - p : fu[k] > 0, \A k \in 0 .. N - q : su[k] > 0
  PROVE  fast[N - p] * su[N - q] <= slow[N - q] * fu[N - p]
  <1> DEFINE m == q - p
             n == N - q
             r == N - p
             Good == {k \in 0 .. n : fast[m + k] * su[k] <= slow[k] * fu[m + k]}
  <1>1. /\ r \in Nat /\ n \in Nat /\ m \in Nat /\ m <= r /\ p + m = q /\ m + n = r
        /\ p + r <= N /\ q + n <= N
    OBVIOUS
  <1>2. /\ Averages(fast, fu, t, v, p, r) /\ Averages(slow, su, t, v, q, n)
        /\ \A k \in 0 .. r : fu[k] > 0
        /\ \A k \in 0 .. n : su[k] > 0
    OBVIOUS
  <1> HIDE DEF m, n, r
  <1>3. \A k \in 0 .. r : fast[k] * (p + k) <= t[p + k] * fu[k]
    BY ONLY p \in Nat, p >= 1, N \in Nat, Falling(v, t, N), <1>1, <1>2, BelowMean
  <1>4. \A k \in 1 .. r : v[p + k] * fu[k - 1] <= fast[k - 1]
    BY ONLY p \in Nat, p >= 1, N \in Nat, Falling(v, t, N), <1>1, <1>2, LastIsBelow
  <1>5. 0 \in Good
    <2>1. slow[0] = t[q] /\ su[0] = q
      BY DEF Averages
    <2>2. m \in 0 .. r /\ m + 0 = m
      BY <1>1
    <2>3. fast[m] * (p + m) <= t[p + m] * fu[m]
      BY <1>3, <2>2
    <2>4. fast[m] * su[0] <= slow[0] * fu[m]
      BY <1>1, <2>1, <2>3, Zenon
    <2> QED BY <1>1, <2>2, <2>4
  <1>6. \A k \in 1 .. n : k - 1 \in Good => k \in Good
    <2> SUFFICES ASSUME NEW k \in 1 .. n, k - 1 \in Good PROVE k \in Good
      OBVIOUS
    <2> DEFINE i == m + k
               d == v[q + k]
               x == fast[i - 1]
               y == fu[i - 1]
               u == slow[k - 1]
               w == su[k - 1]
    <2>1. /\ i \in 1 .. r /\ p + i = q + k /\ q + k \in 1 .. N
          /\ k - 1 \in 0 .. n /\ k \in 0 .. n /\ m + (k - 1) = i - 1
      BY <1>1
    <2> HIDE DEF i
    <2>2. d \in Int
      BY <2>1 DEF Falling
    <2>3. x \in Int /\ y \in Int /\ fu[i] = y * (p + 1) /\ fast[i] = x * (p - 1) + d * 2 * y
      <3>1. /\ fast[i - 1] \in Int /\ fu[i - 1] \in Int /\ fu[i] = fu[i - 1] * (p + 1)
            /\ fast[i] = fast[i - 1] * (p - 1) + v[p + i] * 2 * fu[i - 1]
        BY <1>1, <1>2, <2>1, AverageStep
      <3> QED BY <2>1, <3>1, Zenon
    <2>4. u \in Int /\ w \in Int /\ su[k] = w * (q + 1) /\ slow[k] = u * (q - 1) + d * 2 * w
      BY <1>1, <1>2, AverageStep
    <2>5. d * y <= x
      <3>1. v[p + i] * fu[i - 1] <= fast[i - 1]
        BY <1>4, <2>1
      <3> QED BY <2>1, <3>1, Zenon
    <2>6. x * w <= u * y
      BY <2>1, Zenon
    <2>7. w > 0
      BY <1>2, <2>1
    <2> HIDE DEF d, x, y, u, w
    <2>8. (x * (p - 1) + d * 2 * y) * (w * (q + 1)) <= (u * (q - 1) + d * 2 * w) * (y * (p + 1))
      <3>1. p \in Int /\ q \in Int /\ p >= 1 /\ q >= p /\ w >= 0
        BY <2>4, <2>7
      <3> QED BY <2>2, <2>3, <2>4, <2>5, <2>6, <3>1, StaysBelowSlow
    <2>9. fast[m + k] * su[k] <= slow[k] * fu[m + k]
      BY <2>3, <2>4, <2>8, Zenon DEF i
    <2> QED BY <2>1, <2>9
  <1>7. \A k \in 0 .. n : k \in Good
    <2> HIDE DEF Good
    <2> QED BY ONLY <1>1, <1>5, <1>6, CountUp
  <1>8. n \in Good
    BY <1>1, <1>7
  <1> QED BY <1>1, <1>8 DEF n, r

(* A market that never rises, and one that never falls.                    *)
NeverRises(v) == \A i \in 2 .. Len(v) : v[i] <= v[i - 1]
NeverFalls(v) == \A i \in 2 .. Len(v) : v[i] >= v[i - 1]

LEMMA PositiveTotals ==
  ASSUME NEW v \in Seq(Int), \A i \in 1 .. Len(v) : v[i] >= 0, NEW t, Totals(t, v)
  PROVE  \A k \in 0 .. Len(v) : t[k] \in Int /\ t[k] >= 0
  <1> DEFINE n == Len(v)
             Good == {k \in 0 .. n : t[k] \in Int /\ t[k] >= 0}
  <1>1. n \in Nat /\ \A k \in 1 .. n : v[k] \in Int
    BY ElementOfSeq, LenProperties
  <1>2. t[0] = 0 /\ \A k \in 1 .. n : t[k] = t[k - 1] + v[k]
    BY DEF Totals
  <1>3. 0 \in Good
    BY <1>1, <1>2
  <1>4. \A k \in 1 .. n : k - 1 \in Good => k \in Good
    <2> SUFFICES ASSUME NEW k \in 1 .. n, k - 1 \in Good PROVE k \in Good
      OBVIOUS
    <2>1. k \in 0 .. n /\ v[k] \in Int /\ v[k] >= 0 /\ t[k - 1] \in Int /\ t[k - 1] >= 0
      BY <1>1
    <2>2. t[k] = t[k - 1] + v[k]
      BY <1>2
    <2> QED BY <2>1, <2>2
  <1>5. \A k \in 0 .. n : k \in Good
    <2> HIDE DEF Good, n
    <2> QED BY ONLY <1>1, <1>3, <1>4, CountUp
  <1> QED BY <1>5

LEMMA PositiveAverages ==
  ASSUME NEW sum, NEW unit, NEW t, NEW v, NEW p, NEW n, Averages(sum, unit, t, v, p, n),
         p \in Nat, p >= 1, n \in Nat, t[p] >= 0,
         \A k \in 0 .. n : unit[k] > 0, \A k \in 1 .. n : v[p + k] \in Int /\ v[p + k] >= 0
  PROVE  \A k \in 0 .. n : sum[k] >= 0
  <1> DEFINE Good == {k \in 0 .. n : sum[k] >= 0}
  <1>1. 0 \in Good
    BY DEF Averages
  <1>2. \A k \in 1 .. n : k - 1 \in Good => k \in Good
    <2> SUFFICES ASSUME NEW k \in 1 .. n, k - 1 \in Good PROVE k \in Good
      OBVIOUS
    <2> DEFINE x == sum[k - 1]
               y == unit[k - 1]
               d == v[p + k]
    <2>1. k - 1 \in 0 .. n /\ k \in 0 .. n
      OBVIOUS
    <2>2. /\ sum[k - 1] \in Int /\ unit[k - 1] \in Int
          /\ sum[k] = sum[k - 1] * (p - 1) + v[p + k] * 2 * unit[k - 1]
      BY AverageStep
    <2>3. x \in Int /\ y \in Int /\ d \in Int /\ x >= 0 /\ y >= 0 /\ d >= 0
      BY <2>1, <2>2
    <2>4. sum[k] = x * (p - 1) + d * 2 * y
      BY <2>2
    <2> HIDE DEF x, y, d
    <2>5. \A a, b \in Int : a >= 0 /\ b >= 0 => a * b \in Int /\ a * b >= 0
      OBVIOUS
    <2>6. p - 1 \in Int /\ p - 1 >= 0 /\ d * 2 \in Int /\ d * 2 >= 0
      BY <2>3
    <2>7. x * (p - 1) \in Int /\ x * (p - 1) >= 0 /\ (d * 2) * y \in Int /\ (d * 2) * y >= 0
      BY <2>3, <2>5, <2>6
    <2>8. sum[k] >= 0
      BY <2>4, <2>7
    <2> QED BY <2>1, <2>8
  <1>3. \A k \in 0 .. n : k \in Good
    <2> HIDE DEF Good
    <2> QED BY ONLY n \in Nat, <1>1, <1>2, CountUp
  <1> QED BY <1>3

LEMMA EmasOfFalling ==
  ASSUME NEW v \in Seq(Int), NeverRises(v), NEW p \in Nat, NEW q \in Nat, p >= 1, p < q, q <= Len(v)
  PROVE  Ema(v, p)[1] * Ema(v, q)[2] <= Ema(v, q)[1] * Ema(v, p)[2]
  <1> DEFINE N == Len(v)
  <1>1. N \in Nat /\ q > 0 /\ p > 0 /\ p <= N /\ \A i \in 1 .. N : v[i] \in Int
    BY ElementOfSeq, LenProperties
  <1>2. PICK t : Totals(t, v)
    BY TotalsExist
  <1>3. PICK fast, fu : /\ Averages(fast, fu, t, v, p, N - p)
                        /\ \A k \in 0 .. N - p : fu[k] > 0
                        /\ Ema(v, p) = <<fast[N - p], fu[N - p]>>
    BY <1>1, <1>2, EmaIs
  <1>4. PICK slow, su : /\ Averages(slow, su, t, v, q, N - q)
                        /\ \A k \in 0 .. N - q : su[k] > 0
                        /\ Ema(v, q) = <<slow[N - q], su[N - q]>>
    BY <1>1, <1>2, EmaIs
  <1>5. Falling(v, t, N)
    BY <1>1, <1>2 DEF Totals, Falling, NeverRises
  <1> HIDE DEF N
  <1>6. q <= N
    BY DEF N
  <1>7. fast[N - p] * su[N - q] <= slow[N - q] * fu[N - p]
    BY ONLY p \in Nat, q \in Nat, p >= 1, p < q, <1>1, <1>3, <1>4, <1>5, <1>6, FastIsLower
  <1>8. Ema(v, p)[1] = fast[N - p] /\ Ema(v, p)[2] = fu[N - p]
        /\ Ema(v, q)[1] = slow[N - q] /\ Ema(v, q)[2] = su[N - q]
    BY <1>3, <1>4
  <1> QED BY <1>7, <1>8, Zenon

LEMMA AveragesTurn ==
  ASSUME NEW sum, NEW unit, NEW t, NEW v, NEW p, NEW n, NEW N, Averages(sum, unit, t, v, p, n),
         p \in Nat, n \in Nat, N \in Nat, p + n = N,
         t \in [0 .. N -> Int], \A i \in 1 .. N : v[i] \in Int
  PROVE  Averages([k \in 0 .. n |-> -sum[k]], unit, [k \in 0 .. N |-> -t[k]],
                  [i \in 1 .. N |-> -v[i]], p, n)
  <1> DEFINE nv == [i \in 1 .. N |-> -v[i]]
             nt == [k \in 0 .. N |-> -t[k]]
             ns == [k \in 0 .. n |-> -sum[k]]
  <1>1. sum \in [0 .. n -> Int] /\ unit \in [0 .. n -> Int]
    BY Zenon DEF Averages
  <1>2. \A i \in 1 .. N : nv[i] = -v[i]
    OBVIOUS
  <1>3. \A k \in 0 .. n : ns[k] = -sum[k]
    OBVIOUS
  <1>4. nt[p] = -t[p]
    OBVIOUS
  <1>5. ns \in [0 .. n -> Int]
    BY <1>1
  <1> HIDE DEF nv, nt, ns
  <1>6. ns[0] = nt[p] /\ unit[0] = p
    BY <1>3, <1>4 DEF Averages
  <1>7. ASSUME NEW k \in 1 .. n
        PROVE  ns[k] = ns[k - 1] * (p - 1) + nv[p + k] * 2 * unit[k - 1]
    <2> DEFINE x == sum[k - 1]
               y == unit[k - 1]
               d == v[p + k]
    <2>1. k - 1 \in 0 .. n /\ k \in 0 .. n /\ p + k \in 1 .. N
      OBVIOUS
    <2>2. sum[k] = sum[k - 1] * (p - 1) + v[p + k] * 2 * unit[k - 1]
      BY Zenon DEF Averages
    <2>3. x \in Int /\ y \in Int /\ d \in Int
      BY <1>1, <2>1
    <2>4. ns[k] = -(x * (p - 1) + d * 2 * y) /\ ns[k - 1] = -x /\ nv[p + k] = -d
      BY <1>2, <1>3, <2>1, <2>2
    <2> HIDE DEF x, d
    <2>5. -(x * (p - 1) + d * 2 * y) = (-x) * (p - 1) + (-d) * 2 * y
      <3> HIDE DEF y
      <3> QED BY <2>3
    <2> QED BY <2>4, <2>5, Zenon
  <1>8. \A k \in 1 .. n : unit[k] = unit[k - 1] * (p + 1)
    BY Zenon DEF Averages
  <1>9. Averages(ns, unit, nt, nv, p, n)
    BY <1>1, <1>5, <1>6, <1>7, <1>8, Zenon DEF Averages
  <1> QED BY <1>9 DEF ns, nt, nv

(* What holds of falling values holds, turned round, of rising ones.       *)
LEMMA EmasOfRising ==
  ASSUME NEW v \in Seq(Int), NeverFalls(v), NEW p \in Nat, NEW q \in Nat, p >= 1, p < q, q <= Len(v)
  PROVE  Ema(v, q)[1] * Ema(v, p)[2] <= Ema(v, p)[1] * Ema(v, q)[2]
  <1> DEFINE N == Len(v)
             nv == [i \in 1 .. N |-> -v[i]]
  <1>1. N \in Nat /\ q > 0 /\ p > 0 /\ p <= N /\ \A i \in 1 .. N : v[i] \in Int
    BY ElementOfSeq, LenProperties
  <1>2. PICK t : Totals(t, v)
    BY TotalsExist
  <1>3. PICK fast, fu : /\ Averages(fast, fu, t, v, p, N - p)
                        /\ \A k \in 0 .. N - p : fu[k] > 0
                        /\ Ema(v, p) = <<fast[N - p], fu[N - p]>>
    BY <1>1, <1>2, EmaIs
  <1>4. PICK slow, su : /\ Averages(slow, su, t, v, q, N - q)
                        /\ \A k \in 0 .. N - q : su[k] > 0
                        /\ Ema(v, q) = <<slow[N - q], su[N - q]>>
    BY <1>1, <1>2, EmaIs
  <1> DEFINE nt == [k \in 0 .. N |-> -t[k]]
             nf == [k \in 0 .. N - p |-> -fast[k]]
             ns == [k \in 0 .. N - q |-> -slow[k]]
  <1>5. Falling(nv, nt, N)
    <2>1. t \in [0 .. N -> Int] /\ t[0] = 0 /\ \A k \in 1 .. N : t[k] = t[k - 1] + v[k]
      BY <1>2 DEF Totals
    <2>2. \A i \in 1 .. N : nv[i] = -v[i] /\ nv[i] \in Int
      BY <1>1
    <2>3. \A k \in 0 .. N : nt[k] = -t[k]
      OBVIOUS
    <2>4. nt \in [0 .. N -> Int]
      BY <2>1
    <2> HIDE DEF nv, nt, N
    <2>5. nt[0] = 0
      BY <1>1, <2>1, <2>3
    <2>6. ASSUME NEW k \in 1 .. N PROVE nt[k] = nt[k - 1] + nv[k]
      <3>1. k - 1 \in 0 .. N /\ k \in 0 .. N
        BY <1>1
      <3>2. t[k] = t[k - 1] + v[k] /\ v[k] \in Int /\ t[k - 1] \in Int /\ t[k] \in Int
        BY <1>1, <2>1, <3>1
      <3> QED BY <2>2, <2>3, <3>1, <3>2
    <2>7. ASSUME NEW i \in 2 .. N PROVE nv[i] <= nv[i - 1]
      <3>1. i - 1 \in 1 .. N /\ i \in 1 .. N /\ i \in 2 .. Len(v)
        BY <1>1 DEF N
      <3>2. v[i] >= v[i - 1] /\ v[i] \in Int /\ v[i - 1] \in Int
        BY <1>1, <3>1 DEF NeverFalls
      <3> QED BY <2>2, <3>1, <3>2
    <2> QED BY <2>2, <2>4, <2>5, <2>6, <2>7 DEF Falling
  <1>6. Averages(nf, fu, nt, nv, p, N - p) /\ Averages(ns, su, nt, nv, q, N - q)
    <2>1. /\ N - p \in Nat /\ p + (N - p) = N /\ N - q \in Nat /\ q + (N - q) = N
      BY <1>1
    <2>2. t \in [0 .. N -> Int]
      BY <1>2 DEF Totals
    <2> HIDE DEF N
    <2>3. Averages(nf, fu, nt, nv, p, N - p)
      BY <1>1, <1>3, <2>1, <2>2, AveragesTurn
    <2>4. Averages(ns, su, nt, nv, q, N - q)
      BY <1>1, <1>4, <2>1, <2>2, AveragesTurn
    <2> QED BY <2>3, <2>4
  <1>8. fast[N - p] \in Int /\ fu[N - p] \in Int /\ slow[N - q] \in Int /\ su[N - q] \in Int
        /\ nf[N - p] = -fast[N - p] /\ ns[N - q] = -slow[N - q]
    <2>1. N - p \in 0 .. N - p /\ N - q \in 0 .. N - q
      BY <1>1
    <2> QED BY <1>3, <1>4, <2>1 DEF Averages
  <1> HIDE DEF N, nv, nt, nf, ns
  <1>9. q <= N
    BY DEF N
  <1>10. nf[N - p] * su[N - q] <= ns[N - q] * fu[N - p]
    BY ONLY p \in Nat, q \in Nat, p >= 1, p < q, <1>1, <1>3, <1>4, <1>5, <1>6, <1>9, FastIsLower
  <1>11. slow[N - q] * fu[N - p] <= fast[N - p] * su[N - q]
    <2> DEFINE x == fast[N - p]
               y == fu[N - p]
               u == slow[N - q]
               w == su[N - q]
    <2>1. x \in Int /\ y \in Int /\ u \in Int /\ w \in Int /\ (-x) * w <= (-u) * y
      BY <1>8, <1>10
    <2> HIDE DEF x, y, u, w
    <2>2. (-x) * w = -(x * w) /\ (-u) * y = -(u * y) /\ x * w \in Int /\ u * y \in Int
      BY <2>1
    <2>3. u * y <= x * w
      BY <2>1, <2>2
    <2> QED BY <2>3 DEF x, y, u, w
  <1>12. Ema(v, p)[1] = fast[N - p] /\ Ema(v, p)[2] = fu[N - p]
         /\ Ema(v, q)[1] = slow[N - q] /\ Ema(v, q)[2] = su[N - q]
    BY <1>3, <1>4
  <1> QED BY <1>11, <1>12, Zenon

LEMMA EmaIsPositive ==
  ASSUME NEW v \in Seq(Int), \A i \in 1 .. Len(v) : v[i] >= 0, NEW p \in Nat, p >= 1, p <= Len(v)
  PROVE  Ema(v, p)[1] \in Int /\ Ema(v, p)[2] \in Int /\ Ema(v, p)[1] >= 0 /\ Ema(v, p)[2] > 0
  <1> DEFINE N == Len(v)
             n == N - p
  <1>1. N \in Nat /\ n \in Nat /\ p > 0 /\ \A i \in 1 .. N : v[i] \in Int /\ v[i] >= 0
    BY ElementOfSeq, LenProperties
  <1>2. PICK t : Totals(t, v)
    BY TotalsExist
  <1>3. PICK sum, unit : /\ Averages(sum, unit, t, v, p, n)
                         /\ \A k \in 0 .. n : unit[k] > 0
                         /\ Ema(v, p) = <<sum[n], unit[n]>>
    BY <1>1, <1>2, EmaIs
  <1>4. p \in 0 .. N /\ n \in 0 .. n /\ \A k \in 1 .. n : p + k \in 1 .. N
    BY <1>1
  <1>5. t[p] >= 0
    BY <1>2, <1>4, PositiveTotals
  <1>6. \A k \in 1 .. n : v[p + k] \in Int /\ v[p + k] >= 0
    BY <1>1, <1>4
  <1> HIDE DEF n, N
  <1>7. \A k \in 0 .. n : sum[k] >= 0
    BY ONLY p \in Nat, p >= 1, <1>1, <1>3, <1>5, <1>6, PositiveAverages
  <1>8. sum[n] \in Int /\ unit[n] \in Int
    BY <1>3, <1>4 DEF Averages
  <1>9. Ema(v, p)[1] = sum[n] /\ Ema(v, p)[2] = unit[n]
    BY <1>3
  <1> QED BY <1>3, <1>4, <1>7, <1>8, <1>9

-----------------------------------------------------------------------------
(* Labels and regimes.                                                     *)

LEMMA AveragePeriods ==
  /\ FastPeriod \in Nat /\ FastPeriod >= 1 /\ SlowPeriod \in Nat /\ FastPeriod < SlowPeriod
  /\ Deadband \in Int /\ 0 <= Deadband /\ Deadband <= 100
  <1>1. FastPeriod \in Nat \ {0} /\ Deadband \in 0 .. 100 /\ SlowPeriod \in Nat /\ FastPeriod < SlowPeriod
    BY IndicatorsAssumption
  <1> QED BY <1>1

LEMMA WithinBand ==
  ASSUME NEW a \in Int, NEW b \in Int, NEW c \in Int, NEW d \in Int, NEW band \in Int,
         0 <= band, band <= 100, c >= 0, b > 0, a >= 0, d > 0
  PROVE  /\ a * d <= c * b => ~(100 * a * d > (100 + band) * c * b)
         /\ c * b <= a * d => ~(100 * a * d < (100 - band) * c * b)
  <1> DEFINE x == a * d
             y == c * b
  <1>1. \A m, n \in Int : m >= 0 /\ n >= 0 => m * n \in Int /\ m * n >= 0
    OBVIOUS
  <1>2. x \in Int /\ y \in Int /\ y >= 0
    BY <1>1
  <1>3. 100 * a * d = 100 * x /\ (100 + band) * c * b = 100 * y + band * y
        /\ (100 - band) * c * b = 100 * y - band * y
    OBVIOUS
  <1> HIDE DEF x, y
  <1>4. band * y \in Int /\ band * y >= 0
    BY <1>1, <1>2
  <1>5. x <= y => ~(100 * x > 100 * y + band * y)
    BY <1>2, <1>4
  <1>6. y <= x => ~(100 * x < 100 * y - band * y)
    BY <1>2, <1>4
  <1> QED BY <1>3, <1>5, <1>6 DEF x, y

(* The closes of the days are closes of hours.                             *)
LEMMA DailyCloses ==
  ASSUME NEW hours \in Seq(Candles)
  PROVE  LET daily == Loaded(Every(Day, hours)) closes == Column(daily, "close") IN
         /\ closes \in Seq(Int) /\ Len(closes) = Len(daily) /\ \A i \in 1 .. Len(closes) : closes[i] >= 0
  <1> DEFINE daily == Every(Day, hours)
             at(i) == SubSeq(hours, (i - 1) * Day + 1, i * Day)
             day(part) == [open |-> part[1].open, close |-> part[Day].close,
                           high |-> Max({part[j].high : j \in 1 .. Day}),
                           low |-> Min({part[j].low : j \in 1 .. Day}),
                           volume |-> Total(Column(part, "volume"))]
             a == Len(hours) \div Day
  <1>1. Len(hours) \in Nat /\ Day \in Nat \ {0}
    BY Config, LenProperties
  <1>2. a \in Nat
    BY <1>1, Division
  <1>3. daily = [i \in 1 .. a |-> day(at(i))]
    BY Zenon DEF Every
  <1>4. ASSUME NEW i \in 1 .. a PROVE daily[i].close \in Nat
    <2> DEFINE from == (i - 1) * Day + 1
               to == i * Day
    <2>1. from \in Int /\ to \in Int /\ from > 0 /\ to <= Len(hours) /\ to - from + 1 = Day
      <3>1. from \in Nat /\ from > 0 /\ to \in Nat /\ to <= Len(hours) /\ to - from + 1 = Day
        BY <1>1, PartsFit, Zenon
      <3> HIDE DEF from, to
      <3> QED BY <3>1
    <2> HIDE DEF from, to
    <2>2. \A j \in from .. to : hours[j] \in Candles
      <3>1. \A j \in from .. to : j \in 1 .. Len(hours)
        BY <1>1, <2>1
      <3> QED BY <3>1, ElementOfSeq
    <2>3. SubSeq(hours, from, to) \in Seq(Candles) /\ Len(SubSeq(hours, from, to)) = Day
      <3>1. /\ SubSeq(hours, from, to) \in Seq(Candles)
            /\ Len(SubSeq(hours, from, to)) = IF from <= to THEN to - from + 1 ELSE 0
        BY <2>1, <2>2, SubSeqProperties
      <3> QED BY <1>1, <2>1, <3>1
    <2> DEFINE part == SubSeq(hours, from, to)
    <2>4. part[Day] \in Candles
      <3> HIDE DEF part
      <3>1. Day \in 1 .. Day
        BY <1>1
      <3>2. part \in Seq(Candles) /\ Len(part) = Day
        BY <2>3 DEF part
      <3> QED BY <3>1, <3>2, ElementOfSeq
    <2>5. part[Day].close \in Nat
      <3> HIDE DEF part
      <3> QED BY <2>4 DEF Candles
    <2>6. daily[i] = day(at(i))
      <3> HIDE DEF at, day, daily
      <3> QED BY <1>3
    <2>7. at(i) = part
      BY Zenon DEF from, to
    <2> HIDE DEF part, at, daily
    <2>8. day(part).close = part[Day].close
      OBVIOUS
    <2> QED BY <2>5, <2>6, <2>7, <2>8, Zenon
  <1> HIDE DEF at, day, a
  <1>5. DOMAIN daily = 1 .. a
    <2> HIDE DEF daily
    <2> QED BY <1>3
  <1> HIDE DEF daily
  <1>6. daily \in Seq({daily[i] : i \in 1 .. a}) /\ Len(daily) = a
    <2>1. daily \in [1 .. a -> {daily[i] : i \in 1 .. a}]
      <3>1. daily = [i \in DOMAIN daily |-> daily[i]]
        BY <1>3, <1>5
      <3> QED BY <1>5, <3>1
    <2> QED BY <1>2, <2>1, FromFunction
  <1> DEFINE part == Loaded(daily)
             l == Len(part)
             closes == Column(part, "close")
  <1>7. /\ l \in Nat /\ l <= a /\ part \in Seq({daily[i] : i \in 1 .. a})
        /\ \A i \in 1 .. l : part[i] = daily[a - l + i]
    <2>1. /\ part \in Seq({daily[i] : i \in 1 .. a}) /\ l \in Nat
          /\ l = IF a <= LoadLimit THEN a ELSE LoadLimit
          /\ \A i \in 1 .. l : part[i] = daily[a - l + i]
      BY <1>6, LoadedIs, Zenon
    <2>2. LoadLimit \in Nat
      BY Config
    <2> HIDE DEF part, l
    <2> QED BY <1>2, <2>1, <2>2
  <1>8. \A i \in 1 .. l : part[i].close \in Nat
    <2> HIDE DEF part, l
    <2>1. \A i \in 1 .. l : a - l + i \in 1 .. a
      BY <1>2, <1>7
    <2> QED BY <1>4, <1>7, <2>1
  <1>9. DOMAIN part = 1 .. l
    <2> HIDE DEF part
    <2> QED BY <1>7, LenProperties DEF l
  <1> HIDE DEF part, l
  <1>10. closes \in [1 .. l -> Int] /\ \A i \in 1 .. l : closes[i] = part[i].close
    BY <1>8, <1>9 DEF Column
  <1> HIDE DEF closes
  <1>11. closes \in Seq(Int) /\ Len(closes) = l
    BY <1>7, <1>10, FromFunction
  <1>12. \A i \in 1 .. Len(closes) : closes[i] >= 0
    BY <1>8, <1>10, <1>11
  <1>13. Len(closes) = Len(part)
    BY <1>11 DEF l
  <1> QED BY <1>11, <1>12, <1>13, Zenon DEF closes, part, daily

LEMMA LabelsFollow ==
  ASSUME NEW v \in Seq(Int), \A i \in 1 .. Len(v) : v[i] >= 0
  PROVE  /\ NeverRises(v) => TrendLabel(v) # "uptrend"
         /\ NeverFalls(v) => TrendLabel(v) # "downtrend"
         /\ NeverRises(v) /\ SlowPeriod <= Len(v) => ~Less(Ema(v, SlowPeriod), Ema(v, FastPeriod))
         /\ NeverFalls(v) /\ SlowPeriod <= Len(v) => ~Less(Ema(v, FastPeriod), Ema(v, SlowPeriod))
  <1> DEFINE fast == Ema(v, FastPeriod)
             slow == Ema(v, SlowPeriod)
             a == fast[1]
             b == fast[2]
             c == slow[1]
             d == slow[2]
  <1>1. CASE ~(SlowPeriod <= Len(v))
    <2>1. Len(v) < SlowPeriod
      BY <1>1, AveragePeriods, LenProperties
    <2>2. TrendLabel(v) = "sideways"
      BY <2>1, Zenon DEF TrendLabel
    <2> QED BY <1>1, <2>2
  <1>2. CASE SlowPeriod <= Len(v)
    <2>1. /\ FastPeriod \in Nat /\ FastPeriod >= 1 /\ FastPeriod <= Len(v)
          /\ SlowPeriod \in Nat /\ SlowPeriod >= 1 /\ FastPeriod < SlowPeriod
      BY <1>2, AveragePeriods, LenProperties
    <2>2. a \in Int /\ b \in Int /\ a >= 0 /\ b > 0
      BY <2>1, EmaIsPositive
    <2>3. c \in Int /\ d \in Int /\ c >= 0 /\ d > 0
      BY <1>2, <2>1, EmaIsPositive
    <2>4. NeverRises(v) => a * d <= c * b
      BY <1>2, <2>1, EmasOfFalling
    <2>5. NeverFalls(v) => c * b <= a * d
      BY <1>2, <2>1, EmasOfRising
    <2>6. ~(Len(v) < SlowPeriod)
      BY <1>2, <2>1, LenProperties
    <2>7. TrendLabel(v) = CASE FarAbove(fast, slow) -> "uptrend"
                            [] FarBelow(fast, slow) -> "downtrend"
                            [] OTHER -> "sideways"
      BY <2>6, Zenon DEF TrendLabel
    <2>8. /\ FarAbove(fast, slow) <=> (100 * a * d > (100 + Deadband) * c * b)
          /\ FarBelow(fast, slow) <=> (100 * a * d < (100 - Deadband) * c * b)
          /\ Less(slow, fast) <=> (c * b < a * d)
          /\ Less(fast, slow) <=> (a * d < c * b)
      BY Zenon DEF FarAbove, FarBelow, Less
    <2> HIDE DEF a, b, c, d
    <2>9. /\ a * d <= c * b => ~(100 * a * d > (100 + Deadband) * c * b)
          /\ c * b <= a * d => ~(100 * a * d < (100 - Deadband) * c * b)
      BY <2>2, <2>3, AveragePeriods, WithinBand
    <2>10. a * d \in Int /\ c * b \in Int
      BY <2>2, <2>3
    <2> DEFINE e == a * d
               f == c * b
    <2> HIDE DEF fast, slow
    <2>11. (NeverRises(v) => ~FarAbove(fast, slow)) /\ (NeverFalls(v) => ~FarBelow(fast, slow))
      BY <2>4, <2>5, <2>8, <2>9, Zenon
    <2>12. (NeverRises(v) => TrendLabel(v) # "uptrend") /\ (NeverFalls(v) => TrendLabel(v) # "downtrend")
      BY <2>7, <2>11
    <2>13. (e <= f => ~(f < e)) /\ (f <= e => ~(e < f))
      <3> HIDE DEF e, f
      <3>1. e \in Int /\ f \in Int
        BY <2>10 DEF e, f
      <3> QED BY <3>1
    <2>14. (NeverRises(v) => ~Less(slow, fast)) /\ (NeverFalls(v) => ~Less(fast, slow))
      BY <2>4, <2>5, <2>8, <2>13, Zenon
    <2> QED BY <2>12, <2>14, Zenon DEF fast, slow
  <1> QED BY <1>1, <1>2

LEMMA ReadFollows == Read => TrendFollows
  <1> SUFFICES ASSUME Read PROVE TrendFollows
    OBVIOUS
  <1> DEFINE daily == Loaded(Every(Day, hourly))
             closes == Column(daily, "close")
  <1>1. closes \in Seq(Int) /\ Len(closes) = Len(daily) /\ \A i \in 1 .. Len(closes) : closes[i] >= 0
    <2>1. hourly \in Seq(Candles)
      BY Zenon DEF Read
    <2> QED BY <2>1, DailyCloses, Zenon
  <1> HIDE DEF daily, closes
  <1>2. /\ NeverRises(closes) => TrendLabel(closes) # "uptrend"
        /\ NeverFalls(closes) => TrendLabel(closes) # "downtrend"
        /\ NeverRises(closes) /\ SlowPeriod <= Len(closes)
             => ~Less(Ema(closes, SlowPeriod), Ema(closes, FastPeriod))
        /\ NeverFalls(closes) /\ SlowPeriod <= Len(closes)
             => ~Less(Ema(closes, FastPeriod), Ema(closes, SlowPeriod))
    BY <1>1, LabelsFollow, Zenon
  <1> DEFINE short == Ema(closes, FastPeriod)
             long == Ema(closes, SlowPeriod)
             volHigh == ~AtMost(AtrPercentile(daily), AtrHigh)
             regime == IF Len(daily) < SlowPeriod \/ Atr(daily) = None THEN "unknown"
                       ELSE CASE Less(long, short) /\ ~volHigh -> "risk_on"
                              [] Less(short, long) /\ volHigh -> "risk_off"
                              [] OTHER -> "neutral"
  <1>3. ClassifyRegime(daily) = regime
    BY Zenon DEF ClassifyRegime, closes
  <1>4. ~(Len(daily) < SlowPeriod) => SlowPeriod <= Len(closes)
    BY <1>1, AveragePeriods, LenProperties
  <1>5. /\ NeverRises(closes) => (~(Len(daily) < SlowPeriod) => ~Less(long, short))
        /\ NeverFalls(closes) => (~(Len(daily) < SlowPeriod) => ~Less(short, long))
    BY <1>2, <1>4, Zenon
  <1>6. (NeverRises(closes) => regime # "risk_on") /\ (NeverFalls(closes) => regime # "risk_off")
    <2> HIDE DEF short, long, volHigh
    <2> QED BY <1>5
  <1>7. /\ NeverRises(closes) => TrendLabel(closes) # "uptrend" /\ ClassifyRegime(daily) # "risk_on"
        /\ NeverFalls(closes) => TrendLabel(closes) # "downtrend" /\ ClassifyRegime(daily) # "risk_off"
    BY <1>2, <1>3, <1>6, Zenon
  <1> QED BY <1>7, Zenon DEF TrendFollows, NeverRises, NeverFalls, closes, daily

(* trend_label and classify_regime never turn a market round, whatever the *)
(* two periods are and however long it has moved one way.                  *)
THEOREM TrendsFollow == Spec => []TrendFollows
  BY Reads, ReadFollows, PTL

=============================================================================
