------------------------------ MODULE Indicators ------------------------------
(***************************************************************************)
(* The pure functions on closed candles (crypto_monitor/indicators) and    *)
(* the market regime they give (regime/classifier.py).                     *)
(*                                                                         *)
(* Prices and volumes are natural numbers.  An average is an exact         *)
(* fraction <<numerator, denominator>>; None is what the code returns when *)
(* the history is too short.                                               *)
(***************************************************************************)
EXTENDS Integers, Sequences, FiniteSets, FiniteSetsExt, SequencesExt

CONSTANTS
  RsiPeriod, RsiLookback, Oversold,     (* rsi, detect_rsi_recovery        *)
  AtrPeriod, AtrLookback, AtrHigh,      (* atr, _atr_percentile            *)
  FastPeriod, SlowPeriod, Deadband,     (* trend_label, in percent         *)
  VolumePeriod, ReclaimLookback, DivergenceWindow,
  SwingWindow, SupportLookback          (* find_heuristic_support          *)

ASSUME IndicatorsAssumption ==
  /\ {AtrPeriod, AtrLookback, FastPeriod, VolumePeriod, ReclaimLookback,
      SwingWindow, SupportLookback} \subseteq Nat \ {0}
  /\ {RsiPeriod, RsiLookback} \subseteq Nat \ {0, 1}
  /\ {Oversold, AtrHigh, Deadband} \subseteq 0 .. 100
  /\ SlowPeriod \in Nat /\ FastPeriod < SlowPeriod
  /\ DivergenceWindow \in Nat /\ DivergenceWindow >= 4

None == <<>>

Less(a, b) == a[1] * b[2] < b[1] * a[2]
AtLeast(a, level) == a # None /\ a[1] >= level * a[2]
AtMost(a, level) == a # None /\ a[1] <= level * a[2]

Abs(x) == IF x < 0 THEN -x ELSE x
Column(candles, field) == [i \in DOMAIN candles |-> candles[i][field]]
Until(s, n) == SubSeq(s, 1, n)
Total(s) ==
  LET sum[n \in 0 .. Len(s)] == IF n = 0 THEN 0 ELSE sum[n - 1] + s[n] IN sum[Len(s)]

-----------------------------------------------------------------------------
(* Wilder's smoothing: the mean of the first p values, then each further   *)
(* one with weight 1/p.  The average after k further values is             *)
(* Wilder(xs, p)[k] / p^(k + 1).                                           *)
Wilder(xs, p) ==
  LET sum[k \in 0 .. Len(xs) - p] ==
        IF k = 0 THEN Total(Until(xs, p)) ELSE sum[k - 1] * (p - 1) + xs[p + k] * p ^ k
  IN  sum

Gains(closes) == [i \in 1 .. Len(closes) - 1 |-> Max({closes[i + 1] - closes[i], 0})]
Losses(closes) == [i \in 1 .. Len(closes) - 1 |-> Max({closes[i] - closes[i + 1], 0})]

(* 100 - 100 / (1 + gain / loss); a market that does not move is neutral.  *)
RsiFrom(gain, loss) ==
  IF gain = 0 /\ loss = 0 THEN <<50, 1>> ELSE <<100 * gain, gain + loss>>

Rsi(closes) ==
  IF Len(closes) < RsiPeriod + 1 THEN None
  ELSE LET last == Len(closes) - 1 - RsiPeriod IN
       RsiFrom(Wilder(Gains(closes), RsiPeriod)[last], Wilder(Losses(closes), RsiPeriod)[last])

(* Variant: the values of the loop are stored one place early.             *)
RsiSeriesEarly(closes) ==
  LET gain == Wilder(Gains(closes), RsiPeriod)
      loss == Wilder(Losses(closes), RsiPeriod) IN
  [i \in DOMAIN closes |->
     LET k == i - RsiPeriod IN
     IF k < 0 \/ k \notin DOMAIN gain THEN None ELSE RsiFrom(gain[k], loss[k])]

(* The RSI at every candle, for the divergence detector.                   *)
RsiSeries(closes) ==
  LET gain == Wilder(Gains(closes), RsiPeriod)
      loss == Wilder(Losses(closes), RsiPeriod) IN
  [i \in DOMAIN closes |->
     LET k == i - 1 - RsiPeriod IN IF k < 0 THEN None ELSE RsiFrom(gain[k], loss[k])]

TrueRange(candles) ==
  [i \in DOMAIN candles |->
     LET c == candles[i] IN
     IF i = 1 THEN c.high - c.low
     ELSE LET before == candles[i - 1].close IN
          Max({c.high - c.low, Abs(c.high - before), Abs(c.low - before)})]

Atr(candles) ==
  LET k == Len(candles) - AtrPeriod IN
  IF k < 0 THEN None ELSE <<Wilder(TrueRange(candles), AtrPeriod)[k], AtrPeriod ^ (k + 1)>>

(* The share of the last AtrLookback ATRs that are at most the latest one. *)
AtrPercentile(candles) ==
  LET last == Len(candles) - AtrPeriod
      window == Max({0, last - AtrLookback + 1}) .. last
      sums == Wilder(TrueRange(candles), AtrPeriod)
      below == {k \in window : sums[k] * AtrPeriod ^ (last - k) <= sums[last]} IN
  IF last < 1 \/ Cardinality(window) < 2 THEN <<50, 1>>
  ELSE <<100 * Cardinality(below), Cardinality(window)>>

(* Variant: the weights of the new value and the old average change place. *)
EmaSlow(values, p) ==
  LET n == Len(values) - p
      unit[k \in 0 .. n] == IF k = 0 THEN p ELSE unit[k - 1] * (p + 1)
      sum[k \in 0 .. n] ==
        IF k = 0 THEN Total(Until(values, p))
        ELSE sum[k - 1] * 2 + values[p + k] * (p - 1) * unit[k - 1]
  IN  <<sum[n], unit[n]>>

(* The last value of ema: weight 2/(p + 1) for each value after the mean.  *)
(* The average after k of them is sum[k] / unit[k].                        *)
Ema(values, p) ==
  LET n == Len(values) - p
      unit[k \in 0 .. n] == IF k = 0 THEN p ELSE unit[k - 1] * (p + 1)
      sum[k \in 0 .. n] ==
        IF k = 0 THEN Total(Until(values, p))
        ELSE sum[k - 1] * (p - 1) + values[p + k] * 2 * unit[k - 1]
  IN  <<sum[n], unit[n]>>

(* a is more than Deadband percent of b above it, or below it.             *)
FarAbove(a, b) == 100 * a[1] * b[2] > (100 + Deadband) * b[1] * a[2]
FarBelow(a, b) == 100 * a[1] * b[2] < (100 - Deadband) * b[1] * a[2]

TrendLabel(closes) ==
  IF Len(closes) < SlowPeriod THEN "sideways"
  ELSE LET fast == Ema(closes, FastPeriod) slow == Ema(closes, SlowPeriod) IN
       CASE FarAbove(fast, slow) -> "uptrend"
         [] FarBelow(fast, slow) -> "downtrend"
         [] OTHER -> "sideways"

(* classify_regime, on the daily candles of BTC.                           *)
ClassifyRegime(daily) ==
  LET closes == Column(daily, "close")
      short == Ema(closes, FastPeriod) long == Ema(closes, SlowPeriod)
      volHigh == ~AtMost(AtrPercentile(daily), AtrHigh) IN
  IF Len(daily) < SlowPeriod \/ Atr(daily) = None THEN "unknown"
  ELSE CASE Less(long, short) /\ ~volHigh -> "risk_on"
         [] Less(short, long) /\ volHigh -> "risk_off"
         [] OTHER -> "neutral"

-----------------------------------------------------------------------------
(* Patterns.                                                               *)

Body(c) == Abs(c.close - c.open)
Span(c) == c.high - c.low

IsHammer(c) ==
  /\ Body(c) > 0 /\ Span(c) > 0
  /\ Min({c.open, c.close}) - c.low >= 2 * Body(c)
  /\ 4 * (c.high - Max({c.open, c.close})) <= Span(c)

IsDoji(c) == Span(c) > 0 /\ 10 * Body(c) <= Span(c)

IsBullishEngulfing(prev, curr) ==
  /\ prev.close < prev.open /\ curr.close > curr.open
  /\ curr.open <= prev.close /\ curr.close >= prev.open

DetectReversal(candles) ==
  LET n == Len(candles) last == candles[n] IN
  \/ IsHammer(last)
  \/ n >= 2 /\ IsBullishEngulfing(candles[n - 1], last)
  \/ IsDoji(last)

(* The RSI is above Oversold, and one of the RsiLookback - 1 before was    *)
(* not.                                                                    *)
DetectRsiRecovery(closes) ==
  /\ Len(closes) >= RsiPeriod + RsiLookback
  /\ ~AtMost(Rsi(closes), Oversold)
  /\ \E k \in 1 .. RsiLookback - 1 : AtMost(Rsi(Until(closes, Len(closes) - k)), Oversold)

DetectHighReclaim(candles) ==
  LET n == Len(candles) IN
  /\ n >= ReclaimLookback + 1
  /\ \A i \in n - ReclaimLookback .. n - 1 : candles[n].close > candles[i].high

(* _argmin_close: the earliest of the lowest.                              *)
ArgMin(values, from, to) ==
  CHOOSE i \in from .. to : \A j \in from .. to :
    values[i] < values[j] \/ (values[i] = values[j] /\ i <= j)

(* A lower low of the price with a higher low of the RSI, in the older and *)
(* the newer half of the window.                                           *)
DetectBullishDivergence(closes) ==
  LET n == Len(closes)
      start == n - DivergenceWindow
      half == DivergenceWindow \div 2
      rsis == RsiSeries(closes)
      older == ArgMin(closes, start + 1, start + half)
      newer == ArgMin(closes, start + half + 1, n) IN
  /\ n >= DivergenceWindow
  /\ rsis[older] # None /\ rsis[newer] # None
  /\ closes[newer] < closes[older] /\ Less(rsis[older], rsis[newer])

-----------------------------------------------------------------------------
(* Support and volume.                                                     *)

(* Variant: a low needs no candles after it.                               *)
SwingLowsEarly(daily) ==
  LET n == Len(daily) start == Max({0, n - SupportLookback}) IN
  {i \in start + 1 + SwingWindow .. n :
     \A j \in (i - SwingWindow .. i + SwingWindow) \ {i} :
       j > n \/ daily[i].low < daily[j].low}

(* Days of the lookback whose low is below those of the SwingWindow days   *)
(* on either side, all of them within the lookback.                        *)
SwingLows(daily) ==
  LET n == Len(daily) start == Max({0, n - SupportLookback}) IN
  {i \in start + 1 + SwingWindow .. n - SwingWindow :
     \A j \in (i - SwingWindow .. i + SwingWindow) \ {i} : daily[i].low < daily[j].low}

(* The distance in percent to the highest swing low at or below the price. *)
SupportDistance(daily, price) ==
  LET lows == {daily[i].low : i \in SwingLows(daily)}
      below == {low \in lows : low <= price} IN
  IF below = {} THEN None ELSE <<100 * (price - Max(below)), Max(below)>>

RelativeVolume(volumes) ==
  LET n == Len(volumes)
      base == Total(SubSeq(volumes, n - VolumePeriod, n - 1)) IN
  IF n < VolumePeriod + 1 \/ base = 0 THEN None ELSE <<volumes[n] * VolumePeriod, base>>

=============================================================================
