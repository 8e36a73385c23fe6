------------------------------- MODULE Scoring -------------------------------
(***************************************************************************)
(* Hour after hour a pair's candle closes and a scan scores the pair: the  *)
(* factors of signals/factors.py on the indicators of its candles, their   *)
(* sum (signals/engine.py), and the severity that sum has under the floor  *)
(* the market regime sets (signals/policy.py, scheduler/entrypoints.py).   *)
(*                                                                         *)
(* The pair is BTCUSDT, so its own daily candles give the regime.  Longer  *)
(* candles are those the exchange builds from the hourly ones.  Only       *)
(* closed ones are stored, and of those only the latest are loaded, so     *)
(* that in time every average starts an hour later with every scan.        *)
(***************************************************************************)
EXTENDS Indicators

CONSTANTS
  Shapes,           (* candles, relative to the close before               *)
  StartPrice, MaxHours,
  FourHours, Day,   (* the lengths of longer candles, in hours             *)
  LoadLimit,        (* candles _score_and_persist loads of each length     *)
  DropDays,         (* horizons "7d", "30d", "180d" in days                *)
  Levels, Points,   (* [scoring.thresholds]: sequences by name             *)
  Weights,          (* [scoring.weights], by factor                        *)
  DivergenceEnabled,
  MinSignalScore, Normal, Strong, VeryStrong,
  RiskOn, RiskOff   (* threshold_adjust_*, from -100                       *)

Factors == {"drop", "rsi", "volume", "support", "discount", "reversal", "trend"}
Horizons == {"1h", "24h", "7d", "30d", "180d"}
Names == {"drop_1h", "drop_24h", "drop_7d", "drop_30d", "drop_180d", "rsi_1h", "rsi_4h",
          "rel_volume", "support_distance", "discount_30d", "discount_180d"}

(* The one check load_settings makes of these settings.                    *)
WeightsAddUp == MapThenSumSet(LAMBDA f : Weights[f], Factors) = 100

ASSUME ScoringAssumption ==
  /\ Shapes \subseteq [body : Int, upper : Nat, lower : Nat, volume : Nat]
  /\ {StartPrice, MaxHours} \subseteq Nat
  /\ {FourHours, Day, LoadLimit} \subseteq Nat \ {0}
  /\ Weights \in [Factors -> 0 .. 100]
  /\ WeightsAddUp
  /\ {Levels, Points} \subseteq [Names -> Seq(Int)]
  /\ \A name \in Names : Len(Levels[name]) = Len(Points[name])
  /\ {MinSignalScore, Normal, Strong, VeryStrong, RiskOn, RiskOff} \subseteq Int

VARIABLES
  hourly,       (* the pair's closed hourly candles                        *)
  rsis,         (* history: rsi_1h as the scan of each hour read it        *)
  points,       (* the latest scan's points by factor                      *)
  severity      (* and its severity, or "none"                             *)

vars == <<hourly, rsis, points, severity>>

-----------------------------------------------------------------------------
(* Candles.                                                                *)

(* The closed candles of m hours.                                          *)
Every(m, hours) ==
  [i \in 1 .. Len(hours) \div m |->
     LET part == SubSeq(hours, (i - 1) * m + 1, i * m) IN
     [open |-> part[1].open, close |-> part[m].close,
      high |-> Max({part[j].high : j \in 1 .. m}),
      low |-> Min({part[j].low : j \in 1 .. m}),
      volume |-> Total(Column(part, "volume"))]]

(* load_candles: the latest ones, oldest first.                            *)
Loaded(candles) ==
  LET n == Len(candles) IN SubSeq(candles, Max({1, n - LoadLimit + 1}), n)

Printed(close, shape) ==
  LET to == close + shape.body IN
  [open |-> close, close |-> to, volume |-> shape.volume,
   high |-> Max({close, to}) + shape.upper, low |-> Min({close, to}) - shape.lower]

-----------------------------------------------------------------------------
(* Tiers: the last one met, or for support the first.                      *)

TierUp(value, name) ==
  LET met == {i \in DOMAIN Levels[name] : AtLeast(value, Levels[name][i])} IN
  IF met = {} THEN 0 ELSE Points[name][Max(met)]

TierDown(value, name) ==
  LET met == {i \in DOMAIN Levels[name] : AtMost(value, Levels[name][i])} IN
  IF met = {} THEN 0 ELSE Points[name][Max(met)]

TierFirstMatch(value, name) ==
  LET met == {i \in DOMAIN Levels[name] : AtMost(value, Levels[name][i])} IN
  IF met = {} \/ ~AtLeast(value, 0) THEN 0 ELSE Points[name][Min(met)]

Capped(raw, factor) == Min({raw, Weights[factor]})

-----------------------------------------------------------------------------
(* Factors.                                                                *)

DropPct(ref, price) == IF ref <= 0 THEN <<0, 1>> ELSE <<100 * Max({ref - price, 0}), ref>>

(* _compute_drops: by position in the lists, not by time.                  *)
Drops(hours, daily) ==
  LET n == Len(hours) price == hours[n].close IN
  [h \in Horizons |->
     CASE h = "1h" -> DropPct(hours[n].open, price)
       [] h = "24h" -> IF n <= Day THEN None ELSE DropPct(hours[n - Day].close, price)
       [] OTHER -> IF Len(daily) <= DropDays[h] THEN None
                   ELSE DropPct(daily[Len(daily) - DropDays[h]].close, price)]

(* A drop in units of the ATR, when there is one.                          *)
Normalized(drop, atr, price) ==
  IF drop = None \/ atr = None \/ atr[1] = 0 THEN drop
  ELSE <<drop[1] * price * atr[2], drop[2] * 100 * atr[1]>>

DropName == [h \in Horizons |->
  CASE h = "1h" -> "drop_1h" [] h = "24h" -> "drop_24h" [] h = "7d" -> "drop_7d"
    [] h = "30d" -> "drop_30d" [] OTHER -> "drop_180d"]

ScoreDropMagnitude(hours, daily) ==
  LET drops == Drops(hours, daily)
      atr == Atr(hours)
      price == hours[Len(hours)].close
      scored(h) == TierUp(Normalized(drops[h], atr, price), DropName[h]) IN
  Capped(Max({scored(h) : h \in Horizons}), "drop")

(* Variant: the two timeframes add up without a cap.                       *)
ScoreRsiUncapped(hours, fours) ==
  TierDown(Rsi(Column(hours, "close")), "rsi_1h") + TierDown(Rsi(Column(fours, "close")), "rsi_4h")

ScoreRsiOversold(hours, fours) ==
  Capped(TierDown(Rsi(Column(hours, "close")), "rsi_1h")
           + TierDown(Rsi(Column(fours, "close")), "rsi_4h"), "rsi")

DiscountPct(daily, price, days) ==
  IF daily = <<>> THEN None
  ELSE LET n == Len(daily)
           high == Max({daily[i].high : i \in Max({1, n - days + 1}) .. n}) IN
       IF high = 0 THEN None ELSE <<100 * Max({high - price, 0}), high>>

ScoreDiscount(daily, price) ==
  Capped(TierUp(DiscountPct(daily, price, DropDays["30d"]), "discount_30d")
           + TierUp(DiscountPct(daily, price, DropDays["180d"]), "discount_180d"), "discount")

ScoreReversal(hours) ==
  LET closes == Column(hours, "close") IN
  Capped((IF DetectReversal(hours) THEN 5 ELSE 0)
           + (IF DetectRsiRecovery(closes) THEN 3 ELSE 0)
           + (IF DetectHighReclaim(hours) THEN 2 ELSE 0)
           + (IF DivergenceEnabled /\ DetectBullishDivergence(closes) THEN 2 ELSE 0), "reversal")

ScoreTrend(daily) ==
  LET label == TrendLabel(Column(daily, "close")) IN
  Capped(CASE label = "uptrend" -> 5 [] label = "sideways" -> 3 [] OTHER -> 0, "trend")

(* score_signal, on what _score_and_persist loads of a history.            *)
ScoreSignal(history) ==
  LET hours == Loaded(history)
      fours == Loaded(Every(FourHours, history))
      daily == Loaded(Every(Day, history))
      price == hours[Len(hours)].close IN
  [drop |-> ScoreDropMagnitude(hours, daily),
   rsi |-> ScoreRsiOversold(hours, fours),
   volume |-> Capped(TierUp(RelativeVolume(Column(hours, "volume")), "rel_volume"), "volume"),
   support |-> Capped(TierFirstMatch(SupportDistance(daily, price), "support_distance"), "support"),
   discount |-> ScoreDiscount(daily, price),
   reversal |-> ScoreReversal(hours),
   trend |-> ScoreTrend(daily)]

ScoreOf(parts) ==
  parts.drop + parts.rsi + parts.volume + parts.support + parts.discount + parts.reversal + parts.trend

(* _regime_min_score_adjust and effective_emit_floor.                      *)
Adjustment(regime) ==
  CASE regime = "risk_on" -> RiskOn [] regime = "risk_off" -> RiskOff [] OTHER -> 0

EffectiveEmitFloor(adjust) ==
  Max({MinSignalScore + adjust, Normal + Min({adjust, 0})})

SeverityForScore(score, adjust) ==
  IF score < EffectiveEmitFloor(adjust) THEN "none"
  ELSE IF score >= VeryStrong THEN "very_strong"
  ELSE IF score >= Strong THEN "strong" ELSE "normal"

-----------------------------------------------------------------------------
Init ==
  /\ hourly = <<>> /\ rsis = <<>>
  /\ points = [f \in Factors |-> 0] /\ severity = "none"

(* An hour closes, and the scan that follows scores what is there.         *)
Hour(shape) ==
  LET n == Len(hourly)
      candle == Printed(IF n = 0 THEN StartPrice ELSE hourly[n].close, shape)
      hours == Append(hourly, candle)
      parts == ScoreSignal(hours)
      regime == ClassifyRegime(Loaded(Every(Day, hours))) IN
  /\ n < MaxHours /\ candle.low > 0
  /\ hourly' = hours
  /\ rsis' = Append(rsis, Rsi(Column(Loaded(hours), "close")))
  /\ points' = parts
  /\ severity' = SeverityForScore(ScoreOf(parts), Adjustment(regime))

Next == \E shape \in Shapes : Hour(shape)

Spec == Init /\ [][Next]_vars

-----------------------------------------------------------------------------
(* Properties                                                              *)

(* No factor outgrows its weight however its parts add up, so the score is *)
(* at most 100 and no pair of factors that weighs less than the floor can  *)
(* raise a signal by itself.                                               *)
BudgetsHold ==
  LET budget == ScoreOf([f \in Factors |-> IF points[f] > 0 THEN Weights[f] ELSE 0]) IN
  /\ \A f \in Factors : points[f] \in 0 .. Weights[f]
  /\ severity # "none" => budget >= MinSignalScore + Min({RiskOn, RiskOff, 0})

(* What a scan computes again about earlier hours it does not make up: the *)
(* RSI series of the list it loads agrees at every candle with the         *)
(* separate code for a single RSI, on the list up to there; it is what the *)
(* scans of those hours read, for as long as the whole history is loaded   *)
(* (after that a list starts one candle later each hour, and so does the   *)
(* smoothing); and a recovery is reported only if the pair was oversold in *)
(* the last hours of that list and is not now.                             *)
ReadingsAgree ==
  LET closes == Column(Loaded(hourly), "close") n == Len(closes) IN
  /\ \A i \in 1 .. n : RsiSeries(closes)[i] = Rsi(Until(closes, i))
  /\ Len(hourly) <= LoadLimit => RsiSeries(closes) = rsis
  /\ DetectRsiRecovery(closes) =>
       /\ ~AtMost(RsiSeries(closes)[n], Oversold)
       /\ \E i \in n - RsiLookback + 1 .. n - 1 : AtMost(RsiSeries(closes)[i], Oversold)

(* The days whose lows a scan takes for support, counted from the first.   *)
Supports(history) ==
  LET days == Every(Day, history) daily == Loaded(days) IN
  {Len(days) - Len(daily) + i : i \in SwingLows(daily)}

(* Support does not repaint: what a new day changes is the low it confirms *)
(* and those that leave the lookback; no earlier low becomes or stops      *)
(* being a support in hindsight.                                           *)
SwingsStay ==
  [][LET was == Supports(hourly)
         is == Supports(hourly')
         n == Len(hourly') \div Day
         left == 1 .. n - Min({SupportLookback, LoadLimit}) + SwingWindow IN
     /\ is \ was \subseteq {n - SwingWindow}
     /\ was \ is \subseteq left]_hourly

(* Two averages with different seeds and weights never turn a market round:*)
(* one that only falls is no uptrend and no risk_on, and one that only     *)
(* rises is no downtrend and no risk_off.                                  *)
TrendFollows ==
  LET daily == Loaded(Every(Day, hourly))
      closes == Column(daily, "close")
      falls == \A i \in 2 .. Len(closes) : closes[i] <= closes[i - 1]
      rises == \A i \in 2 .. Len(closes) : closes[i] >= closes[i - 1] IN
  /\ falls => TrendLabel(closes) # "uptrend" /\ ClassifyRegime(daily) # "risk_on"
  /\ rises => TrendLabel(closes) # "downtrend" /\ ClassifyRegime(daily) # "risk_off"

=============================================================================
