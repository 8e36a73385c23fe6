----------------------------- MODULE PaperReplay -----------------------------
(***************************************************************************)
(* The paper simulation: paper/service.py selects recorded signals from    *)
(* the database and paper/engine.py replays them hour by hour with finite  *)
(* cash, entering at the next open and leaving at a close a fixed number   *)
(* of hours later.                                                         *)
(*                                                                         *)
(* Times are in ticks, Hour ticks to the hour, from the start of the       *)
(* requested period; signals may lie before it.  Money is in whole units;  *)
(* the instances keep every division exact.  Of the benchmark only its     *)
(* demand for a candle in every hour is kept, and the sums of fees and the *)
(* averages in the report are left out.                                    *)
(***************************************************************************)
EXTENDS Integers, Sequences, FiniteSets, FiniteSetsExt

CONSTANTS
  Ids,                  (* signal ids, numbers                             *)
  Candidates,           (* signals the database may hold                   *)
  Symbols,              (* pairs in USDT                                   *)
  Quotes,               (* hourly candles the market may print             *)
  Hour,                 (* ticks in an hour                                *)
  End,                  (* end of the period, whole hours in ticks         *)
  InitialCapital, PositionPct, MaxPositions, HoldingHours,
  FeePct, SlipPct       (* SimulationConfig, costs here in percent         *)

(* validate_config.                                                        *)
ValidateConfig ==
  /\ {InitialCapital, MaxPositions, HoldingHours} \subseteq Nat \ {0}
  /\ PositionPct \in 1 .. 100 /\ {FeePct, SlipPct} \subseteq 0 .. 99

ASSUME PaperAssumption ==
  /\ Ids \subseteq Nat /\ IsFiniteSet(Ids)
  /\ \A s \in Candidates : {s.candle, s.detected} \cup s.sends \subseteq Int /\ IsFiniteSet(s.sends)
  /\ Quotes \subseteq [open : Nat \ {0}, close : Nat \ {0}]
  /\ {Hour, End} \subseteq Nat \ {0} /\ End % Hour = 0
  /\ ValidateConfig

VARIABLES
  input,      (* the recorded signals; fixed                               *)
  delivered,  (* signal_source is "delivered", else "detected"; fixed      *)
  fate,       (* what has become of each signal                            *)
  now,        (* current: the hour being replayed                          *)
  phase,      (* "hour", "entry", "close", "done" or "invalid"             *)
  bar,        (* the hour's candle of each pair, or NoBar                  *)
  cash,
  trade,      (* each signal's trade, or NoTrade                           *)
  curve,      (* equity at every mark                                      *)
  peak,
  worst       (* max_drawdown_pct: from this peak, to this equity          *)

setting == <<input, delivered>>
book == <<cash, trade>>
marks == <<curve, peak, worst>>
vars == <<setting, fate, now, phase, bar, book, marks>>

NoBar == [open |-> 0, close |-> 0]
NoTrade == [entry |-> -1, quantity |-> 0, exit |-> -1, proceeds |-> 0]

Budget == (InitialCapital * PositionPct) \div 100

(* What the budget buys at an open, and what coins bring at a price, costs *)
(* of the side included.                                                   *)
Quantity(price) ==
  (Budget * 10000) \div (price * (100 + SlipPct) * (100 + FeePct))

NetValue(quantity, price) ==
  (quantity * price * (100 - SlipPct) * (100 - FeePct)) \div 10000

FloorToHour(t) == t - (t % Hour)

-----------------------------------------------------------------------------
(* Selecting and screening.  A signal has a pair, a score that is enough   *)
(* or not, its candle's hour, the time of detection, and the times of its  *)
(* delivered notifications.                                                *)

InPeriod(t) == 0 <= t /\ t < End

(* Variant: a late delivery alone does not bring a signal in.              *)
LoadedOnSight(s) ==
  /\ s.detected < End /\ s.candle + Hour < End
  /\ s.detected >= 0 \/ s.candle + Hour >= 0

(* The WHERE clause of load_inputs.                                        *)
Loaded(s) ==
  /\ s.detected < End /\ s.candle + Hour < End
  /\ \/ s.detected >= 0 \/ s.candle + Hour >= 0
     \/ \E t \in s.sends : InPeriod(t)

Available(s) ==
  Max({s.candle + Hour, s.detected}
        \cup IF delivered /\ s.sends # {} THEN {Min(s.sends)} ELSE {})

(* Variant: what becomes known on the hour is bought at that hour's open.  *)
EntryOnTheHour(s) == FloorToHour(Available(s) + Hour - 1)

Entry(s) == FloorToHour(Available(s)) + Hour

Screened(s) ==
  CASE ~InPeriod(Available(s)) -> "ignored"
    [] InPeriod(Available(s)) /\ delivered /\ s.sends = {} -> "not_delivered"
    [] OTHER -> IF ~s.enough THEN "below_score"
                ELSE IF s.symbol \notin Symbols THEN "unsupported_quote"
                ELSE IF Entry(s) >= End THEN "pending_entry" ELSE "event"

Init ==
  /\ input \in [Ids -> Candidates] /\ delivered \in BOOLEAN
  /\ fate = [i \in Ids |-> IF Loaded(input[i]) THEN Screened(input[i]) ELSE "not_loaded"]
  /\ now = 0 /\ phase = "hour"
  /\ bar = [m \in Symbols |-> NoBar]
  /\ cash = InitialCapital
  /\ trade = [i \in Ids |-> NoTrade]
  /\ curve = <<InitialCapital>> /\ peak = InitialCapital
  /\ worst = <<InitialCapital, InitialCapital>>

-----------------------------------------------------------------------------
(* The portfolio.                                                          *)

Entered == {i \in Ids : trade[i].entry >= 0}
OpenTrades == {i \in Entered : trade[i].exit < 0}
Held == {input[i].symbol : i \in OpenTrades}

Waiting == {i \in Ids : fate[i] = "event" /\ Entry(input[i]) = now}

(* Entries of an hour are sorted by availability, then id.                 *)
ComesFirst(i, j) ==
  LET a == Available(input[i]) b == Available(input[j]) IN
  a < b \/ (a = b /\ i <= j)

(* Variant: the budget is spent whatever cash is left.                     *)
AnswerOnCredit(i) ==
  IF input[i].symbol \in Held THEN "position_open"
  ELSE IF Cardinality(OpenTrades) >= MaxPositions THEN "position_limit"
  ELSE "entered"

(* Variant: the last of the cash is never spent.                           *)
AnswerInReserve(i) ==
  IF input[i].symbol \in Held THEN "position_open"
  ELSE IF Cardinality(OpenTrades) >= MaxPositions THEN "position_limit"
  ELSE IF cash <= Budget THEN "insufficient_cash"
  ELSE "entered"

Answer(i) ==
  IF input[i].symbol \in Held THEN "position_open"
  ELSE IF Cardinality(OpenTrades) >= MaxPositions THEN "position_limit"
  ELSE IF cash < Budget THEN "insufficient_cash"
  ELSE "entered"

Equity(coins, ids, prices) ==
  coins + SumFunction([i \in ids |-> NetValue(trade[i].quantity, prices[input[i].symbol])])

(* Variant: falls are measured from the capital put in.                    *)
DeeperFromStart(e) ==
  IF e * worst[1] < worst[2] * InitialCapital THEN <<InitialCapital, e>> ELSE worst

(* The deeper of the worst fall so far and the fall to this equity.        *)
Deeper(e) ==
  LET top == Max({peak, e}) IN
  IF e * worst[1] < worst[2] * top THEN <<top, e>> ELSE worst

Mark(e) ==
  /\ curve' = Append(curve, e)
  /\ peak' = Max({peak, e})
  /\ worst' = Deeper(e)

Invalid ==
  /\ phase' = "invalid"
  /\ UNCHANGED <<setting, fate, now, bar, book, marks>>

(* The market's candles of the hour.  Only pairs held or wanted matter.    *)
ReadBars ==
  /\ phase = "hour"
  /\ \E b \in [Symbols -> {NoBar} \cup Quotes] :
       /\ \A m \in Symbols \ (Held \cup {input[i].symbol : i \in Waiting}) : b[m] = NoBar
       /\ bar' = b
  /\ phase' = "entry"
  /\ UNCHANGED <<setting, fate, now, book, marks>>

First == CHOOSE i \in Waiting : \A j \in Waiting : ComesFirst(i, j)

Skip ==
  /\ phase = "entry" /\ Waiting # {} /\ Answer(First) # "entered"
  /\ fate' = [fate EXCEPT ![First] = Answer(First)]
  /\ UNCHANGED <<setting, now, phase, bar, book, marks>>

Enter ==
  /\ phase = "entry" /\ Waiting # {} /\ Answer(First) = "entered"
  /\ LET b == bar[input[First].symbol] IN
     \/ b = NoBar /\ Invalid
     \/ /\ b # NoBar
        /\ fate' = [fate EXCEPT ![First] = "entered"]
        /\ trade' = [trade EXCEPT ![First] = [NoTrade EXCEPT !.entry = now, !.quantity = Quantity(b.open)]]
        /\ cash' = cash - Budget
        /\ UNCHANGED <<setting, now, phase, bar, marks>>

(* mark(..., "open"): the benchmark and every pair held need a candle.     *)
MarkOpen ==
  /\ phase = "entry" /\ Waiting = {}
  /\ \/ Invalid
     \/ /\ \A m \in Held : bar[m] # NoBar
        /\ Mark(Equity(cash, OpenTrades, [m \in Symbols |-> bar[m].open]))
        /\ phase' = "close"
        /\ UNCHANGED <<setting, fate, now, bar, book>>

Due == {i \in OpenTrades : trade[i].entry + HoldingHours * Hour = now + Hour}

(* Positions due at the end of the hour are sold at its close, and the     *)
(* rest is marked at it.                                                   *)
CloseHour ==
  /\ phase = "close"
  /\ LET close == [m \in Symbols |-> bar[m].close]
         got == [i \in Due |-> NetValue(trade[i].quantity, close[input[i].symbol])]
         coins == cash + SumFunction(got) IN
     /\ cash' = coins
     /\ trade' = [i \in Ids |-> IF i \in Due THEN [trade[i] EXCEPT !.exit = now + Hour, !.proceeds = got[i]]
                                ELSE trade[i]]
     /\ Mark(Equity(coins, OpenTrades \ Due, close))
  /\ now' = now + Hour
  /\ phase' = IF now' = End THEN "done" ELSE "hour"
  /\ bar' = [m \in Symbols |-> NoBar]
  /\ UNCHANGED <<setting, fate>>

Next == ReadBars \/ Skip \/ Enter \/ MarkOpen \/ CloseHour

Spec == Init /\ [][Next]_vars

-----------------------------------------------------------------------------
(* Properties                                                              *)

(* Every signal the replay could use is read from the database: the query  *)
(* of load_inputs leaves out only signals the engine would ignore, in both *)
(* signal sources.                                                         *)
UsableIsLoaded ==
  \A i \in Ids : ~Loaded(input[i]) => Screened(input[i]) = "ignored"

(* Cash is the capital, less the budget of every open trade, plus what     *)
(* every closed one earned; nothing is borrowed, no pair is held twice and *)
(* no more positions are held than allowed.                                *)
BooksBalance ==
  LET closed == Entered \ OpenTrades IN
  /\ cash = InitialCapital - Budget * Cardinality(Entered)
              + SumFunction([i \in closed |-> trade[i].proceeds])
  /\ cash >= 0
  /\ Cardinality(OpenTrades) <= MaxPositions
  /\ Cardinality(Held) = Cardinality(OpenTrades)

(* The trades before the turn of i: entered before its hour, or in its     *)
(* hour after becoming available earlier (Sooner); those of them it met    *)
(* were not sold by then.                                                  *)
Turn(i) == FloorToHour(Available(input[i])) + Hour

Sooner(i) ==
  LET ahead(j) == \/ trade[j].entry < Turn(i)
                  \/ Available(input[j]) < Available(input[i])
                  \/ Available(input[j]) = Available(input[i]) /\ j < i IN
  {j \in Entered : trade[j].entry <= Turn(i) /\ ahead(j)}

Met(i) == {j \in Sooner(i) : trade[j].exit < 0 \/ trade[j].exit > Turn(i)}

(* What these trades had left of the capital: all the money they took, and *)
(* what those sold by then had brought.                                    *)
CashLeft(i) ==
  LET sold == Sooner(i) \ Met(i) IN
  InitialCapital - Budget * Cardinality(Sooner(i))
    + SumFunction([j \in sold |-> trade[j].proceeds])

(* First come, first served: a signal is skipped only for trades that were *)
(* there before it: one of its own pair, or as many as the limit allows,   *)
(* or so many and so bad that less than the budget was left of the         *)
(* capital.  One that was entered met none of these, and could be paid.    *)
SkipsExplained ==
  \A i \in Ids :
    LET twin == \E j \in Met(i) : input[j].symbol = input[i].symbol
        full == Cardinality(Met(i)) >= MaxPositions
        poor == CashLeft(i) < Budget IN
    /\ fate[i] = "position_open" => twin
    /\ fate[i] = "position_limit" => full /\ ~twin
    /\ fate[i] = "insufficient_cash" => poor /\ ~full /\ ~twin
    /\ fate[i] = "entered" => ~poor /\ ~full /\ ~twin

(* Nobody trades on what is not yet known or leaves late: a trade starts   *)
(* with the first hour strictly after its signal became available, and     *)
(* ends HoldingHours later if the period lasts that long; when the replay  *)
(* is done no usable signal is left unanswered.                            *)
TradesOnTime ==
  /\ \A i \in Entered :
       LET t == trade[i] leave == t.entry + HoldingHours * Hour IN
       /\ Available(input[i]) \in t.entry - Hour .. t.entry - 1
       /\ t.entry % Hour = 0
       /\ IF t.exit < 0 THEN leave > now ELSE t.exit = leave /\ leave <= now
  /\ phase = "done" => \A i \in Ids : fate[i] # "event"

(* The drawdown reported is the deepest fall of the equity curve from any  *)
(* mark to any later one.                                                  *)
DrawdownIsWorst ==
  /\ \A i, j \in DOMAIN curve : i <= j => curve[j] * worst[1] >= worst[2] * curve[i]
  /\ \E i, j \in DOMAIN curve : i <= j /\ worst = <<curve[i], curve[j]>>

=============================================================================
