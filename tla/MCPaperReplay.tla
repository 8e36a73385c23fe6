---------------------------- MODULE MCPaperReplay ----------------------------
(* Small instances of PaperReplay.  Costs of 20% a side and slippage of    *)
(* 25% make every amount whole: a budget of 150 buys 100 coins at 1 or 20  *)
(* at 5, and they bring 60, 300, 12 or 60.                                 *)
EXTENDS PaperReplay

Signal(symbol, enough, candle, detected, sends) ==
  [symbol |-> symbol, enough |-> enough, candle |-> candle, detected |-> detected, sends |-> sends]

MCSymbols == {"ETHUSDT", "SOLUSDT", "ADAUSDT"}
MCQuotes == {[open |-> 1, close |-> 5], [open |-> 5, close |-> 1]}

MCCandidates == {
  Signal("ETHUSDT", TRUE, -2, 0, {1}),       (* known at 1, detected at 0  *)
  Signal("SOLUSDT", TRUE, -2, 1, {2, 1}),
  Signal("SOLUSDT", TRUE, -2, 0, {2}),       (* delivered on the hour      *)
  Signal("ADAUSDT", TRUE, -2, 1, {1}),
  Signal("ADAUSDT", TRUE, 0, 3, {4}),
  Signal("ETHUSDT", TRUE, -6, -3, {3}),      (* seen before, sent within   *)
  Signal("SOLUSDT", TRUE, -6, -3, {-2, 3}),  (* sent before: too old       *)
  Signal("SOLUSDT", TRUE, -6, -3, {-2}),
  Signal("ETHUSDT", TRUE, 4, 6, {7}),        (* no hour left to enter      *)
  Signal("ETHUSDT", TRUE, 2, 3, {9}),        (* sent after the period      *)
  Signal("ADAUSDT", FALSE, 0, 2, {}),
  Signal("ETHBTC", TRUE, 0, 2, {2})}
=============================================================================
