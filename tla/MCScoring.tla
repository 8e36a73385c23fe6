------------------------------ MODULE MCScoring ------------------------------
(* A small instance of Scoring: two hours to the day, periods of two and   *)
(* three, and the levels, points and weights of config.example.toml for    *)
(* the factors it can reach.  Five candles are loaded, more than every     *)
(* lookback asks for, and both the hours and the days outgrow them.        *)
EXTENDS Scoring

Shape(body, upper, lower, volume) ==
  [body |-> body, upper |-> upper, lower |-> lower, volume |-> volume]

(* A fall, a rise, and a hammer on high volume.                            *)
MCShapes == {Shape(-4, 1, 0, 2), Shape(3, 0, 1, 2), Shape(-1, 0, 3, 8)}

MCDropDays == [h \in {"7d", "30d", "180d"} |->
  CASE h = "7d" -> 1 [] h = "30d" -> 2 [] OTHER -> 3]

MCLevels == [
  drop_1h |-> <<1, 2, 3>>, drop_24h |-> <<1, 2>>, drop_7d |-> <<1, 2>>,
  drop_30d |-> <<15, 25, 35, 45>>, drop_180d |-> <<30, 45, 60, 75>>,
  rsi_1h |-> <<30, 25, 20>>, rsi_4h |-> <<35, 30, 25>>,
  rel_volume |-> <<2, 3, 4>>, support_distance |-> <<1, 3, 5>>,
  discount_30d |-> <<10, 20>>, discount_180d |-> <<20, 40>>]

MCPoints == [
  drop_1h |-> <<5, 8, 12>>, drop_24h |-> <<12, 22>>, drop_7d |-> <<18, 30>>,
  drop_30d |-> <<8, 14, 18, 22>>, drop_180d |-> <<6, 10, 14, 18>>,
  rsi_1h |-> <<12, 15, 18>>, rsi_4h |-> <<5, 8, 10>>,
  rel_volume |-> <<9, 12, 15>>, support_distance |-> <<15, 8, 4>>,
  discount_30d |-> <<2, 5>>, discount_180d |-> <<2, 5>>]

MCRiskOn == -5

MCWeights == [drop |-> 25, rsi |-> 20, volume |-> 15, support |-> 15,
              discount |-> 10, reversal |-> 10, trend |-> 5]
=============================================================================
