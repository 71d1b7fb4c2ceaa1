------------------------------ MODULE MCCandles ------------------------------
(***************************************************************************)
(* Instances of Candles for TLC: one symbol (the theorems of               *)
(* CandlesProofs are about any set of them), two prices, two to four       *)
(* minutes, one or two trades a minute.                                    *)
(***************************************************************************)
EXTENDS Candles

CONSTANT s1
=============================================================================
