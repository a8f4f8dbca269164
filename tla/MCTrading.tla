----------------------------- MODULE MCTrading ------------------------------
(***************************************************************************)
(* Instances of Trading for TLC: two tickers that are the two halves of    *)
(* one matchup and share a series, prices in quarters of a dollar.         *)
(***************************************************************************)
EXTENDS Trading, TLC

CONSTANTS a, b

MCSeries == [t \in {a, b} |-> "S"]
MCComplement == [t \in {a, b} |-> IF t = a THEN b ELSE a]
MCNoComplement == [t \in {a, b} |-> Nothing]
MCNoMarks == {NoQuote}
MCMarks == {NoQuote, 0, 4}
MCSymmetry == Permutations({a, b})
MCFewQuotes == {<<1, 2>>, <<NoQuote, 3>>, <<3, NoQuote>>}
MCQuotes == {<<1, 2>>, <<NoQuote, 3>>, <<0, 4>>, <<3, NoQuote>>}
=============================================================================
