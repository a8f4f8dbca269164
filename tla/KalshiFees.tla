----------------------------- MODULE KalshiFees -----------------------------
(***************************************************************************)
(* The money arithmetic of services/kalshi_fees.py.                        *)
(*                                                                         *)
(* Money and prices are integers on one grid: a contract pays Dollar ticks *)
(* or nothing, and a price is a number of ticks in 0 .. Dollar.  Every     *)
(* price the program carries is the YES price; unit_cost turns it into     *)
(* what one contract of a side costs.                                      *)
(***************************************************************************)
EXTENDS Integers

CONSTANTS
    Dollar,         \* ticks in one dollar, the payout of a winning contract
    TakerRate,      \* the taker rate, in units of 1 / RateScale
    MakerRate,      \* the maker rate, in units of 1 / RateScale
    RateScale

ASSUME FeeAssumption ==
    /\ Dollar \in Nat /\ Dollar >= 2
    /\ TakerRate \in Nat
    /\ MakerRate \in Nat
    /\ RateScale \in Nat /\ RateScale >= 1

Price == 0 .. Dollar
Sides == {"yes", "no"}

\* A quote the book did not carry (Python's None).
NoQuote == -1
Quote == Price \cup {NoQuote}

unit_cost(side, yes_price) ==
    IF side = "yes" THEN yes_price ELSE Dollar - yes_price

(***************************************************************************)
(* One leg's fee: rate * contracts * p * (1 - p), rounded up once per fill *)
(* to the money grid; nothing at the terminal prices 0 and 1.              *)
(***************************************************************************)
CeilDiv(n, d) == (n + d - 1) \div d

fee_at(rate, contracts, price) ==
    IF contracts <= 0 \/ price <= 0 \/ price >= Dollar
    THEN 0
    ELSE CeilDiv(rate * contracts * price * (Dollar - price), RateScale * Dollar)

taker_fee(contracts, price) == fee_at(TakerRate, contracts, price)
maker_fee(contracts, price) == fee_at(MakerRate, contracts, price)

\* The schedule an entry pays: a market order takes, a resting one that fills makes.
Schedules == {"taker", "maker"}

fee_of(schedule, contracts, price) ==
    IF schedule = "maker" THEN maker_fee(contracts, price) ELSE taker_fee(contracts, price)

(***************************************************************************)
(* The YES price an open position can be sold at, NoQuote when the book    *)
(* offers no sale: a YES holder hits the yes bid, a NO holder sells at the *)
(* yes ask.  crossed is the bid the ask is compared with (the raw book     *)
(* bid, NoQuote to skip the comparison).                                   *)
(***************************************************************************)
sellable_quote(side, yes_bid, yes_ask, crossed) ==
    IF side = "yes"
    THEN IF yes_bid \in 1 .. Dollar - 1 THEN yes_bid ELSE NoQuote
    ELSE IF yes_ask \in 1 .. Dollar - 1 /\ (crossed # NoQuote => yes_ask >= crossed)
         THEN yes_ask
         ELSE NoQuote

\* Faulty form of forced_exit_quote: both sides priced off the yes bid (how the
\* code first read).
forced_exit_quote_bid_only(side, yes_bid, yes_ask, unknown_fallback) ==
    IF yes_bid = NoQuote THEN unknown_fallback ELSE yes_bid

(***************************************************************************)
(* The same for a caller that may not refuse: an empty side of the book    *)
(* sells for nothing, an unknown or contradictory one for the fallback.    *)
(***************************************************************************)
forced_exit_quote(side, yes_bid, yes_ask, unknown_fallback) ==
    CASE side = "no" /\ yes_ask = Dollar -> Dollar
      [] side = "no" /\ yes_ask # Dollar ->
            IF yes_ask \in {NoQuote, 0} \/ (yes_bid # NoQuote /\ yes_ask < yes_bid)
            THEN unknown_fallback ELSE yes_ask
      [] side = "yes" ->
            IF yes_bid \in {NoQuote, Dollar} THEN unknown_fallback ELSE yes_bid

(***************************************************************************)
(* Python's int(a / b) for b > 0: the quotient truncated towards zero.     *)
(***************************************************************************)
TruncDiv(a, b) == IF a >= 0 THEN a \div b ELSE -((-a) \div b)
=============================================================================
