---------------------------- MODULE PositionNetting ---------------------------
(* The open positions of one mutually exclusive event read as one book: its   *)
(* payout under every outcome, and what is closed before the event settles.   *)
(* Amounts are in ticks, expected values in ticks times Dollar.               *)
EXTENDS Runtime, KalshiFees, FiniteSetsExt

CONSTANTS
  EventOf,            \* the event of each market
  MinDwell,           \* min_dwell_sec
  MinEdge             \* min_edge_improvement_usd, in quarters of a tick

HeldPosition == [side : Sides, size : Nat, entry : Price, fee : Nat, opened : Nat]
BookQuotes == [bid : Quote, ask : Quote]
ASSUME NettingAssumption ==
  /\ IsFiniteSet(DOMAIN EventOf)
  /\ \A s \in Scenarios :
       /\ {"books", "book_quotes", "entry"} \subseteq DOMAIN s /\ s.entry \subseteq HeldPosition
       /\ \A book \in s.books : DOMAIN book \subseteq DOMAIN EventOf /\ \A t \in DOMAIN book : book[t] \in HeldPosition
       /\ 1 \in DOMAIN s.book_quotes /\ \A q \in DOMAIN s.book_quotes : s.book_quotes[q] \in BookQuotes

VARIABLES
  held,               \* broker.positions of these markets
  quotes,             \* latest_prices (the yes bids) and latest_asks
  reviewed            \* what the last review did, per event

netVars == << held, quotes, reviewed >>

NetMarkets == DOMAIN EventOf
NetEvents == { EventOf[t] : t \in NetMarkets }
Outside == "__outside__"
NothingReviewed == << >>

NettingInit ==
  /\ held \in budget.books
  /\ quotes = [t \in NetMarkets |-> budget.book_quotes[1]]
  /\ reviewed = NothingReviewed

(* find_groups. The outcomes of a group of two are taken to be its members;   *)
(* a larger group has an outcome outside of it.                               *)
dwelt(t) == now - held[t].opened >= MinDwell
members_of(e) == { t \in DOMAIN held : EventOf[t] = e /\ dwelt(t) }
Groups == { e \in budget.exclusive : Cardinality(members_of(e)) >= 2 }
include_outside(members) == Cardinality(members) # 2

(* payout_profile and classify: profit per outcome, fees and costs included.  *)
Cost(t) == held[t].size * unit_cost(held[t].side, held[t].entry)
Wins(t, winner) == (t = winner) = (held[t].side = "yes")
PayoutIf(members, winner) ==
  MapThenSumSet(LAMBDA t : (IF Wins(t, winner) THEN held[t].size * Dollar ELSE 0) - Cost(t) - held[t].fee, members)
payout_profile(members, outside) == [w \in members \cup (IF outside THEN {Outside} ELSE {}) |-> PayoutIf(members, w)]
classify(profile) ==
  IF \A w \in DOMAIN profile : profile[w] > 0 THEN "locked_profit"
  ELSE IF \A w \in DOMAIN profile : profile[w] < 0 THEN "locked_loss" ELSE "variable"

(* The live bid is the probability of a win, the rest is the outside's.       *)
Bid(t) == IF quotes[t].bid = NoQuote THEN held[t].entry ELSE quotes[t].bid
Positive(n) == IF n > 0 THEN n ELSE 0
expected_value(members, outside) ==
  IF members = {} THEN 0
  ELSE LET profile == payout_profile(members, outside)
       IN  MapThenSumSet(LAMBDA w : profile[w] * (IF w = Outside THEN Positive(Dollar - MapThenSumSet(Bid, members)) ELSE Bid(w)), DOMAIN profile)

(* What closing now realizes.                                                 *)
exit_quote(t) == forced_exit_quote(held[t].side, Bid(t), quotes[t].ask, held[t].entry)
Realized(t, price) ==
  held[t].size * unit_cost(held[t].side, price) - taker_fee(held[t].size, price) - Cost(t) - held[t].fee
(* Faulty variant: both sides are valued at the bid, and sold at their own.   *)
unwind_at_bid(members) == MapThenSumSet(LAMBDA t : Realized(t, Bid(t)), members)
_unwind_now_value(members) == MapThenSumSet(LAMBDA t : Realized(t, exit_quote(t)), members)

(* What the legs bring when they are sold, each at its side of the book.      *)
proceeds(tickers) == MapThenSumSet(LAMBDA t : Realized(t, exit_quote(t)), tickers)

(* _best_variable_action: the improvements over holding, in ticks * Dollar.   *)
Improvement(members, outside, closed) ==
  expected_value(members \ closed, outside) + Dollar * _unwind_now_value(closed) - expected_value(members, outside)
Trims(members, outside) ==
  { t \in members : \A u \in members : Improvement(members, outside, {u}) <= Improvement(members, outside, {t}) }
BestActions(members, outside) ==
  LET trim == CHOOSE i \in { Improvement(members, outside, {t}) : t \in Trims(members, outside) } : TRUE
      all == Improvement(members, outside, members)
  IN  IF trim >= all THEN { [tickers |-> {t}, improvement |-> trim] : t \in Trims(members, outside) }
      ELSE { [tickers |-> members, improvement |-> all] }

(* describe_groups for one event. ratio is the clamped volatility ratio in    *)
(* quarters; among legs equally worth trimming the code takes the first.      *)
Recommendations(e, ratio) ==
  LET members == members_of(e)
      outside == include_outside(members)
      status == classify(payout_profile(members, outside))
      advice(tickers, expected) == [members |-> members, status |-> status, tickers |-> tickers, expected |-> expected]
  IN  CASE status = "locked_profit" -> { advice({}, 0) }
        [] status = "locked_loss" -> { advice(members, 0) }
        [] OTHER -> { IF b.improvement > 0 /\ 16 * b.improvement >= Dollar * MinEdge * ratio
                      THEN advice(b.tickers, expected_value(members, outside) + b.improvement) ELSE advice({}, 0)
                      : b \in BestActions(members, outside) }

(* review: every group is described before the first position is closed; the  *)
(* legs are closed one by one, and one whose rows cannot be written raises     *)
(* once memory has closed it: what was to be closed after it is left open.    *)
Executions(done) ==
  { closed \in [Groups -> SUBSET NetMarkets] :
      /\ \A e \in Groups : closed[e] \subseteq done[e].tickers
      /\ Cardinality({ e \in Groups : closed[e] \notin {{}, done[e].tickers} }) <= 1 }
reviewed_as(e, d, closed) ==
  [status |-> d.status, decided |-> d.tickers, closed |-> closed, expected |-> d.expected, realized |-> proceeds(closed),
   left |-> expected_value(members_of(e) \ closed, include_outside(members_of(e))),
   payouts |-> { PayoutIf(members_of(e), w) : w \in budget.field[e] }]
review ==
  /\ \E ratio \in budget.ratios : \E done \in [Groups -> UNION { Recommendations(e, ratio) : e \in Groups }] :
       /\ \A e \in Groups : done[e] \in Recommendations(e, ratio)
       /\ \E closed \in Executions(done) :
            /\ IF \A e \in Groups : closed[e] = done[e].tickers THEN UNCHANGED budget
               ELSE Spends("faults") /\ \E e \in Groups : closed[e] # {}
            /\ held' = [t \in DOMAIN held \ UNION { closed[e] : e \in Groups } |-> held[t]]
            /\ reviewed' = [e \in Groups |-> reviewed_as(e, done[e], closed[e])]
  /\ UNCHANGED << quotes, now >>

(* Entries, quotes and settlements come from the rest of the program.         *)
open_held(t) ==
  /\ t \notin DOMAIN held /\ Spends("entries")
  /\ \E p \in budget.entry :
       held' = [u \in DOMAIN held \cup {t} |-> IF u = t THEN [p EXCEPT !.opened = now] ELSE held[u]]
  /\ UNCHANGED << quotes, reviewed, now >>

quote_moves(t) ==
  /\ Spends("moves")
  /\ \E q \in DOMAIN budget.book_quotes : quotes' = [quotes EXCEPT ![t] = budget.book_quotes[q]]
  /\ UNCHANGED << held, reviewed, now >>

settle_event(e) ==
  /\ { t \in DOMAIN held : EventOf[t] = e } # {} /\ Spends("settlements")
  /\ held' = [t \in { u \in DOMAIN held : EventOf[u] # e } |-> held[t]]
  /\ UNCHANGED << quotes, reviewed, now >>

NettingNext ==
  /\ Takes("netting")
  /\ \/ review
     \/ \E t \in NetMarkets : open_held(t) \/ quote_moves(t)
     \/ \E e \in NetEvents : settle_event(e)

(* A profit or a loss is called locked only when every outcome the event can  *)
(* have gives it, the ones outside of the group included.                     *)
LockedIsLocked ==
  \A e \in DOMAIN reviewed :
    /\ reviewed[e].status = "locked_profit" => \A p \in reviewed[e].payouts : p > 0
    /\ reviewed[e].status = "locked_loss" => \A p \in reviewed[e].payouts : p < 0

(* What a review expected of a close is what it has afterwards, when every    *)
(* leg was closed: the money realized and the expectation of the positions    *)
(* left (position_netting.py:207-246).                                        *)
ExecutedAsDecided ==
  \A e \in DOMAIN reviewed :
    reviewed[e].status = "variable" /\ reviewed[e].closed # {} /\ reviewed[e].closed = reviewed[e].decided =>
      reviewed[e].expected = Dollar * reviewed[e].realized + reviewed[e].left

(* "A netting decision that has already been made must not half-execute"      *)
(* (position_netting.py:438-439).                                             *)
NeverHalfExecuted == \A e \in DOMAIN reviewed : reviewed[e].closed \in {{}, reviewed[e].decided}
=============================================================================
