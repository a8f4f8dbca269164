--------------------------- MODULE AdvisoryRules ----------------------------
(* The rules of services/advisory/advisory_engine.py: what each of them       *)
(* suggests for a configuration, given the closed trades. Fields are in       *)
(* 1/10000 of their unit, prices too; win rates are whole percents. Trades    *)
(* that look alike to every rule are one group with a count; their profit and *)
(* what they left on the table are fractions of their cost.                   *)
EXTENDS Integers, Sequences, SequencesExt

CONSTANTS MinResolved,      \* advisory.min_resolved_trades_per_variant
          GroupMinN,        \* the 3 trades a close type needs
          CategoryMinN,     \* _CATEGORY_MIN_N, _REJECTED_CANDIDATE_MIN_N, _SERIES_EVALUATOR_MIN_N
          FieldOrder,       \* the strategy fields as a variant stores them, sorted
          Categories,       \* the categories of the traded markets, in the order they are reported
          SeriesOrder       \* and their series

Whole == 10000
Round3(x) == ((x + 5) \div 10) * 10
Lesser(a, b) == IF a <= b THEN a ELSE b
Greater(a, b) == IF a >= b THEN a ELSE b

Total(groups) == FoldSeq(LAMBDA g, acc : g.n + acc, 0, groups)
Summed(groups, V(_)) == FoldSeq(LAMBDA g, acc : g.n * V(g) + acc, 0, groups)
Won(groups) == SelectSeq(groups, LAMBDA g : g.pnl > 0)
win_rate(groups) == (100 * Total(Won(groups))) \div Total(groups)

(* The 95% margin of error of a rate wr over n is 1.96*sqrt(wr*(100-wr)/n):   *)
(* a gap of d points is compared with it by the squares. A rate of 0 or 100   *)
(* has no margin at all.                                                      *)
Sample(n, wr) == [n |-> n, wr |-> wr]
within_margin(d, s) == d < 0 \/ s.n = 0 \/ 100 * s.n * d * d < 384 * s.wr * (100 - s.wr)
beyond_margin(d, s) == d > 0 /\ s.n > 0 /\ 100 * s.n * d * d > 384 * s.wr * (100 - s.wr)
(* _comparability_margin_pts takes the margin of the smaller sample. *)
smaller(s, t) == IF s.n <= t.n THEN s ELSE t
sample_of(groups) == Sample(Total(groups), win_rate(groups))
outperforms(a, b) == ~within_margin(a.wr - b.wr, smaller(a, b))

confidence_rank(n) == CASE n < 5 -> 0 [] n < 15 -> 1 [] OTHER -> 2

(* What one rule suggests. *)
Rec(path, current, value, n) == [path |-> path, current |-> current, value |-> value, n |-> n]
rec_id(rec) == <<rec.path, rec.value, rec.n>>
Suggest(path, current, value, n) == IF value = current THEN << >> ELSE << Rec(path, current, value, n) >>

take_profit_ceiling(min_unit_cost) == (Whole * (Whole - min_unit_cost)) \div min_unit_cost
StopLossCeiling == 10500
(* Faulty variant: the take-profit is not clamped. *)
clamp_stop_loss_only(field, value, fields) ==
  IF field = "stop_loss_pct" THEN Lesser(value, StopLossCeiling) ELSE value
clamp(field, value, fields) ==
  Lesser(value, CASE field = "stop_loss_pct" -> StopLossCeiling
                  [] field = "take_profit_pct" -> Round3(take_profit_ceiling(fields["min_unit_cost"])))

-----------------------------------------------------------------------------
(* Rules within the pooled trades. *)

bucket_floor == << 0, 5000, 7500 >>
bucket(c) == CASE c < 5000 -> 1 [] c <= 7500 -> 2 [] OTHER -> 3

entry_threshold_recommendation(rows, fields) ==
  LET current == fields["entry_threshold"]
      of(b) == SelectSeq(rows, LAMBDA g : bucket(g.conf) = b)
      populated == {b \in 1..3 : Total(of(b)) > 0}
      rate == [b \in populated |-> win_rate(of(b))]
      best == Min({b \in populated : \A o \in populated : rate[o] <= rate[b]})
      worst == Min({b \in populated : \A o \in populated : rate[o] >= rate[b]})
  IN  IF Cardinality(populated) < 2 \/ ~outperforms(sample_of(of(best)), sample_of(of(worst)))
      THEN << >>
      ELSE Suggest("entry_threshold", current, Round3(Greater(current, bucket_floor[best])), Total(rows))

longshot_bonus_recommendation(rows, fields) ==
  LET zone == fields["longshot_price_threshold"]
      current == fields["longshot_entry_threshold_bonus"]
      is_longshot(g) == g.price <= zone \/ g.price >= Whole - zone
      longshot == SelectSeq(rows, is_longshot)
      other == SelectSeq(rows, LAMBDA g : ~is_longshot(g))
      value == Round3(Lesser(5000, current + 1000))
  IN  IF \/ Total(longshot) < GroupMinN \/ Total(other) < GroupMinN
         \/ ~outperforms(sample_of(other), sample_of(longshot))
         \/ value <= current
      THEN << >>
      ELSE Suggest("longshot_entry_threshold_bonus", current, value, Total(rows))

Closed(rows, type) == SelectSeq(rows, LAMBDA g : g.close = type)

take_profit_recommendation(rows, fields) ==
  LET group == Closed(rows, "take_profit")
      left == SelectSeq(group, LAMBDA g : g.left > 0)
      current == fields["take_profit_pct"]
  IN  IF Total(group) < GroupMinN \/ left = << >> THEN << >>
      ELSE << Rec("take_profit_pct", current,
                  clamp("take_profit_pct", Round3(current + Summed(left, LAMBDA g : g.left) \div Total(left)), fields),
                  Total(group)) >>

stop_loss_recommendation(rows, fields) ==
  LET group == Closed(rows, "stop_loss")
      current == fields["stop_loss_pct"]
      over == SelectSeq(group, LAMBDA g : -g.pnl > current)
      overshoot == Summed(over, LAMBDA g : -g.pnl - current) \div Total(over)
  IN  IF Total(group) < GroupMinN \/ over = << >> THEN << >>
      ELSE << Rec("stop_loss_pct", current,
                  clamp("stop_loss_pct", Round3(Greater(100, current - overshoot)), fields), Total(group)) >>

auto_exit_threshold_recommendation(rows, fields) ==
  LET group == Closed(rows, "auto_exit")
      current == fields["auto_exit_threshold"]
  IN  IF Total(group) < GroupMinN THEN << >>
      ELSE Suggest("auto_exit_threshold", current,
                   Round3(IF Summed(group, LAMBDA g : g.pnl) > 0 THEN Lesser(9500, current + 500) ELSE Greater(500, current - 500)),
                   Total(group))

sentiment_exit_recommendations(rows, fields) ==
  LET group == Closed(rows, "sentiment_reversal")
      lean == fields["exit_sentiment_lean_pct"]
      signals == fields["exit_sentiment_min_signals"]
      losing == Summed(group, LAMBDA g : g.pnl) <= 0
  IN  IF Total(group) < GroupMinN THEN << >>
      ELSE Suggest("exit_sentiment_lean_pct", lean,
                   IF losing THEN Lesser(95 * Whole, lean + 5 * Whole) ELSE Greater(50 * Whole, lean - 5 * Whole), Total(group))
        \o Suggest("exit_sentiment_min_signals", signals,
                   IF losing THEN signals + 2 * Whole ELSE Greater(Whole, signals - 2 * Whole), Total(group))

within_variant_recommendations(rows, fields) ==
  entry_threshold_recommendation(rows, fields) \o longshot_bonus_recommendation(rows, fields)
    \o take_profit_recommendation(rows, fields) \o stop_loss_recommendation(rows, fields)
    \o auto_exit_threshold_recommendation(rows, fields) \o sentiment_exit_recommendations(rows, fields)

-----------------------------------------------------------------------------
(* Variants: the trades entered under each strategy configuration. *)

variant_rows(rows, fp) == SelectSeq(rows, LAMBDA g : g.fp = fp)
(* In the order the variants first appear in the trade history. *)
variant_order(rows) ==
  LET fps == [i \in 1..Len(rows) |-> rows[i].fp]
  IN  SelectSeq([i \in 1..Len(rows) |-> IF \E j \in 1..(i - 1) : fps[j] = fps[i] THEN << >> ELSE << fps[i] >>], LAMBDA x : x # << >>)

cross_variant_recommendations(rows, current_fp, variants) ==
  LET own == variant_rows(rows, current_fp)
      better(fp) == LET other == variant_rows(rows, fp)
                    IN  /\ fp # current_fp /\ fp \in variants /\ Total(other) >= MinResolved
                        /\ outperforms(sample_of(other), sample_of(own))
      diffs(fp) == SelectSeq(FieldOrder, LAMBDA f : fp[f] # current_fp[f])
      recs(fp) == [i \in 1..Len(diffs(fp)) |->
                     Rec(diffs(fp)[i], current_fp[diffs(fp)[i]], fp[diffs(fp)[i]],
                         Lesser(Total(own), Total(variant_rows(rows, fp))))]
  IN  IF own = << >> \/ current_fp \notin variants \/ Total(own) < MinResolved THEN << >>
      ELSE FlattenSeq([i \in 1..Len(variant_order(rows)) |->
                         LET fp == variant_order(rows)[i][1] IN IF better(fp) THEN recs(fp) ELSE << >>])

(* The gates whose threshold a rejected candidate may move, in dict order. *)
gate_paths == << << "entry_threshold", "entry_threshold", "min" >>, << "min_whale_winrate_pct", "min_whale_winrate_pct", "min" >>,
                 << "close_window", "close_window_sec", "max" >>,
                 << "special_market_gate", "special_market_min_seconds_to_close", "min" >> >>
nudged(current, direction) ==
  LET step == IF current = 0 THEN 1000 ELSE current \div 10
  IN  IF direction = "min" THEN current - step ELSE current + step
(* gates: the resolved rejections of a gate, as a sample, by gate name. *)
rejected_candidate_recommendations(gates, rows, fields) ==
  LET useful(gate) == /\ gate \in DOMAIN gates
                      /\ gates[gate].n >= CategoryMinN /\ Total(rows) >= CategoryMinN
                      /\ ~beyond_margin(win_rate(rows) - gates[gate].wr, smaller(gates[gate], sample_of(rows)))
      rec(gate, path, direction) ==
        IF useful(gate) THEN Suggest(path, fields[path], nudged(fields[path], direction), Lesser(gates[gate].n, Total(rows)))
        ELSE << >>
  IN  FlattenSeq([i \in 1..Len(gate_paths) |-> rec(gate_paths[i][1], gate_paths[i][2], gate_paths[i][3])])

(* series_rows: series_evaluator's verdict on each series. *)
series_evaluator_recommendations(series_rows, fields) ==
  LET condemned == SelectSeq(series_rows, LAMBDA r : /\ r.series \notin fields["excluded_series"]
                                                     /\ r.rejected \/ r.below_winrate_floor
                                                     /\ r.resolved >= CategoryMinN)
  IN  [i \in 1..Len(condemned) |->
         Rec("excluded_series", fields["excluded_series"], fields["excluded_series"] \cup {condemned[i].series}, condemned[i].resolved)]

-----------------------------------------------------------------------------
(* One category or series at a time, as an override of entry_threshold. An    *)
(* override table maps a key to its threshold, 0 when the key has none.       *)

resolved_threshold(override, base) == IF override = 0 THEN base ELSE override
stepped(gap, current) == Round3(IF gap < 0 THEN Lesser(9500, current + 500) ELSE Greater(500, current - 500))
conditional(path, table, key, s, overall, base) ==
  LET gap == s.wr - overall
      current == resolved_threshold(table[key], base)
      distance == IF gap < 0 THEN -gap ELSE gap
  IN  IF within_margin(distance, s) \/ stepped(gap, current) = current THEN << >>
      ELSE << Rec(path, table, [table EXCEPT ![key] = stepped(gap, current)], s.n) >>

of_category(rows, c) == SelectSeq(rows, LAMBDA g : g.category = c)
of_series(rows, name) == SelectSeq(rows, LAMBDA g : g.series = name)
category_conditional_recommendations(rows, table, base) ==
  FlattenSeq([i \in 1..Len(Categories) |->
    IF Total(of_category(rows, Categories[i])) < CategoryMinN THEN << >>
    ELSE conditional("by_category", table, Categories[i], sample_of(of_category(rows, Categories[i])), win_rate(rows), base)])

(* A series too young for a rate of its own borrows its subcategory's, or its *)
(* category's.                                                                *)
series_evidence(rows, name) ==
  LET own == of_series(rows, name)
      sub == SelectSeq(rows, LAMBDA g : g.subcategory = own[1].subcategory)
  IN  CASE Total(own) >= CategoryMinN -> own
        [] Total(own) < CategoryMinN /\ Total(sub) >= CategoryMinN -> sub
        [] OTHER -> of_category(rows, own[1].category)
series_conditional_recommendations(rows, table, base) ==
  FlattenSeq([i \in 1..Len(SeriesOrder) |->
    IF of_series(rows, SeriesOrder[i]) = << >> \/ Total(series_evidence(rows, SeriesOrder[i])) < CategoryMinN THEN << >>
    ELSE conditional("by_series", table, SeriesOrder[i], sample_of(series_evidence(rows, SeriesOrder[i])), win_rate(rows), base)])

-----------------------------------------------------------------------------
(* What the rules suggest. evidence: the closed trades, the recorded variants, *)
(* the gates' resolved rejections and the series verdicts. cfg is the          *)
(* configuration of the pass.                                                  *)
suggestions(cfg, evidence) ==
  LET rows == evidence.rows
      base == cfg.strategy["entry_threshold"]
  IN  IF rows = << >> THEN series_evaluator_recommendations(evidence.series_rows, cfg.strategy)
      ELSE within_variant_recommendations(rows, cfg.strategy)
             \o cross_variant_recommendations(rows, cfg.strategy, evidence.variants)
             \o rejected_candidate_recommendations(evidence.gates, rows, cfg.strategy)
             \o series_evaluator_recommendations(evidence.series_rows, cfg.strategy)
             \o category_conditional_recommendations(rows, cfg.by_category, base)
             \o series_conditional_recommendations(rows, cfg.by_series, base)

(* Faulty variant: a trade entered at the moment of the change counts. *)
drop_stale_recommendations_late(recs, rows, last_applied) ==
  {i \in 1..Len(recs) : \/ recs[i].path \notin DOMAIN last_applied
                        \/ \E t \in 1..Len(rows) : rows[t].entered >= last_applied[recs[i].path]}
(* A suggestion is dropped unless a trade was entered since its path changed. *)
drop_stale_recommendations(recs, rows, last_applied) ==
  {i \in 1..Len(recs) : \/ recs[i].path \notin DOMAIN last_applied
                        \/ \E t \in 1..Len(rows) : rows[t].entered > last_applied[recs[i].path]}
(* The places of those that are left. *)
generate_recommendations(recs, rows, last_applied, declined) ==
  {i \in drop_stale_recommendations(recs, rows, last_applied) : rec_id(recs[i]) \notin declined}

-----------------------------------------------------------------------------
(* services/whale_calibration/confidence_calibration.py: how well each factor *)
(* of the confidence score separates the signals that turned out right, the   *)
(* weights that suggests, and how they are blended into the live ones. Rates  *)
(* and gaps are in 1/10 of a percent, weights and prices in 1/10000.          *)

CONSTANTS Factors,        \* _FACTOR_NAMES
          TieFloor,       \* the 30 rows from which a tie across a cut counts
          Absent          \* a factor the signal has no value for

One == 10000
RoundTo(x, unit) == ((x + unit \div 2) \div unit) * unit
Correct(rows) == Cardinality({i \in 1..Len(rows) : rows[i].correct})
rate(rows) == (1000 * Correct(rows)) \div Len(rows)

(* The rows that share the value at a cut, on both of its sides. *)
tied_run_size(vals, cut) ==
  IF cut <= 0 \/ cut >= Len(vals) THEN 0
  ELSE IF vals[cut + 1] # vals[cut] THEN 0
  ELSE Cardinality({i \in 1..Len(vals) : vals[i] = vals[cut]})

(* Terciles of a factor's rows, unless its values vary too little or one      *)
(* value straddles a cut. No materiality share is large enough here to exceed *)
(* the floor: 0.005 * n > 30 takes 6000 rows.                                 *)
bucket_win_rates(rows, factor) ==
  LET applicable == SelectSeq(rows, LAMBDA r : r.factors[factor] # Absent)
      sorted == SortSeq(applicable, LAMBDA a, b : a.factors[factor] < b.factors[factor])
      vals == [i \in 1..Len(sorted) |-> sorted[i].factors[factor]]
      n == Len(sorted)
      third == n \div 3
  IN  CASE Cardinality({vals[i] : i \in 1..n}) < 3 -> [status |-> "insufficient_variance"]
        [] /\ Cardinality({vals[i] : i \in 1..n}) >= 3
           /\ \E cut \in {third, n - third} : tied_run_size(vals, cut) >= TieFloor -> [status |-> "contaminated"]
        [] OTHER -> [status |-> "ok", low |-> SubSeq(sorted, 1, third), high |-> SubSeq(sorted, n - third + 1, n)]

(* The gap of a factor, Absent when it has no terciles. *)
factor_report(rows, factor) ==
  LET buckets == bucket_win_rates(rows, factor)
  IN  IF buckets.status # "ok" THEN Absent ELSE rate(buckets.high) - rate(buckets.low)

MinSuggestedWeight == 500
Sum(f) == FoldSet(LAMBDA k, acc : f[k] + acc, 0, DOMAIN f)
(* Shares of the positive gaps, none below 5%, rounded to 1/100; a function   *)
(* of the factors with a gap, empty when nothing discriminates.               *)
suggested_weights(gaps) ==
  LET measured == {f \in Factors : gaps[f] # Absent}
      positive == [f \in measured |-> IF gaps[f] > 0 THEN gaps[f] ELSE 0]
      floored == [f \in measured |-> LET share == (positive[f] * One) \div Sum(positive)
                                     IN  IF share > MinSuggestedWeight THEN share ELSE MinSuggestedWeight]
  IN  IF \A f \in measured : gaps[f] <= 0 THEN [f \in {} |-> 0]
      ELSE [f \in measured |-> RoundTo((floored[f] * One) \div Sum(floored), 100)]

(* The live weights overlaid with the suggested ones, all renormalised. *)
blended_weights_for_auto_apply(current, suggested) ==
  LET merged == [f \in Factors |-> IF f \in DOMAIN suggested THEN suggested[f] ELSE current[f]]
  IN  IF suggested = [f \in {} |-> 0] \/ Sum(merged) <= 0 THEN current
      ELSE [f \in Factors |-> (merged[f] * One + Sum(merged) \div 2) \div Sum(merged)]

(* The report, gated on the number of resolved signals. *)
generate_calibration_report(rows, min_resolved_signals) ==
  IF Len(rows) < min_resolved_signals THEN [gated |-> TRUE, resolved_count |-> Len(rows)]
  ELSE [gated |-> FALSE, resolved_count |-> Len(rows),
        suggested |-> suggested_weights([f \in Factors |-> factor_report(rows, f)])]
=============================================================================
