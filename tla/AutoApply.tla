------------------------------- MODULE AutoApply ------------------------------
(* Who changes the configuration of a running program: main.py's              *)
(* _maybe_run_auto_apply, the calibration and advisory routes, the Config     *)
(* tab and the file itself, with the record config_performance keeps of it.   *)
(* Everything runs on the event loop: only the calibration pass gives it up,  *)
(* while it reads the resolved signals.                                       *)
EXTENDS AdvisoryRules, ConfigStore

CONSTANTS Scenarios,        \* each behaviour draws one: its bounds, and who takes part
          Initial,          \* the configuration the program starts with
          Edits,            \* the contents someone else may write to the file
          Signals,          \* the resolved signals a calibration pass may read
          Cooldown,         \* auto_apply_cooldown_sec of either section
          SnapshotInterval, \* confidence_calibration.snapshot_interval_sec
          MinSignals, AutoMinSignals,   \* min_resolved_signals and its automatic floor
          AutoMinN          \* advisory.auto_apply_min_n

VARIABLES pass,       \* the auto-apply pass: where it is, the configuration it holds, its clock
          manual,     \* the same for the manual calibration apply
          pending,    \* an update that is written and not yet recorded
          applied,    \* the applied_changes table
          snapshot,   \* the last calibration snapshot, -1 before the first
          trades,     \* the closed trades, in groups
          variants,   \* the recorded strategy variants
          analysis,   \* an analyst's suggestion waiting for its click
          declined, degraded, now, budget

controlVars == <<pass, manual, pending, applied, snapshot, trades, variants, analysis, declined, degraded, now, budget>>
vars == <<storeVars, controlVars>>

ASSUME ControlAssumption == Cooldown \in Nat

NoPass == [pc |-> "idle", cfg |-> 0, at |-> -1]
NoUpdate == [path |-> "none"]
(* Faulty variant: the configuration the process loaded. *)
Held_at_start(p) == store.heap[1]
Held(p) == store.heap[p.cfg]
(* Whoever runs on the event loop: nothing else does until it is done. *)
LoopFree == pending = NoUpdate /\ pass.pc \in {"idle", "rows"}
Takes(part) == part \in budget.parts

Init ==
  /\ StoreInit(Initial)
  /\ pass = NoPass /\ manual = NoPass /\ pending = NoUpdate
  /\ applied = << >> /\ snapshot = -1
  /\ trades = << >> /\ variants = {} /\ declined = {} /\ degraded = FALSE
  /\ now = 0 /\ analysis = NoUpdate
  /\ budget \in Scenarios

last_applied_at(source) ==
  LET times == {applied[i].at : i \in {j \in 1..Len(applied) : applied[j].source = source}}
  IN  IF times = {} THEN -1 ELSE CHOOSE t \in times : \A u \in times : u <= t
all_last_applied_by_path ==
  LET paths == {applied[i].path : i \in 1..Len(applied)}
      latest(p) == CHOOSE t \in {applied[i].at : i \in 1..Len(applied)} :
                     /\ \E i \in 1..Len(applied) : applied[i].path = p /\ applied[i].at = t
                     /\ \A i \in 1..Len(applied) : applied[i].path = p => applied[i].at <= t
  IN  [p \in paths |-> latest(p)]

-----------------------------------------------------------------------------
(* An update and its row in applied_changes. old is a value, or a reference   *)
(* to a section of the held configuration, which is read when the row is      *)
(* written. before is what the path held when the update began.               *)

Value(v) == [by |-> "value", value |-> v]
Reference(cfg) == [by |-> "reference", cfg |-> cfg]
(* A copy of a table's keys whose entries are still the live ones. *)
Shallow(cfg, table) == [by |-> "shallow", cfg |-> cfg, table |-> table]

(* s is the store as the caller read it. A dump that fails leaves memory      *)
(* changed and the caller with the exception.                                 *)
update(s, path, value, old, source, n) ==
  \/ /\ store' = dumped(merged(s, path, value))
     /\ adrift' = FALSE
     /\ pending' = [path |-> path, value |-> value, old |-> old, before |-> ValueAt(Current(s), path), source |-> source, n |-> n]
  \/ /\ Takes("faults") /\ budget.faults > 0
     /\ store' = merged(s, path, value)
     /\ adrift' = TRUE
     /\ pending' = [path |-> "failed", source |-> source]

OldValue(old, path, s) ==
  CASE old.by = "value" -> old.value
    [] old.by = "reference" -> ValueAt(s.heap[old.cfg], path)
    [] OTHER -> [k \in DOMAIN old.table |-> IF old.table[k] = 0 THEN 0 ELSE ValueAt(s.heap[old.cfg], path)[k]]
Logged(entry, s) ==
  [path |-> entry.path, source |-> entry.source, at |-> now, new |-> entry.value, before |-> entry.before, n |-> entry.n,
   old |-> OldValue(entry.old, entry.path, s)]
Automatic == {"calibration-auto-apply", "unified-advisory-auto"}
(* The pass goes on to the advisory block after its calibration update, and   *)
(* is over after its advisory update or an exception.                         *)
returned(source, raised) ==
  /\ \/ source = "calibration-auto-apply" /\ ~raised /\ pass' = [pass EXCEPT !.pc = "advise"]
     \/ source \in Automatic /\ (raised \/ source = "unified-advisory-auto") /\ pass' = NoPass
     \/ source \notin Automatic /\ UNCHANGED pass
  /\ pending' = NoUpdate

log_applied_change ==
  /\ pending.path \notin {"none", "failed"}
  /\ LET s == get(stamped(store)) IN
       /\ store' = s
       /\ applied' = Append(applied, Logged(pending, s))
  /\ returned(pending.source, FALSE)
  /\ UNCHANGED <<adrift, manual, snapshot, trades, variants, analysis, declined, degraded, now, budget>>

(* The dump or the insert raised: the change is live and has no row. *)
log_raises ==
  /\ \/ /\ pending.path = "failed"
        /\ UNCHANGED store
     \/ /\ pending.path \notin {"none", "failed"}
        /\ Takes("faults")
        /\ store' = get(stamped(store))
  /\ budget.faults > 0
  /\ budget' = [budget EXCEPT !.faults = @ - 1]
  /\ returned(pending.source, TRUE)
  /\ UNCHANGED <<adrift, manual, applied, snapshot, trades, variants, analysis, declined, degraded, now>>

-----------------------------------------------------------------------------
(* The trading loop records the variant it trades under, and trades close.    *)

Trade(group, fp, entered) ==
  [x \in DOMAIN group \cup {"fp", "entered"} |-> IF x = "fp" THEN fp ELSE IF x = "entered" THEN entered ELSE group[x]]
trades_close ==
  \E group \in budget.groups, entered \in {t \in 0..now : t >= now - 1} :
    /\ LoopFree /\ budget.closes > 0
    /\ store' = get(store)
    /\ variants' = variants \cup {Current(store').strategy}
    /\ \E fp \in IF entered = now THEN {Current(store').strategy} ELSE variants' :
         trades' = Append(trades, Trade(group, fp, entered))
    /\ budget' = [budget EXCEPT !.closes = @ - 1]
    /\ UNCHANGED <<adrift, pass, manual, pending, applied, snapshot, declined, degraded, now, analysis>>

(* Every loop and every route that reads the configuration. *)
read_config ==
  /\ LoopFree /\ rereads(store)
  /\ store' = get(store)
  /\ UNCHANGED <<adrift, controlVars>>

-----------------------------------------------------------------------------
(* The auto-apply pass. *)

due(t) == snapshot = -1 \/ t - snapshot >= SnapshotInterval
cooled_down(source, t) == last_applied_at(source) = -1 \/ t - last_applied_at(source) >= Cooldown
(* Outside the scenarios of calibration too few signals are resolved. *)
Reports == {report \in {generate_calibration_report(rows, MinSignals) : rows \in Signals} : report.gated \/ Takes("calibration")}

(* _scheduler_loop hands the pass the configuration as it is now. *)
start_pass ==
  /\ LoopFree /\ pass.pc = "idle"
  /\ store' = get(store)
  /\ pass' = [pc |-> IF Current(store').calibration_enabled /\ due(now) THEN "rows" ELSE "advise",
              cfg |-> store'.mem, at |-> now]
  /\ UNCHANGED <<adrift, manual, pending, applied, snapshot, trades, variants, declined, degraded, now, budget, analysis>>

(* The signals have been read: the snapshot, and the weights they suggest. *)
calibrate ==
  \E report \in Reports :
    LET cfg == Held(pass)
        blended == blended_weights_for_auto_apply(cfg.weights, report.suggested)
    IN  /\ LoopFree /\ pass.pc = "rows"
        /\ snapshot' = IF report.gated THEN snapshot ELSE pass.at
        /\ IF /\ ~report.gated
              /\ cfg.calibration_auto /\ cooled_down("calibration-auto-apply", pass.at)
              /\ report.resolved_count >= AutoMinSignals /\ ~degraded
              /\ blended # cfg.weights
           THEN /\ update(store, "weights", blended, Reference(pass.cfg), "calibration-auto-apply", report.resolved_count)
                /\ pass' = [pass EXCEPT !.pc = "calibrated"]
           ELSE /\ pass' = [pass EXCEPT !.pc = "advise"]
                /\ UNCHANGED <<store, adrift, pending>>
        /\ UNCHANGED <<manual, applied, trades, variants, declined, degraded, now, budget, analysis>>

considered(cfg) ==
  suggestions(cfg, [rows |-> trades, variants |-> variants, gates |-> budget.gates, series_rows |-> budget.series_rows])
remaining(recs) == generate_recommendations(recs, trades, all_last_applied_by_path, declined)
recommendations(cfg) == LET recs == considered(cfg) IN {recs[i] : i \in remaining(recs)}
(* The pass takes the first that has the samples. *)
qualifying(recs) == {i \in remaining(recs) : confidence_rank(recs[i].n) >= 2 /\ recs[i].n >= AutoMinN}
first(ids) == CHOOSE i \in ids : \A j \in ids : i <= j
(* The rules copy the table they suggest a change of one level deep. *)
current_of(rec, cfg) == IF rec.path \in Tables THEN Shallow(cfg, rec.current) ELSE Value(rec.current)

advise ==
  /\ pass.pc = "advise" /\ pending = NoUpdate
  /\ LET cfg == Held(pass)
         recs == considered(cfg)
         chosen == recs[first(qualifying(recs))]
     IN  IF /\ cfg.advisory_enabled /\ cfg.advisory_auto /\ cooled_down("unified-advisory-auto", pass.at)
            /\ qualifying(recs) # {} /\ ~degraded /\ budget.applies > 0
         THEN /\ update(store, chosen.path, chosen.value, current_of(chosen, pass.cfg), "unified-advisory-auto", chosen.n)
              /\ pass' = [pass EXCEPT !.pc = "advised"]
              /\ budget' = [budget EXCEPT !.applies = @ - 1]
         ELSE pass' = NoPass /\ UNCHANGED <<store, adrift, pending, budget>>
  /\ UNCHANGED <<manual, applied, snapshot, trades, variants, declined, degraded, now, analysis>>

-----------------------------------------------------------------------------
(* The routes. *)

apply_advisory_recommendation ==
  /\ LoopFree /\ Takes("manual") /\ budget.applies > 0
  /\ LET s == get(store)
         cfg == Current(s)
     IN  /\ cfg.advisory_enabled
         /\ \E rec \in recommendations(cfg) : update(s, rec.path, rec.value, current_of(rec, s.mem), "unified-advisory", rec.n)
  /\ budget' = [budget EXCEPT !.applies = @ - 1]
  /\ UNCHANGED <<pass, manual, applied, snapshot, trades, variants, declined, degraded, now, analysis>>

decline ==
  /\ LoopFree /\ Takes("decline")
  /\ \E rec \in recommendations(Current(get(store))) : declined' = declined \cup {rec_id(rec)}
  /\ store' = get(store)
  /\ UNCHANGED <<adrift, pass, manual, pending, applied, snapshot, trades, variants, degraded, now, budget, analysis>>
undecline ==
  /\ LoopFree /\ Takes("decline")
  /\ \E id \in declined : declined' = declined \ {id}
  /\ UNCHANGED <<store, adrift, pass, manual, pending, applied, snapshot, trades, variants, degraded, now, budget, analysis>>

(* The manual calibration apply holds the weights while a thread reports. *)
start_apply_calibration ==
  /\ LoopFree /\ Takes("calibration") /\ Takes("manual") /\ manual.pc = "idle" /\ budget.applies > 0
  /\ store' = get(store)
  /\ Current(store').calibration_enabled
  /\ manual' = [pc |-> "rows", cfg |-> store'.mem, at |-> now]
  /\ budget' = [budget EXCEPT !.applies = @ - 1]
  /\ UNCHANGED <<adrift, pass, pending, applied, snapshot, trades, variants, declined, degraded, now, analysis>>
apply_calibration ==
  /\ LoopFree /\ manual.pc = "rows"
  /\ manual' = NoPass
  /\ \E report \in Reports :
       LET blended == blended_weights_for_auto_apply(Held(manual).weights, report.suggested)
       IN  IF ~report.gated /\ blended # Held(manual).weights
           THEN update(store, "weights", blended, Reference(manual.cfg), "calibration-manual", report.resolved_count)
           ELSE UNCHANGED <<store, adrift, pending>>
  /\ UNCHANGED <<pass, applied, snapshot, trades, variants, declined, degraded, now, budget, analysis>>

(* The four auto-apply routes; disabling what is disabled is not recorded. *)
set_auto_apply(path, enabled) ==
  /\ LoopFree /\ Takes("toggle") /\ budget.toggles > 0
  /\ LET s == get(store) IN
       IF enabled \/ ValueAt(Current(s), path)
       THEN update(s, path, enabled, Value(ValueAt(Current(s), path)), "manual", 0)
       ELSE store' = stamped(dumped(s)) /\ adrift' = FALSE /\ UNCHANGED pending
  /\ budget' = [budget EXCEPT !.toggles = @ - 1]
  /\ UNCHANGED <<pass, manual, applied, snapshot, trades, variants, declined, degraded, now, analysis>>
set_auto_applies == \E path \in {"advisory_auto", "calibration_auto"}, enabled \in BOOLEAN : set_auto_apply(path, enabled)

(* The Config tab: diff_patch finds the change before update merges it, and   *)
(* keeps the live object when the changed value is a table.                   *)
update_config(path, value) ==
  LET s == get(store)
      old == ValueAt(Current(s), path)
  IN  /\ LoopFree /\ old # value
      /\ update(s, path, value, IF path \in Tables THEN Reference(s.mem) ELSE Value(old), "manual", 0)
      /\ UNCHANGED <<pass, manual, applied, snapshot, trades, variants, declined, degraded, now, analysis>>
patch_strategy ==
  \E patch \in budget.patches :
    /\ update_config(patch[1], patch[2])
    /\ budget' = [budget EXCEPT !.patches = @ \ {patch}]
(* The override editor sends the whole table, less the key it removes. *)
add_override ==
  \E i \in 1..Len(Categories) :
    /\ Takes("overrides") /\ ValueAt(Current(get(store)), "by_category")[Categories[i]] = 0
    /\ update_config("by_category", [ValueAt(Current(get(store)), "by_category") EXCEPT ![Categories[i]] = 6000])
    /\ budget.applies > 0 /\ budget' = [budget EXCEPT !.applies = @ - 1]
remove_override ==
  \E i \in 1..Len(Categories) :
    /\ Takes("overrides") /\ ValueAt(Current(get(store)), "by_category")[Categories[i]] # 0
    /\ update_config("by_category", [ValueAt(Current(get(store)), "by_category") EXCEPT ![Categories[i]] = 0])
    /\ budget.applies > 0 /\ budget' = [budget EXCEPT !.applies = @ - 1]

(* An analyst's suggestion is made for a value and refused once that moved. *)
analyse ==
  \E path \in {"entry_threshold", "stop_loss_pct"} :
    /\ LoopFree /\ Takes("analyst") /\ analysis = NoUpdate /\ budget.applies > 0
    /\ store' = get(store)
    /\ analysis' = [path |-> path, current |-> ValueAt(Current(store'), path)]
    /\ budget' = [budget EXCEPT !.applies = @ - 1]
    /\ UNCHANGED <<adrift, pass, manual, pending, applied, snapshot, trades, variants, declined, degraded, now>>
apply_analysis ==
  /\ LoopFree /\ analysis # NoUpdate
  /\ analysis' = NoUpdate
  /\ LET s == get(store)
         live == ValueAt(Current(s), analysis.path)
     IN  IF live = analysis.current
         THEN update(s, analysis.path, live + 100, Value(analysis.current), "series-analyst", 0)
         ELSE store' = s /\ UNCHANGED <<adrift, pending>>
  /\ UNCHANGED <<pass, manual, applied, snapshot, trades, variants, declined, degraded, now, budget>>

-----------------------------------------------------------------------------
(* What happens to the program. *)

edit ==
  \E content \in Edits :
    /\ Takes("edits") /\ budget.edits > 0
    /\ edit_file(content, pending.path \notin {"none", "failed"})
    /\ budget' = [budget EXCEPT !.edits = @ - 1]
    /\ UNCHANGED <<pass, manual, pending, applied, snapshot, trades, variants, declined, degraded, now, analysis>>

crash ==
  /\ Takes("faults") /\ budget.faults > 0
  /\ restart_store
  /\ pass' = NoPass /\ manual' = NoPass /\ pending' = NoUpdate
  /\ budget' = [budget EXCEPT !.faults = @ - 1]
  /\ UNCHANGED <<applied, snapshot, trades, variants, declined, degraded, now, analysis>>

(* The evidence lost a row: see evidence_provenance. *)
lose_evidence ==
  /\ Takes("degraded") /\ ~degraded /\ degraded' = TRUE
  /\ UNCHANGED <<store, adrift, pass, manual, pending, applied, snapshot, trades, variants, declined, now, budget, analysis>>

tick ==
  /\ now < budget.time /\ now' = now + 1
  /\ UNCHANGED <<store, adrift, pass, manual, pending, applied, snapshot, trades, variants, declined, degraded, budget, analysis>>

Next ==
  \/ log_applied_change \/ log_raises \/ trades_close \/ read_config
  \/ start_pass \/ calibrate \/ advise
  \/ apply_advisory_recommendation \/ decline \/ undecline \/ start_apply_calibration \/ apply_calibration
  \/ set_auto_applies \/ patch_strategy \/ add_override \/ remove_override \/ analyse \/ apply_analysis
  \/ edit \/ crash \/ lose_evidence \/ tick

Spec == Init /\ [][Next]_vars

-----------------------------------------------------------------------------
(* Properties. *)

TypeOK ==
  /\ store.mem \in 1..Len(store.heap) /\ store.noticed \in BOOLEAN /\ adrift \in BOOLEAN
  /\ pass.pc \in {"idle", "rows", "calibrated", "advise", "advised"} /\ manual.pc \in {"idle", "rows"}
  /\ pass.cfg \in 0..Len(store.heap) /\ manual.cfg \in 0..Len(store.heap)
  /\ snapshot \in -1..now

(* An automatic change is made only while the live configuration allows it:   *)
(* a switch thrown during the pass reaches the pass, because it holds the     *)
(* live sections. The exception is a pass whose configuration the re-read of  *)
(* an edited file has replaced under it.                                      *)
Authorized ==
  /\ pass.pc = "rows" /\ pass'.pc = "calibrated" => Current(store).calibration_auto \/ pass.cfg # store.mem
  /\ pass.pc = "advise" /\ pass'.pc = "advised" => Current(store).advisory_auto \/ pass.cfg # store.mem
AutoApplyAuthorized == [][Authorized]_vars

(* The automatic changes of one source are a cooldown apart on the record,    *)
(* whatever crashes, manual changes and passes come between them.             *)
CooldownKept ==
  \A i, j \in 1..Len(applied) :
    i < j /\ applied[i].source = applied[j].source /\ applied[i].source \in Automatic
      => applied[j].at - applied[i].at >= Cooldown

(* Both guards of an automatic change: it is authorized when it is made, and  *)
(* a cooldown after the last one.                                             *)
AutoApplyIsGuarded == AutoApplyAuthorized /\ []CooldownKept

(* No field is moved again by itself, by anyone's recorded change, before a   *)
(* trade has been entered since: the same evidence is not counted twice.      *)
OnFreshEvidence ==
  pass.pc = "advise" /\ pass'.pc = "advised" /\ pending'.path # "failed" =>
    \A i \in 1..Len(applied) : applied[i].path = pending'.path =>
      \E t \in 1..Len(trades) : trades[t].entered > applied[i].at
EvidenceIsFresh == [][OnFreshEvidence]_vars

(* What the tuner does by itself is authorized, spaced, and on new evidence.   *)
AutoTuningIsGuarded == AutoApplyIsGuarded /\ EvidenceIsFresh

(* However many suggestions are applied, by whomever: every tuned field stays *)
(* where it can take effect, an override is a usable threshold, and the       *)
(* weights remain a distribution up to rounding.                              *)
Between(x, low, high) == low <= x /\ x <= high
TunedWithinBounds ==
  LET fields == Current(store).strategy IN
  /\ Between(fields["entry_threshold"], 1, 9500)
  /\ Between(fields["longshot_entry_threshold_bonus"], 0, 5000)
  /\ Between(fields["take_profit_pct"], 1, Round3(take_profit_ceiling(fields["min_unit_cost"])))
  /\ Between(fields["stop_loss_pct"], 100, StopLossCeiling)
  /\ Between(fields["auto_exit_threshold"], 500, 9500)
  /\ Between(fields["exit_sentiment_lean_pct"], 50 * Whole, 95 * Whole)
  /\ fields["exit_sentiment_min_signals"] >= Whole
  /\ \A i \in 1..Len(Categories) : Current(store).by_category[Categories[i]] # 0 => Between(Current(store).by_category[Categories[i]], 500, 9500)
  /\ Between(Sum(Current(store).weights), One - Cardinality(Factors), One + Cardinality(Factors))

(* config/routes.py: "the diff itself is computed against the pre-update      *)
(* snapshot (diff_patch reads old_cfg, not the live store)". A row's old      *)
(* value is what the path held before the change.                             *)
AuditTellsTheOldValue == \A i \in 1..Len(applied) : applied[i].old = applied[i].before

(* A change on the record is what the configuration now says: an override     *)
(* whose removal was recorded is gone.                                        *)
RecordedChangeIsLive ==
  [][Len(applied') > Len(applied) => ValueAt(Current(store), pending.path) = pending.value]_vars
=============================================================================
