------------------------------ MODULE Coordination ----------------------------
(* The two standalone tools that watch the repository itself: quality_ratchet *)
(* follows the findings of the static audit, quality_coordination the         *)
(* branches and plans, each from run to run of a script nothing schedules.    *)
(* Each keeps, per subject, how long it has been there without a break, and   *)
(* raises what outlives a floor unless somebody is seen to work on it.        *)
EXTENDS Runtime, SequencesExt

CONSTANTS
  Findings,          \* the audit's findings, in the order it reports them
  AutomationKey,     \* finding -> the key its line-insensitive scope gives it
  Severity,          \* finding -> "error" or "warning"
  Branches, Edits,   \* Edits[b]: the keys whose file branch b changes
  Plans,             \* plan documents with unchecked tasks
  FloorHours,        \* severity, and domain of the engine -> persistence floor
  DeburstGap, DeburstCount, StalenessIdle, ClusterWindow

(* No level's floor is below the gap of a burst.                              *)
ASSUME CoordinationAssumption ==
  /\ Findings \in Seq(DOMAIN Severity)
  /\ DeburstGap \in Nat /\ StalenessIdle \in Nat
  /\ \A f \in DOMAIN Severity : FloorHours[Severity[f]] \in Nat /\ DeburstGap <= FloorHours[Severity[f]]

VARIABLES
  findings,          \* what the working tree holds
  live,              \* branch -> its creation, last commit, pull request and CI, or Unborn
  plans,             \* the plans not finished
  coordination_items, coordination_log, coordination_runs,    \* quality_ratchet.db
  signal_state,      \* the engine's rows: identity -> what it last decided
  audits, cycles     \* what each completed run saw (for the properties)

coordinationVars == <<findings, live, plans, coordination_items, coordination_log, coordination_runs, signal_state, audits, cycles>>
world == <<findings, live, plans>>
ratchet == <<coordination_items, coordination_log, coordination_runs, audits>>
engine == <<signal_state, cycles>>

Unborn == [created |-> -1, committed |-> -1, pr |-> "none", ci |-> "none"]
Existing == {b \in Branches : live[b] # Unborn}
Keys == {AutomationKey[f] : f \in ToSet(Findings)}
NoItem == [state |-> "absent", level |-> "none", first |-> -1, count |-> 0, reopens |-> 0]
NoSignal == [state |-> "absent", fingerprint |-> << >>, first |-> -1, count |-> 0]
Subjects == Branches \cup Plans

CoordinationInit ==
  /\ findings = {} /\ live = [b \in Branches |-> Unborn] /\ plans = {}
  /\ coordination_items = [k \in Keys |-> NoItem] /\ coordination_log = [k \in Keys |-> {}] /\ coordination_runs = << >>
  /\ signal_state = [s \in Subjects |-> NoSignal]
  /\ audits = << >> /\ cycles = << >>

(* The work on the repository: findings and plans come and go, a branch is    *)
(* created, committed to, put up as a pull request, built, and merged away.   *)
finding_changes == \E f \in ToSet(Findings) : findings' = IF f \in findings THEN findings \ {f} ELSE findings \cup {f}
plan_changes == \E p \in Plans : plans' = IF p \in plans THEN plans \ {p} ELSE plans \cup {p}
Worked(b) ==
  IF live[b] = Unborn THEN {[Unborn EXCEPT !.created = now, !.committed = now]}
  ELSE {Unborn, [live[b] EXCEPT !.committed = now]}
    \cup IF ~Takes("cycles") THEN {}
         ELSE IF live[b].pr = "none" THEN {[live[b] EXCEPT !.pr = "OPEN", !.ci = "pending"]}
         ELSE {[live[b] EXCEPT !.ci = ci] : ci \in {"pending", "failure", "success"} \ {live[b].ci}}
branch_changes == \E b \in budget.worked_on : \E to \in Worked(b) : live' = [live EXCEPT ![b] = to]
work ==
  /\ Spends("changes")
  /\ \/ Takes("audit") /\ finding_changes /\ UNCHANGED <<live, plans>>
     \/ Takes("plans") /\ plan_changes /\ UNCHANGED <<findings, live>>
     \/ branch_changes /\ UNCHANGED <<findings, plans>>
  /\ UNCHANGED <<now, ratchet, engine>>

(* ---- quality_ratchet ----------------------------------------------------- *)
(* Several findings may share a key: the last of the report stands for it.    *)
Reported(key) == {i \in DOMAIN Findings : Findings[i] \in findings /\ AutomationKey[Findings[i]] = key}
level_of(key) == Severity[Findings[Max(Reported(key))]]
(* No claims exist (derive_claims). A branch counts while its last commit is  *)
(* recent, if it was heard of: any request of its fetch may have failed.      *)
suppressing_never(key, heard) == FALSE
suppressing(key, heard) == \E b \in heard : now - live[b].committed < StalenessIdle /\ key \in Edits[b]
(* Log entries at least a gap apart, counted over the key's whole history.    *)
deburst_count(times) ==
  LET Step(acc, t) == IF acc.count = 0 \/ t - acc.last >= DeburstGap THEN [count |-> acc.count + 1, last |-> t] ELSE acc
  IN FoldLeft(Step, [count |-> 0, last |-> 0], SetToSortSeq(times, <)).count
floor_met_at_once(key, level, first, log) == deburst_count(log) >= DeburstCount
floor_met(key, level, first, log) ==
  \/ now - first >= FloorHours[level]
  \/ deburst_count(log) >= DeburstCount /\ now - first >= DeburstGap
first_observed_kept(item) == IF item.state = "absent" THEN now ELSE item.first
first_observed_at(item) == IF item.state \in {"absent", "resolved"} THEN now ELSE item.first
observed_item(key, heard) ==
  LET item == coordination_items[key]  first == first_observed_at(item)  level == level_of(key)
  IN [state |-> IF suppressing(key, heard) THEN "suppressed_pending_work"
                ELSE IF floor_met(key, level, first, coordination_log[key] \cup {now}) THEN "escalation_eligible" ELSE "observed",
      level |-> level, first |-> first, count |-> item.count + 1,
      reopens |-> IF item.state = "resolved" THEN item.reopens + 1 ELSE item.reopens]
resolved_item(item) == IF item.state \in {"absent", "resolved"} THEN item ELSE [item EXCEPT !.state = "resolved"]

(* A completed audit: every item is brought up to date in one transaction,    *)
(* and the last run's row is refreshed when nothing else was found.           *)
Run(fingerprint, error) == [fingerprint |-> fingerprint, at |-> now, error |-> error]
observe_main(heard) ==
  LET present == {AutomationKey[f] : f \in findings}
      touched == {k \in Keys : k \in present \/ coordination_items[k].state \notin {"absent", "resolved"}}
      last == Len(coordination_runs)
      same == last > 0 /\ coordination_runs[last].fingerprint = findings
  IN /\ coordination_items' = [k \in Keys |-> IF k \in present THEN observed_item(k, heard) ELSE resolved_item(coordination_items[k])]
     /\ coordination_log' = [k \in Keys |-> IF k \in touched THEN coordination_log[k] \cup {now} ELSE coordination_log[k]]
     /\ coordination_runs' = IF same THEN [coordination_runs EXCEPT ![last] = Run(findings, FALSE)] ELSE Append(coordination_runs, Run(findings, FALSE))
     /\ audits' = Append(audits, [at |-> now, present |-> present, heard |-> [b \in heard |-> live[b].committed]])
(* A failed one leaves the items alone; a run of failures leaves one row.     *)
Failed == {"audit failed"}
audit_fails ==
  /\ Spends("faults")
  /\ coordination_runs' = IF coordination_runs # << >> /\ Last(coordination_runs).fingerprint = Failed THEN coordination_runs
                          ELSE Append(coordination_runs, Run(Failed, TRUE))
  /\ UNCHANGED <<coordination_items, coordination_log, audits>>
run_coordination_cycle ==
  /\ Takes("audit")
  /\ \/ Spends("audits") /\ observe_main(Existing)
     \/ Left("faults") /\ Spends("audits") /\ \E heard \in SUBSET Existing : heard # Existing /\ observe_main(heard)
     \/ audit_fails
  /\ UNCHANGED <<now, world, engine>>

(* ---- quality_coordination ------------------------------------------------ *)
(* What the commands say of a branch. Exit codes are not read: without an     *)
(* answer there is no pull request and no build.                              *)
pr_state(b, answered) == IF answered THEN live[b].pr ELSE "none"
commit_status(b, answered) == IF pr_state(b, answered) = "none" THEN "none" ELSE live[b].ci
cluster_siblings(b, listed) ==
  {other \in listed \ {b} : live[other].created - live[b].created \in (-ClusterWindow)..ClusterWindow}
branch_payload(b, answered) ==
  LET payload == <<pr_state(b, answered), commit_status(b, answered)>>
      stuck == commit_status(b, answered) = "pending" /\ signal_state[b].fingerprint = payload
  IN IF stuck THEN Append(payload, "possibly_stuck") ELSE payload
branch_signals(listed, answered) ==
  [b \in listed |->
    [domain |-> "branch", payload |-> branch_payload(b, answered),
     suppressed |-> pr_state(b, answered) = "OPEN" \/ cluster_siblings(b, listed) # {},
     immediate |-> commit_status(b, answered) = "failure"]]
plan_signals(found) == [p \in found |-> [domain |-> "ledger", payload |-> <<"unchecked">>, suppressed |-> FALSE, immediate |-> FALSE]]

first_seen_kept(row) == IF row.state = "absent" THEN now ELSE row.first
first_seen_at(row) == IF row.state \in {"absent", "resolved"} THEN now ELSE row.first
decided_by_floor(signal, first) == IF now - first >= FloorHours[signal.domain] THEN "escalation_eligible" ELSE "observed"
decided(signal, first) ==
  IF signal.immediate THEN "escalation_eligible"
  ELSE IF signal.suppressed THEN "suppressed"
  ELSE IF now - first >= FloorHours[signal.domain] THEN "escalation_eligible" ELSE "observed"
apply_observation(signals) ==
  signal_state' = [s \in Subjects |->
    LET row == signal_state[s]  first == first_seen_at(row)
    IN IF s \in DOMAIN signals
       THEN [state |-> decided(signals[s], first), fingerprint |-> signals[s].payload, first |-> first,
             count |-> IF row.state \in {"absent", "resolved"} THEN 1 ELSE row.count + 1]
       ELSE IF row.state \in {"absent", "resolved"} THEN row ELSE [row EXCEPT !.state = "resolved"]]

(* A cycle commits its decisions before the rest of its report; `git branch`  *)
(* failing, like the plan directory missing, is an empty list.                *)
detect(listed, answered) ==
  LET signals == [s \in listed \cup plans |-> IF s \in listed THEN branch_signals(listed, answered)[s] ELSE plan_signals(plans)[s]]
  IN /\ apply_observation(signals)
     /\ cycles' = Append(cycles, [at |-> now, signals |-> signals])
run_detect_cycle ==
  /\ Takes("cycles") /\ Spends("audits")
  /\ \/ detect(Existing, TRUE)
     \/ Left("faults") /\ detect({}, TRUE)
     \/ Left("faults") /\ detect(Existing, FALSE)
  /\ UNCHANGED <<now, world, ratchet>>

CoordinationNext == work \/ run_coordination_cycle \/ run_detect_cycle

(* What a finding's item says is the history of the audits that completed:    *)
(* it is resolved exactly when the last of them lacked it, nobody was seen    *)
(* to work on what is raised, and what is raised was found by every audit     *)
(* over at least the gap a burst of runs cannot span.                         *)
RatchetFollowsAudits ==
  \A k \in Keys :
    LET item == coordination_items[k]  last == Len(audits)
        Unbroken(i) == \A j \in i..last : k \in audits[j].present
        Heard == audits[last].heard
    IN /\ item.state = "absent" <=> \A j \in 1..last : k \notin audits[j].present
       /\ item.state = "resolved" <=> (\E j \in 1..last : k \in audits[j].present) /\ k \notin audits[last].present
       /\ item.state = "escalation_eligible" =>
            /\ \A b \in DOMAIN Heard : k \in Edits[b] => audits[last].at - Heard[b] >= StalenessIdle
            /\ \E i \in 1..last : Unbroken(i) /\ audits[last].at - audits[i].at >= DeburstGap

(* The engine raises a branch or a plan only in the cycle its build failed,   *)
(* or after it was listed by every cycle over its domain's whole floor with   *)
(* nobody working on it at the last.                                          *)
EngineFollowsCycles ==
  \A s \in Subjects :
    LET row == signal_state[s]  last == Len(cycles)
        Listed(j) == s \in DOMAIN cycles[j].signals
    IN /\ row.state = "resolved" <=> (\E j \in 1..last : Listed(j)) /\ ~Listed(last)
       /\ row.state = "escalation_eligible" =>
            \/ cycles[last].signals[s].immediate
            \/ /\ ~cycles[last].signals[s].suppressed
               /\ \E i \in 1..last : /\ \A j \in i..last : Listed(j)
                                     /\ cycles[last].at - cycles[i].at >= FloorHours[cycles[last].signals[s].domain]
OnlyRaisesWhatPersists == RatchetFollowsAudits /\ EngineFollowsCycles
=============================================================================
