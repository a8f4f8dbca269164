--------------------------------- MODULE Backup -------------------------------
(* services/backup/backup.py: each tier copies its files into a directory of  *)
(* its own, prunes the oldest directories and records the run. A cycle runs   *)
(* on a thread, file by file, while the loop goes on.                         *)
EXTENDS Runtime

CONSTANTS Tiers, Files,   \* Files[t]: the database files of tier t
          Interval,       \* Interval[t]: interval_sec of the tier
          Retention       \* retention_count

ASSUME BackupAssumption ==
  /\ Interval \in [Tiers -> Nat] /\ Retention \in Nat
  /\ \A t \in Tiers : IsFiniteSet(Files[t])

VARIABLES tier,           \* per tier: the running flag, last_started_at, and the cycle on its thread
          snapshots,      \* per tier: the directories, oldest first
          runs            \* the backup_runs table

backupVars == <<tier, snapshots, runs>>

Never == -100             \* last_started_at before the first run of the process, and of a tier without one
NoCycle == [at |-> Never, todo |-> {}, failed |-> {}]
Fresh == [running |-> FALSE, last_started_at |-> Never, cycle |-> NoCycle]
BackupInit ==
  /\ tier = [t \in Tiers |-> Fresh]
  /\ snapshots = [t \in Tiers |-> << >>]
  /\ runs = << >>

RunsOf(t) == {i \in 1..Len(runs) : runs[i].tier = t}
latest(t) == IF RunsOf(t) = {} THEN Never
             ELSE CHOOSE at \in {runs[i].at : i \in RunsOf(t)} : \A i \in RunsOf(t) : runs[i].at <= at

(* mkdir, then one file after the other. A directory is named by its second:  *)
(* two cycles of a tier do not begin in the same one.                         *)
begins(t, manual) ==
  /\ \A k \in 1..Len(snapshots[t]) : snapshots[t][k].at # now
  /\ tier' = [tier EXCEPT ![t] = [running |-> TRUE, last_started_at |-> now, cycle |-> [at |-> now, todo |-> Files[t], failed |-> {}]]]
  /\ snapshots' = [snapshots EXCEPT ![t] = Append(@, [at |-> now, files |-> {}, manual |-> manual])]
  /\ UNCHANGED <<runs, now>>

(* Faulty variant: after a restart the tier is due at once. *)
seeded_never(t) == tier[t].last_started_at
seeded(t) == IF tier[t].last_started_at = Never THEN latest(t) ELSE tier[t].last_started_at
maybe_run_backup(t) ==
  /\ Takes(t) /\ now - seeded(t) > Interval[t] /\ ~tier[t].running
  /\ begins(t, FALSE)
  /\ UNCHANGED budget
run_backup_now(t) ==
  /\ Takes(t) /\ ~tier[t].running /\ Spends("clicks")
  /\ begins(t, TRUE)

Running(t) == tier[t].running
backup_one_file(t) ==
  \E f \in tier[t].cycle.todo :
    /\ Running(t)
    /\ \/ /\ tier' = [tier EXCEPT ![t].cycle.todo = @ \ {f}]
          /\ snapshots' = [snapshots EXCEPT ![t][Len(snapshots[t])].files = @ \cup {f}]
          /\ UNCHANGED budget
       \/ /\ Spends("faults")
          /\ tier' = [tier EXCEPT ![t].cycle.todo = @ \ {f}, ![t].cycle.failed = @ \cup {f}]
          /\ UNCHANGED snapshots
    /\ UNCHANGED <<runs, now>>

(* Faulty variant: the newest directories are the ones that go. *)
prune_newest(dirs) == IF Len(dirs) > Retention THEN SubSeq(dirs, 1, Retention) ELSE dirs
prune_old_snapshots(dirs) ==
  IF Retention > 0 /\ Len(dirs) > Retention THEN SubSeq(dirs, Len(dirs) - Retention + 1, Len(dirs)) ELSE dirs
(* The row is written last; the flag falls whether or not it could be. *)
finish_cycle(t) ==
  /\ Running(t) /\ tier[t].cycle.todo = {}
  /\ tier' = [tier EXCEPT ![t].running = FALSE, ![t].cycle = NoCycle]
  /\ snapshots' = [snapshots EXCEPT ![t] = prune_old_snapshots(@)]
  /\ \/ /\ runs' = Append(runs, [tier |-> t, at |-> tier[t].cycle.at, failed |-> tier[t].cycle.failed,
                                 manual |-> snapshots[t][Len(snapshots[t])].manual])
        /\ UNCHANGED budget
     \/ Spends("faults") /\ UNCHANGED runs
  /\ UNCHANGED now

(* The thread dies with the process; its directory stays. *)
restart_backup == tier' = [t \in Tiers |-> Fresh] /\ UNCHANGED <<snapshots, runs>>

BackupNext == \E t \in Tiers : maybe_run_backup(t) \/ run_backup_now(t) \/ backup_one_file(t) \/ finish_cycle(t)

(* backup.py: "a restart no longer means immediately overdue". Two recorded   *)
(* cycles of a tier start an interval apart unless the later was asked for.   *)
RunsAreSpaced ==
  \A i, j \in 1..Len(runs) :
    runs[i].tier = runs[j].tier /\ runs[i].at < runs[j].at /\ ~runs[j].manual => runs[j].at - runs[i].at > Interval[runs[i].tier]

(* What a recorded run says was copied is there until enough newer            *)
(* directories are.                                                           *)
RecordedIsKept ==
  \A i \in 1..Len(runs) :
    LET t == runs[i].tier
        newer == {k \in 1..Len(snapshots[t]) : snapshots[t][k].at > runs[i].at}
    IN  \/ \E k \in 1..Len(snapshots[t]) : snapshots[t][k].at = runs[i].at /\ snapshots[t][k].files = Files[t] \ runs[i].failed
        \/ Cardinality(newer) >= Retention
=============================================================================
