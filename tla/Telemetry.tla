----------------------------- MODULE Telemetry ------------------------------
(* What the program tells of itself: its alerts, and its measures.            *)
EXTENDS Runtime

(* services/alerting and services/task_supervisor.py: the conditions that are *)
(* watched, the alerts of their transitions, and the supervised tasks whose   *)
(* crashes are alerted and which are started again.                           *)

CONSTANTS Watched,        \* the categories check_and_alert compares, in its order
          Tasks,          \* the supervised tasks: those of Loops are restarted
          Loops,
          CrashAge        \* crash_auto_resolve_after_sec

ASSUME AlertingAssumption ==
  Watched \in Seq(STRING) /\ \A i \in 1..Len(Watched) : Watched[i] # "crash"

VARIABLES bad,            \* the conditions as they are
          known,          \* _last_known_bad
          alerts,         \* the alerts table
          task,           \* where each supervised task is
          unsure          \* categories touched by a restart, a failed write or by hand since they last changed

alertVars == <<bad, known, alerts, task, unsure>>

Category == {Watched[i] : i \in 1..Len(Watched)}
AlertingInit ==
  /\ bad = [c \in Category |-> FALSE] /\ known = [c \in Category |-> FALSE]
  /\ alerts = << >> /\ unsure = {}
  /\ task = [t \in Tasks |-> "running"]

Active(rows, c) == {i \in 1..Len(rows) : rows[i].category = c /\ ~rows[i].resolved}
Recorded(rows, c) == Append(rows, [category |-> c, at |-> now, resolved |-> FALSE])
ResolvedAll(rows, ids) == [i \in 1..Len(rows) |-> IF i \in ids THEN [rows[i] EXCEPT !.resolved = TRUE] ELSE rows[i]]
(* Faulty variant: only the newest alert of the category is resolved. *)
resolve_newest(rows, c) == ResolvedAll(rows, {i \in Active(rows, c) : \A j \in Active(rows, c) : j <= i})
resolve_category(rows, c) == ResolvedAll(rows, Active(rows, c))

condition_changes ==
  \E c \in Category : Spends("changes") /\ bad' = [bad EXCEPT ![c] = ~@]
                      /\ UNCHANGED <<known, alerts, task, unsure, now>>

(* _check_transition: memory first, the table after it. A write that raises   *)
(* ends the check: the categories behind it are not compared this time.       *)
Writes(c) == bad[c] # known[c]
transition(rows, c) ==
  IF ~Writes(c) THEN rows ELSE IF bad[c] THEN Recorded(rows, c) ELSE resolve_category(rows, c)
RowsAfter(upto, rows) ==
  LET after[i \in 0..upto] == IF i = 0 THEN rows ELSE transition(after[i - 1], Watched[i]) IN after[upto]
Expired(rows) ==
  ResolvedAll(rows, {i \in Active(rows, "crash") : rows[i].at <= now - CrashAge})

check_and_alert ==
  /\ LET compared(n) == {Watched[i] : i \in 1..n} IN
     \/ /\ \E c \in Category : Writes(c) \/ Expired(alerts) # alerts
        /\ known' = bad
        /\ alerts' = RowsAfter(Len(Watched), Expired(alerts))
        /\ unsure' = unsure \ {c \in Category : Writes(c)}
        /\ UNCHANGED budget
     \/ \E n \in 1..Len(Watched) :
          /\ Writes(Watched[n]) /\ Spends("faults")
          /\ known' = [c \in Category |-> IF c \in compared(n) THEN bad[c] ELSE known[c]]
          /\ alerts' = RowsAfter(n - 1, Expired(alerts))
          /\ unsure' = (unsure \ {c \in compared(n - 1) : Writes(c)}) \cup {Watched[n]}
  /\ UNCHANGED <<bad, task, now>>

resolve_alert ==
  \E i \in 1..Len(alerts) :
    /\ Takes("clicks") /\ ~alerts[i].resolved
    /\ alerts' = ResolvedAll(alerts, {i})
    /\ unsure' = unsure \cup ({alerts[i].category} \cap Category)
    /\ UNCHANGED <<bad, known, task, now, budget>>

(* supervise: a loop that returns or raises waits and runs again, and its     *)
(* crash is alerted first. Nothing catches an alert that cannot be recorded:  *)
(* the exception ends the loop.                                               *)
task_ends(t) ==
  /\ task[t] = "running" /\ Spends("crashes")
  /\ task' = [task EXCEPT ![t] = IF t \in Loops THEN "waiting" ELSE "done"]
  /\ UNCHANGED <<bad, known, alerts, unsure, now>>
task_crashes(t) ==
  /\ task[t] = "running" /\ Left("crashes")
  /\ \/ /\ t \in Loops
        /\ alerts' = Recorded(alerts, "crash")
        /\ task' = [task EXCEPT ![t] = "waiting"]
        /\ budget' = [budget EXCEPT !.crashes = @ - 1]
     \/ /\ t \notin Loops
        /\ task' = [task EXCEPT ![t] = "done"]
        /\ budget' = [budget EXCEPT !.crashes = @ - 1]
        /\ UNCHANGED alerts
     \/ /\ t \in Loops /\ Left("faults")
        /\ task' = [task EXCEPT ![t] = "dead"]
        /\ budget' = [budget EXCEPT !.crashes = @ - 1, !.faults = @ - 1]
        /\ UNCHANGED alerts
  /\ UNCHANGED <<bad, known, unsure, now>>
task_restarts(t) ==
  /\ task[t] = "waiting"
  /\ task' = [task EXCEPT ![t] = "running"]
  /\ UNCHANGED <<bad, known, alerts, unsure, now, budget>>

(* A new process forgets what it knew and starts every task. *)
restart_alerting ==
  /\ known' = [c \in Category |-> FALSE]
  /\ task' = [t \in Tasks |-> "running"]
  /\ unsure' = Category
  /\ UNCHANGED <<bad, alerts>>

AlertingNext ==
  \/ condition_changes \/ check_and_alert \/ resolve_alert
  \/ \E t \in Tasks : task_ends(t) \/ task_crashes(t) \/ task_restarts(t)

(* The table answers what is wrong now: a category has an unresolved alert    *)
(* exactly while its last check found it bad, whatever was alerted twice      *)
(* before, as soon as it has changed since the last restart, click or error.  *)
AlertsTellTheState ==
  \A c \in Category \ unsure : known[c] <=> Active(alerts, c) # {}

(* task_supervisor.py: restart=True is for "the loops that must never just    *)
(* stay dead".                                                                *)
LoopsRunAgain == \A t \in Loops : task[t] # "running" ~> task[t] = "running"

-----------------------------------------------------------------------------
(* What the program tells of itself: the fault log, the windowed counters the *)
(* sampler stores and empties, and the buffers of observed rows that are      *)
(* flushed from the threads of the tick.                                      *)

CONSTANTS FaultKeys,      \* component, operation and message of a fault
          StallFault, FlushFault,   \* the sampler's, and that of a failed flush
          FaultRetention, SampleInterval,
          Stores,         \* "books" of series_watcher, "games" of game_state
          RowInterval,    \* RowInterval[s]: between two rows of one market or event
          Markets,        \* the markets or events that are observed
          Flushers        \* the threads that flush: the workers of the tick's executor

ASSUME TelemetryAssumption ==
  /\ SampleInterval \in Nat /\ FaultRetention \in Nat /\ StallFault \in FaultKeys /\ FlushFault \in FaultKeys
  /\ Flushers \cap {"buffer", "written", "lost"} = {}
  /\ \A s \in Scenarios : s.old_faults \in Seq([key : FaultKeys, count : Nat, last_seen : Nat])

VARIABLES faults,         \* the rows of the faults table without an exception type
          indexed,        \* their unique index is in place
          reported,       \* faults recorded and not pruned since, by key
          stalls,         \* the watchdog's window, and the stalls since the start of the behaviour
          samples,        \* the stored samples
          last_sample_at, \* observability's gate, Unsampled until the process looks it up
          feed,           \* per store: buffer, written rows, rows lost to a failed write or a restart
          seen,           \* per store and key: when a row was last taken, and what it said
          flushing        \* per store and thread: the batch it swapped out

telemetryVars == <<faults, indexed, reported, stalls, samples, last_sample_at, feed, seen, flushing>>

Unsampled == -1
FaultBound == 3           \* occurrences of one fault in a behaviour
Unseen == [at |-> -1, state |-> "none"]
SumOf(rows, ids) == SumOfAll([i \in 1..Len(rows) |-> IF i \in ids THEN rows[i].count ELSE 0])
RowsFor(rows, k) == {i \in 1..Len(rows) : rows[i].key = k}
(* The process that opens a database written before the index existed finds   *)
(* one row per fault in it.                                                   *)
TelemetryInit ==
  /\ faults = budget.old_faults
  /\ indexed = (budget.old_faults = << >>)
  /\ reported = [k \in FaultKeys |-> SumOf(budget.old_faults, RowsFor(budget.old_faults, k))]
  /\ stalls = [window |-> 0, ever |-> 0]
  /\ samples = << >> /\ last_sample_at = Unsampled
  /\ feed = [s \in Stores |-> [buffer |-> << >>, written |-> {}, lost |-> {}, taken |-> 0]]
  /\ seen = [s \in Stores |-> [k \in Markets |-> Unseen]]
  /\ flushing = [s \in Stores |-> [f \in Flushers |-> << >>]]

-----------------------------------------------------------------------------
(* services/fault_log.py *)

LastSeen(rows, ids) == CHOOSE t \in {rows[i].last_seen : i \in ids} : \A i \in ids : rows[i].last_seen <= t
FirstOfKeys(rows) == {i \in 1..Len(rows) : \A j \in RowsFor(rows, rows[i].key) : i <= j}
Kept(rows, ids) ==
  LET upto[i \in 0..Len(rows)] == IF i = 0 THEN << >> ELSE IF i \in ids THEN Append(upto[i - 1], rows[i]) ELSE upto[i - 1] IN upto[Len(rows)]

(* Faulty variant: the keeper's own count stands for all of them. *)
merge_keeps_first(rows) == Kept(rows, FirstOfKeys(rows))
(* The oldest row of a key takes the counts of the others. *)
merge_duplicate_null_exc_type_rows(rows) ==
  LET merged == [i \in 1..Len(rows) |-> LET ids == RowsFor(rows, rows[i].key) IN
                   [rows[i] EXCEPT !.count = SumOf(rows, ids), !.last_seen = LastSeen(rows, ids)]]
  IN  Kept(merged, FirstOfKeys(rows))
(* Every connection sees to the index first. *)
connected(rows) == IF indexed THEN rows ELSE merge_duplicate_null_exc_type_rows(rows)
upserted(rows, k) ==
  IF RowsFor(rows, k) = {} THEN Append(rows, [key |-> k, count |-> 1, last_seen |-> now])
  ELSE [i \in 1..Len(rows) |-> IF rows[i].key = k THEN [rows[i] EXCEPT !.count = @ + 1, !.last_seen = now] ELSE rows[i]]

record_fault(k) ==
  /\ faults' = upserted(connected(faults), k) /\ indexed' = TRUE
  /\ reported' = [reported EXCEPT ![k] = @ + 1]
NoFault == UNCHANGED <<faults, indexed, reported>>
(* A write that fails is nobody's concern: the caller is told FALSE. *)
record_or_swallow(k) == (record_fault(k) /\ UNCHANGED budget) \/ (Spends("faults") /\ NoFault)

fault_occurs ==
  \E k \in FaultKeys :
    /\ Takes("faulty") /\ reported[k] < FaultBound /\ record_fault(k)
    /\ UNCHANGED <<stalls, samples, last_sample_at, feed, seen, flushing, now, budget>>
prune_faults ==
  LET rows == connected(faults)
      old == {i \in 1..Len(rows) : rows[i].last_seen < now - FaultRetention}
  IN  /\ Takes("faulty") /\ old # {}
      /\ faults' = Kept(rows, 1..Len(rows) \ old) /\ indexed' = TRUE
      /\ reported' = [k \in FaultKeys |-> IF RowsFor(rows, k) \cap old # {} THEN 0 ELSE reported[k]]
      /\ UNCHANGED <<stalls, samples, last_sample_at, feed, seen, flushing, now, budget>>

-----------------------------------------------------------------------------
(* services/loop_watchdog.py and observability.py *)

stall ==
  /\ Spends("stalls")
  /\ stalls' = [window |-> stalls.window + 1, ever |-> stalls.ever + 1]
  /\ UNCHANGED <<faults, indexed, reported, samples, last_sample_at, feed, seen, flushing, now>>

latest_sample_time == IF samples = << >> THEN Unsampled ELSE samples[Len(samples)].at
SampleGate == IF last_sample_at = Unsampled THEN latest_sample_time ELSE last_sample_at
capture_from_runtime == [at |-> now, stalls |-> stalls.window]
(* Faulty variant: the window is emptied before it is stored. *)
reset_then_store(lost) == stalls' = [stalls EXCEPT !.window = 0]
store_then_reset(lost) == stalls' = IF lost THEN stalls ELSE [stalls EXCEPT !.window = 0]
maybe_capture ==
  /\ SampleGate = Unsampled \/ now - SampleGate >= SampleInterval
  /\ \/ /\ samples' = Append(samples, capture_from_runtime)
        /\ last_sample_at' = now
        /\ store_then_reset(FALSE)
        /\ IF stalls.window > 0
           THEN reported[StallFault] < FaultBound /\ record_or_swallow(StallFault)
           ELSE NoFault /\ UNCHANGED budget
     \/ /\ Spends("faults")
        /\ last_sample_at' = SampleGate
        /\ store_then_reset(TRUE)
        /\ UNCHANGED samples /\ NoFault
  /\ UNCHANGED <<feed, seen, flushing, now>>
Captured == samples' # samples

-----------------------------------------------------------------------------
(* series_watcher's book snapshots and game_state's observations. *)

Row(s, k) == [key |-> k, at |-> now, id |-> feed[s].taken]
buffered(s, k, state) ==
  /\ feed' = [feed EXCEPT ![s].buffer = Append(@, Row(s, k)), ![s].taken = @ + 1]
  /\ seen' = [seen EXCEPT ![s][k] = [at |-> now, state |-> state]]
  /\ UNCHANGED <<faults, indexed, reported, stalls, samples, last_sample_at, flushing, now>>
Due(s, k) == seen[s][k].at = -1 \/ now - seen[s][k].at >= RowInterval[s]
record_book(k) == Takes("books") /\ Due("books", k) /\ Spends("rows") /\ buffered("books", k, "any")
(* The same state is not taken twice. *)
record_game(k) ==
  \E state \in {"live", "final"} :
    Takes("games") /\ Due("games", k) /\ seen["games"][k].state # state /\ Spends("rows") /\ buffered("games", k, state)

(* The batch is swapped out under the lock and written without it. *)
(* Faulty variant: the buffer is read under the lock and cleared after it. *)
swap_without_clearing(s, f) == flushing' = [flushing EXCEPT ![s][f] = feed[s].buffer] /\ UNCHANGED feed
swap(s, f) ==
  /\ flushing' = [flushing EXCEPT ![s][f] = feed[s].buffer]
  /\ feed' = [feed EXCEPT ![s].buffer = << >>]
flush_swaps(s, f) ==
  /\ flushing[s][f] = << >> /\ feed[s].buffer # << >>
  /\ swap(s, f)
  /\ UNCHANGED <<faults, indexed, reported, stalls, samples, last_sample_at, seen, now, budget>>
Members(rows) == {rows[i] : i \in 1..Len(rows)}
Batch(s, f) == Members(flushing[s][f])
flush_writes(s, f) ==
  /\ flushing[s][f] # << >>
  /\ flushing' = [flushing EXCEPT ![s][f] = << >>]
  /\ \/ /\ feed' = [feed EXCEPT ![s].written = @ \cup Batch(s, f)]
        /\ NoFault /\ UNCHANGED budget
     \/ /\ Spends("faults")
        /\ feed' = [feed EXCEPT ![s].lost = @ \cup Batch(s, f)]
        /\ record_fault(FlushFault)
  /\ UNCHANGED <<stalls, samples, last_sample_at, seen, now>>

restart_telemetry ==
  /\ last_sample_at' = Unsampled
  /\ stalls' = [window |-> 0, ever |-> stalls.ever - stalls.window]
  /\ feed' = [s \in Stores |-> [feed[s] EXCEPT !.buffer = << >>, !.lost = @ \cup Members(feed[s].buffer) \cup UNION {Batch(s, f) : f \in Flushers}]]
  /\ seen' = [s \in Stores |-> [k \in Markets |-> Unseen]]
  /\ flushing' = [s \in Stores |-> [f \in Flushers |-> << >>]]
  /\ UNCHANGED <<faults, indexed, reported, samples>>

TelemetryNext ==
  \/ fault_occurs \/ prune_faults \/ stall
  \/ \E k \in Markets : record_book(k) \/ record_game(k)
  \/ \E s \in Stores, f \in Flushers : flush_swaps(s, f) \/ flush_writes(s, f)

(* A fault that was recorded is counted in the one row of its key until it is *)
(* pruned, also where an older database had a row for every occurrence.       *)
FaultsAddUp ==
  \A k \in FaultKeys : SumOf(faults, RowsFor(faults, k)) = reported[k] /\ (indexed => Cardinality(RowsFor(faults, k)) <= 1)
(* A stall is in the window or in one stored sample, whichever writes fail.   *)
SamplesAddUp == SumOfAll([i \in 1..Len(samples) |-> samples[i].stalls]) + stalls.window = stalls.ever
(* observability.py: a restart does not bring the next sample forward.        *)
SamplesAreSpaced == \A i \in 2..Len(samples) : samples[i].at - samples[i - 1].at >= SampleInterval
(* A row that was taken is in exactly one place: the buffer, a flushing       *)
(* thread, the table, or among those a failed write or a restart lost.        *)
Places == {"buffer", "written", "lost"} \cup Flushers
Held(s, place) ==
  IF place \in Flushers THEN Batch(s, place)
  ELSE IF place = "buffer" THEN Members(feed[s].buffer) ELSE IF place = "written" THEN feed[s].written ELSE feed[s].lost
RowsAddUp ==
  \A s \in Stores : \A n \in 0..feed[s].taken - 1 :
    \E p \in Places : \E r \in Held(s, p) :
      r.id = n /\ \A q \in Places : \A o \in Held(s, q) : o.id = n => q = p /\ o = r
=============================================================================
