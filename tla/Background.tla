----------------------------- MODULE Background -----------------------------
(* What runs beside the event loop's own work: the report connections of      *)
(* services/aio_db.py with their worker threads, and the background batches   *)
(* of services/event_schedule.py. First, the connections.                     *)
EXTENDS Runtime, SequencesExt
(* The shared connections of the read-only reports: one per event loop and    *)
(* file, opened at first use, probed before they are handed out. Every        *)
(* connection has a worker thread that the interpreter joins at exit.         *)

CONSTANTS
  Readers,            \* the coroutines that ask for a connection
  LoopOf,             \* the event loop each of them runs on: "main", or "job" for a report on a thread of its own
  FileOf              \* the file each of them reads

(* Every coroutine has a name, and a loop that can hold its lock. *)
ASSUME ReadersAssumption == "" \notin Readers /\ LoopOf \in [Readers -> {"main", "job"}]

VARIABLES
  workers,            \* per connection: its key, and whether its thread runs, is closed, or has died
  cached,             \* _connections
  locks,              \* _locks: the holder per loop, "" when free
  readers,            \* where each coroutine is, and the connection it holds
  exited              \* the process has reached its exit hook

aioVars == << workers, cached, locks, readers, exited >>

Keys == { << LoopOf[r], FileOf[r] >> : r \in Readers }
key(r) == << LoopOf[r], FileOf[r] >>
AtRest == [pc |-> "idle", conn |-> 0]
Nobody == ""
Known(k) == k \in DOMAIN cached
Running(c) == workers[c].state = "running"
Without(k) == [l \in DOMAIN cached \ {k} |-> cached[l]]
Stopped(cs) == [c \in DOMAIN workers |-> IF c \in cs /\ Running(c) THEN [workers[c] EXCEPT !.state = "closed"] ELSE workers[c]]
goes(r, pc, conn) == readers' = [readers EXCEPT ![r] = [pc |-> pc, conn |-> conn]]
stands(r, pc) == readers[r].pc = pc /\ ~exited

AioInit ==
  /\ workers = << >> /\ cached = << >>
  /\ locks = [l \in {"main", "job"} |-> Nobody]
  /\ readers = [r \in Readers |-> AtRest] /\ exited = FALSE

(* connection_for: a cached connection is probed, otherwise the loop's lock   *)
(* is asked for.                                                              *)
connection_for(r) ==
  /\ stands(r, "idle") /\ Spends("reads")
  /\ IF Known(key(r)) THEN goes(r, "probing", cached[key(r)]) ELSE goes(r, "waiting", 0)
  /\ UNCHANGED << workers, cached, locks, exited >>

probe_answers(r) ==
  /\ stands(r, "probing") /\ Running(readers[r].conn)
  /\ goes(r, "using", readers[r].conn)
  /\ UNCHANGED << workers, cached, locks, exited, budget >>

evict(r) == IF Known(key(r)) /\ cached[key(r)] = readers[r].conn THEN Without(key(r)) ELSE cached
probe_fails(r) ==
  /\ stands(r, "probing") /\ ~Running(readers[r].conn)
  /\ cached' = evict(r)
  /\ goes(r, "waiting", 0)
  /\ UNCHANGED << workers, locks, exited, budget >>

(* Under the lock: a connection another caller opened meanwhile is taken as   *)
(* it is, otherwise one is opened.                                            *)
(* Faulty variant: the caller does not look again.                            *)
opened_meanwhile_never(r) == FALSE
opened_meanwhile(r) == Known(key(r))
enter(r) ==
  /\ stands(r, "waiting") /\ locks[LoopOf[r]] = Nobody
  /\ IF opened_meanwhile(r)
     THEN goes(r, "using", cached[key(r)]) /\ UNCHANGED << workers, locks >>
     ELSE /\ locks' = [locks EXCEPT ![LoopOf[r]] = r]
          /\ workers' = Append(workers, [key |-> key(r), state |-> "running"])
          /\ goes(r, "opening", Len(workers) + 1)
  /\ UNCHANGED << cached, exited, budget >>

leave(r) == locks' = [locks EXCEPT ![LoopOf[r]] = Nobody]
schema_made(r) ==
  /\ stands(r, "opening")
  /\ cached' = [k \in DOMAIN cached \cup {key(r)} |-> IF k = key(r) THEN readers[r].conn ELSE cached[k]]
  /\ leave(r) /\ goes(r, "using", readers[r].conn)
  /\ UNCHANGED << workers, exited, budget >>

(* The file cannot be opened, its schema not be made, or the caller is        *)
(* cancelled here: what was opened is closed.                                 *)
(* Faulty variant: it is only dropped.                                        *)
abandoned_open(c) == workers
abandoned(c) == Stopped({c})
schema_fails(r) ==
  /\ stands(r, "opening") /\ Spends("faults")
  /\ workers' = abandoned(readers[r].conn)
  /\ leave(r) /\ goes(r, "idle", 0)
  /\ UNCHANGED << cached, exited >>

read_done(r) ==
  /\ stands(r, "using")
  /\ goes(r, "idle", 0)
  /\ UNCHANGED << workers, cached, locks, exited, budget >>

(* A connection breaks under its users.                                       *)
connection_breaks(c) ==
  /\ c \in { cached[k] : k \in DOMAIN cached } /\ Running(c) /\ ~exited /\ Spends("faults")
  /\ workers' = Stopped({c})
  /\ UNCHANGED << cached, locks, readers, exited >>

(* The report on its own loop has ended, or was cancelled: it closes what its *)
(* loop has opened. A loop that goes with a query in flight kills the worker, *)
(* which then answers nobody; its key is no other loop's.                     *)
Mine == { k \in DOMAIN cached : k[1] = "job" }
JobReaders == { r \in Readers : LoopOf[r] = "job" }
close_for_current_loop ==
  /\ Mine # {} /\ ~exited /\ \A r \in JobReaders : readers[r].pc = "idle"
  /\ cached' = [k \in DOMAIN cached \ Mine |-> cached[k]]
  /\ workers' = Stopped({ cached[k] : k \in Mine })
  /\ UNCHANGED << locks, readers, exited, budget >>

loop_ends_in_a_query(r) ==
  /\ LoopOf[r] = "job" /\ stands(r, "using") /\ Running(readers[r].conn) /\ Spends("faults")
  /\ workers' = [workers EXCEPT ![readers[r].conn].state = "dead"]
  /\ cached' = [k \in (DOMAIN cached \ {key(r)}) \cup {<< "gone", FileOf[r] >>} |->
                IF k[1] = "gone" /\ k \notin DOMAIN cached THEN readers[r].conn ELSE cached[k]]
  /\ goes(r, "idle", 0)
  /\ UNCHANGED << locks, exited >>

(* The exit hook closes what is cached, and leaves a worker that does not     *)
(* answer within its time. Callers have been cancelled before.                *)
_close_all_at_process_exit ==
  /\ ~exited
  /\ exited' = TRUE
  /\ workers' = Stopped({ cached[k] : k \in DOMAIN cached } \cup { readers[r].conn : r \in { q \in Readers : readers[q].pc = "opening" } })
  /\ cached' = << >> /\ locks' = [l \in DOMAIN locks |-> Nobody]
  /\ readers' = [r \in Readers |-> AtRest]
  /\ UNCHANGED budget

AioSteps(r) ==
  probe_answers(r) \/ probe_fails(r) \/ enter(r) \/ schema_made(r) \/ read_done(r)

AioNext ==
  /\ Takes("reports") /\ UNCHANGED now
  /\ \/ \E r \in Readers : connection_for(r) \/ AioSteps(r) \/ schema_fails(r) \/ loop_ends_in_a_query(r)
     \/ \E c \in DOMAIN workers : connection_breaks(c)
     \/ close_for_current_loop \/ _close_all_at_process_exit

(* A running worker is one that the cache or an opener can still close, a key *)
(* has one at a time, and none is left to keep the interpreter from ending.   *)
Opening == { readers[r].conn : r \in { q \in Readers : readers[q].pc = "opening" } }
WorkersAreReachable ==
  /\ \A c \in DOMAIN workers : Running(c) => c \in Opening \/ \E k \in DOMAIN cached : cached[k] = c
  /\ \A c, d \in DOMAIN workers : c # d /\ Running(c) /\ Running(d) => workers[c].key # workers[d].key
  /\ exited => \A c \in DOMAIN workers : ~Running(c)

-----------------------------------------------------------------------------
(* When the events of long markets really take place: resolved in background  *)
(* batches from four sources, kept in memory and in a table.                  *)

CONSTANTS
  LongEvents,         \* the events whose markets stay open for days, a sequence in the order of the watchlist
  ResolveInterval,    \* _RESOLVE_MIN_INTERVAL_SEC
  FoundRetry,         \* _FOUND_RETRY_SEC
  NoneRetry,          \* _NONE_RETRY_SEC
  MaxResolutions      \* max_resolutions_per_tick

VARIABLES
  known_of,           \* per event, the sources that have its dates
  schedules,          \* state["event_schedules"]
  schedule_rows,      \* event_schedule
  scan,               \* event_schedule_scan: running, last_started_at
  jobs                \* the batches at work: what each has left, and the answers so far for its first event

scheduleVars == << known_of, schedules, schedule_rows, scan, jobs >>

Sources == << "strike_date", "milestone", "text", "search" >>
Unresolved == [source |-> "", at |-> 0]
ScheduleInit ==
  /\ known_of \in [Range(LongEvents) -> budget.schedule_sources]
  /\ schedules = [e \in Range(LongEvents) |-> Unresolved] /\ schedule_rows = schedules
  /\ scan = [running |-> FALSE, started |-> -ResolveInterval - 1] /\ jobs = {}

(* needs_resolution: nothing found is looked for again sooner.                *)
needs_resolution(e) ==
  \/ schedules[e].source = ""
  \/ now - schedules[e].at >= IF schedules[e].source = "none" THEN NoneRetry ELSE FoundRetry
_events_needing_resolution ==
  LET due == SelectSeq(LongEvents, needs_resolution) IN SubSeq(due, 1, IF Len(due) < MaxResolutions THEN Len(due) ELSE MaxResolutions)

(* A tick starts a batch when one is due and none runs.                       *)
(* Faulty variant: when one is due.                                           *)
due_again == now - scan.started > ResolveInterval
may_start == now - scan.started > ResolveInterval /\ ~scan.running
_maybe_resolve_event_schedules ==
  /\ Takes("schedule") /\ may_start
  /\ scan' = [running |-> TRUE, started |-> now]
  /\ jobs' = jobs \cup {[id |-> now, todo |-> _events_needing_resolution, failed |-> {}]}
  /\ UNCHANGED << known_of, schedules, schedule_rows, budget, now >>

(* resolve_one: the sources in their order, until one has a date; one that    *)
(* does not answer counts as having none.                                     *)
Answers(job) == { s \in Range(Sources) : s \in known_of[Head(job.todo)] \ job.failed }
found(job) == IF Answers(job) = {} THEN "none" ELSE Sources[CHOOSE i \in 1..4 : Sources[i] \in Answers(job) /\ \A j \in 1..i - 1 : Sources[j] \notin Answers(job)]

source_fails(job, s) ==
  /\ job.todo # << >> /\ s \notin job.failed
  /\ Spends("faults")
  /\ jobs' = (jobs \ {job}) \cup {[job EXCEPT !.failed = @ \cup {s}]}
  /\ UNCHANGED << known_of, schedules, schedule_rows, scan, now >>

(* The row is written, then the memory.                                       *)
save(job) ==
  /\ job.todo # << >>
  /\ LET entry == [source |-> found(job), at |-> now]
     IN  /\ schedule_rows' = [schedule_rows EXCEPT ![Head(job.todo)] = entry]
         /\ schedules' = [schedules EXCEPT ![Head(job.todo)] = entry]
  /\ jobs' = (jobs \ {job}) \cup {[job EXCEPT !.todo = Tail(@), !.failed = {}]}
  /\ UNCHANGED << known_of, scan, budget, now >>

(* Whatever way it ends, the next batch may start.                            *)
batch_over(job) ==
  /\ IF job.todo = << >> THEN UNCHANGED budget ELSE Spends("faults")
  /\ jobs' = jobs \ {job}
  /\ scan' = [scan EXCEPT !.running = FALSE]
  /\ UNCHANGED << known_of, schedules, schedule_rows, now >>

schedule_restarted ==
  /\ Takes("schedule") /\ Spends("restarts")
  /\ schedules' = schedule_rows /\ jobs' = {}
  /\ scan' = [running |-> FALSE, started |-> -ResolveInterval - 1]
  /\ UNCHANGED << known_of, schedule_rows, now >>

ScheduleNext ==
  \/ _maybe_resolve_event_schedules \/ schedule_restarted
  \/ \E job \in jobs : save(job) \/ batch_over(job) \/ \E s \in {"milestone", "search"} : source_fails(job, s)

(* Batches do not overlap, however slow one is and whatever way one ends, and *)
(* a batch can always start again (event_schedule.py:481-502): the flag is    *)
(* set exactly while one is at work.                                          *)
OneBatchRuns == Cardinality(jobs) <= 1 /\ (scan.running <=> jobs # {})
=============================================================================
