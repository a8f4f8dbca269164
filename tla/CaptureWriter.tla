---------------------------- MODULE CaptureWriter ----------------------------
(* services/capture_writer.py and the part of services/candidate_log.py that *)
(* feeds, flushes, resolves and deletes its two stores: rows are submitted   *)
(* to memory by the event loop and written by one background thread (the     *)
(* daemon) and by any caller that flushes before it reads or updates.        *)
(* rejection_events is a list of rows; rejected_candidates is keyed, one row *)
(* per ticker (strategy and gate are part of the key; one of each here).     *)
EXTENDS Integers, Sequences, FiniteSets, SequencesExt

CONSTANTS
  Tickers,       \* markets
  Daemon,        \* the capture-writer thread
  Callers,       \* worker threads that call flush_now
  MaxRows,       \* bound: rows recorded in any scenario
  MaxRetained,   \* _MAX_RETAINED_ROWS
  Scenarios      \* bounds: how many rows, faults (failed flushes and
                 \* statements), deletes and crashes a behaviour may hold

(* The bounds of a behaviour, and the parts of the program that take part.   *)
Budget == [rows : 0 .. MaxRows, faults : Nat, clears : Nat, crashes : Nat, enqueued : Nat,
           tickers : SUBSET Tickers, parts : SUBSET STRING]
ASSUME TickersAssumption == IsFiniteSet(Tickers) /\ Tickers # {}
ASSUME ScenarioAssumption == Scenarios \subseteq Budget
ASSUME BoundAssumption == MaxRows \in Nat /\ MaxRetained \in Nat

Threads == {Daemon} \cup Callers
Stores == {"rejected_candidates", "rejection_events"}
Keyed == {"rejected_candidates"}
Row == [id : 1 .. MaxRows, ticker : Tickers]
Results == {"none", "yes", "no"}
Stored == [row : Row, result : Results]
NoResults == [t \in Tickers |-> "none"]

(* What a thread of capture_writer is doing: nothing, or writing a batch it  *)
(* swapped out, or adding a lost batch to the dropped counter (read earlier  *)
(* as seen, without the lock).                                               *)
NoBatch == [stage |-> "none", store |-> "rejection_events", rows |-> <<>>, seen |-> 0]
Idle == [op |-> "none", todo |-> <<>>, results |-> NoResults, upto |-> 0]

VARIABLES
  recorded,    \* rows recorded so far: the next row's id
  submitted,   \* history: the rows submitted to each store
  buffers,     \* _buffers
  flight,      \* the batch each thread has swapped out
  table,       \* the two tables on disk
  counted,     \* _dropped_counts and _overflow_dropped_counts, per store
  call,        \* what each caller is in the middle of
  budget       \* what is left of the scenario's bounds
captureVars == <<recorded, submitted, buffers, flight, table, counted, call, budget>>

RowsOf(s) == {s[i] : i \in DOMAIN s}
StoredRows(st) == {e.row : e \in table[st]}
Waiting(st) ==
  RowsOf(buffers[st]) \cup
    UNION {RowsOf(flight[th].rows) : th \in {u \in Threads : flight[u].stage = "write" /\ flight[u].store = st}}

CaptureInit ==
  /\ recorded = 0
  /\ submitted = [st \in Stores |-> {}]
  /\ buffers = [st \in Stores |-> <<>>]
  /\ flight = [th \in Threads |-> NoBatch]
  /\ table = [st \in Stores |-> {}]
  /\ counted = [st \in Stores |-> [dropped |-> 0, overflow |-> 0]]
  /\ call = [c \in Callers |-> Idle]
  /\ budget \in Scenarios

-----------------------------------------------------------------------------
(* submit: a keyed store keeps a ticker's place in the buffer and its latest *)
(* row; the other appends.                                                   *)
Put(st, buf, r) ==
  IF st \in Keyed /\ \E i \in DOMAIN buf : buf[i].ticker = r.ticker
  THEN [i \in DOMAIN buf |-> IF buf[i].ticker = r.ticker THEN r ELSE buf[i]]
  ELSE Append(buf, r)

(* record_rejection: the keyed row always, the event unless its gate is      *)
(* sampled and this one is not drawn.                                        *)
record_rejection(t) ==
  /\ recorded < budget.rows
  /\ \E sampled \in BOOLEAN :
       LET r == [id |-> recorded + 1, ticker |-> t]
           to == IF sampled THEN Stores ELSE Keyed
       IN /\ recorded' = recorded + 1
          /\ submitted' = [st \in Stores |-> IF st \in to THEN submitted[st] \cup {r} ELSE submitted[st]]
          /\ buffers' = [st \in Stores |-> IF st \in to THEN Put(st, buffers[st], r) ELSE buffers[st]]
  /\ UNCHANGED <<flight, table, counted, call, budget>>

(* _flush_store, first half: the buffer is swapped for an empty one under    *)
(* the lock. An empty buffer ends the flush.                                 *)
swap_out(th, st) ==
  /\ flight[th] = NoBatch
  /\ buffers[st] # <<>>
  /\ flight' = [flight EXCEPT ![th] = [stage |-> "write", store |-> st, rows |-> buffers[st], seen |-> 0]]
  /\ buffers' = [buffers EXCEPT ![st] = <<>>]

daemon_flush(st) ==
  /\ swap_out(Daemon, st)
  /\ UNCHANGED <<recorded, submitted, table, counted, call, budget>>

caller_flush(c) ==
  /\ call[c].todo # <<>>
  /\ flight[c] = NoBatch
  /\ LET st == Head(call[c].todo)
     IN IF buffers[st] = <<>> THEN UNCHANGED <<flight, buffers>> ELSE swap_out(c, st)
  /\ call' = [call EXCEPT ![c].todo = Tail(@)]
  /\ UNCHANGED <<recorded, submitted, table, counted, budget>>

(* Mutant: the upsert without its WHERE resolved = 0.                        *)
WrittenOverResolved(st, rows) ==
  LET new == {[row |-> r, result |-> "none"] : r \in RowsOf(rows)}
  IN {e \in table[st] : st \in Keyed => \A n \in new : n.row.ticker # e.row.ticker} \cup new

(* The table after one transaction of a batch: events are inserted; a keyed  *)
(* row replaces the ticker's row, unless that one is resolved already.       *)
Written(st, rows) ==
  LET new == {[row |-> r, result |-> "none"] : r \in RowsOf(rows)}
      kept(e) == e.result # "none" \/ \A n \in new : n.row.ticker # e.row.ticker
      free(n) == \A e \in table[st] : e.row.ticker = n.row.ticker => e.result = "none"
  IN IF st \in Keyed THEN {e \in table[st] : kept(e)} \cup {n \in new : free(n)}
     ELSE table[st] \cup new

Writing(th) == flight[th].stage = "write"

(* Mutant: an error of close() after the commit takes the retry path.        *)
flush_committed_kept(th) ==
  /\ Writing(th)
  /\ LET f == flight[th]
     IN /\ table' = [table EXCEPT ![f.store] = Written(f.store, f.rows)]
        /\ buffers' = [buffers EXCEPT ![f.store] = f.rows \o @]
  /\ flight' = [flight EXCEPT ![th] = NoBatch]
  /\ UNCHANGED <<recorded, submitted, counted, call, budget>>

(* The batch is committed. An error of close() after it changes nothing.     *)
flush_committed(th) ==
  /\ Writing(th)
  /\ LET f == flight[th] IN table' = [table EXCEPT ![f.store] = Written(f.store, f.rows)]
  /\ flight' = [flight EXCEPT ![th] = NoBatch]
  /\ UNCHANGED <<recorded, submitted, buffers, counted, call, budget>>

(* _retain: the batch goes ahead of what was submitted since, in a keyed     *)
(* store the newer row of a ticker takes the older one's place; the oldest   *)
(* rows past the cap are dropped.                                            *)
Merged(st, rows, buf) ==
  IF st \in Keyed THEN FoldLeft(LAMBDA acc, r : Put(st, acc, r), rows, buf) ELSE rows \o buf
Trimmed(s) == IF Len(s) > MaxRetained THEN SubSeq(s, Len(s) - MaxRetained + 1, Len(s)) ELSE s

fault == budget.faults > 0 /\ budget' = [budget EXCEPT !.faults = @ - 1]

flush_retained(th) ==
  /\ Writing(th)
  /\ fault
  /\ LET f == flight[th]
         m == Merged(f.store, f.rows, buffers[f.store])
         kept == Trimmed(m)
     IN /\ buffers' = [buffers EXCEPT ![f.store] = kept]
        /\ counted' = [counted EXCEPT ![f.store].overflow = @ + (Len(m) - Len(kept))]
  /\ flight' = [flight EXCEPT ![th] = NoBatch]
  /\ UNCHANGED <<recorded, submitted, table, call>>

(* Any other error drops the batch. The counter is read here and written in  *)
(* count_dropped, without the lock.                                          *)
flush_dropped(th) ==
  /\ Writing(th)
  /\ fault
  /\ flight' = [flight EXCEPT ![th].stage = "count", ![th].seen = counted[flight[th].store].dropped]
  /\ UNCHANGED <<recorded, submitted, buffers, table, counted, call>>

count_dropped(th) ==
  /\ flight[th].stage = "count"
  /\ LET f == flight[th]
     IN counted' = [counted EXCEPT ![f.store].dropped = f.seen + Len(f.rows)]
  /\ flight' = [flight EXCEPT ![th] = NoBatch]
  /\ UNCHANGED <<recorded, submitted, buffers, table, call, budget>>

-----------------------------------------------------------------------------
(* A call that flushes both stores and then works on the tables.             *)
begin(c, op, results, upto) ==
  /\ call[c] = Idle
  /\ call' = [call EXCEPT ![c] = [op |-> op, results |-> results, upto |-> upto,
                                  todo |-> IF op = "prune" THEN <<"rejection_events">>
                                           ELSE <<"rejected_candidates", "rejection_events">>]]

ready(c, op) == call[c].op = op /\ call[c].todo = <<>> /\ flight[c] = NoBatch

(* resolve_from_market_results, its two UPDATE passes: one transaction.      *)
Graded(tab, results) ==
  {IF e.result = "none" THEN [e EXCEPT !.result = results[e.row.ticker]] ELSE e : e \in tab}
resolve_rows(c) ==
  /\ ready(c, "resolve")
  /\ table' = [st \in Stores |-> Graded(table[st], call[c].results)]
  /\ call' = [call EXCEPT ![c] = Idle]
  /\ UNCHANGED <<recorded, submitted, buffers, flight, counted, budget>>

(* The transaction raises: nothing is written and the caller is told.        *)
resolve_raises(c) ==
  /\ ready(c, "resolve")
  /\ fault
  /\ call' = [call EXCEPT ![c] = Idle]
  /\ UNCHANGED <<recorded, submitted, buffers, flight, table, counted>>

(* clear_range and clear_all delete from both tables, prune_gate the oldest  *)
(* events only.                                                              *)
start_delete(c) ==
  /\ budget.clears > 0
  /\ \E op \in {"clear", "prune"}, n \in 1 .. recorded : begin(c, op, NoResults, n)
  /\ budget' = [budget EXCEPT !.clears = @ - 1]
  /\ UNCHANGED <<recorded, submitted, buffers, flight, table, counted>>

delete_rows(c) ==
  /\ ready(c, "clear") \/ ready(c, "prune")
  /\ LET from == IF call[c].op = "prune" THEN {"rejection_events"} ELSE Stores
     IN table' = [st \in Stores |-> IF st \in from THEN {e \in table[st] : e.row.id > call[c].upto} ELSE table[st]]
  /\ call' = [call EXCEPT ![c] = Idle]
  /\ UNCHANGED <<recorded, submitted, buffers, flight, counted, budget>>

(* The process ends (stop's final pass is a last round of daemon_flush) and  *)
(* a new one starts: memory is lost, the tables stay.                        *)
capture_restart ==
  /\ budget.crashes > 0
  /\ budget' = [budget EXCEPT !.crashes = @ - 1]
  /\ buffers' = [st \in Stores |-> <<>>]
  /\ flight' = [th \in Threads |-> NoBatch]
  /\ counted' = [st \in Stores |-> [dropped |-> 0, overflow |-> 0]]
  /\ call' = [c \in Callers |-> Idle]
  /\ UNCHANGED <<recorded, submitted, table>>

Flush(th) == flush_committed(th) \/ flush_retained(th) \/ flush_dropped(th) \/ count_dropped(th)
Delete(c) == start_delete(c) \/ delete_rows(c)
=============================================================================
