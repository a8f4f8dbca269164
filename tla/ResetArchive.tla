------------------------------ MODULE ResetArchive ----------------------------
(* A reset of the paper account and of other stores, step by step, with the   *)
(* archive that is taken of the account first and the log of what was lost.   *)
EXTENDS Runtime, FiniteSetsExt

CONSTANTS
  StoreDomains        \* the other domains a reset can clear

(* The account is no other domain. How many resets were cut short is what is  *)
(* left of the bound a scenario starts with.                                  *)
ASSUME ResetAssumption ==
  /\ "paper" \notin StoreDomains
  /\ \A s \in Scenarios : {"cuts", "uncut"} \subseteq DOMAIN s /\ s.cuts \in Nat /\ s.uncut = s.cuts

VARIABLES
  trades,             \* the trades of paper_broker.db
  positions,          \* its positions: the entries that are open
  epochs,             \* trade_archive.db, oldest first
  reset_log,          \* reset_log.db, oldest first
  stores,             \* per domain, when the rows of its table were recorded
  batch,              \* candidate rows: buffered, and swapped out by the daemon
  request,            \* the reset in progress
  destroyed           \* history: the account's rows that resets have deleted

resetVars == << trades, positions, epochs, reset_log, stores, batch, request, destroyed >>

Unbounded == 0
NoRequest == [pc |-> "idle"]
Ranged(body) == body.from # Unbounded \/ body.to # Unbounded
(* _trade_range_where and its like: (after, before], either side open.        *)
_range_where(body, at) == (body.from = Unbounded \/ at > body.from) /\ (body.to = Unbounded \/ at <= body.to)
InRange(body) == { t \in trades : ~Ranged(body) \/ _range_where(body, t.at) }
HasRange == {"signal_log", "candidate_log", "trade_category"}

ResetInit ==
  /\ trades = {} /\ positions = {} /\ epochs = << >> /\ reset_log = << >>
  /\ stores = [d \in StoreDomains |-> {}]
  /\ batch = [buffered |-> {}, taken |-> {}]
  /\ request = NoRequest /\ destroyed = {}

(* What trading does to the account, and the other writers to their stores.   *)
NextId == 1 + Cardinality(trades) + Cardinality(destroyed)
enters ==
  /\ request.pc = "idle" /\ Spends("entries")
  /\ trades' = trades \cup {[id |-> NextId, kind |-> "entry", at |-> now]}
  /\ positions' = positions \cup {NextId}
  /\ UNCHANGED << epochs, reset_log, stores, batch, request, destroyed, now >>

exits(p) ==
  /\ request.pc = "idle"
  /\ trades' = trades \cup {[id |-> NextId, kind |-> "close", at |-> now]}
  /\ positions' = positions \ {p}
  /\ UNCHANGED << epochs, reset_log, stores, batch, request, destroyed, now, budget >>

row_recorded(d) ==
  /\ Spends("rows")
  /\ IF d = "candidate_log" THEN batch' = [batch EXCEPT !.buffered = @ \cup {[n |-> budget.rows, at |-> now]}] /\ UNCHANGED stores
     ELSE stores' = [stores EXCEPT ![d] = @ \cup {[n |-> budget.rows, at |-> now]}] /\ UNCHANGED batch
  /\ UNCHANGED << trades, positions, epochs, reset_log, request, destroyed, now >>

(* The capture writer's daemon swaps the buffer out and writes it later.      *)
daemon_takes ==
  /\ batch.buffered # {} /\ batch.taken = {}
  /\ batch' = [buffered |-> {}, taken |-> batch.buffered]
  /\ UNCHANGED << trades, positions, epochs, reset_log, stores, request, destroyed, now, budget >>

daemon_writes ==
  /\ batch.taken # {}
  /\ stores' = [stores EXCEPT !["candidate_log"] = @ \cup batch.taken]
  /\ batch' = [batch EXCEPT !.taken = {}]
  /\ UNCHANGED << trades, positions, epochs, reset_log, request, destroyed, now, budget >>

(* reset_broker. It does not await: what can come between its steps is the    *)
(* daemon, an error of a database and the end of the process.                 *)
flush_now == [stores EXCEPT !["candidate_log"] = @ \cup batch.buffered]
_reset_domain_counts(body) ==
  [d \in (IF body.paper THEN {"paper"} ELSE {}) \cup body.domains |->
     IF d = "paper" THEN Cardinality(InRange(body))
     ELSE Cardinality({ r \in (IF d = "candidate_log" THEN flush_now[d] ELSE stores[d]) : _range_where(body, r.at) })]
(* Faulty variant: only a reset of the whole account is archived.             *)
first_step_whole(body) == IF ~body.paper THEN "domains" ELSE IF Ranged(body) THEN "clear" ELSE "archive"
first_step(body) == IF body.paper THEN "archive" ELSE "domains"
reset_broker(body) ==
  /\ request.pc = "idle" /\ Spends("resets")
  /\ request' = [pc |-> first_step(body), body |-> body, counts |-> _reset_domain_counts(body), left |-> body.domains,
                 domain |-> "paper", closed |-> 0, unreadable |-> FALSE, deleted |-> 0]
  /\ IF "candidate_log" \in body.domains
     THEN stores' = flush_now /\ batch' = [batch EXCEPT !.buffered = {}]
     ELSE UNCHANGED << stores, batch >>
  /\ UNCHANGED << trades, positions, epochs, reset_log, destroyed, now >>

close_all_positions ==
  /\ request.pc = "archive" /\ request.body.close_positions_first /\ ~Ranged(request.body) /\ positions # {}
  /\ LET n == NextId
         closing == { [id |-> n - 1 + i, kind |-> "close", at |-> now] : i \in 1 .. Cardinality(positions) }
     IN  trades' = trades \cup closing
  /\ positions' = {}
  /\ request' = [request EXCEPT !.closed = Cardinality(positions)]
  /\ UNCHANGED << epochs, reset_log, stores, batch, destroyed, now, budget >>

(* archive_epoch: an account that cannot be read is reported, and the reset   *)
(* goes on; an archive that cannot be written ends it.                        *)
archive_epoch ==
  /\ request.pc = "archive"
  /\ request.body.close_positions_first /\ ~Ranged(request.body) => positions = {}
  /\ \/ /\ epochs' = Append(epochs, [trades |-> trades, positions |-> positions])
        /\ request' = [request EXCEPT !.pc = "clear"]
        /\ UNCHANGED budget
     \/ /\ Spends("faults")
        /\ request' = [request EXCEPT !.pc = "clear", !.unreadable = TRUE]
        /\ UNCHANGED epochs
  /\ UNCHANGED << trades, positions, reset_log, stores, batch, destroyed, now >>

lost_rows(rows) == { [row |-> t, unreadable |-> request.unreadable] : t \in rows }
deleted_with(body) == InRange(body)
clear_paper ==
  /\ request.pc = "clear"
  /\ trades' = trades \ deleted_with(request.body)
  /\ destroyed' = destroyed \cup lost_rows(deleted_with(request.body))
  /\ positions' = IF Ranged(request.body) THEN positions ELSE {}
  /\ request' = [request EXCEPT !.pc = "log", !.domain = "paper",
                   !.deleted = IF Ranged(request.body) THEN Cardinality(InRange(request.body)) ELSE request.counts["paper"]]
  /\ UNCHANGED << epochs, reset_log, stores, batch, now, budget >>

(* The others follow, those with a range cleared in it, the candidate log     *)
(* after another flush. Each is logged once it is cleared.                    *)
clear_domain(d) ==
  /\ request.pc = "domains" /\ d \in request.left
  /\ LET flushed == IF d = "candidate_log" THEN flush_now ELSE stores
         gone == IF d \in HasRange THEN { r \in flushed[d] : _range_where(request.body, r.at) } ELSE flushed[d]
     IN  /\ stores' = [flushed EXCEPT ![d] = @ \ gone]
         /\ request' = [request EXCEPT !.pc = "log", !.left = @ \ {d}, !.domain = d, !.deleted = Cardinality(gone)]
  /\ batch' = IF d = "candidate_log" THEN [batch EXCEPT !.buffered = {}] ELSE batch
  /\ UNCHANGED << trades, positions, epochs, reset_log, destroyed, now, budget >>

log_reset ==
  /\ request.pc = "log"
  /\ reset_log' = Append(reset_log, [domain |-> request.domain, before |-> request.counts[request.domain], deleted |-> request.deleted, closed |-> request.closed])
  /\ request' = [request EXCEPT !.pc = "domains"]
  /\ UNCHANGED << trades, positions, epochs, stores, batch, destroyed, now, budget >>

reset_done ==
  /\ request.pc = "domains" /\ request.left = {}
  /\ request' = NoRequest
  /\ UNCHANGED << trades, positions, epochs, reset_log, stores, batch, destroyed, now, budget >>

(* A statement raises, or the process ends: what was committed stays.         *)
reset_cut(restarted) ==
  /\ request.pc # "idle" /\ Spends("cuts")
  /\ request' = NoRequest
  /\ batch' = IF restarted THEN [buffered |-> {}, taken |-> {}] ELSE batch
  /\ UNCHANGED << trades, positions, epochs, reset_log, stores, destroyed, now >>

ResetNext ==
  /\ Takes("resets")
  /\ \/ enters
     \/ \E p \in positions : exits(p)
     \/ \E d \in StoreDomains : row_recorded(d) \/ clear_domain(d)
     \/ \E b \in budget.bodies : reset_broker(b)
     \/ daemon_takes \/ daemon_writes \/ close_all_positions \/ archive_epoch \/ clear_paper \/ log_reset \/ reset_done
     \/ \E r \in BOOLEAN : reset_cut(r)

(* What a reset has deleted from the account was archived before, if it could *)
(* be read; and unless a reset was cut short, the log tells how many rows     *)
(* went, but for the closes that the reset made itself.                       *)
ResetsAreAccounted ==
  /\ \A d \in destroyed : d.unreadable \/ \E i \in DOMAIN epochs : d.row \in epochs[i].trades
  /\ request.pc = "idle" /\ budget.cuts = budget.uncut =>
       Cardinality(destroyed) = SumOfAll([i \in DOMAIN reset_log |-> IF reset_log[i].domain = "paper" THEN reset_log[i].deleted + reset_log[i].closed ELSE 0])

=============================================================================
