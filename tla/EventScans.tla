------------------------------ MODULE EventScans -----------------------------
(* What is known of the events behind the markets: the bulk scan of           *)
(* milestones with its watermark, the rotation that polls whether an event is *)
(* live, the winners of milestones, the titles, and the scan of multivariate  *)
(* events. The rotation and the winners are part of the trading tick.         *)
EXTENDS Runtime

CONSTANTS
  Events,
  Kind,               \* per event: "game", "report" (a milestone without a live status) or "plain" (no milestone)
  ScanEvery,          \* _MILESTONE_SCAN_MIN_INTERVAL_SEC
  Overlap,            \* _WATERMARK_OVERLAP_SEC: how late an update may become visible
  Repoll,             \* _LIVE_STATUS_REPOLL_SEC
  MaxPoll,            \* _LIVE_STATUS_MAX_POLL_PER_TICK
  WinnerRepoll,       \* _MILESTONE_REPOLL_SEC
  DataRepoll,         \* _EVENT_LIVE_DATA_REPOLL_SEC
  MveEvery            \* _MVE_SCAN_MIN_INTERVAL_SEC

ASSUME EventAssumption == Overlap \in Nat

VARIABLES
  world,              \* per event: when its milestone was updated, its live status, when its market closes
  milestones,         \* milestone_by_event, the watermark and the scan in progress
  live,               \* live_status_cache, live_status and the poll in progress
  winners,            \* milestone_cache, market_results and the check in progress
  titles,             \* event_titles in memory and on disk, and the fetch in progress
  event_data,         \* event_live_data_cache, event_live_data and the poll in progress
  mve                 \* the scan of multivariate events

eventVars == << world, milestones, live, winners, titles, event_data, mve >>

LongAgo == -100
NoEntry == [status |-> "unknown", checked_at |-> 0 - 99]
NoCheck == [checked_at |-> LongAgo, winner |-> ""]
IdleMilestones == [phase |-> "idle", started |-> LongAgo, since |-> LongAgo, answer |-> {}]

EventInit ==
  /\ world = [e \in Events |-> [updated |-> LongAgo, status |-> "none", winner |-> "", closes |-> budget.event_closes[e], starts |-> budget.event_starts[e]]]
  /\ milestones = [known |-> {}, watermark |-> LongAgo, scan |-> IdleMilestones]
  /\ live = [cache |-> [e \in Events |-> NoEntry], shown |-> << >>, phase |-> "idle", polled |-> {}, result |-> << >>]
  /\ winners = [cache |-> [e \in Events |-> NoCheck], results |-> << >>, asked |-> {}, phase |-> "idle"]
  /\ titles = [memory |-> {}, disk |-> {}, asked |-> {}, phase |-> "idle"]
  /\ event_data = [cache |-> [e \in Events |-> [data |-> LongAgo, checked_at |-> LongAgo]], shown |-> [e \in Events |-> LongAgo], asked |-> {}]
  /\ mve = [phase |-> "idle", started |-> LongAgo, answers |-> {}]

(* The games of the world. *)
milestone_updated(e) ==
  /\ Kind[e] # "plain" /\ Spends("updates")
  /\ world' = [world EXCEPT ![e].updated = now]
  /\ UNCHANGED << milestones, live, winners, titles, event_data, mve >>

game_changes(e, to) ==
  /\ Kind[e] = "game" /\ Spends("games")
  /\ << world[e].status, to >> \in { << "none", "live" >>, << "live", "finished" >> }
  /\ world' = [world EXCEPT ![e].status = to, ![e].winner = IF to = "finished" THEN "yes" ELSE ""]
  /\ UNCHANGED << milestones, live, winners, titles, event_data, mve >>

(* The milestone scan. An update becomes visible at most Overlap after it     *)
(* happened; the watermark moves to the start of a scan that was answered.    *)
mscan == milestones.scan
maybe_scan_milestone_batch ==
  /\ mscan.phase = "idle" /\ now - mscan.started > ScanEvery
  /\ milestones' = [milestones EXCEPT !.scan = [phase |-> "asked", started |-> now, since |-> milestones.watermark, answer |-> {}]]
  /\ UNCHANGED << world, live, winners, titles, event_data, mve, budget >>

Visible(e) == world[e].updated >= 0 /\ world[e].updated >= mscan.since
milestones_read ==
  /\ mscan.phase = "asked"
  /\ \E late \in SUBSET { e \in Events : world[e].updated > now - Overlap } :
       milestones' = [milestones EXCEPT !.scan.phase = "read", !.scan.answer = { e \in Events : Visible(e) } \ late]
  /\ UNCHANGED << world, live, winners, titles, event_data, mve, budget >>

later(a, b) == IF a < b THEN b ELSE a
(* Faulty variant: the next scan asks from the start of this one. *)
advanced_to_start(watermark) == later(watermark, mscan.started)
advanced(watermark) == later(watermark, mscan.started - Overlap)
scan_milestones_ends(failed) ==
  /\ mscan.phase = "read"
  /\ milestones' = [milestones EXCEPT !.scan.phase = "idle", !.scan.answer = {},
                      !.known = IF failed THEN @ ELSE @ \cup mscan.answer,
                      !.watermark = IF failed THEN @ ELSE advanced(@)]
  /\ IF failed THEN Spends("faults") ELSE UNCHANGED budget
  /\ UNCHANGED << world, live, winners, titles, event_data, mve >>

(* _fetch_live_status, up to its first request. The events in the window, the *)
(* ones known to be over or whose close has passed, and the ones to ask of.   *)
In(e) == e \in budget.window
Over(e) == In(e) /\ live.cache[e].status \in {"finished", "closed"}
Closed(e) == In(e) /\ ~Over(e) /\ now > world[e].closes
Recent(e) == live.cache[e] # NoEntry /\ now - live.cache[e].checked_at < Repoll
Due == { e \in Events : In(e) /\ ~Over(e) /\ ~Closed(e) /\ ~Recent(e) }
CheckedAt(e) == live.cache[e].checked_at
PollBatches(due) ==
  { batch \in SUBSET due :
      /\ Cardinality(batch) = IF Cardinality(due) < MaxPoll THEN Cardinality(due) ELSE MaxPoll
      /\ \A e \in batch, f \in due \ batch : CheckedAt(e) <= CheckedAt(f) }
closed_or_cached ==
  [e \in { e \in Events : In(e) /\ (Over(e) \/ Closed(e) \/ live.cache[e] # NoEntry) } |->
     IF Closed(e) THEN "finished" ELSE live.cache[e].status]

fetch_live_status ==
  /\ live.phase = "idle"
  /\ \E batch \in PollBatches(Due) :
       live' = [live EXCEPT
         !.phase = IF batch = {} THEN "idle" ELSE "asked", !.polled = batch,
         !.result = IF batch = {} THEN << >> ELSE closed_or_cached,
         !.shown = IF batch = {} THEN closed_or_cached ELSE @,
         !.cache = [e \in Events |-> IF Closed(e) THEN [status |-> "finished", checked_at |-> now] ELSE @[e]]]
  /\ UNCHANGED << world, milestones, winners, titles, event_data, mve, budget >>

(* The answers: the milestone of each event from the bulk scan or, when it is *)
(* not there, from the event itself, and its live data. An event without a    *)
(* milestone is left out of the cache; one whose live data is missing falls   *)
(* back on the schedule.                                                      *)
HasMilestone(e) == Kind[e] # "plain"
status_of(e, answered) ==
  IF Kind[e] = "report" /\ answered THEN "no_status"
  ELSE IF Kind[e] = "game" /\ answered THEN world[e].status
  ELSE IF now < world[e].starts THEN "none" ELSE "live"
Cached(e, missing) == HasMilestone(e) /\ (e \in milestones.known \/ e \notin missing)
live_status_answered(missing) ==
  /\ live.phase = "asked" /\ missing \subseteq live.polled
  /\ IF missing = {} THEN UNCHANGED budget ELSE Spends("faults")
  /\ LET written == { e \in live.polled : Cached(e, missing) }
         status == [e \in written |-> status_of(e, e \notin missing)]
         result == [e \in DOMAIN live.result \cup written |-> IF e \in written THEN status[e] ELSE live.result[e]]
     IN  live' = [live EXCEPT !.phase = "idle", !.polled = {}, !.result = << >>, !.shown = result,
                    !.cache = [e \in Events |-> IF e \in written THEN [status |-> status[e], checked_at |-> now] ELSE @[e]]]
  /\ UNCHANGED << world, milestones, winners, titles, event_data, mve >>

(* The request for the live data itself fails: the tick is given up, and what *)
(* it would have shown with it.                                               *)
live_status_fails ==
  /\ live.phase = "asked" /\ Spends("faults")
  /\ live' = [live EXCEPT !.phase = "idle", !.polled = {}, !.result = << >>]
  /\ UNCHANGED << world, milestones, winners, titles, event_data, mve >>

(* propagate_milestone_winners: events not yet known to have a winner are     *)
(* asked about again, and the known winners are applied to every tick's       *)
(* results, unless a request fails on the way. budget.mapped are the events   *)
(* whose related tickers are markets: the exchange lists events there.        *)
Found(e) == winners.cache[e].winner # ""
ToCheck == { e \in Events : In(e) /\ ~Found(e) /\ now - winners.cache[e].checked_at >= WinnerRepoll }
results_of(cache) == [e \in { e \in Events : In(e) /\ cache[e].winner # "" } |-> cache[e].winner]
propagate_milestone_winners ==
  /\ winners.phase = "idle"
  /\ winners' = IF ToCheck = {} THEN [winners EXCEPT !.results = results_of(winners.cache)]
                ELSE [winners EXCEPT !.phase = "asked", !.asked = ToCheck]
  /\ UNCHANGED << world, milestones, live, titles, event_data, mve, budget >>

checked_now(mapped) ==
  [e \in Events |-> IF e \in winners.asked THEN [checked_at |-> now, winner |-> IF e \in mapped THEN world[e].winner ELSE ""]
                    ELSE winners.cache[e]]
winners_answered ==
  /\ winners.phase = "asked"
  /\ LET cache == checked_now(budget.mapped)
     IN  winners' = [cache |-> cache, results |-> results_of(cache), asked |-> {}, phase |-> "idle"]
  /\ UNCHANGED << world, milestones, live, titles, event_data, mve, budget >>

winners_fail(marked) ==
  /\ winners.phase = "asked" /\ Spends("faults")
  /\ winners' = [cache |-> IF marked THEN checked_now({}) ELSE winners.cache, results |-> << >>, asked |-> {}, phase |-> "idle"]
  /\ UNCHANGED << world, milestones, live, titles, event_data, mve >>

(* The titles the memory lacks; those an answer leaves out are asked again.   *)
fetch_event_titles ==
  /\ titles.phase = "idle" /\ budget.window \ titles.memory # {}
  /\ titles' = [titles EXCEPT !.phase = "asked", !.asked = budget.window \ titles.memory]
  /\ UNCHANGED << world, milestones, live, winners, event_data, mve, budget >>

saved(known, got) == [known EXCEPT !.memory = @ \cup got, !.disk = @ \cup got]
event_titles_answered(got) ==
  /\ titles.phase = "asked"
  /\ IF got = titles.asked THEN UNCHANGED budget ELSE Spends("faults")
  /\ titles' = [saved(titles, got) EXCEPT !.phase = "idle", !.asked = {}]
  /\ UNCHANGED << world, milestones, live, winners, event_data, mve >>

(* The live data of the events, each asked separately; a failed answer clears *)
(* the cached data and leaves what is shown.                                  *)
DataDue == { e \in budget.window : now - event_data.cache[e].checked_at >= DataRepoll }
fetch_event_live_data ==
  /\ event_data.asked = {} /\ DataDue # {}
  /\ event_data' = [event_data EXCEPT !.asked = DataDue]
  /\ UNCHANGED << world, milestones, live, winners, titles, mve, budget >>

event_live_data_answered(failed) ==
  /\ event_data.asked # {} /\ failed \subseteq event_data.asked
  /\ IF failed = {} THEN UNCHANGED budget ELSE Spends("faults")
  /\ LET got == { e \in event_data.asked \ failed : HasMilestone(e) }
     IN  event_data' = [cache |-> [e \in Events |-> IF e \in event_data.asked THEN [data |-> IF e \in got THEN now ELSE LongAgo, checked_at |-> now]
                                                    ELSE event_data.cache[e]],
                        shown |-> [e \in Events |-> IF e \in got THEN now ELSE event_data.shown[e]],
                        asked |-> {}]
  /\ UNCHANGED << world, milestones, live, winners, titles, mve >>

(* The scan of multivariate events brings titles of its own.                  *)
maybe_scan_mve_batch ==
  /\ mve.phase = "idle" /\ now - mve.started > MveEvery
  /\ mve' = [phase |-> "asked", started |-> now, answers |-> {}]
  /\ UNCHANGED << world, milestones, live, winners, titles, event_data, budget >>

scan_mve_batch_ends(events) ==
  /\ mve.phase = "asked"
  /\ IF events = {} THEN Spends("faults") ELSE UNCHANGED budget
  /\ mve' = [mve EXCEPT !.phase = "idle", !.answers = events]
  /\ titles' = saved(titles, events)
  /\ UNCHANGED << world, milestones, live, winners, event_data >>

(* A restart keeps the titles on disk, and nothing else of this.              *)
restart_events ==
  /\ milestones' = [known |-> {}, watermark |-> LongAgo, scan |-> IdleMilestones]
  /\ live' = [cache |-> [e \in Events |-> NoEntry], shown |-> << >>, phase |-> "idle", polled |-> {}, result |-> << >>]
  /\ winners' = [cache |-> [e \in Events |-> NoCheck], results |-> << >>, asked |-> {}, phase |-> "idle"]
  /\ titles' = [memory |-> titles.disk, disk |-> titles.disk, asked |-> {}, phase |-> "idle"]
  /\ event_data' = [cache |-> [e \in Events |-> [data |-> LongAgo, checked_at |-> LongAgo]], shown |-> [e \in Events |-> LongAgo], asked |-> {}]
  /\ mve' = [phase |-> "idle", started |-> LongAgo, answers |-> {}]
  /\ UNCHANGED world

-------------------------------------------------------------------------------
(* Every milestone updated up to the watermark has been seen, although an     *)
(* update is visible only some time after it happened, scans fail and a scan  *)
(* runs while milestones change.                                              *)
MilestonesAreFound == \A e \in Events : world[e].updated >= 0 /\ world[e].updated < milestones.watermark => e \in milestones.known

=============================================================================
