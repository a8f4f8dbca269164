--------------------------------- MODULE MCDesk -------------------------------
(* Small instances of Desk. Each initial state is one scenario.               *)
EXTENDS Desk, TLC

MCEventOf == "m1" :> "e1" @@ "m2" :> "e1" @@ "m3" :> "e1" @@ "m4" :> "e1"
MCLoopOf == "r1" :> "main" @@ "r2" :> "main" @@ "r3" :> "job"
MCFileOf == "r1" :> "f1" @@ "r2" :> "f1" @@ "r3" :> "f1"

At(side, size, entry) == [side |-> side, size |-> size, entry |-> entry, fee |-> 1, opened |-> 0]
BookQuote(bid, ask) == [bid |-> bid, ask |-> ask]
Three == "m1" :> At("yes", 1, 3) @@ "m2" :> At("yes", 1, 3) @@ "m3" :> At("no", 2, 5)
Four == Three @@ "m4" :> At("yes", 2, 2)
Pair == "m1" :> At("yes", 2, 4) @@ "m2" :> At("yes", 1, 5)
Lost == "m1" :> At("yes", 1, 6) @@ "m2" :> At("yes", 1, 6)

Quiet == [time |-> 0, parts |-> {}, books |-> {<< >>}, book_quotes |-> << BookQuote(4, 5), BookQuote(2, 3), BookQuote(7, 8), BookQuote(NoQuote, NoQuote) >>,
          exclusive |-> {"e1"}, field |-> "e1" :> {"m1", "m2"}, ratios |-> {4}, entry |-> {}, entries |-> 0, moves |-> 0, settlements |-> 0,
          reads |-> 0, faults |-> 0, signals |-> 0, edits |-> 0, rows |-> 0, resets |-> 0, bodies |-> {}, cuts |-> 0, uncut |-> 0,
          index_values |-> {1}, unsent |-> {}, spec_cache |-> 2, lag |-> 0, watched |-> {}, flushes |-> 0,
          prints |-> 0, ticks |-> 0, restarts |-> 0, slow |-> 0, quotes |-> 0, quoted |-> {}, streams |-> {FALSE}, schedule_sources |-> {{}}, pool |-> {}, overrides |-> {}, scorers |-> {}, batch |-> 1, exits |-> {}]

Netting == [Quiet EXCEPT !.time = 1, !.parts = {"netting"}, !.books = {Three, Four}, !.field = "e1" :> DOMAIN MCEventOf, !.ratios = {8},
              !.entry = {At("yes", 1, 4)}, !.entries = 1, !.moves = 2, !.settlements = 1]
TwoLeft == [Netting EXCEPT !.books = {Pair, Lost}, !.ratios = {2}, !.entries = 0, !.faults = 1]
Runners == [TwoLeft EXCEPT !.books = {"m1" :> At("yes", 1, 3) @@ "m2" :> At("yes", 1, 3)}]
Reports == [Quiet EXCEPT !.parts = {"reports"}, !.reads = 4, !.faults = 2]
SeriesTrades == [Quiet EXCEPT !.time = 1, !.parts = {"series"}, !.signals = 2, !.entries = 2]
SeriesEdits == [SeriesTrades EXCEPT !.time = 2, !.signals = 2, !.entries = 1, !.edits = 1]
Body(paper, close, domains, from, to) == [paper |-> paper, close_positions_first |-> close, domains |-> domains, from |-> from, to |-> to]
Resets == [Quiet EXCEPT !.time = 1, !.parts = {"resets"}, !.entries = 1, !.rows = 1, !.resets = 2,
             !.bodies = { Body(TRUE, c, {}, 0, 0) : c \in BOOLEAN } \cup { Body(TRUE, TRUE, {"candidate_log"}, 0, 1), Body(FALSE, FALSE, {"signal_log", "shadow"}, 0, 1) }]
ResetsCut == [Resets EXCEPT !.entries = 2, !.resets = 1, !.faults = 1, !.cuts = 1, !.uncut = 1]

Rule(strike, orEqual, supported) == [strike |-> strike, orEqual |-> orEqual, supported |-> supported]
MCCloseOf == "b1" :> 3 @@ "b2" :> 6 @@ "b3" :> 6
MCRuleOf == "b1" :> Rule(2, FALSE, TRUE) @@ "b2" :> Rule(2, TRUE, TRUE) @@ "b3" :> Rule(1, TRUE, FALSE)
IndexGaps == [Quiet EXCEPT !.time = 3, !.parts = {"index"}, !.cuts = 2, !.uncut = 2, !.faults = 1, !.flushes = 1]
IndexLate == [IndexGaps EXCEPT !.time = 4, !.faults = 0, !.flushes = 0, !.lag = 1]
IndexPrunes == [IndexGaps EXCEPT !.time = 4, !.cuts = 1, !.uncut = 1, !.faults = 0, !.edits = 1, !.flushes = 0]
IndexWindows == [IndexGaps EXCEPT !.time = 6, !.cuts = 0, !.uncut = 0, !.flushes = 0, !.faults = 0, !.index_values = {1, 3}, !.watched = {"b1", "b2"}]
IndexFaults == [IndexWindows EXCEPT !.time = 4, !.faults = 1, !.cuts = 1, !.uncut = 1, !.index_values = {1}, !.watched = {"b1", "b3"}]

MCOffsets == {1, Close}
MCLongEvents == << "v1", "v2" >>
Tape == [Quiet EXCEPT !.time = 3, !.parts = {"tape"}, !.prints = 2, !.ticks = 3, !.lag = 2, !.faults = 1, !.slow = 1]
TapeStops == [Tape EXCEPT !.ticks = 2, !.lag = 0, !.faults = 0, !.restarts = 1]
TapeBusy == [Tape EXCEPT !.time = 2, !.prints = 3, !.lag = 0, !.faults = 0]
Markouts == [Quiet EXCEPT !.time = 3, !.parts = {"history"}, !.quotes = 2, !.quoted = {1, 2}, !.streams = BOOLEAN, !.entries = 1, !.moves = 1]
MarkoutsLate == [Markouts EXCEPT !.faults = 1, !.time = 5, !.quoted = {1}, !.moves = 0, !.edits = 1]
MarkoutsLost == [Markouts EXCEPT !.quoted = {NoPrice, 1}, !.moves = 0, !.restarts = 1]
EventDates == [Quiet EXCEPT !.time = 4, !.parts = {"schedule"}, !.faults = 2, !.restarts = 1,
                 !.schedule_sources = {{}, {"strike_date", "milestone"}, {"milestone", "text"}, {"search"}}]

MCVolume == "k1" :> 4 @@ "k2" :> 0
MCCloseTime == "k1" :> 5 @@ "k2" :> 0
MCWeights == [depth |-> 18, unusualness |-> 8, proximity |-> 11, context |-> 7, agreement |-> 11, cluster |-> 11, trend |-> 7, analyst |-> 13, block |-> 15]
MCCategoryOf == "k1" :> 1 @@ "k2" :> None
MCSeriesOf == "k1" :> "s1" @@ "k2" :> "s2"
PrintOf(k, side, size, price) == [ticker |-> k, side |-> side, size |-> size, price |-> price, known |-> TRUE, block |-> FALSE, at |-> 0]
Band(low, high) == [low |-> low, high |-> high]
MCCostBands == << Band(0, 1), Band(1, 2), Band(2, 4), Band(4, 6), Band(6, 7) >>
OnlyDepth == [f \in DOMAIN MCWeights |-> IF f = "depth" THEN 1 ELSE 0]
Signalling == [Quiet EXCEPT !.time = 2, !.parts = {"signals"}, !.prints = 3, !.settlements = 1, !.lag = 0, !.overrides = {<< >>}, !.scorers = Workers,
                 !.pool = {PrintOf("k1", "yes", 2, 1), PrintOf("k1", "yes", 8, 5), PrintOf("k1", "no", 2, 1)}]
Batched == [Signalling EXCEPT !.batch = 2, !.prints = 2, !.scorers = {"stream"}, !.time = 1]
Scores == [Signalling EXCEPT !.time = 1, !.prints = 2, !.settlements = 0, !.moves = 1, !.lag = 0, !.overrides = {<< >>, [agreement |-> 0], OnlyDepth},
             !.pool = {PrintOf("k1", "yes", 2, 1), PrintOf("k2", "no", 8, 1), PrintOf("k2", "no", None, 3), PrintOf("k1", "yes", 2, Unit)}]
Unknown == [PrintOf("k2", "no", 2, 3) EXCEPT !.known = FALSE]
Rejects == [Signalling EXCEPT !.time = 0, !.prints = 2, !.settlements = 0, !.batch = 2, !.faults = 1,
              !.pool = {PrintOf("k1", "yes", 2, 3), PrintOf("k2", "no", 2, None), PrintOf("k1", NoSide, 2, 3), Unknown, [Unknown EXCEPT !.size = 0], [Unknown EXCEPT !.size = None]}]
Trends == [Signalling EXCEPT !.scorers = {"retry"}, !.time = 3, !.parts = {"signals", "history"}, !.prints = 1, !.lag = 0, !.settlements = 0, !.quotes = 2, !.quoted = {2, 3}, !.reads = 1,
             !.pool = {PrintOf("k1", "no", 2, 2)}]
TrendsLate == [Trends EXCEPT !.settlements = 1, !.lag = 1, !.time = 2, !.quoted = {2}]
Windows == [TrendsLate EXCEPT !.time = 3, !.quotes = 1, !.prints = 2, !.lag = 0]
Quarantines == [Signalling EXCEPT !.scorers = {"retry"}, !.lag = 1, !.time = 2, !.prints = 1, !.edits = 2, !.faults = 1, !.settlements = 0, !.pool = {PrintOf("k1", "yes", 2, 1)}]
QuarantineLate == [Quarantines EXCEPT !.prints = 2, !.faults = 0]
Cleared == [QuarantineLate EXCEPT !.edits = 1, !.resets = 1, !.settlements = 1]

Counted == [Rejects EXCEPT !.parts = {"signals", "candidates"}, !.faults = 0, !.batch = 1, !.prints = 2, !.settlements = 1,
              !.pool = {PrintOf("k1", "yes", 0, 3), PrintOf("k1", "yes", 2, Unit), PrintOf("k1", "no", 2, Unit)}]
CountedOdd == [Counted EXCEPT !.pool = {PrintOf("k1", "no", 0, None), PrintOf("k1", "yes", None, 3), [Unknown EXCEPT !.size = 0], Unknown}, !.settlements = 0]
ExitWeights == [pnl |-> 2, sentiment |-> 2, staleness |-> 1, analyst_divergence |-> 1, series_track_record |-> 0]
Held(side, pnl, weights) == [side |-> side, pnl |-> pnl, weights |-> weights]
Positions == { Held("yes", 20, ExitWeights), Held("no", -20, ExitWeights), Held("yes", -1, [ExitWeights EXCEPT !.series_track_record = 2]) }
Exits == [Signalling EXCEPT !.scorers = {"retry"}, !.time = 1, !.prints = 2, !.moves = 1, !.exits = Positions]
ExitsRestless == [Trends EXCEPT !.quotes = 3, !.reads = 0, !.time = 2, !.exits = { h \in Positions : h.pnl = -1 }]
EdgeGated == [TrendsLate EXCEPT !.lag = 0, !.entries = 1, !.exits = { Held("yes", 1, ExitWeights), Held("no", 1, ExitWeights) }]

DeskScenarios == { Netting, TwoLeft, Reports, SeriesTrades, SeriesEdits, Resets, ResetsCut, IndexGaps, IndexLate, IndexPrunes, IndexWindows, IndexFaults,
                   Tape, TapeStops, TapeBusy, Markouts, MarkoutsLate, MarkoutsLost, EventDates,
                   Signalling, Batched, Scores, Rejects, Windows, Trends, TrendsLate, Counted, CountedOdd, Exits, ExitsRestless, EdgeGated,
                   Quarantines, QuarantineLate, Cleared }
RunnersScenarios == { Runners }
HalfScenarios == { TwoLeft }
==============================================================================
