---------------------------- MODULE WatchProofs -----------------------------
(***************************************************************************)
(* Theorems about what the program watches: the subscriptions of the       *)
(* stream (StreamSubscriptions), for any watchlist and any number of       *)
(* connections and changes, and the polling of the exchange (Discovery),   *)
(* for any series, markets and events, periods and bounds.                 *)
(***************************************************************************)
EXTENDS StreamSubscriptions, Discovery, FiniteSetTheorems, TLAPS

\* The flags tell what was sent: a channel not up has not been subscribed on
\* this connection, and a scoped trade channel goes up with the ticker channel.
FlagsInv ==
    connected =>
        /\ \A c \in Channels : sent[c] <= 1 /\ (~up[c] => sent[c] = 0)
        /\ exchange_wide => up["trade"] /\ server["trade"] = Tickers
        /\ ~exchange_wide => up["trade"] = up["ticker"]

\* What is believed subscribed is what the exchange streams unless an update
\* was not addressed, and is the watchlist unless a change is unseen.
BeliefInv ==
    connected =>
        /\ ~up["ticker"] => subscribed = {}
        /\ ~update_event => subscribed = desired
        /\ ~unaddressed => \A c \in market_channels : server[c] = subscribed

StreamInv == TypeOK /\ SidsAreOfThisConnection /\ FlagsInv /\ BeliefInv

-----------------------------------------------------------------------------
\* The state keeps its types, over every step of the gateway and the exchange.
LEMMA TypeStep == TypeOK /\ [Next]_vars => TypeOK'
<1> SUFFICES ASSUME TypeOK, [Next]_vars PROVE TypeOK'
  OBVIOUS
<1> USE DEF TypeOK
<1>0. \A c \in Channels : asked(c) \in SUBSET Tickers /\ sid_of(c) \in Nat \X Channels
  BY DEF asked, sid_of
<1>1. CASE \E tickers \in SUBSET Tickers : set_market_tickers(tickers)
  BY <1>1 DEF set_market_tickers
<1>2. CASE sync
  <2>1. CASE up["ticker"]
    <3>1. \A c \in Channels : updated(c, subscribed) \in SUBSET Tickers
      BY DEF updated
    <3>2. server' \in [Channels -> SUBSET Tickers]
      BY <1>2, <2>1, <3>1 DEF sync, update_subscription
    <3>3. /\ subscribed' = desired /\ update_event' = FALSE /\ unaddressed' \in BOOLEAN
          /\ UNCHANGED <<exchange_wide, connects, connected, desired, up, sids, answers, sent, changes, shed>>
      BY <1>2, <2>1 DEF sync, update_subscription
    <3> QED
      BY <3>2, <3>3
  <2>2. CASE ~up["ticker"]
    <3>1. due(up) \in SUBSET Channels /\ believed(up, subscribed) \in SUBSET Tickers
      BY DEF due, believed
    <3>2. up' \in [Channels -> BOOLEAN]
      BY <1>2, <2>2 DEF sync, subscribe
    <3>3. sent' \in [Channels -> Nat]
      BY <1>2, <2>2 DEF sync, subscribe
    <3>4. server' \in [Channels -> SUBSET Tickers]
      BY <1>0, <1>2, <2>2 DEF sync
    <3>5. answers' \in SUBSET Channels /\ subscribed' \in SUBSET Tickers
      BY <1>2, <2>2, <3>1 DEF sync, subscribe
    <3>6. UNCHANGED <<exchange_wide, connects, connected, desired, sids, changes,
                      unaddressed, shed>> /\ update_event' = FALSE
      BY <1>2, <2>2 DEF sync
    <3> QED
      BY <3>2, <3>3, <3>4, <3>5, <3>6
  <2> QED BY <2>1, <2>2
<1>3. CASE connect
  <2>1. due(fresh) \in SUBSET Channels /\ believed(fresh, {}) \in SUBSET Tickers
    BY DEF due, believed
  <2>2. fresh \in [Channels -> BOOLEAN]
    BY DEF fresh, Channels
  <2>3. up' \in [Channels -> BOOLEAN]
    BY <1>3, <2>2 DEF connect
  <2>4. sent' \in [Channels -> Nat]
    BY <1>3 DEF connect
  <2>5. server' \in [Channels -> SUBSET Tickers]
    BY <1>0, <1>3 DEF connect
  <2>6. sids' \in [Channels -> {NoSid} \cup (Nat \X Channels)]
    BY <1>3 DEF connect, forgotten_sids
  <2>7. answers' \in SUBSET Channels /\ subscribed' \in SUBSET Tickers
    BY <1>3, <2>1 DEF connect
  <2>8. UNCHANGED <<exchange_wide, desired, update_event, changes>>
    BY <1>3 DEF connect
  <2>9. connected' \in BOOLEAN /\ unaddressed' \in BOOLEAN /\ shed' \in BOOLEAN
    BY <1>3 DEF connect
  <2>10. connects' \in Nat
    BY <1>3 DEF connect
  <2> QED
    BY <2>3, <2>4, <2>5, <2>6, <2>7, <2>8, <2>9, <2>10
<1>4. CASE disconnect
  BY <1>4 DEF disconnect, fresh, forgotten_sids, Channels
<1>5. CASE \E c \in Channels : answer(c) \/ shed_answer(c)
  <2>1. PICK c \in Channels : answer(c) \/ shed_answer(c)
    BY <1>5
  <2>2. sids' \in [Channels -> {NoSid} \cup (Nat \X Channels)]
    BY <1>0, <2>1 DEF answer, shed_answer
  <2>3. answers' \in SUBSET Channels /\ shed' \in BOOLEAN
    BY <2>1 DEF answer, shed_answer
  <2>4. UNCHANGED <<exchange_wide, connects, connected, desired, update_event, up,
                    subscribed, server, changes, sent, unaddressed>>
    BY <2>1 DEF answer, shed_answer
  <2> QED
    BY <2>2, <2>3, <2>4
<1>6. CASE UNCHANGED vars
  BY <1>6 DEF vars
<1> QED
  BY <1>1, <1>2, <1>3, <1>4, <1>5, <1>6 DEF Next

\* A known sid is of this connection: a connection starts without one, and
\* only its own answers bring them.
LEMMA SidsStep == TypeOK /\ SidsAreOfThisConnection /\ [Next]_vars => SidsAreOfThisConnection'
<1> SUFFICES ASSUME TypeOK, SidsAreOfThisConnection, [Next]_vars
             PROVE  SidsAreOfThisConnection'
  OBVIOUS
<1> USE DEF SidsAreOfThisConnection, sid_of
<1>1. CASE \E tickers \in SUBSET Tickers : set_market_tickers(tickers)
  BY <1>1 DEF set_market_tickers
<1>2. CASE sync
  BY <1>2 DEF sync
<1>3. CASE connect
  BY <1>3 DEF connect, forgotten_sids
<1>4. CASE disconnect
  BY <1>4 DEF disconnect, forgotten_sids
<1>5. CASE \E c \in Channels : answer(c)
  BY <1>5 DEF answer, TypeOK
<1>6. CASE \E c \in Channels : shed_answer(c)
  BY <1>6 DEF shed_answer
<1>7. CASE UNCHANGED vars
  BY <1>7 DEF vars
<1> QED
  BY <1>1, <1>2, <1>3, <1>4, <1>5, <1>6, <1>7 DEF Next

\* The flags go on telling what was sent.
LEMMA FlagsStep == TypeOK /\ FlagsInv /\ SidsAreOfThisConnection /\ [Next]_vars => FlagsInv'
<1> SUFFICES ASSUME TypeOK, FlagsInv, SidsAreOfThisConnection, [Next]_vars PROVE FlagsInv'
  OBVIOUS
<1> USE DEF TypeOK, FlagsInv
<1>0. "trade" \in Channels /\ "ticker" \in Channels
  BY DEF Channels
<1>1. CASE \E tickers \in SUBSET Tickers : set_market_tickers(tickers)
  BY <1>1 DEF set_market_tickers
<1>2. CASE sync
  <2>1. CASE up["ticker"]
    <3>1. exchange_wide => "trade" \notin addressed(sids)
      BY DEF addressed, market_channels
    <3>2. exchange_wide => updated("trade", subscribed) = server["trade"]
      BY <3>1 DEF updated
    <3> QED
      BY <1>0, <1>2, <2>1, <3>2 DEF sync, update_subscription
  <2>2. CASE ~up["ticker"]
    <3>1. \A c \in Channels : c \in due(up) => ~up[c]
      BY DEF due
    <3>2. ~exchange_wide /\ connected => ("trade" \in due(up) <=> "ticker" \in due(up))
      BY <1>0 DEF due, market_channels
    <3>3. connected /\ connected'
      BY <1>2 DEF sync
    <3>4. \A c \in Channels : up'[c] = (up[c] \/ c \in due(up))
      BY <1>2, <2>2 DEF sync, subscribe
    <3>5. \A c \in Channels : sent'[c] = IF c \in due(up) THEN sent[c] + 1 ELSE sent[c]
      BY <1>2, <2>2 DEF sync, subscribe
    <3>6. ASSUME NEW c \in Channels PROVE sent'[c] <= 1 /\ (~up'[c] => sent'[c] = 0)
      <4>0. c \in due(up) => up'[c]
        BY <3>4, Zenon
      <4>1. CASE c \in due(up)
        <5>1. sent[c] = 0
          BY <3>1, <3>3, <4>1
        <5> QED
          BY <3>5, <4>0, <4>1, <5>1
      <4>2. CASE c \notin due(up)
        BY <3>3, <3>4, <3>5, <4>2
      <4> QED BY <4>1, <4>2
    <3>7. exchange_wide' => up'["trade"] /\ server'["trade"] = Tickers
      BY <1>0, <1>2, <2>2, <3>1, <3>3, <3>4 DEF sync
    <3>8. ~exchange_wide' => up'["trade"] = up'["ticker"]
      BY <1>0, <1>2, <3>2, <3>3, <3>4 DEF sync
    <3> QED
      BY <3>6, <3>7, <3>8
  <2> QED BY <2>1, <2>2
<1>3. CASE connect
  <2>1. ASSUME NEW c \in Channels PROVE sent'[c] <= 1 /\ (~up'[c] => sent'[c] = 0)
    <3>1. c \in due(fresh) => up'[c]
      BY <1>3, Zenon DEF connect
    <3>2. sent'[c] = IF c \in due(fresh) THEN 1 ELSE 0
      BY <1>3 DEF connect
    <3>3. CASE c \in due(fresh)
      BY <3>1, <3>2, <3>3
    <3>4. CASE c \notin due(fresh)
      BY <3>2, <3>4
    <3> QED BY <3>3, <3>4
  <2>2. ~fresh["trade"] /\ ~fresh["ticker"]
    BY <1>0 DEF fresh
  <2>3. exchange_wide => "trade" \in due(fresh) /\ asked("trade") = Tickers
    BY <1>0, <2>2 DEF due, asked, market_channels
  <2>4. ~exchange_wide => ("trade" \in due(fresh) <=> "ticker" \in due(fresh))
    BY <1>0, <2>2 DEF due, market_channels
  <2>5. exchange_wide' => up'["trade"] /\ server'["trade"] = Tickers
    BY <1>0, <1>3, <2>3 DEF connect
  <2>6. ~exchange_wide' => up'["trade"] = up'["ticker"]
    BY <1>0, <1>3, <2>2, <2>4 DEF connect
  <2> QED
    BY <2>1, <2>5, <2>6
<1>4. CASE disconnect
  BY <1>4 DEF disconnect
<1>5. CASE \E c \in Channels : answer(c) \/ shed_answer(c)
  <2>1. UNCHANGED <<exchange_wide, connected, up, server, sent>>
    BY <1>5 DEF answer, shed_answer
  <2> QED
    BY <2>1
<1>6. CASE UNCHANGED vars
  BY <1>6 DEF vars
<1> QED
  BY <1>1, <1>2, <1>3, <1>4, <1>5, <1>6 DEF Next

\* Belief and exchange agree after every step.
LEMMA BeliefStep == StreamInv /\ [Next]_vars => BeliefInv'
<1> SUFFICES ASSUME StreamInv, [Next]_vars PROVE BeliefInv'
  OBVIOUS
<1> USE DEF StreamInv, BeliefInv
<1>0. "trade" \in Channels /\ "ticker" \in Channels /\ market_channels \subseteq Channels
  BY DEF Channels, market_channels
<1>1. CASE \E tickers \in SUBSET Tickers : set_market_tickers(tickers)
  BY <1>1 DEF set_market_tickers, market_channels
<1>2. CASE sync
  <2>0. connected /\ market_channels' = market_channels /\ desired' = desired
    BY <1>2 DEF sync, market_channels
  <2>1. CASE up["ticker"]
    <3>1. /\ up' = up /\ subscribed' = desired
          /\ unaddressed' = (unaddressed \/ (desired # subscribed /\ addressed(sids) # market_channels))
          /\ server' = [c \in Channels |-> updated(c, subscribed)]
      BY <1>2, <2>1 DEF sync, update_subscription
    <3>2. ASSUME ~unaddressed', NEW c \in market_channels PROVE server'[c] = desired
      <4>1. server[c] = subscribed
        BY <2>0, <3>1, <3>2
      <4>2. server'[c] = updated(c, subscribed)
        BY <1>0, <3>1, <3>2
      <4>3. CASE desired = subscribed
        BY <4>1, <4>2, <4>3 DEF updated
      <4>4. CASE addressed(sids) = market_channels
        <5>1. sids[c] = sid_of(c)
          BY <1>0, <3>2, <4>4 DEF addressed, SidsAreOfThisConnection
        <5>2. server'[c] = (subscribed \cup (desired \ subscribed)) \ (subscribed \ desired)
          BY <3>2, <4>1, <4>2, <4>4, <5>1 DEF updated
        <5> QED
          BY <5>2
      <4> QED
        BY <3>1, <3>2, <4>3, <4>4
    <3> QED
      BY <2>0, <2>1, <3>1, <3>2
  <2>2. CASE ~up["ticker"]
    <3>1. /\ up' = [c \in Channels |-> up[c] \/ c \in due(up)]
          /\ subscribed' = believed(up, subscribed)
          /\ unaddressed' = unaddressed
          /\ server' = [c \in Channels |-> IF c \in due(up) THEN asked(c) ELSE server[c]]
      BY <1>2, <2>2 DEF sync, subscribe
    <3>2. subscribed = {}
      BY <2>0, <2>2
    <3>3. CASE desired = {}
      <4>1. due(up) \cap market_channels = {}
        BY <3>3 DEF due
      <4> QED
        BY <1>0, <2>0, <3>1, <3>2, <3>3, <4>1 DEF believed
    <3>4. CASE desired # {}
      <4>1. \A c \in market_channels : c \in due(up)
        BY <1>0, <2>0, <2>2, <3>4 DEF due, market_channels, FlagsInv
      <4>2. "ticker" \in market_channels
        BY DEF market_channels
      <4>3. subscribed' = desired /\ up'["ticker"]
        BY <1>0, <3>1, <4>1, <4>2 DEF believed
      <4>4. \A c \in market_channels : server'[c] = desired
        BY <1>0, <3>1, <4>1 DEF asked
      <4> QED
        BY <2>0, <4>3, <4>4
    <3> QED BY <3>3, <3>4
  <2> QED BY <2>1, <2>2
<1>3. CASE connect
  <2>0. market_channels' = market_channels /\ desired' = desired
    BY <1>3 DEF connect, market_channels
  <2>1. \A c \in market_channels : ~fresh[c]
    BY <1>0 DEF fresh, market_channels
  <2>2. CASE desired = {}
    <3>1. due(fresh) \cap market_channels = {}
      BY <2>2 DEF due
    <3> QED
      BY <1>0, <1>3, <2>0, <2>2, <3>1 DEF connect, believed
  <2>3. CASE desired # {}
    <3>1. \A c \in market_channels : c \in due(fresh)
      BY <1>0, <2>1, <2>3 DEF due
    <3>2. "ticker" \in market_channels
      BY DEF market_channels
    <3>3. subscribed' = desired /\ up'["ticker"]
      BY <1>0, <1>3, <3>1, <3>2 DEF connect, believed
    <3>4. \A c \in market_channels : server'[c] = desired
      BY <1>0, <1>3, <3>1 DEF connect, asked
    <3> QED
      BY <2>0, <3>3, <3>4
  <2> QED BY <2>2, <2>3
<1>4. CASE disconnect
  BY <1>4 DEF disconnect
<1>5. CASE \E c \in Channels : answer(c) \/ shed_answer(c)
  <2>1. UNCHANGED <<exchange_wide, connected, up, server, subscribed, desired,
                    update_event, unaddressed>>
    BY <1>5 DEF answer, shed_answer
  <2> QED
    BY <2>1 DEF market_channels
<1>6. CASE UNCHANGED vars
  BY <1>6 DEF vars, market_channels
<1> QED
  BY <1>1, <1>2, <1>3, <1>4, <1>5, <1>6 DEF Next

\* The inductive invariant holds from the start.
LEMMA StreamInit == Init => StreamInv
<1> SUFFICES ASSUME Init PROVE StreamInv
  OBVIOUS
<1>1. TypeOK
  BY DEF Init, TypeOK
<1>2. SidsAreOfThisConnection
  BY DEF Init, SidsAreOfThisConnection
<1>3. FlagsInv /\ BeliefInv
  BY DEF Init, FlagsInv, BeliefInv
<1> QED
  BY <1>1, <1>2, <1>3 DEF StreamInv

\* The inductive invariant holds throughout.
LEMMA StreamInvariant == Spec => []StreamInv
<1>1. StreamInv /\ [Next]_vars => StreamInv'
  BY TypeStep, SidsStep, FlagsStep, BeliefStep DEF StreamInv
<1> QED
  BY StreamInit, <1>1, PTL DEF Spec

\* An update never names a subscription of an earlier connection, however many
\* connections there are.
THEOREM SidsTheorem == Spec => []SidsAreOfThisConnection
BY StreamInvariant, PTL DEF StreamInv

\* No channel is subscribed twice on one connection, whenever the watchlist
\* arrives and whatever the mode.
THEOREM SubscribedOnceTheorem == Spec => []SubscribedOnce
<1>1. StreamInv => SubscribedOnce
  BY DEF StreamInv, FlagsInv, SubscribedOnce
<1> QED
  BY StreamInvariant, <1>1, PTL

\* The exchange streams exactly the watchlist, over any sequence of changes and
\* connections, as long as no update found a channel without its sid.
THEOREM ServedWhenAddressedTheorem == Spec => []ServedWhenAddressed
<1>1. StreamInv => ServedWhenAddressed
  BY DEF StreamInv, FlagsInv, BeliefInv, ServedWhenAddressed
<1> QED
  BY StreamInvariant, <1>1, PTL
--------------------------------------------------------------------------------
(* Discovery. The bounds of a behaviour: those that are spent, and those that *)
(* are kept.                                                                  *)

Spent == {"faults", "omits", "restarts"}
Kept == {"allowed", "omissions", "reboots", "parts", "held", "mode", "live"}
WatchBounded ==
  /\ now \in Nat
  /\ Spent \cup Kept \subseteq DOMAIN budget
  /\ budget.faults \in Nat /\ budget.allowed \in Nat /\ budget.faults <= budget.allowed
  /\ budget.omits \in Nat /\ budget.omissions \in Nat /\ budget.omits <= budget.omissions
  /\ budget.restarts \in Nat /\ budget.reboots \in Nat /\ budget.restarts <= budget.reboots
  /\ budget.held \subseteq Markets
  /\ budget.mode = "live" => budget.live \subseteq Markets /\ 2 * (Cardinality(budget.live) - 1) <= MaxObjects

(* The catalog's types. *)
ExchangeOK == exchange \in [Markets -> [status : {"unlisted", "active", "finalized"}, closes : Int, settled : Int]]
RowsOK == DOMAIN catalog = Markets
ScanOK ==
  /\ scanned_at \in [Series -> Int]
  /\ DOMAIN series_cache = {"read", "fetched", "full"} /\ series_cache.read \in [Series -> Int] /\ series_cache.fetched \in Int /\ series_cache.full \in Int
  /\ {"phase", "started", "full", "list", "batch", "answers"} = DOMAIN scan
  /\ scan.phase \in {"idle", "series", "fees", "markets"} /\ scan.started \in Int /\ scan.full \in BOOLEAN /\ scan.batch \subseteq Series
  /\ scan.phase = "fees" => scan.list \in [Series -> Int]
  /\ scan.phase = "markets" => DOMAIN scan.answers = scan.batch /\ \A s \in scan.batch : DOMAIN scan.answers[s] = {"done", "failed", "rows"}
ListOK ==
  /\ DOMAIN discovery = {"phase", "started", "since", "asked", "markets", "fetched", "unconfirmed"}
  /\ discovery.phase \in {"idle", "confirm"} /\ discovery.started \in Int /\ discovery.since \in Int /\ discovery.fetched \in Int
  /\ discovery.asked \subseteq Markets /\ discovery.markets \subseteq Markets /\ discovery.unconfirmed \subseteq Markets

(* A market that is not listed yet closes when its row says, and nobody has   *)
(* told of it.                                                                *)
UnlistedOK ==
  \A k \in Markets : exchange[k].status = "unlisted" =>
    /\ catalog[k].status = "none" \/ catalog[k].closes = exchange[k].closes
    /\ \A m \in messages : m.market # k
    /\ scan.phase = "markets" => \A s \in scan.batch : \A r \in scan.answers[s].rows : r.market # k
    /\ discovery.phase = "confirm" /\ k \in discovery.asked => exchange[k].closes > discovery.started

(* What discovery shows was traded when it was confirmed, and was confirmed   *)
(* one refresh ago at most.                                                   *)
ShownOK ==
  /\ discovery.since <= now /\ discovery.fetched <= now /\ Never <= discovery.fetched
  /\ discovery.phase = "confirm" => discovery.started <= now
  /\ \A k \in discovery.markets \ discovery.unconfirmed :
       /\ discovery.since <= discovery.fetched /\ discovery.since <= exchange[k].closes
       /\ exchange[k].status = "finalized" => discovery.fetched <= exchange[k].settled
RefreshedOK ==
  /\ NoFailureYet => discovery.unconfirmed = {}
  /\ NoFailureYet /\ discovery.markets # {} =>
       /\ "discovery" \in budget.parts
       /\ discovery.phase = "idle" => now <= discovery.fetched + DiscoveryRefresh + 1
       /\ discovery.phase = "confirm" => discovery.started <= discovery.fetched + DiscoveryRefresh + 1 /\ now <= discovery.started + AnswerTime

(* A scan in progress was begun AnswerTime ago at most, with the pinned series*)
(* that needed it.                                                            *)
ScanPace ==
  scan.phase # "idle" => "scan" \in budget.parts /\ scan.started <= now /\ now <= scan.started + AnswerTime
PinsOK ==
  scan.phase = "markets" =>
    /\ \A s \in (Watchlist \cap cached_series) \ scan.batch : scan.started - scanned_at[s] <= PinStale
    /\ NoFailureYet => \A s \in scan.batch : ~scan.answers[s].failed

(* The volumes. A list that is merged was read during the scan; until then a  *)
(* full one is noted and not merged. A refresh that is not full began while   *)
(* the last full one was recent; a scan without a refresh while the cache was.*)
Resyncing == scan.phase \in {"series", "fees"} /\ scan.full
VolumeDue == FullResync + SeriesTTL + AnswerTime
VolumeOverdue == VolumeDue + ScanInterval + 1 + AnswerTime + Restarted(budget.reboots - budget.restarts)
ListsOK ==
  /\ series_cache.full <= now /\ \A s \in cached_series : 0 <= series_cache.read[s]
  /\ scan.phase = "fees" =>
       /\ \A s \in Series : scan.list[s] # Absent => scan.started <= scan.list[s] /\ series_cache.full <= scan.list[s] /\ 0 <= scan.list[s]
       /\ scan.full => \A s \in Series : scan.list[s] # Absent
VolumesOK ==
  NoFailureYet /\ "scan" \in budget.parts =>
    \A s \in cached_series :
      LET read == series_cache.read[s]
      IN  /\ ~(scan.phase = "fees" /\ scan.full) => series_cache.full <= read
          /\ series_cache.fetched <= read + FullResync + AnswerTime
          /\ scan.phase = "idle" => now <= read + VolumeOverdue
          /\ scan.phase \in {"series", "fees"} /\ ~scan.full => scan.started <= read + FullResync
          /\ scan.phase \in {"idle", "markets"} => scan.started <= read + VolumeDue
          /\ Resyncing => scan.started <= read + VolumeOverdue

CatalogInv ==
  ExchangeOK /\ RowsOK /\ ScanOK /\ ListOK /\ UnlistedOK /\ ShownOK /\ RefreshedOK /\ ScanPace /\ PinsOK /\ ListsOK /\ VolumesOK

(* The tick: its types and its pace.                                          *)
TickOK ==
  /\ DOMAIN tick = {"phase", "started", "ended", "rows", "shown", "ask", "snapshot", "fills"}
  /\ tick.phase \in {"idle", "hydrate", "rows", "gather", "later"} /\ tick.started \in Int /\ tick.ended \in Int
  /\ tick.rows \in [Markets -> Int] /\ tick.shown \subseteq Markets /\ tick.ask \subseteq Markets
  /\ tick.snapshot \in {"none", "cached", "asked", "read"} /\ (tick.phase = "later" => tick.snapshot # "asked") /\ (tick.phase = "idle" => tick.snapshot = "none")
PricedOK ==
  /\ objects \in [Markets -> [price : Int, at : Int]]
  /\ DOMAIN latest = {"price", "stamp", "put_back"}
  /\ latest.price \in [Markets -> Int] /\ latest.stamp \in [Markets -> Int] /\ latest.put_back \in [Markets -> Nat]
TickPace ==
  /\ tick.ended <= now /\ account.up <= now
  /\ tick.phase # "idle" => "prices" \in budget.parts /\ tick.snapshot # "none" /\ 0 <= tick.started /\ account.up <= tick.started /\ tick.started <= now /\ now <= tick.started + AnswerTime
  /\ tick.phase = "idle" /\ "prices" \in budget.parts => now <= tick.ended + TickEvery \/ now = account.up

(* The account. A fill the cached snapshot lacks happened after it was asked  *)
(* for; one that is not shown cannot have waited longer than a refresh before *)
(* the tick that will show it.                                                *)
Before == {"hydrate", "rows", "gather"}
AccountOK ==
  /\ DOMAIN account = {"real", "sent", "cache", "fetched", "asked", "shown", "shared", "up"}
  /\ account.sent \subseteq account.real /\ account.cache \subseteq account.real /\ tick.fills \subseteq account.real
  /\ account.fetched \in Int /\ account.asked \in Int /\ account.shared \in BOOLEAN /\ account.up \in Nat
  /\ account.fetched <= now /\ account.asked <= now
  /\ \A f \in account.real : f.at \in Nat /\ f.at <= now
Hidden(f) == f \notin account.shown
Since(f) == IF f.at < account.up THEN account.up ELSE f.at
SnapshotOK ==
  /\ \A f \in account.real \ account.cache : account.fetched <= f.at
  /\ tick.snapshot = "asked" => account.asked = tick.started
  /\ tick.snapshot = "cached" => tick.started < account.fetched + SnapshotRefresh
  /\ tick.phase # "later" /\ tick.snapshot = "read" =>
       ~account.shared /\ tick.fills = account.cache /\ \A f \in account.real \ tick.fills : tick.started <= f.at
FillsOK ==
  NoFailureYet =>
    /\ tick.phase \in {"idle", "later"} \/ tick.snapshot = "cached" => account.cache \subseteq account.shown
    /\ \A f \in account.real : Hidden(f) =>
         /\ tick.phase = "idle" => tick.ended <= Since(f) + SnapshotRefresh + AnswerTime
         /\ tick.phase \in Before => tick.started <= Since(f) + SnapshotRefresh + TickTime
         /\ tick.phase = "later" => tick.started <= Since(f) + SnapshotRefresh

(* The rows' cache: what is in it was read before the tick that looks up.     *)
ObjectsOK ==
  /\ \A k \in Markets : objects[k] # NoObject => objects[k].price = objects[k].at /\ objects[k].at <= now
  /\ \A k \in Markets : objects[k] # NoObject =>
       /\ tick.phase = "idle" => objects[k].at <= tick.ended
       /\ tick.phase = "hydrate" => objects[k].at < tick.started
  /\ tick.phase = "hydrate" => budget.mode = "live" /\ tick.ask \subseteq budget.live

(* The prices of the positions outside the pinned series. Slack is the tick a *)
(* market waits whose row was evicted while it was looked up.                 *)
Watched == { k \in budget.held : SeriesOf[k] \notin Watchlist }
Slack(k) == IF objects[k] = NoObject THEN TickTime ELSE 0
Lag(n) == RowAge + AnswerTime + Refreshes(n)
Stamped(k) ==
  latest.price[k] # Missing =>
    /\ "prices" \in budget.parts /\ latest.price[k] <= now /\ account.up <= latest.stamp[k] /\ latest.stamp[k] <= now
    /\ tick.phase # "later" => latest.stamp[k] - latest.price[k] <= Lag(latest.put_back[k])
    /\ tick.phase = "idle" => tick.ended <= latest.stamp[k] + AnswerTime + PinnedRefresh + Slack(k)
    /\ tick.phase = "hydrate" => tick.started <= latest.stamp[k] + TickTime + PinnedRefresh + Slack(k)
    /\ tick.phase \in {"rows", "gather"} =>
         /\ tick.started <= latest.stamp[k] + 2 * TickTime + PinnedRefresh
         /\ k \in tick.shown /\ tick.rows[k] = Missing => tick.started <= latest.stamp[k] + TickTime + PinnedRefresh
    /\ tick.phase = "later" => tick.started + AnswerTime - latest.price[k] <= RowAge + TickTime + AnswerTime + Refreshes(latest.put_back[k] + 1)
RowTaken(k) ==
  tick.rows[k] # Missing =>
    /\ tick.rows[k] <= now
    /\ tick.phase \in Before => tick.started - tick.rows[k] <= RowAge
    /\ tick.phase = "later" =>
         /\ account.up <= latest.stamp[k] /\ latest.stamp[k] <= now
         /\ tick.started <= latest.stamp[k] + PinnedRefresh + Slack(k)
         /\ tick.started + AnswerTime - tick.rows[k] <= Lag(latest.put_back[k] + 1)
         /\ \/ latest.stamp[k] - tick.rows[k] <= Lag(latest.put_back[k])
            \/ tick.rows[k] < latest.price[k] /\ latest.stamp[k] - tick.rows[k] <= Lag(latest.put_back[k] + 1)
NotShown(k) ==
  /\ tick.phase = "hydrate" => tick.rows[k] = Missing /\ (k \in tick.shown => k \in tick.ask)
  /\ tick.phase \in Before /\ k \notin tick.shown => tick.rows[k] = Missing
  /\ tick.phase \in {"rows", "gather"} /\ k \in tick.shown /\ tick.rows[k] = Missing => objects[k] = NoObject
WatchedOK == NoFailureYet => \A k \in Watched : Stamped(k) /\ RowTaken(k) /\ NotShown(k)

PricesInv == TickOK /\ PricedOK /\ TickPace /\ AccountOK /\ SnapshotOK /\ FillsOK /\ ObjectsOK /\ WatchedOK

(* The milestones. A scan asks from the watermark; what is due at the next one*)
(* is known, or in the answer that has been read.                             *)
WorldOK ==
  /\ DOMAIN world = Events
  /\ \A e \in Events : "updated" \in DOMAIN world[e] /\ world[e].updated \in Int /\ world[e].updated <= now
WatermarkOK ==
  /\ milestones.watermark \in Int /\ milestones.watermark <= now
  /\ DOMAIN milestones = {"known", "watermark", "scan"} /\ DOMAIN milestones.scan = {"phase", "started", "since", "answer"}
  /\ milestones.scan.phase \in {"idle", "asked", "read"} /\ milestones.scan.started \in Int
  /\ mscan.phase # "idle" => mscan.started <= now /\ mscan.since = milestones.watermark
  /\ mscan.phase = "read" =>
       \A e \in Events : world[e].updated >= 0 /\ world[e].updated < mscan.started - Overlap => e \in milestones.known \cup mscan.answer
MilestonesInv == WorldOK /\ WatermarkOK /\ MilestonesAreFound

DiscoveryInv == WatchBounded /\ CatalogInv /\ PricesInv /\ MilestonesInv

(* What a step may do to the bounds: spend some, and keep the others.         *)
BoundsMove ==
  /\ Spent \cup Kept \subseteq DOMAIN budget'
  /\ \A f \in Kept : budget'[f] = budget[f]
  /\ \A f \in Spent : budget'[f] \in Nat /\ budget'[f] <= budget[f]

(* A fault, an omission or a restart spends one of its bound and keeps the others.*)
LEMMA SpendingMoves == ASSUME WatchBounded, NEW b, b \notin Kept, Spends(b) PROVE BoundsMove
<1> DEFINE v == budget[b] - 1
<1>1. budget' = [budget EXCEPT ![b] = v] /\ (budget[b] \in Nat => v \in Nat /\ v <= budget[b])
  BY DEF Spends, Left
<1> HIDE DEF v
<1>2. \A f \in Spent : budget[f] \in Nat /\ f \in DOMAIN budget
  BY DEF WatchBounded, Spent
<1>3. ASSUME NEW f \in Spent PROVE budget'[f] \in Nat /\ budget'[f] <= budget[f]
  <2>1. CASE f = b
    BY <1>1, <1>2, <2>1
  <2>2. CASE f # b
    BY <1>1, <1>2, <2>2
  <2> QED BY <2>1, <2>2
<1>4. ASSUME NEW f \in Kept PROVE budget'[f] = budget[f]
  <2>1. f # b /\ f \in DOMAIN budget
    BY DEF WatchBounded
  <2> QED BY <1>1, <2>1
<1>5. DOMAIN budget' = DOMAIN budget
  BY <1>1
<1> QED BY <1>3, <1>4, <1>5 DEF BoundsMove, WatchBounded

(* A step that spends nothing leaves the bounds as they are.                  *)
LEMMA NothingMoves == ASSUME WatchBounded, budget' = budget PROVE BoundsMove
BY DEF BoundsMove, WatchBounded, Spent

(* A fault, or an answer left out, is a failure.                              *)
LEMMA FaultFails == ASSUME WatchBounded, Spends("faults") \/ Spends("omits") PROVE ~NoFailureYet' /\ BoundsMove
<1>1. BoundsMove
  BY SpendingMoves DEF Kept
<1>2. "faults" \in DOMAIN budget /\ "omits" \in DOMAIN budget
  BY DEF WatchBounded, Spent
<1>3. CASE Spends("faults")
  <2>1. budget'.faults = budget.faults - 1 /\ budget'.allowed = budget.allowed
    BY <1>1, <1>2, <1>3 DEF Spends, BoundsMove, Kept
  <2> QED BY <1>1, <2>1 DEF WatchBounded, NoFailureYet
<1>4. CASE Spends("omits")
  <2>1. budget'.omits = budget.omits - 1 /\ budget'.omissions = budget.omissions
    BY <1>1, <1>2, <1>4 DEF Spends, BoundsMove, Kept
  <2> QED BY <1>1, <2>1 DEF WatchBounded, NoFailureYet
<1> QED BY <1>3, <1>4

(* A failure is not undone, and the bounds stay bounds.                       *)
LEMMA FailureStays ==
  ASSUME WatchBounded, BoundsMove, now' \in Nat
  PROVE  /\ WatchBounded' /\ (NoFailureYet' => NoFailureYet)
         /\ budget'.parts = budget.parts /\ budget'.held = budget.held /\ budget'.mode = budget.mode /\ budget'.live = budget.live
         /\ budget'.reboots = budget.reboots /\ budget'.restarts <= budget.restarts /\ budget'.restarts \in Nat
BY DEF WatchBounded, BoundsMove, NoFailureYet, Spent, Kept

(* Every step keeps to the bounds, and only the clock's takes time.           *)
LEMMA CatalogMoves == ASSUME WatchBounded PROVE catalog_scan \/ exchange_moves \/ refresh_discovery => BoundsMove /\ now' = now
<1> USE SpendingMoves, NothingMoves DEF Kept
<1>1. ASSUME NEW k, NEW c PROVE list_market(k) \/ settle(k) \/ revise_close(k, c) => BoundsMove
  BY DEF list_market, settle, revise_close
<1>2. ASSUME NEW msg PROVE process_stream_lifecycle(msg) \/ lose_message(msg) => BoundsMove
  BY DEF process_stream_lifecycle, lose_message
<1>3. maybe_scan_catalog_batch \/ get_series_list \/ get_series_fee_changes \/ series_request_fails \/ finish_scan => BoundsMove
  BY DEF maybe_scan_catalog_batch, get_series_list, get_series_fee_changes, series_request_fails, finish_scan
<1>4. ASSUME NEW s, NEW failed \in BOOLEAN PROVE get_markets(s, failed) => BoundsMove
  BY DEF get_markets
<1>5. maybe_refresh_discovery_cache \/ confirm_discovery \/ confirmation_fails => BoundsMove
  BY DEF maybe_refresh_discovery_cache, confirm_discovery, confirmation_fails
<1> QED BY <1>1, <1>2, <1>3, <1>4, <1>5 DEF catalog_scan, exchange_moves, refresh_discovery

(* A step of the trading tick or of the account keeps the clock and the bounds.*)
LEMMA PricesMoves == ASSUME WatchBounded PROVE trading_tick \/ account_fills => BoundsMove /\ now' = now
<1> USE SpendingMoves, NothingMoves DEF Kept
<1>1. start_tick \/ fetch_positions \/ read_snapshot \/ gathered \/ rebuild \/ tick_fails => BoundsMove
  BY DEF start_tick, fetch_positions, read_snapshot, gathered, rebuild, tick_fails
<1>2. ASSUME NEW failed \in BOOLEAN PROVE hydrate(failed) => BoundsMove
  BY DEF hydrate
<1>3. ASSUME NEW k PROVE process_stream_ticker(k) \/ fill_happens(k) \/ process_stream_fill(k) => BoundsMove
  BY DEF process_stream_ticker, fill_happens, process_stream_fill
<1> QED BY <1>1, <1>2, <1>3 DEF trading_tick, account_fills

(* A step of the event scans keeps the clock and the bounds.                  *)
LEMMA EventsMoves == ASSUME WatchBounded PROVE event_scans \/ event_polls \/ event_winners \/ event_details => BoundsMove /\ now' = now
<1> USE SpendingMoves, NothingMoves DEF Kept
<1>1. ASSUME NEW failed \in BOOLEAN PROVE maybe_scan_milestone_batch \/ milestones_read \/ scan_milestones_ends(failed) => BoundsMove
  BY DEF maybe_scan_milestone_batch, milestones_read, scan_milestones_ends
<1>2. ASSUME NEW e, NEW to PROVE milestone_updated(e) \/ game_changes(e, to) => BoundsMove
  BY DEF milestone_updated, game_changes
<1>3. ASSUME NEW missing PROVE fetch_live_status \/ live_status_fails \/ live_status_answered(missing) => BoundsMove
  BY DEF fetch_live_status, live_status_fails, live_status_answered
<1>4. ASSUME NEW marked \in BOOLEAN PROVE propagate_milestone_winners \/ winners_answered \/ winners_fail(marked) => BoundsMove
  BY DEF propagate_milestone_winners, winners_answered, winners_fail
<1>5. ASSUME NEW got PROVE fetch_event_titles \/ event_titles_answered(got) \/ fetch_event_live_data => BoundsMove
  BY DEF fetch_event_titles, event_titles_answered, fetch_event_live_data
<1>6. ASSUME NEW got PROVE event_live_data_answered(got) \/ maybe_scan_mve_batch \/ scan_mve_batch_ends(got) => BoundsMove
  BY DEF event_live_data_answered, maybe_scan_mve_batch, scan_mve_batch_ends
<1> QED BY <1>1, <1>2, <1>3, <1>4, <1>5, <1>6 DEF event_scans, event_polls, event_winners, event_details

(* Every step keeps the bounds; only the clock moves the time.                *)
LEMMA DiscoveryMoves ==
  ASSUME WatchBounded, [DiscoveryNext]_discoveryVars
  PROVE  BoundsMove /\ now' \in Nat /\ now' >= now
<1>1. now \in Nat
  BY DEF WatchBounded
<1>2. CASE tick_clock
  <2>1. now' = now + 1 /\ budget' = budget
    BY <1>2 DEF tick_clock
  <2> QED BY <1>1, <2>1, NothingMoves
<1>3. CASE restart
  BY <1>1, <1>3, SpendingMoves DEF restart, Kept
<1>4. CASE UNCHANGED discoveryVars
  BY <1>1, <1>4, NothingMoves DEF discoveryVars
<1> QED BY <1>1, <1>2, <1>3, <1>4, CatalogMoves, PricesMoves, EventsMoves DEF DiscoveryNext

--------------------------------------------------------------------------------
(* The milestones: what the events' steps leave alone.                        *)

(* Steps of the catalog, of the tick and of the account leave the events alone.*)
LEMMA EventsElsewhere ==
  ASSUME NEW e, NEW to, NEW got, NEW failed \in BOOLEAN
  PROVE  /\ fetch_live_status \/ live_status_fails \/ live_status_answered(got) => UNCHANGED << world, milestones >>
         /\ propagate_milestone_winners \/ winners_answered \/ winners_fail(failed) => UNCHANGED << world, milestones >>
         /\ fetch_event_titles \/ event_titles_answered(got) \/ fetch_event_live_data => UNCHANGED << world, milestones >>
         /\ event_live_data_answered(got) \/ maybe_scan_mve_batch \/ scan_mve_batch_ends(got) => UNCHANGED << world, milestones >>
         /\ game_changes(e, to) => UNCHANGED milestones
<1>1. fetch_live_status \/ live_status_fails \/ live_status_answered(got) => UNCHANGED << world, milestones >>
  BY DEF fetch_live_status, live_status_fails, live_status_answered
<1>2. propagate_milestone_winners \/ winners_answered \/ winners_fail(failed) => UNCHANGED << world, milestones >>
  BY DEF propagate_milestone_winners, winners_answered, winners_fail
<1>3. fetch_event_titles \/ event_titles_answered(got) \/ fetch_event_live_data => UNCHANGED << world, milestones >>
  BY DEF fetch_event_titles, event_titles_answered, fetch_event_live_data
<1>4. event_live_data_answered(got) \/ maybe_scan_mve_batch \/ scan_mve_batch_ends(got) => UNCHANGED << world, milestones >>
  BY DEF event_live_data_answered, maybe_scan_mve_batch, scan_mve_batch_ends
<1>5. game_changes(e, to) => UNCHANGED milestones
  BY DEF game_changes
<1> QED BY <1>1, <1>2, <1>3, <1>4, <1>5

(* Nothing is known, and nothing was updated, to begin with.                  *)
LEMMA MilestonesStart == DiscoveryInit => MilestonesInv
<1> SUFFICES ASSUME DiscoveryInit PROVE MilestonesInv
  OBVIOUS
<1>1. now = 0 /\ DOMAIN world = Events /\ \A e \in Events : DOMAIN world[e] = {"updated", "status", "winner", "closes", "starts"} /\ world[e].updated = LongAgo
  <2>1. PICK w : world = [e \in Events |-> [updated |-> LongAgo, status |-> "none", winner |-> w, closes |-> budget.event_closes[e], starts |-> budget.event_starts[e]]]
    BY Zenon DEF DiscoveryInit, EventInit
  <2> QED BY <2>1 DEF DiscoveryInit
<1>2. WorldOK
  BY <1>1 DEF WorldOK, LongAgo
<1>5. milestones = [known |-> {}, watermark |-> LongAgo, scan |-> IdleMilestones]
  BY Zenon DEF DiscoveryInit, EventInit
<1>3. WatermarkOK
  BY <1>1, <1>5 DEF WatermarkOK, LongAgo, mscan, IdleMilestones
<1>4. MilestonesAreFound
  BY <1>1 DEF MilestonesAreFound, LongAgo
<1> QED BY <1>2, <1>3, <1>4 DEF MilestonesInv

(* A milestone that changes is updated now, after the watermark and the start *)
(* of the scan.                                                               *)
LEMMA MilestoneUpdated ==
  ASSUME MilestonesInv, now \in Nat, NEW e \in Events, milestone_updated(e), now' = now
  PROVE  MilestonesInv'
<1> USE EventAssumption
<1>1. world' = [world EXCEPT ![e].updated = now] /\ milestones' = milestones
  BY DEF milestone_updated
<1>2. world'[e].updated = now /\ \A f \in Events : f # e => world'[f] = world[f]
  BY <1>1 DEF MilestonesInv, WorldOK
<1>3. WorldOK'
  BY <1>1, <1>2 DEF MilestonesInv, WorldOK
<1>4. WatermarkOK'
  BY <1>1, <1>2 DEF MilestonesInv, WorldOK, WatermarkOK, mscan
<1>5. MilestonesAreFound'
  BY <1>1, <1>2 DEF MilestonesInv, WorldOK, WatermarkOK, MilestonesAreFound
<1> QED BY <1>3, <1>4, <1>5 DEF MilestonesInv

(* The exchange may create, update or end an event, now.                      *)
LEMMA GameChanges ==
  ASSUME MilestonesInv, NEW e \in Events, NEW to \in {"live", "finished"}, game_changes(e, to), now' = now
  PROVE  MilestonesInv'
<1>1. PICK w : world' = [world EXCEPT ![e].status = to, ![e].winner = w]
  BY Zenon DEF game_changes
<1>2. milestones' = milestones
  BY Zenon DEF game_changes
<1>3. DOMAIN world' = Events /\ \A f \in Events : DOMAIN world'[f] = DOMAIN world[f] /\ world'[f].updated = world[f].updated
  BY <1>1 DEF MilestonesInv, WorldOK
<1> QED BY <1>2, <1>3 DEF MilestonesInv, WorldOK, WatermarkOK, MilestonesAreFound, mscan

(* A scan is asked from the watermark.                                        *)
LEMMA MilestoneScanBegins ==
  ASSUME MilestonesInv, now \in Nat, maybe_scan_milestone_batch, now' = now
  PROVE  MilestonesInv'
<1>1. world' = world /\ milestones' = [milestones EXCEPT !.scan = [phase |-> "asked", started |-> now, since |-> milestones.watermark, answer |-> {}]]
  BY DEF maybe_scan_milestone_batch
<1>2. WatermarkOK'
  BY <1>1 DEF MilestonesInv, WatermarkOK, mscan
<1>3. milestones'.watermark = milestones.watermark /\ milestones'.known = milestones.known
  BY <1>1 DEF MilestonesInv, WatermarkOK
<1> QED BY <1>1, <1>2, <1>3 DEF MilestonesInv, WorldOK, MilestonesAreFound

(* What is due at the start of the scan less the overlap is old enough to be  *)
(* visible when it is read, unless the watermark had passed it.               *)
LEMMA MilestonesRead ==
  ASSUME MilestonesInv, now \in Nat, milestones_read, now' = now
  PROVE  MilestonesInv'
<1> USE EventAssumption
<1>1. PICK late \in SUBSET { e \in Events : world[e].updated > now - Overlap } :
        milestones' = [milestones EXCEPT !.scan.phase = "read", !.scan.answer = { e \in Events : Visible(e) } \ late]
  BY DEF milestones_read
<1>2. world' = world /\ mscan.phase = "asked"
  BY DEF milestones_read
<1>3. /\ milestones'.watermark = milestones.watermark /\ milestones'.known = milestones.known /\ DOMAIN milestones' = DOMAIN milestones
      /\ milestones'.scan = [mscan EXCEPT !.phase = "read", !.answer = { e \in Events : Visible(e) } \ late]
  BY <1>1 DEF MilestonesInv, WatermarkOK, mscan
<1>4. /\ mscan'.phase = "read" /\ mscan'.started = mscan.started /\ mscan'.since = mscan.since /\ DOMAIN mscan' = DOMAIN mscan
      /\ mscan'.answer = { e \in Events : Visible(e) } \ late
  BY <1>3 DEF mscan, MilestonesInv, WatermarkOK
<1>5. ASSUME NEW e \in Events, world[e].updated >= 0, world[e].updated < mscan.started - Overlap
      PROVE  e \in milestones.known \cup mscan'.answer
  <2>1. mscan.started <= now /\ mscan.started \in Int /\ mscan.since = milestones.watermark /\ world[e].updated \in Int
    BY <1>2 DEF MilestonesInv, WatermarkOK, mscan, WorldOK
  <2>2. e \notin late
    BY <1>5, <2>1
  <2>3. CASE world[e].updated >= mscan.since
    BY <1>4, <1>5, <2>2, <2>3 DEF Visible
  <2>4. CASE world[e].updated < milestones.watermark
    BY <1>5, <2>4 DEF MilestonesInv, MilestonesAreFound
  <2> QED BY <2>1, <2>3, <2>4 DEF MilestonesInv, WatermarkOK
<1>6. WatermarkOK'
  BY <1>2, <1>3, <1>4, <1>5 DEF MilestonesInv, WatermarkOK, mscan
<1> QED BY <1>2, <1>3, <1>6 DEF MilestonesInv, WorldOK, MilestonesAreFound

(* The watermark moves to what the answer covers, or stays.                   *)
LEMMA MilestoneScanEnds ==
  ASSUME MilestonesInv, now \in Nat, NEW failed \in BOOLEAN, scan_milestones_ends(failed), now' = now
  PROVE  MilestonesInv'
<1> USE EventAssumption
<1>1. world' = world /\ mscan.phase = "read"
      /\ milestones' = [milestones EXCEPT !.scan.phase = "idle", !.scan.answer = {},
                          !.known = IF failed THEN @ ELSE @ \cup mscan.answer,
                          !.watermark = IF failed THEN @ ELSE advanced(@)]
  BY DEF scan_milestones_ends
<1>2. /\ milestones'.known = (IF failed THEN milestones.known ELSE milestones.known \cup mscan.answer)
      /\ milestones'.watermark = (IF failed THEN milestones.watermark ELSE advanced(milestones.watermark))
      /\ DOMAIN milestones' = DOMAIN milestones /\ DOMAIN mscan' = DOMAIN mscan
      /\ mscan'.phase = "idle" /\ mscan'.started = mscan.started
  BY <1>1 DEF MilestonesInv, WatermarkOK, mscan
<1>3. /\ milestones.watermark \in Int /\ milestones.watermark <= now /\ mscan.started \in Int /\ mscan.started <= now
      /\ \A e \in Events : world[e].updated \in Int
  BY <1>1 DEF MilestonesInv, WatermarkOK, mscan, WorldOK
<1>4. WatermarkOK'
  BY <1>2, <1>3 DEF MilestonesInv, WatermarkOK, mscan, advanced, later
<1>5. MilestonesAreFound'
  BY <1>1, <1>2, <1>3 DEF MilestonesInv, MilestonesAreFound, WatermarkOK, advanced, later
<1> QED BY <1>1, <1>4, <1>5 DEF MilestonesInv, WorldOK

(* Every step keeps the milestones found.                                     *)
LEMMA MilestonesStep ==
  ASSUME WatchBounded, MilestonesInv, [DiscoveryNext]_discoveryVars
  PROVE  MilestonesInv'
<1>1. now \in Nat /\ now' \in Nat /\ now' >= now
  BY DiscoveryMoves DEF WatchBounded
<1>2. CASE UNCHANGED << world, milestones >>
  BY <1>1, <1>2 DEF MilestonesInv, WorldOK, WatermarkOK, MilestonesAreFound, mscan
<1>3. CASE event_scans
  <2>1. now' = now
    BY <1>3 DEF event_scans
  <2> QED BY <1>1, <1>3, <2>1, MilestoneScanBegins, MilestonesRead, MilestoneScanEnds, MilestoneUpdated DEF event_scans
<1>4. CASE event_polls
  <2>1. now' = now
    BY <1>4 DEF event_polls
  <2> QED BY <1>2, <1>4, <2>1, GameChanges, EventsElsewhere DEF event_polls
<1>5. CASE event_winners
  <2>1. now' = now
    BY <1>5 DEF event_winners
  <2> QED BY <1>2, <1>5, <2>1, GameChanges, EventsElsewhere DEF event_winners
<1>6. CASE event_details
  BY <1>2, <1>6, EventsElsewhere DEF event_details
<1>7. CASE restart
  <2>1. world' = world /\ milestones' = [known |-> {}, watermark |-> LongAgo, scan |-> IdleMilestones] /\ now' = now
    BY <1>7 DEF restart, restart_events
  <2> QED BY <1>1, <2>1 DEF MilestonesInv, WorldOK, WatermarkOK, MilestonesAreFound, mscan, LongAgo, IdleMilestones
<1>8. CASE catalog_scan \/ exchange_moves \/ refresh_discovery \/ trading_tick \/ account_fills \/ tick_clock \/ UNCHANGED discoveryVars
  BY <1>2, <1>8 DEF catalog_scan, exchange_moves, refresh_discovery, trading_tick, account_fills, tick_clock, discoveryVars, eventVars
<1> QED BY <1>3, <1>4, <1>5, <1>6, <1>7, <1>8 DEF DiscoveryNext

--------------------------------------------------------------------------------
(* The catalog. What a restart may cost grows with the restarts.              *)

(* The periods of the catalog are numbers.                                    *)
LEMMA CatalogNumbers ==
  /\ ScanInterval \in Nat /\ PinStale \in Nat /\ SeriesTTL \in Nat /\ FullResync \in Nat /\ DiscoveryRefresh \in Nat
  /\ AnswerTime \in Nat /\ AnswerTime > 0
BY CatalogAssumption

(* More restarts cost more time.                                              *)
LEMMA RestartedGrows == ASSUME NEW n \in Nat, NEW m \in Nat, n <= m PROVE Restarted(n) <= Restarted(m) /\ Restarted(n) \in Nat
<1>1. AnswerTime \in Nat
  BY CatalogNumbers
<1> DEFINE a == n * AnswerTime  b == (m - n) * AnswerTime
<1>2. m * AnswerTime = a + b /\ a \in Nat /\ b \in Nat
  BY <1>1
<1> HIDE DEF a, b
<1>3. Restarted(n) = a /\ Restarted(m) = a + b
  BY <1>2 DEF Restarted, a
<1> QED BY <1>2, <1>3

(* One more restart costs one more scan that was lost.                        *)
LEMMA RestartedOnce == ASSUME NEW n \in Nat PROVE Restarted(n + 1) = Restarted(n) + AnswerTime
BY CatalogAssumption DEF Restarted

(* The catalog is empty to begin with.                                        *)
LEMMA CatalogStarts == DiscoveryInit => CatalogInv
<1> SUFFICES ASSUME DiscoveryInit PROVE CatalogInv
  OBVIOUS
<1>0. budget \in Scenarios
  BY DEF DiscoveryInit
<1>1. /\ now = 0 /\ budget \in Scenarios
      /\ exchange = [k \in Markets |-> [status |-> IF k \in budget.listed THEN "active" ELSE "unlisted", closes |-> budget.closes[k], settled |-> 0]]
      /\ messages = {} /\ scanned_at = [s \in Series |-> Never] /\ scan = IdleScan /\ discovery = IdleDiscovery
      /\ catalog = [k \in Markets |-> IF k \in budget.known THEN [status |-> "active", closes |-> budget.closes[k], updated |-> Never] ELSE NoRow]
      /\ series_cache = [read |-> [s \in Series |-> IF s \in budget.cached THEN 0 ELSE Absent], fetched |-> 0, full |-> 0]
  BY DEF DiscoveryInit, CatalogInit
<1>2. ExchangeOK /\ RowsOK
  BY <1>0, <1>1, CatalogAssumption DEF ExchangeOK, RowsOK
<1>3. ScanOK
  BY <1>1 DEF ScanOK, IdleScan, Never, Absent
<1>4. ListOK /\ ShownOK /\ RefreshedOK
  BY <1>1 DEF ListOK, ShownOK, RefreshedOK, IdleDiscovery, Never
<1>5. UnlistedOK
  BY <1>1 DEF UnlistedOK, IdleScan, IdleDiscovery, NoRow
<1>6. ScanPace /\ PinsOK
  BY <1>1 DEF ScanPace, PinsOK, IdleScan
<1>7. ListsOK
  BY <1>1 DEF ListsOK, IdleScan, cached_series, Absent
<1>8. VolumesOK
  <2>1. ASSUME NEW s \in cached_series PROVE series_cache.read[s] = 0
    BY <1>1 DEF cached_series
  <2>2. budget.reboots - budget.restarts = 0
    BY <1>0, CatalogAssumption
  <2>3. Restarted(budget.reboots - budget.restarts) \in Nat
    BY <2>2, RestartedGrows
  <2>4. VolumeDue \in Nat /\ VolumeOverdue \in Nat
    BY <2>3, CatalogNumbers DEF VolumeDue, VolumeOverdue
  <2>5. scan.phase = "idle" /\ scan.started = -100 /\ series_cache.full = 0 /\ series_cache.fetched = 0
    BY <1>1 DEF IdleScan, Never
  <2>6. now = 0 /\ ~Resyncing
    BY <1>1, <2>5 DEF Resyncing
  <2>7. ASSUME NEW s \in cached_series
        PROVE  /\ series_cache.full <= series_cache.read[s] /\ now <= series_cache.read[s] + VolumeOverdue
               /\ series_cache.fetched <= series_cache.read[s] + FullResync + AnswerTime
               /\ scan.started <= series_cache.read[s] + VolumeDue
    <3> HIDE DEF cached_series
    <3> QED BY <2>1, <2>4, <2>5, <2>6, CatalogNumbers
  <2> QED BY <2>5, <2>6, <2>7 DEF VolumesOK
<1> QED BY <1>2, <1>3, <1>4, <1>5, <1>6, <1>7, <1>8 DEF CatalogInv

(* The exchange moves: a market is listed, settles, or closes earlier.        *)
LEMMA ExchangeMoves ==
  ASSUME CatalogInv, now \in Nat, NEW k \in Markets, NEW c, list_market(k) \/ settle(k) \/ revise_close(k, c)
  PROVE  /\ ExchangeOK' /\ UNCHANGED << catalog, scanned_at, series_cache, scan, discovery >>
         /\ \A l \in Markets : l # k => exchange'[l] = exchange[l]
         /\ exchange'[k].status # "unlisted"
         /\ exchange[k].closes = exchange'[k].closes \/ (exchange[k].status = "active" /\ exchange'[k].closes >= now)
         /\ exchange[k].status # "finalized" /\ (exchange'[k].status = "finalized" => exchange'[k].settled = now)
         /\ \A m \in messages' \ messages : m.market = k
<1>1. exchange[k] \in [status : {"unlisted", "active", "finalized"}, closes : Int, settled : Int] /\ exchange \in [Markets -> [status : {"unlisted", "active", "finalized"}, closes : Int, settled : Int]]
  BY DEF CatalogInv, ExchangeOK
<1>2. CASE list_market(k)
  <2>1. exchange' = [exchange EXCEPT ![k].status = "active"] /\ exchange[k].status = "unlisted" /\ messages' = messages
    BY <1>2 DEF list_market
  <2>2. UNCHANGED << catalog, scanned_at, series_cache, scan, discovery >>
    BY <1>2 DEF list_market
  <2>3. exchange'[k] = [exchange[k] EXCEPT !.status = "active"] /\ \A l \in Markets : l # k => exchange'[l] = exchange[l]
    BY <1>1, <2>1
  <2>4. exchange'[k] \in [status : {"unlisted", "active", "finalized"}, closes : Int, settled : Int] /\ exchange'[k].status = "active" /\ exchange'[k].closes = exchange[k].closes
    BY <1>1, <2>3
  <2>5. ExchangeOK'
    BY <1>1, <2>1, <2>4 DEF ExchangeOK
  <2> QED BY <2>1, <2>2, <2>3, <2>4, <2>5
<1>3. CASE settle(k)
  <2>1. exchange' = [exchange EXCEPT ![k] = [@ EXCEPT !.status = "finalized", !.settled = now]] /\ exchange[k].status = "active"
    BY <1>3, Zenon DEF settle
  <2>2. UNCHANGED << catalog, scanned_at, series_cache, scan, discovery >>
    BY <1>3, Zenon DEF settle
  <2>3. PICK v : messages' = messages \cup {[market |-> k, status |-> v, closes |-> 0]}
    BY <1>3, Zenon DEF settle
  <2>4. exchange'[k] = [exchange[k] EXCEPT !.status = "finalized", !.settled = now] /\ \A l \in Markets : l # k => exchange'[l] = exchange[l]
    BY <1>1, <2>1
  <2>5. /\ exchange'[k] \in [status : {"unlisted", "active", "finalized"}, closes : Int, settled : Int]
        /\ exchange'[k].status = "finalized" /\ exchange'[k].closes = exchange[k].closes /\ exchange'[k].settled = now
    <3> DEFINE r == [status |-> "finalized", closes |-> exchange[k].closes, settled |-> now]
    <3>1. exchange'[k] = r
      BY <1>1, <2>4
    <3>2. r \in [status : {"unlisted", "active", "finalized"}, closes : Int, settled : Int]
      BY <1>1
    <3> QED BY <3>1, <3>2
  <2>6. ExchangeOK'
    BY <1>1, <2>1, <2>5 DEF ExchangeOK
  <2>7. \A m \in messages' \ messages : m.market = k
    BY <2>3
  <2> QED BY <2>1, <2>2, <2>4, <2>5, <2>6, <2>7
<1>4. CASE revise_close(k, c)
  <2>1. exchange' = [exchange EXCEPT ![k].closes = c] /\ StatusOf(k) = "active" /\ c \in now .. exchange[k].closes - 1
    BY <1>4, Zenon DEF revise_close
  <2>2. UNCHANGED << catalog, scanned_at, series_cache, scan, discovery >>
    BY <1>4, Zenon DEF revise_close
  <2>3. PICK v : messages' = messages \cup {[market |-> k, status |-> v, closes |-> c]}
    BY <1>4, Zenon DEF revise_close
  <2>4. exchange[k].status = "active"
    BY <2>1 DEF StatusOf
  <2> QED BY <1>1, <2>1, <2>2, <2>3, <2>4 DEF ExchangeOK
<1> QED BY <1>2, <1>3, <1>4

(* The series of a batch are series of the list it is drawn from.             *)
LEMMA BatchesAreOfTheList == ASSUME NEW all \in SUBSET Series, NEW batch \in Batches(all) PROVE batch \subseteq Series
BY DEF Batches, next_series_to_scan, pinned_series_needing_scan

(* What the cache holds are series.                                           *)
LEMMA CachedAreSeries == cached_series \subseteq Series
BY DEF cached_series

(* The types and the markets not listed yet, over each step of the scan.      *)
Listing == ExchangeOK /\ RowsOK /\ ScanOK /\ ListOK /\ UnlistedOK

(* The exchange lists, trades and settles markets: the listing stays right.   *)
LEMMA ListingByExchange ==
  ASSUME CatalogInv, now \in Nat, NEW k \in Markets, NEW c, list_market(k) \/ settle(k) \/ revise_close(k, c)
  PROVE  Listing'
<1> USE ExchangeMoves
<1>1. RowsOK' /\ ScanOK' /\ ListOK'
  BY DEF CatalogInv, RowsOK, ScanOK, ListOK
<1>2. ASSUME NEW l \in Markets, exchange'[l].status = "unlisted"
      PROVE  /\ catalog[l].status = "none" \/ catalog[l].closes = exchange'[l].closes
             /\ \A m \in messages' : m.market # l
             /\ scan.phase = "markets" => \A s \in scan.batch : \A r \in scan.answers[s].rows : r.market # l
             /\ discovery.phase = "confirm" /\ l \in discovery.asked => exchange'[l].closes > discovery.started
  <2>1. l # k /\ exchange'[l] = exchange[l]
    BY <1>2
  <2> QED BY <1>2, <2>1 DEF CatalogInv, UnlistedOK
<1>3. UnlistedOK'
  BY <1>2 DEF UnlistedOK
<1> QED BY <1>1, <1>3 DEF Listing

(* So it does when a message of the stream is sent or handled.                *)
LEMMA ListingByMessages ==
  ASSUME CatalogInv, NEW msg \in messages, process_stream_lifecycle(msg) \/ lose_message(msg)
  PROVE  Listing'
<1>1. UNCHANGED << exchange, scanned_at, series_cache, scan, discovery >> /\ messages' = messages \ {msg}
  BY DEF process_stream_lifecycle, lose_message
<1>2. PICK v : catalog' = catalog \/ catalog' = [catalog EXCEPT ![msg.market] = v]
  BY Zenon DEF process_stream_lifecycle, lose_message
<1>3. ExchangeOK' /\ RowsOK' /\ ScanOK' /\ ListOK'
  BY <1>1, <1>2 DEF CatalogInv, ExchangeOK, RowsOK, ScanOK, ListOK
<1>4. ASSUME NEW k \in Markets, exchange[k].status = "unlisted" PROVE catalog'[k] = catalog[k]
  BY <1>2, <1>4 DEF CatalogInv, UnlistedOK, RowsOK
<1>5. UnlistedOK'
  BY <1>1, <1>4 DEF CatalogInv, UnlistedOK
<1> QED BY <1>3, <1>5 DEF Listing

(* When a scan begins, and whether its refresh is full.                       *)
LEMMA ListingByScanStart ==
  ASSUME CatalogInv, now \in Nat, maybe_scan_catalog_batch \/ get_series_fee_changes
  PROVE  Listing'
<1>1. UNCHANGED << exchange, messages, catalog, scanned_at, discovery >>
  BY DEF maybe_scan_catalog_batch, get_series_fee_changes
<1>2. ScanOK
  BY DEF CatalogInv
<1>3. ScanOK' /\ (scan'.phase = "markets" => \A s \in scan'.batch : scan'.answers[s].rows = {})
  <2>1. CASE maybe_scan_catalog_batch
    <3>1. series_cache' = series_cache
      BY <2>1 DEF maybe_scan_catalog_batch
    <3>2. CASE series_stale
      <4>1. PICK v \in BOOLEAN : scan' = [IdleScan EXCEPT !.phase = "series", !.started = now, !.full = v]
        <5>1. scan' = [IdleScan EXCEPT !.phase = "series", !.started = now, !.full = (cached_series = {} \/ full_due)]
          BY <2>1, <3>2 DEF maybe_scan_catalog_batch
        <5>2. (cached_series = {} \/ full_due) \in BOOLEAN
          OBVIOUS
        <5> QED BY <5>1, <5>2
      <4> QED BY <1>1, <1>2, <3>1, <4>1 DEF ScanOK, IdleScan, Never
    <3>3. CASE ~series_stale
      <4>1. PICK batch \in Batches(cached_series) :
              scan' = [IdleScan EXCEPT !.phase = "markets", !.started = now, !.batch = batch, !.answers = NoAnswers(batch)]
        BY <2>1, <3>3 DEF maybe_scan_catalog_batch
      <4>2. batch \subseteq Series
        BY BatchesAreOfTheList, CachedAreSeries
      <4> QED BY <1>1, <1>2, <3>1, <4>1, <4>2 DEF ScanOK, IdleScan, NoAnswers
    <3> QED BY <3>2, <3>3
  <2>2. CASE get_series_fee_changes
    <3> DEFINE read == merged(scan.list)
               all == { s \in Series : read[s] # Absent }
    <3>1. scan.phase = "fees" /\ series_cache' = [series_cache EXCEPT !.read = read, !.fetched = now]
      BY <2>2 DEF get_series_fee_changes
    <3>2. PICK batch \in Batches(all) : scan' = [scan EXCEPT !.phase = "markets", !.batch = batch, !.answers = NoAnswers(batch)]
      BY <2>2 DEF get_series_fee_changes
    <3>3. read \in [Series -> Int]
      BY <1>2, <3>1 DEF ScanOK, merged
    <3> HIDE DEF read
    <3>4. batch \subseteq Series
      BY BatchesAreOfTheList
    <3> HIDE DEF all
    <3>5. /\ DOMAIN series_cache' = {"read", "fetched", "full"} /\ series_cache'.read \in [Series -> Int]
          /\ series_cache'.fetched \in Int /\ series_cache'.full \in Int
      BY <1>2, <3>1, <3>3 DEF ScanOK
    <3> QED BY <1>1, <1>2, <3>2, <3>4, <3>5 DEF ScanOK, NoAnswers
  <2> QED BY <2>1, <2>2
<1>4. ExchangeOK' /\ RowsOK' /\ ListOK'
  BY <1>1 DEF CatalogInv, ExchangeOK, RowsOK, ListOK
<1>5. UnlistedOK'
  BY <1>1, <1>3 DEF CatalogInv, UnlistedOK
<1> QED BY <1>3, <1>4, <1>5 DEF Listing

(* When the series are listed, or the request fails.                          *)
LEMMA ListingByList ==
  ASSUME CatalogInv, now \in Nat, get_series_list \/ series_request_fails
  PROVE  Listing'
<1>1. UNCHANGED << exchange, messages, catalog, scanned_at, discovery >>
  BY DEF get_series_list, series_request_fails
<1>2. ScanOK
  BY DEF CatalogInv
<1>3. ScanOK' /\ scan'.phase # "markets"
  <2>1. CASE get_series_list
    BY <1>1, <1>2, <2>1 DEF get_series_list, ScanOK, Absent
  <2>2. CASE series_request_fails
    BY <1>1, <1>2, <2>2 DEF series_request_fails, ScanOK, IdleScan
  <2> QED BY <2>1, <2>2
<1>4. ExchangeOK' /\ RowsOK' /\ ListOK'
  BY <1>1 DEF CatalogInv, ExchangeOK, RowsOK, ListOK
<1>5. UnlistedOK'
  BY <1>1, <1>3 DEF CatalogInv, UnlistedOK
<1> QED BY <1>3, <1>4, <1>5 DEF Listing

(* The rows of an answer are of markets that trade.                           *)
LEMMA ListingByMarkets ==
  ASSUME CatalogInv, NEW s \in Series, NEW failed \in BOOLEAN, get_markets(s, failed)
  PROVE  Listing'
<1>1. UNCHANGED << exchange, messages, catalog, scanned_at, series_cache, discovery >> /\ scan.phase = "markets" /\ s \in scan.batch
  BY DEF get_markets
<1> DEFINE got == IF failed THEN {} ELSE { [market |-> k, closes |-> exchange[k].closes] : k \in OpenIn(s) }
<1>2. scan' = [scan EXCEPT !.answers[s] = [done |-> TRUE, failed |-> failed, rows |-> got]]
  BY DEF get_markets
<1>3. \A r \in got : \E k \in Markets : r.market = k /\ exchange[k].status # "unlisted"
  BY DEF OpenIn, StatusOf
<1> HIDE DEF got
<1>4. ScanOK
  BY DEF CatalogInv
<1>5. /\ scan'.answers = [scan.answers EXCEPT ![s] = [done |-> TRUE, failed |-> failed, rows |-> got]]
      /\ scan'.phase = scan.phase /\ scan'.started = scan.started /\ scan'.full = scan.full /\ scan'.batch = scan.batch /\ DOMAIN scan' = DOMAIN scan
  BY <1>2, <1>4 DEF ScanOK
<1>6. \A t \in scan.batch : scan'.answers[t] = IF t = s THEN [done |-> TRUE, failed |-> failed, rows |-> got] ELSE scan.answers[t]
  BY <1>1, <1>4, <1>5 DEF ScanOK
<1>7. ScanOK'
  <2>1. DOMAIN scan'.answers = scan.batch
    BY <1>1, <1>4, <1>5 DEF ScanOK
  <2>2. \A t \in scan.batch : DOMAIN scan'.answers[t] = {"done", "failed", "rows"}
    BY <1>1, <1>4, <1>6 DEF ScanOK
  <2> QED BY <1>1, <1>4, <1>5, <2>1, <2>2 DEF ScanOK
<1>8. ExchangeOK' /\ RowsOK' /\ ListOK'
  BY <1>1 DEF CatalogInv, ExchangeOK, RowsOK, ListOK
<1>9. ASSUME NEW k \in Markets, exchange[k].status = "unlisted", NEW t \in scan.batch, NEW r \in scan'.answers[t].rows PROVE r.market # k
  <2>1. CASE t = s
    BY <1>3, <1>6, <1>9, <2>1
  <2>2. CASE t # s
    BY <1>1, <1>6, <1>9, <2>2 DEF CatalogInv, UnlistedOK
  <2> QED BY <2>1, <2>2
<1>10. UnlistedOK'
  BY <1>1, <1>5, <1>9 DEF CatalogInv, UnlistedOK
<1> QED BY <1>7, <1>8, <1>10 DEF Listing

(* When the markets of a batch are written into the catalog.                  *)
LEMMA ListingByFinish ==
  ASSUME CatalogInv, now \in Nat, finish_scan
  PROVE  Listing'
<1>1. UNCHANGED << exchange, messages, series_cache, discovery >> /\ scan.phase = "markets"
  BY DEF finish_scan
<1> DEFINE rows == UNION { scan.answers[s].rows : s \in scan.batch }
<1>2. /\ catalog' = upserted(rows) /\ scan' = [IdleScan EXCEPT !.started = scan.started]
      /\ scanned_at' = [s \in Series |-> IF s \in scan.batch /\ ~scan.answers[s].failed THEN now ELSE scanned_at[s]]
  BY DEF finish_scan
<1>3. ASSUME NEW k \in Markets, exchange[k].status = "unlisted" PROVE \A r \in rows : r.market # k
  BY <1>1, <1>3 DEF CatalogInv, UnlistedOK
<1> HIDE DEF rows
<1>4. ScanOK
  BY DEF CatalogInv
<1>5. ScanOK' /\ scan'.phase = "idle"
  BY <1>1, <1>2, <1>4 DEF ScanOK, IdleScan
<1>6. DOMAIN catalog' = Markets /\ \A k \in Markets : exchange[k].status = "unlisted" => catalog'[k] = catalog[k]
  BY <1>2, <1>3 DEF upserted
<1>7. ExchangeOK' /\ RowsOK' /\ ListOK'
  BY <1>1, <1>6 DEF CatalogInv, ExchangeOK, RowsOK, ListOK
<1>8. UnlistedOK'
  BY <1>1, <1>5, <1>6 DEF CatalogInv, UnlistedOK
<1> QED BY <1>5, <1>7, <1>8 DEF Listing

(* What discovery asks of was open in the catalog.                            *)
LEMMA ListingByDiscovery ==
  ASSUME CatalogInv, now \in Nat, maybe_refresh_discovery_cache \/ confirm_discovery \/ confirmation_fails
  PROVE  Listing'
<1>1. UNCHANGED << exchange, messages, catalog, scanned_at, series_cache, scan >>
  BY DEF maybe_refresh_discovery_cache, confirm_discovery, confirmation_fails
<1>2. ListOK
  BY DEF CatalogInv
<1>3. ListOK' /\ (discovery'.phase = "confirm" => discovery'.asked \subseteq open_candidates /\ discovery'.started = now)
  <2>1. CASE maybe_refresh_discovery_cache
    <3>1. PICK series \in offered :
            LET selected == { k \in open_candidates : SeriesOf[k] \in series }
            IN  discovery' = IF selected = {}
                             THEN [discovery EXCEPT !.markets = {}, !.fetched = now, !.since = now, !.unconfirmed = {}]
                             ELSE [discovery EXCEPT !.phase = "confirm", !.started = now, !.asked = selected]
      BY <2>1 DEF maybe_refresh_discovery_cache
    <3> DEFINE selected == { k \in open_candidates : SeriesOf[k] \in series }
    <3>2. selected \subseteq open_candidates /\ open_candidates \subseteq Markets
      BY DEF open_candidates
    <3>3. discovery.phase = "idle"
      BY <2>1 DEF maybe_refresh_discovery_cache
    <3> HIDE DEF selected
    <3>4. CASE selected = {}
      <4>1. discovery' = [discovery EXCEPT !.markets = {}, !.fetched = now, !.since = now, !.unconfirmed = {}]
        BY <3>1, <3>4 DEF selected
      <4> QED BY <1>2, <3>3, <4>1 DEF ListOK
    <3>5. CASE selected # {}
      <4>1. discovery' = [discovery EXCEPT !.phase = "confirm", !.started = now, !.asked = selected]
        BY <3>1, <3>5 DEF selected
      <4> QED BY <1>2, <3>2, <4>1 DEF ListOK
    <3> QED BY <3>4, <3>5
  <2>2. CASE confirm_discovery
    <3>1. PICK out \in SUBSET discovery.asked :
            discovery' = [discovery EXCEPT !.phase = "idle", !.asked = {}, !.fetched = now, !.since = discovery.started, !.unconfirmed = out,
                            !.markets = out \cup { k \in discovery.asked : confirmed(k) }]
      BY <2>2 DEF confirm_discovery
    <3> DEFINE kept == out \cup { k \in discovery.asked : confirmed(k) }
    <3>2. kept \subseteq discovery.asked /\ discovery' = [discovery EXCEPT !.phase = "idle", !.asked = {}, !.fetched = now, !.since = discovery.started,
                                                         !.unconfirmed = out, !.markets = kept]
      BY <3>1
    <3> HIDE DEF kept
    <3> QED BY <1>2, <3>2 DEF ListOK
  <2>3. CASE confirmation_fails
    BY <1>2, <2>3 DEF confirmation_fails, ListOK
  <2> QED BY <2>1, <2>2, <2>3
<1>4. ExchangeOK' /\ RowsOK' /\ ScanOK'
  BY <1>1 DEF CatalogInv, ExchangeOK, RowsOK, ScanOK
<1>5. ASSUME NEW k \in Markets, exchange[k].status = "unlisted", discovery'.phase = "confirm", k \in discovery'.asked PROVE exchange[k].closes > now
  <2>1. catalog[k].status = "active" /\ catalog[k].closes > now
    BY <1>3, <1>5 DEF open_candidates
  <2> QED BY <1>5, <2>1 DEF CatalogInv, UnlistedOK
<1>6. UnlistedOK'
  BY <1>1, <1>3, <1>5 DEF CatalogInv, UnlistedOK
<1> QED BY <1>3, <1>4, <1>6 DEF Listing

(* Every step keeps the listing.                                              *)
LEMMA ListingStep ==
  ASSUME WatchBounded, CatalogInv, [DiscoveryNext]_discoveryVars
  PROVE  Listing'
<1>1. now \in Nat
  BY DEF WatchBounded
<1>2. CASE UNCHANGED catalogVars
  BY <1>2 DEF CatalogInv, Listing, catalogVars, ExchangeOK, RowsOK, ScanOK, ListOK, UnlistedOK
<1>3. CASE catalog_scan
  BY <1>1, <1>3, ListingByScanStart, ListingByList, ListingByMarkets, ListingByFinish DEF catalog_scan
<1>4. CASE exchange_moves
  BY <1>1, <1>4, ListingByExchange, ListingByMessages DEF exchange_moves
<1>5. CASE refresh_discovery
  BY <1>1, <1>5, ListingByDiscovery DEF refresh_discovery
<1>6. CASE restart
  <2>1. /\ scan' = IdleScan /\ discovery' = IdleDiscovery /\ series_cache' = [series_cache EXCEPT !.full = Never] /\ messages' = {}
        /\ UNCHANGED << exchange, catalog, scanned_at >>
    BY <1>6 DEF restart, restart_catalog
  <2>2. ExchangeOK' /\ RowsOK' /\ ListOK'
    BY <2>1 DEF CatalogInv, ExchangeOK, RowsOK, ListOK, IdleDiscovery, Never
  <2>3. ScanOK'
    BY <2>1 DEF CatalogInv, ScanOK, IdleScan, Never
  <2>4. UnlistedOK'
    BY <2>1 DEF CatalogInv, UnlistedOK, IdleScan, IdleDiscovery
  <2> QED BY <2>2, <2>3, <2>4 DEF Listing
<1>7. CASE trading_tick \/ account_fills \/ event_scans \/ event_polls \/ event_winners \/ event_details \/ tick_clock \/ UNCHANGED discoveryVars
  BY <1>2, <1>7 DEF trading_tick, account_fills, event_scans, event_polls, event_winners, event_details, tick_clock, discoveryVars
<1> QED BY <1>3, <1>4, <1>5, <1>6, <1>7 DEF DiscoveryNext

(* What is shown stays traded when it was confirmed, and is refreshed in time.*)
ShowingOK == ShownOK /\ RefreshedOK

(* A market that settles now was confirmed before.                            *)
LEMMA ShowingByExchange ==
  ASSUME WatchBounded, CatalogInv, NEW k \in Markets, NEW c, list_market(k) \/ settle(k) \/ revise_close(k, c), BoundsMove, now' = now
  PROVE  ShowingOK'
<1>1. now \in Nat
  BY DEF WatchBounded
<1>2. discovery' = discovery /\ exchange \in [Markets -> [status : {"unlisted", "active", "finalized"}, closes : Int, settled : Int]]
  BY <1>1, ExchangeMoves DEF CatalogInv, ExchangeOK
<1>3. \A l \in Markets : l # k => exchange'[l] = exchange[l]
  BY <1>1, ExchangeMoves
<1>4. exchange'[k].closes = exchange[k].closes \/ exchange'[k].closes >= now
  BY <1>1, ExchangeMoves DEF CatalogInv, ExchangeOK
<1>5. exchange'[k].status = "finalized" => exchange'[k].settled = now
  BY <1>1, ExchangeMoves DEF CatalogInv, ExchangeOK
<1>6. exchange'[k].closes \in Int /\ exchange'[k].settled \in Int
  BY <1>1, ExchangeMoves DEF ExchangeOK
<1>7. discovery.since \in Int /\ discovery.fetched \in Int /\ discovery.markets \subseteq Markets
  BY DEF CatalogInv, ListOK
<1>8. ShownOK'
  <2>1. ASSUME NEW l \in discovery.markets \ discovery.unconfirmed
        PROVE  /\ discovery.since <= exchange'[l].closes
               /\ exchange'[l].status = "finalized" => discovery.fetched <= exchange'[l].settled
    <3>1. /\ l \in Markets /\ discovery.since <= now /\ discovery.fetched <= now /\ discovery.since <= exchange[l].closes
          /\ exchange[l].status = "finalized" => discovery.fetched <= exchange[l].settled
      BY <1>7, <2>1 DEF CatalogInv, ShownOK
    <3> QED BY <1>1, <1>3, <1>4, <1>5, <1>6, <1>7, <3>1
  <2> QED BY <1>2, <2>1 DEF CatalogInv, ShownOK
<1>9. RefreshedOK'
  BY <1>1, <1>2, FailureStays DEF CatalogInv, RefreshedOK
<1> QED BY <1>8, <1>9 DEF ShowingOK

(* A refresh shows what it confirmed, or what it had when it fails.           *)
LEMMA ShowingByDiscovery ==
  ASSUME WatchBounded, CatalogInv, refresh_discovery
  PROVE  ShowingOK'
<1>1. now \in Nat /\ now' = now /\ "discovery" \in budget.parts /\ BoundsMove
  BY CatalogMoves DEF WatchBounded, refresh_discovery, Takes
<1>2. exchange' = exchange
  BY DEF refresh_discovery, maybe_refresh_discovery_cache, confirm_discovery, confirmation_fails
<1>3. ListOK /\ ShownOK /\ RefreshedOK /\ UnlistedOK /\ ExchangeOK
  BY DEF CatalogInv
<1>4. budget'.parts = budget.parts /\ (NoFailureYet' => NoFailureYet)
  BY <1>1, FailureStays
<1>5. CASE maybe_refresh_discovery_cache
  <2>1. PICK series \in offered :
          LET selected == { k \in open_candidates : SeriesOf[k] \in series }
          IN  discovery' = IF selected = {}
                           THEN [discovery EXCEPT !.markets = {}, !.fetched = now, !.since = now, !.unconfirmed = {}]
                           ELSE [discovery EXCEPT !.phase = "confirm", !.started = now, !.asked = selected]
    BY <1>5 DEF maybe_refresh_discovery_cache
  <2>2. discovery.phase = "idle"
    BY <1>5 DEF maybe_refresh_discovery_cache
  <2> DEFINE selected == { k \in open_candidates : SeriesOf[k] \in series }
  <2>3. \/ discovery' = [discovery EXCEPT !.markets = {}, !.fetched = now, !.since = now, !.unconfirmed = {}]
        \/ discovery' = [discovery EXCEPT !.phase = "confirm", !.started = now, !.asked = selected]
    BY <2>1
  <2> HIDE DEF selected
  <2>4. CASE discovery' = [discovery EXCEPT !.markets = {}, !.fetched = now, !.since = now, !.unconfirmed = {}]
    <3>1. discovery'.markets = {} /\ discovery'.since = now /\ discovery'.fetched = now /\ discovery'.phase = "idle" /\ discovery'.unconfirmed = {}
      BY <1>3, <2>2, <2>4 DEF ListOK
    <3> QED BY <1>1, <3>1 DEF ShownOK, RefreshedOK, ShowingOK, Never
  <2>5. CASE discovery' = [discovery EXCEPT !.phase = "confirm", !.started = now, !.asked = selected]
    <3>1. /\ discovery'.markets = discovery.markets /\ discovery'.unconfirmed = discovery.unconfirmed /\ discovery'.since = discovery.since
          /\ discovery'.fetched = discovery.fetched /\ discovery'.phase = "confirm" /\ discovery'.started = now
      BY <1>3, <2>5 DEF ListOK
    <3>2. ShownOK'
      BY <1>1, <1>2, <1>3, <3>1 DEF ShownOK
    <3>3. RefreshedOK'
      BY <1>1, <1>3, <1>4, <2>2, <3>1, CatalogNumbers DEF RefreshedOK
    <3> QED BY <3>2, <3>3 DEF ShowingOK
  <2> QED BY <2>3, <2>4, <2>5
<1>6. CASE confirm_discovery
  <2>1. PICK out \in SUBSET discovery.asked :
          /\ IF out = {} THEN UNCHANGED budget ELSE Spends("omits")
          /\ discovery' = [discovery EXCEPT !.phase = "idle", !.asked = {}, !.fetched = now, !.since = discovery.started, !.unconfirmed = out,
                          !.markets = out \cup { k \in discovery.asked : confirmed(k) }]
    BY <1>6 DEF confirm_discovery
  <2>2. /\ discovery'.markets = out \cup { k \in discovery.asked : confirmed(k) } /\ discovery'.unconfirmed = out
        /\ discovery'.since = discovery.started /\ discovery'.fetched = now /\ discovery'.phase = "idle"
    BY <1>3, <2>1 DEF ListOK
  <2>3. discovery.phase = "confirm" /\ discovery.started \in Int /\ discovery.started <= now
    BY <1>3, <1>6 DEF confirm_discovery, ListOK, ShownOK
  <2>4. ASSUME NEW k \in discovery'.markets \ discovery'.unconfirmed
        PROVE  discovery.started <= exchange[k].closes /\ exchange[k].status # "finalized"
    <3>1. k \in discovery.asked /\ StatusOf(k) \notin Terminal /\ k \in Markets
      BY <1>3, <2>2, <2>4 DEF confirmed, ListOK
    <3>2. exchange[k].status \in {"unlisted", "active", "finalized"} /\ exchange[k].closes \in Int
      BY <1>3, <3>1 DEF ExchangeOK
    <3>3. exchange[k].status # "finalized" /\ (exchange[k].status = "active" => now < exchange[k].closes)
      BY <1>1, <3>1, <3>2 DEF StatusOf, Terminal
    <3>4. exchange[k].status = "unlisted" => exchange[k].closes > discovery.started
      BY <1>3, <2>3, <3>1 DEF UnlistedOK
    <3> QED BY <1>1, <2>3, <3>2, <3>3, <3>4
  <2>5. ShownOK'
    BY <1>1, <1>2, <2>2, <2>3, <2>4 DEF ShownOK, Never
  <2>6. RefreshedOK'
    <3>1. NoFailureYet' => out = {}
      BY <2>1, FaultFails
    <3> QED BY <1>1, <1>4, <2>2, <3>1, CatalogNumbers DEF RefreshedOK
  <2> QED BY <2>5, <2>6 DEF ShowingOK
<1>7. CASE confirmation_fails
  <2>1. ~NoFailureYet'
    BY <1>7, FaultFails DEF confirmation_fails
  <2>2. discovery' = [discovery EXCEPT !.phase = "idle", !.asked = {}]
    BY <1>7 DEF confirmation_fails
  <2>3. /\ discovery'.markets = discovery.markets /\ discovery'.unconfirmed = discovery.unconfirmed /\ discovery'.since = discovery.since
        /\ discovery'.fetched = discovery.fetched /\ discovery'.phase = "idle"
    BY <1>3, <2>2 DEF ListOK
  <2> QED BY <1>1, <1>2, <1>3, <2>1, <2>3 DEF ShownOK, RefreshedOK, ShowingOK
<1> QED BY <1>5, <1>6, <1>7 DEF refresh_discovery

(* Every step keeps what is shown right.                                      *)
LEMMA ShowingStep ==
  ASSUME WatchBounded, CatalogInv, [DiscoveryNext]_discoveryVars
  PROVE  ShowingOK'
<1>1. now \in Nat /\ now' \in Nat /\ now' >= now /\ BoundsMove
  BY DiscoveryMoves DEF WatchBounded
<1>2. budget'.parts = budget.parts /\ (NoFailureYet' => NoFailureYet)
  BY <1>1, FailureStays
<1>3. ListOK /\ ShownOK /\ RefreshedOK
  BY DEF CatalogInv
<1>4. CASE UNCHANGED << exchange, discovery >> /\ now' = now
  BY <1>2, <1>3, <1>4 DEF ShownOK, RefreshedOK, ShowingOK
<1>5. CASE refresh_discovery
  BY <1>5, ShowingByDiscovery
<1>6. CASE exchange_moves
  <2>1. now' = now
    BY <1>6 DEF exchange_moves
  <2>2. ASSUME NEW msg PROVE process_stream_lifecycle(msg) \/ lose_message(msg) => UNCHANGED << exchange, discovery >>
    BY DEF process_stream_lifecycle, lose_message
  <2> QED BY <1>1, <1>4, <1>6, <2>1, <2>2, ShowingByExchange DEF exchange_moves
<1>7. CASE catalog_scan
  <2>1. ASSUME NEW s, NEW failed PROVE get_markets(s, failed) => UNCHANGED << exchange, discovery >>
    BY DEF get_markets
  <2>2. maybe_scan_catalog_batch \/ get_series_list \/ get_series_fee_changes \/ series_request_fails \/ finish_scan => UNCHANGED << exchange, discovery >>
    BY DEF maybe_scan_catalog_batch, get_series_list, get_series_fee_changes, series_request_fails, finish_scan
  <2> QED BY <1>4, <1>7, <2>1, <2>2 DEF catalog_scan
<1>8. CASE tick_clock
  <2>1. now' = now + 1 /\ UNCHANGED << exchange, discovery >> /\ CatalogPrompt
    BY <1>8 DEF tick_clock, catalogVars
  <2>2. ShownOK'
    <3>1. discovery.since \in Int /\ discovery.fetched \in Int /\ discovery.started \in Int
      BY <1>3 DEF ListOK
    <3>2. discovery.since <= now + 1 /\ discovery.fetched <= now + 1 /\ (discovery.phase = "confirm" => discovery.started <= now + 1)
      BY <1>1, <1>3, <3>1 DEF ShownOK
    <3> QED BY <1>3, <2>1, <3>2 DEF ShownOK
  <2>3. RefreshedOK'
    BY <1>1, <1>2, <1>3, <2>1, CatalogNumbers DEF RefreshedOK, CatalogPrompt, ListOK
  <2> QED BY <2>2, <2>3 DEF ShowingOK
<1>9. CASE restart
  <2>1. discovery' = IdleDiscovery
    BY <1>9 DEF restart, restart_catalog
  <2> QED BY <1>1, <2>1 DEF ShownOK, RefreshedOK, ShowingOK, IdleDiscovery, Never
<1>10. CASE trading_tick \/ account_fills \/ event_scans \/ event_polls \/ event_winners \/ event_details \/ UNCHANGED discoveryVars
  <2>1. UNCHANGED catalogVars /\ now' = now
    BY <1>10 DEF trading_tick, account_fills, event_scans, event_polls, event_winners, event_details, discoveryVars
  <2> QED BY <1>4, <2>1 DEF catalogVars
<1> QED BY <1>5, <1>6, <1>7, <1>8, <1>9, <1>10 DEF DiscoveryNext

(* DiscoveryIsCurrent follows. *)
LEMMA ShownIsCurrent == ASSUME WatchBounded, CatalogInv PROVE DiscoveryIsCurrent
<1>1. now \in Nat /\ ListOK /\ ShownOK /\ RefreshedOK /\ ExchangeOK
  BY DEF WatchBounded, CatalogInv
<1>2. ASSUME NEW k \in discovery.markets \ discovery.unconfirmed
      PROVE  /\ exchange[k].closes >= discovery.since
             /\ exchange[k].status = "finalized" =>
                  /\ exchange[k].settled >= discovery.since
                  /\ NoFailureYet => now - exchange[k].settled <= DiscoveryRefresh + 2 * AnswerTime
  <2>1. /\ exchange[k].closes \in Int /\ exchange[k].settled \in Int /\ discovery.since \in Int /\ discovery.fetched \in Int /\ discovery.started \in Int
        /\ discovery.phase \in {"idle", "confirm"}
    BY <1>1, <1>2 DEF ExchangeOK, ListOK
  <2>2. /\ discovery.since <= discovery.fetched /\ discovery.since <= exchange[k].closes
        /\ exchange[k].status = "finalized" => discovery.fetched <= exchange[k].settled
    BY <1>1, <1>2 DEF ShownOK
  <2>3. NoFailureYet => now <= discovery.fetched + DiscoveryRefresh + 1 + AnswerTime
    BY <1>1, <1>2, <2>1, CatalogNumbers DEF RefreshedOK
  <2> QED BY <1>1, <2>1, <2>2, <2>3, CatalogNumbers
<1> QED BY <1>2 DEF DiscoveryIsCurrent

(* A scan is over in time, and goes through the pinned series that need it.   *)
PacingOK == ScanPace /\ PinsOK

(* A step that touches neither the scan nor the time keeps its pace.          *)
LEMMA PacingKept ==
  ASSUME WatchBounded, CatalogInv, BoundsMove, now' = now, UNCHANGED << scan, series_cache, scanned_at >>
  PROVE  PacingOK'
<1>1. now \in Nat /\ budget'.parts = budget.parts /\ (NoFailureYet' => NoFailureYet)
  BY FailureStays DEF WatchBounded
<1> QED BY <1>1 DEF CatalogInv, ScanPace, PinsOK, PacingOK, cached_series

(* A pinned series outside the batch has been scanned recently.               *)
LEMMA BatchesTakePinned ==
  ASSUME NEW all, NEW batch \in Batches(all), NEW s \in (Watchlist \cap all) \ batch, now - scanned_at[s] \in Int, PinStale \in Int
  PROVE  now - scanned_at[s] <= PinStale
<1>1. PICK b : batch = b \cup pinned_series_needing_scan(all)
  BY DEF Batches
<1>2. s \notin pinned_series_needing_scan(all)
  BY <1>1
<1>3. s \in Watchlist \cap all
  OBVIOUS
<1>4. ~(now - scanned_at[s] > PinStale)
  BY <1>2, <1>3 DEF pinned_series_needing_scan
<1> QED BY <1>4

(* A scan begins now.                                                         *)
LEMMA PacingByStart ==
  ASSUME WatchBounded, CatalogInv, "scan" \in budget.parts, maybe_scan_catalog_batch, now' = now
  PROVE  PacingOK'
<1>1. now \in Nat /\ budget' = budget /\ UNCHANGED << scanned_at, series_cache >> /\ ScanOK /\ scan.phase = "idle"
  BY DEF WatchBounded, CatalogInv, maybe_scan_catalog_batch, scan_idle
<1>2. CASE series_stale
  <2>1. scan'.phase = "series" /\ scan'.started = now
    BY <1>1, <1>2 DEF maybe_scan_catalog_batch, IdleScan
  <2> QED BY <1>1, <2>1, CatalogNumbers DEF PacingOK, ScanPace, PinsOK
<1>3. CASE ~series_stale
  <2>1. PICK batch \in Batches(cached_series) :
          scan' = [IdleScan EXCEPT !.phase = "markets", !.started = now, !.batch = batch, !.answers = NoAnswers(batch)]
    BY <1>3 DEF maybe_scan_catalog_batch
  <2>2. scan'.phase = "markets" /\ scan'.started = now /\ scan'.batch = batch /\ scan'.answers = NoAnswers(batch)
    BY <2>1 DEF IdleScan
  <2>3. ASSUME NEW s \in (Watchlist \cap cached_series) \ batch PROVE now - scanned_at[s] <= PinStale
    <3>1. s \in Series
      BY CachedAreSeries
    <3>2. now - scanned_at[s] \in Int
      BY <1>1, <3>1 DEF ScanOK
    <3> QED BY <3>2, BatchesTakePinned, CatalogNumbers
  <2>4. \A s \in batch : ~scan'.answers[s].failed
    BY <2>2 DEF NoAnswers
  <2>5. cached_series' = cached_series
    BY <1>1 DEF cached_series
  <2> QED BY <1>1, <2>2, <2>3, <2>4, <2>5, CatalogNumbers DEF PacingOK, ScanPace, PinsOK
<1> QED BY <1>2, <1>3

(* A batch takes every pinned series that is stale.                           *)
LEMMA PacingByFees ==
  ASSUME WatchBounded, CatalogInv, get_series_fee_changes, now' = now
  PROVE  PacingOK'
<1>1. now \in Nat /\ budget' = budget /\ UNCHANGED << scanned_at >> /\ ScanOK /\ scan.phase = "fees" /\ ScanPace
  BY DEF WatchBounded, CatalogInv, get_series_fee_changes
<1> DEFINE read == merged(scan.list)
           all == { s \in Series : read[s] # Absent }
<1>2. series_cache' = [series_cache EXCEPT !.read = read, !.fetched = now]
  BY DEF get_series_fee_changes
<1>3. PICK batch \in Batches(all) : scan' = [scan EXCEPT !.phase = "markets", !.batch = batch, !.answers = NoAnswers(batch)]
  BY DEF get_series_fee_changes
<1> HIDE DEF read
<1>4. series_cache'.read = read
  BY <1>1, <1>2 DEF ScanOK
<1>5. cached_series' = all
  BY <1>4 DEF cached_series
<1>6. scan'.phase = "markets" /\ scan'.started = scan.started /\ scan'.batch = batch /\ scan'.answers = NoAnswers(batch)
  BY <1>1, <1>3 DEF ScanOK
<1>7. ASSUME NEW s \in (Watchlist \cap all) \ batch PROVE scan.started - scanned_at[s] <= PinStale
  <2>1. now - scanned_at[s] \in Int /\ scanned_at[s] \in Int
    BY <1>1 DEF ScanOK
  <2> HIDE DEF all
  <2>2. now - scanned_at[s] <= PinStale
    BY <2>1, BatchesTakePinned, CatalogNumbers
  <2> QED BY <1>1, <2>1, <2>2, CatalogNumbers DEF ScanPace, ScanOK
<1>8. \A s \in batch : ~scan'.answers[s].failed
  BY <1>6 DEF NoAnswers
<1> HIDE DEF all
<1> QED BY <1>1, <1>5, <1>6, <1>7, <1>8 DEF PacingOK, ScanPace, PinsOK

(* An answer of a batch keeps the batch, and fails only with a fault.         *)
LEMMA PacingByMarkets ==
  ASSUME WatchBounded, CatalogInv, NEW s \in Series, NEW failed \in BOOLEAN, get_markets(s, failed), now' = now
  PROVE  PacingOK'
<1>1. now \in Nat /\ UNCHANGED << scanned_at, series_cache >> /\ ScanOK /\ scan.phase = "markets" /\ ScanPace /\ PinsOK /\ s \in scan.batch
  BY DEF WatchBounded, CatalogInv, get_markets
<1>2. PICK got : scan' = [scan EXCEPT !.answers[s] = [done |-> TRUE, failed |-> failed, rows |-> got]]
  BY DEF get_markets
<1>3. IF failed THEN Spends("faults") ELSE UNCHANGED budget
  BY DEF get_markets
<1>4. /\ scan'.answers = [scan.answers EXCEPT ![s] = [done |-> TRUE, failed |-> failed, rows |-> got]]
      /\ scan'.phase = scan.phase /\ scan'.started = scan.started /\ scan'.batch = scan.batch
  BY <1>1, <1>2 DEF ScanOK
<1>5. budget'.parts = budget.parts /\ (NoFailureYet' => NoFailureYet) /\ (failed => ~NoFailureYet')
  BY <1>1, <1>3, FaultFails, FailureStays, NothingMoves
<1>6. NoFailureYet' => \A t \in scan.batch : ~scan'.answers[t].failed
  <2>1. ASSUME NEW t \in scan.batch, t # s PROVE scan'.answers[t] = scan.answers[t]
    BY <1>1, <1>4, <2>1 DEF ScanOK
  <2>2. scan'.answers[s].failed = failed
    BY <1>1, <1>4 DEF ScanOK
  <2> QED BY <1>1, <1>5, <2>1, <2>2 DEF PinsOK
<1>7. cached_series' = cached_series
  BY <1>1 DEF cached_series
<1> QED BY <1>1, <1>4, <1>5, <1>6, <1>7 DEF PacingOK, ScanPace, PinsOK

(* A scan whose list is read goes on; one that ends or fails has no pace to keep.*)
LEMMA PacingByOthers ==
  ASSUME WatchBounded, CatalogInv, get_series_list \/ series_request_fails \/ finish_scan, BoundsMove, now' = now
  PROVE  PacingOK'
<1>1. now \in Nat /\ ScanOK /\ ScanPace /\ budget'.parts = budget.parts
  BY FailureStays DEF WatchBounded, CatalogInv
<1>2. CASE get_series_list
  <2>1. PICK list : scan' = [scan EXCEPT !.phase = "fees", !.list = list]
    BY <1>2 DEF get_series_list
  <2>2. scan'.phase = "fees" /\ scan'.started = scan.started /\ scan.phase = "series"
    BY <1>1, <1>2, <2>1 DEF get_series_list, ScanOK
  <2> QED BY <1>1, <2>2 DEF PacingOK, ScanPace, PinsOK
<1>3. CASE series_request_fails \/ finish_scan
  <2>1. scan'.phase = "idle"
    BY <1>3 DEF series_request_fails, finish_scan, IdleScan
  <2> QED BY <2>1 DEF PacingOK, ScanPace, PinsOK
<1> QED BY <1>2, <1>3

(* Most steps leave the scan alone.                                           *)
LEMMA ScanElsewhere ==
  ASSUME exchange_moves \/ refresh_discovery \/ trading_tick \/ account_fills \/ event_scans \/ event_polls \/ event_winners \/ event_details
           \/ UNCHANGED discoveryVars
  PROVE  UNCHANGED << scan, series_cache, scanned_at >> /\ now' = now
<1>1. ASSUME NEW k, NEW c PROVE list_market(k) \/ settle(k) \/ revise_close(k, c) => UNCHANGED << scan, series_cache, scanned_at >>
  BY DEF list_market, settle, revise_close
<1>2. ASSUME NEW msg PROVE process_stream_lifecycle(msg) \/ lose_message(msg) => UNCHANGED << scan, series_cache, scanned_at >>
  BY DEF process_stream_lifecycle, lose_message
<1>3. maybe_refresh_discovery_cache \/ confirm_discovery \/ confirmation_fails => UNCHANGED << scan, series_cache, scanned_at >>
  BY DEF maybe_refresh_discovery_cache, confirm_discovery, confirmation_fails
<1> QED BY <1>1, <1>2, <1>3 DEF exchange_moves, refresh_discovery, trading_tick, account_fills, event_scans, event_polls, event_winners, event_details,
                                catalogVars, discoveryVars

(* Every step keeps the pace of the scan and its pins.                        *)
LEMMA PacingStep ==
  ASSUME WatchBounded, CatalogInv, [DiscoveryNext]_discoveryVars
  PROVE  PacingOK'
<1>1. now \in Nat /\ BoundsMove
  BY DiscoveryMoves DEF WatchBounded
<1>2. CASE catalog_scan
  <2>1. "scan" \in budget.parts /\ now' = now
    BY <1>2 DEF catalog_scan, Takes
  <2> QED BY <1>1, <1>2, <2>1, PacingByStart, PacingByFees, PacingByMarkets, PacingByOthers DEF catalog_scan
<1>3. CASE tick_clock
  <2>1. now' = now + 1 /\ UNCHANGED << scan, series_cache, scanned_at, budget >> /\ CatalogPrompt
    BY <1>3 DEF tick_clock, catalogVars
  <2>2. ScanPace'
    <3>1. scan.started \in Int
      BY DEF CatalogInv, ScanOK
    <3> QED BY <1>1, <2>1, <3>1, CatalogNumbers DEF CatalogInv, ScanPace, CatalogPrompt, scan_idle
  <2>3. PinsOK'
    BY <2>1 DEF CatalogInv, PinsOK, NoFailureYet, cached_series
  <2> QED BY <2>2, <2>3 DEF PacingOK
<1>4. CASE restart
  <2>1. scan'.phase = "idle"
    BY <1>4 DEF restart, restart_catalog, IdleScan
  <2> QED BY <2>1 DEF PacingOK, ScanPace, PinsOK
<1> QED BY <1>1, <1>2, <1>3, <1>4, ScanElsewhere, PacingKept DEF DiscoveryNext

(* What a finished batch leaves of the pinned series.                         *)
PinsScanned ==
  scan.phase = "markets" /\ scan'.phase = "idle" /\ budget' = budget /\ NoFailureYet =>
    \A s \in Watchlist \cap cached_series : now - scanned_at'[s] <= PinStale + 2 * AnswerTime

(* A batch that finishes had every pinned series scanned.                     *)
LEMMA PinsByFinish ==
  ASSUME WatchBounded, CatalogInv, finish_scan, NoFailureYet, NEW s \in Watchlist \cap cached_series
  PROVE  now - scanned_at'[s] <= PinStale + 2 * AnswerTime
<1>1. now \in Nat /\ ScanOK /\ ScanPace /\ PinsOK /\ scan.phase = "markets" /\ s \in Series
  BY CachedAreSeries DEF WatchBounded, CatalogInv, finish_scan
<1>2. scanned_at'[s] = (IF s \in scan.batch /\ ~scan.answers[s].failed THEN now ELSE scanned_at[s])
  BY <1>1 DEF finish_scan
<1>3. CASE s \in scan.batch
  <2>1. scanned_at'[s] = now
    BY <1>1, <1>2, <1>3 DEF PinsOK
  <2> QED BY <1>1, <2>1, CatalogNumbers
<1>4. CASE s \notin scan.batch
  <2>1. scan.started - scanned_at[s] <= PinStale /\ scanned_at'[s] = scanned_at[s] /\ scanned_at[s] \in Int /\ scan.started \in Int
    BY <1>1, <1>2, <1>4 DEF PinsOK, ScanOK
  <2>2. now <= scan.started + AnswerTime
    BY <1>1 DEF ScanPace
  <2> QED BY <1>1, <2>1, <2>2, CatalogNumbers
<1> QED BY <1>3, <1>4

(* No other step finishes a batch.                                            *)
LEMMA PinsStep == ASSUME WatchBounded, CatalogInv, [DiscoveryNext]_discoveryVars PROVE PinsScanned
<1> SUFFICES ASSUME scan.phase = "markets", scan'.phase = "idle", budget' = budget, NoFailureYet, NEW s \in Watchlist \cap cached_series
             PROVE  now - scanned_at'[s] <= PinStale + 2 * AnswerTime
  BY DEF PinsScanned
<1>1. CASE catalog_scan
  <2>1. ~maybe_scan_catalog_batch /\ ~get_series_list /\ ~get_series_fee_changes /\ ~series_request_fails
    BY DEF maybe_scan_catalog_batch, scan_idle, get_series_list, get_series_fee_changes, series_request_fails
  <2>2. ASSUME NEW t, NEW failed PROVE ~get_markets(t, failed)
    <3>1. ASSUME get_markets(t, failed) PROVE FALSE
      <4>1. PICK a : scan' = [scan EXCEPT !.answers[t] = a]
        BY <3>1 DEF get_markets
      <4>2. scan'.phase = scan.phase
        BY <4>1 DEF CatalogInv, ScanOK
      <4> QED BY <4>2
    <3> QED BY <3>1
  <2> QED BY <1>1, <2>1, <2>2, PinsByFinish DEF catalog_scan
<1>2. CASE tick_clock
  BY <1>2 DEF tick_clock, catalogVars
<1>3. CASE restart
  <2>1. budget'.restarts = budget.restarts - 1 /\ budget.restarts \in Nat
    BY <1>3 DEF restart, Spends, WatchBounded, Spent
  <2> QED BY <2>1
<1> QED BY <1>1, <1>2, <1>3, ScanElsewhere DEF DiscoveryNext

(* The volumes: what a list read, and when the cached ones were.              *)
VolumeOK(s) ==
  LET read == series_cache.read[s]
  IN  /\ ~(scan.phase = "fees" /\ scan.full) => series_cache.full <= read
      /\ series_cache.fetched <= read + FullResync + AnswerTime
      /\ scan.phase = "idle" => now <= read + VolumeOverdue
      /\ scan.phase \in {"series", "fees"} /\ ~scan.full => scan.started <= read + FullResync
      /\ scan.phase \in {"idle", "markets"} => scan.started <= read + VolumeDue
      /\ Resyncing => scan.started <= read + VolumeOverdue
ReadingOK == ListsOK /\ VolumesOK

(* What is overdue takes longer after a restart, by one wait each.            *)
LEMMA OverdueGrows ==
  ASSUME WatchBounded, BoundsMove
  PROVE  VolumeDue \in Nat /\ VolumeOverdue \in Nat /\ VolumeOverdue' \in Nat /\ VolumeOverdue <= VolumeOverdue' /\ VolumeDue + AnswerTime + ScanInterval + 1 <= VolumeOverdue
<1> DEFINE n == budget.reboots - budget.restarts
           m == budget'.reboots - budget'.restarts
<1>1. n \in Nat /\ m \in Nat /\ n <= m
  BY DEF WatchBounded, BoundsMove, Spent, Kept
<1>2. VolumeOverdue = VolumeDue + ScanInterval + 1 + AnswerTime + Restarted(n) /\ VolumeOverdue' = VolumeDue + ScanInterval + 1 + AnswerTime + Restarted(m)
  BY DEF VolumeOverdue, VolumeDue, Restarted
<1> HIDE DEF n, m
<1>3. Restarted(n) \in Nat /\ Restarted(m) \in Nat /\ Restarted(n) <= Restarted(m)
  BY <1>1, RestartedGrows
<1>4. VolumeDue \in Nat
  BY CatalogNumbers DEF VolumeDue
<1> QED BY <1>2, <1>3, <1>4, CatalogNumbers

(* The same bounds a restart later.                                           *)
LEMMA OverdueOnRestart ==
  ASSUME WatchBounded, Spends("restarts")
  PROVE  VolumeOverdue' = VolumeOverdue + AnswerTime
<1> DEFINE n == budget.reboots - budget.restarts
<1>1. budget'.restarts = budget.restarts - 1 /\ budget'.reboots = budget.reboots
  BY DEF Spends, WatchBounded, Spent, Kept
<1>2. n \in Nat /\ budget'.reboots - budget'.restarts = n + 1
  BY <1>1 DEF WatchBounded
<1>3. VolumeOverdue = VolumeDue + ScanInterval + 1 + AnswerTime + Restarted(n) /\ VolumeOverdue' = VolumeDue + ScanInterval + 1 + AnswerTime + Restarted(n + 1)
  BY <1>2 DEF VolumeOverdue, VolumeDue, Restarted
<1> HIDE DEF n
<1>4. Restarted(n + 1) = Restarted(n) + AnswerTime /\ Restarted(n) \in Nat
  BY <1>2, RestartedOnce, RestartedGrows
<1>5. VolumeDue \in Nat
  BY CatalogNumbers DEF VolumeDue
<1> QED BY <1>3, <1>4, <1>5, CatalogNumbers

(* What is cached of a series, and the numbers of the list and of the scan.   *)
LEMMA CachedNumbers ==
  ASSUME CatalogInv
  PROVE  /\ series_cache.full \in Int /\ series_cache.fetched \in Int /\ scan.started \in Int
         /\ \A s \in cached_series : s \in Series /\ series_cache.read[s] \in Int /\ series_cache.read[s] >= 0
BY CachedAreSeries DEF CatalogInv, ScanOK, ListsOK

(* A step that touches neither the cache nor the scan keeps the age of the volumes.*)
LEMMA ReadingKept ==
  ASSUME WatchBounded, CatalogInv, BoundsMove, now' = now, UNCHANGED << scan, series_cache >>
  PROVE  ReadingOK'
<1>1. now \in Nat /\ budget'.parts = budget.parts /\ (NoFailureYet' => NoFailureYet)
  BY FailureStays DEF WatchBounded
<1>2. ListsOK'
  BY <1>1 DEF CatalogInv, ListsOK, cached_series
<1>3. ASSUME NoFailureYet', "scan" \in budget'.parts, NEW s \in cached_series' PROVE VolumeOK(s)'
  <2>1. s \in cached_series
    BY <1>3 DEF cached_series
  <2>2. VolumeOK(s)
    BY <1>1, <1>3, <2>1 DEF CatalogInv, VolumesOK, VolumeOK
  <2>3. series_cache.read[s] \in Int
    BY <2>1, CachedNumbers
  <2> QED BY <1>1, <2>2, <2>3, OverdueGrows, CachedNumbers DEF VolumeOK, Resyncing, VolumeDue
<1>4. VolumesOK'
  BY <1>3 DEF VolumesOK, VolumeOK
<1> QED BY <1>2, <1>4 DEF ReadingOK

(* A scan begins while the cache is fresh, or asks for a refresh.             *)
LEMMA ReadingByStart ==
  ASSUME WatchBounded, CatalogInv, maybe_scan_catalog_batch, now' = now
  PROVE  ReadingOK'
<1>1. now \in Nat /\ budget' = budget /\ UNCHANGED series_cache /\ scan.phase = "idle" /\ ListsOK
  BY DEF WatchBounded, CatalogInv, maybe_scan_catalog_batch, scan_idle
<1>2. \/ series_stale /\ scan'.phase = "series" /\ scan'.started = now /\ scan'.full = (cached_series = {} \/ full_due)
      \/ ~series_stale /\ scan'.phase = "markets" /\ scan'.started = now
  BY DEF maybe_scan_catalog_batch, IdleScan
<1>3. ListsOK'
  BY <1>1, <1>2 DEF ListsOK, cached_series
<1>4. ASSUME NoFailureYet', "scan" \in budget'.parts, NEW s \in cached_series' PROVE VolumeOK(s)'
  <2>1. s \in cached_series
    BY <1>1, <1>4 DEF cached_series
  <2>2. VolumeOK(s)
    BY <1>1, <1>4, <2>1 DEF CatalogInv, VolumesOK, VolumeOK, NoFailureYet
  <2>3. series_cache.read[s] \in Int /\ cached_series # {}
    BY <2>1, CachedNumbers
  <2>4. VolumeOverdue' = VolumeOverdue /\ VolumeOverdue \in Nat
    <3>1. VolumeOverdue' = VolumeOverdue
      BY <1>1 DEF VolumeOverdue, VolumeDue, Restarted
    <3> QED BY <1>1, <3>1, OverdueGrows, NothingMoves
  <2>5. CASE scan'.phase = "series"
    <3>1. scan'.full = (now - series_cache.full > FullResync)
      BY <1>2, <2>3, <2>5 DEF full_due
    <3>2. /\ series_cache.full <= series_cache.read[s] /\ now <= series_cache.read[s] + VolumeOverdue
          /\ series_cache.fetched <= series_cache.read[s] + FullResync + AnswerTime
      BY <1>1, <2>2 DEF VolumeOK
    <3>3. ~scan'.full => now <= series_cache.read[s] + FullResync
      <4>1. ~scan'.full => ~(now - series_cache.full > FullResync)
        BY <3>1, Zenon
      <4> QED BY <1>1, <2>3, <3>2, <4>1, CachedNumbers, CatalogNumbers
    <3>4. scan'.started = now
      BY <1>2
    <3> HIDE DEF VolumeOverdue
    <3> QED BY <1>1, <2>4, <2>5, <3>2, <3>3, <3>4 DEF VolumeOK, Resyncing
  <2>6. CASE scan'.phase = "markets"
    <3>1. now - series_cache.fetched <= SeriesTTL
      BY <1>1, <1>2, <2>6, CachedNumbers, CatalogNumbers DEF series_stale
    <3> QED BY <1>1, <1>2, <2>2, <2>3, <2>6, <3>1, CachedNumbers, CatalogNumbers DEF VolumeOK, Resyncing, VolumeDue
  <2> QED BY <1>2, <2>5, <2>6
<1>5. VolumesOK'
  BY <1>4 DEF VolumesOK, VolumeOK
<1> QED BY <1>3, <1>5 DEF ReadingOK

(* A list that is read is the whole list when it is full, or since the last.  *)
LEMMA ReadingByList ==
  ASSUME WatchBounded, CatalogInv, get_series_list, now' = now
  PROVE  ReadingOK'
<1>1. now \in Nat /\ budget' = budget /\ scan.phase = "series" /\ ListsOK /\ ScanOK /\ ScanPace
  BY DEF WatchBounded, CatalogInv, get_series_list
<1> DEFINE list == [s \in Series |-> IF scan.full \/ s \in budget.changing THEN now ELSE Absent]
<1>2. scan' = [scan EXCEPT !.phase = "fees", !.list = list] /\ series_cache' = IF scan.full THEN [series_cache EXCEPT !.full = now] ELSE series_cache
  BY DEF get_series_list
<1>3. \A s \in Series : list[s] = now \/ (~scan.full /\ list[s] = Absent)
  OBVIOUS
<1> HIDE DEF list
<1>4. scan'.phase = "fees" /\ scan'.list = list /\ scan'.full = scan.full /\ scan'.started = scan.started /\ scan.full \in BOOLEAN
  BY <1>1, <1>2 DEF ScanOK
<1>5. series_cache'.read = series_cache.read /\ series_cache'.fetched = series_cache.fetched /\ series_cache'.full = IF scan.full THEN now ELSE series_cache.full
  BY <1>1, <1>2 DEF ScanOK
<1>6. scan.started <= now
  BY <1>1 DEF ScanPace
<1>7. cached_series' = cached_series
  BY <1>5 DEF cached_series
<1>8. ListsOK'
  <2>1. series_cache'.full <= now /\ series_cache'.full \in Int
    BY <1>1, <1>5, CachedNumbers DEF ListsOK
  <2>2. ASSUME NEW s \in Series, list[s] # Absent PROVE scan.started <= list[s] /\ series_cache'.full <= list[s] /\ 0 <= list[s]
    BY <1>1, <1>3, <1>6, <2>1, <2>2
  <2>3. scan.full => \A s \in Series : list[s] # Absent
    BY <1>1, <1>3 DEF Absent
  <2> QED BY <1>1, <1>4, <1>5, <1>7, <2>1, <2>2, <2>3 DEF ListsOK
<1>9. ASSUME NoFailureYet', "scan" \in budget'.parts, NEW s \in cached_series' PROVE VolumeOK(s)'
  <2>1. VolumeOK(s)
    BY <1>1, <1>7, <1>9 DEF CatalogInv, VolumesOK, VolumeOK, NoFailureYet
  <2>2. VolumeOverdue' = VolumeOverdue
    BY <1>1 DEF VolumeOverdue, VolumeDue, Restarted
  <2> QED BY <1>1, <1>4, <1>5, <2>1, <2>2 DEF VolumeOK, Resyncing
<1>10. VolumesOK'
  BY <1>9 DEF VolumesOK, VolumeOK
<1> QED BY <1>8, <1>10 DEF ReadingOK

(* The lists are merged: what they mention was read during the scan, and the  *)
(* rest was recent when it began.                                             *)
LEMMA ReadingByFees ==
  ASSUME WatchBounded, CatalogInv, get_series_fee_changes, now' = now
  PROVE  ReadingOK'
<1>1. now \in Nat /\ budget' = budget /\ scan.phase = "fees" /\ ListsOK /\ ScanOK /\ ScanPace
  BY DEF WatchBounded, CatalogInv, get_series_fee_changes
<1> DEFINE read == merged(scan.list)
<1>2. series_cache' = [series_cache EXCEPT !.read = read, !.fetched = now]
  BY DEF get_series_fee_changes
<1>3. PICK batch : scan' = [scan EXCEPT !.phase = "markets", !.batch = batch, !.answers = NoAnswers(batch)]
  BY DEF get_series_fee_changes
<1>4. \A s \in Series : read[s] = IF scan.list[s] = Absent THEN series_cache.read[s] ELSE scan.list[s]
  BY DEF merged
<1> HIDE DEF read
<1>5. scan'.phase = "markets" /\ scan'.started = scan.started
  BY <1>1, <1>3 DEF ScanOK
<1>6. series_cache'.read = read /\ series_cache'.fetched = now /\ series_cache'.full = series_cache.full
  BY <1>1, <1>2 DEF ScanOK
<1>7. cached_series' = { s \in Series : read[s] # Absent }
  BY <1>6 DEF cached_series
<1>8. ASSUME NEW s \in cached_series'
      PROVE  /\ s \in Series
             /\ \/ read[s] = scan.list[s] /\ scan.started <= scan.list[s] /\ series_cache.full <= scan.list[s] /\ 0 <= scan.list[s] /\ scan.list[s] \in Int
                \/ s \in cached_series /\ read[s] = series_cache.read[s] /\ scan.list[s] = Absent
  <2>1. s \in Series /\ read[s] # Absent
    BY <1>7, <1>8
  <2>2. CASE scan.list[s] # Absent
    BY <1>1, <1>4, <2>1, <2>2 DEF ListsOK, ScanOK
  <2>3. CASE scan.list[s] = Absent
    BY <1>4, <2>1, <2>3 DEF cached_series
  <2> QED BY <2>1, <2>2, <2>3
<1>9. ListsOK'
  BY <1>1, <1>5, <1>6, <1>8 DEF ListsOK
<1>10. ASSUME NoFailureYet', "scan" \in budget'.parts, NEW s \in cached_series' PROVE VolumeOK(s)'
  <2>1. scan.started <= now /\ now <= scan.started + AnswerTime
    BY <1>1 DEF ScanPace
  <2>2. CASE read[s] = scan.list[s] /\ scan.started <= scan.list[s] /\ series_cache.full <= scan.list[s] /\ 0 <= scan.list[s] /\ scan.list[s] \in Int
    BY <1>1, <1>5, <1>6, <2>1, <2>2, CachedNumbers, CatalogNumbers DEF VolumeOK, Resyncing, VolumeDue
  <2>3. CASE s \in cached_series /\ read[s] = series_cache.read[s] /\ scan.list[s] = Absent
    <3>1. VolumeOK(s)
      BY <1>1, <1>10, <2>3 DEF CatalogInv, VolumesOK, VolumeOK, NoFailureYet
    <3>2. ~scan.full
      BY <1>1, <1>8, <2>3 DEF ListsOK
    <3>3. series_cache.full <= read[s] /\ scan.started <= read[s] + FullResync /\ read[s] \in Int
      BY <1>1, <2>3, <3>1, <3>2, CachedNumbers DEF VolumeOK
    <3> QED BY <1>1, <1>5, <1>6, <2>1, <3>3, CachedNumbers, CatalogNumbers DEF VolumeOK, Resyncing, VolumeDue
  <2> QED BY <1>8, <2>2, <2>3
<1>11. VolumesOK'
  BY <1>10 DEF VolumesOK, VolumeOK
<1> QED BY <1>9, <1>11 DEF ReadingOK

(* Asking the markets of a batch leaves the cached list alone.                *)
LEMMA ReadingByMarkets ==
  ASSUME WatchBounded, CatalogInv, NEW s, NEW failed, get_markets(s, failed) \/ finish_scan, BoundsMove, now' = now
  PROVE  ReadingOK'
<1>1. now \in Nat /\ UNCHANGED series_cache /\ scan.phase = "markets" /\ ListsOK /\ ScanOK /\ ScanPace
  BY DEF WatchBounded, CatalogInv, get_markets, finish_scan
<1>2. scan'.phase \in {"markets", "idle"} /\ scan'.started = scan.started
  <2>1. CASE get_markets(s, failed)
    <3>1. PICK a : scan' = [scan EXCEPT !.answers[s] = a]
      BY <2>1 DEF get_markets
    <3> QED BY <1>1, <3>1 DEF ScanOK
  <2>2. CASE finish_scan
    BY <2>2 DEF finish_scan, IdleScan
  <2> QED BY <2>1, <2>2
<1>3. ListsOK'
  BY <1>1, <1>2 DEF ListsOK, cached_series
<1>4. ASSUME NoFailureYet', "scan" \in budget'.parts, NEW t \in cached_series' PROVE VolumeOK(t)'
  <2>1. t \in cached_series /\ NoFailureYet /\ "scan" \in budget.parts
    BY <1>1, <1>4, FailureStays DEF cached_series
  <2>2. VolumeOK(t)
    BY <2>1 DEF CatalogInv, VolumesOK, VolumeOK
  <2>3. series_cache.read[t] \in Int /\ now <= scan.started + AnswerTime
    BY <1>1, <2>1, CachedNumbers DEF ScanPace
  <2> HIDE DEF VolumesOK
  <2>4. scan.started <= series_cache.read[t] + VolumeDue /\ series_cache.full <= series_cache.read[t] /\ series_cache.fetched <= series_cache.read[t] + FullResync + AnswerTime
    BY <1>1, <2>2 DEF VolumeOK
  <2>5. now <= series_cache.read[t] + VolumeOverdue'
    BY <1>1, <2>3, <2>4, OverdueGrows, CachedNumbers, CatalogNumbers
  <2> QED BY <1>1, <1>2, <2>4, <2>5 DEF VolumeOK, Resyncing, VolumeDue
<1>5. VolumesOK'
  BY <1>4 DEF VolumesOK, VolumeOK
<1> QED BY <1>3, <1>5 DEF ReadingOK

(* A restart loses a scan, and the time it took.                              *)
LEMMA ReadingByRestart ==
  ASSUME WatchBounded, CatalogInv, restart
  PROVE  ReadingOK'
<1>1. now \in Nat /\ now' = now /\ ListsOK /\ ScanOK /\ Spends("restarts") /\ BoundsMove
  BY SpendingMoves DEF WatchBounded, CatalogInv, restart, Kept
<1>2. scan' = IdleScan /\ series_cache' = [series_cache EXCEPT !.full = Never]
  BY DEF restart, restart_catalog
<1>3. scan'.phase = "idle" /\ scan'.started = Never /\ series_cache'.full = Never /\ series_cache'.read = series_cache.read /\ series_cache'.fetched = series_cache.fetched
  BY <1>1, <1>2 DEF ScanOK, IdleScan
<1>4. cached_series' = cached_series
  BY <1>3 DEF cached_series
<1>5. ListsOK'
  BY <1>1, <1>3, <1>4 DEF ListsOK, Never
<1>6. ASSUME NoFailureYet', "scan" \in budget'.parts, NEW s \in cached_series' PROVE VolumeOK(s)'
  <2>1. s \in cached_series /\ NoFailureYet /\ "scan" \in budget.parts
    BY <1>1, <1>4, <1>6, FailureStays
  <2>2. VolumeOK(s)
    BY <2>1 DEF CatalogInv, VolumesOK, VolumeOK
  <2> DEFINE read == series_cache.read[s]
  <2>3. read \in Int /\ read >= 0 /\ series_cache.fetched <= read + FullResync + AnswerTime
    BY <2>1, <2>2, CachedNumbers DEF VolumeOK
  <2>4. /\ scan.phase = "idle" => now <= read + VolumeOverdue
        /\ scan.phase \in {"series", "fees"} /\ ~scan.full => scan.started <= read + FullResync
        /\ scan.phase = "markets" => scan.started <= read + VolumeDue
        /\ scan.phase \in {"series", "fees"} /\ scan.full => scan.started <= read + VolumeOverdue
        /\ scan.phase # "idle" => now <= scan.started + AnswerTime
    BY <2>2 DEF VolumeOK, Resyncing, CatalogInv, ScanPace
  <2> HIDE DEF read
  <2>5. VolumeOverdue' = VolumeOverdue + AnswerTime /\ VolumeDue \in Nat /\ VolumeOverdue \in Nat /\ VolumeDue <= VolumeOverdue /\ FullResync <= VolumeDue
    BY <1>1, OverdueOnRestart, OverdueGrows, CatalogNumbers DEF VolumeDue
  <2>6. now <= read + VolumeOverdue'
    BY <1>1, <2>3, <2>4, <2>5, CachedNumbers, CatalogNumbers DEF ScanOK
  <2>7. Never <= read /\ Never <= read + VolumeDue
    BY <2>3, <2>5 DEF Never
  <2> QED BY <1>1, <1>3, <2>3, <2>6, <2>7 DEF VolumeOK, Resyncing, VolumeDue, read
<1>7. VolumesOK'
  BY <1>6 DEF VolumesOK, VolumeOK
<1> QED BY <1>5, <1>7 DEF ReadingOK

(* Time passes while a scan is due or in progress.                            *)
LEMMA ReadingByClock ==
  ASSUME WatchBounded, CatalogInv, tick_clock
  PROVE  ReadingOK'
<1>1. now \in Nat /\ now' = now + 1 /\ ListsOK /\ ScanOK /\ UNCHANGED << scan, series_cache, budget >> /\ CatalogPrompt
  BY DEF WatchBounded, CatalogInv, tick_clock, catalogVars
<1>2. ListsOK'
  BY <1>1, CachedNumbers DEF ListsOK, cached_series
<1>3. ASSUME NoFailureYet', "scan" \in budget'.parts, NEW s \in cached_series' PROVE VolumeOK(s)'
  <2>1. s \in cached_series /\ NoFailureYet /\ "scan" \in budget.parts
    BY <1>1, <1>3 DEF cached_series, NoFailureYet
  <2>2. VolumeOK(s)
    BY <2>1 DEF CatalogInv, VolumesOK, VolumeOK
  <2>3. series_cache.read[s] \in Int
    BY <2>1, CachedNumbers
  <2>4. VolumeOverdue' = VolumeOverdue
    BY <1>1 DEF VolumeOverdue, VolumeDue, Restarted
  <2>5. scan.phase = "idle" => now + 1 <= series_cache.read[s] + VolumeOverdue
    <3>1. scan.phase = "idle" => now - scan.started <= ScanInterval /\ scan.started <= series_cache.read[s] + VolumeDue
      BY <1>1, <2>1, <2>2, CachedNumbers, CatalogNumbers DEF CatalogPrompt, scan_idle, scan_due, VolumeOK
    <3>2. VolumeDue \in Nat /\ VolumeOverdue \in Nat /\ VolumeDue + AnswerTime + ScanInterval + 1 <= VolumeOverdue
      BY <1>1, OverdueGrows, NothingMoves
    <3> QED BY <1>1, <2>3, <3>1, <3>2, CachedNumbers, CatalogNumbers
  <2> QED BY <1>1, <2>2, <2>4, <2>5 DEF VolumeOK, Resyncing, VolumeDue
<1>4. VolumesOK'
  BY <1>3 DEF VolumesOK, VolumeOK
<1> QED BY <1>2, <1>4 DEF ReadingOK

(* Every step keeps the age of the volumes.                                   *)
LEMMA ReadingStep ==
  ASSUME WatchBounded, CatalogInv, [DiscoveryNext]_discoveryVars
  PROVE  ReadingOK'
<1>1. now \in Nat /\ BoundsMove
  BY DiscoveryMoves DEF WatchBounded
<1>2. CASE catalog_scan
  <2>1. now' = now
    BY <1>2 DEF catalog_scan
  <2>2. CASE series_request_fails
    <3>1. ~NoFailureYet' /\ scan'.phase = "idle" /\ series_cache' = series_cache
      BY <2>2, FaultFails DEF series_request_fails, IdleScan
    <3> QED BY <2>1, <3>1 DEF ReadingOK, VolumesOK, ListsOK, cached_series, CatalogInv
  <2>3. CASE finish_scan
    <3>1. get_markets(0, 0) \/ finish_scan
      BY <2>3
    <3> QED BY <1>1, <2>1, <3>1, ReadingByMarkets
  <2>4. ASSUME NEW s \in Series, NEW failed \in BOOLEAN, get_markets(s, failed) PROVE ReadingOK'
    BY <1>1, <2>1, <2>4, ReadingByMarkets
  <2> QED BY <1>2, <2>1, <2>2, <2>3, <2>4, ReadingByStart, ReadingByList, ReadingByFees DEF catalog_scan
<1> QED BY <1>1, <1>2, ReadingByClock, ReadingByRestart, ReadingKept, ScanElsewhere DEF DiscoveryNext

(* VolumesAreResynced follows. *)
LEMMA VolumesStayResynced == ASSUME WatchBounded, CatalogInv PROVE VolumesAreResynced
<1>1. SUFFICES ASSUME NoFailureYet, "scan" \in budget.parts, NEW s \in cached_series
               PROVE  now - series_cache.read[s] <= FullResync + SeriesTTL + ScanInterval + 1 + 3 * AnswerTime + Restarted(budget.reboots - budget.restarts)
  BY DEF VolumesAreResynced, VolumesWithinWindow
<1>2. VolumeOK(s)
  BY <1>1 DEF CatalogInv, VolumesOK, VolumeOK
<1> DEFINE read == series_cache.read[s]
           waits == Restarted(budget.reboots - budget.restarts)
<1>3. read \in Int /\ now \in Nat
  BY CachedNumbers DEF WatchBounded
<1>4. /\ scan.phase = "idle" => now <= read + VolumeOverdue
      /\ scan.phase \in {"series", "fees"} /\ ~scan.full => scan.started <= read + FullResync
      /\ scan.phase = "markets" => scan.started <= read + VolumeDue
      /\ scan.phase \in {"series", "fees"} /\ scan.full => scan.started <= read + VolumeOverdue
      /\ scan.phase # "idle" => now <= scan.started + AnswerTime
  BY <1>2 DEF VolumeOK, Resyncing, CatalogInv, ScanPace
<1>5. scan.phase \in {"idle", "series", "fees", "markets"} /\ scan.started \in Int /\ scan.full \in BOOLEAN
  BY DEF CatalogInv, ScanOK
<1>6. budget.reboots - budget.restarts \in Nat
  BY DEF WatchBounded
<1>7. waits \in Nat
  BY <1>6, RestartedGrows
<1>8. VolumeOverdue = VolumeDue + ScanInterval + 1 + AnswerTime + waits /\ VolumeDue = FullResync + SeriesTTL + AnswerTime
  BY DEF VolumeOverdue, VolumeDue
<1> HIDE DEF read, waits
<1>9. now <= read + VolumeOverdue + AnswerTime
  BY <1>3, <1>4, <1>5, <1>7, <1>8, CatalogNumbers
<1>10. now - read <= FullResync + SeriesTTL + ScanInterval + 1 + 3 * AnswerTime + waits
  BY <1>3, <1>7, <1>8, <1>9, CatalogNumbers
<1> QED BY <1>10 DEF read, waits

(* Every step keeps the invariant of the catalog.                             *)
LEMMA CatalogStep ==
  ASSUME WatchBounded, CatalogInv, [DiscoveryNext]_discoveryVars
  PROVE  CatalogInv'
BY ListingStep, ShowingStep, PacingStep, ReadingStep DEF CatalogInv, Listing, ShowingOK, PacingOK, ReadingOK

--------------------------------------------------------------------------------
(* The numbers of the prices. *)
LEMMA PricesNumbers ==
  /\ PinnedRefresh \in Nat /\ SnapshotRefresh \in Nat /\ TickEvery \in Nat /\ TickEvery > 0 /\ AnswerTime \in Nat /\ AnswerTime > 0
  /\ TickTime \in Nat /\ TickTime = TickEvery + AnswerTime
BY PricesAssumption, CatalogNumbers DEF TickTime

(* No price is shown, and no fill is known, to begin with.                    *)
LEMMA PricesStart == DiscoveryInit => PricesInv
<1> SUFFICES ASSUME DiscoveryInit PROVE PricesInv
  OBVIOUS
<1>1. now = 0 /\ objects = [k \in Markets |-> NoObject] /\ latest = [price |-> NoRows, stamp |-> NoRows, put_back |-> [k \in Markets |-> 0]]
  BY DEF DiscoveryInit, PricesInit
<1>2. /\ tick = IdleTick
      /\ account = [real |-> {}, sent |-> {}, cache |-> {}, fetched |-> Never, asked |-> Never, shown |-> {}, shared |-> FALSE, up |-> 0]
  BY DEF DiscoveryInit, PricesInit
<1>3. TickOK
  BY <1>2 DEF TickOK, IdleTick, Never, NoRows, Missing
<1>4. PricedOK
  BY <1>1 DEF PricedOK, NoRows, NoObject, Missing
<1>5. TickPace
  BY <1>1, <1>2 DEF TickPace, IdleTick, Never
<1>6. AccountOK /\ SnapshotOK /\ FillsOK
  BY <1>1, <1>2 DEF AccountOK, SnapshotOK, FillsOK, IdleTick, Never, Before
<1>7. ObjectsOK
  <2>1. \A k \in Markets : objects[k] = NoObject
    BY <1>1
  <2> QED BY <1>2, <2>1 DEF ObjectsOK, IdleTick
<1>8. WatchedOK
  <2>1. \A k \in Markets : latest.price[k] = Missing /\ tick.rows[k] = Missing
    BY <1>1, <1>2 DEF NoRows, IdleTick
  <2>2. Watched \subseteq Markets
    BY PricesAssumption DEF Watched, DiscoveryInit
  <2>3. tick.phase = "idle"
    BY <1>2 DEF IdleTick
  <2> QED BY <2>1, <2>2, <2>3 DEF WatchedOK, Stamped, RowTaken, NotShown, Before
<1> QED BY <1>3, <1>4, <1>5, <1>6, <1>7, <1>8 DEF PricesInv

(* What a tick begins with. *)
LEMMA RowsOfMarkets ==
  ASSUME CatalogInv, WatchBounded
  PROVE  /\ pinned_markets \subseteq Markets /\ discovered \subseteq Markets /\ live_candidates \subseteq Markets
         /\ \A k \in Markets : first_row(k) \in Int
<1>1. open_candidates \subseteq Markets
  BY DEF open_candidates
<1>2. discovery.markets \subseteq Markets /\ discovery.fetched \in Int
  BY DEF CatalogInv, ListOK
<1>3. \A s : open_markets_for_series(s) \subseteq Markets
  BY <1>1 DEF open_markets_for_series
<1>4. pinned_markets \subseteq Markets
  BY <1>3 DEF pinned_markets
<1>5. discovered \subseteq Markets /\ live_candidates \subseteq Markets
  BY <1>1, <1>2 DEF discovered, live_candidates
<1>6. \A k \in Markets : first_row(k) \in Int
  BY <1>2 DEF first_row, Missing
<1> QED BY <1>4, <1>5, <1>6

(* What a tick that begins has set.                                           *)
LEMMA StartFields ==
  ASSUME WatchBounded, CatalogInv, PricesInv, start_tick
  PROVE  /\ TickOK' /\ tick.phase = "idle" /\ now - tick.ended >= TickEvery /\ UNCHANGED << objects, latest, budget >>
         /\ tick'.phase = (IF live_candidates = {} THEN "rows" ELSE "hydrate") /\ tick'.started = now /\ tick'.ended = tick.ended /\ tick'.fills = tick.fills
         /\ tick'.rows = [k \in Markets |-> first_row(k)] /\ tick'.shown = pinned_markets \cup discovered \cup live_candidates /\ tick'.ask = live_candidates
         /\ tick'.snapshot = IF snapshot_cached THEN "cached" ELSE "asked"
         /\ DOMAIN account' = DOMAIN account /\ account'.asked = IF snapshot_cached THEN account.asked ELSE now
         /\ account'.real = account.real /\ account'.sent = account.sent /\ account'.cache = account.cache /\ account'.fetched = account.fetched
         /\ account'.shown = account.shown /\ account'.shared = account.shared /\ account'.up = account.up
<1>1. TickOK /\ AccountOK /\ now \in Nat
  BY DEF PricesInv, WatchBounded
<1> DEFINE phase == IF live_candidates = {} THEN "rows" ELSE "hydrate"
           rows == [k \in Markets |-> first_row(k)]
           shown == pinned_markets \cup discovered \cup live_candidates
           snapshot == IF snapshot_cached THEN "cached" ELSE "asked"
           wanted == IF snapshot_cached THEN account.asked ELSE now
<1>2. tick' = [tick EXCEPT !.phase = phase, !.started = now, !.rows = rows, !.shown = shown, !.ask = live_candidates, !.snapshot = snapshot]
  BY DEF start_tick
<1>3. account' = [account EXCEPT !.asked = wanted]
  BY <1>1 DEF start_tick, AccountOK
<1>4. rows \in [Markets -> Int] /\ shown \subseteq Markets /\ live_candidates \subseteq Markets /\ snapshot \in {"cached", "asked"} /\ phase \in {"rows", "hydrate"}
  BY RowsOfMarkets
<1>5. tick.phase = "idle" /\ now - tick.ended >= TickEvery /\ UNCHANGED << objects, latest, budget >>
  BY DEF start_tick
<1> HIDE DEF phase, rows, shown, snapshot, wanted
<1>6. /\ tick'.phase = phase /\ tick'.started = now /\ tick'.ended = tick.ended /\ tick'.fills = tick.fills /\ tick'.rows = rows
      /\ tick'.shown = shown /\ tick'.ask = live_candidates /\ tick'.snapshot = snapshot /\ DOMAIN tick' = DOMAIN tick
  BY <1>1, <1>2 DEF TickOK
<1>7. /\ DOMAIN account' = DOMAIN account /\ account'.asked = wanted
      /\ account'.real = account.real /\ account'.sent = account.sent /\ account'.cache = account.cache /\ account'.fetched = account.fetched
      /\ account'.shown = account.shown /\ account'.shared = account.shared /\ account'.up = account.up
  BY <1>1, <1>3 DEF AccountOK
<1>8. TickOK'
  BY <1>1, <1>4, <1>6 DEF TickOK
<1> QED BY <1>5, <1>6, <1>7, <1>8 DEF phase, rows, shown, snapshot, wanted

(* A lookup: the rows it asks for are read now, and some may be evicted.      *)
LEMMA LookupFields ==
  ASSUME PricesInv, now \in Nat, NEW tickers \in SUBSET Markets, NEW omitted, looked_up(tickers, omitted), account' = account
  PROVE  /\ TickOK' /\ objects' \in [Markets -> [price : Int, at : Int]]
         /\ tick'.phase = (IF tick.phase = "hydrate" THEN "rows" ELSE "gather") /\ tick'.started = tick.started /\ tick'.ended = tick.ended
         /\ tick'.fills = tick.fills /\ tick'.snapshot = tick.snapshot
         /\ tick'.rows = [k \in Markets |-> IF k \in tickers /\ objects'[k] # NoObject THEN objects'[k].price ELSE tick.rows[k]]
         /\ tick'.shown = tick.shown \cup { k \in tickers : objects'[k] # NoObject }
         /\ \E out \in evictions(stored(stale_or_missing(tickers) \ omitted, now)) :
              objects' = [k \in Markets |-> IF k \in out THEN NoObject ELSE stored(stale_or_missing(tickers) \ omitted, now)[k]]
<1>1. TickOK /\ PricedOK
  BY DEF PricesInv
<1> DEFINE wanted == stale_or_missing(tickers) \ omitted
           rows == [k \in Markets |-> IF k \in tickers /\ objects'[k] # NoObject THEN objects'[k].price ELSE tick.rows[k]]
           shown == tick.shown \cup { k \in tickers : objects'[k] # NoObject }
           phase == IF tick.phase = "hydrate" THEN "rows" ELSE "gather"
<1>2. PICK out \in evictions(stored(wanted, now)) :
        /\ objects' = [k \in Markets |-> IF k \in out THEN NoObject ELSE stored(wanted, now)[k]]
        /\ tick' = [tick EXCEPT !.phase = IF @ = "hydrate" THEN "rows" ELSE "gather", !.ask = {},
                      !.rows = [k \in Markets |-> IF k \in tickers /\ objects'[k] # NoObject THEN objects'[k].price ELSE @[k]],
                      !.shown = @ \cup { k \in tickers : objects'[k] # NoObject }]
  BY DEF looked_up
<1>3. tick' = [tick EXCEPT !.phase = phase, !.ask = {}, !.rows = rows, !.shown = shown]
  BY <1>1, <1>2 DEF TickOK
<1>4. \A k \in Markets : stored(wanted, now)[k] \in [price : Int, at : Int]
  BY <1>1 DEF stored, PricedOK
<1>5. NoObject \in [price : Int, at : Int]
  BY DEF NoObject, Missing
<1> HIDE DEF wanted
<1>6. objects' \in [Markets -> [price : Int, at : Int]]
  BY <1>2, <1>4, <1>5
<1>7. rows \in [Markets -> Int] /\ shown \subseteq Markets /\ phase \in {"rows", "gather"}
  BY <1>1, <1>6 DEF TickOK
<1> HIDE DEF rows, shown, phase
<1>8. /\ tick'.phase = phase /\ tick'.started = tick.started /\ tick'.ended = tick.ended /\ tick'.fills = tick.fills /\ tick'.rows = rows
      /\ tick'.shown = shown /\ tick'.ask = {} /\ tick'.snapshot = tick.snapshot /\ DOMAIN tick' = DOMAIN tick
  BY <1>1, <1>3 DEF TickOK
<1>9. TickOK'
  BY <1>1, <1>7, <1>8 DEF TickOK
<1> QED BY <1>2, <1>6, <1>8, <1>9 DEF rows, shown, phase, wanted

(* What reading the snapshot has set.                                         *)
LEMMA ReadFields ==
  ASSUME PricesInv, read_snapshot
  PROVE  /\ tick.phase \in Before /\ tick.snapshot = "asked" /\ TickOK' /\ UNCHANGED << objects, latest, budget >>
         /\ tick'.phase = tick.phase /\ tick'.started = tick.started /\ tick'.ended = tick.ended /\ tick'.rows = tick.rows /\ tick'.shown = tick.shown
         /\ tick'.ask = tick.ask /\ tick'.snapshot = "read" /\ tick'.fills = account.real
         /\ DOMAIN account' = DOMAIN account /\ account'.cache = account.real /\ account'.fetched = account.asked /\ account'.shared = FALSE
         /\ account'.real = account.real /\ account'.sent = account.sent /\ account'.asked = account.asked /\ account'.shown = account.shown /\ account'.up = account.up
<1>1. TickOK /\ AccountOK
  BY DEF PricesInv
<1>2. /\ tick.phase # "idle" /\ tick.snapshot = "asked" /\ UNCHANGED << objects, latest, budget >>
      /\ tick' = [tick EXCEPT !.snapshot = "read", !.fills = account.real]
      /\ account' = [account EXCEPT !.cache = account.real, !.fetched = account.asked, !.shared = FALSE]
  BY DEF read_snapshot
<1>3. tick.phase \in Before
  BY <1>1, <1>2 DEF TickOK, Before
<1>4. /\ tick'.phase = tick.phase /\ tick'.started = tick.started /\ tick'.ended = tick.ended /\ tick'.rows = tick.rows /\ tick'.shown = tick.shown
      /\ tick'.ask = tick.ask /\ tick'.snapshot = "read" /\ tick'.fills = account.real /\ DOMAIN tick' = DOMAIN tick
  BY <1>1, <1>2 DEF TickOK
<1>5. TickOK'
  BY <1>1, <1>3, <1>4 DEF TickOK, Before
<1>6. /\ DOMAIN account' = DOMAIN account /\ account'.cache = account.real /\ account'.fetched = account.asked /\ account'.shared = FALSE
      /\ account'.real = account.real /\ account'.sent = account.sent /\ account'.asked = account.asked /\ account'.shown = account.shown /\ account'.up = account.up
  BY <1>1, <1>2 DEF AccountOK
<1> QED BY <1>2, <1>3, <1>4, <1>5, <1>6

(* What the end of the gathering has set.                                     *)
LEMMA GatheredFields ==
  ASSUME PricesInv, now \in Nat, gathered
  PROVE  /\ tick.phase = "gather" /\ tick.snapshot # "asked" /\ TickOK' /\ PricedOK' /\ UNCHANGED << objects, budget >>
         /\ tick'.phase = "later" /\ tick'.started = tick.started /\ tick'.ended = tick.ended /\ tick'.shown = tick.shown
         /\ tick'.rows = [k \in Markets |-> IF k \in tick.shown THEN overlaid(k) ELSE Missing] /\ tick'.snapshot = tick.snapshot /\ tick'.fills = tick.fills
         /\ latest'.price = latest.price /\ latest'.put_back = latest.put_back /\ latest'.stamp = [k \in Markets |-> restamped(k)]
         /\ DOMAIN account' = DOMAIN account /\ account'.shared = (tick.snapshot = "read")
         /\ account'.shown = IF tick.snapshot = "read" THEN tick.fills ELSE account.cache
         /\ account'.real = account.real /\ account'.sent = account.sent /\ account'.asked = account.asked /\ account'.cache = account.cache
         /\ account'.fetched = account.fetched /\ account'.up = account.up
<1>1. TickOK /\ AccountOK /\ PricedOK
  BY DEF PricesInv
<1> DEFINE rows == [k \in Markets |-> IF k \in tick.shown THEN overlaid(k) ELSE Missing]
           stamp == [k \in Markets |-> restamped(k)]
           read == (tick.snapshot = "read")
           shown == IF tick.snapshot = "read" THEN tick.fills ELSE account.cache
<1>2. /\ tick.phase = "gather" /\ tick.snapshot # "asked" /\ UNCHANGED << objects, budget >>
      /\ latest' = [latest EXCEPT !.stamp = stamp] /\ tick' = [tick EXCEPT !.phase = "later", !.rows = rows]
      /\ account' = [account EXCEPT !.shared = read, !.shown = shown]
  BY DEF gathered
<1>3. rows \in [Markets -> Int] /\ stamp \in [Markets -> Int]
  BY <1>1 DEF TickOK, PricedOK, overlaid, restamped, Missing
<1> HIDE DEF rows, stamp, read, shown
<1>4. /\ tick'.phase = "later" /\ tick'.started = tick.started /\ tick'.ended = tick.ended /\ tick'.rows = rows /\ tick'.shown = tick.shown
      /\ tick'.ask = tick.ask /\ tick'.snapshot = tick.snapshot /\ tick'.fills = tick.fills /\ DOMAIN tick' = DOMAIN tick
  BY <1>1, <1>2 DEF TickOK
<1>5. TickOK'
  BY <1>1, <1>2, <1>3, <1>4 DEF TickOK
<1>6. /\ DOMAIN account' = DOMAIN account /\ account'.cache = account.cache /\ account'.fetched = account.fetched /\ account'.shared = read
      /\ account'.real = account.real /\ account'.sent = account.sent /\ account'.asked = account.asked /\ account'.shown = shown /\ account'.up = account.up
  BY <1>1, <1>2 DEF AccountOK
<1>7. latest'.price = latest.price /\ latest'.put_back = latest.put_back /\ latest'.stamp = stamp /\ DOMAIN latest' = DOMAIN latest
  BY <1>1, <1>2 DEF PricedOK
<1>8. PricedOK'
  BY <1>1, <1>2, <1>3, <1>7 DEF PricedOK
<1> QED BY <1>2, <1>4, <1>5, <1>6, <1>7, <1>8 DEF rows, stamp, read, shown

(* What the rebuild at the end of a tick has set.                             *)
LEMMA RebuildFields ==
  ASSUME PricesInv, now \in Nat, rebuild
  PROVE  /\ tick.phase = "later" /\ TickOK' /\ PricedOK' /\ UNCHANGED << objects, account, budget >>
         /\ tick'.phase = "idle" /\ tick'.ended = now /\ tick'.snapshot = "none" /\ tick'.fills = {} /\ tick'.rows = NoRows
         /\ latest'.price = tick.rows
         /\ latest'.stamp = [k \in Markets |-> IF tick.rows[k] = Missing THEN Missing ELSE latest.stamp[k]]
         /\ latest'.put_back = [k \in Markets |-> latest.put_back[k] + IF tick.rows[k] < latest.price[k] THEN 1 ELSE 0]
<1>1. TickOK /\ PricedOK
  BY DEF PricesInv
<1> DEFINE stamp == [k \in Markets |-> IF tick.rows[k] = Missing THEN Missing ELSE latest.stamp[k]]
           put_back == [k \in Markets |-> latest.put_back[k] + IF tick.rows[k] < latest.price[k] THEN 1 ELSE 0]
<1>2. /\ tick.phase = "later" /\ UNCHANGED << objects, account, budget >>
      /\ latest' = [price |-> tick.rows, stamp |-> stamp, put_back |-> put_back] /\ tick' = [IdleTick EXCEPT !.ended = now]
  BY DEF rebuild
<1>3. stamp \in [Markets -> Int] /\ put_back \in [Markets -> Nat]
  BY <1>1 DEF TickOK, PricedOK, Missing
<1> HIDE DEF stamp, put_back
<1>4. /\ tick'.phase = "idle" /\ tick'.ended = now /\ tick'.snapshot = "none" /\ tick'.fills = {} /\ tick'.rows = NoRows
      /\ tick'.shown = {} /\ tick'.ask = {} /\ tick'.started = Never /\ DOMAIN tick' = {"phase", "started", "ended", "rows", "shown", "ask", "snapshot", "fills"}
  BY <1>2 DEF IdleTick
<1>5. TickOK'
  BY <1>4 DEF TickOK, NoRows, Never, Missing
<1>6. latest'.price = tick.rows /\ latest'.put_back = put_back /\ latest'.stamp = stamp /\ DOMAIN latest' = {"price", "stamp", "put_back"}
  BY <1>2
<1>7. PricedOK'
  BY <1>1, <1>2, <1>3, <1>6 DEF PricedOK, TickOK
<1> QED BY <1>2, <1>4, <1>5, <1>6, <1>7 DEF stamp, put_back

(* A tick that fails, and a lookup that does.                                 *)
LEMMA FailFields ==
  ASSUME PricesInv, now \in Nat, tick_fails \/ (hydrate(TRUE))
  PROVE  /\ TickOK' /\ UNCHANGED << objects, latest, account >> /\ Spends("faults")
         /\ \/ tick'.phase = "idle" /\ tick'.ended = now /\ tick'.snapshot = "none" /\ tick'.fills = {} /\ tick'.rows = NoRows
            \/ /\ tick.phase = "hydrate" /\ tick'.phase = "rows" /\ tick'.started = tick.started /\ tick'.ended = tick.ended /\ tick'.rows = tick.rows
               /\ tick'.shown = tick.shown /\ tick'.snapshot = tick.snapshot /\ tick'.fills = tick.fills
<1>1. TickOK
  BY DEF PricesInv
<1>2. CASE tick_fails
  <2>1. tick' = [IdleTick EXCEPT !.ended = now] /\ Spends("faults") /\ UNCHANGED << objects, latest, account >>
    BY <1>2 DEF tick_fails
  <2>2. /\ tick'.phase = "idle" /\ tick'.ended = now /\ tick'.snapshot = "none" /\ tick'.fills = {} /\ tick'.rows = NoRows
        /\ tick'.shown = {} /\ tick'.ask = {} /\ tick'.started = Never /\ DOMAIN tick' = {"phase", "started", "ended", "rows", "shown", "ask", "snapshot", "fills"}
    BY <2>1 DEF IdleTick
  <2>3. TickOK'
    BY <2>2 DEF TickOK, NoRows, Never, Missing
  <2> QED BY <2>1, <2>2, <2>3
<1>3. CASE hydrate(TRUE)
  <2>1. tick.phase = "hydrate" /\ tick' = [tick EXCEPT !.phase = "rows", !.ask = {}] /\ Spends("faults") /\ UNCHANGED << objects, latest, account >>
    BY <1>3 DEF hydrate
  <2>2. /\ tick'.phase = "rows" /\ tick'.started = tick.started /\ tick'.ended = tick.ended /\ tick'.rows = tick.rows
        /\ tick'.shown = tick.shown /\ tick'.snapshot = tick.snapshot /\ tick'.fills = tick.fills /\ tick'.ask = {} /\ DOMAIN tick' = DOMAIN tick
    BY <1>1, <2>1 DEF TickOK
  <2>3. TickOK'
    BY <1>1, <2>2 DEF TickOK
  <2> QED BY <2>1, <2>2, <2>3
<1> QED BY <1>2, <1>3

(* The account and the pace of the tick, over each step.                      *)
TickingOK == TickOK /\ TickPace /\ AccountOK /\ SnapshotOK /\ FillsOK

(* A fill waits from when it happened, or from the restart after it.          *)
LEMMA SinceIsNat == ASSUME AccountOK, NEW f \in account.real PROVE Since(f) \in Nat /\ Since(f) >= f.at /\ Since(f) >= account.up
BY DEF AccountOK, Since

(* A step that touches neither the tick nor the account keeps their pace.     *)
LEMMA TickingKept ==
  ASSUME WatchBounded, PricesInv, BoundsMove, now' = now, UNCHANGED << tick, account >>
  PROVE  TickingOK'
<1>1. budget'.parts = budget.parts /\ (NoFailureYet' => NoFailureYet)
  BY FailureStays DEF WatchBounded
<1> QED BY <1>1 DEF PricesInv, TickOK, TickPace, AccountOK, SnapshotOK, FillsOK, TickingOK, Hidden, Since

(* A tick begins, with the cached snapshot while it is fresh.                 *)
LEMMA TickingByStart ==
  ASSUME WatchBounded, CatalogInv, PricesInv, "prices" \in budget.parts, start_tick, now' = now
  PROVE  TickingOK'
<1>1. now \in Nat /\ TickOK /\ TickPace /\ AccountOK /\ SnapshotOK /\ FillsOK
  BY DEF PricesInv, WatchBounded
<1>2. /\ TickOK' /\ tick.phase = "idle" /\ now - tick.ended >= TickEvery /\ budget' = budget
      /\ tick'.phase \in Before /\ tick'.started = now /\ tick'.ended = tick.ended /\ tick'.fills = tick.fills
      /\ tick'.snapshot = (IF snapshot_cached THEN "cached" ELSE "asked")
      /\ DOMAIN account' = DOMAIN account /\ account'.asked = (IF snapshot_cached THEN account.asked ELSE now)
      /\ account'.real = account.real /\ account'.sent = account.sent /\ account'.cache = account.cache /\ account'.fetched = account.fetched
      /\ account'.shown = account.shown /\ account'.shared = account.shared /\ account'.up = account.up
  BY StartFields DEF Before
<1>3. TickPace'
  BY <1>1, <1>2, CatalogNumbers DEF TickPace, AccountOK, Before
<1>4. AccountOK'
  BY <1>1, <1>2 DEF AccountOK
<1>5. snapshot_cached => now < account.fetched + SnapshotRefresh
  BY <1>1, PricesNumbers DEF snapshot_cached, AccountOK
<1>6. SnapshotOK'
  BY <1>1, <1>2, <1>5 DEF SnapshotOK
<1>7. ASSUME NoFailureYet, NEW f \in account.real, Hidden(f) PROVE now <= Since(f) + SnapshotRefresh + TickTime
  <2>1. tick.ended <= Since(f) + SnapshotRefresh + AnswerTime
    BY <1>1, <1>2, <1>7 DEF FillsOK
  <2>2. now <= tick.ended + TickEvery \/ now = account.up
    BY <1>1, <1>2 DEF TickPace
  <2> QED BY <1>1, <2>1, <2>2, SinceIsNat, PricesNumbers DEF TickOK, AccountOK
<1>8. FillsOK'
  BY <1>1, <1>2, <1>7 DEF FillsOK, NoFailureYet, Hidden, Since, Before
<1> QED BY <1>2, <1>3, <1>4, <1>6, <1>8 DEF TickingOK

(* Steps within a tick that leave the account and the start alone.            *)
LEMMA TickingOnward ==
  ASSUME WatchBounded, PricesInv, BoundsMove, now' = now, TickOK', account' = account,
         tick.phase \in Before, tick'.phase \in Before, tick'.started = tick.started, tick'.ended = tick.ended,
         tick'.fills = tick.fills, tick'.snapshot = tick.snapshot
  PROVE  TickingOK'
<1>1. budget'.parts = budget.parts /\ (NoFailureYet' => NoFailureYet)
  BY FailureStays DEF WatchBounded
<1>2. TickPace' /\ AccountOK'
  BY <1>1 DEF PricesInv, TickPace, AccountOK, Before
<1>3. SnapshotOK'
  BY <1>1 DEF PricesInv, SnapshotOK, Before
<1>4. FillsOK'
  BY <1>1 DEF PricesInv, FillsOK, Before, Hidden, Since
<1> QED BY <1>2, <1>3, <1>4 DEF TickingOK

(* A snapshot that is read has every fill up to when it was asked for.        *)
LEMMA TickingByRead ==
  ASSUME WatchBounded, PricesInv, read_snapshot, now' = now
  PROVE  TickingOK'
<1>1. now \in Nat /\ TickOK /\ TickPace /\ AccountOK /\ SnapshotOK /\ FillsOK
  BY DEF PricesInv, WatchBounded
<1>2. TickPace'
  BY <1>1, ReadFields DEF TickPace
<1>3. AccountOK'
  BY <1>1, ReadFields DEF AccountOK
<1>4. SnapshotOK'
  BY <1>1, ReadFields DEF SnapshotOK, Before
<1>5. FillsOK'
  BY <1>1, ReadFields DEF FillsOK, NoFailureYet, Hidden, Since, Before
<1> QED BY <1>2, <1>3, <1>4, <1>5, ReadFields DEF TickingOK

(* The snapshot of the tick is shown from here on.                            *)
LEMMA TickingByGathered ==
  ASSUME WatchBounded, PricesInv, gathered, now' = now
  PROVE  TickingOK'
<1>1. now \in Nat /\ TickOK /\ TickPace /\ AccountOK /\ SnapshotOK /\ FillsOK
  BY DEF PricesInv, WatchBounded
<1>2. /\ tick.phase = "gather" /\ tick.snapshot \in {"cached", "read"} /\ TickOK' /\ budget' = budget
      /\ tick'.phase = "later" /\ tick'.started = tick.started /\ tick'.ended = tick.ended /\ tick'.snapshot = tick.snapshot /\ tick'.fills = tick.fills
      /\ DOMAIN account' = DOMAIN account /\ account'.shared \in BOOLEAN
      /\ account'.shown = (IF tick.snapshot = "read" THEN tick.fills ELSE account.cache)
      /\ account'.real = account.real /\ account'.sent = account.sent /\ account'.asked = account.asked /\ account'.cache = account.cache
      /\ account'.fetched = account.fetched /\ account'.up = account.up
  BY <1>1, GatheredFields DEF TickOK, TickPace
<1>3. TickPace'
  BY <1>1, <1>2 DEF TickPace
<1>4. AccountOK'
  BY <1>1, <1>2 DEF AccountOK
<1>5. SnapshotOK'
  BY <1>1, <1>2 DEF SnapshotOK
<1>6. ASSUME NEW f \in account.real, f \notin account'.shown PROVE tick.started <= Since(f) + SnapshotRefresh
  <2>1. Since(f) \in Nat /\ f.at \in Nat /\ Since(f) >= f.at
    BY <1>1, SinceIsNat DEF AccountOK
  <2>2. CASE tick.snapshot = "read"
    <3>1. tick.started <= f.at
      BY <1>1, <1>2, <1>6, <2>2 DEF SnapshotOK
    <3> QED BY <1>1, <2>1, <3>1, PricesNumbers DEF TickOK
  <2>3. CASE tick.snapshot = "cached"
    <3>1. account.fetched <= f.at /\ tick.started < account.fetched + SnapshotRefresh
      BY <1>1, <1>2, <1>6, <2>3 DEF SnapshotOK
    <3> QED BY <1>1, <2>1, <3>1, PricesNumbers DEF TickOK, AccountOK
  <2> QED BY <1>2, <2>2, <2>3
<1>7. account.cache \subseteq account'.shown
  BY <1>1, <1>2 DEF SnapshotOK
<1>8. FillsOK'
  BY <1>1, <1>2, <1>6, <1>7 DEF FillsOK, Hidden, Since, Before
<1> QED BY <1>2, <1>3, <1>4, <1>5, <1>8 DEF TickingOK

(* The tick ends now.                                                         *)
LEMMA TickingByRebuild ==
  ASSUME WatchBounded, PricesInv, rebuild, now' = now
  PROVE  TickingOK'
<1>1. now \in Nat /\ TickOK /\ TickPace /\ AccountOK /\ SnapshotOK /\ FillsOK
  BY DEF PricesInv, WatchBounded
<1>2. TickPace'
  BY <1>1, RebuildFields, PricesNumbers DEF TickPace, AccountOK
<1>3. AccountOK'
  BY <1>1, RebuildFields DEF AccountOK
<1>4. SnapshotOK'
  BY <1>1, RebuildFields DEF SnapshotOK
<1>5. ASSUME NoFailureYet, NEW f \in account.real, Hidden(f) PROVE now <= Since(f) + SnapshotRefresh + AnswerTime
  <2>1. tick.started <= Since(f) + SnapshotRefresh /\ now <= tick.started + AnswerTime
    BY <1>1, <1>5, RebuildFields DEF FillsOK, TickPace
  <2> QED BY <1>1, <2>1, SinceIsNat, PricesNumbers DEF TickOK
<1>6. FillsOK'
  <2>1. account' = account /\ budget' = budget /\ tick'.phase = "idle" /\ tick'.ended = now /\ tick.phase = "later" /\ tick'.snapshot = "none"
    BY <1>1, RebuildFields
  <2> QED BY <1>1, <1>5, <2>1 DEF FillsOK, NoFailureYet, Hidden, Since, Before
<1> QED BY <1>1, <1>2, <1>3, <1>4, <1>6, RebuildFields DEF TickingOK

(* A tick that fails has spent a fault.                                       *)
LEMMA TickingByFail ==
  ASSUME WatchBounded, PricesInv, tick_fails \/ (hydrate(TRUE)), now' = now
  PROVE  TickingOK'
<1>1. now \in Nat /\ TickOK /\ TickPace /\ AccountOK /\ SnapshotOK
  BY DEF PricesInv, WatchBounded
<1>2. ~NoFailureYet' /\ BoundsMove
  BY <1>1, FailFields, FaultFails
<1>3. budget'.parts = budget.parts
  BY <1>1, <1>2, FailureStays
<1>4. TickPace'
  <2>1. account' = account /\ account.up \in Nat
    BY <1>1, FailFields DEF AccountOK
  <2>2. CASE tick'.phase = "idle" /\ tick'.ended = now /\ tick'.snapshot = "none"
    BY <1>1, <1>3, <2>1, <2>2, PricesNumbers DEF TickPace
  <2>3. CASE tick.phase = "hydrate" /\ tick'.phase = "rows" /\ tick'.started = tick.started /\ tick'.ended = tick.ended /\ tick'.snapshot = tick.snapshot
    BY <1>1, <1>3, <2>1, <2>3 DEF TickPace
  <2> QED BY <1>1, <2>2, <2>3, FailFields
<1>5. AccountOK' /\ SnapshotOK'
  BY <1>1, FailFields DEF AccountOK, SnapshotOK
<1> QED BY <1>1, <1>2, <1>4, <1>5, FailFields DEF TickingOK, FillsOK

(* A fill that happens now has not waited.                                    *)
LEMMA TickingByFill ==
  ASSUME WatchBounded, PricesInv, NEW f, fill_happens(f), now' = now
  PROVE  TickingOK'
<1>1. now \in Nat /\ TickOK /\ TickPace /\ AccountOK /\ SnapshotOK /\ FillsOK
  BY DEF PricesInv, WatchBounded
<1>0. PICK g : g = [id |-> f, at |-> now]
  OBVIOUS
<1>2. tick' = tick /\ budget' = budget /\ account' = [account EXCEPT !.real = account.real \cup {g}, !.sent = account.sent \cup {g}]
  BY <1>0, <1>1 DEF fill_happens, AccountOK
<1>3. g.at = now
  BY <1>0
<1>4. /\ DOMAIN account' = DOMAIN account /\ account'.real = account.real \cup {g} /\ account'.sent = account.sent \cup {g} /\ account'.cache = account.cache
      /\ account'.fetched = account.fetched /\ account'.asked = account.asked /\ account'.shown = account.shown /\ account'.shared = account.shared /\ account'.up = account.up
  BY <1>1, <1>2 DEF AccountOK
<1>5. AccountOK'
  BY <1>1, <1>2, <1>3, <1>4 DEF AccountOK
<1>6. TickOK' /\ TickPace'
  BY <1>1, <1>2, <1>4 DEF TickOK, TickPace
<1>7. SnapshotOK'
  <2>1. account.fetched <= g.at /\ (tick.phase # "idle" => tick.started <= g.at)
    BY <1>1, <1>3 DEF AccountOK, TickPace
  <2>2. tick.snapshot = "read" => tick.phase # "idle"
    BY <1>1 DEF TickOK
  <2> QED BY <1>1, <1>2, <1>4, <2>1, <2>2 DEF SnapshotOK
<1>8. FillsOK'
  <2>1. Since(g)' >= now /\ Since(g)' \in Nat
    BY <1>1, <1>3, <1>4 DEF Since, AccountOK
  <2>2. tick.ended <= now /\ (tick.phase # "idle" => tick.started <= now)
    BY <1>1 DEF TickPace
  <2>3. \A h : Since(h)' = Since(h) /\ Hidden(h)' = Hidden(h)
    BY <1>4 DEF Since, Hidden
  <2>4. /\ tick.phase = "idle" => tick.ended <= Since(g)' + SnapshotRefresh + AnswerTime
        /\ tick.phase \in Before => tick.started <= Since(g)' + SnapshotRefresh + TickTime
        /\ tick.phase = "later" => tick.started <= Since(g)' + SnapshotRefresh
    BY <1>1, <2>1, <2>2, PricesNumbers DEF TickOK, Before
  <2> QED BY <1>1, <1>2, <1>4, <2>3, <2>4 DEF FillsOK, NoFailureYet
<1> QED BY <1>5, <1>6, <1>7, <1>8 DEF TickingOK

(* A fill the stream tells of is shown early.                                 *)
LEMMA TickingByStream ==
  ASSUME WatchBounded, PricesInv, NEW f, process_stream_fill(f), now' = now
  PROVE  TickingOK'
<1>1. now \in Nat /\ TickOK /\ TickPace /\ AccountOK /\ SnapshotOK /\ FillsOK
  BY DEF PricesInv, WatchBounded
<1> DEFINE cache == IF account.shared THEN account.cache \cup {f} ELSE account.cache
<1>2. /\ f \in account.sent /\ tick' = tick /\ budget' = budget
      /\ account' = [account EXCEPT !.sent = account.sent \ {f}, !.shown = account.shown \cup {f}, !.cache = cache]
  BY <1>1 DEF process_stream_fill, AccountOK
<1>3. account.cache \subseteq cache /\ cache \subseteq account.cache \cup {f} /\ (~account.shared => cache = account.cache)
  OBVIOUS
<1> HIDE DEF cache
<1>4. /\ DOMAIN account' = DOMAIN account /\ account'.real = account.real /\ account'.sent = account.sent \ {f} /\ account'.cache = cache
      /\ account'.fetched = account.fetched /\ account'.asked = account.asked /\ account'.shown = account.shown \cup {f}
      /\ account'.shared = account.shared /\ account'.up = account.up
  BY <1>1, <1>2 DEF AccountOK
<1>5. AccountOK'
  BY <1>1, <1>2, <1>3, <1>4 DEF AccountOK
<1>6. TickOK' /\ TickPace'
  BY <1>1, <1>2, <1>4 DEF TickOK, TickPace
<1>7. SnapshotOK'
  BY <1>1, <1>2, <1>3, <1>4 DEF SnapshotOK
<1>8. FillsOK'
  BY <1>1, <1>2, <1>3, <1>4 DEF FillsOK, NoFailureYet, Hidden, Since
<1> QED BY <1>5, <1>6, <1>7, <1>8 DEF TickingOK

(* Time passes while a tick is due or in progress.                            *)
LEMMA TickingByClock ==
  ASSUME WatchBounded, PricesInv, tick_clock
  PROVE  TickingOK'
<1>1. now \in Nat /\ TickOK /\ TickPace /\ AccountOK /\ SnapshotOK /\ FillsOK
  BY DEF PricesInv, WatchBounded
<1>2. now' = now + 1 /\ UNCHANGED << tick, account, budget >> /\ PricesPrompt
  BY DEF tick_clock, priceVars
<1>3. TickPace'
  BY <1>1, <1>2, PricesNumbers DEF TickPace, PricesPrompt, TickOK, AccountOK
<1>4. AccountOK'
  <2>1. \A f \in account.real : f.at <= now + 1
    BY <1>1 DEF AccountOK
  <2> QED BY <1>1, <1>2, <2>1 DEF AccountOK
<1>5. TickOK' /\ SnapshotOK' /\ FillsOK'
  BY <1>1, <1>2 DEF TickOK, SnapshotOK, FillsOK, NoFailureYet, Hidden, Since
<1> QED BY <1>3, <1>4, <1>5 DEF TickingOK

(* A restart ends the tick, and every wait begins anew.                       *)
LEMMA TickingByRestart ==
  ASSUME WatchBounded, PricesInv, restart
  PROVE  TickingOK'
<1>1. now \in Nat /\ TickOK /\ TickPace /\ AccountOK /\ SnapshotOK /\ FillsOK /\ now' = now
  BY DEF PricesInv, WatchBounded, restart
<1>2. tick' = IdleTick /\ account' = [account EXCEPT !.sent = {}, !.cache = {}, !.fetched = Never, !.shown = {}, !.shared = FALSE, !.up = now]
  BY DEF restart, restart_prices
<1>3. /\ DOMAIN account' = DOMAIN account /\ account'.real = account.real /\ account'.sent = {} /\ account'.cache = {}
      /\ account'.fetched = Never /\ account'.asked = account.asked /\ account'.shown = {} /\ account'.shared = FALSE /\ account'.up = now
  BY <1>1, <1>2 DEF AccountOK
<1>4. /\ tick'.phase = "idle" /\ tick'.ended = Never /\ tick'.snapshot = "none" /\ tick'.fills = {} /\ tick'.rows = NoRows
      /\ tick'.shown = {} /\ tick'.ask = {} /\ tick'.started = Never /\ DOMAIN tick' = {"phase", "started", "ended", "rows", "shown", "ask", "snapshot", "fills"}
  BY <1>2 DEF IdleTick
<1>5. TickOK'
  BY <1>4 DEF TickOK, NoRows, Never, Missing
<1>6. TickPace'
  BY <1>1, <1>3, <1>4 DEF TickPace, Never
<1>7. AccountOK'
  <2>1. account.asked \in Int /\ account.asked <= now /\ \A f \in account.real : f.at \in Nat /\ f.at <= now
    BY <1>1 DEF AccountOK
  <2>2. Never \in Int /\ Never <= now
    BY <1>1 DEF Never
  <2>3. DOMAIN account' = {"real", "sent", "cache", "fetched", "asked", "shown", "shared", "up"}
    BY <1>1, <1>3 DEF AccountOK
  <2> QED BY <1>1, <1>3, <1>4, <2>1, <2>2, <2>3 DEF AccountOK
<1>8. SnapshotOK'
  BY <1>1, <1>3, <1>4 DEF SnapshotOK, AccountOK, Never
<1>9. FillsOK'
  <2>1. ASSUME NEW f \in account'.real PROVE Never <= Since(f)' + SnapshotRefresh + AnswerTime
    <3>1. Since(f)' \in Nat
      BY <1>7, <2>1 DEF AccountOK, Since
    <3> QED BY <3>1, PricesNumbers DEF Never
  <2> QED BY <1>3, <1>4, <2>1 DEF FillsOK, Before
<1> QED BY <1>5, <1>6, <1>7, <1>8, <1>9 DEF TickingOK

(* What the account's steps and those of the tick leave alone.                *)
LEMMA PricesElsewhere ==
  ASSUME catalog_scan \/ exchange_moves \/ refresh_discovery \/ event_scans \/ event_polls \/ event_winners \/ event_details \/ UNCHANGED discoveryVars
  PROVE  UNCHANGED << objects, latest, tick, account >> /\ now' = now
BY DEF catalog_scan, exchange_moves, refresh_discovery, event_scans, event_polls, event_winners, event_details, priceVars, discoveryVars

(* A lookup of the live candidates, or of the positions.                      *)
LEMMA LookupStep ==
  ASSUME WatchBounded, CatalogInv, PricesInv, hydrate(FALSE) \/ fetch_positions
  PROVE  /\ tick.phase \in {"hydrate", "rows"} /\ UNCHANGED << latest, account >>
         /\ \E tickers \in SUBSET Markets, omitted \in SUBSET Markets :
              /\ looked_up(tickers, omitted) /\ (omitted # {} => Spends("omits"))
              /\ tick.phase = "hydrate" => tickers = tick.ask /\ omitted = {}
              /\ tick.phase = "rows" => tickers = Held \ tick.shown
<1>1. CASE hydrate(FALSE)
  <2>1. tick.phase = "hydrate" /\ looked_up(tick.ask, {}) /\ UNCHANGED << latest, account >>
    BY <1>1 DEF hydrate
  <2>2. tick.ask \in SUBSET Markets /\ {} \in SUBSET Markets
    BY DEF PricesInv, TickOK
  <2> QED BY <2>1, <2>2
<1>2. CASE fetch_positions
  <2>1. tick.phase = "rows" /\ UNCHANGED << latest, account >>
    BY <1>2 DEF fetch_positions
  <2>2. PICK omitted \in SUBSET (Held \ tick.shown) :
          (IF omitted = {} THEN UNCHANGED budget ELSE Spends("omits")) /\ looked_up(Held \ tick.shown, omitted)
    BY <1>2 DEF fetch_positions
  <2>3. Held \subseteq Markets
    BY DEF WatchBounded, Held
  <2> QED BY <2>1, <2>2, <2>3
<1> QED BY <1>1, <1>2

(* Looking the rows up touches neither the pace nor the account.              *)
LEMMA TickingByLookup ==
  ASSUME WatchBounded, CatalogInv, PricesInv, hydrate(FALSE) \/ fetch_positions, BoundsMove, now' = now
  PROVE  TickingOK'
<1>1. tick.phase \in {"hydrate", "rows"} /\ UNCHANGED << latest, account >> /\ now \in Nat
  BY LookupStep DEF WatchBounded
<1>2. PICK tickers \in SUBSET Markets, omitted \in SUBSET Markets : looked_up(tickers, omitted)
  BY LookupStep
<1>3. /\ TickOK' /\ tick'.phase \in {"rows", "gather"} /\ tick'.started = tick.started /\ tick'.ended = tick.ended
      /\ tick'.fills = tick.fills /\ tick'.snapshot = tick.snapshot
  BY <1>1, <1>2, LookupFields
<1> QED BY <1>1, <1>3, TickingOnward DEF Before

(* Every step keeps the pace of the ticks and of the account.                 *)
LEMMA TickingStep ==
  ASSUME WatchBounded, CatalogInv, PricesInv, [DiscoveryNext]_discoveryVars
  PROVE  TickingOK'
<1>1. now \in Nat /\ BoundsMove
  BY DiscoveryMoves DEF WatchBounded
<1>2. CASE trading_tick
  <2>1. now' = now /\ "prices" \in budget.parts
    BY <1>2 DEF trading_tick, Takes
  <2>2. ASSUME NEW k, process_stream_ticker(k) PROVE TickingOK'
    BY <1>1, <2>1, <2>2, TickingKept DEF process_stream_ticker
  <2>3. ASSUME NEW failed \in BOOLEAN, hydrate(failed) PROVE TickingOK'
    <3>1. hydrate(FALSE) \/ hydrate(TRUE)
      BY <2>3
    <3> QED BY <1>1, <2>1, <3>1, TickingByLookup, TickingByFail
  <2>4. ASSUME start_tick \/ fetch_positions \/ read_snapshot \/ gathered \/ rebuild \/ tick_fails PROVE TickingOK'
    BY <1>1, <2>1, <2>4, TickingByStart, TickingByLookup, TickingByRead, TickingByGathered, TickingByRebuild, TickingByFail
  <2> QED BY <1>2, <2>2, <2>3, <2>4 DEF trading_tick
<1>3. CASE account_fills
  <2>1. now' = now
    BY <1>3 DEF account_fills
  <2> QED BY <1>3, <2>1, TickingByFill, TickingByStream DEF account_fills
<1> QED BY <1>1, <1>2, <1>3, TickingByClock, TickingByRestart, PricesElsewhere, TickingKept DEF DiscoveryNext

(* FillsAreReconciled follows. *)
LEMMA FillsStayReconciled == ASSUME WatchBounded, PricesInv PROVE FillsAreReconciled
<1>1. now \in Nat /\ TickOK /\ TickPace /\ AccountOK /\ SnapshotOK /\ FillsOK
  BY DEF PricesInv, WatchBounded
<1>2. SUFFICES ASSUME NoFailureYet, "prices" \in budget.parts, NEW f \in account.real, f \notin account.shown,
                      now - f.at > SnapshotRefresh + 2 * TickTime, now - account.up > SnapshotRefresh + 2 * TickTime
               PROVE  FALSE
  BY DEF FillsAreReconciled
<1>3. f.at \in Nat /\ account.up \in Nat /\ (Since(f) = f.at \/ Since(f) = account.up)
  BY <1>1 DEF AccountOK, Since
<1>4. now > Since(f) + SnapshotRefresh + 2 * TickTime /\ Since(f) \in Nat
  BY <1>1, <1>2, <1>3, PricesNumbers
<1>5. /\ tick.phase = "idle" => tick.ended <= Since(f) + SnapshotRefresh + AnswerTime
      /\ tick.phase \in Before => tick.started <= Since(f) + SnapshotRefresh + TickTime
      /\ tick.phase = "later" => tick.started <= Since(f) + SnapshotRefresh
  BY <1>1, <1>2 DEF FillsOK, Hidden
<1>6. CASE tick.phase = "idle"
  <2>1. now <= tick.ended + TickEvery
    BY <1>1, <1>2, <1>3, <1>6, PricesNumbers DEF TickPace
  <2> QED BY <1>1, <1>4, <1>5, <1>6, <2>1, PricesNumbers DEF TickOK
<1>7. CASE tick.phase # "idle"
  <2>1. now <= tick.started + AnswerTime /\ tick.phase \in Before \cup {"later"} /\ tick.started \in Int
    BY <1>1, <1>7 DEF TickPace, TickOK, Before
  <2>2. tick.started <= Since(f) + SnapshotRefresh + TickTime
    BY <1>4, <1>5, <2>1, PricesNumbers
  <2> QED BY <1>1, <1>4, <2>1, <2>2, PricesNumbers
<1> QED BY <1>6, <1>7

--------------------------------------------------------------------------------
(* The cache of rows: types and times.                                        *)
CachingOK == PricedOK /\ ObjectsOK

(* A row looked up was read before the tick, and evictions only empty.        *)
LEMMA CachingByLookup ==
  ASSUME WatchBounded, CatalogInv, PricesInv, hydrate(FALSE) \/ fetch_positions, now' = now
  PROVE  CachingOK'
<1>1. tick.phase \in {"hydrate", "rows"} /\ UNCHANGED << latest, account >> /\ now \in Nat
  BY LookupStep DEF WatchBounded
<1>2. PICK tickers \in SUBSET Markets, omitted \in SUBSET Markets : looked_up(tickers, omitted)
  BY LookupStep
<1> DEFINE wanted == stale_or_missing(tickers) \ omitted
<1>3. PICK out : objects' = [k \in Markets |-> IF k \in out THEN NoObject ELSE stored(wanted, now)[k]]
  BY <1>2 DEF looked_up
<1>4. tick'.phase \in {"rows", "gather"} /\ objects' \in [Markets -> [price : Int, at : Int]]
  <2>1. account' = account
    BY <1>1
  <2>2. tick'.phase = (IF tick.phase = "hydrate" THEN "rows" ELSE "gather") /\ objects' \in [Markets -> [price : Int, at : Int]]
    BY <1>1, <1>2, <2>1, LookupFields
  <2> QED BY <2>2
<1>5. PricedOK'
  BY <1>1, <1>4 DEF PricesInv, PricedOK
<1> HIDE DEF wanted
<1>6. ASSUME NEW k \in Markets, objects'[k] # NoObject PROVE objects'[k].price = objects'[k].at /\ objects'[k].at <= now
  <2>1. objects'[k] = stored(wanted, now)[k]
    BY <1>3, <1>6
  <2>2. CASE k \in wanted
    BY <1>1, <2>1, <2>2 DEF stored
  <2>3. CASE k \notin wanted
    BY <1>6, <2>1, <2>3 DEF stored, PricesInv, ObjectsOK
  <2> QED BY <2>2, <2>3
<1>7. ObjectsOK'
  BY <1>4, <1>6 DEF ObjectsOK
<1> QED BY <1>5, <1>7 DEF CachingOK

(* A tick begins with the rows that are fresh, and asks for the others.       *)
LEMMA CachingByStart ==
  ASSUME WatchBounded, CatalogInv, PricesInv, start_tick, now' = now
  PROVE  CachingOK'
<1>1. UNCHANGED << objects, latest, budget >> /\ tick.phase = "idle" /\ now - tick.ended >= TickEvery /\ tick'.started = now /\ tick'.ask = live_candidates
      /\ tick'.phase = IF live_candidates = {} THEN "rows" ELSE "hydrate"
  BY StartFields
<1>2. live_candidates # {} => budget.mode = "live" /\ live_candidates \subseteq budget.live
  BY DEF live_candidates
<1>3. \A k \in Markets : objects[k] # NoObject => objects[k].at < now
  <2>1. \A k \in Markets : objects[k] # NoObject => objects[k].at <= tick.ended /\ objects[k].at \in Int
    BY <1>1 DEF PricesInv, ObjectsOK, PricedOK
  <2> QED BY <1>1, <2>1, PricesNumbers DEF PricesInv, TickOK, WatchBounded
<1> QED BY <1>1, <1>2, <1>3 DEF PricesInv, PricedOK, ObjectsOK, CachingOK

(* Every step keeps the rows of the cache in order.                           *)
LEMMA CachingStep ==
  ASSUME WatchBounded, CatalogInv, PricesInv, [DiscoveryNext]_discoveryVars
  PROVE  CachingOK'
<1>1. now \in Nat /\ BoundsMove /\ now' \in Nat /\ now' >= now
  BY DiscoveryMoves DEF WatchBounded
<1>2. budget'.mode = budget.mode /\ budget'.live = budget.live
  BY <1>1, FailureStays
<1>3. PricedOK /\ ObjectsOK /\ TickOK /\ TickPace
  BY DEF PricesInv
<1>4. CASE UNCHANGED << objects, latest, tick >>
  <2>1. \A k \in Markets : objects[k].at \in Int
    BY <1>3 DEF PricedOK
  <2> QED BY <1>1, <1>2, <1>3, <1>4, <2>1 DEF PricedOK, ObjectsOK, CachingOK
<1>5. CASE trading_tick
  <2>1. now' = now
    BY <1>5 DEF trading_tick
  <2>2. CASE \E k \in Held : process_stream_ticker(k)
    <3>1. PICK k \in Held : process_stream_ticker(k)
      BY <2>2
    <3>2. UNCHANGED << objects, tick >> /\ latest' = [latest EXCEPT !.price[k] = now, !.stamp[k] = now]
      BY <3>1 DEF process_stream_ticker
    <3>3. /\ latest'.price = [latest.price EXCEPT ![k] = now] /\ latest'.stamp = [latest.stamp EXCEPT ![k] = now]
          /\ latest'.put_back = latest.put_back /\ DOMAIN latest' = DOMAIN latest
      BY <1>3, <3>2 DEF PricedOK
    <3>4. PricedOK'
      <4>1. ASSUME NEW g \in [Markets -> Int] PROVE [g EXCEPT ![k] = now] \in [Markets -> Int]
        <5>1. now \in Int /\ k \in Markets
          BY <1>1 DEF WatchBounded, Held
        <5> QED BY <5>1
      <4>2. latest'.price \in [Markets -> Int] /\ latest'.stamp \in [Markets -> Int]
        BY <1>3, <3>3, <4>1 DEF PricedOK
      <4> QED BY <1>3, <3>2, <3>3, <4>2 DEF PricedOK
    <3> QED BY <1>2, <1>3, <2>1, <3>2, <3>4 DEF ObjectsOK, CachingOK
  <2>3. CASE read_snapshot
    BY <1>2, <1>3, <2>1, <2>3, ReadFields DEF PricedOK, ObjectsOK, CachingOK, Before
  <2>4. CASE gathered
    BY <1>1, <1>2, <1>3, <2>1, <2>4, GatheredFields DEF ObjectsOK, CachingOK
  <2>5. CASE rebuild
    BY <1>1, <1>2, <1>3, <2>1, <2>5, RebuildFields DEF ObjectsOK, CachingOK
  <2>6. CASE tick_fails \/ (hydrate(TRUE))
    BY <1>1, <1>2, <1>3, <2>1, <2>6, FailFields DEF PricedOK, ObjectsOK, CachingOK
  <2>7. CASE \E failed \in BOOLEAN : hydrate(failed)
    <3>1. hydrate(FALSE) \/ hydrate(TRUE)
      BY <2>7
    <3> QED BY <2>1, <2>6, <3>1, CachingByLookup
  <2> QED BY <1>5, <2>1, <2>2, <2>3, <2>4, <2>5, <2>6, <2>7, CachingByStart, CachingByLookup DEF trading_tick
<1>6. CASE account_fills
  BY <1>4, <1>6 DEF account_fills, fill_happens, process_stream_fill
<1>7. CASE tick_clock
  BY <1>4, <1>7 DEF tick_clock, priceVars
<1>8. CASE restart
  <2>1. objects' = [k \in Markets |-> NoObject] /\ latest' = [price |-> NoRows, stamp |-> NoRows, put_back |-> [k \in Markets |-> 0]] /\ tick' = IdleTick
    BY <1>8 DEF restart, restart_prices
  <2>2. PricedOK'
    BY <2>1 DEF PricedOK, NoRows, NoObject, Missing
  <2>3. tick'.phase = "idle"
    BY <2>1 DEF IdleTick
  <2> QED BY <2>1, <2>2, <2>3 DEF ObjectsOK, CachingOK
<1> QED BY <1>4, <1>5, <1>6, <1>7, <1>8, PricesElsewhere DEF DiscoveryNext

(* What is looked up for the live markets survives the eviction: what was in  *)
(* the cache is older, and the live markets fit into what is kept.            *)
LEMMA AskedAreKept ==
  ASSUME WatchBounded, PricesInv, tick.phase = "hydrate",
         NEW out \in evictions(stored(stale_or_missing(tick.ask), now)), NEW k \in stale_or_missing(tick.ask)
  PROVE  k \notin out
<1> SUFFICES ASSUME k \in out PROVE FALSE
  OBVIOUS
<1> DEFINE wanted == stale_or_missing(tick.ask)
           cache == stored(wanted, now)
           held == held_in(cache)
<1>1. /\ IsFiniteSet(Markets) /\ MaxObjects \in Nat /\ now \in Nat /\ budget.live \subseteq Markets /\ 2 * (Cardinality(budget.live) - 1) <= MaxObjects
      /\ wanted \subseteq budget.live
  BY PricesAssumption DEF WatchBounded, PricesInv, ObjectsOK, stale_or_missing
<1>2. /\ out \subseteq held /\ Cardinality(out) = (IF Cardinality(held) > MaxObjects THEN Cardinality(held) \div 2 ELSE 0)
      /\ \A e \in out, l \in held \ out : cache[e].at <= cache[l].at
  BY DEF evictions
<1>3. \A l \in wanted : cache[l].at = now
  BY <1>1 DEF stored
<1>4. ASSUME NEW l \in held \ out PROVE l \in wanted
  <2>1. now <= cache[l].at /\ l \in Markets /\ cache[l] # NoObject
    BY <1>2, <1>3, <1>4 DEF held_in
  <2>2. CASE l \notin wanted
    <3>1. cache[l] = objects[l]
      BY <2>1, <2>2 DEF stored
    <3>2. objects[l].at < tick.started /\ tick.started <= now /\ objects[l].at \in Int /\ tick.started \in Int
      BY <2>1, <3>1 DEF PricesInv, ObjectsOK, TickPace, PricedOK, TickOK
    <3> QED BY <1>1, <2>1, <3>1, <3>2
  <2> QED BY <2>2
<1>5. held \subseteq Markets
  BY DEF held_in
<1>6. k \in wanted
  OBVIOUS
<1> HIDE DEF wanted, cache, held
<1>7. IsFiniteSet(held) /\ IsFiniteSet(budget.live) /\ IsFiniteSet(out)
  BY <1>1, <1>2, <1>5, FS_Subset
<1>8. held \ out \subseteq budget.live \ {k}
  BY <1>1, <1>4
<1>9. Cardinality(held \ out) = Cardinality(held) - Cardinality(out)
  <2>1. held \cap out = out
    BY <1>2
  <2> QED BY <1>7, <2>1, FS_Difference
<1>10. Cardinality(budget.live \ {k}) = Cardinality(budget.live) - 1
  BY <1>1, <1>6, <1>7, FS_RemoveElement
<1>11. Cardinality(held \ out) <= Cardinality(budget.live \ {k})
  <2>1. IsFiniteSet(budget.live \ {k})
    BY <1>7, FS_Subset
  <2> QED BY <1>8, <2>1, FS_Subset
<1>12. Cardinality(out) > 0
  <2>1. out # {}
    OBVIOUS
  <2> QED BY <1>7, <2>1, FS_EmptySet, FS_CardinalityType
<1>13. Cardinality(held) \in Nat /\ Cardinality(out) \in Nat /\ Cardinality(budget.live) \in Nat
  BY <1>7, FS_CardinalityType
<1>14. Cardinality(held) > MaxObjects /\ Cardinality(out) = Cardinality(held) \div 2
  BY <1>2, <1>12
<1> QED BY <1>1, <1>9, <1>10, <1>11, <1>13, <1>14

(* The prices of the positions outside the pinned series, over each step.     *)
WatchOK(k) == Stamped(k) /\ RowTaken(k) /\ NotShown(k)

(* One more row put back costs one more refresh.                              *)
LEMMA RefreshesGrow == ASSUME NEW n \in Nat PROVE Refreshes(n) \in Nat /\ Refreshes(n + 1) = Refreshes(n) + PinnedRefresh + TickTime + AnswerTime
<1> DEFINE each == PinnedRefresh + TickTime + AnswerTime
<1>1. each \in Nat
  BY PricesNumbers
<1>2. Refreshes(n) = n * each /\ Refreshes(n + 1) = (n + 1) * each
  BY DEF Refreshes
<1> HIDE DEF each
<1>3. n * each \in Nat /\ (n + 1) * each = n * each + each
  BY <1>1
<1>4. Refreshes(n) \in Nat /\ Refreshes(n + 1) = Refreshes(n) + each
  BY <1>2, <1>3
<1> QED BY <1>4, PricesNumbers DEF each

(* The bounds of a price are numbers.                                         *)
LEMMA WatchNumbers ==
  /\ PinnedRefresh \in Nat /\ TickEvery \in Nat /\ AnswerTime \in Nat /\ TickTime = TickEvery + AnswerTime
  /\ RowAge \in Nat /\ PinnedRefresh <= RowAge /\ DiscoveryRefresh + 1 + AnswerTime <= RowAge
BY PricesNumbers, CatalogNumbers DEF RowAge

(* The types of what is said of one market.                                   *)
LEMMA WatchTypes ==
  ASSUME WatchBounded, PricesInv, NEW k \in Watched
  PROVE  /\ k \in Markets /\ k \in Held /\ SeriesOf[k] \notin Watchlist /\ now \in Nat
         /\ latest.price[k] \in Int /\ latest.stamp[k] \in Int /\ latest.put_back[k] \in Nat /\ tick.rows[k] \in Int
         /\ tick.started \in Int /\ tick.ended \in Int /\ account.up \in Nat
         /\ objects[k] \in [price : Int, at : Int]
         /\ Slack(k) \in {0, TickTime} /\ (objects[k] = NoObject => Slack(k) = TickTime) /\ (objects[k] # NoObject => Slack(k) = 0)
<1>1. k \in Markets /\ k \in Held /\ SeriesOf[k] \notin Watchlist /\ now \in Nat
  BY DEF Watched, WatchBounded, Held
<1> QED BY <1>1 DEF PricesInv, TickOK, PricedOK, AccountOK, Slack

(* They grow with the rows put back.                                          *)
LEMMA LagGrows ==
  ASSUME WatchBounded, PricesInv, NEW k \in Watched
  PROVE  LET n == latest.put_back[k]
         IN  /\ Lag(n) = RowAge + AnswerTime + Refreshes(n) /\ Refreshes(n) \in Nat /\ Lag(n) \in Nat
             /\ Refreshes(n + 1) = Refreshes(n) + PinnedRefresh + TickTime + AnswerTime
             /\ Lag(n + 1) = Lag(n) + PinnedRefresh + TickTime + AnswerTime
<1> DEFINE n == latest.put_back[k]
<1>1. n \in Nat
  BY WatchTypes
<1> HIDE DEF n
<1>2. Refreshes(n) \in Nat /\ Refreshes(n + 1) = Refreshes(n) + PinnedRefresh + TickTime + AnswerTime
  BY <1>1, RefreshesGrow
<1>3. Lag(n) = RowAge + AnswerTime + Refreshes(n) /\ Lag(n + 1) = RowAge + AnswerTime + Refreshes(n + 1)
  BY DEF Lag
<1>4. Lag(n) \in Nat /\ Lag(n + 1) = Lag(n) + PinnedRefresh + TickTime + AnswerTime
  BY <1>2, <1>3, WatchNumbers, PricesNumbers
<1> QED BY <1>2, <1>3, <1>4 DEF n

(* A step that touches neither the rows nor the prices keeps their age.       *)
LEMMA WatchKept ==
  ASSUME WatchBounded, PricesInv, BoundsMove, NEW k, WatchOK(k), now' = now, UNCHANGED << objects, latest, tick >>, account'.up = account.up
  PROVE  WatchOK(k)'
<1>1. budget'.parts = budget.parts
  BY FailureStays DEF WatchBounded
<1>2. Stamped(k)'
  BY <1>1 DEF WatchOK, Stamped, Slack
<1>3. RowTaken(k)' /\ NotShown(k)'
  BY DEF WatchOK, RowTaken, NotShown, Slack
<1> QED BY <1>2, <1>3 DEF WatchOK

(* Time passes while a tick is due or in progress.                            *)
LEMMA WatchByClock ==
  ASSUME WatchBounded, PricesInv, NEW k \in Watched, WatchOK(k), tick_clock
  PROVE  WatchOK(k)'
<1>1. now' = now + 1 /\ UNCHANGED << objects, latest, tick, account, budget >>
  BY DEF tick_clock, priceVars
<1>2. Stamped(k)'
  <2>1. latest.price[k] # Missing => latest.price[k] <= now + 1 /\ latest.stamp[k] <= now + 1
    BY WatchTypes DEF WatchOK, Stamped
  <2> QED BY <1>1, <2>1 DEF WatchOK, Stamped, Slack
<1>3. RowTaken(k)'
  <2>1. tick.rows[k] # Missing => tick.rows[k] <= now + 1 /\ (tick.phase = "later" => latest.stamp[k] <= now + 1)
    BY WatchTypes DEF WatchOK, RowTaken
  <2> QED BY <1>1, <2>1 DEF WatchOK, RowTaken, Slack
<1>4. NotShown(k)'
  BY <1>1 DEF WatchOK, NotShown
<1> QED BY <1>2, <1>3, <1>4 DEF WatchOK

(* A restart shows no price.                                                  *)
LEMMA WatchByRestart ==
  ASSUME WatchBounded, PricesInv, NEW k \in Watched, restart
  PROVE  WatchOK(k)'
<1>1. k \in Markets
  BY WatchTypes
<1>2. latest' = [price |-> NoRows, stamp |-> NoRows, put_back |-> [l \in Markets |-> 0]] /\ tick' = IdleTick
  BY DEF restart, restart_prices
<1>3. latest'.price[k] = Missing /\ tick'.rows[k] = Missing /\ tick'.phase = "idle"
  BY <1>1, <1>2 DEF NoRows, IdleTick
<1> QED BY <1>3 DEF WatchOK, Stamped, RowTaken, NotShown, Before

(* A tick begins with the rows it has for the positions shown.                *)
LEMMA WatchByStart ==
  ASSUME WatchBounded, CatalogInv, PricesInv, NEW k \in Watched, NoFailureYet, WatchOK(k), start_tick, now' = now
  PROVE  WatchOK(k)'
<1>1. /\ tick.phase = "idle" /\ UNCHANGED << objects, latest, budget >>
      /\ tick'.phase = (IF live_candidates = {} THEN "rows" ELSE "hydrate") /\ tick'.started = now
      /\ tick'.rows = [l \in Markets |-> first_row(l)] /\ tick'.shown = pinned_markets \cup discovered \cup live_candidates /\ tick'.ask = live_candidates
      /\ account'.up = account.up
  BY StartFields
<1>2. tick'.rows[k] = first_row(k) /\ k \notin pinned_markets
  <2>1. k \in Markets /\ SeriesOf[k] \notin Watchlist
    BY WatchTypes
  <2> QED BY <1>1, <2>1 DEF pinned_markets, open_markets_for_series
<1>3. latest.price[k] # Missing => "prices" \in budget.parts /\ now <= latest.stamp[k] + TickTime + PinnedRefresh + Slack(k)
  <2>1. latest.price[k] # Missing => "prices" \in budget.parts /\ account.up <= latest.stamp[k] /\ tick.ended <= latest.stamp[k] + AnswerTime + PinnedRefresh + Slack(k)
    BY <1>1 DEF WatchOK, Stamped
  <2>2. "prices" \in budget.parts => now <= tick.ended + TickEvery \/ now = account.up
    BY <1>1 DEF PricesInv, TickPace
  <2> QED BY <2>1, <2>2, WatchTypes, WatchNumbers
<1>4. first_row(k) # Missing => k \in discovered /\ first_row(k) <= now /\ now - first_row(k) <= RowAge
  <2>1. SUFFICES ASSUME first_row(k) # Missing PROVE k \in discovered /\ first_row(k) <= now /\ now - first_row(k) <= RowAge
    OBVIOUS
  <2>2. k \in discovered /\ k \in discovery.markets /\ first_row(k) = discovery.fetched
    BY <2>1 DEF first_row, discovered
  <2>3. discovery.fetched <= now /\ discovery.fetched \in Int /\ discovery.started \in Int /\ discovery.phase \in {"idle", "confirm"}
    BY DEF CatalogInv, ShownOK, ListOK
  <2>4. now <= discovery.fetched + DiscoveryRefresh + 1 + AnswerTime
    BY <2>2, <2>3, WatchTypes, CatalogNumbers DEF CatalogInv, RefreshedOK
  <2> QED BY <2>2, <2>3, <2>4, WatchTypes, WatchNumbers, CatalogNumbers
<1>5. k \in discovered => first_row(k) # Missing
  <2>1. discovery.unconfirmed = {} /\ Never <= discovery.fetched /\ discovery.fetched \in Int
    BY DEF CatalogInv, RefreshedOK, ShownOK, ListOK
  <2> QED BY <2>1 DEF first_row, Never, Missing
<1>6. live_candidates # {} => discovered = {}
  BY DEF live_candidates, discovered
<1>7. Stamped(k)'
  <2>1. latest.price[k] # Missing => now <= latest.stamp[k] + 2 * TickTime + PinnedRefresh
    BY <1>3, WatchTypes, PricesNumbers
  <2>2. tick'.phase = "rows" /\ k \in tick'.shown => tick'.rows[k] # Missing
    BY <1>1, <1>2, <1>5
  <2> QED BY <1>1, <1>3, <2>1, <2>2 DEF WatchOK, Stamped, Slack
<1>8. RowTaken(k)'
  BY <1>1, <1>2, <1>4 DEF RowTaken
<1>9. NotShown(k)'
  BY <1>1, <1>2, <1>4, <1>5, <1>6 DEF NotShown
<1> QED BY <1>7, <1>8, <1>9 DEF WatchOK

(* What a row of the cache says is recent.                                    *)
LEMMA LookupRow ==
  ASSUME WatchBounded, PricesInv, NEW k \in Watched, NEW tickers \in SUBSET Markets, NEW out,
         objects' = [l \in Markets |-> IF l \in out THEN NoObject ELSE stored(stale_or_missing(tickers), now)[l]], k \in tickers, objects'[k] # NoObject
  PROVE  objects'[k].price # Missing /\ objects'[k].price <= now /\ now - objects'[k].price <= RowAge
<1>1. objects'[k] = stored(stale_or_missing(tickers), now)[k]
  BY WatchTypes
<1>2. CASE k \in stale_or_missing(tickers)
  <2>1. objects'[k].price = now
    BY <1>1, <1>2, WatchTypes DEF stored
  <2> QED BY <2>1, WatchTypes, WatchNumbers DEF Missing
<1>3. CASE k \notin stale_or_missing(tickers)
  <2>1. objects'[k] = objects[k]
    BY <1>1, <1>3, WatchTypes DEF stored
  <2>2. objects[k] # NoObject /\ ~(now - objects[k].at > PinnedRefresh)
    BY <1>3 DEF stale_or_missing
  <2>3. objects[k].price = objects[k].at /\ objects[k].at <= now /\ objects[k].at \in Int
    BY <2>2, WatchTypes DEF PricesInv, ObjectsOK
  <2>4. objects[k].price # Missing
    <3>1. ASSUME objects[k].price = Missing PROVE FALSE
      <4>1. objects[k] = [price |-> Missing, at |-> Missing]
        BY <2>3, <3>1, WatchTypes
      <4> QED BY <2>2, <4>1 DEF NoObject
    <3> QED BY <3>1
  <2> QED BY <2>1, <2>2, <2>3, <2>4, WatchTypes, WatchNumbers
<1> QED BY <1>2, <1>3

(* A row that is asked for is read now, or its market waits another tick.     *)
LEMMA WatchByHydrate ==
  ASSUME WatchBounded, CatalogInv, PricesInv, NEW k \in Watched, NoFailureYet, WatchOK(k), hydrate(FALSE), now' = now
  PROVE  WatchOK(k)'
<1>1. tick.phase = "hydrate" /\ looked_up(tick.ask, {}) /\ UNCHANGED << latest, account, budget >> /\ tick.ask \in SUBSET Markets /\ now \in Nat
  BY DEF hydrate, PricesInv, TickOK, WatchBounded
<1>2. stale_or_missing(tick.ask) \ {} = stale_or_missing(tick.ask)
  OBVIOUS
<1>3. PICK out \in evictions(stored(stale_or_missing(tick.ask), now)) :
        objects' = [l \in Markets |-> IF l \in out THEN NoObject ELSE stored(stale_or_missing(tick.ask), now)[l]]
  BY <1>1, <1>2 DEF looked_up
<1>4. /\ tick'.phase = "rows" /\ tick'.started = tick.started
      /\ tick'.rows = [l \in Markets |-> IF l \in tick.ask /\ objects'[l] # NoObject THEN objects'[l].price ELSE tick.rows[l]]
      /\ tick'.shown = tick.shown \cup { l \in tick.ask : objects'[l] # NoObject }
  <2>1. account' = account
    BY <1>1
  <2> QED BY <1>1, <2>1, LookupFields
<1>5. tick.rows[k] = Missing /\ (k \in tick.shown => k \in tick.ask)
  BY <1>1 DEF WatchOK, NotShown
<1>6. tick'.rows[k] = IF k \in tick.ask /\ objects'[k] # NoObject THEN objects'[k].price ELSE Missing
  BY <1>4, <1>5, WatchTypes
<1>7. k \in tick.ask /\ objects'[k] # NoObject => objects'[k].price # Missing /\ objects'[k].price <= now /\ now - objects'[k].price <= RowAge /\ objects'[k].price \in Int
  <2>1. objects' \in [Markets -> [price : Int, at : Int]]
    BY <1>1, LookupFields
  <2> QED BY <1>1, <1>3, <2>1, LookupRow, WatchTypes
<1>8. k \in tick'.shown /\ tick'.rows[k] = Missing => k \in tick.ask /\ objects'[k] = NoObject /\ objects[k] # NoObject
  <2>1. SUFFICES ASSUME k \in tick'.shown, tick'.rows[k] = Missing PROVE k \in tick.ask /\ objects'[k] = NoObject /\ objects[k] # NoObject
    OBVIOUS
  <2>2. k \in tick.ask /\ objects'[k] = NoObject
    BY <1>4, <1>5, <1>6, <1>7, <2>1
  <2>3. CASE k \in stale_or_missing(tick.ask)
    <3>1. k \notin out
      BY <1>1, <1>3, <2>3, AskedAreKept
    <3>2. objects'[k] = [price |-> now, at |-> now]
      BY <1>3, <2>3, <3>1, WatchTypes DEF stored
    <3> QED BY <1>1, <2>2, <3>2 DEF NoObject, Missing
  <2>4. CASE k \notin stale_or_missing(tick.ask)
    BY <2>2, <2>4 DEF stale_or_missing
  <2> QED BY <2>2, <2>3, <2>4
<1>9. Stamped(k)'
  <2>1. latest.price[k] # Missing => tick.started <= latest.stamp[k] + TickTime + PinnedRefresh + Slack(k)
    BY <1>1 DEF WatchOK, Stamped
  <2>2. latest.price[k] # Missing => tick.started <= latest.stamp[k] + 2 * TickTime + PinnedRefresh
    BY <2>1, WatchTypes, PricesNumbers
  <2>3. latest.price[k] # Missing /\ k \in tick'.shown /\ tick'.rows[k] = Missing => tick.started <= latest.stamp[k] + TickTime + PinnedRefresh
    BY <1>8, <2>1, WatchTypes, PricesNumbers
  <2> QED BY <1>1, <1>4, <2>2, <2>3 DEF WatchOK, Stamped
<1>10. RowTaken(k)'
  <2>1. tick'.rows[k] # Missing => tick'.rows[k] <= now /\ tick.started - tick'.rows[k] <= RowAge
    <3>1. tick.started <= now
      BY <1>1 DEF PricesInv, TickPace
    <3> QED BY <1>1, <1>6, <1>7, <3>1, WatchTypes, WatchNumbers
  <2> QED BY <1>4, <2>1 DEF RowTaken
<1>11. NotShown(k)'
  BY <1>4, <1>5, <1>6, <1>8 DEF NotShown
<1> QED BY <1>9, <1>10, <1>11 DEF WatchOK

(* A tick takes the rows of the positions discovery has found.                *)
LEMMA WatchByPositions ==
  ASSUME WatchBounded, CatalogInv, PricesInv, NEW k \in Watched, NoFailureYet', NoFailureYet, WatchOK(k), fetch_positions, now' = now
  PROVE  WatchOK(k)'
<1>1. tick.phase = "rows" /\ UNCHANGED << latest, account >> /\ now \in Nat
  BY DEF fetch_positions, WatchBounded
<1>2. PICK omitted \in SUBSET (Held \ tick.shown) :
        (IF omitted = {} THEN UNCHANGED budget ELSE Spends("omits")) /\ looked_up(Held \ tick.shown, omitted)
  BY DEF fetch_positions
<1>3. omitted = {} /\ budget' = budget
  BY <1>2, FaultFails
<1> DEFINE tickers == Held \ tick.shown
<1>4. tickers \in SUBSET Markets /\ looked_up(tickers, {}) /\ stale_or_missing(tickers) \ {} = stale_or_missing(tickers)
  BY <1>2, <1>3 DEF WatchBounded, Held
<1>5. k \in tickers <=> k \notin tick.shown
  BY WatchTypes
<1> HIDE DEF tickers
<1>6. PICK out : objects' = [l \in Markets |-> IF l \in out THEN NoObject ELSE stored(stale_or_missing(tickers), now)[l]]
  BY <1>4 DEF looked_up
<1>7. /\ tick'.phase = "gather" /\ tick'.started = tick.started
      /\ tick'.rows = [l \in Markets |-> IF l \in tickers /\ objects'[l] # NoObject THEN objects'[l].price ELSE tick.rows[l]]
      /\ tick'.shown = tick.shown \cup { l \in tickers : objects'[l] # NoObject }
  <2>1. account' = account
    BY <1>1
  <2> QED BY <1>1, <1>4, <2>1, LookupFields
<1>8. tick'.rows[k] = IF k \in tickers /\ objects'[k] # NoObject THEN objects'[k].price ELSE tick.rows[k]
  BY <1>7, WatchTypes
<1>9. k \in tickers /\ objects'[k] # NoObject => objects'[k].price # Missing /\ objects'[k].price <= now /\ now - objects'[k].price <= RowAge /\ objects'[k].price \in Int
  <2>1. objects' \in [Markets -> [price : Int, at : Int]]
    BY <1>1, <1>4, LookupFields
  <2> QED BY <1>4, <1>6, <2>1, LookupRow, WatchTypes
<1>10. k \notin tick.shown => tick.rows[k] = Missing
  BY <1>1 DEF WatchOK, NotShown, Before
<1>11. k \in tick'.shown /\ tick'.rows[k] = Missing => k \in tick.shown /\ tick.rows[k] = Missing /\ objects'[k] = NoObject
  <2>1. SUFFICES ASSUME k \in tick'.shown, tick'.rows[k] = Missing PROVE k \in tick.shown /\ tick.rows[k] = Missing /\ objects'[k] = NoObject
    OBVIOUS
  <2>2. k \in tick.shown /\ tick.rows[k] = Missing
    BY <1>5, <1>7, <1>8, <1>9, <2>1
  <2>3. objects[k] = NoObject
    BY <1>1, <2>2 DEF WatchOK, NotShown
  <2>4. k \notin stale_or_missing(tickers)
    BY <1>5, <2>2 DEF stale_or_missing
  <2>5. stored(stale_or_missing(tickers), now)[k] = NoObject
    BY <2>3, <2>4, WatchTypes DEF stored
  <2> QED BY <1>6, <2>2, <2>5, WatchTypes
<1>12. Stamped(k)'
  BY <1>1, <1>3, <1>7, <1>11 DEF WatchOK, Stamped
<1>13. RowTaken(k)'
  <2>1. tick'.rows[k] # Missing => tick'.rows[k] <= now /\ tick.started - tick'.rows[k] <= RowAge
    <3>1. tick.started <= now
      BY <1>1 DEF PricesInv, TickPace
    <3>2. tick.rows[k] # Missing => tick.rows[k] <= now /\ tick.started - tick.rows[k] <= RowAge
      BY <1>1 DEF WatchOK, RowTaken, Before
    <3> QED BY <1>1, <1>8, <1>9, <3>1, <3>2, WatchTypes, WatchNumbers
  <2> QED BY <1>7, <2>1 DEF RowTaken
<1>14. NotShown(k)'
  <2>1. k \notin tick'.shown => tick'.rows[k] = Missing
    BY <1>5, <1>7, <1>8, <1>10, WatchTypes
  <2> QED BY <1>7, <1>11, <2>1 DEF NotShown
<1> QED BY <1>12, <1>13, <1>14 DEF WatchOK

(* Reading the snapshot touches neither the rows nor the prices.              *)
LEMMA WatchByRead ==
  ASSUME WatchBounded, PricesInv, NEW k, WatchOK(k), read_snapshot, now' = now
  PROVE  WatchOK(k)'
<1>1. Stamped(k)'
  BY ReadFields DEF WatchOK, Stamped, Slack
<1>2. RowTaken(k)' /\ NotShown(k)'
  BY ReadFields DEF WatchOK, RowTaken, NotShown, Slack
<1> QED BY <1>1, <1>2 DEF WatchOK

(* The overlay stamps the rows that win over the price in memory.             *)
LEMMA WatchByGathered ==
  ASSUME WatchBounded, PricesInv, NEW k \in Watched, WatchOK(k), gathered, now' = now
  PROVE  WatchOK(k)'
<1> DEFINE n == latest.put_back[k]
<1>1. /\ tick.phase = "gather" /\ tick'.phase = "later" /\ tick'.started = tick.started /\ UNCHANGED << objects, budget >>
      /\ latest'.price = latest.price /\ latest'.put_back = latest.put_back /\ account'.up = account.up
  BY WatchTypes, GatheredFields
<1>2. tick'.rows[k] = (IF k \in tick.shown THEN overlaid(k) ELSE Missing) /\ latest'.stamp[k] = restamped(k)
  BY WatchTypes, GatheredFields
<1>3. /\ account.up <= tick.started /\ tick.started <= now /\ now <= tick.started + AnswerTime
  BY <1>1 DEF PricesInv, TickPace
<1>4. /\ Lag(n) = RowAge + AnswerTime + Refreshes(n) /\ Refreshes(n) \in Nat /\ Lag(n) \in Nat
      /\ Refreshes(n + 1) = Refreshes(n) + PinnedRefresh + TickTime + AnswerTime /\ Lag(n + 1) = Lag(n) + PinnedRefresh + TickTime + AnswerTime
  BY LagGrows
<1>5. latest.price[k] # Missing =>
        /\ "prices" \in budget.parts /\ latest.price[k] <= now /\ account.up <= latest.stamp[k] /\ latest.stamp[k] <= now
        /\ latest.stamp[k] - latest.price[k] <= Lag(n) /\ tick.started <= latest.stamp[k] + 2 * TickTime + PinnedRefresh
        /\ k \in tick.shown /\ tick.rows[k] = Missing => tick.started <= latest.stamp[k] + TickTime + PinnedRefresh
  BY <1>1 DEF WatchOK, Stamped
<1>6. tick.rows[k] # Missing => tick.rows[k] <= now /\ tick.started - tick.rows[k] <= RowAge
  BY <1>1 DEF WatchOK, RowTaken, Before
<1>7. Slack(k)' = Slack(k) /\ latest'.price[k] = latest.price[k] /\ latest'.put_back[k] = n
  BY <1>1 DEF Slack
<1> HIDE DEF n
<1>8. latest'.stamp[k] = latest.stamp[k] \/ latest'.stamp[k] = now
  BY <1>2 DEF restamped
<1>9. Stamped(k)'
  <2>1. SUFFICES ASSUME latest.price[k] # Missing
                 PROVE  /\ "prices" \in budget.parts /\ latest.price[k] <= now /\ account.up <= latest'.stamp[k] /\ latest'.stamp[k] <= now
                        /\ tick.started + AnswerTime - latest.price[k] <= RowAge + TickTime + AnswerTime + Refreshes(n + 1)
    BY <1>1, <1>7 DEF Stamped
  <2>2. account.up <= latest'.stamp[k] /\ latest'.stamp[k] <= now
    BY <1>3, <1>5, <1>8, <2>1, WatchTypes
  <2>3. tick.started + AnswerTime - latest.price[k] <= RowAge + TickTime + AnswerTime + Refreshes(n + 1)
    BY <1>4, <1>5, <2>1, WatchTypes, WatchNumbers, PricesNumbers
  <2> QED BY <1>5, <2>1, <2>2, <2>3
<1>10. RowTaken(k)'
  <2>1. SUFFICES ASSUME tick'.rows[k] # Missing
                 PROVE  /\ tick'.rows[k] <= now /\ account.up <= latest'.stamp[k] /\ latest'.stamp[k] <= now
                        /\ tick.started <= latest'.stamp[k] + PinnedRefresh + Slack(k)
                        /\ tick.started + AnswerTime - tick'.rows[k] <= Lag(n + 1)
                        /\ latest'.stamp[k] - tick'.rows[k] <= Lag(n)
    BY <1>1, <1>7 DEF RowTaken, Before
  <2>2. k \in tick.shown
    BY <1>2, <2>1
  <2>3. CASE memory_wins(k)
    <3>1. tick'.rows[k] = latest.price[k] /\ latest'.stamp[k] = latest.stamp[k] /\ latest.price[k] # Missing
      BY <1>2, <2>2, <2>3 DEF overlaid, restamped, memory_wins
    <3>2. tick.started <= latest.stamp[k] + PinnedRefresh + Slack(k)
      <4>1. CASE fresh_in_memory(k)
        BY <1>3, <4>1, WatchTypes, WatchNumbers, PricesNumbers DEF fresh_in_memory
      <4>2. CASE tick.rows[k] = Missing
        <5>1. objects[k] = NoObject
          BY <1>1, <2>2, <4>2 DEF WatchOK, NotShown
        <5> QED BY <1>5, <2>2, <3>1, <4>2, <5>1, WatchTypes, PricesNumbers
      <4> QED BY <2>3, <4>1, <4>2 DEF memory_wins
    <3>3. tick.started + AnswerTime - latest.price[k] <= Lag(n + 1)
      BY <1>4, <1>5, <3>1, <3>2, WatchTypes, WatchNumbers, PricesNumbers
    <3> QED BY <1>5, <3>1, <3>2, <3>3
  <2>4. CASE ~memory_wins(k)
    <3>1. tick'.rows[k] = tick.rows[k] /\ latest'.stamp[k] = now /\ tick.rows[k] # Missing
      BY <1>2, <2>1, <2>2, <2>4 DEF overlaid, restamped
    <3> QED BY <1>3, <1>4, <1>6, <3>1, WatchTypes, WatchNumbers, PricesNumbers
  <2> QED BY <2>3, <2>4
<1>11. NotShown(k)'
  BY <1>1 DEF NotShown, Before
<1> QED BY <1>9, <1>10, <1>11 DEF WatchOK

(* The tick ends: the prices are those it gathered.                           *)
LEMMA WatchByRebuild ==
  ASSUME WatchBounded, PricesInv, NEW k \in Watched, WatchOK(k), rebuild, now' = now
  PROVE  WatchOK(k)'
<1> DEFINE n == latest.put_back[k]
<1>1. /\ tick.phase = "later" /\ UNCHANGED << objects, account, budget >> /\ tick'.phase = "idle" /\ tick'.ended = now /\ tick'.rows[k] = Missing
      /\ latest'.price[k] = tick.rows[k] /\ latest'.stamp[k] = (IF tick.rows[k] = Missing THEN Missing ELSE latest.stamp[k])
      /\ latest'.put_back[k] = n + IF tick.rows[k] < latest.price[k] THEN 1 ELSE 0
  BY WatchTypes, RebuildFields DEF NoRows
<1>2. now <= tick.started + AnswerTime /\ "prices" \in budget.parts
  BY <1>1 DEF PricesInv, TickPace
<1>3. Lag(n) \in Nat /\ Lag(n + 1) = Lag(n) + PinnedRefresh + TickTime + AnswerTime /\ n \in Nat
  BY LagGrows, WatchTypes
<1>4. tick.rows[k] # Missing =>
        /\ tick.rows[k] <= now /\ account.up <= latest.stamp[k] /\ latest.stamp[k] <= now /\ tick.started <= latest.stamp[k] + PinnedRefresh + Slack(k)
        /\ \/ latest.stamp[k] - tick.rows[k] <= Lag(n)
           \/ tick.rows[k] < latest.price[k] /\ latest.stamp[k] - tick.rows[k] <= Lag(n + 1)
  BY <1>1 DEF WatchOK, RowTaken
<1> HIDE DEF n
<1>5. Slack(k)' = Slack(k)
  BY <1>1 DEF Slack
<1>6. Stamped(k)'
  <2>1. SUFFICES ASSUME tick.rows[k] # Missing
                 PROVE  /\ latest.stamp[k] - tick.rows[k] <= Lag(latest'.put_back[k])
                        /\ now <= latest.stamp[k] + AnswerTime + PinnedRefresh + Slack(k)
    BY <1>1, <1>2, <1>4, <1>5 DEF Stamped
  <2>2. now <= latest.stamp[k] + AnswerTime + PinnedRefresh + Slack(k)
    BY <1>2, <1>4, <2>1, WatchTypes, PricesNumbers
  <2>3. CASE tick.rows[k] < latest.price[k]
    <3>1. latest'.put_back[k] = n + 1
      BY <1>1, <2>3
    <3> QED BY <1>3, <1>4, <2>1, <2>2, <3>1, WatchTypes, PricesNumbers
  <2>4. CASE ~(tick.rows[k] < latest.price[k])
    <3>1. latest'.put_back[k] = n
      BY <1>1, <1>3, <2>4
    <3> QED BY <1>4, <2>1, <2>2, <2>4, <3>1
  <2> QED BY <2>3, <2>4
<1>7. RowTaken(k)' /\ NotShown(k)'
  BY <1>1 DEF RowTaken, NotShown, Before
<1> QED BY <1>6, <1>7 DEF WatchOK

(* The stream prices a market now.                                            *)
LEMMA WatchByTicker ==
  ASSUME WatchBounded, PricesInv, NEW k \in Watched, WatchOK(k), NEW l \in Held, process_stream_ticker(l), "prices" \in budget.parts, BoundsMove, now' = now
  PROVE  WatchOK(k)'
<1>1. UNCHANGED << objects, tick, account >> /\ latest' = [latest EXCEPT !.price[l] = now, !.stamp[l] = now] /\ budget'.parts = budget.parts
  BY FailureStays DEF process_stream_ticker, WatchBounded
<1>2. /\ latest'.price = [latest.price EXCEPT ![l] = now] /\ latest'.stamp = [latest.stamp EXCEPT ![l] = now] /\ latest'.put_back = latest.put_back
  BY <1>1 DEF PricesInv, PricedOK
<1>3. Slack(k)' = Slack(k)
  BY <1>1 DEF Slack
<1>4. NotShown(k)'
  BY <1>1 DEF WatchOK, NotShown
<1>5. CASE l # k
  <2>1. latest'.price[k] = latest.price[k] /\ latest'.stamp[k] = latest.stamp[k]
    BY <1>2, <1>5, WatchTypes DEF PricesInv, PricedOK
  <2>2. Stamped(k)'
    BY <1>1, <1>2, <1>3, <2>1 DEF WatchOK, Stamped
  <2>3. RowTaken(k)'
    BY <1>1, <1>2, <1>3, <2>1 DEF WatchOK, RowTaken
  <2> QED BY <1>4, <2>2, <2>3 DEF WatchOK
<1>6. CASE l = k
  <2> DEFINE n == latest.put_back[k]
  <2>1. latest'.price[k] = now /\ latest'.stamp[k] = now /\ latest'.put_back[k] = n
    BY <1>2, <1>6, WatchTypes DEF PricesInv, PricedOK
  <2>2. /\ Lag(n) \in Nat /\ Lag(n + 1) = Lag(n) + PinnedRefresh + TickTime + AnswerTime /\ Refreshes(n + 1) \in Nat
    BY LagGrows, WatchTypes, PricesNumbers
  <2> HIDE DEF n
  <2>3. account.up <= now /\ tick.ended <= now /\ (tick.phase # "idle" => tick.started <= now /\ now <= tick.started + AnswerTime)
    BY DEF PricesInv, TickPace
  <2>4. now - now <= Lag(n) /\ 0 <= Slack(k)
    BY <2>2, WatchTypes, PricesNumbers
  <2>5. tick.ended <= now + AnswerTime + PinnedRefresh + Slack(k)
    BY <2>3, <2>4, WatchTypes, PricesNumbers
  <2>6. tick.phase # "idle" =>
          /\ tick.started <= now + PinnedRefresh + Slack(k) /\ tick.started <= now + TickTime + PinnedRefresh + Slack(k)
          /\ tick.started <= now + 2 * TickTime + PinnedRefresh /\ tick.started <= now + TickTime + PinnedRefresh
          /\ tick.started + AnswerTime - now <= RowAge + TickTime + AnswerTime + Refreshes(n + 1)
    BY <2>2, <2>3, <2>4, WatchTypes, PricesNumbers, WatchNumbers
  <2>7. Stamped(k)'
    <3>1. now <= now
      BY WatchTypes
    <3> QED BY <1>1, <1>3, <2>1, <2>3, <2>4, <2>5, <2>6, <3>1 DEF Stamped
  <2>8. RowTaken(k)'
    <3>1. SUFFICES ASSUME tick.rows[k] # Missing
                   PROVE  /\ tick.rows[k] <= now
                          /\ tick.phase \in Before => tick.started - tick.rows[k] <= RowAge
                          /\ tick.phase = "later" =>
                               /\ account.up <= now /\ now <= now /\ tick.started <= now + PinnedRefresh + Slack(k)
                               /\ tick.started + AnswerTime - tick.rows[k] <= Lag(n + 1)
                               /\ now - tick.rows[k] <= Lag(n) \/ (tick.rows[k] < now /\ now - tick.rows[k] <= Lag(n + 1))
      BY <1>1, <1>3, <2>1 DEF RowTaken
    <3>2. /\ tick.rows[k] <= now /\ (tick.phase \in Before => tick.started - tick.rows[k] <= RowAge)
          /\ tick.phase = "later" => tick.started + AnswerTime - tick.rows[k] <= Lag(n + 1)
      BY <3>1 DEF WatchOK, RowTaken, n
    <3>3. tick.phase = "later" => now - tick.rows[k] <= Lag(n) \/ (tick.rows[k] < now /\ now - tick.rows[k] <= Lag(n + 1))
      BY <2>2, <2>3, <3>2, WatchTypes, PricesNumbers
    <3> QED BY <2>3, <2>6, <3>2, <3>3, WatchTypes
  <2> QED BY <1>4, <2>7, <2>8 DEF WatchOK
<1> QED BY <1>5, <1>6

(* Every step keeps the prices of the positions fresh.                        *)
LEMMA WatchStep ==
  ASSUME WatchBounded, CatalogInv, PricesInv, [DiscoveryNext]_discoveryVars
  PROVE  WatchedOK'
<1>1. now \in Nat /\ BoundsMove /\ now' \in Nat
  BY DiscoveryMoves DEF WatchBounded
<1>2. budget'.held = budget.held /\ (NoFailureYet' => NoFailureYet)
  BY <1>1, FailureStays
<1> SUFFICES ASSUME NoFailureYet', NEW k \in Watched PROVE WatchOK(k)'
  BY <1>2 DEF WatchedOK, Watched, WatchOK
<1>3. WatchOK(k) /\ NoFailureYet
  BY <1>2 DEF PricesInv, WatchedOK, WatchOK
<1>4. CASE trading_tick
  <2>1. now' = now /\ "prices" \in budget.parts
    BY <1>4 DEF trading_tick, Takes
  <2>2. ~tick_fails /\ ~(hydrate(TRUE))
    BY <1>1, FailFields, FaultFails
  <2>3. ASSUME NEW failed \in BOOLEAN, hydrate(failed) PROVE WatchOK(k)'
    <3>1. hydrate(FALSE)
      BY <2>2, <2>3
    <3> QED BY <1>3, <2>1, <3>1, WatchByHydrate
  <2>4. ASSUME NEW l \in Held, process_stream_ticker(l) PROVE WatchOK(k)'
    BY <1>1, <1>3, <2>1, <2>4, WatchByTicker
  <2>5. ASSUME start_tick \/ fetch_positions \/ read_snapshot \/ gathered \/ rebuild PROVE WatchOK(k)'
    BY <1>3, <2>1, <2>5, WatchByStart, WatchByPositions, WatchByRead, WatchByGathered, WatchByRebuild
  <2> QED BY <1>4, <2>2, <2>3, <2>4, <2>5 DEF trading_tick
<1>5. CASE account_fills
  <2>1. UNCHANGED << objects, latest, tick >> /\ now' = now
    BY <1>5 DEF account_fills, fill_happens, process_stream_fill
  <2>2. account'.up = account.up
    <3>1. DOMAIN account = {"real", "sent", "cache", "fetched", "asked", "shown", "shared", "up"}
      BY DEF PricesInv, AccountOK
    <3>2. ASSUME NEW f, fill_happens(f) PROVE account'.up = account.up
      BY <3>1, <3>2 DEF fill_happens
    <3>3. ASSUME NEW f, process_stream_fill(f) PROVE account'.up = account.up
      BY <3>1, <3>3 DEF process_stream_fill
    <3> QED BY <1>5, <3>2, <3>3 DEF account_fills
  <2> QED BY <1>1, <1>3, <2>1, <2>2, WatchKept
<1> QED BY <1>1, <1>3, <1>4, <1>5, WatchByClock, WatchByRestart, PricesElsewhere, WatchKept DEF DiscoveryNext

(* Every step keeps the invariant of the prices.                              *)
LEMMA PricesStep ==
  ASSUME WatchBounded, CatalogInv, PricesInv, [DiscoveryNext]_discoveryVars
  PROVE  PricesInv'
BY TickingStep, CachingStep, WatchStep DEF PricesInv, TickingOK, CachingOK

(* PricesAreRefreshed follows. *)
LEMMA PricesStayRefreshed == ASSUME WatchBounded, PricesInv PROVE PricesAreRefreshed
<1> SUFFICES ASSUME NoFailureYet, NEW k \in Held, SeriesOf[k] \notin Watchlist, latest.price[k] # Missing
             PROVE  now - latest.price[k] <= RowAge + TickTime + AnswerTime + Refreshes(latest.put_back[k] + 1)
  BY DEF PricesAreRefreshed, PriceIsRefreshed
<1>1. k \in Watched
  BY DEF Watched, Held
<1>2. Stamped(k)
  BY <1>1 DEF PricesInv, WatchedOK
<1> DEFINE n == latest.put_back[k]
<1>3. /\ Lag(n) = RowAge + AnswerTime + Refreshes(n) /\ Refreshes(n) \in Nat
      /\ Refreshes(n + 1) = Refreshes(n) + PinnedRefresh + TickTime + AnswerTime
  BY <1>1, LagGrows
<1>4. /\ "prices" \in budget.parts /\ account.up <= latest.stamp[k]
      /\ tick.phase # "later" => latest.stamp[k] - latest.price[k] <= Lag(n)
      /\ tick.phase = "idle" => tick.ended <= latest.stamp[k] + AnswerTime + PinnedRefresh + Slack(k)
      /\ tick.phase = "hydrate" => tick.started <= latest.stamp[k] + TickTime + PinnedRefresh + Slack(k)
      /\ tick.phase \in {"rows", "gather"} => tick.started <= latest.stamp[k] + 2 * TickTime + PinnedRefresh
      /\ tick.phase = "later" => tick.started + AnswerTime - latest.price[k] <= RowAge + TickTime + AnswerTime + Refreshes(n + 1)
  BY <1>2 DEF Stamped
<1> HIDE DEF n
<1>5. tick.phase = "idle" => now <= tick.ended + TickEvery \/ now = account.up
  BY <1>4 DEF PricesInv, TickPace
<1>6. tick.phase # "idle" => now <= tick.started + AnswerTime
  BY DEF PricesInv, TickPace
<1>7. CASE tick.phase = "idle"
  BY <1>1, <1>3, <1>4, <1>5, <1>7, WatchTypes, WatchNumbers, PricesNumbers DEF n
<1>8. CASE tick.phase \in {"hydrate", "rows", "gather"}
  <2>1. tick.started <= latest.stamp[k] + 2 * TickTime + PinnedRefresh
    BY <1>1, <1>4, <1>8, WatchTypes, WatchNumbers, PricesNumbers
  <2> QED BY <1>1, <1>3, <1>4, <1>6, <1>8, <2>1, WatchTypes, WatchNumbers, PricesNumbers DEF n
<1>9. CASE tick.phase = "later"
  <2>1. now <= tick.started + AnswerTime
    BY <1>6, <1>9
  <2>2. tick.started + AnswerTime - latest.price[k] <= RowAge + TickTime + AnswerTime + Refreshes(n + 1)
    BY <1>4, <1>9
  <2> QED BY <1>1, <1>3, <2>1, <2>2, WatchTypes, WatchNumbers, PricesNumbers DEF n
<1> QED BY <1>7, <1>8, <1>9 DEF PricesInv, TickOK

--------------------------------------------------------------------------------
(* The invariant of discovery.                                                *)
LEMMA BoundsStart == DiscoveryInit => WatchBounded
<1> SUFFICES ASSUME DiscoveryInit PROVE WatchBounded
  OBVIOUS
<1>1. now = 0 /\ budget \in Scenarios
  BY DEF DiscoveryInit
<1>2. /\ {"faults", "allowed", "omits", "omissions", "restarts", "reboots", "parts"} \subseteq DOMAIN budget
      /\ {budget.faults, budget.omits, budget.restarts} \subseteq Nat
      /\ budget.allowed = budget.faults /\ budget.omissions = budget.omits /\ budget.reboots = budget.restarts
  BY <1>1, CatalogAssumption
<1>3. /\ {"held", "mode", "live"} \subseteq DOMAIN budget /\ budget.held \subseteq Markets
      /\ budget.mode = "live" => budget.live \subseteq Markets /\ 2 * (Cardinality(budget.live) - 1) <= MaxObjects
  BY <1>1, PricesAssumption
<1> QED BY <1>1, <1>2, <1>3 DEF WatchBounded, Spent, Kept

(* The invariant holds to begin with.                                         *)
LEMMA DiscoveryStarts == DiscoveryInit => DiscoveryInv
BY BoundsStart, CatalogStarts, PricesStart, MilestonesStart DEF DiscoveryInv

(* Every step keeps it.                                                       *)
LEMMA DiscoverySteps == DiscoveryInv /\ [DiscoveryNext]_discoveryVars => DiscoveryInv'
<1> SUFFICES ASSUME DiscoveryInv, [DiscoveryNext]_discoveryVars PROVE DiscoveryInv'
  OBVIOUS
<1>1. WatchBounded /\ CatalogInv /\ PricesInv /\ MilestonesInv
  BY DEF DiscoveryInv
<1>2. WatchBounded'
  BY <1>1, DiscoveryMoves, FailureStays
<1> QED BY <1>1, <1>2, CatalogStep, PricesStep, MilestonesStep DEF DiscoveryInv

(* The invariant holds of every behaviour of discovery, the ticks and the     *)
(* event scans, whatever their intervals and however many markets there are.  *)
THEOREM DiscoveryInvariant == DiscoverySpec => []DiscoveryInv
BY DiscoveryStarts, DiscoverySteps, PTL DEF DiscoverySpec

(* What discovery shows, what volumes it ranks by and what positions outside  *)
(* the pinned series are priced at is as recent as their schedules promise.   *)
THEOREM MarketDataTheorem == DiscoverySpec => []MarketDataIsCurrent
<1>1. DiscoveryInv => MarketDataIsCurrent
  BY ShownIsCurrent, VolumesStayResynced, PricesStayRefreshed DEF DiscoveryInv, MarketDataIsCurrent, CatalogIsCurrent
<1> QED BY <1>1, DiscoveryInvariant, PTL

(* Every fill of the account is shown for good within a refresh of its        *)
(* snapshot and two ticks.                                                    *)
THEOREM FillsTheorem == DiscoverySpec => []FillsAreReconciled
<1>1. DiscoveryInv => FillsAreReconciled
  BY FillsStayReconciled DEF DiscoveryInv
<1> QED BY <1>1, DiscoveryInvariant, PTL

(* Every milestone updated up to the watermark is known.                      *)
THEOREM MilestonesTheorem == DiscoverySpec => []MilestonesAreFound
<1>1. DiscoveryInv => MilestonesAreFound
  BY DEF DiscoveryInv, MilestonesInv
<1> QED BY <1>1, DiscoveryInvariant, PTL

(* A batch that finishes has scanned the pinned series, whatever fills it.    *)
THEOREM PinsTheorem == DiscoverySpec => PinsAreScanned
<1>1. DiscoveryInv /\ [DiscoveryNext]_discoveryVars => [PinsScanned]_catalogVars
  BY PinsStep DEF DiscoveryInv
<1>2. DiscoverySpec => [][PinsScanned]_catalogVars
  BY <1>1, DiscoveryInvariant, PTL DEF DiscoverySpec
<1> QED BY <1>2 DEF PinsAreScanned, PinsScanned
=============================================================================
