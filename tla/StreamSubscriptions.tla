------------------------ MODULE StreamSubscriptions -------------------------
(***************************************************************************)
(* What services/kalshi/websocket.py, KalshiStreamGateway asks the         *)
(* exchange to stream: the watchlist it is given, the subscriptions it     *)
(* sends when a connection comes up, and the updates it sends when the     *)
(* watchlist changes, which name a subscription by the sid its `subscribed`*)
(* answer carried.  An answer is a message like any other: it waits in the *)
(* critical queue, and a full queue sheds it.                              *)
(*                                                                         *)
(* A run of _sync_subscriptions is one step: it works on the watchlist it  *)
(* read at its start, a watchlist that changes meanwhile sets the event    *)
(* that runs it again, and a connection lost meanwhile undoes all of it.   *)
(***************************************************************************)
EXTENDS Integers

CONSTANTS
    Tickers,
    MaxConnects,        \* bound: connections
    MaxChanges          \* bound: changes of the watchlist

ASSUME SubscriptionsAssumption == MaxConnects \in Nat /\ MaxChanges \in Nat

Channels == {"trade", "ticker", "lifecycle", "index"}

VARIABLES
    exchange_wide,      \* exchange_wide_trades, fixed at construction
    connects, connected,
    desired,            \* _desired_tickers
    update_event,       \* _update_event
    up,                 \* _trade_subscribed, _ticker_subscribed, ... by channel
    subscribed,         \* _subscribed_tickers
    sids,               \* _subscription_sids: channel -> sid, or NoSid
    answers,            \* `subscribed` answers not processed yet, by channel
    server,             \* the exchange: channel -> markets streamed on this connection
    changes,
    sent,               \* history: channel -> subscribes sent on this connection
    unaddressed,        \* history: an update had a channel without a sid to name
    shed                \* history: an answer was shed on this connection

vars == <<exchange_wide, connects, connected, desired, update_event, up, subscribed,
          sids, answers, server, changes, sent, unaddressed, shed>>

\* A sid names one subscription of one connection.
NoSid == <<0, "none">>
sid_of(c) == <<connects, c>>

market_channels == IF exchange_wide THEN {"ticker"} ELSE {"trade", "ticker"}

\* What a subscribe asks for: the watchlist, or everything the channel has.
asked(c) == IF c \in market_channels THEN desired ELSE Tickers

Init ==
    /\ exchange_wide \in BOOLEAN
    /\ connects = 0 /\ connected = FALSE
    /\ desired = {} /\ update_event = FALSE
    /\ up = [c \in Channels |-> FALSE]
    /\ subscribed = {}
    /\ sids = [c \in Channels |-> NoSid]
    /\ answers = {}
    /\ server = [c \in Channels |-> {}]
    /\ changes = 0
    /\ sent = [c \in Channels |-> 0]
    /\ unaddressed = FALSE /\ shed = FALSE

set_market_tickers(tickers) ==
    /\ changes < MaxChanges
    /\ tickers # desired
    /\ desired' = tickers /\ update_event' = TRUE
    /\ changes' = changes + 1
    /\ UNCHANGED <<exchange_wide, connects, connected, up, subscribed, sids, answers,
                   server, sent, unaddressed, shed>>

(***************************************************************************)
(* _sync_subscriptions, given the flags, the list believed subscribed, and *)
(* what this connection has sent so far.  While the ticker channel is not  *)
(* up it only subscribes; once it is, the difference to the list believed  *)
(* subscribed is sent to every market channel whose sid is known, and the  *)
(* whole watchlist is believed subscribed.                                 *)
(***************************************************************************)
\* Faulty form of due: the trade channel goes by the ticker channel's flag.
due_shared_flag(flags) ==
    {c \in Channels :
        /\ ~flags[IF c = "trade" THEN "ticker" ELSE c]
        /\ c \in market_channels => desired # {}}

due(flags) ==
    {c \in Channels : ~flags[c] /\ (c \in market_channels => desired # {})}

believed(flags, list) == IF due(flags) \cap market_channels # {} THEN desired ELSE list

\* The market channels an update can name.
addressed(known) == {c \in market_channels : known[c] # NoSid}

subscribe(flags, counts, list) ==
    /\ up' = [c \in Channels |-> flags[c] \/ c \in due(flags)]
    /\ sent' = [c \in Channels |-> IF c \in due(flags) THEN counts[c] + 1 ELSE counts[c]]
    /\ answers' = answers \cup due(flags)
    /\ subscribed' = believed(flags, list)

\* What the exchange makes of the messages; it knows only its own sids.
updated(c, list) ==
    IF c \in addressed(sids) /\ sids[c] = sid_of(c)
    THEN (server[c] \cup (desired \ list)) \ (list \ desired)
    ELSE server[c]

\* Faulty form of update_subscription: markets are added and never deleted.
update_subscription_add_only ==
    /\ server' = [c \in Channels |->
                     IF c \in addressed(sids) THEN server[c] \cup (desired \ subscribed) ELSE server[c]]
    /\ subscribed' = desired
    /\ unaddressed' = (unaddressed \/ (desired # subscribed /\ addressed(sids) # market_channels))

update_subscription ==
    /\ server' = [c \in Channels |-> updated(c, subscribed)]
    /\ subscribed' = desired
    /\ unaddressed' = (unaddressed \/ (desired # subscribed /\ addressed(sids) # market_channels))

\* run(): the update event is set.
sync ==
    /\ connected /\ update_event
    /\ update_event' = FALSE
    /\ IF up["ticker"]
       THEN /\ update_subscription
            /\ UNCHANGED <<up, sent, answers>>
       ELSE /\ subscribe(up, sent, subscribed)
            /\ server' = [c \in Channels |-> IF c \in due(up) THEN asked(c) ELSE server[c]]
            /\ UNCHANGED unaddressed
    /\ UNCHANGED <<exchange_wide, connects, connected, desired, sids, changes, shed>>

(***************************************************************************)
(* run(): a connection comes up.  It forgets what the last one had, the    *)
(* index channels' flag excepted, and subscribes what is due.              *)
(***************************************************************************)
\* Faulty form of forgotten_sids: they are kept.
forgotten_sids_kept == sids

fresh == [c \in Channels |-> c = "index" /\ up["index"]]
forgotten_sids == [c \in Channels |-> NoSid]

connect ==
    /\ ~connected /\ connects < MaxConnects
    /\ connected' = TRUE /\ connects' = connects + 1
    /\ sids' = forgotten_sids
    /\ answers' = due(fresh)
    /\ up' = [c \in Channels |-> fresh[c] \/ c \in due(fresh)]
    /\ sent' = [c \in Channels |-> IF c \in due(fresh) THEN 1 ELSE 0]
    /\ subscribed' = believed(fresh, {})
    /\ server' = [c \in Channels |-> IF c \in due(fresh) THEN asked(c) ELSE {}]
    /\ unaddressed' = FALSE /\ shed' = FALSE
    /\ UNCHANGED <<exchange_wide, desired, update_event, changes>>

\* run()'s except clause.
disconnect ==
    /\ connected /\ connected' = FALSE
    /\ sids' = forgotten_sids
    /\ up' = fresh
    /\ subscribed' = {}
    /\ server' = [c \in Channels |-> {}]
    /\ answers' = {}
    /\ UNCHANGED <<exchange_wide, connects, desired, update_event, changes, sent,
                   unaddressed, shed>>

\* _handle_message, type subscribed.
answer(c) ==
    /\ connected /\ c \in answers
    /\ sids' = [sids EXCEPT ![c] = sid_of(c)]
    /\ answers' = answers \ {c}
    /\ UNCHANGED <<exchange_wide, connects, connected, desired, update_event, up, subscribed,
                   server, changes, sent, unaddressed, shed>>

\* _ingest_raw with the critical queue full.
shed_answer(c) ==
    /\ connected /\ c \in answers
    /\ answers' = answers \ {c}
    /\ shed' = TRUE
    /\ UNCHANGED <<exchange_wide, connects, connected, desired, update_event, up, subscribed,
                   sids, server, changes, sent, unaddressed>>

-----------------------------------------------------------------------------
Next ==
    \/ \E tickers \in SUBSET Tickers : set_market_tickers(tickers)
    \/ sync \/ connect \/ disconnect
    \/ \E c \in Channels : answer(c) \/ shed_answer(c)

Spec == Init /\ [][Next]_vars

-----------------------------------------------------------------------------
\* The gateway's and the exchange's state have their types.
TypeOK ==
    /\ exchange_wide \in BOOLEAN /\ connected \in BOOLEAN /\ update_event \in BOOLEAN
    /\ connects \in Nat /\ changes \in Nat
    /\ desired \in SUBSET Tickers /\ subscribed \in SUBSET Tickers
    /\ up \in [Channels -> BOOLEAN]
    /\ sids \in [Channels -> {NoSid} \cup (Nat \X Channels)]
    /\ answers \in SUBSET Channels
    /\ server \in [Channels -> SUBSET Tickers]
    /\ sent \in [Channels -> Nat]
    /\ unaddressed \in BOOLEAN /\ shed \in BOOLEAN

\* A channel is subscribed at most once a connection, whenever the watchlist
\* arrives (_sync_subscriptions keeps the trade and ticker flags apart to avoid
\* a "duplicate firehose").
SubscribedOnce == connected => \A c \in Channels : sent[c] <= 1

\* Between changes, and unless an update found a channel without a sid, the
\* exchange streams exactly the watchlist on the market channels, over any
\* sequence of changes, losses and late answers; and an exchange-wide trade
\* stream is never narrowed to a watchlist.
ServedWhenAddressed ==
    connected /\ ~update_event =>
        /\ ~unaddressed => \A c \in market_channels : server[c] = desired
        /\ exchange_wide => server["trade"] = Tickers

\* An update never names a subscription of an earlier connection.
SidsAreOfThisConnection ==
    \A c \in Channels : sids[c] # NoSid => connected /\ sids[c] = sid_of(c)

\* With no answer outstanding or shed and no change unseen, the exchange
\* streams the watchlist (_sync_subscriptions: a ticker added mid-connection
\* "gets its first price from WS immediately").
WatchlistIsServed ==
    connected /\ ~update_event /\ answers = {} /\ ~shed =>
        \A c \in market_channels : server[c] = desired
=============================================================================
