--------------------------- MODULE DispatchProofs ---------------------------
(***************************************************************************)
(* Theorems about StreamDispatch, for any markets, stamps, slots, queue    *)
(* limit, and number of messages and connections.                          *)
(***************************************************************************)
EXTENDS StreamDispatch, FiniteSetTheorems, SequenceTheorems, TLAPS

\* A slot is free, held by a task, or was leaked by one.
SlotsInv == free + Len(tasks) + leaked = Slots

\* Between connections nothing consumes and no trade is in progress.
IdleInv == ~connected => consumer.at = "cancelled" /\ tasks = <<>>

\* Tickers are pending once a market, never with a stamp above its newest.
PendingInv ==
    /\ \A i, j \in DOMAIN ticker_by_market :
          ticker_by_market[i].market = ticker_by_market[j].market => i = j
    /\ connected => \A i \in DOMAIN ticker_by_market :
          ticker_by_market[i].stamp <= newest[ticker_by_market[i].market]

\* Messages wait in the order they arrived: tasks first, then the trade that
\* waits for a slot, then the queue.  What waits there is later than any trade
\* that has begun.
later(id, ts, begun) ==
    /\ \A j \in DOMAIN ts : ts[j].id < id
    /\ \A m \in Markets : begun[m] < id

QueueInv ==
    \A i \in DOMAIN queue : queue[i] # Wake =>
        /\ queue[i].cls \in {"trade", "inline"} /\ queue[i].id \in 1 .. received
        /\ queue[i].cls = "trade" => queue[i].market \in Markets
        /\ \A j \in DOMAIN queue : i < j /\ queue[j] # Wake => queue[i].id < queue[j].id
        /\ consumer.at = "acquiring" => consumer.item.id < queue[i].id
        /\ later(queue[i].id, tasks, last_begun)

WaiterInv ==
    consumer.at = "acquiring" =>
        /\ consumer.item.id \in 1 .. received /\ consumer.item.market \in Markets
        /\ later(consumer.item.id, tasks, last_begun)

TaskInv ==
    /\ \A i \in DOMAIN tasks : tasks[i].id \in 1 .. received
    /\ \A i, j \in DOMAIN tasks : i < j => tasks[i].id < tasks[j].id
    /\ \A m \in Markets : last_begun[m] <= received

ArrivalInv == QueueInv /\ WaiterInv /\ TaskInv

\* Tasks start in the order they were created, and the started ones of a
\* market stand in its gate in that order; the one that runs is the first.
GateInv ==
    /\ \A i, j \in DOMAIN tasks : i < j /\ tasks[j].at # "created" => tasks[i].at # "created"
    /\ \A m \in Markets : \A k, l \in DOMAIN gate[m] : k < l => gate[m][k] < gate[m][l]
    /\ \A m \in Markets : \A k \in DOMAIN gate[m] :
          \E i \in DOMAIN tasks :
             tasks[i].at # "created" /\ tasks[i].market = m /\ tasks[i].id = gate[m][k]
    /\ \A i \in DOMAIN tasks : tasks[i].at # "created" =>
          \E k \in DOMAIN gate[tasks[i].market] : gate[tasks[i].market][k] = tasks[i].id
    /\ \A i \in DOMAIN tasks : tasks[i].at = "running" =>
          gate[tasks[i].market] # <<>> /\ gate[tasks[i].market][1] = tasks[i].id
    /\ \A i \in DOMAIN tasks : tasks[i].at # "running" =>
          last_begun[tasks[i].market] < tasks[i].id

DispatchInv ==
    /\ TypeOK /\ SlotsInv /\ IdleInv
    /\ PendingInv /\ ArrivalInv /\ GateInv
    /\ NothingIsLost

-----------------------------------------------------------------------------
\* The greater of two numbers.
LEMMA MaxOfTwo == \A a, b \in Nat : Max({a, b}) = IF a >= b THEN a ELSE b
  BY DEF Max

\* A sequence without its i-th element: what followed it moves up.
LEMMA Removed ==
    ASSUME NEW S, NEW s \in Seq(S), NEW i \in 1 .. Len(s)
    PROVE  /\ RemoveAt(s, i) \in Seq(S)
           /\ Len(RemoveAt(s, i)) = Len(s) - 1
           /\ \A k \in 1 .. Len(s) - 1 : RemoveAt(s, i)[k] = IF k < i THEN s[k] ELSE s[k + 1]
<1> DEFINE before == SubSeq(s, 1, i - 1)
           after == SubSeq(s, i + 1, Len(s))
<1>0. Len(s) \in Nat /\ \A k \in 1 .. Len(s) : s[k] \in S
  BY LenProperties
<1>1. /\ before \in Seq(S) /\ Len(before) = i - 1
      /\ \A k \in 1 .. i - 1 : before[k] = s[k]
  BY <1>0, SubSeqProperties
<1>2. /\ after \in Seq(S) /\ Len(after) = Len(s) - i
      /\ \A k \in 1 .. Len(s) - i : after[k] = s[i + k]
  BY <1>0, SubSeqProperties
<1> HIDE DEF before, after
<1>3. /\ before \o after \in Seq(S)
      /\ Len(before \o after) = (i - 1) + (Len(s) - i)
      /\ \A k \in 1 .. (i - 1) + (Len(s) - i) :
           (before \o after)[k] = IF k <= i - 1 THEN before[k] ELSE after[k - (i - 1)]
  <2>1. /\ before \o after \in Seq(S)
        /\ Len(before \o after) = Len(before) + Len(after)
        /\ \A k \in 1 .. Len(before) + Len(after) :
             (before \o after)[k] = IF k <= Len(before) THEN before[k] ELSE after[k - Len(before)]
    BY <1>1, <1>2, ConcatProperties
  <2>2. Len(before) = i - 1 /\ Len(after) = Len(s) - i
    BY <1>1, <1>2
  <2> QED
    BY <2>1, <2>2
<1>4. \A k \in 1 .. Len(s) - 1 : (before \o after)[k] = IF k < i THEN s[k] ELSE s[k + 1]
  <2> TAKE k \in 1 .. Len(s) - 1
  <2>1. CASE k < i
    BY <1>0, <1>1, <1>3, <2>1
  <2>2. CASE ~(k < i)
    <3> DEFINE j == k - (i - 1)
    <3>1. j \in 1 .. Len(s) - i /\ i + j = k + 1
      BY <1>0, <2>2
    <3>2. k \in 1 .. (i - 1) + (Len(s) - i) /\ ~(k <= i - 1)
      BY <1>0, <2>2
    <3>3. (before \o after)[k] = after[j]
      BY <1>3, <3>2
    <3> HIDE DEF j
    <3>4. after[j] = s[k + 1]
      BY <1>2, <3>1
    <3> QED BY <2>2, <3>3, <3>4
  <2> QED BY <2>1, <2>2
<1>5. Len(before \o after) = Len(s) - 1
  BY <1>0, <1>3
<1> QED
  BY <1>3, <1>4, <1>5 DEF RemoveAt, before, after

\* A finite set that may have gained an element.
LEMMA Gained ==
    ASSUME NEW A, IsFiniteSet(A), NEW x, x \notin A, NEW more \in BOOLEAN,
           NEW B, B = IF more THEN A \cup {x} ELSE A
    PROVE  /\ Cardinality(A) \in Nat
           /\ Cardinality(B) = Cardinality(A) + (IF more THEN 1 ELSE 0)
<1>1. Cardinality(A) \in Nat /\ Cardinality(A \cup {x}) = Cardinality(A) + 1
  BY FS_AddElement, FS_CardinalityType
<1>2. CASE more
  BY <1>1, <1>2
<1>3. CASE ~more
  BY <1>1, <1>3
<1> QED BY <1>2, <1>3

\* The places of a sequence that a condition marks, when one is appended to it
\* or its head is taken.
unlike(w, s) == {i \in DOMAIN s : s[i] # w}

LEMMA MarkedAppend ==
    ASSUME NEW S, NEW s \in Seq(S), NEW e \in S, NEW w
    PROVE  /\ Cardinality(unlike(w, s)) \in Nat
           /\ Cardinality(unlike(w, Append(s, e))) = Cardinality(unlike(w, s)) + (IF e # w THEN 1 ELSE 0)
<1> DEFINE t == Append(s, e)
           old == {i \in DOMAIN s : s[i] # w}
           new == {i \in DOMAIN t : t[i] # w}
           n == Len(s) + 1
<1>1. Len(s) \in Nat /\ DOMAIN s = 1 .. Len(s)
  BY LenProperties
<1>2. DOMAIN t = 1 .. n /\ t[n] = e /\ \A i \in 1 .. Len(s) : t[i] = s[i]
  BY <1>1, AppendProperties, LenProperties
<1>3. IsFiniteSet(old)
  <2>1. IsFiniteSet(1 .. Len(s)) /\ old \subseteq 1 .. Len(s)
    BY <1>1, FS_Interval
  <2> QED
    BY <2>1, FS_Subset
<1>4. n \notin old
  BY <1>1
<1>5. new = IF e # w THEN old \cup {n} ELSE old
  BY <1>1, <1>2
<1>6. (e # w) \in BOOLEAN
  OBVIOUS
<1> HIDE DEF old, new, n
<1>7. /\ Cardinality(old) \in Nat
      /\ Cardinality(new) = Cardinality(old) + (IF e # w THEN 1 ELSE 0)
  BY <1>3, <1>4, <1>5, <1>6, Gained
<1> QED
  BY <1>7 DEF old, new, unlike

LEMMA MarkedTail ==
    ASSUME NEW S, NEW s \in Seq(S), s # <<>>, NEW w
    PROVE  /\ Cardinality(unlike(w, Tail(s))) \in Nat
           /\ Cardinality(unlike(w, s)) = Cardinality(unlike(w, Tail(s))) + (IF Head(s) # w THEN 1 ELSE 0)
<1> DEFINE old == {i \in DOMAIN s : s[i] # w}
           new == {i \in DOMAIN Tail(s) : Tail(s)[i] # w}
           following == old \ {1}
<1>1. Len(s) \in Nat \ {0} /\ DOMAIN s = 1 .. Len(s)
  BY LenProperties, EmptySeq
<1>2. /\ DOMAIN Tail(s) = 1 .. Len(s) - 1 /\ Head(s) = s[1]
      /\ \A i \in 1 .. Len(s) - 1 : Tail(s)[i] = s[i + 1]
  BY <1>1, HeadTailProperties, LenProperties
<1>3. IsFiniteSet(old) /\ IsFiniteSet(new) /\ IsFiniteSet(following)
  <2>1. IsFiniteSet(1 .. Len(s)) /\ IsFiniteSet(1 .. Len(s) - 1)
    BY <1>1, FS_Interval
  <2>2. old \subseteq 1 .. Len(s) /\ new \subseteq 1 .. Len(s) - 1 /\ following \subseteq old
    BY <1>1, <1>2
  <2> QED
    BY <2>1, <2>2, FS_Subset
<1>4. Cardinality(new) = Cardinality(following)
  <2> DEFINE f == [i \in new |-> i + 1]
  <2>1. \A i \in new : i \in 1 .. Len(s) - 1 /\ s[i + 1] # w
    BY <1>2
  <2>2. \A j \in following : j \in 2 .. Len(s) /\ j - 1 \in new /\ f[j - 1] = j
    BY <1>1, <1>2
  <2>3. f \in Bijection(new, following)
    <3>1. f \in [new -> following]
      BY <1>1, <2>1
    <3>2. \A a, b \in new : f[a] = f[b] => a = b
      BY <2>1
    <3>3. \A j \in following : \E i \in new : f[i] = j
      BY <2>2
    <3> QED
      BY <3>1, <3>2, <3>3 DEF Bijection, Injection, Surjection, IsInjective
  <2>4. ExistsBijection(new, following)
    BY <2>3 DEF ExistsBijection
  <2> QED
    BY <1>3, <2>4, FS_Bijection
<1>5. old = IF Head(s) # w THEN following \cup {1} ELSE following
  BY <1>1, <1>2
<1>6. (Head(s) # w) \in BOOLEAN /\ 1 \notin following
  OBVIOUS
<1> HIDE DEF old, new, following
<1>7. Cardinality(old) = Cardinality(following) + (IF Head(s) # w THEN 1 ELSE 0)
  BY <1>3, <1>5, <1>6, Gained
<1>8. Cardinality(new) \in Nat
  BY <1>3, FS_CardinalityType
<1> QED
  BY <1>4, <1>7, <1>8 DEF old, new, unlike

-----------------------------------------------------------------------------
\* What the steps do to the sequences: a task changes its stage, is created,
\* or ends; a pending ticker is popped; an item is queued or taken.
LEMMA StageOfTask ==
    ASSUME tasks \in Seq(Task), NEW i \in DOMAIN tasks,
           NEW at \in {"created", "gated", "running"}, set_task(i, at)
    PROVE  /\ tasks' \in Seq(Task) /\ Len(tasks') = Len(tasks) /\ DOMAIN tasks' = DOMAIN tasks
           /\ \A j \in DOMAIN tasks :
                 /\ tasks'[j].id = tasks[j].id /\ tasks'[j].market = tasks[j].market
                 /\ tasks'[j].at = IF j = i THEN at ELSE tasks[j].at
<1>1. DOMAIN tasks = 1 .. Len(tasks) /\ \A j \in DOMAIN tasks : tasks[j] \in Task
  BY LenProperties
<1>2. tasks' = [tasks EXCEPT ![i] = [tasks[i] EXCEPT !.at = at]] /\ [tasks[i] EXCEPT !.at = at] \in Task
  BY <1>1 DEF set_task, Task
<1>3. /\ tasks' \in Seq(Task) /\ Len(tasks') = Len(tasks)
      /\ \A j \in 1 .. Len(tasks) : tasks'[j] = IF j = i THEN [tasks[i] EXCEPT !.at = at] ELSE tasks[j]
  BY <1>1, <1>2, ExceptSeq
<1> QED
  BY <1>1, <1>3, LenProperties DEF Task

LEMMA CreatedTask ==
    ASSUME tasks \in Seq(Task), NEW item, item.id \in Nat, item.market \in Markets, create_task(item)
    PROVE  /\ tasks' \in Seq(Task) /\ Len(tasks') = Len(tasks) + 1
           /\ DOMAIN tasks = 1 .. Len(tasks) /\ DOMAIN tasks' = 1 .. Len(tasks) + 1
           /\ \A j \in DOMAIN tasks : tasks'[j] = tasks[j]
           /\ tasks'[Len(tasks) + 1] = [id |-> item.id, market |-> item.market, at |-> "created"]
<1> DEFINE task == [id |-> item.id, market |-> item.market, at |-> "created"]
<1>1. task \in Task /\ tasks' = Append(tasks, task)
  BY DEF create_task, Task
<1> QED
  BY <1>1, AppendProperties, LenProperties

LEMMA EndedTask ==
    ASSUME tasks \in Seq(Task), NEW i \in DOMAIN tasks, tasks' = RemoveAt(tasks, i)
    PROVE  /\ tasks' \in Seq(Task) /\ Len(tasks') = Len(tasks) - 1
           /\ DOMAIN tasks = 1 .. Len(tasks) /\ DOMAIN tasks' = 1 .. Len(tasks) - 1
           /\ \A j \in DOMAIN tasks' : tasks'[j] = IF j < i THEN tasks[j] ELSE tasks[j + 1]
<1>1. DOMAIN tasks = 1 .. Len(tasks)
  BY LenProperties
<1>2. /\ tasks' \in Seq(Task) /\ Len(tasks') = Len(tasks) - 1
      /\ \A j \in 1 .. Len(tasks) - 1 : tasks'[j] = IF j < i THEN tasks[j] ELSE tasks[j + 1]
  BY <1>1, Removed
<1> QED
  BY <1>1, <1>2, LenProperties

LEMMA PoppedTicker ==
    ASSUME ticker_by_market \in Seq(Pending), pop_ticker
    PROVE  /\ ticker_by_market' \in Seq(Pending) /\ Len(ticker_by_market') = Len(ticker_by_market) - 1
           /\ DOMAIN ticker_by_market = 1 .. Len(ticker_by_market) /\ Len(ticker_by_market) \in Nat \ {0}
           /\ DOMAIN ticker_by_market' = 1 .. Len(ticker_by_market) - 1
           /\ ticker_by_market[1] \in Pending /\ Head(ticker_by_market) = ticker_by_market[1]
           /\ \A i \in DOMAIN ticker_by_market' : ticker_by_market'[i] = ticker_by_market[i + 1]
<1>1. ticker_by_market # <<>> /\ ticker_by_market' = Tail(ticker_by_market)
  BY DEF pop_ticker
<1>2. DOMAIN ticker_by_market = 1 .. Len(ticker_by_market) /\ Len(ticker_by_market) \in Nat \ {0}
  BY <1>1, LenProperties, EmptySeq
<1>3. ticker_by_market[1] \in Pending /\ Head(ticker_by_market) = ticker_by_market[1]
  BY <1>2, ElementOfSeq
<1>4. /\ ticker_by_market' \in Seq(Pending) /\ Len(ticker_by_market') = Len(ticker_by_market) - 1
      /\ \A i \in 1 .. Len(ticker_by_market') : ticker_by_market'[i] = ticker_by_market[i + 1]
  BY <1>1, HeadTailProperties
<1> QED
  BY <1>2, <1>3, <1>4, LenProperties

LEMMA Superseded ==
    ASSUME TypeOK, NEW m \in Markets, NEW stamp \in Stamps, _coalesce_ticker(m, stamp), is_pending(m)
    PROVE  ticker_by_market' \in Seq(Pending) /\ Len(ticker_by_market') = Len(ticker_by_market)
<1> DEFINE i == pending_at(m)
           p == ticker_by_market[i]
           kept == IF stamp < p.stamp THEN p.stamp ELSE stamp
<1>1. i \in DOMAIN ticker_by_market
  BY DEF is_pending, pending_at
<1>2. i \in 1 .. Len(ticker_by_market) /\ p \in Pending
  BY <1>1, LenProperties, ElementOfSeq DEF TypeOK
<1>3. [p EXCEPT !.stamp = kept] \in Pending
  BY <1>2 DEF Pending
<1>4. ticker_by_market' = [ticker_by_market EXCEPT ![i] = [p EXCEPT !.stamp = kept]]
  BY DEF _coalesce_ticker, supersede
<1> HIDE DEF i, p, kept
<1> QED
  BY <1>2, <1>3, <1>4, ExceptSeq DEF TypeOK

LEMMA QueuedMessages ==
    /\ queued_messages = Cardinality(unlike(Wake, queue))
    /\ queued_messages' = Cardinality(unlike(Wake, queue'))
  BY DEF queued_messages, unlike, Wake

LEMMA QueuedItem ==
    ASSUME queue \in Seq(Item), NEW item \in Item, queue' = Append(queue, item)
    PROVE  /\ queue' \in Seq(Item) /\ Len(queue') = Len(queue) + 1 /\ queue' # <<>>
           /\ DOMAIN queue = 1 .. Len(queue) /\ DOMAIN queue' = 1 .. Len(queue) + 1
           /\ \A i \in DOMAIN queue : queue'[i] = queue[i]
           /\ queue'[Len(queue) + 1] = item
           /\ queued_messages' = queued_messages + (IF item # Wake THEN 1 ELSE 0)
<1>1. queued_messages' = queued_messages + (IF item # Wake THEN 1 ELSE 0)
  BY QueuedMessages, MarkedAppend
<1> QED
  BY <1>1, AppendProperties, LenProperties

LEMMA TakenItem ==
    ASSUME queue \in Seq(Item), queue # <<>>, queue' = Tail(queue)
    PROVE  /\ queue' \in Seq(Item) /\ Len(queue') = Len(queue) - 1
           /\ DOMAIN queue = 1 .. Len(queue) /\ Len(queue) \in Nat \ {0}
           /\ DOMAIN queue' = 1 .. Len(queue) - 1
           /\ 1 \in DOMAIN queue /\ queue[1] \in Item /\ Head(queue) = queue[1]
           /\ \A i \in DOMAIN queue' : queue'[i] = queue[i + 1]
           /\ queued_messages = queued_messages' + (IF Head(queue) # Wake THEN 1 ELSE 0)
<1>1. queued_messages = queued_messages' + (IF Head(queue) # Wake THEN 1 ELSE 0)
  BY QueuedMessages, MarkedTail
<1>2. DOMAIN queue = 1 .. Len(queue) /\ Len(queue) \in Nat \ {0} /\ 1 \in DOMAIN queue
  BY LenProperties, EmptySeq
<1>3. queue[1] \in Item /\ Head(queue) = queue[1]
  BY <1>2, ElementOfSeq
<1>4. /\ queue' \in Seq(Item) /\ Len(queue') = Len(queue) - 1
      /\ \A i \in 1 .. Len(queue') : queue'[i] = queue[i + 1]
  BY HeadTailProperties
<1> QED
  BY <1>1, <1>2, <1>3, <1>4, LenProperties

LEMMA TasksAtAStage ==
    ASSUME tasks \in Seq(Task), NEW stages
    PROVE  Cardinality(tasks_at(stages)) \in 0 .. Len(tasks)
<1>1. Len(tasks) \in Nat /\ DOMAIN tasks = 1 .. Len(tasks)
  BY LenProperties
<1>2. IsFiniteSet(1 .. Len(tasks)) /\ Cardinality(1 .. Len(tasks)) = Len(tasks)
  BY <1>1, FS_Interval, SMTT(20)
<1>3. tasks_at(stages) \subseteq 1 .. Len(tasks)
  BY <1>1 DEF tasks_at
<1>4. IsFiniteSet(tasks_at(stages)) /\ Cardinality(tasks_at(stages)) <= Cardinality(1 .. Len(tasks))
  BY <1>2, <1>3, FS_Subset
<1> QED
  BY <1>1, <1>2, <1>4, FS_CardinalityType

\* The consumer's states; what it took is a message that arrived.
LEMMA ConsumerStates ==
    /\ Wake \in Item /\ NoItem \in Item /\ Ready \in Consumer /\ Ready.at = "ready"
    /\ Idle("cancelled") \in Consumer /\ Idle("cancelled").at = "cancelled"
    /\ Idle("parked") \in Consumer /\ Idle("parked").at = "parked"
    /\ \A item \in Item : /\ [at |-> "handling", item |-> item] \in Consumer
                         /\ [at |-> "acquiring", item |-> item] \in Consumer
  BY DEF Wake, NoItem, Ready, Idle, Item, Consumer

\* The constants as numbers.
LEMMA Numbers ==
    /\ Slots \in Nat /\ Slots >= 1 /\ MaxQueue \in Nat /\ MaxQueue >= 1
    /\ MaxConnects \in Nat /\ \A stamp \in Stamps : stamp \in Nat /\ stamp > 0
  BY DispatchAssumption

-----------------------------------------------------------------------------
\* The state keeps its types, and the queue and the semaphore their bounds.
LEMMA TypeStep == TypeOK /\ SlotsInv /\ ArrivalInv /\ GateInv /\ [Next]_vars => TypeOK'
<1> SUFFICES ASSUME TypeOK, SlotsInv, ArrivalInv, GateInv, [Next]_vars PROVE TypeOK'
  OBVIOUS
<1>a. Len(queue) \in Nat /\ Len(tasks) \in Nat /\ Len(ticker_by_market) \in Nat
  BY LenProperties DEF TypeOK
<1> USE DEF TypeOK, vars, connection, counters, tickers, dispatch
<1>1. ASSUME NEW cls \in {"trade", "inline"}, NEW m \in Markets \cup {NoMarket}, ingest(cls, m)
      PROVE  TypeOK'
  <2>1. received' \in Nat /\ [cls |-> cls, id |-> received', market |-> m] \in Item
    BY <1>1 DEF ingest, Item
  <2>2. queue' \in Seq(Item) /\ Len(queue') <= MaxQueue
    BY <1>1, <1>a, <2>1, QueuedItem, DispatchAssumption DEF ingest, has_room
  <2>3. dropped' \in Nat
    BY <1>1 DEF ingest
  <2> QED BY <1>1, <2>1, <2>2, <2>3 DEF ingest
<1>2. ASSUME NEW m \in Markets, NEW stamp \in Stamps, _coalesce_ticker(m, stamp)
      PROVE  TypeOK'
  <2>1. received' \in Nat /\ coalesced' \in Nat
    BY <1>2 DEF _coalesce_ticker
  <2>2. newest' \in [Markets -> Stamps \cup {0}]
    <3>1. newest[m] \in Stamps \cup {0} /\ newest[m] \in Nat /\ stamp \in Nat
      BY Numbers
    <3>2. Max({newest[m], stamp}) \in {newest[m], stamp}
      BY <3>1, MaxOfTwo
    <3> QED
      BY <1>2, <3>1, <3>2 DEF _coalesce_ticker
  <2>3. ticker_by_market' \in Seq(Pending)
    <3>1. CASE is_pending(m)
      BY <1>2, <3>1, Superseded
    <3>2. CASE ~is_pending(m)
      <4>1. [market |-> m, stamp |-> stamp] \in Pending
        BY DEF Pending
      <4>2. ticker_by_market' = Append(ticker_by_market, [market |-> m, stamp |-> stamp])
        BY <1>2, <3>2 DEF _coalesce_ticker, add_pending
      <4> QED BY <4>1, <4>2, AppendProperties
    <3> QED BY <3>1, <3>2
  <2>4. queue' \in Seq(Item) /\ Len(queue') <= MaxQueue
    <3>1. UNCHANGED queue \/ (has_room /\ queue' = Append(queue, Wake))
      BY <1>2 DEF _coalesce_ticker, supersede, add_pending
    <3>2. CASE has_room /\ queue' = Append(queue, Wake)
      <4>1. queue' \in Seq(Item) /\ Len(queue') = Len(queue) + 1
        BY <3>2, ConsumerStates, QueuedItem
      <4> QED
        BY <1>a, <3>2, <4>1, Numbers DEF has_room
    <3> QED BY <3>1, <3>2
  <2> QED BY <1>2, <2>1, <2>2, <2>3, <2>4 DEF _coalesce_ticker
<1>b. ASSUME pop_ticker PROVE (newest' = newest) /\ ticker_by_market' \in Seq(Pending) /\ shown' \in [Markets -> SUBSET Stamps]
  <2>1. newest' = newest /\ ticker_by_market' \in Seq(Pending) /\ Head(ticker_by_market) \in Pending
    BY <1>b, <1>a, PoppedTicker DEF pop_ticker
  <2>2. shown' \in [Markets -> SUBSET Stamps]
    BY <1>b, <1>a, <2>1 DEF pop_ticker, Pending
  <2> QED BY <2>1, <2>2
<1>c. ASSUME NEW item, item.id \in Nat, item.market \in Markets, free > 0, create_task(item)
      PROVE  tasks' \in Seq(Task) /\ free' \in 0 .. Slots
  <2>1. tasks' \in Seq(Task)
    BY <1>c, CreatedTask
  <2> QED
    BY <1>c, <2>1, Numbers DEF create_task
<1>3. CASE take_item
  <2>1. queue # <<>> /\ queue' = Tail(queue)
    BY <1>3 DEF take_item
  <2>2. /\ queue' \in Seq(Item) /\ Len(queue') <= MaxQueue /\ queue[1] \in Item /\ Head(queue) = queue[1]
    <3>1. queue' \in Seq(Item) /\ Len(queue') = Len(queue) - 1 /\ queue[1] \in Item /\ Head(queue) = queue[1]
      BY <2>1, TakenItem
    <3> QED
      BY <1>a, <3>1, Numbers
  <2>a. queue[1].cls \in {"trade", "inline", "wake"}
    <3>1. 1 \in DOMAIN queue
      BY <2>1, TakenItem
    <3>2. CASE queue[1] = Wake
      BY <3>2 DEF Wake
    <3>3. CASE queue[1] # Wake
      BY <3>1, <3>3 DEF ArrivalInv, QueueInv
    <3> QED BY <3>2, <3>3
  <2>3. consumer' \in Consumer
    BY <1>3, <2>2, <2>a, ConsumerStates DEF take_item
  <2>4. CASE Head(queue).cls = "trade" /\ free > 0
    <3>1. create_task(Head(queue))
      BY <1>3, <2>4 DEF take_item
    <3>2. Head(queue).id \in Nat /\ Head(queue).market \in Markets
      <4>1. 1 \in DOMAIN queue /\ Head(queue) = queue[1]
        BY <2>1, TakenItem
      <4>2. queue[1] # Wake
        BY <2>4, <4>1 DEF Wake
      <4> QED
        BY <2>2, <2>4, <4>1, <4>2 DEF ArrivalInv, QueueInv, Item
    <3> QED
      BY <1>3, <1>c, <2>2, <2>3, <2>4, <3>1, <3>2 DEF take_item, create_task
  <2>5. CASE ~(Head(queue).cls = "trade" /\ free > 0)
    <3>1. UNCHANGED <<tickers, connection, flusher, counters, dispatch>>
      BY <1>3, <2>2, <2>a, <2>5 DEF take_item
    <3> QED
      BY <2>2, <2>3, <3>1
  <2> QED BY <2>4, <2>5
<1>4. CASE take_ticker
  BY <1>4, <1>b, ConsumerStates DEF take_ticker
<1>5. CASE park
  BY <1>5, ConsumerStates DEF park
<1>6. CASE acquired
  <2>1. consumer.item.id \in Nat /\ consumer.item.market \in Markets
    BY <1>6 DEF acquired, ArrivalInv, WaiterInv
  <2> QED
    BY <1>6, <1>c, <2>1, ConsumerStates DEF acquired, create_task
<1>7. CASE handled
  BY <1>7, ConsumerStates DEF handled
<1>8. CASE flush_ticker
  BY <1>8, <1>b DEF flush_ticker
<1>9. CASE flushed
  BY <1>9 DEF flushed
<1>10. ASSUME NEW i \in 1 .. Slots, start_trade(i) PROVE TypeOK'
  <2>1. i \in DOMAIN tasks /\ tasks[i] \in Task
    BY <1>10, <1>a, LenProperties, ElementOfSeq DEF start_trade, next_to_start
  <2>2. tasks' \in Seq(Task)
    BY <1>10, <1>a, <2>1, StageOfTask DEF start_trade, Task
  <2>3. gate' \in [Markets -> Seq(Nat)]
    BY <1>10, <2>1, AppendProperties DEF start_trade, Task
  <2>4. last_begun' \in [Markets -> Nat]
    BY <1>10, <2>1 DEF start_trade, Task, begin
  <2> QED BY <1>10, <2>2, <2>3, <2>4 DEF start_trade
<1>11. ASSUME NEW i \in 1 .. Slots, pass_gate(i) PROVE TypeOK'
  <2>1. i \in DOMAIN tasks /\ tasks[i] \in Task
    BY <1>11, <1>a, LenProperties, ElementOfSeq DEF pass_gate
  <2>2. tasks' \in Seq(Task)
    BY <1>11, <1>a, <2>1, StageOfTask DEF pass_gate, Task
  <2>4. last_begun' \in [Markets -> Nat]
    BY <1>11, <2>1 DEF pass_gate, Task, begin
  <2> QED BY <1>11, <2>2, <2>4 DEF pass_gate
<1>12. ASSUME NEW i \in 1 .. Slots, finish_trade(i) PROVE TypeOK'
  <2>1. i \in DOMAIN tasks /\ tasks[i] \in Task
    BY <1>12, <1>a, LenProperties, ElementOfSeq DEF finish_trade
  <2>a. tasks' = RemoveAt(tasks, i) /\ tasks \in Seq(Task)
    BY <1>12, <1>a DEF finish_trade
  <2>2. tasks' \in Seq(Task) /\ Len(tasks) >= 1
    <3>1. tasks' \in Seq(Task) /\ DOMAIN tasks = 1 .. Len(tasks)
      BY <2>1, <2>a, EndedTask
    <3> QED BY <2>1, <2>a, <3>1, LenProperties
  <2>3. gate' \in [Markets -> Seq(Nat)]
    <3>1. gate[tasks[i].market] # <<>> /\ tasks[i].market \in Markets
      BY <1>12, <2>1 DEF GateInv, finish_trade, Task
    <3> QED
      BY <1>12, <3>1, HeadTailProperties DEF finish_trade, release_gate
  <2>4. free' \in 0 .. Slots /\ processed' \in Nat
    BY <1>12, <1>a, <2>2, DispatchAssumption DEF finish_trade, SlotsInv
  <2> QED BY <1>12, <2>2, <2>3, <2>4 DEF finish_trade
<1>13. CASE disconnect
  <2> DEFINE began == Cardinality(tasks_at({"running"}))
             unstarted == Cardinality(tasks_at({"created"}))
  <2>1. began \in 0 .. Len(tasks) /\ unstarted \in 0 .. Len(tasks)
    BY <1>a, TasksAtAStage
  <2>2. /\ processed' = processed + began + (IF consumer.at = "handling" THEN 1 ELSE 0)
        /\ uncounted' = uncounted + (Len(tasks) - began) + (IF consumer.at = "acquiring" THEN 1 ELSE 0)
        /\ free' = free + (Len(tasks) - unstarted) /\ leaked' = leaked + unstarted
    BY <1>13 DEF disconnect
  <2> HIDE DEF began, unstarted
  <2>3. processed' \in Nat /\ uncounted' \in Nat /\ leaked' \in Nat
    BY <1>a, <2>1, <2>2
  <2>4. free' \in 0 .. Slots
    BY <1>a, <2>1, <2>2, DispatchAssumption DEF SlotsInv
  <2>5. tasks' = <<>> /\ gate' \in [Markets -> Seq(Nat)]
    BY <1>13 DEF disconnect
  <2> QED
    <3>1. UNCHANGED <<connects, queue, tickers, flusher, last_begun, received, coalesced, dropped, discarded>>
      BY <1>13 DEF disconnect
    <3>2. connected' \in BOOLEAN /\ consumer' \in Consumer
      BY <1>13, ConsumerStates DEF disconnect
    <3>3. tasks' \in Seq(Task)
      BY <2>5
    <3> QED
      BY <2>3, <2>4, <2>5, <3>1, <3>2, <3>3
<1>14. CASE _begin_connection
  <2>1. queued_messages \in Nat /\ Len(ticker_by_market) \in Nat
    <3>1. Cardinality(unlike(Wake, queue)) \in Nat
      BY <1>a, ConsumerStates, MarkedAppend
    <3> QED
      BY <1>a, <3>1, QueuedMessages, LenProperties
  <2>2. discarded' \in Nat /\ connects' \in 0 .. MaxConnects
    BY <1>14, <2>1, DispatchAssumption DEF _begin_connection, discards
  <2>3. queue' = <<>> /\ Len(queue') <= MaxQueue
    BY <1>14, DispatchAssumption DEF _begin_connection
  <2>4. newest' \in [Markets -> Stamps \cup {0}] /\ shown' \in [Markets -> SUBSET Stamps]
    BY <1>14 DEF _begin_connection
  <2> QED
    BY <1>14, <2>2, <2>3, <2>4, ConsumerStates DEF _begin_connection
<1>15. CASE UNCHANGED vars
  BY <1>15
<1> QED
  BY <1>1, <1>2, <1>3, <1>4, <1>5, <1>6, <1>7, <1>8, <1>9, <1>10, <1>11, <1>12, <1>13, <1>14, <1>15
  DEF Next, Receive, Consume, Flush, RunTrade

-----------------------------------------------------------------------------
\* A step of the consumer that creates a task, and one that does not.
LEMMA TaskOfItem ==
    ASSUME TypeOK, ArrivalInv, take_item \/ acquired
    PROVE  \/ /\ UNCHANGED dispatch
           \/ \E item \in Item :
                 /\ create_task(item) /\ item.market \in Markets /\ free > 0 /\ consumer' = Ready
                 /\ \/ acquired /\ consumer.at = "acquiring" /\ item = consumer.item /\ UNCHANGED queue
                    \/ take_item /\ queue # <<>> /\ item = queue[1] /\ item # Wake /\ queue' = Tail(queue)
                       /\ consumer.at # "acquiring"
<1>1. CASE take_item
  <2>1. queue # <<>> /\ queue' = Tail(queue) /\ consumer.at \in {"ready", "parked"}
    BY <1>1 DEF take_item
  <2>2. 1 \in DOMAIN queue /\ queue[1] \in Item /\ Head(queue) = queue[1]
    BY <2>1, TakenItem DEF TypeOK
  <2>3. CASE queue[1].cls = "trade" /\ free > 0
    <3>1. create_task(queue[1]) /\ consumer' = Ready
      BY <1>1, <2>2, <2>3 DEF take_item
    <3>2. queue[1] # Wake
      BY <2>3 DEF Wake
    <3>3. queue[1].market \in Markets
      BY <2>2, <2>3, <3>2 DEF ArrivalInv, QueueInv
    <3> QED
      BY <1>1, <2>1, <2>2, <2>3, <3>1, <3>2, <3>3
  <2>4. CASE ~(queue[1].cls = "trade" /\ free > 0)
    <3>1. queue[1].cls \in {"trade", "inline", "wake"}
      <4>1. CASE queue[1] = Wake
        BY <4>1 DEF Wake
      <4>2. CASE queue[1] # Wake
        BY <2>2, <4>2 DEF ArrivalInv, QueueInv
      <4> QED BY <4>1, <4>2
    <3> QED
      BY <1>1, <2>2, <2>4, <3>1 DEF take_item
  <2> QED BY <2>3, <2>4
<1>2. CASE acquired
  <2>1. consumer.item \in Item /\ consumer.item.market \in Markets
    BY <1>2 DEF acquired, ArrivalInv, WaiterInv, TypeOK, Consumer
  <2> QED
    BY <1>2, <2>1 DEF acquired
<1> QED BY <1>1, <1>2

\* Every slot stays accounted for.
LEMMA SlotsStep == TypeOK /\ ArrivalInv /\ SlotsInv /\ [Next]_vars => SlotsInv'
<1> SUFFICES ASSUME TypeOK, ArrivalInv, SlotsInv, [Next]_vars PROVE SlotsInv'
  OBVIOUS
<1> USE DEF SlotsInv, dispatch
<1>a. tasks \in Seq(Task) /\ Len(tasks) \in Nat /\ free \in Nat /\ leaked \in Nat /\ Slots \in Nat
  BY LenProperties, Numbers DEF TypeOK
<1>1. CASE take_item \/ acquired
  <2>1. CASE UNCHANGED dispatch
    BY <2>1
  <2>2. ASSUME NEW item \in Item, create_task(item), item.market \in Markets
        PROVE  SlotsInv'
    <3>1. item.id \in Nat
      BY DEF Item
    <3>2. Len(tasks') = Len(tasks) + 1
      BY <1>a, <2>2, <3>1, CreatedTask
    <3>3. free' = free - 1 /\ leaked' = leaked
      BY <2>2 DEF create_task
    <3> QED
      BY <1>a, <3>2, <3>3
  <2> QED BY <1>1, <2>1, <2>2, TaskOfItem
<1>2. ASSUME NEW i \in 1 .. Slots, start_trade(i) \/ pass_gate(i) PROVE SlotsInv'
  <2>1. i \in DOMAIN tasks /\ free' = free /\ leaked' = leaked
    BY <1>2 DEF start_trade, next_to_start, pass_gate
  <2>2. set_task(i, "running") \/ set_task(i, "gated")
    BY <1>2 DEF start_trade, pass_gate
  <2>3. Len(tasks') = Len(tasks)
    BY <1>a, <2>1, <2>2, StageOfTask
  <2> QED BY <2>1, <2>3
<1>3. ASSUME NEW i \in 1 .. Slots, finish_trade(i) PROVE SlotsInv'
  <2>1. i \in DOMAIN tasks /\ tasks' = RemoveAt(tasks, i) /\ free' = free + 1 /\ leaked' = leaked
    BY <1>3 DEF finish_trade
  <2>2. Len(tasks') = Len(tasks) - 1
    BY <1>a, <2>1, EndedTask
  <2> QED BY <1>a, <2>1, <2>2
<1>4. CASE disconnect
  <2> DEFINE unstarted == Cardinality(tasks_at({"created"}))
  <2>1. /\ free' = free + (Len(tasks) - unstarted)
        /\ leaked' = leaked + unstarted /\ tasks' = <<>>
    BY <1>4 DEF disconnect
  <2>2. unstarted \in 0 .. Len(tasks)
    BY <1>a, TasksAtAStage
  <2> HIDE DEF unstarted
  <2>3. Len(tasks') = 0
    BY <2>1
  <2> QED BY <1>a, <2>1, <2>2, <2>3
<1>5. CASE \/ Receive \/ take_ticker \/ park \/ handled \/ Flush \/ _begin_connection \/ UNCHANGED vars
  <2>1. UNCHANGED dispatch
    BY <1>5 DEF Receive, ingest, _coalesce_ticker, take_ticker, park, handled, Flush, flush_ticker, flushed,
       _begin_connection, vars
  <2> QED BY <2>1
<1> QED
  BY <1>1, <1>2, <1>3, <1>4, <1>5 DEF Next, Consume, RunTrade

\* Between connections nothing consumes, and no trade starts.
LEMMA IdleStep == TypeOK /\ IdleInv /\ [Next]_vars => IdleInv'
<1> SUFFICES ASSUME TypeOK, IdleInv, [Next]_vars PROVE IdleInv'
  OBVIOUS
<1> USE DEF IdleInv, connection, dispatch
<1>1. CASE Receive
  BY <1>1 DEF Receive, ingest, _coalesce_ticker
<1>2. CASE take_item \/ take_ticker \/ park \/ acquired \/ handled
  <2>1. consumer.at # "cancelled" /\ connected' = connected
    BY <1>2 DEF take_item, take_ticker, park, acquired, handled
  <2> QED BY <2>1
<1>3. CASE Flush
  BY <1>3 DEF Flush, flush_ticker, flushed
<1>4. CASE RunTrade
  <2>1. tasks # <<>> /\ connected' = connected
    BY <1>4 DEF RunTrade, start_trade, next_to_start, pass_gate, finish_trade
  <2> QED BY <2>1
<1>5. CASE disconnect
  BY <1>5, ConsumerStates DEF disconnect
<1>6. CASE _begin_connection \/ UNCHANGED vars
  BY <1>6 DEF _begin_connection, vars
<1> QED
  BY <1>1, <1>2, <1>3, <1>4, <1>5, <1>6 DEF Next, Consume

\* The first pending ticker wakes a parked consumer, or finds the queue full
\* of items that will.
LEMMA WakeupStep == TypeOK /\ NoLostWakeup /\ [Next]_vars => NoLostWakeup'
<1> SUFFICES ASSUME TypeOK, NoLostWakeup, [Next]_vars PROVE NoLostWakeup'
  OBVIOUS
<1> USE DEF NoLostWakeup, tickers
<1>1. ASSUME NEW cls \in {"trade", "inline"}, NEW m \in Markets \cup {NoMarket}, ingest(cls, m)
      PROVE  NoLostWakeup'
  <2>1. UNCHANGED queue \/ queue' # <<>>
    <3>1. CASE has_room
      <4>1. [cls |-> cls, id |-> received', market |-> m] \in Item
        BY <1>1 DEF TypeOK, ingest, Item
      <4> QED
        BY <1>1, <3>1, <4>1, QueuedItem DEF ingest, TypeOK
    <3>2. CASE ~has_room
      BY <1>1, <3>2 DEF ingest
    <3> QED BY <3>1, <3>2
  <2> QED BY <1>1, <2>1 DEF ingest
<1>2. ASSUME NEW m \in Markets, NEW stamp \in Stamps, _coalesce_ticker(m, stamp)
      PROVE  NoLostWakeup'
  <2>0. consumer' = consumer
    BY <1>2 DEF _coalesce_ticker
  <2>1. CASE is_pending(m)
    <3>1. ticker_by_market # <<>> /\ queue' = queue
      BY <1>2, <2>1 DEF _coalesce_ticker, is_pending
    <3> QED BY <2>0, <3>1
  <2>2. CASE ~is_pending(m)
    <3>1. queue' = IF ticker_by_market = <<>> /\ has_room THEN Append(queue, Wake) ELSE queue
      BY <1>2, <2>2 DEF _coalesce_ticker, add_pending
    <3>2. CASE ticker_by_market = <<>> /\ has_room
      BY <3>1, <3>2, QueuedItem, ConsumerStates DEF TypeOK
    <3>3. CASE ticker_by_market # <<>>
      BY <2>0, <3>1, <3>3
    <3>4. CASE ~has_room
      <4>1. queue # <<>>
        BY <3>4, Numbers DEF has_room
      <4> QED BY <3>1, <3>4, <4>1
    <3> QED BY <3>2, <3>3, <3>4
  <2> QED BY <2>1, <2>2
<1>3. CASE take_item \/ take_ticker \/ acquired \/ handled \/ disconnect \/ _begin_connection
  <2>1. consumer'.at # "parked"
    BY <1>3, ConsumerStates DEF take_item, take_ticker, acquired, handled, disconnect, _begin_connection
  <2> QED BY <2>1
<1>4. CASE park
  BY <1>4 DEF park
<1>5. CASE flush_ticker
  BY <1>5 DEF flush_ticker, pop_ticker
<1>6. CASE flushed \/ RunTrade \/ UNCHANGED vars
  BY <1>6 DEF flushed, RunTrade, start_trade, pass_gate, finish_trade, vars
<1> QED
  BY <1>1, <1>2, <1>3, <1>4, <1>5, <1>6 DEF Next, Receive, Consume, Flush

-----------------------------------------------------------------------------
\* The pending ticker of a market is the only one with its name.
LEMMA ThePending ==
    ASSUME PendingInv, NEW m, NEW i \in DOMAIN ticker_by_market, ticker_by_market[i].market = m
    PROVE  is_pending(m) /\ pending_at(m) = i
  BY DEF PendingInv, is_pending, pending_at

\* NewestIsShown without a CHOOSE.
NewestIsHere ==
    connected => \A m \in Markets :
        \/ newest[m] = 0
        \/ newest[m] \in shown[m]
        \/ \E i \in DOMAIN ticker_by_market :
              ticker_by_market[i].market = m /\ ticker_by_market[i].stamp = newest[m]

LEMMA ShownOrHere == PendingInv => (NewestIsShown <=> NewestIsHere)
<1> SUFFICES ASSUME PendingInv PROVE NewestIsShown <=> NewestIsHere
  OBVIOUS
<1>1. ASSUME NEW m \in Markets
      PROVE  is_pending(m) /\ ticker_by_market[pending_at(m)].stamp = newest[m]
               <=> \E i \in DOMAIN ticker_by_market :
                     ticker_by_market[i].market = m /\ ticker_by_market[i].stamp = newest[m]
  <2>1. is_pending(m) => /\ pending_at(m) \in DOMAIN ticker_by_market
                         /\ ticker_by_market[pending_at(m)].market = m
    BY DEF is_pending, pending_at
  <2> QED BY <2>1, ThePending
<1> QED BY <1>1 DEF NewestIsShown, NewestIsHere

TickersInv == PendingInv /\ NewestIsHere

\* A drain shows what it pops.
LEMMA PopStep == TypeOK /\ TickersInv /\ pop_ticker /\ UNCHANGED connected => TickersInv'
<1> SUFFICES ASSUME TypeOK, TickersInv, pop_ticker, UNCHANGED connected PROVE TickersInv'
  OBVIOUS
<1>1. /\ DOMAIN ticker_by_market = 1 .. Len(ticker_by_market) /\ Len(ticker_by_market) \in Nat \ {0}
      /\ DOMAIN ticker_by_market' = 1 .. Len(ticker_by_market) - 1
      /\ ticker_by_market[1] \in Pending /\ Head(ticker_by_market) = ticker_by_market[1]
      /\ \A i \in DOMAIN ticker_by_market' : ticker_by_market'[i] = ticker_by_market[i + 1]
  BY PoppedTicker DEF TypeOK
<1>2. \A i \in DOMAIN ticker_by_market' : i + 1 \in DOMAIN ticker_by_market
  BY <1>1
<1>3. \A j \in DOMAIN ticker_by_market : j = 1 \/ (j - 1 \in DOMAIN ticker_by_market' /\ ticker_by_market'[j - 1] = ticker_by_market[j])
  BY <1>1
<1>4. newest' = newest /\ shown' = [shown EXCEPT ![ticker_by_market[1].market] = @ \cup {ticker_by_market[1].stamp}]
  BY <1>1 DEF pop_ticker
<1>5. PendingInv'
  <2>1. \A i, j \in DOMAIN ticker_by_market' :
           ticker_by_market'[i].market = ticker_by_market'[j].market => i = j
    <3> TAKE i, j \in DOMAIN ticker_by_market'
    <3> HAVE ticker_by_market'[i].market = ticker_by_market'[j].market
    <3>1. i + 1 = j + 1
      BY <1>1, <1>2 DEF TickersInv, PendingInv
    <3> QED BY <1>1, <3>1
  <2>2. connected' => \A i \in DOMAIN ticker_by_market' :
           ticker_by_market'[i].stamp <= newest'[ticker_by_market'[i].market]
    BY <1>1, <1>2, <1>4 DEF TickersInv, PendingInv
  <2> QED BY <2>1, <2>2 DEF PendingInv
<1>6. NewestIsHere'
  <2> SUFFICES ASSUME connected', NEW m \in Markets
               PROVE  \/ newest'[m] = 0
                      \/ newest'[m] \in shown'[m]
                      \/ \E i \in DOMAIN ticker_by_market' :
                           ticker_by_market'[i].market = m /\ ticker_by_market'[i].stamp = newest'[m]
    BY DEF NewestIsHere
  <2>1. shown[m] \subseteq shown'[m] /\ (m = ticker_by_market[1].market => ticker_by_market[1].stamp \in shown'[m])
    BY <1>1, <1>4 DEF TypeOK, Pending
  <2>2. CASE \E j \in DOMAIN ticker_by_market :
               ticker_by_market[j].market = m /\ ticker_by_market[j].stamp = newest[m]
    <3>1. PICK j \in DOMAIN ticker_by_market :
               ticker_by_market[j].market = m /\ ticker_by_market[j].stamp = newest[m]
      BY <2>2
    <3>2. CASE j = 1
      BY <1>4, <2>1, <3>1, <3>2
    <3>3. CASE j # 1
      BY <1>3, <1>4, <3>1, <3>3
    <3> QED BY <3>2, <3>3
  <2>3. CASE newest[m] = 0 \/ newest[m] \in shown[m]
    BY <1>4, <2>1, <2>3
  <2> QED BY <2>2, <2>3 DEF TickersInv, NewestIsHere
<1> QED BY <1>5, <1>6 DEF TickersInv

\* An update of a market already pending stays or takes its place.
LEMMA SupersedeStep ==
    ASSUME TypeOK, TickersInv, NEW m \in Markets, NEW stamp \in Stamps,
           _coalesce_ticker(m, stamp), is_pending(m)
    PROVE  TickersInv'
<1> DEFINE i == pending_at(m)
           p == ticker_by_market[i]
           kept == IF stamp < p.stamp THEN p.stamp ELSE stamp
<1>1. i \in DOMAIN ticker_by_market /\ p.market = m
  BY DEF is_pending, pending_at
<1>2. DOMAIN ticker_by_market = 1 .. Len(ticker_by_market)
      /\ \A j \in DOMAIN ticker_by_market : ticker_by_market[j] \in Pending
  BY LenProperties, ElementOfSeq DEF TypeOK
<1>3. p \in Pending /\ p.stamp \in Nat /\ stamp \in Nat /\ kept \in Stamps
  BY <1>1, <1>2, Numbers DEF Pending
<1>4. ticker_by_market' = [ticker_by_market EXCEPT ![i] = [p EXCEPT !.stamp = kept]]
  BY DEF _coalesce_ticker, supersede
<1>5. newest[m] \in Nat /\ newest' = [newest EXCEPT ![m] = Max({newest[m], stamp})]
      /\ connected /\ connected' = connected /\ shown' = shown
  BY Numbers DEF _coalesce_ticker, TypeOK, connection, may_receive
<1>6. newest' = [newest EXCEPT ![m] = IF newest[m] >= stamp THEN newest[m] ELSE stamp]
  BY <1>3, <1>5, MaxOfTwo
<1>7. [p EXCEPT !.stamp = kept].market = m /\ [p EXCEPT !.stamp = kept].stamp = kept
  BY <1>1, <1>3 DEF Pending
<1>8. DOMAIN ticker_by_market' = DOMAIN ticker_by_market
      /\ \A j \in DOMAIN ticker_by_market :
            /\ ticker_by_market'[j].market = ticker_by_market[j].market
            /\ ticker_by_market'[j].stamp = IF j = i THEN kept ELSE ticker_by_market[j].stamp
  BY <1>1, <1>4, <1>7
<1>9. p.stamp <= newest[m] /\ (newest[m] \in shown[m] \/ p.stamp = newest[m])
  <2>1. p.stamp <= newest[m]
    BY <1>1, <1>5 DEF TickersInv, PendingInv
  <2>2. newest[m] # 0
    BY <1>1, <1>3, <1>5, <2>1, <1>2, Numbers DEF Pending
  <2>3. \A j \in DOMAIN ticker_by_market : ticker_by_market[j].market = m => j = i
    BY <1>1 DEF TickersInv, PendingInv
  <2> QED BY <1>5, <2>1, <2>2, <2>3 DEF TickersInv, NewestIsHere
<1>10. newest \in [Markets -> Stamps \cup {0}]
  BY DEF TypeOK
<1> HIDE DEF i, p
<1>11. newest'[m] = (IF newest[m] >= stamp THEN newest[m] ELSE stamp) /\ kept <= newest'[m]
      /\ \A n \in Markets : n # m => newest'[n] = newest[n]
  BY <1>3, <1>5, <1>6, <1>9, <1>10
<1>12. PendingInv'
  <2>1. \A j, k \in DOMAIN ticker_by_market' :
           ticker_by_market'[j].market = ticker_by_market'[k].market => j = k
    BY <1>8 DEF TickersInv, PendingInv
  <2>2. \A j \in DOMAIN ticker_by_market' :
           ticker_by_market'[j].stamp <= newest'[ticker_by_market'[j].market]
    <3> TAKE j \in DOMAIN ticker_by_market'
    <3>1. CASE j = i
      BY <1>1, <1>8, <1>11, <3>1 DEF i, p
    <3>2. CASE j # i
      <4>1. ticker_by_market[j].market \in Markets /\ ticker_by_market[j].market # m
        BY <1>1, <1>2, <1>8, <3>2 DEF i, p, TickersInv, PendingInv, Pending
      <4> QED BY <1>5, <1>8, <1>11, <3>2, <4>1 DEF TickersInv, PendingInv
    <3> QED BY <3>1, <3>2
  <2> QED BY <2>1, <2>2 DEF PendingInv
<1>13. NewestIsHere'
  <2> SUFFICES ASSUME NEW n \in Markets
               PROVE  \/ newest'[n] = 0
                      \/ newest'[n] \in shown'[n]
                      \/ \E j \in DOMAIN ticker_by_market' :
                           ticker_by_market'[j].market = n /\ ticker_by_market'[j].stamp = newest'[n]
    BY DEF NewestIsHere
  <2>1. CASE n # m
    <3>1. \A j \in DOMAIN ticker_by_market : ticker_by_market[j].market = n => j # i
      BY <1>1, <2>1 DEF i, p
    <3> QED BY <1>5, <1>8, <1>11, <2>1, <3>1 DEF TickersInv, NewestIsHere
  <2>2. CASE n = m
    <3>1. kept = newest'[m] \/ newest'[m] \in shown'[m]
      BY <1>3, <1>5, <1>9, <1>11
    <3>2. ticker_by_market'[i].market = m /\ ticker_by_market'[i].stamp = kept /\ i \in DOMAIN ticker_by_market'
      BY <1>1, <1>8 DEF i, p
    <3> QED BY <2>2, <3>1, <3>2
  <2> QED BY <2>1, <2>2
<1> QED BY <1>12, <1>13 DEF TickersInv

\* A market's first pending update is its newest, or was outrun by one shown.
LEMMA AddPendingStep ==
    ASSUME TypeOK, TickersInv, NEW m \in Markets, NEW stamp \in Stamps,
           _coalesce_ticker(m, stamp), ~is_pending(m)
    PROVE  TickersInv'
<1> DEFINE n == Len(ticker_by_market)
           p == [market |-> m, stamp |-> stamp]
<1>1. p \in Pending /\ p.market = m /\ p.stamp = stamp /\ ticker_by_market' = Append(ticker_by_market, p)
  BY DEF _coalesce_ticker, add_pending, Pending
<1>2. /\ n \in Nat /\ DOMAIN ticker_by_market = 1 .. n /\ DOMAIN ticker_by_market' = 1 .. n + 1
      /\ \A j \in 1 .. n : ticker_by_market'[j] = ticker_by_market[j] /\ ticker_by_market[j] \in Pending
      /\ ticker_by_market'[n + 1] = p
  BY <1>1, AppendProperties, LenProperties, ElementOfSeq DEF TypeOK
<1>3. newest[m] \in Nat /\ stamp \in Nat /\ connected /\ connected' = connected /\ shown' = shown
      /\ newest' = [newest EXCEPT ![m] = Max({newest[m], stamp})]
  BY Numbers DEF _coalesce_ticker, TypeOK, connection, may_receive
<1>4. newest \in [Markets -> Stamps \cup {0}]
  BY DEF TypeOK
<1> HIDE DEF n, p
<1>5. newest'[m] = (IF newest[m] >= stamp THEN newest[m] ELSE stamp) /\ stamp <= newest'[m]
      /\ \A k \in Markets : k # m => newest'[k] = newest[k]
  BY <1>3, <1>4, MaxOfTwo
<1>6. \A j \in 1 .. n : ticker_by_market[j].market # m /\ ticker_by_market[j].market \in Markets
  BY <1>2 DEF is_pending, Pending
<1>7. PendingInv'
  <2>1. \A j, k \in DOMAIN ticker_by_market' :
           ticker_by_market'[j].market = ticker_by_market'[k].market => j = k
    <3> TAKE j, k \in DOMAIN ticker_by_market'
    <3>1. CASE j \in 1 .. n /\ k \in 1 .. n
      BY <1>2, <3>1 DEF TickersInv, PendingInv
    <3>2. CASE j = n + 1 \/ k = n + 1
      BY <1>1, <1>2, <1>6, <3>2
    <3> QED BY <1>2, <3>1, <3>2
  <2>2. \A j \in DOMAIN ticker_by_market' :
           ticker_by_market'[j].stamp <= newest'[ticker_by_market'[j].market]
    <3> TAKE j \in DOMAIN ticker_by_market'
    <3>1. CASE j \in 1 .. n
      BY <1>2, <1>3, <1>5, <1>6, <3>1 DEF TickersInv, PendingInv
    <3>2. CASE j = n + 1
      BY <1>1, <1>2, <1>5, <3>2
    <3> QED BY <1>2, <3>1, <3>2
  <2> QED BY <2>1, <2>2 DEF PendingInv
<1>8. NewestIsHere'
  <2> SUFFICES ASSUME NEW k \in Markets
               PROVE  \/ newest'[k] = 0
                      \/ newest'[k] \in shown'[k]
                      \/ \E j \in DOMAIN ticker_by_market' :
                           ticker_by_market'[j].market = k /\ ticker_by_market'[j].stamp = newest'[k]
    BY DEF NewestIsHere
  <2>1. CASE k # m
    <3>1. \A j \in 1 .. n : j \in DOMAIN ticker_by_market'
      BY <1>2
    <3> QED BY <1>2, <1>3, <1>5, <2>1, <3>1 DEF TickersInv, NewestIsHere
  <2>2. CASE k = m
    <3>1. newest[m] = 0 \/ newest[m] \in shown[m]
      BY <1>2, <1>3, <1>6 DEF TickersInv, NewestIsHere
    <3>2. newest'[m] \in shown'[m] \/ newest'[m] = stamp \/ newest'[m] = 0
      BY <1>3, <1>5, <3>1
    <3>3. n + 1 \in DOMAIN ticker_by_market'
      BY <1>2
    <3> QED BY <1>1, <1>2, <2>2, <3>2, <3>3
  <2> QED BY <2>1, <2>2
<1> QED BY <1>7, <1>8 DEF TickersInv

\* The newest update of every market stays in sight.
LEMMA TickersStep == TypeOK /\ TickersInv /\ [Next]_vars => TickersInv'
<1> SUFFICES ASSUME TypeOK, TickersInv, [Next]_vars PROVE TickersInv'
  OBVIOUS
<1> USE DEF connection, tickers
<1>1. CASE \E m \in Markets, stamp \in Stamps : _coalesce_ticker(m, stamp)
  BY <1>1, SupersedeStep, AddPendingStep
<1>2. CASE take_ticker \/ flush_ticker
  <2>1. pop_ticker /\ UNCHANGED connected
    BY <1>2 DEF take_ticker, flush_ticker
  <2> QED BY <2>1, PopStep
<1>3. CASE disconnect
  BY <1>3 DEF disconnect, TickersInv, PendingInv, NewestIsHere
<1>4. CASE _begin_connection
  BY <1>4 DEF _begin_connection, TickersInv, PendingInv, NewestIsHere
<1>5. CASE \/ \E m \in Markets : ingest("trade", m)
           \/ ingest("inline", NoMarket)
           \/ take_item \/ park \/ acquired \/ handled \/ flushed \/ RunTrade \/ UNCHANGED vars
  <2>1. UNCHANGED <<connected, tickers>>
    BY <1>5 DEF ingest, take_item, park, acquired, handled, flushed, RunTrade, start_trade, pass_gate,
       finish_trade, vars
  <2> QED BY <2>1 DEF TickersInv, PendingInv, NewestIsHere
<1> QED
  BY <1>1, <1>2, <1>3, <1>4, <1>5 DEF Next, Receive, Consume, Flush

-----------------------------------------------------------------------------
\* The counters and what is still here are numbers.
CountsAreNumbers ==
    /\ queued_messages \in Nat /\ Len(ticker_by_market) \in Nat /\ Len(tasks) \in Nat
    /\ received \in Nat /\ processed \in Nat /\ coalesced \in Nat /\ dropped \in Nat
    /\ discarded \in Nat /\ uncounted \in Nat

LEMMA CountTypes == TypeOK => CountsAreNumbers
<1> SUFFICES ASSUME TypeOK PROVE CountsAreNumbers
  OBVIOUS
<1>1. Cardinality(unlike(Wake, queue)) \in Nat
  BY ConsumerStates, MarkedAppend DEF TypeOK
<1> QED BY <1>1, LenProperties, QueuedMessages DEF TypeOK, CountsAreNumbers

LEMMA CountTypesNext == TypeOK' => CountsAreNumbers'
  BY CountTypes, PTL

\* No message leaves without being counted.
LEMMA CountStep ==
    TypeOK /\ TypeOK' /\ ArrivalInv /\ IdleInv /\ EveryMessageCounted /\ [Next]_vars => EveryMessageCounted'
<1> SUFFICES ASSUME TypeOK, TypeOK', ArrivalInv, IdleInv, EveryMessageCounted, [Next]_vars
             PROVE  EveryMessageCounted'
  OBVIOUS
<1> DEFINE flushing == IF flusher = "handling" THEN 1 ELSE 0
           consuming == IF consumer.at \in {"handling", "acquiring"} THEN 1 ELSE 0
           here == queued_messages + Len(ticker_by_market) + Len(tasks) + flushing + consuming
           counted == processed + coalesced + dropped + discarded + uncounted
<1> USE DEF connection, counters, tickers, dispatch
<1>a. received = counted + here /\ (EveryMessageCounted' <=> received' = counted' + here')
  BY DEF EveryMessageCounted, still_here
<1>b. /\ flushing \in Nat /\ consuming \in Nat /\ CountsAreNumbers /\ CountsAreNumbers'
      /\ flushing' \in Nat /\ consuming' \in Nat
  BY CountTypes, CountTypesNext
<1>1. ASSUME NEW cls \in {"trade", "inline"}, NEW m \in Markets \cup {NoMarket}, ingest(cls, m)
      PROVE  EveryMessageCounted'
  <2>1. UNCHANGED <<ticker_by_market, tasks, flusher, consumer, processed, coalesced, discarded, uncounted>>
        /\ received' = received + 1
    BY <1>1 DEF ingest
  <2>2. CASE has_room
    <3> DEFINE item == [cls |-> cls, id |-> received', market |-> m]
    <3>0. received' \in Nat
      BY <1>b DEF CountsAreNumbers
    <3>a. item \in Item /\ item # Wake
      BY <3>0 DEF Item, Wake
    <3>1. item \in Item /\ item # Wake /\ queue' = Append(queue, item) /\ dropped' = dropped
      BY <1>1, <2>2, <3>a DEF ingest
    <3> HIDE DEF item
    <3>2. queued_messages' = queued_messages + 1
      BY <3>1, QueuedItem DEF TypeOK
    <3> QED BY <1>a, <1>b, <2>1, <3>1, <3>2 DEF CountsAreNumbers
  <2>3. CASE ~has_room
    <3>1. queue' = queue /\ dropped' = dropped + 1
      BY <1>1, <2>3 DEF ingest
    <3>2. queued_messages' = queued_messages
      BY <3>1, QueuedMessages
    <3> QED BY <1>a, <1>b, <2>1, <3>1, <3>2 DEF CountsAreNumbers
  <2> QED BY <2>2, <2>3
<1>2. ASSUME NEW m \in Markets, NEW stamp \in Stamps, _coalesce_ticker(m, stamp)
      PROVE  EveryMessageCounted'
  <2>1. UNCHANGED <<tasks, flusher, consumer, processed, dropped, discarded, uncounted>>
        /\ received' = received + 1
    BY <1>2 DEF _coalesce_ticker
  <2>2. CASE is_pending(m)
    <3>1. queue' = queue /\ coalesced' = coalesced + 1
      BY <1>2, <2>2 DEF _coalesce_ticker
    <3>4. Len(ticker_by_market') = Len(ticker_by_market)
      BY <1>2, <2>2, Superseded
    <3>5. queued_messages' = queued_messages
      BY <3>1, QueuedMessages
    <3> QED BY <1>a, <1>b, <2>1, <3>1, <3>4, <3>5 DEF CountsAreNumbers
  <2>3. CASE ~is_pending(m)
    <3>1. coalesced' = coalesced /\ (queue' = queue \/ queue' = Append(queue, Wake))
      BY <1>2, <2>3 DEF _coalesce_ticker, add_pending
    <3>2. queued_messages' = queued_messages
      <4>1. CASE queue' = queue
        BY <4>1, QueuedMessages
      <4>2. CASE queue' = Append(queue, Wake)
        <5>1. queued_messages' = queued_messages + 0
          BY <4>2, QueuedItem, ConsumerStates DEF TypeOK
        <5> QED BY <1>b, <5>1 DEF CountsAreNumbers
      <4> QED BY <3>1, <4>1, <4>2
    <3>3. Len(ticker_by_market') = Len(ticker_by_market) + 1
      <4>1. [market |-> m, stamp |-> stamp] \in Pending
        BY DEF Pending
      <4>2. ticker_by_market' = Append(ticker_by_market, [market |-> m, stamp |-> stamp])
        BY <1>2, <2>3 DEF _coalesce_ticker, add_pending
      <4> QED BY <4>1, <4>2, AppendProperties DEF TypeOK
    <3> QED BY <1>a, <1>b, <2>1, <3>1, <3>2, <3>3 DEF CountsAreNumbers
  <2> QED BY <2>2, <2>3
<1>3. CASE take_item
  <2>1. queue # <<>> /\ queue' = Tail(queue) /\ consumer.at \in {"ready", "parked"}
        /\ UNCHANGED <<tickers, flusher, counters>>
    BY <1>3 DEF take_item
  <2>2. /\ queue[1] \in Item /\ Head(queue) = queue[1]
        /\ queued_messages = queued_messages' + (IF queue[1] # Wake THEN 1 ELSE 0)
    BY <2>1, TakenItem DEF TypeOK
  <2>3. queued_messages' \in Int
    BY <1>b DEF CountsAreNumbers
  <2>4. CASE queue[1].cls = "trade" /\ free > 0
    <3>1. create_task(queue[1]) /\ consumer' = Ready /\ queue[1] # Wake
      BY <1>3, <2>2, <2>4 DEF take_item, Wake
    <3>2. queue[1].market \in Markets /\ queue[1].id \in Nat
      BY <2>1, <2>2, <2>4, <3>1, TakenItem DEF ArrivalInv, QueueInv, TypeOK, Item
    <3>3. Len(tasks') = Len(tasks) + 1
      BY <3>1, <3>2, CreatedTask DEF TypeOK
    <3>4. consuming = 0 /\ consuming' = 0
      BY <2>1, <3>1, ConsumerStates
    <3> QED BY <1>a, <1>b, <2>1, <2>2, <2>3, <3>1, <3>3, <3>4 DEF CountsAreNumbers
  <2>5. CASE queue[1] = Wake
    <3>1. consumer' = Ready /\ tasks' = tasks
      BY <1>3, <2>2, <2>5 DEF take_item, Wake
    <3>2. consuming = 0 /\ consuming' = 0
      BY <2>1, <3>1, ConsumerStates
    <3> QED BY <1>a, <1>b, <2>1, <2>2, <2>3, <2>5, <3>1, <3>2 DEF CountsAreNumbers
  <2>6. CASE queue[1] # Wake /\ ~(queue[1].cls = "trade" /\ free > 0)
    <3>1. queue[1].cls \in {"trade", "inline"}
      BY <2>1, <2>6, TakenItem DEF ArrivalInv, QueueInv, TypeOK
    <3>2. consumer'.at \in {"handling", "acquiring"} /\ tasks' = tasks
      BY <1>3, <2>2, <2>6, <3>1 DEF take_item
    <3>3. consuming = 0 /\ consuming' = 1
      BY <2>1, <3>2
    <3>4. queued_messages = queued_messages' + 1 /\ Len(tasks') = Len(tasks)
          /\ Len(ticker_by_market') = Len(ticker_by_market)
      BY <2>1, <2>2, <2>6, <3>2
    <3>5. here' = here
      BY <1>b, <2>1, <2>3, <3>3, <3>4, SMTT(20) DEF CountsAreNumbers
    <3>6. UNCHANGED counters
      BY <2>1
    <3> QED BY <1>a, <3>5, <3>6
  <2> QED BY <2>4, <2>5, <2>6
<1>4. CASE take_ticker \/ flush_ticker
  <2>1. pop_ticker /\ UNCHANGED <<queue, tasks, counters>>
    BY <1>4 DEF take_ticker, flush_ticker
  <2>2. Len(ticker_by_market') = Len(ticker_by_market) - 1 /\ queued_messages' = queued_messages
    BY <2>1, PoppedTicker, QueuedMessages DEF TypeOK
  <2>3. flushing' + consuming' = flushing + consuming + 1
    <3>1. CASE take_ticker
      BY <3>1, ConsumerStates DEF take_ticker
    <3>2. CASE flush_ticker
      BY <3>2 DEF flush_ticker
    <3> QED BY <1>4, <3>1, <3>2
  <2> QED BY <1>a, <1>b, <2>1, <2>2, <2>3 DEF CountsAreNumbers
<1>5. CASE park
  <2>1. UNCHANGED <<queue, tickers, flusher, tasks, counters>> /\ consuming = 0 /\ consuming' = 0
    BY <1>5, ConsumerStates DEF park
  <2> QED BY <1>a, <1>b, <2>1, QueuedMessages DEF CountsAreNumbers
<1>6. CASE acquired
  <2>1. UNCHANGED <<queue, tickers, flusher, counters>> /\ consuming = 1 /\ consuming' = 0
    BY <1>6, ConsumerStates DEF acquired
  <2>2. consumer.item.id \in Nat /\ consumer.item.market \in Markets /\ create_task(consumer.item)
    BY <1>6 DEF acquired, ArrivalInv, WaiterInv
  <2>3. Len(tasks') = Len(tasks) + 1
    BY <2>2, CreatedTask DEF TypeOK
  <2>4. queued_messages' = queued_messages /\ Len(ticker_by_market') = Len(ticker_by_market)
    BY <2>1, QueuedMessages
  <2>5. here' = here
    BY <1>a, <1>b, <2>1, <2>3, <2>4 DEF CountsAreNumbers
  <2> QED BY <1>a, <2>1, <2>5
<1>7. CASE handled
  <2>1. UNCHANGED <<queue, tickers, flusher, tasks, received, coalesced, dropped, discarded, uncounted>>
        /\ processed' = processed + 1 /\ consuming = 1 /\ consuming' = 0
    BY <1>7, ConsumerStates DEF handled
  <2> QED BY <1>a, <1>b, <2>1, QueuedMessages, SMTT(20) DEF CountsAreNumbers
<1>8. CASE flushed
  <2>1. UNCHANGED <<queue, tickers, consumer, tasks, received, coalesced, dropped, discarded, uncounted>>
        /\ processed' = processed + 1 /\ flushing = 1 /\ flushing' = 0
    BY <1>8 DEF flushed
  <2> QED BY <1>a, <1>b, <2>1, QueuedMessages, SMTT(20) DEF CountsAreNumbers
<1>9. ASSUME NEW i \in 1 .. Slots, start_trade(i) \/ pass_gate(i) PROVE EveryMessageCounted'
  <2>1. i \in DOMAIN tasks /\ UNCHANGED <<queue, tickers, consumer, flusher, counters>>
    BY <1>9 DEF start_trade, next_to_start, pass_gate
  <2>2. set_task(i, "running") \/ set_task(i, "gated")
    BY <1>9 DEF start_trade, pass_gate
  <2>3. Len(tasks') = Len(tasks)
    BY <2>1, <2>2, StageOfTask DEF TypeOK
  <2> QED BY <1>a, <1>b, <2>1, <2>3, QueuedMessages DEF CountsAreNumbers
<1>10. ASSUME NEW i \in 1 .. Slots, finish_trade(i) PROVE EveryMessageCounted'
  <2>1. i \in DOMAIN tasks /\ tasks' = RemoveAt(tasks, i) /\ processed' = processed + 1
        /\ UNCHANGED <<queue, tickers, consumer, flusher, received, coalesced, dropped, discarded, uncounted>>
    BY <1>10 DEF finish_trade
  <2>2. Len(tasks') = Len(tasks) - 1
    BY <2>1, EndedTask DEF TypeOK
  <2>3. queued_messages' = queued_messages
    BY <2>1, QueuedMessages
  <2>4. flushing' = flushing /\ consuming' = consuming
    BY <2>1
  <2> HIDE DEF flushing, consuming
  <2>5. here' = here - 1 /\ counted' = counted + 1
    BY <1>b, <2>1, <2>2, <2>3, <2>4 DEF CountsAreNumbers
  <2> QED BY <1>a, <1>b, <2>1, <2>5 DEF CountsAreNumbers
<1>11. CASE disconnect
  <2> DEFINE began == Cardinality(tasks_at({"running"}))
             p == began + (IF consumer.at = "handling" THEN 1 ELSE 0)
             u == (Len(tasks) - began) + (IF consumer.at = "acquiring" THEN 1 ELSE 0)
  <2>1. /\ processed' = processed + began + (IF consumer.at = "handling" THEN 1 ELSE 0)
        /\ uncounted' = uncounted + (Len(tasks) - began) + (IF consumer.at = "acquiring" THEN 1 ELSE 0)
        /\ UNCHANGED <<queue, tickers, flusher, received, coalesced, dropped, discarded>>
        /\ tasks' = <<>> /\ consuming' = 0
    BY <1>11, ConsumerStates DEF disconnect
  <2>2. began \in 0 .. Len(tasks)
    BY TasksAtAStage DEF TypeOK
  <2> HIDE DEF began
  <2>4. /\ p \in Nat /\ u \in Nat /\ p + u = Len(tasks) + consuming
        /\ processed' = processed + p /\ uncounted' = uncounted + u
    <3>1. Len(tasks) \in Nat /\ processed \in Nat /\ uncounted \in Nat /\ began \in Nat /\ Len(tasks) - began \in Nat
      BY <1>b, <2>2 DEF CountsAreNumbers
    <3>2. CASE consumer.at = "handling"
      BY <2>1, <3>1, <3>2
    <3>3. CASE consumer.at = "acquiring"
      BY <2>1, <3>1, <3>3
    <3>4. CASE consumer.at # "handling" /\ consumer.at # "acquiring"
      BY <2>1, <3>1, <3>4
    <3> QED BY <3>2, <3>3, <3>4
  <2>5. Len(tasks') = 0 /\ queued_messages' = queued_messages /\ processed' \in Int /\ uncounted' \in Int
    BY <2>1, <2>2, QueuedMessages
  <2>6. flushing' = flushing
    BY <2>1
  <2> HIDE DEF flushing, consuming, p, u
  <2>7. here' = here - Len(tasks) - consuming /\ counted' = counted + Len(tasks) + consuming
    <3>1. /\ UNCHANGED <<ticker_by_market, received, coalesced, dropped, discarded>>
          /\ Len(tasks') = 0 /\ consuming' = 0
      BY <2>1, <2>5
    <3>2. here' = here - Len(tasks) - consuming
      BY <1>b, <2>5, <2>6, <3>1 DEF CountsAreNumbers
    <3>3. counted' = counted + Len(tasks) + consuming
      BY <1>b, <2>4, <3>1 DEF CountsAreNumbers
    <3> QED BY <3>2, <3>3
  <2> QED BY <1>a, <1>b, <2>1, <2>7 DEF CountsAreNumbers
<1>12. CASE _begin_connection
  <2>1. /\ discarded' = discarded + (queued_messages + Len(ticker_by_market))
        /\ queue' = <<>> /\ ticker_by_market' = <<>> /\ consumer' = Ready
        /\ UNCHANGED <<flusher, tasks, received, processed, coalesced, dropped, uncounted>>
    BY <1>12 DEF _begin_connection, discards
  <2>2. consuming = 0 /\ consuming' = 0
    BY <1>12, <2>1, ConsumerStates DEF _begin_connection, IdleInv
  <2>3. Len(ticker_by_market') = 0
    BY <2>1
  <2>4. queued_messages' = 0
    <3>1. unlike(Wake, queue') = {}
      BY <2>1 DEF unlike
    <3> QED BY <3>1, QueuedMessages, FS_EmptySet
  <2>5. flushing' = flushing
    BY <2>1
  <2> HIDE DEF flushing, consuming
  <2>6. /\ here' = here - queued_messages - Len(ticker_by_market)
        /\ counted' = counted + queued_messages + Len(ticker_by_market)
    BY <1>b, <2>1, <2>2, <2>3, <2>4, <2>5 DEF CountsAreNumbers
  <2> QED BY <1>a, <1>b, <2>1, <2>6 DEF CountsAreNumbers
<1>13. CASE UNCHANGED vars
  <2>1. UNCHANGED <<queue, tickers, consumer, flusher, tasks, counters>>
    BY <1>13 DEF vars
  <2> QED BY <1>a, <1>b, <2>1, QueuedMessages DEF CountsAreNumbers
<1> QED
  BY <1>1, <1>2, <1>3, <1>4, <1>5, <1>6, <1>7, <1>8, <1>9, <1>10, <1>11, <1>12, <1>13
  DEF Next, Receive, Consume, Flush, RunTrade

-----------------------------------------------------------------------------
\* What arrives is later than all there is.
LEMMA ArrivalOfItem ==
    ASSUME TypeOK, ArrivalInv, NEW item \in Item, received' = received + 1,
           item = Wake \/ (item.cls \in {"trade", "inline"} /\ item.id = received'
                             /\ (item.cls = "trade" => item.market \in Markets)),
           queue' = queue \/ queue' = Append(queue, item),
           UNCHANGED <<consumer, tasks, last_begun>>
    PROVE  ArrivalInv'
<1>1. received \in Nat /\ received' \in Nat /\ queue \in Seq(Item) /\ consumer \in Consumer
      /\ tasks \in Seq(Task) /\ last_begun \in [Markets -> Nat]
  BY DEF TypeOK
<1>2. \A i \in DOMAIN tasks : tasks[i] \in Task
  BY <1>1, LenProperties, ElementOfSeq
<1>3. later(received', tasks, last_begun)
  BY <1>1, <1>2 DEF later, ArrivalInv, TaskInv, Task
<1>4. UNCHANGED <<consumer, tasks, last_begun>> /\ 1 .. received \subseteq 1 .. received'
  BY <1>1
<1>5. QueueInv /\ WaiterInv /\ TaskInv
  BY DEF ArrivalInv
<1>6. QueueInv'
  <2>1. CASE queue' = queue
    BY <1>4, <1>5, <2>1 DEF QueueInv, later, Wake
  <2>2. CASE queue' = Append(queue, item)
    <3>1. /\ DOMAIN queue = 1 .. Len(queue) /\ DOMAIN queue' = 1 .. Len(queue) + 1
          /\ \A i \in DOMAIN queue : queue'[i] = queue[i]
          /\ queue'[Len(queue) + 1] = item
      BY <1>1, <2>2, QueuedItem
    <3>2. Len(queue) \in Nat /\ \A i \in DOMAIN queue : queue[i] \in Item
      BY <1>1, LenProperties, ElementOfSeq
    <3> SUFFICES ASSUME NEW i \in DOMAIN queue', queue'[i] # Wake
                 PROVE  /\ queue'[i].cls \in {"trade", "inline"} /\ queue'[i].id \in 1 .. received'
                        /\ queue'[i].cls = "trade" => queue'[i].market \in Markets
                        /\ \A j \in DOMAIN queue' : i < j /\ queue'[j] # Wake => queue'[i].id < queue'[j].id
                        /\ consumer.at = "acquiring" => consumer.item.id < queue'[i].id
                        /\ later(queue'[i].id, tasks, last_begun)
      BY <1>4 DEF QueueInv, Wake, later
    <3>3. CASE i \in DOMAIN queue
      <4>1. \A j \in DOMAIN queue' : i < j /\ queue'[j] # Wake => queue'[i].id < queue'[j].id
        <5> TAKE j \in DOMAIN queue'
        <5>1. CASE j \in DOMAIN queue
          BY <1>5, <3>1, <3>3, <5>1 DEF QueueInv
        <5>2. CASE j = Len(queue) + 1
          BY <1>1, <1>5, <3>1, <3>2, <3>3, <5>2 DEF QueueInv, Item
        <5> QED BY <3>1, <5>1, <5>2
      <4> QED
        BY <1>4, <1>5, <3>1, <3>3, <4>1 DEF QueueInv
    <3>4. CASE i = Len(queue) + 1
      <4>1. queue'[i] = item /\ item # Wake
        BY <3>1, <3>4
      <4>2. item.id \in 1 .. received'
        BY <1>1, <4>1
      <4>3. consumer.at = "acquiring" => consumer.item.id < item.id
        BY <1>1, <1>5, <4>1 DEF WaiterInv, Consumer, Item
      <4>4. \A j \in DOMAIN queue' : ~(i < j)
        BY <3>1, <3>2, <3>4
      <4> QED BY <1>3, <4>1, <4>2, <4>3, <4>4
    <3> QED BY <3>1, <3>3, <3>4
  <2> QED BY <2>1, <2>2
<1>7. WaiterInv'
  BY <1>4, <1>5 DEF WaiterInv, later
<1>8. TaskInv'
  <2>1. \A m \in Markets : last_begun'[m] <= received'
    BY <1>1, <1>5 DEF TaskInv
  <2> QED BY <1>4, <1>5, <2>1 DEF TaskInv
<1> QED BY <1>6, <1>7, <1>8 DEF ArrivalInv

\* The queue without its head, which is earlier than what is left.
LEMMA QueueWithoutHead ==
    ASSUME TypeOK, QueueInv, queue # <<>>, queue' = Tail(queue), received' = received
    PROVE  /\ 1 \in DOMAIN queue /\ queue[1] \in Item /\ Head(queue) = queue[1]
           /\ \A i \in DOMAIN queue' : queue'[i] # Wake =>
                 /\ queue'[i].cls \in {"trade", "inline"} /\ queue'[i].id \in 1 .. received'
                 /\ queue'[i].cls = "trade" => queue'[i].market \in Markets
                 /\ \A j \in DOMAIN queue' : i < j /\ queue'[j] # Wake => queue'[i].id < queue'[j].id
                 /\ later(queue'[i].id, tasks, last_begun)
                 /\ queue[1] # Wake => queue[1].id < queue'[i].id
<1>1. /\ DOMAIN queue = 1 .. Len(queue) /\ Len(queue) \in Nat \ {0}
      /\ DOMAIN queue' = 1 .. Len(queue) - 1
      /\ 1 \in DOMAIN queue /\ queue[1] \in Item /\ Head(queue) = queue[1]
      /\ \A i \in DOMAIN queue' : queue'[i] = queue[i + 1]
  BY TakenItem DEF TypeOK
<1>2. \A i \in DOMAIN queue' : i + 1 \in DOMAIN queue /\ 1 < i + 1
  BY <1>1
<1>3. \A i, j \in DOMAIN queue' : i < j => i + 1 < j + 1
  BY <1>1
<1> QED BY <1>1, <1>2, <1>3 DEF QueueInv

\* A task is created after those there are, for an item earlier than the queue.
LEMMA ArrivalOfTask ==
    ASSUME TypeOK, ArrivalInv, NEW item \in Item, create_task(item), item.market \in Markets,
           item.id \in 1 .. received, later(item.id, tasks, last_begun),
           consumer' = Ready, received' = received,
           \A i \in DOMAIN queue' : queue'[i] # Wake =>
                 /\ queue'[i].cls \in {"trade", "inline"} /\ queue'[i].id \in 1 .. received'
                 /\ queue'[i].cls = "trade" => queue'[i].market \in Markets
                 /\ \A j \in DOMAIN queue' : i < j /\ queue'[j] # Wake => queue'[i].id < queue'[j].id
                 /\ later(queue'[i].id, tasks, last_begun)
                 /\ item.id < queue'[i].id
    PROVE  ArrivalInv'
<1>1. item.id \in Nat /\ tasks \in Seq(Task)
  BY DEF Item, TypeOK
<1>2. /\ DOMAIN tasks = 1 .. Len(tasks) /\ DOMAIN tasks' = 1 .. Len(tasks) + 1 /\ Len(tasks) \in Nat
      /\ \A j \in DOMAIN tasks : tasks'[j] = tasks[j]
      /\ tasks'[Len(tasks) + 1].id = item.id
  <2>1. Len(tasks) \in Nat
    BY <1>1, LenProperties
  <2>2. /\ DOMAIN tasks = 1 .. Len(tasks) /\ DOMAIN tasks' = 1 .. Len(tasks) + 1
        /\ \A j \in DOMAIN tasks : tasks'[j] = tasks[j]
        /\ tasks'[Len(tasks) + 1] = [id |-> item.id, market |-> item.market, at |-> "created"]
    BY <1>1, CreatedTask
  <2> QED BY <2>1, <2>2
<1>3. last_begun' = last_begun
  BY DEF create_task
<1>4. \A id : later(id, tasks, last_begun) /\ item.id < id => later(id, tasks', last_begun')
  BY <1>2, <1>3 DEF later
<1>5. consumer'.at # "acquiring"
  BY ConsumerStates
<1>6. QueueInv'
  BY <1>4, <1>5 DEF QueueInv, Wake, later
<1>7. WaiterInv'
  BY <1>5 DEF WaiterInv
<1>8. TaskInv'
  <2>1. \A i \in DOMAIN tasks' : tasks'[i].id \in 1 .. received'
    BY <1>2 DEF ArrivalInv, TaskInv
  <2>2. \A i, j \in DOMAIN tasks' : i < j => tasks'[i].id < tasks'[j].id
    <3> TAKE i, j \in DOMAIN tasks'
    <3> HAVE i < j
    <3>1. i \in DOMAIN tasks
      BY <1>2
    <3>2. CASE j \in DOMAIN tasks
      BY <1>2, <3>1, <3>2 DEF ArrivalInv, TaskInv
    <3>3. CASE j = Len(tasks) + 1
      BY <1>2, <3>1, <3>3 DEF later
    <3> QED BY <1>2, <3>2, <3>3
  <2> QED BY <1>3, <2>1, <2>2 DEF ArrivalInv, TaskInv
<1> QED BY <1>6, <1>7, <1>8 DEF ArrivalInv

\* A trade begins before anything that waits behind it.
LEMMA ArrivalOfStage ==
    ASSUME TypeOK, ArrivalInv, NEW i \in DOMAIN tasks,
           NEW at \in {"gated", "running"}, set_task(i, at),
           begin(tasks[i]) \/ UNCHANGED last_begun,
           UNCHANGED <<queue, consumer, received>>
    PROVE  ArrivalInv'
<1>1. /\ tasks \in Seq(Task) /\ DOMAIN tasks' = DOMAIN tasks
      /\ \A j \in DOMAIN tasks : tasks'[j].id = tasks[j].id
  BY StageOfTask DEF TypeOK
<1>2. \A m \in Markets : last_begun'[m] = last_begun[m] \/ last_begun'[m] = tasks[i].id
  BY DEF begin, TypeOK
<1>3. \A id : later(id, tasks, last_begun) => later(id, tasks', last_begun')
  BY <1>1, <1>2 DEF later
<1>4. QueueInv'
  BY <1>3 DEF ArrivalInv, QueueInv, Wake, later
<1>5. WaiterInv'
  BY <1>3 DEF ArrivalInv, WaiterInv, later
<1>6. TaskInv'
  <2>1. \A m \in Markets : last_begun'[m] <= received'
    BY <1>2 DEF ArrivalInv, TaskInv
  <2> QED BY <1>1, <2>1 DEF ArrivalInv, TaskInv
<1> QED BY <1>4, <1>5, <1>6 DEF ArrivalInv

\* A trade ends and the others stay in order.
LEMMA ArrivalOfEnd ==
    ASSUME TypeOK, ArrivalInv, NEW i \in DOMAIN tasks, tasks' = RemoveAt(tasks, i),
           UNCHANGED <<queue, consumer, received, last_begun>>
    PROVE  ArrivalInv'
<1>1. /\ DOMAIN tasks = 1 .. Len(tasks) /\ DOMAIN tasks' = 1 .. Len(tasks) - 1 /\ Len(tasks) \in Nat
      /\ \A j \in DOMAIN tasks' : tasks'[j] = IF j < i THEN tasks[j] ELSE tasks[j + 1]
  BY EndedTask, LenProperties DEF TypeOK
<1>2. \A j \in DOMAIN tasks' : tasks'[j] = tasks[IF j < i THEN j ELSE j + 1]
         /\ (IF j < i THEN j ELSE j + 1) \in DOMAIN tasks
  BY <1>1
<1>3. \A j, k \in DOMAIN tasks' : j < k => (IF j < i THEN j ELSE j + 1) < (IF k < i THEN k ELSE k + 1)
  BY <1>1
<1>4. \A id : later(id, tasks, last_begun) => later(id, tasks', last_begun')
  BY <1>2 DEF later
<1>5. QueueInv'
  BY <1>4 DEF ArrivalInv, QueueInv, Wake, later
<1>6. WaiterInv'
  BY <1>4 DEF ArrivalInv, WaiterInv, later
<1>7. TaskInv'
  BY <1>2, <1>3 DEF ArrivalInv, TaskInv
<1> QED BY <1>5, <1>6, <1>7 DEF ArrivalInv

\* Messages stay in the order they arrived.
LEMMA ArrivalStep == TypeOK /\ ArrivalInv /\ [Next]_vars => ArrivalInv'
<1> SUFFICES ASSUME TypeOK, ArrivalInv, [Next]_vars PROVE ArrivalInv'
  OBVIOUS
<1> USE DEF connection, counters, tickers, dispatch
<1>1. ASSUME NEW cls \in {"trade", "inline"}, NEW m \in Markets \cup {NoMarket},
             cls = "trade" => m \in Markets, ingest(cls, m)
      PROVE  ArrivalInv'
  <2> DEFINE item == [cls |-> cls, id |-> received', market |-> m]
  <2>1. received' = received + 1 /\ received' \in Nat /\ UNCHANGED <<consumer, tasks, last_begun>>
    BY <1>1 DEF ingest, TypeOK
  <2>2. item \in Item /\ item.cls = cls /\ item.id = received' /\ item.market = m
    BY <2>1 DEF Item
  <2>3. queue' = queue \/ queue' = Append(queue, item)
    BY <1>1 DEF ingest
  <2> HIDE DEF item
  <2> QED BY <1>1, <2>1, <2>2, <2>3, ArrivalOfItem
<1>2. ASSUME NEW m \in Markets, NEW stamp \in Stamps, _coalesce_ticker(m, stamp)
      PROVE  ArrivalInv'
  <2>1. received' = received + 1 /\ UNCHANGED <<consumer, tasks, last_begun>>
    BY <1>2 DEF _coalesce_ticker
  <2>2. queue' = queue \/ queue' = Append(queue, Wake)
    BY <1>2 DEF _coalesce_ticker, add_pending
  <2> QED BY <2>1, <2>2, ConsumerStates, ArrivalOfItem
<1>3. ASSUME NEW item \in Item, take_item, create_task(item), item.market \in Markets, consumer' = Ready,
             queue # <<>>, item = queue[1], item # Wake, queue' = Tail(queue)
      PROVE  ArrivalInv'
  <2>1. received' = received
    BY <1>3 DEF take_item
  <2>2. 1 \in DOMAIN queue /\ QueueInv
    BY <1>3, <2>1, QueueWithoutHead DEF ArrivalInv
  <2>3. item.id \in 1 .. received /\ later(item.id, tasks, last_begun)
    BY <1>3, <2>2 DEF QueueInv
  <2>4. \A i \in DOMAIN queue' : queue'[i] # Wake =>
                 /\ queue'[i].cls \in {"trade", "inline"} /\ queue'[i].id \in 1 .. received'
                 /\ queue'[i].cls = "trade" => queue'[i].market \in Markets
                 /\ \A j \in DOMAIN queue' : i < j /\ queue'[j] # Wake => queue'[i].id < queue'[j].id
                 /\ later(queue'[i].id, tasks, last_begun)
                 /\ item.id < queue'[i].id
    BY <1>3, <2>1, <2>2, QueueWithoutHead
  <2> QED BY <1>3, <2>1, <2>3, <2>4, ArrivalOfTask
<1>4. CASE take_item /\ UNCHANGED dispatch
  <2>1. queue # <<>> /\ queue' = Tail(queue) /\ received' = received /\ QueueInv
    BY <1>4 DEF take_item, ArrivalInv
  <2>2. /\ 1 \in DOMAIN queue /\ queue[1] \in Item /\ Head(queue) = queue[1]
        /\ \A i \in DOMAIN queue' : queue'[i] # Wake =>
                 /\ queue'[i].cls \in {"trade", "inline"} /\ queue'[i].id \in 1 .. received'
                 /\ queue'[i].cls = "trade" => queue'[i].market \in Markets
                 /\ \A j \in DOMAIN queue' : i < j /\ queue'[j] # Wake => queue'[i].id < queue'[j].id
                 /\ later(queue'[i].id, tasks, last_begun)
                 /\ queue[1] # Wake => queue[1].id < queue'[i].id
    BY <2>1, QueueWithoutHead
  <2>3. \/ consumer'.at # "acquiring"
        \/ queue[1].cls = "trade" /\ consumer' = [at |-> "acquiring", item |-> queue[1]] /\ queue[1] # Wake
    BY <1>4, <2>2, ConsumerStates DEF take_item, Wake
  <2>4. QueueInv'
    BY <1>4, <2>2, <2>3 DEF QueueInv, Wake, later
  <2>5. WaiterInv'
    <3>1. queue[1] # Wake /\ queue[1].cls = "trade" =>
            queue[1].id \in 1 .. received /\ queue[1].market \in Markets /\ later(queue[1].id, tasks, last_begun)
      BY <2>1, <2>2 DEF QueueInv
    <3> QED BY <1>4, <2>1, <2>3, <3>1 DEF WaiterInv, later
  <2>6. TaskInv'
    BY <1>4, <2>1 DEF ArrivalInv, TaskInv
  <2> QED BY <2>4, <2>5, <2>6 DEF ArrivalInv
<1>5. ASSUME NEW item \in Item, acquired, create_task(item), item.market \in Markets, consumer' = Ready,
             consumer.at = "acquiring", item = consumer.item, UNCHANGED queue
      PROVE  ArrivalInv'
  <2>1. received' = received
    BY <1>5 DEF acquired
  <2>2. item.id \in 1 .. received /\ later(item.id, tasks, last_begun)
    BY <1>5 DEF ArrivalInv, WaiterInv
  <2>3. \A i \in DOMAIN queue' : queue'[i] # Wake =>
                 /\ queue'[i].cls \in {"trade", "inline"} /\ queue'[i].id \in 1 .. received'
                 /\ queue'[i].cls = "trade" => queue'[i].market \in Markets
                 /\ \A j \in DOMAIN queue' : i < j /\ queue'[j] # Wake => queue'[i].id < queue'[j].id
                 /\ later(queue'[i].id, tasks, last_begun)
                 /\ item.id < queue'[i].id
    BY <1>5, <2>1 DEF ArrivalInv, QueueInv
  <2> QED BY <1>5, <2>1, <2>2, <2>3, ArrivalOfTask
<1>6. CASE acquired /\ UNCHANGED dispatch
  BY <1>6 DEF acquired, create_task, TypeOK
<1>7. CASE take_ticker \/ park \/ handled
  <2>1. UNCHANGED <<queue, received, tasks, last_begun>> /\ consumer'.at # "acquiring"
    BY <1>7, ConsumerStates DEF take_ticker, park, handled
  <2>2. QueueInv' /\ WaiterInv'
    BY <2>1 DEF ArrivalInv, QueueInv, WaiterInv, Wake, later
  <2>3. TaskInv'
    BY <2>1 DEF ArrivalInv, TaskInv
  <2> QED BY <2>2, <2>3 DEF ArrivalInv
<1>8. ASSUME NEW i \in 1 .. Slots, start_trade(i) \/ pass_gate(i) PROVE ArrivalInv'
  <2>1. i \in DOMAIN tasks /\ UNCHANGED <<queue, consumer, received>>
    BY <1>8 DEF start_trade, next_to_start, pass_gate
  <2>2. /\ set_task(i, "running") \/ set_task(i, "gated")
        /\ begin(tasks[i]) \/ UNCHANGED last_begun
    BY <1>8 DEF start_trade, pass_gate
  <2> QED BY <2>1, <2>2, ArrivalOfStage
<1>9. ASSUME NEW i \in 1 .. Slots, finish_trade(i) PROVE ArrivalInv'
  BY <1>9, ArrivalOfEnd DEF finish_trade
<1>10. CASE disconnect
  <2>1. UNCHANGED <<queue, received, last_begun>> /\ tasks' = <<>> /\ consumer'.at # "acquiring"
    BY <1>10, ConsumerStates DEF disconnect
  <2>2. QueueInv' /\ WaiterInv'
    BY <2>1 DEF ArrivalInv, QueueInv, WaiterInv, Wake, later
  <2>3. TaskInv'
    BY <2>1 DEF ArrivalInv, TaskInv
  <2> QED BY <2>2, <2>3 DEF ArrivalInv
<1>11. CASE _begin_connection
  <2>1. UNCHANGED <<tasks, received, last_begun>> /\ queue' = <<>> /\ consumer'.at # "acquiring"
    BY <1>11, ConsumerStates DEF _begin_connection
  <2>2. QueueInv' /\ WaiterInv'
    BY <2>1 DEF QueueInv, WaiterInv
  <2>3. TaskInv'
    BY <2>1 DEF ArrivalInv, TaskInv
  <2> QED BY <2>2, <2>3 DEF ArrivalInv
<1>12. CASE Flush \/ UNCHANGED vars
  <2>1. UNCHANGED <<queue, consumer, received, tasks, last_begun>>
    BY <1>12 DEF Flush, flush_ticker, flushed, vars
  <2> QED BY <2>1 DEF ArrivalInv, QueueInv, WaiterInv, TaskInv, Wake, later
<1> QED
  BY <1>1, <1>2, <1>3, <1>4, <1>5, <1>6, <1>7, <1>8, <1>9, <1>10, <1>11, <1>12, TaskOfItem
  DEF Next, Receive, Consume, RunTrade

-----------------------------------------------------------------------------
\* What the proofs about the gate read from the types.
LEMMA TaskTypes ==
    ASSUME TypeOK
    PROVE  /\ DOMAIN tasks = 1 .. Len(tasks) /\ Len(tasks) \in Nat
           /\ \A i \in DOMAIN tasks : /\ tasks[i].market \in Markets /\ tasks[i].id \in Nat
                                    /\ tasks[i].at \in {"created", "gated", "running"}
           /\ gate \in [Markets -> Seq(Nat)] /\ last_begun \in [Markets -> Nat]
           /\ \A m \in Markets : /\ DOMAIN gate[m] = 1 .. Len(gate[m]) /\ Len(gate[m]) \in Nat
                                /\ \A k \in DOMAIN gate[m] : gate[m][k] \in Nat
                                /\ gate[m] = <<>> <=> Len(gate[m]) = 0
<1>1. \A i \in DOMAIN tasks : tasks[i] \in Task
  BY LenProperties, ElementOfSeq DEF TypeOK
<1>2. ASSUME NEW m \in Markets
      PROVE  /\ DOMAIN gate[m] = 1 .. Len(gate[m]) /\ Len(gate[m]) \in Nat
             /\ \A k \in DOMAIN gate[m] : gate[m][k] \in Nat
             /\ gate[m] = <<>> <=> Len(gate[m]) = 0
  <2>1. gate[m] \in Seq(Nat)
    BY DEF TypeOK
  <2> QED BY <2>1, LenProperties, ElementOfSeq, EmptySeq
<1> QED BY <1>1, <1>2, LenProperties DEF TypeOK, Task

LEMMA TaskIdsDiffer ==
    ASSUME TypeOK, TaskInv, NEW i \in DOMAIN tasks, NEW j \in DOMAIN tasks, tasks[i].id = tasks[j].id
    PROVE  i = j
  BY TaskTypes DEF TaskInv

\* A new task is behind the started ones.
LEMMA GateOfTask ==
    ASSUME TypeOK, GateInv, NEW item \in Item, create_task(item), item.market \in Markets,
           later(item.id, tasks, last_begun)
    PROVE  GateInv'
<1>1. item.id \in Nat /\ tasks \in Seq(Task)
  BY DEF Item, TypeOK
<1>2. /\ DOMAIN tasks = 1 .. Len(tasks) /\ DOMAIN tasks' = 1 .. Len(tasks) + 1
      /\ \A j \in DOMAIN tasks : tasks'[j] = tasks[j]
      /\ tasks'[Len(tasks) + 1] = [id |-> item.id, market |-> item.market, at |-> "created"]
  BY <1>1, CreatedTask
<1>3. Len(tasks) \in Nat /\ UNCHANGED <<gate, last_begun>>
  BY TaskTypes DEF create_task
<1>4. \A i \in DOMAIN tasks' : i \in DOMAIN tasks \/ (i = Len(tasks) + 1 /\ tasks'[i].at = "created"
           /\ tasks'[i].market = item.market /\ tasks'[i].id = item.id)
  BY <1>2, <1>3
<1>5. \A i \in DOMAIN tasks : i \in DOMAIN tasks' /\ i < Len(tasks) + 1
  BY <1>2, <1>3
<1>6. \A i, j \in DOMAIN tasks' : i < j /\ tasks'[j].at # "created" => tasks'[i].at # "created"
  BY <1>2, <1>3, <1>4 DEF GateInv
<1>7. \A m \in Markets : \A k \in DOMAIN gate'[m] :
          \E i \in DOMAIN tasks' :
             tasks'[i].at # "created" /\ tasks'[i].market = m /\ tasks'[i].id = gate'[m][k]
  BY <1>2, <1>3, <1>5 DEF GateInv
<1>8. \A i \in DOMAIN tasks' : tasks'[i].at # "created" =>
          \E k \in DOMAIN gate'[tasks'[i].market] : gate'[tasks'[i].market][k] = tasks'[i].id
  BY <1>2, <1>3, <1>4, SMTT(20) DEF GateInv
<1>9. \A i \in DOMAIN tasks' : tasks'[i].at = "running" =>
          gate'[tasks'[i].market] # <<>> /\ gate'[tasks'[i].market][1] = tasks'[i].id
  BY <1>2, <1>3, <1>4 DEF GateInv
<1>10. \A i \in DOMAIN tasks' : tasks'[i].at # "running" =>
          last_begun'[tasks'[i].market] < tasks'[i].id
  BY <1>2, <1>3, <1>4 DEF GateInv, later
<1>11. \A m \in Markets : \A k, l \in DOMAIN gate'[m] : k < l => gate'[m][k] < gate'[m][l]
  BY <1>3 DEF GateInv
<1> QED BY <1>6, <1>7, <1>8, <1>9, <1>10, <1>11 DEF GateInv

\* A task that starts goes to the end of its market's gate, and runs if it is
\* alone there.
LEMMA GateOfStart ==
    ASSUME TypeOK, TaskInv, GateInv, NEW i \in DOMAIN tasks, start_trade(i)
    PROVE  GateInv'
<1> DEFINE m == tasks[i].market
           id == tasks[i].id
           n == Len(gate[m])
           at == IF gate[m] = <<>> THEN "running" ELSE "gated"
<1>1. /\ m \in Markets /\ id \in Nat /\ gate[m] \in Seq(Nat) /\ n \in Nat
      /\ DOMAIN tasks = 1 .. Len(tasks) /\ Len(tasks) \in Nat /\ gate \in [Markets -> Seq(Nat)]
      /\ last_begun \in [Markets -> Nat]
  BY TaskTypes
<1>2. tasks[i].at = "created" /\ \A j \in 1 .. i - 1 : tasks[j].at # "created"
  BY DEF start_trade, next_to_start
<1>3. set_task(i, at) /\ gate' = [gate EXCEPT ![m] = Append(gate[m], id)]
      /\ last_begun' = IF gate[m] = <<>> THEN [last_begun EXCEPT ![m] = id] ELSE last_begun
  BY DEF start_trade, begin
<1>4. /\ DOMAIN tasks' = DOMAIN tasks
      /\ \A j \in DOMAIN tasks :
            /\ tasks'[j].id = tasks[j].id /\ tasks'[j].market = tasks[j].market
            /\ tasks'[j].at = IF j = i THEN at ELSE tasks[j].at
  <2>1. at \in {"created", "gated", "running"} /\ tasks \in Seq(Task)
    BY DEF TypeOK
  <2> HIDE DEF at
  <2> QED BY <1>3, <2>1, StageOfTask
<1>5. /\ DOMAIN gate[m] = 1 .. n /\ DOMAIN gate'[m] = 1 .. n + 1
      /\ gate'[m][n + 1] = id /\ \A k \in 1 .. n : gate'[m][k] = gate[m][k]
      /\ \A o \in Markets : o # m => gate'[o] = gate[o]
  BY <1>1, <1>3, AppendProperties, LenProperties
<1>6. \A j \in DOMAIN tasks : tasks[j].at # "created" => j < i /\ tasks[j].id < id
  BY <1>1, <1>2 DEF GateInv, TaskInv
<1>7. \A j \in DOMAIN tasks : tasks[j].at = "created" /\ j # i => i < j /\ id < tasks[j].id
  BY <1>1, <1>2 DEF TaskInv
<1>8. \A k \in 1 .. n : gate[m][k] < id
  <2> TAKE k \in 1 .. n
  <2>1. PICK j \in DOMAIN tasks : tasks[j].at # "created" /\ tasks[j].market = m /\ tasks[j].id = gate[m][k]
    <3>1. k \in DOMAIN gate[m]
      BY <1>5
    <3> HIDE DEF m, n
    <3> QED BY <1>1, <3>1 DEF GateInv
  <2> QED BY <1>6, <2>1
<1>9. at # "created" /\ (at = "running" <=> n = 0) /\ (gate[m] = <<>> <=> n = 0)
  BY <1>1, EmptySeq
<1> HIDE DEF at, m, id, n
<1>a. \A o \in Markets : \A k \in DOMAIN gate[o] : k \in DOMAIN gate'[o] /\ gate'[o][k] = gate[o][k]
  <2> TAKE o \in Markets
  <2>1. CASE o = m
    <3>1. \A k \in 1 .. n : k \in 1 .. n + 1
      BY <1>1
    <3> QED BY <1>5, <2>1, <3>1
  <2>2. CASE o # m
    BY <1>5, <2>2
  <2> QED BY <2>1, <2>2
<1>10. \A j, k \in DOMAIN tasks' : j < k /\ tasks'[k].at # "created" => tasks'[j].at # "created"
  <2> TAKE j, k \in DOMAIN tasks'
  <2> HAVE j < k /\ tasks'[k].at # "created"
  <2>1. CASE j = i
    BY <1>4, <1>9, <2>1
  <2>2. CASE j # i /\ k = i
    <3>1. j \in 1 .. i - 1
      BY <1>1, <1>4, <2>2
    <3> QED BY <1>2, <1>4, <2>2, <3>1
  <2>3. CASE j # i /\ k # i
    BY <1>4, <2>3 DEF GateInv
  <2> QED BY <2>1, <2>2, <2>3
<1>11. \A o \in Markets : \A k, l \in DOMAIN gate'[o] : k < l => gate'[o][k] < gate'[o][l]
  <2> TAKE o \in Markets
  <2>1. CASE o # m
    BY <1>5, <2>1 DEF GateInv
  <2>2. CASE o = m
    <3> TAKE k, l \in DOMAIN gate'[o]
    <3> HAVE k < l
    <3>1. k \in 1 .. n /\ (l \in 1 .. n \/ l = n + 1)
      BY <1>1, <1>5, <2>2, SMTT(20)
    <3> QED BY <1>1, <1>5, <1>8, <2>2, <3>1 DEF GateInv
  <2> QED BY <2>1, <2>2
<1>12. \A o \in Markets : \A k \in DOMAIN gate'[o] :
          \E j \in DOMAIN tasks' :
             tasks'[j].at # "created" /\ tasks'[j].market = o /\ tasks'[j].id = gate'[o][k]
  <2> TAKE o \in Markets
  <2> TAKE k \in DOMAIN gate'[o]
  <2>1. CASE k \in DOMAIN gate[o]
    <3>1. PICK j \in DOMAIN tasks : tasks[j].at # "created" /\ tasks[j].market = o /\ tasks[j].id = gate[o][k]
      BY <2>1 DEF GateInv
    <3> QED BY <1>4, <1>9, <1>a, <2>1, <3>1
  <2>2. CASE k \notin DOMAIN gate[o]
    <3>1. o = m /\ gate'[o][k] = id
      BY <1>1, <1>5, <2>2
    <3>2. tasks'[i].at = at /\ tasks'[i].market = m /\ tasks'[i].id = id /\ i \in DOMAIN tasks'
      BY <1>4 DEF m, id
    <3> QED BY <1>9, <3>1, <3>2
  <2> QED BY <2>1, <2>2
<1>13. \A j \in DOMAIN tasks' : tasks'[j].at # "created" =>
          \E k \in DOMAIN gate'[tasks'[j].market] : gate'[tasks'[j].market][k] = tasks'[j].id
  <2> TAKE j \in DOMAIN tasks'
  <2> HAVE tasks'[j].at # "created"
  <2>1. CASE j = i
    <3>1. tasks'[j].market = m /\ tasks'[j].id = id
      BY <1>4, <2>1 DEF m, id
    <3>2. n + 1 \in DOMAIN gate'[m]
      BY <1>1, <1>5
    <3> QED BY <1>5, <3>1, <3>2
  <2>2. CASE j # i
    <3>1. tasks[j].at # "created" /\ tasks'[j].market = tasks[j].market /\ tasks'[j].id = tasks[j].id
          /\ tasks[j].market \in Markets /\ j \in DOMAIN tasks
      BY <1>4, <2>2, TaskTypes
    <3>2. PICK k \in DOMAIN gate[tasks[j].market] : gate[tasks[j].market][k] = tasks[j].id
      BY <3>1 DEF GateInv
    <3> QED BY <1>a, <3>1, <3>2
  <2> QED BY <2>1, <2>2
<1>14. \A j \in DOMAIN tasks' : tasks'[j].at = "running" =>
          gate'[tasks'[j].market] # <<>> /\ gate'[tasks'[j].market][1] = tasks'[j].id
  <2> TAKE j \in DOMAIN tasks'
  <2> HAVE tasks'[j].at = "running"
  <2>1. CASE j = i
    <3>1. tasks'[j].market = m /\ tasks'[j].id = id /\ n = 0
      BY <1>4, <1>9, <2>1 DEF m, id
    <3>2. 1 \in DOMAIN gate'[m]
      BY <1>5, <3>1
    <3> QED BY <1>5, <3>1, <3>2
  <2>2. CASE j # i
    <3>1. tasks[j].at = "running" /\ tasks'[j].market = tasks[j].market /\ tasks'[j].id = tasks[j].id
          /\ tasks[j].market \in Markets /\ j \in DOMAIN tasks
      BY <1>4, <2>2, TaskTypes
    <3>2. gate[tasks[j].market] # <<>> /\ gate[tasks[j].market][1] = tasks[j].id
      BY <3>1 DEF GateInv
    <3>3. 1 \in DOMAIN gate[tasks[j].market]
      BY <3>1, <3>2, TaskTypes
    <3>4. 1 \in DOMAIN gate'[tasks[j].market] /\ gate'[tasks[j].market][1] = tasks[j].id
      BY <1>a, <3>1, <3>2, <3>3
    <3> QED BY <3>1, <3>4
  <2> QED BY <2>1, <2>2
<1>15. \A j \in DOMAIN tasks' : tasks'[j].at # "running" =>
          last_begun'[tasks'[j].market] < tasks'[j].id
  <2> TAKE j \in DOMAIN tasks'
  <2> HAVE tasks'[j].at # "running"
  <2>1. tasks'[j].market = tasks[j].market /\ tasks'[j].id = tasks[j].id /\ tasks[j].market \in Markets
        /\ j \in DOMAIN tasks /\ tasks[j].at # "running"
    BY <1>2, <1>4, TaskTypes
  <2>2. CASE n # 0 \/ tasks[j].market # m
    BY <1>1, <1>3, <1>9, <2>1, <2>2 DEF GateInv
  <2>3. CASE n = 0 /\ tasks[j].market = m
    <3>1. j # i
      BY <1>4, <1>9, <2>1, <2>3
    <3>2. tasks[j].at = "created"
      BY <1>5, <2>1, <2>3 DEF GateInv
    <3> QED BY <1>1, <1>3, <1>7, <1>9, <2>1, <2>3, <3>1, <3>2
  <2> QED BY <2>2, <2>3
<1> QED BY <1>10, <1>11, <1>12, <1>13, <1>14, <1>15 DEF GateInv

\* A task that passes the gate stands first in it: the others of its market
\* that have not begun are later.
LEMMA GateOfPass ==
    ASSUME TypeOK, TaskInv, GateInv, NEW i \in DOMAIN tasks, pass_gate(i)
    PROVE  GateInv'
<1> DEFINE m == tasks[i].market
           id == tasks[i].id
<1>1. /\ m \in Markets /\ id \in Nat
      /\ DOMAIN tasks = 1 .. Len(tasks) /\ Len(tasks) \in Nat
      /\ last_begun \in [Markets -> Nat]
      /\ DOMAIN gate[m] = 1 .. Len(gate[m]) /\ Len(gate[m]) \in Nat
      /\ gate[m] = <<>> <=> Len(gate[m]) = 0
  BY TaskTypes
<1>2. /\ tasks[i].at = "gated" /\ set_task(i, "running") /\ UNCHANGED gate
      /\ last_begun' = [last_begun EXCEPT ![m] = id]
      /\ \A k \in DOMAIN gate[m] : gate[m][k] = id => k = 1
  BY DEF pass_gate, begin, nobody_ahead
<1>3. /\ DOMAIN tasks' = DOMAIN tasks
      /\ \A j \in DOMAIN tasks :
            /\ tasks'[j].id = tasks[j].id /\ tasks'[j].market = tasks[j].market
            /\ tasks'[j].at = IF j = i THEN "running" ELSE tasks[j].at
  BY <1>2, StageOfTask DEF TypeOK
<1>4. 1 \in DOMAIN gate[m] /\ gate[m][1] = id
  <2>1. PICK k \in DOMAIN gate[m] : gate[m][k] = id
    BY <1>2 DEF GateInv
  <2> QED BY <1>2, <2>1
<1>5. \A j \in DOMAIN tasks' : tasks'[j].at # "created" <=> tasks[j].at # "created"
  BY <1>2, <1>3
<1> HIDE DEF m, id
<1>6. \A j, k \in DOMAIN tasks' : j < k /\ tasks'[k].at # "created" => tasks'[j].at # "created"
  BY <1>3, <1>5 DEF GateInv
<1>7. \A o \in Markets : \A k, l \in DOMAIN gate'[o] : k < l => gate'[o][k] < gate'[o][l]
  BY <1>2 DEF GateInv
<1>8. \A o \in Markets : \A k \in DOMAIN gate'[o] :
          \E j \in DOMAIN tasks' :
             tasks'[j].at # "created" /\ tasks'[j].market = o /\ tasks'[j].id = gate'[o][k]
  <2> TAKE o \in Markets
  <2> TAKE k \in DOMAIN gate'[o]
  <2>1. PICK j \in DOMAIN tasks : tasks[j].at # "created" /\ tasks[j].market = o /\ tasks[j].id = gate[o][k]
    BY <1>2 DEF GateInv
  <2> QED BY <1>2, <1>3, <1>5, <2>1
<1>9. \A j \in DOMAIN tasks' : tasks'[j].at # "created" =>
          \E k \in DOMAIN gate'[tasks'[j].market] : gate'[tasks'[j].market][k] = tasks'[j].id
  <2> TAKE j \in DOMAIN tasks'
  <2> HAVE tasks'[j].at # "created"
  <2>1. PICK k \in DOMAIN gate[tasks[j].market] : gate[tasks[j].market][k] = tasks[j].id
    BY <1>3, <1>5 DEF GateInv
  <2> QED BY <1>2, <1>3, <2>1
<1>10. \A j \in DOMAIN tasks' : tasks'[j].at = "running" =>
          gate'[tasks'[j].market] # <<>> /\ gate'[tasks'[j].market][1] = tasks'[j].id
  <2> TAKE j \in DOMAIN tasks'
  <2> HAVE tasks'[j].at = "running"
  <2>1. CASE j = i
    <3>1. tasks'[j].market = m /\ tasks'[j].id = id
      BY <1>3, <2>1 DEF m, id
    <3> QED BY <1>1, <1>2, <1>4, <3>1
  <2>2. CASE j # i
    BY <1>2, <1>3, <2>2 DEF GateInv
  <2> QED BY <2>1, <2>2
<1>11. \A j \in DOMAIN tasks' : tasks'[j].at # "running" =>
          last_begun'[tasks'[j].market] < tasks'[j].id
  <2> TAKE j \in DOMAIN tasks'
  <2> HAVE tasks'[j].at # "running"
  <2>1. /\ j \in DOMAIN tasks /\ j # i /\ tasks[j].at # "running" /\ tasks[j].market \in Markets
        /\ tasks'[j].market = tasks[j].market /\ tasks'[j].id = tasks[j].id
    BY <1>3, TaskTypes
  <2>2. CASE tasks[j].market # m
    BY <1>1, <1>2, <2>1, <2>2 DEF GateInv
  <2>3. CASE tasks[j].market = m /\ tasks[j].at = "created"
    <3>1. i < j
      <4>1. ~(j < i)
        BY <1>2, <2>1, <2>3 DEF GateInv
      <4> QED BY <1>1, <2>1, <4>1
    <3>2. id < tasks[j].id
      BY <2>1, <3>1 DEF TaskInv, id
    <3> QED BY <1>1, <1>2, <2>1, <2>3, <3>2
  <2>4. CASE tasks[j].market = m /\ tasks[j].at # "created"
    <3>1. PICK k \in DOMAIN gate[m] : gate[m][k] = tasks[j].id
      BY <2>1, <2>4 DEF GateInv
    <3>2. tasks[j].id # id
      BY <2>1, TaskIdsDiffer DEF id
    <3>3. k # 1
      BY <1>4, <3>1, <3>2
    <3>4. 1 < k
      BY <1>1, <3>1, <3>3
    <3>5. gate[m][1] < gate[m][k]
      BY <1>1, <1>4, <3>1, <3>4 DEF GateInv
    <3> QED BY <1>1, <1>2, <1>4, <2>1, <2>4, <3>1, <3>5
  <2> QED BY <2>2, <2>3, <2>4
<1> QED BY <1>6, <1>7, <1>8, <1>9, <1>10, <1>11 DEF GateInv

\* The one that ends was the first in its gate; who waits moves up.
LEMMA GateOfEnd ==
    ASSUME TypeOK, TaskInv, GateInv, NEW i \in DOMAIN tasks, finish_trade(i)
    PROVE  GateInv'
<1> DEFINE m == tasks[i].market
           id == tasks[i].id
           n == Len(gate[m])
           at(j) == IF j < i THEN j ELSE j + 1
<1>1. /\ m \in Markets /\ gate[m] \in Seq(Nat)
      /\ DOMAIN gate[m] = 1 .. n /\ n \in Nat /\ gate[m] = <<>> <=> n = 0
      /\ gate \in [Markets -> Seq(Nat)]
  BY TaskTypes
<1>2. /\ tasks[i].at = "running" /\ tasks' = RemoveAt(tasks, i)
      /\ gate' = [gate EXCEPT ![m] = Tail(gate[m])] /\ UNCHANGED last_begun
  BY DEF finish_trade, release_gate
<1>3. n # 0 /\ gate[m][1] = id
  BY <1>1, <1>2 DEF GateInv
<1>4. /\ DOMAIN gate'[m] = 1 .. n - 1 /\ \A k \in 1 .. n - 1 : gate'[m][k] = gate[m][k + 1]
      /\ \A o \in Markets : o # m => gate'[o] = gate[o]
  <2>1. gate'[m] = Tail(gate[m]) /\ \A o \in Markets : o # m => gate'[o] = gate[o]
    BY <1>1, <1>2
  <2>2. gate[m] # <<>>
    BY <1>1, <1>3
  <2>3. /\ Tail(gate[m]) \in Seq(Nat) /\ Len(Tail(gate[m])) = n - 1
        /\ \A k \in 1 .. Len(Tail(gate[m])) : Tail(gate[m])[k] = gate[m][k + 1]
    BY <1>1, <2>2, HeadTailProperties
  <2> QED BY <2>1, <2>3, LenProperties
<1>5. /\ DOMAIN tasks = 1 .. Len(tasks) /\ DOMAIN tasks' = 1 .. Len(tasks) - 1 /\ Len(tasks) \in Nat
      /\ \A j \in DOMAIN tasks' : tasks'[j] = IF j < i THEN tasks[j] ELSE tasks[j + 1]
  BY <1>2, EndedTask, LenProperties DEF TypeOK
<1>6. /\ \A j \in DOMAIN tasks' : at(j) \in DOMAIN tasks /\ at(j) # i /\ tasks'[j] = tasks[at(j)]
      /\ \A j, k \in DOMAIN tasks' : j < k => at(j) < at(k)
  <2>1. \A j \in DOMAIN tasks' : at(j) \in DOMAIN tasks /\ at(j) # i /\ tasks'[j] = tasks[at(j)]
    BY <1>5
  <2>2. \A j, k \in DOMAIN tasks' : j < k => at(j) < at(k)
    BY <1>5
  <2> QED BY <2>1, <2>2
<1>7. \A k \in DOMAIN tasks : k # i => \E j \in DOMAIN tasks' : tasks'[j] = tasks[k]
  <2> TAKE k \in DOMAIN tasks
  <2> HAVE k # i
  <2>1. CASE k < i
    BY <1>5, <2>1
  <2>2. CASE ~(k < i)
    <3>1. k - 1 \in DOMAIN tasks' /\ ~(k - 1 < i) /\ (k - 1) + 1 = k
      BY <1>5, <2>2
    <3> QED BY <1>5, <3>1
  <2> QED BY <2>1, <2>2
<1>8. \A j \in DOMAIN tasks : j # i => tasks[j].id # id
  BY TaskIdsDiffer
<1>a. DOMAIN gate[m] = 1 .. n /\ n \in Nat \ {0} /\ DOMAIN gate'[m] = 1 .. n - 1
  BY <1>1, <1>3, <1>4
<1>b. /\ \A k \in 1 .. n - 1 : k + 1 \in 1 .. n /\ 1 < k + 1
      /\ \A k, l \in 1 .. n - 1 : k < l => k + 1 < l + 1
      /\ \A k \in 1 .. n : k # 1 => k - 1 \in 1 .. n - 1 /\ (k - 1) + 1 = k
      /\ 1 \in 1 .. n
  BY <1>a
<1> HIDE DEF at, m, id, n
<1>9. \A j, k \in DOMAIN tasks' : j < k /\ tasks'[k].at # "created" => tasks'[j].at # "created"
  BY <1>6 DEF GateInv
<1>10. \A o \in Markets : \A k, l \in DOMAIN gate'[o] : k < l => gate'[o][k] < gate'[o][l]
  <2> TAKE o \in Markets
  <2>1. CASE o # m
    BY <1>4, <2>1 DEF GateInv
  <2>2. CASE o = m
    <3> TAKE k, l \in DOMAIN gate'[o]
    <3> HAVE k < l
    <3>1. k + 1 \in DOMAIN gate[m] /\ l + 1 \in DOMAIN gate[m] /\ k + 1 < l + 1
      BY <1>a, <1>b, <2>2
    <3>2. gate[m][k + 1] < gate[m][l + 1]
      BY <1>1, <3>1 DEF GateInv
    <3> QED BY <1>4, <2>2, <3>2
  <2> QED BY <2>1, <2>2
<1>11. \A o \in Markets : \A k \in DOMAIN gate'[o] :
          \E j \in DOMAIN tasks' :
             tasks'[j].at # "created" /\ tasks'[j].market = o /\ tasks'[j].id = gate'[o][k]
  <2> TAKE o \in Markets
  <2> TAKE k \in DOMAIN gate'[o]
  <2>1. CASE o # m
    <3>1. PICK j \in DOMAIN tasks : tasks[j].at # "created" /\ tasks[j].market = o /\ tasks[j].id = gate[o][k]
      BY <1>4, <2>1 DEF GateInv
    <3>2. j # i
      BY <2>1, <3>1 DEF m
    <3> QED BY <1>4, <1>7, <2>1, <3>1, <3>2
  <2>2. CASE o = m
    <3>1. /\ 1 \in DOMAIN gate[m] /\ k + 1 \in DOMAIN gate[m] /\ 1 < k + 1
          /\ gate'[m][k] = gate[m][k + 1]
      BY <1>1, <1>3, <1>a, <1>b, <1>4, <2>2
    <3>2. PICK j \in DOMAIN tasks : tasks[j].at # "created" /\ tasks[j].market = m /\ tasks[j].id = gate[m][k + 1]
      BY <1>1, <3>1 DEF GateInv
    <3>3. id < gate[m][k + 1]
      BY <1>1, <1>3, <3>1 DEF GateInv
    <3>4. j # i
      <4> SUFFICES ASSUME j = i PROVE FALSE
        OBVIOUS
      <4>1. id < id /\ id \in Nat
        BY <3>2, <3>3, TaskTypes DEF id
      <4> QED BY <4>1
    <3> QED BY <1>7, <2>2, <3>1, <3>2, <3>4
  <2> QED BY <2>1, <2>2
<1>12. \A j \in DOMAIN tasks' : tasks'[j].at # "created" =>
          \E k \in DOMAIN gate'[tasks'[j].market] : gate'[tasks'[j].market][k] = tasks'[j].id
  <2> TAKE j \in DOMAIN tasks'
  <2> HAVE tasks'[j].at # "created"
  <2>1. PICK a \in DOMAIN tasks : a # i /\ tasks'[j] = tasks[a]
    BY <1>6
  <2>2. tasks[a].market \in Markets
    BY TaskTypes
  <2>3. PICK k \in DOMAIN gate[tasks[a].market] : gate[tasks[a].market][k] = tasks[a].id
    BY <2>1 DEF GateInv
  <2>4. CASE tasks[a].market # m
    BY <1>4, <2>1, <2>2, <2>3, <2>4
  <2>5. CASE tasks[a].market = m
    <3>1. k # 1
      BY <1>3, <1>8, <2>1, <2>3, <2>5
    <3>2. k - 1 \in DOMAIN gate'[m] /\ (k - 1) + 1 = k
      BY <1>a, <1>b, <2>3, <2>5, <3>1
    <3>3. gate'[m][k - 1] = gate[m][k]
      BY <1>4, <3>2
    <3> QED BY <2>1, <2>3, <2>5, <3>2, <3>3
  <2> QED BY <2>4, <2>5
<1>13. \A j \in DOMAIN tasks' : tasks'[j].at = "running" =>
          gate'[tasks'[j].market] # <<>> /\ gate'[tasks'[j].market][1] = tasks'[j].id
  <2> TAKE j \in DOMAIN tasks'
  <2> HAVE tasks'[j].at = "running"
  <2>1. PICK a \in DOMAIN tasks : a # i /\ tasks'[j] = tasks[a]
    BY <1>6
  <2>2. tasks[a].market \in Markets
    BY TaskTypes
  <2>3. gate[tasks[a].market] # <<>> /\ gate[tasks[a].market][1] = tasks[a].id
    BY <2>1 DEF GateInv
  <2>4. tasks[a].market # m
    BY <1>3, <1>8, <2>1, <2>3
  <2> QED BY <1>4, <2>1, <2>2, <2>3, <2>4
<1>14. \A j \in DOMAIN tasks' : tasks'[j].at # "running" =>
          last_begun'[tasks'[j].market] < tasks'[j].id
  BY <1>2, <1>6 DEF GateInv
<1> QED BY <1>9, <1>10, <1>11, <1>12, <1>13, <1>14 DEF GateInv

\* The gate lets a market's trades through one at a time, in order.
LEMMA GateStep == TypeOK /\ ArrivalInv /\ GateInv /\ [Next]_vars => GateInv'
<1> SUFFICES ASSUME TypeOK, ArrivalInv, GateInv, [Next]_vars PROVE GateInv'
  OBVIOUS
<1>0. QueueInv /\ WaiterInv /\ TaskInv
  BY DEF ArrivalInv
<1>1. ASSUME NEW item \in Item, create_task(item), item.market \in Markets,
             \/ acquired /\ consumer.at = "acquiring" /\ item = consumer.item
             \/ queue # <<>> /\ item = queue[1] /\ item # Wake
      PROVE  GateInv'
  <2>1. queue # <<>> => 1 \in DOMAIN queue
    BY LenProperties, EmptySeq DEF TypeOK
  <2>2. later(item.id, tasks, last_begun)
    BY <1>0, <1>1, <2>1 DEF QueueInv, WaiterInv
  <2> QED BY <1>1, <2>2, GateOfTask
<1>2. ASSUME UNCHANGED <<tasks, gate, last_begun>> PROVE GateInv'
  BY <1>2 DEF GateInv
<1>3. CASE take_item \/ acquired
  <2>1. CASE UNCHANGED dispatch
    BY <1>2, <2>1 DEF dispatch
  <2> QED BY <1>1, <1>3, <2>1, TaskOfItem
<1>4. ASSUME NEW i \in 1 .. Slots, start_trade(i) PROVE GateInv'
  BY <1>0, <1>4, GateOfStart DEF start_trade, next_to_start
<1>5. ASSUME NEW i \in 1 .. Slots, pass_gate(i) PROVE GateInv'
  BY <1>0, <1>5, GateOfPass DEF pass_gate
<1>6. ASSUME NEW i \in 1 .. Slots, finish_trade(i) PROVE GateInv'
  BY <1>0, <1>6, GateOfEnd DEF finish_trade
<1>7. CASE disconnect
  <2>1. tasks' = <<>> /\ gate' = [m \in Markets |-> <<>>]
    BY <1>7 DEF disconnect
  <2> QED BY <2>1 DEF GateInv
<1>8. CASE \/ Receive \/ take_ticker \/ park \/ handled \/ Flush \/ _begin_connection \/ UNCHANGED vars
  <2>1. UNCHANGED dispatch
    BY <1>8 DEF Receive, ingest, _coalesce_ticker, take_ticker, park, handled, Flush, flush_ticker, flushed,
       _begin_connection, vars
  <2> QED BY <1>2, <2>1 DEF dispatch
<1> QED
  BY <1>3, <1>4, <1>5, <1>6, <1>7, <1>8 DEF Next, Consume, RunTrade

-----------------------------------------------------------------------------
LEMMA DispatchInit == Init => DispatchInv
<1> SUFFICES ASSUME Init PROVE DispatchInv
  OBVIOUS
<1> USE DEF Init
<1>a. 0 \in Nat /\ Slots \in Nat /\ Slots >= 1 /\ MaxConnects \in Nat /\ MaxQueue \in Nat /\ MaxQueue >= 1
  BY DispatchAssumption
<1>b. /\ queue = <<>> /\ Len(queue) = 0 /\ Len(tasks) = 0 /\ Len(ticker_by_market) = 0
      /\ consumer.at = "cancelled"
  BY ConsumerStates
<1>1. TypeOK
  <2>1. \A S : <<>> \in Seq(S)
    BY EmptySeq
  <2>2. consumer \in Consumer
    BY ConsumerStates
  <2>3. gate \in [Markets -> Seq(Nat)]
    BY <2>1
  <2>4. free \in 0 .. Slots /\ connects \in 0 .. MaxConnects
    BY <1>a
  <2>5. /\ newest \in [Markets -> Stamps \cup {0}] /\ shown \in [Markets -> SUBSET Stamps]
        /\ last_begun \in [Markets -> Nat]
    BY <1>a
  <2>b. /\ received \in Nat /\ processed \in Nat /\ coalesced \in Nat /\ dropped \in Nat
        /\ discarded \in Nat /\ uncounted \in Nat /\ leaked \in Nat
    BY <1>a
  <2>6. queue \in Seq(Item) /\ ticker_by_market \in Seq(Pending) /\ tasks \in Seq(Task)
    BY <2>1
  <2>7. connected \in BOOLEAN /\ flusher \in {"idle", "handling"}
    OBVIOUS
  <2> HIDE DEF Init
  <2>8. Len(queue) <= MaxQueue
    BY <1>a, <1>b
  <2> QED BY <2>2, <2>3, <2>4, <2>5, <2>6, <2>7, <2>8, <2>b DEF TypeOK
<1>2. SlotsInv
  BY <1>a, <1>b DEF SlotsInv
<1>3. IdleInv /\ PendingInv
  BY <1>b DEF IdleInv, PendingInv
<1>4. ArrivalInv
  BY <1>b DEF ArrivalInv, QueueInv, WaiterInv, TaskInv
<1>5. GateInv
  BY DEF GateInv
<1>6. NewestIsShown /\ NoLostWakeup
  BY DEF NewestIsShown, NoLostWakeup
<1>7. EveryMessageCounted
  <2>1. queued_messages = 0
    <3>1. unlike(Wake, queue) = {}
      BY DEF unlike
    <3> QED BY <3>1, QueuedMessages, FS_EmptySet
  <2> QED BY <1>b, <2>1 DEF EveryMessageCounted, still_here
<1> QED BY <1>1, <1>2, <1>3, <1>4, <1>5, <1>6, <1>7 DEF DispatchInv, NothingIsLost

LEMMA ShownOrHereNext == PendingInv' => (NewestIsShown' <=> NewestIsHere')
  BY ShownOrHere, PTL

LEMMA DispatchStep == DispatchInv /\ [Next]_vars => DispatchInv'
<1> SUFFICES ASSUME DispatchInv, [Next]_vars PROVE DispatchInv'
  OBVIOUS
<1>1. /\ TypeOK /\ SlotsInv /\ IdleInv /\ PendingInv /\ ArrivalInv /\ GateInv
      /\ NewestIsShown /\ EveryMessageCounted /\ NoLostWakeup
  BY DEF DispatchInv, NothingIsLost
<1>2. TypeOK'
  BY <1>1, TypeStep
<1>3. SlotsInv' /\ IdleInv' /\ ArrivalInv' /\ GateInv'
  BY <1>1, SlotsStep, IdleStep, ArrivalStep, GateStep
<1>4. PendingInv' /\ NewestIsHere'
  <2>1. TickersInv
    BY <1>1, ShownOrHere DEF TickersInv
  <2> QED BY <1>1, <2>1, TickersStep DEF TickersInv
<1>5. NewestIsShown'
  BY <1>4, ShownOrHereNext
<1>6. EveryMessageCounted' /\ NoLostWakeup'
  BY <1>1, <1>2, CountStep, WakeupStep
<1> QED BY <1>2, <1>3, <1>4, <1>5, <1>6 DEF DispatchInv, NothingIsLost

\* The gate admits one trade of a market, the first that stands in it.
LEMMA OneIsFirst == DispatchInv => OneHandlerPerTicker
<1> SUFFICES ASSUME DispatchInv, NEW i \in tasks_at({"running"}), NEW j \in tasks_at({"running"}),
                    tasks[i].market = tasks[j].market
             PROVE  i = j
  BY DEF OneHandlerPerTicker
<1>1. TypeOK /\ TaskInv /\ GateInv
  BY DEF DispatchInv, ArrivalInv
<1>2. i \in DOMAIN tasks /\ j \in DOMAIN tasks /\ tasks[i].at = "running" /\ tasks[j].at = "running"
  BY DEF tasks_at
<1>3. tasks[i].id = tasks[j].id
  <2>1. gate[tasks[i].market][1] = tasks[i].id
    BY <1>1, <1>2 DEF GateInv
  <2>2. gate[tasks[j].market][1] = tasks[j].id
    BY <1>1, <1>2 DEF GateInv
  <2> QED BY <2>1, <2>2
<1> QED BY <1>1, <1>2, <1>3, TaskIdsDiffer

\* A trade begins when it starts or passes the gate, and is later than the last
\* of its market that began.
LEMMA BegunInOrder ==
    ASSUME DispatchInv, [Next]_vars, NEW m \in Markets, last_begun'[m] # last_begun[m]
    PROVE  last_begun'[m] > last_begun[m]
<1>1. TypeOK /\ GateInv /\ ArrivalInv
  BY DEF DispatchInv
<1>2. ASSUME UNCHANGED last_begun PROVE FALSE
  BY <1>2
<1>3. ASSUME NEW i \in DOMAIN tasks, tasks[i].at # "running", begin(tasks[i])
      PROVE  last_begun'[m] > last_begun[m]
  <2>1. tasks[i].market \in Markets /\ tasks[i].id \in Nat /\ last_begun \in [Markets -> Nat]
    BY <1>1, TaskTypes
  <2>2. m = tasks[i].market /\ last_begun'[m] = tasks[i].id
    BY <1>3, <2>1 DEF begin
  <2> QED BY <1>1, <1>3, <2>1, <2>2 DEF GateInv
<1>4. ASSUME NEW i \in 1 .. Slots, start_trade(i) \/ pass_gate(i)
      PROVE  last_begun'[m] > last_begun[m]
  <2>1. i \in DOMAIN tasks /\ tasks[i].at # "running" /\ (begin(tasks[i]) \/ UNCHANGED last_begun)
    BY <1>4 DEF start_trade, next_to_start, pass_gate
  <2> QED BY <1>2, <1>3, <2>1
<1>5. ASSUME NEW i \in 1 .. Slots, finish_trade(i) PROVE UNCHANGED last_begun
  BY <1>5 DEF finish_trade
<1>6. CASE take_item \/ acquired
  <2>1. UNCHANGED last_begun
    BY <1>1, <1>6, TaskOfItem DEF create_task, dispatch
  <2> QED BY <1>2, <2>1
<1>7. CASE \/ Receive \/ take_ticker \/ park \/ handled \/ Flush \/ disconnect \/ _begin_connection
           \/ UNCHANGED vars
  <2>1. UNCHANGED last_begun
    BY <1>7 DEF Receive, ingest, _coalesce_ticker, take_ticker, park, handled, Flush, flush_ticker, flushed,
       disconnect, _begin_connection, dispatch, vars
  <2> QED BY <1>2, <2>1
<1> QED
  BY <1>2, <1>4, <1>5, <1>6, <1>7 DEF Next, Consume, RunTrade

-----------------------------------------------------------------------------
\* The market side keeps its invariant: what waits, waits in the order it
\* arrived, from the socket to the gate.
THEOREM DispatchInvariant == Spec => []DispatchInv
  BY DispatchInit, DispatchStep, PTL DEF Spec

\* The queue never exceeds _INGEST_QUEUE_MAX, nor the slots
\* _TRADE_DISPATCH_CONCURRENCY (_ingest_raw, _dispatch_trade_concurrent).
THEOREM DispatchIsTyped == Spec => []TypeOK
<1>1. DispatchInv => TypeOK
  BY DEF DispatchInv
<1> QED BY <1>1, DispatchInvariant, PTL

\* Every message is counted once, the newest update of a market is shown or
\* pending, and a parked consumer has nothing to wait for (_coalesce_ticker,
\* ingest_metrics).
THEOREM MessagesAreNotLost == Spec => []NothingIsLost
<1>1. DispatchInv => NothingIsLost
  BY DEF DispatchInv
<1> QED BY <1>1, DispatchInvariant, PTL

\* A slot that is neither free nor held by a task was leaked by one that its
\* connection's end cancelled before it started (run, _run_trade_item).
THEOREM SlotsAreAccounted == Spec => [](free + Len(tasks) + leaked = Slots)
<1>1. DispatchInv => free + Len(tasks) + leaked = Slots
  BY DEF DispatchInv, SlotsInv
<1> QED BY <1>1, DispatchInvariant, PTL

\* Of one market's trades one is handled at a time, and they begin in the order
\* they arrived (_TickerDispatchGate, _consume_market_from).
THEOREM TurnsAreKept == Spec => TradesKeepTheirTurn
<1>1. DispatchInv' => OneHandlerPerTicker'
  BY OneIsFirst, PTL
<1>2. DispatchInv /\ [Next]_vars =>
        [/\ OneHandlerPerTicker'
         /\ \A m \in Markets : last_begun'[m] # last_begun[m] => last_begun'[m] > last_begun[m]]_vars
  BY <1>1, DispatchStep, BegunInOrder
<1> QED
  BY <1>2, DispatchInvariant, PTL DEF Spec, TradesKeepTheirTurn
=============================================================================
