---------------------------- MODULE OperationsProofs --------------------------
(******************************************************************************)
(* Theorems about Operations, for any requests, tiers, tickers, categories,   *)
(* faults, stores and threads, bounds, intervals and scenarios: the rate of   *)
(* the REST client, the alerts, the guards that survive a restart, and what   *)
(* is counted. Each part of the program is proved alone; what the others do   *)
(* leaves its state as it is.                                                 *)
(******************************************************************************)
EXTENDS Operations, FiniteSetTheorems, SequenceTheorems, WellFoundedInduction, TLAPS

-------------------------------------------------------------------------------
(* Least elements stand in for induction, here over the sums of a sequence.   *)

(* A set of numbers has a least one. *)
LEMMA Least ==
  ASSUME NEW T, T \subseteq Nat, T # {}
  PROVE  \E x \in T : \A y \in T : x <= y
<1>1. IsWellFoundedOn(OpToRel(<, Nat), Nat)
  BY NatLessThanWellFounded
<1>2. PICK x \in T : \A y \in T : ~(<<y, x>> \in OpToRel(<, Nat))
  BY <1>1, WFMin
<1>3. \A y \in T : ~(y < x)
  BY <1>2 DEF OpToRel
<1> QED BY <1>3

-------------------------------------------------------------------------------
(* Sums. The partial sums of a sequence are a table that exists, is the only   *)
(* one, and grows by one entry with the sequence.                             *)

Sums(numbers, n, f) == f = [i \in 0..n |-> IF i = 0 THEN 0 ELSE f[i - 1] + numbers[i]]

LEMMA SumsGrow ==
  ASSUME NEW numbers, NEW n \in Nat, NEW f, Sums(numbers, n, f)
  PROVE  f[0] = 0 /\ \A k \in 1..n : f[k] = f[k - 1] + numbers[k]
<1>1. f[0] = 0
  BY DEF Sums
<1>2. ASSUME NEW k \in 1..n PROVE f[k] = f[k - 1] + numbers[k]
  <2>1. k \in 0..n /\ k # 0
    OBVIOUS
  <2> QED BY <2>1 DEF Sums
<1> QED BY <1>1, <1>2

LEMMA SumsExist == ASSUME NEW numbers, NEW m \in Nat PROVE \E f : Sums(numbers, m, f)
<1> DEFINE Without == {n \in Nat : ~ \E f : Sums(numbers, n, f)}
<1> SUFFICES ASSUME Without # {} PROVE FALSE
  OBVIOUS
<1>1. PICK n \in Without : \A y \in Without : n <= y
  BY Least
<1>2. Sums(numbers, 0, [i \in 0..0 |-> 0])
  BY DEF Sums
<1>3. PICK f : Sums(numbers, n - 1, f)
  BY <1>1, <1>2
<1> DEFINE g == [i \in 0..n |-> IF i = n THEN f[n - 1] + numbers[n] ELSE f[i]]
<1>4. n \in Nat /\ n # 0 /\ n - 1 \in Nat
  BY <1>1, <1>2
<1>5. f[0] = 0 /\ \A k \in 1..n - 1 : f[k] = f[k - 1] + numbers[k]
  BY <1>3, <1>4, SumsGrow
<1>6. ASSUME NEW i \in 0..n PROVE g[i] = IF i = 0 THEN 0 ELSE g[i - 1] + numbers[i]
  <2>1. CASE i = 0
    BY <1>4, <1>5, <2>1
  <2>2. CASE i = n
    BY <1>4, <2>2
  <2>3. CASE i # 0 /\ i # n
    <3>1. i \in 1..n - 1 /\ i - 1 \in 0..n /\ i - 1 # n
      BY <1>4, <2>3
    <3> QED BY <1>5, <2>3, <3>1
  <2> QED BY <2>1, <2>2, <2>3
<1>7. g = [i \in 0..n |-> g[i]]
  OBVIOUS
<1> HIDE DEF g
<1>8. Sums(numbers, n, g)
  BY <1>6, <1>7 DEF Sums
<1> QED BY <1>1, <1>8

LEMMA SumsAgree ==
  ASSUME NEW a, NEW b, NEW n \in Nat, NEW m \in Nat, n <= m, \A i \in 1..n : a[i] = b[i],
         NEW f, Sums(a, n, f), NEW g, Sums(b, m, g), NEW k \in 0..n
  PROVE  f[k] = g[k]
<1> DEFINE Different == {i \in 0..n : f[i] # g[i]}
<1> SUFFICES ASSUME Different # {} PROVE FALSE
  OBVIOUS
<1>1. PICK i \in Different : \A y \in Different : i <= y
  <2>1. Different \subseteq Nat
    OBVIOUS
  <2> HIDE DEF Different
  <2> QED BY <2>1, Least
<1>2. i # 0
  BY <1>1 DEF Sums
<1>3. i - 1 \in 0..n /\ i \in 1..n /\ i \in 1..m
  BY <1>1, <1>2
<1>4. f[i - 1] = g[i - 1]
  BY <1>1, <1>3
<1>5. f[i] = f[i - 1] + a[i] /\ g[i] = g[i - 1] + b[i]
  BY <1>2, <1>3 DEF Sums
<1> QED BY <1>1, <1>3, <1>4, <1>5

LEMMA SumsAreInts ==
  ASSUME NEW a, NEW n \in Nat, \A i \in 1..n : a[i] \in Int, NEW f, Sums(a, n, f), NEW k \in 0..n
  PROVE  f[k] \in Int
<1> DEFINE Odd == {i \in 0..n : f[i] \notin Int}
<1> SUFFICES ASSUME Odd # {} PROVE FALSE
  OBVIOUS
<1>1. PICK i \in Odd : \A y \in Odd : i <= y
  <2>1. Odd \subseteq Nat
    OBVIOUS
  <2> HIDE DEF Odd
  <2> QED BY <2>1, Least
<1>2. i # 0
  BY <1>1 DEF Sums
<1>3. i - 1 \in 0..n /\ i \in 1..n
  BY <1>1, <1>2
<1>4. f[i - 1] \in Int
  BY <1>1, <1>3
<1>5. f[i] = f[i - 1] + a[i]
  BY <1>2, <1>3 DEF Sums
<1> QED BY <1>1, <1>3, <1>4, <1>5

LEMMA TotalIsLastSum ==
  ASSUME NEW numbers, Len(numbers) \in Nat
  PROVE  \E f : Sums(numbers, Len(numbers), f) /\ SumOfAll(numbers) = f[Len(numbers)]
<1> DEFINE f == CHOOSE g : Sums(numbers, Len(numbers), g)
<1>1. Sums(numbers, Len(numbers), f)
  BY SumsExist
<1>2. SumOfAll(numbers) = f[Len(numbers)]
  BY DEF SumOfAll, Sums
<1> QED BY <1>1, <1>2

LEMMA TotalAppends ==
  ASSUME NEW numbers \in Seq(Int), NEW x \in Int
  PROVE  SumOfAll(numbers) \in Int /\ SumOfAll(Append(numbers, x)) = SumOfAll(numbers) + x
<1> DEFINE n == Len(numbers)
           more == Append(numbers, x)
<1>1. n \in Nat /\ Len(more) = n + 1 /\ more[n + 1] = x /\ (\A i \in 1..n : numbers[i] \in Int /\ more[i] = numbers[i])
  BY LenProperties, AppendProperties, ElementOfSeq
<1> HIDE DEF more, n
<1>2. PICK f : Sums(numbers, n, f) /\ SumOfAll(numbers) = f[n]
  BY <1>1, TotalIsLastSum DEF n
<1>3. PICK g : Sums(more, n + 1, g) /\ SumOfAll(more) = g[n + 1]
  BY <1>1, TotalIsLastSum
<1>4. f[n] = g[n]
  BY <1>1, <1>2, <1>3, SumsAgree
<1>5. f[n] \in Int
  BY <1>1, <1>2, SumsAreInts
<1>6. g[n + 1] = g[n] + more[n + 1]
  <2>1. n + 1 \in 1..n + 1 /\ n + 1 - 1 = n
    BY <1>1
  <2> QED BY <1>1, <1>3, <2>1, SumsGrow
<1> QED BY <1>1, <1>2, <1>3, <1>4, <1>5, <1>6 DEF more

LEMMA TotalOfNone == SumOfAll(<< >>) = 0
<1>1. Len(<< >>) = 0
  OBVIOUS
<1>2. PICK f : Sums(<< >>, 0, f) /\ SumOfAll(<< >>) = f[0]
  BY <1>1, TotalIsLastSum
<1> QED BY <1>2 DEF Sums

(* A sequence that differs from another in one entry differs in its sum by it. *)
LEMMA TotalDiffers ==
  ASSUME NEW a \in Seq(Int), NEW b \in Seq(Int), Len(b) = Len(a), NEW j \in 1..Len(a),
         \A i \in 1..Len(a) : i # j => b[i] = a[i]
  PROVE  SumOfAll(b) = SumOfAll(a) + (b[j] - a[j])
<1> DEFINE n == Len(a)
<1>1. n \in Nat /\ \A i \in 1..n : a[i] \in Int /\ b[i] \in Int
  BY LenProperties, ElementOfSeq
<1>2. PICK f : Sums(a, n, f) /\ SumOfAll(a) = f[n]
  BY <1>1, TotalIsLastSum
<1>3. PICK g : Sums(b, n, g) /\ SumOfAll(b) = g[n]
  BY <1>1, TotalIsLastSum
<1>4. \A k \in 0..n : f[k] \in Int /\ g[k] \in Int
  BY <1>1, <1>2, <1>3, SumsAreInts
<1>5. \A k \in 1..n : f[k] = f[k - 1] + a[k] /\ g[k] = g[k - 1] + b[k]
  BY <1>1, <1>2, <1>3, SumsGrow
<1>6. f[0] = 0 /\ g[0] = 0
  BY <1>1, <1>2, <1>3, SumsGrow
<1>9. b[j] - a[j] \in Int
  BY <1>1
<1> DEFINE Odd == {k \in 0..n : g[k] # f[k] + IF k < j THEN 0 ELSE b[j] - a[j]}
<1>7. ASSUME Odd # {} PROVE FALSE
  <2>1. PICK k \in Odd : \A y \in Odd : k <= y
    <3>1. Odd \subseteq Nat
      OBVIOUS
    <3> HIDE DEF Odd
    <3> QED BY <1>7, <3>1, Least
  <2>2. k # 0
    BY <1>1, <1>6, <2>1
  <2>3. k - 1 \in 0..n /\ k \in 1..n
    BY <1>1, <2>1, <2>2
  <2>4. g[k - 1] = f[k - 1] + IF k - 1 < j THEN 0 ELSE b[j] - a[j]
    BY <1>1, <2>1, <2>3
  <2>5. g[k] = f[k] + IF k < j THEN 0 ELSE b[j] - a[j]
    <3>1. f[k - 1] \in Int /\ f[k] = f[k - 1] + a[k] /\ g[k] = g[k - 1] + b[k] /\ a[k] \in Int /\ b[k] \in Int /\ a[j] \in Int /\ b[j] \in Int
      BY <1>1, <1>4, <1>5, <2>3
    <3>2. CASE k < j
      <4>1. k - 1 < j /\ b[k] = a[k] /\ f[k - 1] + 0 = f[k - 1]
        BY <2>3, <3>1, <3>2
      <4>2. g[k - 1] = f[k - 1]
        BY <2>4, <4>1
      <4>3. g[k] = f[k]
        BY <3>1, <4>1, <4>2
      <4>4. f[k] \in Int
        BY <1>4, <2>3
      <4> QED BY <3>2, <4>3, <4>4
    <3>3. CASE k = j
      <4>1. k - 1 < j /\ ~(k < j)
        BY <2>3, <3>3
      <4> DEFINE x == f[k - 1]
                 c == a[j]
                 d == b[j]
      <4>2. g[k - 1] = x
        BY <2>4, <3>1, <4>1
      <4>3. x \in Int /\ c \in Int /\ d \in Int /\ f[k] = x + c /\ g[k] = x + d
        BY <3>1, <3>3, <4>2
      <4> HIDE DEF x, c, d
      <4>4. x + d = (x + c) + (d - c)
        BY <4>3
      <4> QED BY <4>1, <4>3, <4>4 DEF c, d
    <3>4. CASE k > j
      <4>1. ~(k - 1 < j) /\ ~(k < j) /\ b[k] = a[k]
        BY <2>3, <3>4
      <4> DEFINE x == f[k - 1]
                 y == g[k - 1]
                 d == b[j] - a[j]
                 c == a[k]
      <4>2. y = x + d
        BY <2>4, <4>1
      <4>3. x \in Int /\ y \in Int /\ d \in Int /\ c \in Int
        <5>1. x \in Int /\ y \in Int
          BY <1>4, <2>3
        <5>2. d \in Int
          BY <1>9
        <5>3. c \in Int
          BY <1>1, <2>3
        <5> QED BY <5>1, <5>2, <5>3
      <4>4. f[k] = x + c /\ g[k] = y + c
        BY <3>1, <4>1
      <4> HIDE DEF x, y, d, c
      <4>5. y + c = (x + c) + d
        BY <4>2, <4>3
      <4>6. g[k] = f[k] + d
        BY <4>4, <4>5
      <4> QED BY <4>1, <4>6 DEF d
    <3> QED BY <2>3, <3>2, <3>3, <3>4
  <2> QED BY <2>1, <2>5
<1>8. g[n] = f[n] + (b[j] - a[j])
  <2>1. n \in 0..n /\ ~(n < j)
    BY <1>1
  <2>3. n \notin Odd
    <3> HIDE DEF Odd
    <3> QED BY <1>7
  <2>2. g[n] = f[n] + IF n < j THEN 0 ELSE b[j] - a[j]
    BY <2>1, <2>3
  <2> QED BY <2>1, <2>2
<1> QED BY <1>2, <1>3, <1>8

(* Where nothing counts, the sum is nothing; where one entry counts, it is it. *)
LEMMA TotalOfZeros ==
  ASSUME NEW a \in Seq(Int), \A i \in 1..Len(a) : a[i] = 0
  PROVE  SumOfAll(a) = 0
<1> DEFINE n == Len(a)
<1>1. n \in Nat
  BY LenProperties
<1>2. PICK f : Sums(a, n, f) /\ SumOfAll(a) = f[n]
  BY <1>1, TotalIsLastSum
<1> DEFINE Odd == {k \in 0..n : f[k] # 0}
<1>3. ASSUME Odd # {} PROVE FALSE
  <2>1. PICK k \in Odd : \A y \in Odd : k <= y
    <3>1. Odd \subseteq Nat
      OBVIOUS
    <3> HIDE DEF Odd
    <3> QED BY <1>3, <3>1, Least
  <2>2. k # 0
    BY <1>1, <1>2, <2>1 DEF Sums
  <2>3. k - 1 \in 0..n /\ k \in 1..n
    BY <1>1, <2>1, <2>2
  <2>4. f[k - 1] = 0
    BY <1>1, <2>1, <2>3
  <2>5. f[k] = f[k - 1] + a[k] /\ a[k] = 0
    BY <1>1, <1>2, <2>3, SumsGrow
  <2> QED BY <2>1, <2>4, <2>5
<1> QED BY <1>1, <1>2, <1>3

LEMMA TotalOfOne ==
  ASSUME NEW a \in Seq(Int), NEW j \in 1..Len(a), \A i \in 1..Len(a) : i # j => a[i] = 0
  PROVE  SumOfAll(a) = a[j]
<1> DEFINE zeros == [i \in 1..Len(a) |-> 0]
<1>1. Len(a) \in Nat /\ a[j] \in Int
  BY LenProperties, ElementOfSeq
<1>2. zeros \in Seq(Int) /\ Len(zeros) = Len(a) /\ \A i \in 1..Len(a) : zeros[i] = 0
  BY <1>1, IsASeq
<1> HIDE DEF zeros
<1>3. SumOfAll(zeros) = 0
  BY <1>2, TotalOfZeros
<1>4. SumOfAll(a) = SumOfAll(zeros) + (a[j] - zeros[j])
  <2>1. \A i \in 1..Len(zeros) : i # j => a[i] = zeros[i]
    BY <1>2
  <2>2. j \in 1..Len(zeros) /\ Len(a) = Len(zeros)
    BY <1>2
  <2> QED BY <1>2, <2>1, <2>2, TotalDiffers
<1>5. zeros[j] = 0
  BY <1>2
<1>6. SumOfAll(a) = 0 + (a[j] - 0)
  BY <1>3, <1>4, <1>5
<1> QED BY <1>1, <1>6

-------------------------------------------------------------------------------
(* The token bucket. A request that left was paid for out of what the bucket  *)
(* held and refilled since: what remains in it is what nobody has spent.      *)

Tokens == [tokens : 0..Burst, last : Nat, queue : Seq(Requests), grants : Seq(Nat)]
Paid(tokens, last, grants) ==
  \A i \in 1..Len(grants) :
    /\ grants[i] <= last
    /\ (Len(grants) - i + 1) * Unit + tokens <= Burst + last - grants[i]

RateInv ==
  /\ now \in Nat /\ limiter \in Tokens /\ limiter.last <= now
  /\ Paid(limiter.tokens, limiter.last, limiter.grants)
  /\ RateKept

(* One more token is one more Unit. *)
LEMMA NextUnit == ASSUME NEW k \in Int PROVE k * Unit \in Int /\ (k + 1) * Unit = k * Unit + Unit
  BY RestAssumption

(* What a bucket may still grant shrinks by what it grants and grows by what   *)
(* it refills.                                                                *)
LEMMA GrantIsPaid ==
  ASSUME NEW tokens \in Nat, NEW last \in Nat, NEW grants \in Seq(Nat), Paid(tokens, last, grants),
         NEW at \in Nat, last <= at, NEW held \in Nat, held <= Burst, held <= tokens + (at - last)
  PROVE  /\ Paid(held, at, grants)
         /\ held >= Unit => Paid(held - Unit, at, Append(grants, at))
<1> DEFINE n == Len(grants)
<1>1. n \in Nat /\ \A i \in 1..n : grants[i] \in Nat
  BY ElementOfSeq, LenProperties
<1>2. ASSUME NEW i \in 1..n
      PROVE  /\ (n - i + 1) * Unit \in Int /\ grants[i] \in Nat /\ grants[i] <= at
             /\ (n - i + 1) * Unit + held <= Burst + at - grants[i]
  <2> DEFINE spent == (n - i + 1) * Unit
  <2>1. spent \in Int
    BY <1>1, NextUnit
  <2>2. grants[i] <= last /\ spent + tokens <= Burst + last - grants[i]
    BY DEF Paid
  <2> HIDE DEF spent
  <2>3. grants[i] \in Nat /\ Burst \in Nat /\ grants[i] \in Int /\ Burst \in Int
    BY <1>1, RestAssumption
  <2>4. grants[i] <= at
    BY <2>2, <2>3
  <2>5. \A s, b, g \in Int : s + tokens <= b + last - g => s + held <= b + at - g
    OBVIOUS
  <2>7. spent + held <= Burst + at - grants[i]
    BY <2>1, <2>2, <2>3, <2>5, Zenon
  <2> QED BY <2>1, <2>3, <2>4, <2>7 DEF spent
<1>3. Paid(held, at, grants)
  BY <1>2 DEF Paid
<1>4. ASSUME held >= Unit PROVE Paid(held - Unit, at, Append(grants, at))
  <2> DEFINE more == Append(grants, at)
  <2>1. Len(more) = n + 1 /\ more[n + 1] = at /\ \A i \in 1..n : more[i] = grants[i]
    BY <1>1, AppendProperties
  <2> SUFFICES ASSUME NEW i \in 1..n + 1
               PROVE  /\ more[i] <= at
                      /\ (n + 1 - i + 1) * Unit + (held - Unit) <= Burst + at - more[i]
    BY <2>1 DEF Paid
  <2>2. CASE i = n + 1
    <3>1. (n + 1 - i + 1) * Unit = Unit
      BY <1>1, <2>2, RestAssumption
    <3> QED BY <2>1, <2>2, <3>1, RestAssumption
  <2>3. CASE i \in 1..n
    <3> DEFINE spent == (n - i + 1) * Unit
    <3>1. (n - i + 1) \in Int /\ n + 1 - i + 1 = (n - i + 1) + 1
      BY <1>1
    <3>2. spent \in Int /\ (n + 1 - i + 1) * Unit = spent + Unit
      BY <3>1, NextUnit
    <3>3. grants[i] \in Nat /\ grants[i] <= at /\ spent + held <= Burst + at - grants[i] /\ more[i] = grants[i]
      BY <1>2, <2>1, <2>3
    <3> HIDE DEF spent, more
    <3>4. Unit \in Int /\ Burst \in Int
      BY RestAssumption
    <3>5. (spent + Unit) + (held - Unit) = spent + held
      BY <3>2, <3>4
    <3> QED BY <3>2, <3>3, <3>5
  <2> QED BY <1>1, <2>2, <2>3
<1> QED BY <1>3, <1>4

(* A bucket that has paid for everything leaves no stretch of time overspent:  *)
(* the pairs that end in the last grant follow from what is left.             *)
LEMMA PaidIsKept ==
  ASSUME NEW tokens \in Nat, NEW last \in Nat, NEW grants \in Seq(Nat), NEW at \in Nat, NEW i \in 1..Len(grants) + 1,
         Paid(tokens, at, Append(grants, at))
  PROVE  (Len(grants) + 1 - i + 1) * Unit <= Burst + at - Append(grants, at)[i]
<1> DEFINE more == Append(grants, at)
           spent == (Len(grants) + 1 - i + 1) * Unit
<1>1. Len(grants) \in Nat /\ Len(more) = Len(grants) + 1 /\ more \in Seq(Nat)
  BY AppendProperties, LenProperties
<1>2. more[i] \in Nat /\ spent \in Int
  <2>1. i \in 1..Len(more) /\ Len(grants) + 1 - i + 1 \in Int
    BY <1>1
  <2>2. spent \in Int
    BY <2>1, NextUnit
  <2> HIDE DEF more
  <2>3. more[i] \in Nat
    BY <1>1, <2>1, ElementOfSeq
  <2> QED BY <2>2, <2>3
<1>3. spent + tokens <= Burst + at - more[i]
  <2>1. i \in 1..Len(more) /\ spent = (Len(more) - i + 1) * Unit
    BY <1>1
  <2> HIDE DEF more, spent
  <2> QED BY <1>1, <2>1 DEF Paid, more
<1> HIDE DEF more, spent
<1>4. spent <= Burst + at - more[i]
  BY <1>2, <1>3, RestAssumption
<1> QED BY <1>4 DEF more, spent

-------------------------------------------------------------------------------
(* Who moves the clock: nobody but the tick. *)

LEMMA AlertingTakesNoTime == AlertingNext => now' = now
BY DEF AlertingNext, condition_changes, check_and_alert, resolve_alert, task_ends, task_crashes, task_restarts
LEMMA BackupTakesNoTime == BackupNext => now' = now
BY DEF BackupNext, maybe_run_backup, run_backup_now, begins, backup_one_file, finish_cycle
LEMMA ShadowTakesNoTime == ShadowNext => now' = now
BY DEF ShadowNext, evaluate_shadow, resume_shadow, clear_shadow
LEMMA TelemetryTakesNoTime == TelemetryNext => now' = now
BY DEF TelemetryNext, fault_occurs, prune_faults, stall, record_book, record_game, buffered, flush_swaps, flush_writes
LEMMA CoordinationTakesNoTime == CoordinationNext => now' = now
BY DEF CoordinationNext, work, run_coordination_cycle, run_detect_cycle
LEMMA RequestsTakeNoTime == RestNext => now' = now
BY DEF RestNext, acquire, start_request, answered, refused, rate_limited, retry, cancel_request

LEMMA ClockStep == [Next]_vars => now' = now \/ now' = now + 1
<1> SUFFICES ASSUME [Next]_vars PROVE now' = now \/ now' = now + 1
  OBVIOUS
<1>1. CASE rest
  BY <1>1, RequestsTakeNoTime DEF rest
<1>2. CASE alerting
  BY <1>2, AlertingTakesNoTime DEF alerting
<1>3. CASE backup
  BY <1>3, BackupTakesNoTime DEF backup
<1>4. CASE trade_shadow
  BY <1>4, ShadowTakesNoTime DEF trade_shadow
<1>5. CASE observe
  BY <1>5, TelemetryTakesNoTime DEF observe
<1>6. CASE coordinate
  BY <1>6, CoordinationTakesNoTime DEF coordinate
<1>7. CASE sample
  BY <1>7 DEF sample, maybe_capture
<1>8. CASE tick \/ restart
  BY <1>8 DEF tick, restart
<1>9. CASE UNCHANGED vars
  BY <1>9 DEF vars
<1> QED BY <1>1, <1>2, <1>3, <1>4, <1>5, <1>6, <1>7, <1>8, <1>9 DEF Next

(* A step takes the requests on, starts the process again, or leaves the       *)
(* bucket, the requests and their counts alone.                               *)
LEMMA RestOwnsItsState ==
  [Next]_vars => \/ RestNext
                 \/ restart_rest /\ now' = now
                 \/ UNCHANGED <<limiter, request, counted>>
<1> SUFFICES ASSUME [Next]_vars, ~RestNext, ~(restart_rest /\ now' = now) PROVE UNCHANGED <<limiter, request, counted>>
  OBVIOUS
<1>1. CASE coordinate \/ alerting \/ backup \/ trade_shadow \/ observe \/ tick
  BY <1>1 DEF coordinate, alerting, backup, trade_shadow, observe, tick, restVars
<1>2. CASE sample \/ UNCHANGED vars
  BY <1>2 DEF sample, vars, restVars
<1> QED BY <1>1, <1>2 DEF Next, rest, restart

-------------------------------------------------------------------------------
(* A sequence without its i-th element: what followed it moves up. *)
LEMMA Removed ==
  ASSUME NEW S, NEW s \in Seq(S), NEW i \in 1..Len(s)
  PROVE  /\ RemoveAt(s, i) \in Seq(S)
         /\ Len(RemoveAt(s, i)) = Len(s) - 1
         /\ \A k \in 1..Len(s) - 1 : RemoveAt(s, i)[k] = IF k < i THEN s[k] ELSE s[k + 1]
<1> DEFINE before == SubSeq(s, 1, i - 1)
           after == SubSeq(s, i + 1, Len(s))
<1>1. Len(s) \in Nat /\ \A k \in 1..Len(s) : s[k] \in S
  BY LenProperties
<1>2. before \in Seq(S) /\ Len(before) = i - 1 /\ \A k \in 1..i - 1 : before[k] = s[k]
  BY <1>1, SubSeqProperties
<1>3. after \in Seq(S) /\ Len(after) = Len(s) - i /\ \A k \in 1..Len(s) - i : after[k] = s[i + k]
  BY <1>1, SubSeqProperties
<1> HIDE DEF before, after
<1>4. /\ before \o after \in Seq(S) /\ Len(before \o after) = Len(before) + Len(after)
      /\ \A k \in 1..Len(before) + Len(after) :
           (before \o after)[k] = IF k <= Len(before) THEN before[k] ELSE after[k - Len(before)]
  BY <1>2, <1>3, ConcatProperties
<1>5. Len(before \o after) = Len(s) - 1
  BY <1>1, <1>2, <1>3, <1>4
<1>6. ASSUME NEW k \in 1..Len(s) - 1 PROVE (before \o after)[k] = IF k < i THEN s[k] ELSE s[k + 1]
  <2>1. k \in 1..Len(before) + Len(after)
    BY <1>1, <1>2, <1>3
  <2>2. CASE k < i
    <3>1. k <= Len(before) /\ k \in 1..i - 1
      BY <1>1, <1>2, <2>2
    <3> QED BY <1>2, <1>4, <2>1, <2>2, <3>1
  <2>3. CASE ~(k < i)
    <3> DEFINE j == k - (i - 1)
    <3>1. j \in 1..Len(s) - i /\ i + j = k + 1 /\ ~(k <= Len(before)) /\ j = k - Len(before)
      BY <1>1, <1>2, <2>3
    <3> HIDE DEF j
    <3> QED BY <1>3, <1>4, <2>1, <2>3, <3>1
  <2> QED BY <2>2, <2>3
<1> QED BY <1>4, <1>5, <1>6 DEF RemoveAt, before, after

(* Without a request that waits once, at place i, the queue is the one without *)
(* that place; without one that does not wait, it is as it was.               *)
LEMMA LeftQueue ==
  ASSUME NEW queue \in Seq(Requests), NEW r
  PROVE  \/ /\ WithoutRequest(queue, r) = queue
            /\ \A i \in 1..Len(queue) : queue[i] # r
         \/ \E i \in 1..Len(queue) : queue[i] = r /\ WithoutRequest(queue, r) = RemoveAt(queue, i)
<1>1. CASE PlacesOf(queue, r) = {}
  BY <1>1 DEF WithoutRequest, PlacesOf
<1>2. CASE PlacesOf(queue, r) # {}
  <2> DEFINE i == CHOOSE j \in PlacesOf(queue, r) : TRUE
  <2>1. i \in PlacesOf(queue, r) /\ WithoutRequest(queue, r) = RemoveAt(queue, i)
    BY <1>2 DEF WithoutRequest
  <2> HIDE DEF i
  <2> QED BY <2>1 DEF PlacesOf
<1> QED BY <1>1, <1>2

-------------------------------------------------------------------------------
LEMMA FullBucket ==
  ASSUME now \in Nat, limiter = FreshLimiter
  PROVE  RateInv
<1>1. limiter \in Tokens /\ limiter.last = now /\ limiter.grants = << >> /\ limiter.tokens = Burst
  BY RestAssumption DEF FreshLimiter, Tokens
<1>2. Len(limiter.grants) = 0
  BY <1>1
<1> QED BY <1>1, <1>2 DEF RateInv, Paid, RateKept

LEMMA FullBucketAgain ==
  ASSUME now \in Nat, now' = now, limiter' = FreshLimiter
  PROVE  RateInv'
<1>1. limiter' \in Tokens /\ limiter'.last = now' /\ limiter'.grants = << >> /\ limiter'.tokens = Burst
  BY RestAssumption DEF FreshLimiter, Tokens
<1>2. Len(limiter'.grants) = 0
  BY <1>1
<1> QED BY <1>1, <1>2 DEF RateInv, Paid, RateKept

LEMMA RateStarts == Init => RateInv
<1> SUFFICES ASSUME Init PROVE RateInv
  OBVIOUS
<1>1. now = 0 /\ limiter = FreshLimiter
  BY DEF Init, RestInit
<1> QED BY <1>1, FullBucket

(* Whatever a step does to the queue, the bucket has paid. *)
LEMMA QueueIsNoMatter ==
  ASSUME RateInv, NEW queue \in Seq(Requests), limiter' = [limiter EXCEPT !.queue = queue], now' \in Nat, limiter.last <= now'
  PROVE  RateInv'
BY DEF RateInv, Tokens, RateKept

LEMMA BucketIsKept ==
  ASSUME RateInv, now' \in Nat, now <= now', limiter' = limiter
  PROVE  RateInv'
<1>1. limiter'.last <= now'
  BY DEF RateInv, Tokens
<1> QED BY <1>1 DEF RateInv, RateKept

LEMMA AcquireKeepsRate == ASSUME RateInv, acquire PROVE RateInv'
<1> DEFINE r == Head(limiter.queue)
           tokens == limiter.tokens
           last == limiter.last
           grants == limiter.grants
<1>1. /\ now \in Nat /\ now' = now /\ tokens \in 0..Burst /\ Burst \in Nat /\ Unit \in Nat
      /\ last \in Nat /\ last <= now /\ grants \in Seq(Nat) /\ limiter.queue \in Seq(Requests)
      /\ Paid(tokens, last, grants)
  BY RestAssumption DEF RateInv, Tokens, acquire
<1>2. refilled \in 0..Burst /\ refilled <= tokens + (now - last)
  BY <1>1 DEF refilled
<1>3. /\ Paid(refilled, now, grants)
      /\ refilled >= Unit => Paid(refilled - Unit, now, Append(grants, now))
  <2> HIDE DEF tokens, last, grants
  <2> QED BY <1>1, <1>2, GrantIsPaid
<1>4. CASE refilled >= Unit /\ limiter' = [tokens |-> refilled - Unit, last |-> now, queue |-> Tail(limiter.queue), grants |-> Append(grants, now)]
  <2>1. Tail(limiter.queue) \in Seq(Requests)
    BY <1>1, HeadTailProperties DEF acquire
  <2>2. Append(grants, now) \in Seq(Nat) /\ Len(Append(grants, now)) = Len(grants) + 1
        /\ \A i \in 1..Len(grants) : Append(grants, now)[i] = grants[i]
        /\ Append(grants, now)[Len(grants) + 1] = now /\ Len(grants) \in Nat
    BY <1>1, AppendProperties, LenProperties
  <2>3. limiter' \in Tokens /\ limiter'.last <= now'
    BY <1>1, <1>2, <1>4, <2>1, <2>2 DEF Tokens
  <2>4. Paid(limiter'.tokens, limiter'.last, limiter'.grants)
    BY <1>3, <1>4
  <2>5. ASSUME NEW i \in 1..Len(grants) + 1, NEW j \in 1..Len(grants) + 1, i <= j
        PROVE  (j - i + 1) * Unit <= Burst + Append(grants, now)[j] - Append(grants, now)[i]
    <3>1. CASE j = Len(grants) + 1
      <4>1. refilled - Unit \in Nat
        BY <1>1, <1>2, <1>4
      <4>2. (Len(grants) + 1 - i + 1) * Unit <= Burst + now - Append(grants, now)[i]
        BY <1>1, <1>3, <1>4, <4>1, PaidIsKept
      <4>3. Append(grants, now)[j] = now
        BY <2>2, <3>1
      <4> QED BY <3>1, <4>2, <4>3
    <3>2. CASE j # Len(grants) + 1
      <4>1. i \in 1..Len(grants) /\ j \in 1..Len(grants)
        BY <2>2, <2>5, <3>2, SMTT(20)
      <4>2. (j - i + 1) * Unit <= Burst + grants[j] - grants[i]
        BY <2>5, <4>1 DEF RateInv, RateKept
      <4> QED BY <2>2, <4>1, <4>2
    <3> QED BY <3>1, <3>2
  <2>6. RateKept'
    BY <1>4, <2>2, <2>5 DEF RateKept
  <2> QED BY <1>1, <2>3, <2>4, <2>6 DEF RateInv
<1>5. CASE refilled < Unit /\ limiter' = [limiter EXCEPT !.tokens = refilled, !.last = now]
  <2>1. limiter' \in Tokens /\ limiter'.last = now /\ limiter'.tokens = refilled /\ limiter'.grants = grants
    BY <1>1, <1>2, <1>5 DEF Tokens, RateInv
  <2>2. RateKept'
    BY <2>1 DEF RateInv, RateKept
  <2> QED BY <1>1, <1>3, <2>1, <2>2 DEF RateInv
<1> QED BY <1>4, <1>5 DEF acquire

LEMMA RateStep == RateInv /\ [Next]_vars => RateInv'
<1> SUFFICES ASSUME RateInv, [Next]_vars PROVE RateInv'
  OBVIOUS
<1>1. now' \in Nat /\ now <= now' /\ limiter.last <= now' /\ limiter \in Tokens /\ now \in Nat
  BY ClockStep DEF RateInv, Tokens
<1>2. limiter.queue \in Seq(Requests)
  BY <1>1 DEF Tokens
<1>3. CASE restart_rest /\ now' = now
  BY <1>1, <1>3, FullBucketAgain DEF restart_rest
<1>4. CASE UNCHANGED limiter
  BY <1>1, <1>4, BucketIsKept
<1>5. CASE acquire
  BY <1>5, AcquireKeepsRate
<1>6. ASSUME NEW r \in Requests, start_request(r) \/ retry(r) PROVE RateInv'
  <2>1. limiter' = [limiter EXCEPT !.queue = Append(limiter.queue, r)]
    BY <1>6 DEF start_request, retry
  <2>2. Append(limiter.queue, r) \in Seq(Requests)
    BY <1>2, AppendProperties
  <2> QED BY <1>1, <2>1, <2>2, QueueIsNoMatter
<1>7. ASSUME NEW r \in Requests, answered(r) \/ refused(r) \/ rate_limited(r) PROVE RateInv'
  BY <1>4, <1>7 DEF answered, refused, rate_limited
<1>8. ASSUME NEW r \in Requests, cancel_request(r) PROVE RateInv'
  <2>1. limiter' = [limiter EXCEPT !.queue = WithoutRequest(limiter.queue, r)]
    BY <1>8 DEF cancel_request
  <2>2. WithoutRequest(limiter.queue, r) \in Seq(Requests)
    BY <1>2, LeftQueue, Removed
  <2> QED BY <1>1, <2>1, <2>2, QueueIsNoMatter
<1> QED BY <1>3, <1>4, <1>5, <1>6, <1>7, <1>8, RestOwnsItsState DEF RestNext

(* No stretch of time sees more requests leave than the bucket held and        *)
(* refilled in it: _RateLimiter over any requests, queues, delays, retries,    *)
(* cancellations and restarts.                                                *)
THEOREM RateTheorem == Spec => []RateKept
<1>1. RateInv => RateKept
  BY DEF RateInv
<1> QED BY RateStarts, RateStep, <1>1, PTL DEF Spec

-------------------------------------------------------------------------------
(* The two tables of the reports. An attempt is open while its request stands *)
(* at the limiter, is on the network, or was cut short in either.             *)

CountFields == {"calls", "attempts", "rate_limited", "errors", "http_ok", "http_failed", "http_limited"}
Call == [pc : {"new", "limiter", "network", "backoff", "returned", "raised", "key_error", "cancelled", "cut_short"},
         attempt : Int, wake : Int, delay : Int]
Pending == {"limiter", "network", "cut_short"}
Open(calls) == {r \in Requests : calls[r].pc \in Pending}
Weight(pc) == IF pc \in Pending THEN 1 ELSE 0
Outstanding(counts) == counts["attempts"] - (counts["http_ok"] + counts["http_failed"] + counts["http_limited"])
(* Every place of the queue is that of another request, which waits there. *)
InLine(queue, calls) ==
  /\ \A i \in 1..Len(queue) : calls[queue[i]].pc = "limiter"
  /\ \A i, j \in 1..Len(queue) : queue[i] = queue[j] => i = j

AttemptInv ==
  /\ RateInv
  /\ request \in [Requests -> Call] /\ counted \in [CountFields -> Int]
  /\ InLine(limiter.queue, request)
  /\ Outstanding(counted) = Cardinality(Open(request))

LEMMA JoinsLine ==
  ASSUME NEW queue \in Seq(Requests), NEW calls, NEW after, NEW r \in Requests, InLine(queue, calls),
         calls[r].pc # "limiter", after[r].pc = "limiter", \A s \in Requests \ {r} : after[s] = calls[s]
  PROVE  InLine(Append(queue, r), after)
<1> DEFINE more == Append(queue, r)
           n == Len(queue)
<1>1. n \in Nat /\ Len(more) = n + 1 /\ more[n + 1] = r /\ \A i \in 1..n : more[i] = queue[i] /\ queue[i] \in Requests
  BY LenProperties, AppendProperties, ElementOfSeq
<1>2. \A i \in 1..n : queue[i] # r /\ calls[queue[i]].pc = "limiter"
  BY DEF InLine
<1>3. \A i \in 1..n + 1 : i \in 1..n \/ i = n + 1
  BY <1>1
<1> HIDE DEF more
<1>4. \A i \in 1..n + 1 : after[more[i]].pc = "limiter"
  BY <1>1, <1>2, <1>3
<1>5. \A i, j \in 1..n + 1 : more[i] = more[j] => i = j
  BY <1>1, <1>2, <1>3 DEF InLine
<1> QED BY <1>1, <1>4, <1>5 DEF InLine, more

LEMMA LeavesLine ==
  ASSUME NEW queue \in Seq(Requests), NEW calls, NEW after, NEW r, InLine(queue, calls), \A s \in Requests \ {r} : after[s].pc = calls[s].pc
  PROVE  /\ InLine(WithoutRequest(queue, r), after)
         /\ queue # << >> /\ r = Head(queue) => InLine(Tail(queue), after)
<1> DEFINE n == Len(queue)
<1>1. n \in Nat /\ \A i \in 1..n : queue[i] \in Requests
  BY LenProperties, ElementOfSeq
<1>2. ASSUME NEW i \in 1..n, queue[i] = r, NEW less, Len(less) = n - 1, \A k \in 1..n - 1 : less[k] = IF k < i THEN queue[k] ELSE queue[k + 1]
      PROVE  InLine(less, after)
  <2>1. \A k \in 1..n - 1 : (k < i /\ k \in 1..n) \/ (~(k < i) /\ k + 1 \in 1..n /\ k + 1 # i)
    BY <1>1
  <2>2. \A k \in 1..n : k # i => queue[k] # r
    BY <1>2 DEF InLine
  <2>3. \A k \in 1..n - 1 : after[less[k]].pc = "limiter"
    <3> SUFFICES ASSUME NEW k \in 1..n - 1 PROVE after[less[k]].pc = "limiter"
      OBVIOUS
    <3>1. CASE k < i
      <4>1. k \in 1..n /\ k # i /\ less[k] = queue[k]
        BY <1>1, <1>2, <2>1, <3>1
      <4> QED BY <1>1, <2>2, <4>1 DEF InLine
    <3>2. CASE ~(k < i)
      <4>1. k + 1 \in 1..n /\ k + 1 # i /\ less[k] = queue[k + 1]
        BY <1>1, <1>2, <2>1, <3>2
      <4> QED BY <1>1, <2>2, <4>1 DEF InLine
    <3> QED BY <3>1, <3>2
  <2>4. ASSUME NEW k \in 1..n - 1, NEW l \in 1..n - 1, less[k] = less[l] PROVE k = l
    <3> DEFINE p == IF k < i THEN k ELSE k + 1
               q == IF l < i THEN l ELSE l + 1
    <3>1. p \in 1..n /\ q \in 1..n /\ less[k] = queue[p] /\ less[l] = queue[q]
      BY <1>1, <1>2, <2>1
    <3>2. p = q
      <4> HIDE DEF p, q
      <4> QED BY <2>4, <3>1 DEF InLine
    <3> QED BY <1>1, <3>2
  <2> QED BY <1>2, <2>3, <2>4 DEF InLine
<1>3. InLine(WithoutRequest(queue, r), after)
  <2>1. CASE WithoutRequest(queue, r) = queue /\ \A i \in 1..n : queue[i] # r
    BY <1>1, <2>1 DEF InLine
  <2>2. CASE \E i \in 1..n : queue[i] = r /\ WithoutRequest(queue, r) = RemoveAt(queue, i)
    <3>1. PICK i \in 1..n : queue[i] = r /\ WithoutRequest(queue, r) = RemoveAt(queue, i)
      BY <2>2
    <3> HIDE DEF n
    <3>2. Len(RemoveAt(queue, i)) = n - 1 /\ \A k \in 1..n - 1 : RemoveAt(queue, i)[k] = IF k < i THEN queue[k] ELSE queue[k + 1]
      BY <3>1, Removed DEF n
    <3> QED BY <1>2, <3>1, <3>2
  <2> QED BY <2>1, <2>2, LeftQueue
<1>4. ASSUME queue # << >>, r = Head(queue) PROVE InLine(Tail(queue), after)
  <2>1. 1 \in 1..n /\ queue[1] = r
    BY <1>1, <1>4, EmptySeq, HeadTailProperties
  <2>2. Len(Tail(queue)) = n - 1 /\ \A k \in 1..n - 1 : Tail(queue)[k] = queue[k + 1]
    BY <1>4, HeadTailProperties
  <2>3. \A k \in 1..n - 1 : ~(k < 1)
    BY <1>1
  <2> HIDE DEF n
  <2> QED BY <1>2, <2>1, <2>2, <2>3
<1> QED BY <1>3, <1>4

(* One request moves: the open ones change by it at most. *)
LEMMA OpenMoves ==
  ASSUME NEW calls \in [Requests -> Call], NEW r \in Requests, NEW call \in Call
  PROVE  LET after == [calls EXCEPT ![r] = call] IN
         /\ after \in [Requests -> Call] /\ after[r] = call /\ \A s \in Requests \ {r} : after[s] = calls[s]
         /\ Cardinality(Open(calls)) \in Nat
         /\ Cardinality(Open(after)) = Cardinality(Open(calls)) + Weight(call.pc) - Weight(calls[r].pc)
<1> DEFINE after == [calls EXCEPT ![r] = call]
<1>1. after \in [Requests -> Call] /\ after[r] = call /\ \A s \in Requests \ {r} : after[s] = calls[s]
  OBVIOUS
<1>2. IsFiniteSet(Open(calls)) /\ IsFiniteSet(Open(after)) /\ Cardinality(Open(calls)) \in Nat /\ Cardinality(Open(after)) \in Nat
  <2>1. IsFiniteSet(Open(calls)) /\ IsFiniteSet(Open(after))
    BY RestAssumption, FS_Subset DEF Open
  <2> QED BY <2>1, FS_CardinalityType
<1> HIDE DEF after
<1>3. CASE call.pc \in Pending /\ calls[r].pc \in Pending
  <2>1. Open(after) = Open(calls)
    BY <1>1, <1>3 DEF Open
  <2> QED BY <1>1, <1>2, <1>3, <2>1 DEF after, Weight
<1>4. CASE call.pc \in Pending /\ calls[r].pc \notin Pending
  <2>1. Open(after) = Open(calls) \cup {r} /\ r \notin Open(calls)
    BY <1>1, <1>4 DEF Open
  <2>2. Cardinality(Open(after)) = Cardinality(Open(calls)) + 1
    BY <1>2, <2>1, FS_AddElement
  <2> QED BY <1>1, <1>2, <1>4, <2>2 DEF after, Weight
<1>5. CASE call.pc \notin Pending /\ calls[r].pc \in Pending
  <2>1. Open(after) = Open(calls) \ {r} /\ r \in Open(calls)
    BY <1>1, <1>5 DEF Open
  <2>2. Cardinality(Open(after)) = Cardinality(Open(calls)) - 1
    BY <1>2, <2>1, FS_RemoveElement
  <2> QED BY <1>1, <1>2, <1>5, <2>2 DEF after, Weight
<1>6. CASE call.pc \notin Pending /\ calls[r].pc \notin Pending
  <2>1. Open(after) = Open(calls)
    BY <1>1, <1>6 DEF Open
  <2> QED BY <1>1, <1>2, <1>6, <2>1 DEF after, Weight
<1> QED BY <1>3, <1>4, <1>5, <1>6

(* An attempt is outstanding from its count to the count of its outcome. *)
LEMMA AddCounts ==
  ASSUME counted \in [CountFields -> Int], NEW fields, Add(fields)
  PROVE  /\ counted' \in [CountFields -> Int] /\ Outstanding(counted) \in Int
         /\ "attempts" \in fields /\ fields \cap {"http_ok", "http_failed", "http_limited"} = {} => Outstanding(counted') = Outstanding(counted) + 1
         /\ \A outcome \in {"http_ok", "http_failed", "http_limited"} :
              "attempts" \notin fields /\ fields \cap {"http_ok", "http_failed", "http_limited"} = {outcome} => Outstanding(counted') = Outstanding(counted) - 1
<1> DEFINE a(c) == c["attempts"]
           b(c) == c["http_ok"]
           d(c) == c["http_failed"]
           e(c) == c["http_limited"]
<1>1. counted' \in [CountFields -> Int] /\ \A f \in CountFields : counted'[f] = IF f \in fields THEN counted[f] + 1 ELSE counted[f]
  BY DEF Add
<1>2. /\ a(counted) \in Int /\ b(counted) \in Int /\ d(counted) \in Int /\ e(counted) \in Int
      /\ a(counted') = IF "attempts" \in fields THEN a(counted) + 1 ELSE a(counted)
      /\ b(counted') = IF "http_ok" \in fields THEN b(counted) + 1 ELSE b(counted)
      /\ d(counted') = IF "http_failed" \in fields THEN d(counted) + 1 ELSE d(counted)
      /\ e(counted') = IF "http_limited" \in fields THEN e(counted) + 1 ELSE e(counted)
  BY <1>1 DEF CountFields
<1>3. Outstanding(counted) = a(counted) - (b(counted) + d(counted) + e(counted)) /\ Outstanding(counted') = a(counted') - (b(counted') + d(counted') + e(counted'))
  BY DEF Outstanding
<1> HIDE DEF a, b, d, e
<1>4. Outstanding(counted) \in Int
  BY <1>2, <1>3
<1>5. ASSUME "attempts" \in fields, fields \cap {"http_ok", "http_failed", "http_limited"} = {} PROVE Outstanding(counted') = Outstanding(counted) + 1
  <2>1. "http_ok" \notin fields /\ "http_failed" \notin fields /\ "http_limited" \notin fields
    BY <1>5
  <2> QED BY <1>2, <1>3, <1>5, <2>1
<1>6. ASSUME NEW outcome \in {"http_ok", "http_failed", "http_limited"}, "attempts" \notin fields, fields \cap {"http_ok", "http_failed", "http_limited"} = {outcome}
      PROVE  Outstanding(counted') = Outstanding(counted) - 1
  <2>1. ("http_ok" \in fields <=> outcome = "http_ok") /\ ("http_failed" \in fields <=> outcome = "http_failed") /\ ("http_limited" \in fields <=> outcome = "http_limited")
    BY <1>6
  <2>2. CASE outcome = "http_ok"
    BY <1>2, <1>3, <1>6, <2>1, <2>2
  <2>3. CASE outcome = "http_failed"
    BY <1>2, <1>3, <1>6, <2>1, <2>3
  <2>4. CASE outcome = "http_limited"
    BY <1>2, <1>3, <1>6, <2>1, <2>4
  <2> QED BY <2>2, <2>3, <2>4
<1> QED BY <1>1, <1>4, <1>5, <1>6

LEMMA NoneIsOpen ==
  ASSUME NEW calls, calls = [r \in Requests |-> NotStarted]
  PROVE  calls \in [Requests -> Call] /\ Cardinality(Open(calls)) = 0 /\ Uncounted \in [CountFields -> Int] /\ Outstanding(Uncounted) = 0
<1>1. NotStarted \in Call /\ NotStarted.pc \notin Pending
  BY DEF NotStarted, Call, Pending
<1>2. calls \in [Requests -> Call] /\ Open(calls) = {}
  BY <1>1 DEF Open
<1>3. Uncounted \in [CountFields -> Int] /\ Outstanding(Uncounted) = 0
  BY DEF Uncounted, CountFields, Outstanding
<1> QED BY <1>2, <1>3, FS_EmptySet

LEMMA AttemptStarts == Init => AttemptInv
<1> SUFFICES ASSUME Init PROVE AttemptInv
  OBVIOUS
<1>1. limiter = FreshLimiter /\ request = [r \in Requests |-> NotStarted] /\ counted = Uncounted
  BY DEF Init, RestInit
<1>2. InLine(limiter.queue, request)
  <2>1. limiter.queue = << >> /\ Len(<< >>) = 0
    BY <1>1 DEF FreshLimiter
  <2> QED BY <2>1 DEF InLine
<1> QED BY <1>1, <1>2, NoneIsOpen, RateStarts DEF AttemptInv

LEMMA AttemptTypes ==
  ASSUME AttemptInv
  PROVE  /\ now \in Nat /\ limiter.tokens \in Int /\ limiter.last \in Int /\ limiter.queue \in Seq(Requests)
         /\ request \in [Requests -> Call] /\ counted \in [CountFields -> Int] /\ InLine(limiter.queue, request)
         /\ \A i \in 1..Len(limiter.queue) : limiter.queue[i] \in Requests
<1>1. limiter.queue \in Seq(Requests)
  BY DEF AttemptInv, RateInv, Tokens
<1>2. \A i \in 1..Len(limiter.queue) : limiter.queue[i] \in Requests
  BY <1>1, ElementOfSeq
<1> QED BY <1>1, <1>2, RestAssumption DEF AttemptInv, RateInv, Tokens

(* What a step puts into the queue or takes out of it. *)
LEMMA QueueIs ==
  ASSUME AttemptInv
  PROVE  \A queue : limiter' = [limiter EXCEPT !.queue = queue] => limiter'.queue = queue
BY DEF AttemptInv, RateInv, Tokens

(* A request moves, and its outcome is counted when it stops to be open. *)
LEMMA MoveKeepsAttempts ==
  ASSUME AttemptInv, RateInv', NEW r \in Requests, NEW call \in Call, request' = [request EXCEPT ![r] = call],
         InLine(limiter'.queue, request'), counted' \in [CountFields -> Int],
         Outstanding(counted') = Outstanding(counted) + Weight(call.pc) - Weight(request[r].pc)
  PROVE  AttemptInv'
<1>1. request \in [Requests -> Call] /\ Outstanding(counted) = Cardinality(Open(request))
  BY DEF AttemptInv
<1>2. /\ request' \in [Requests -> Call]
      /\ Cardinality(Open(request')) = Cardinality(Open(request)) + Weight(call.pc) - Weight(request[r].pc)
  BY <1>1, OpenMoves
<1>3. Outstanding(counted') = Cardinality(Open(request'))
  BY <1>1, <1>2
<1> QED BY <1>2, <1>3 DEF AttemptInv

(* A request that waits nowhere moves: the queue is as it was. *)
LEMMA UnqueuedMoves ==
  ASSUME AttemptInv, NEW r \in Requests, request[r].pc # "limiter", NEW call \in Call, request' = [request EXCEPT ![r] = call], limiter' = limiter
  PROVE  InLine(limiter'.queue, request')
<1>1. \A i \in 1..Len(limiter.queue) : limiter.queue[i] # r
  BY AttemptTypes DEF InLine
<1>2. \A s \in Requests \ {r} : request'[s] = request[s]
  BY AttemptTypes
<1>3. \A i \in 1..Len(limiter.queue) : request'[limiter.queue[i]] = request[limiter.queue[i]]
  BY <1>1, <1>2, AttemptTypes
<1> QED BY <1>3, AttemptTypes DEF InLine

LEMMA QueuedMoves ==
  ASSUME AttemptInv, RateInv', NEW r \in Requests, request[r].pc \in {"new", "backoff"},
         NEW call \in Call, call.pc = "limiter", request' = [request EXCEPT ![r] = call],
         limiter' = [limiter EXCEPT !.queue = Append(limiter.queue, r)],
         NEW fields, Add(fields), "attempts" \in fields, fields \cap {"http_ok", "http_failed", "http_limited"} = {}
  PROVE  AttemptInv'
<1>1. limiter'.queue = Append(limiter.queue, r)
  BY QueueIs
<1>2. request'[r].pc = "limiter" /\ request[r].pc # "limiter" /\ \A s \in Requests \ {r} : request'[s] = request[s]
  BY AttemptTypes
<1>3. InLine(Append(limiter.queue, r), request')
  BY <1>2, AttemptTypes, JoinsLine
<1>4. counted' \in [CountFields -> Int] /\ Outstanding(counted) \in Int /\ Outstanding(counted') = Outstanding(counted) + 1
  BY AttemptTypes, AddCounts
<1>5. Weight(call.pc) = 1 /\ Weight(request[r].pc) = 0
  BY DEF Weight, Pending
<1>6. Outstanding(counted') = Outstanding(counted) + Weight(call.pc) - Weight(request[r].pc)
  BY <1>4, <1>5
<1> QED BY <1>1, <1>3, <1>4, <1>6, MoveKeepsAttempts

(* Off the network: the outcome is counted as the request stops to be open. *)
LEMMA AnsweredMoves ==
  ASSUME AttemptInv, RateInv', NEW r \in Requests, request[r].pc = "network", limiter' = limiter,
         NEW call \in Call, call.pc \notin Pending, request' = [request EXCEPT ![r] = call],
         NEW fields, Add(fields), "attempts" \notin fields,
         NEW outcome \in {"http_ok", "http_failed", "http_limited"}, fields \cap {"http_ok", "http_failed", "http_limited"} = {outcome}
  PROVE  AttemptInv'
<1>1. InLine(limiter'.queue, request')
  BY UnqueuedMoves
<1>2. counted' \in [CountFields -> Int] /\ Outstanding(counted) \in Int /\ Outstanding(counted') = Outstanding(counted) - 1
  BY AttemptTypes, AddCounts
<1>3. Weight(call.pc) = 0 /\ Weight(request[r].pc) = 1
  BY DEF Weight, Pending
<1>4. Outstanding(counted') = Outstanding(counted) + Weight(call.pc) - Weight(request[r].pc)
  BY <1>2, <1>3
<1> QED BY <1>1, <1>2, <1>4, MoveKeepsAttempts

(* Uncounted moves: within what is open, or within what is not. *)
LEMMA UncountedMoves ==
  ASSUME AttemptInv, RateInv', NEW r \in Requests, NEW call \in Call, request' = [request EXCEPT ![r] = call],
         InLine(limiter'.queue, request'), counted' = counted, Weight(call.pc) = Weight(request[r].pc)
  PROVE  AttemptInv'
<1>1. counted' \in [CountFields -> Int] /\ Outstanding(counted) \in Int
  <2>1. Outstanding(counted) \in Int
    BY AttemptTypes DEF Outstanding, CountFields
  <2> QED BY <2>1, AttemptTypes
<1>2. Weight(call.pc) \in Int
  BY DEF Weight
<1>3. Outstanding(counted') = Outstanding(counted) + Weight(call.pc) - Weight(request[r].pc)
  BY <1>1, <1>2
<1> QED BY <1>1, <1>3, MoveKeepsAttempts

(* Where only the outcome of a request changes. *)
LEMMA GoesTo ==
  ASSUME AttemptInv, NEW r \in Requests, NEW pc \in {"network", "returned", "raised", "key_error", "cancelled", "cut_short"}, Goes(r, pc)
  PROVE  \E call \in Call : call.pc = pc /\ request' = [request EXCEPT ![r] = call]
<1> DEFINE call == [request[r] EXCEPT !.pc = pc]
<1>1. request[r] \in Call
  BY AttemptTypes
<1>2. call \in Call /\ call.pc = pc
  BY <1>1 DEF Call
<1>3. request' = [request EXCEPT ![r] = call]
  BY AttemptTypes DEF Goes
<1> QED BY <1>2, <1>3

LEMMA AcquireKeepsAttempts == ASSUME AttemptInv, RateInv', acquire PROVE AttemptInv'
<1> DEFINE queue == limiter.queue
           r == Head(queue)
<1>1. r \in Requests /\ request[r].pc = "limiter" /\ counted' = counted /\ queue # << >>
  <2>1. queue # << >> /\ counted' = counted
    BY DEF acquire
  <2>2. r \in Requests /\ 1 \in 1..Len(queue) /\ r = queue[1]
    BY <2>1, AttemptTypes, EmptySeq, HeadTailProperties
  <2> QED BY <2>1, <2>2, AttemptTypes DEF InLine
<1>2. CASE limiter'.queue = Tail(queue) /\ Goes(r, "network")
  <2>1. PICK call \in Call : call.pc = "network" /\ request' = [request EXCEPT ![r] = call]
    BY <1>1, <1>2, GoesTo
  <2>2. \A s \in Requests \ {r} : request'[s].pc = request[s].pc
    BY <2>1, AttemptTypes
  <2>3. InLine(Tail(queue), request')
    BY <1>1, <2>2, AttemptTypes, LeavesLine
  <2>4. Weight(call.pc) = Weight(request[r].pc)
    BY <1>1, <2>1 DEF Weight, Pending
  <2>5. InLine(limiter'.queue, request')
    BY <1>2, <2>3
  <2> HIDE DEF queue, r
  <2> QED BY <1>1, <2>1, <2>4, <2>5, UncountedMoves
<1>3. CASE limiter'.queue = queue /\ request' = [request EXCEPT ![r].wake = now + Unit - refilled]
  <2> DEFINE call == [request[r] EXCEPT !.wake = now + Unit - refilled]
  <2>1. now + Unit - refilled \in Int
    <3>1. refilled \in Int
      <4>1. now \in Int /\ limiter.tokens \in Int /\ limiter.last \in Int /\ Burst \in Int
        BY AttemptTypes, RestAssumption
      <4>2. limiter.tokens + (now - limiter.last) \in Int
        BY <4>1
      <4> QED BY <4>1, <4>2 DEF refilled
    <3> QED BY <3>1, AttemptTypes, RestAssumption
  <2>2. request[r] \in Call /\ request \in [Requests -> Call]
    BY <1>1, AttemptTypes
  <2>3. call \in Call /\ call.pc = request[r].pc
    BY <2>1, <2>2 DEF Call
  <2>4. request' = [request EXCEPT ![r] = call]
    BY <1>3, <2>2
  <2> HIDE DEF call
  <2>5. \A s \in Requests : request'[s].pc = request[s].pc
    BY <1>1, <2>2, <2>3, <2>4
  <2>6. InLine(queue, request')
    BY <2>5, AttemptTypes DEF InLine
  <2> HIDE DEF queue, r
  <2> QED BY <1>1, <1>3, <2>3, <2>4, <2>6, UncountedMoves
<1>4. \/ limiter' = [tokens |-> refilled - Unit, last |-> now, queue |-> Tail(queue), grants |-> Append(limiter.grants, now)] /\ Goes(r, "network")
      \/ limiter' = [limiter EXCEPT !.tokens = refilled, !.last = now] /\ request' = [request EXCEPT ![r].wake = now + Unit - refilled]
  BY DEF acquire
<1>5. limiter' = [limiter EXCEPT !.tokens = refilled, !.last = now] => limiter'.queue = queue
  BY DEF AttemptInv, RateInv, Tokens
<1>6. limiter' = [tokens |-> refilled - Unit, last |-> now, queue |-> Tail(queue), grants |-> Append(limiter.grants, now)] => limiter'.queue = Tail(queue)
  OBVIOUS
<1> HIDE DEF queue, r
<1> QED BY <1>2, <1>3, <1>4, <1>5, <1>6

LEMMA AttemptStep == AttemptInv /\ [Next]_vars => AttemptInv'
<1> SUFFICES ASSUME AttemptInv, [Next]_vars PROVE AttemptInv'
  OBVIOUS
<1>1. RateInv'
  BY RateStep DEF AttemptInv
<1>2. request \in [Requests -> Call] /\ now \in Nat
  BY AttemptTypes
<1>3. CASE UNCHANGED <<limiter, request, counted>>
  BY <1>1, <1>3 DEF AttemptInv
<1>4. CASE restart_rest
  <2>1. limiter'.queue = << >> /\ request' = [r \in Requests |-> NotStarted] /\ counted' = Uncounted /\ Len(<< >>) = 0
    BY <1>4 DEF restart_rest, FreshLimiter
  <2>2. InLine(limiter'.queue, request')
    BY <2>1 DEF InLine
  <2> QED BY <1>1, <2>1, <2>2, NoneIsOpen DEF AttemptInv
<1>5. ASSUME NEW r \in Requests, start_request(r) PROVE AttemptInv'
  <2> DEFINE call == [pc |-> "limiter", attempt |-> 0, wake |-> 0, delay |-> BaseDelay]
             fields == {"calls", "attempts"}
  <2>1. call \in Call /\ call.pc = "limiter"
    BY RestAssumption DEF Call
  <2>2. "attempts" \in fields /\ fields \cap {"http_ok", "http_failed", "http_limited"} = {}
    OBVIOUS
  <2>3. request[r].pc = "new" /\ request' = [request EXCEPT ![r] = call] /\ limiter' = [limiter EXCEPT !.queue = Append(limiter.queue, r)] /\ Add(fields)
    BY <1>5 DEF start_request
  <2> HIDE DEF call, fields
  <2> QED BY <1>1, <2>1, <2>2, <2>3, QueuedMoves
<1>6. ASSUME NEW r \in Requests, retry(r) PROVE AttemptInv'
  <2> DEFINE call == [request[r] EXCEPT !.pc = "limiter", !.wake = 0, !.attempt = @ + 1]
             fields == {"attempts"}
  <2>1. request[r] \in Call
    BY <1>2
  <2>2. call \in Call /\ call.pc = "limiter"
    <3> DEFINE next == request[r].attempt + 1
    <3>1. next \in Int /\ 0 \in Int
      BY <2>1 DEF Call
    <3>2. call = [request[r] EXCEPT !.pc = "limiter", !.wake = 0, !.attempt = next]
      OBVIOUS
    <3> HIDE DEF next, call
    <3> QED BY <2>1, <3>1, <3>2 DEF Call
  <2>3. "attempts" \in fields /\ fields \cap {"http_ok", "http_failed", "http_limited"} = {}
    OBVIOUS
  <2>4. request[r].pc = "backoff" /\ request' = [request EXCEPT ![r] = call] /\ limiter' = [limiter EXCEPT !.queue = Append(limiter.queue, r)] /\ Add(fields)
    BY <1>2, <1>6 DEF retry
  <2> HIDE DEF call, fields
  <2> QED BY <1>1, <2>2, <2>3, <2>4, QueuedMoves
<1>7. ASSUME NEW r \in Requests, NEW pc \in {"returned", "raised", "key_error"}, request[r].pc = "network", limiter' = limiter, Goes(r, pc),
             NEW fields, Add(fields), "attempts" \notin fields,
             NEW outcome \in {"http_ok", "http_failed", "http_limited"}, fields \cap {"http_ok", "http_failed", "http_limited"} = {outcome}
      PROVE  AttemptInv'
  <2>1. PICK call \in Call : call.pc = pc /\ request' = [request EXCEPT ![r] = call]
    BY <1>7, GoesTo
  <2>2. call.pc \notin Pending
    BY <1>7, <2>1 DEF Pending
  <2> QED BY <1>1, <1>7, <2>1, <2>2, AnsweredMoves
<1>8. ASSUME NEW r \in Requests, answered(r) PROVE AttemptInv'
  <2> DEFINE fields == {"http_ok"}
  <2>1. request[r].pc = "network" /\ limiter' = limiter /\ Goes(r, "returned") /\ Add(fields)
    BY <1>8 DEF answered
  <2>2. "attempts" \notin fields /\ fields \cap {"http_ok", "http_failed", "http_limited"} = {"http_ok"}
    OBVIOUS
  <2> HIDE DEF fields
  <2> QED BY <1>7, <2>1, <2>2
<1>9. ASSUME NEW r \in Requests, refused(r) PROVE AttemptInv'
  <2>1. request[r].pc = "network" /\ limiter' = limiter
    BY <1>9 DEF refused
  <2>2. PICK pc \in {"returned", "raised", "key_error"}, fields \in {{"http_failed", "errors"}, {"http_failed"}} : Goes(r, pc) /\ Add(fields)
    BY <1>9 DEF refused
  <2>3. "attempts" \notin fields /\ fields \cap {"http_ok", "http_failed", "http_limited"} = {"http_failed"}
    OBVIOUS
  <2> QED BY <1>7, <2>1, <2>2, <2>3
<1>10. ASSUME NEW r \in Requests, rate_limited(r) PROVE AttemptInv'
  <2>1. request[r].pc = "network" /\ limiter' = limiter
    BY <1>10 DEF rate_limited
  <2>2. CASE \E pc \in {"returned", "raised", "key_error"}, fields \in {{"http_limited", "rate_limited", "errors"}, {"http_limited"}} : Goes(r, pc) /\ Add(fields)
    <3>1. PICK pc \in {"returned", "raised", "key_error"}, fields \in {{"http_limited", "rate_limited", "errors"}, {"http_limited"}} : Goes(r, pc) /\ Add(fields)
      BY <2>2
    <3>2. "attempts" \notin fields /\ fields \cap {"http_ok", "http_failed", "http_limited"} = {"http_limited"}
      OBVIOUS
    <3> QED BY <1>7, <2>1, <3>1, <3>2
  <2>3. CASE /\ request' = [request EXCEPT ![r].pc = "backoff", ![r].wake = now + request[r].delay, ![r].delay = 2 * @]
             /\ Add({"http_limited", "rate_limited"})
    <3> DEFINE call == [request[r] EXCEPT !.pc = "backoff", !.wake = now + request[r].delay, !.delay = 2 * @]
               fields == {"http_limited", "rate_limited"}
    <3>1. request[r] \in Call
      BY <1>2
    <3>2. request[r].delay \in Int
      BY <3>1 DEF Call
    <3>3. now + request[r].delay \in Int /\ 2 * request[r].delay \in Int
      BY <1>2, <3>2
    <3>4. call \in Call /\ call.pc \notin Pending
      BY <3>1, <3>3 DEF Call, Pending
    <3>5. request' = [request EXCEPT ![r] = call] /\ Add(fields)
      BY <1>2, <2>3
    <3>6. "attempts" \notin fields /\ fields \cap {"http_ok", "http_failed", "http_limited"} = {"http_limited"}
      OBVIOUS
    <3> HIDE DEF call, fields
    <3> QED BY <1>1, <2>1, <3>4, <3>5, <3>6, AnsweredMoves
  <2> QED BY <1>10, <2>2, <2>3 DEF rate_limited
<1>11. ASSUME NEW r \in Requests, cancel_request(r) PROVE AttemptInv'
  <2>1. PICK pc \in {"cancelled", "cut_short"} : Goes(r, pc) /\ pc = IF request[r].pc = "backoff" THEN "cancelled" ELSE "cut_short"
    BY <1>11 DEF cancel_request
  <2>2. PICK call \in Call : call.pc = pc /\ request' = [request EXCEPT ![r] = call]
    BY <2>1, GoesTo
  <2>3. Weight(call.pc) = Weight(request[r].pc)
    BY <1>11, <2>1, <2>2 DEF Weight, Pending, cancel_request
  <2>4. limiter'.queue = WithoutRequest(limiter.queue, r) /\ counted' = counted
    BY <1>11, QueueIs DEF cancel_request
  <2>5. \A s \in Requests \ {r} : request'[s].pc = request[s].pc
    BY <1>2, <2>2
  <2>6. InLine(WithoutRequest(limiter.queue, r), request')
    BY <2>5, AttemptTypes, LeavesLine
  <2> QED BY <1>1, <2>2, <2>3, <2>4, <2>6, UncountedMoves
<1> QED BY <1>1, <1>3, <1>4, <1>5, <1>6, <1>8, <1>9, <1>10, <1>11, AcquireKeepsAttempts, RestOwnsItsState DEF RestNext

LEMMA AttemptsAreCounted == AttemptInv => AttemptsAddUp
<1> SUFFICES ASSUME AttemptInv PROVE AttemptsAddUp
  OBVIOUS
<1>1. Open(request) = {r \in Requests : request[r].pc \in {"limiter", "network", "cut_short"}}
  BY DEF Open, Pending
<1>2. Cardinality(Open(request)) \in Int
  <2>1. IsFiniteSet(Open(request))
    BY RestAssumption, FS_Subset DEF Open
  <2> QED BY <2>1, FS_CardinalityType
<1>3. counted["attempts"] \in Int /\ counted["http_ok"] \in Int /\ counted["http_failed"] \in Int /\ counted["http_limited"] \in Int
  BY AttemptTypes DEF CountFields
<1>4. counted["attempts"] = counted["http_ok"] + counted["http_failed"] + counted["http_limited"] + Cardinality(Open(request))
  BY <1>2, <1>3 DEF AttemptInv, Outstanding
<1> QED BY <1>1, <1>4 DEF AttemptsAddUp, In

-------------------------------------------------------------------------------
(* The backups. A tier's directories are a chronicle: what is pruned, begun or *)
(* filled in leaves the ones before in their order.                           *)

AnyFile == UNION {Files[t] : t \in Tiers}
Directory == [at : Nat, files : SUBSET AnyFile, manual : BOOLEAN]
Cycle == [at : Nat \cup {Never}, todo : SUBSET AnyFile, failed : SUBSET AnyFile]
TierState == [running : BOOLEAN, last_started_at : Nat \cup {Never}, cycle : Cycle]
RunRow == [tier : Tiers, at : Nat, failed : SUBSET AnyFile, manual : BOOLEAN]

Chronicle(dirs, time) ==
  /\ \A k \in 1..Len(dirs) : dirs[k].at <= time
  /\ \A k, l \in 1..Len(dirs) : k < l => dirs[k].at < dirs[l].at

(* A run is kept by its own directory, or the oldest of the newest Retention   *)
(* ones is newer than it.                                                     *)
RunKept(run, dirs) ==
  \/ \E k \in 1..Len(dirs) : dirs[k].at = run.at /\ dirs[k].files = Files[run.tier] \ run.failed
  \/ Retention = 0
  \/ Len(dirs) >= Retention /\ dirs[Len(dirs) - Retention + 1].at > run.at

(* What a tier's directories say of its recorded runs. *)
RunsBehind(t, dirs, rows) ==
  \A i \in 1..Len(rows) : rows[i].tier = t =>
    dirs # << >> /\ rows[i].at <= dirs[Len(dirs)].at /\ RunKept(rows[i], dirs)

(* A cycle in progress fills the newest directory, and every recorded run of   *)
(* the tier began before it, an interval before unless somebody asked for it. *)
InProgress(t, state, dirs, rows) ==
  /\ dirs # << >> /\ dirs[Len(dirs)].at = state.cycle.at
  /\ state.cycle.todo \subseteq Files[t] /\ state.cycle.todo \cap state.cycle.failed = {}
  /\ dirs[Len(dirs)].files = Files[t] \ (state.cycle.todo \cup state.cycle.failed)
  /\ \A i \in 1..Len(rows) : rows[i].tier = t =>
       /\ rows[i].at < state.cycle.at
       /\ ~dirs[Len(dirs)].manual => state.cycle.at - rows[i].at > Interval[t]

TierInv(t, state, dirs, rows) ==
  /\ state.last_started_at # Never => dirs # << >> /\ dirs[Len(dirs)].at = state.last_started_at
  /\ state.running => InProgress(t, state, dirs, rows)
  /\ RunsBehind(t, dirs, rows)

BackupInv ==
  /\ now \in Nat /\ tier \in [Tiers -> TierState] /\ snapshots \in [Tiers -> Seq(Directory)] /\ runs \in Seq(RunRow)
  /\ \A t \in Tiers : Chronicle(snapshots[t], now) /\ TierInv(t, tier[t], snapshots[t], runs)
  /\ RunsAreSpaced

(* The newest Retention directories stay, in their order. *)
LEMMA PrunedDirs ==
  ASSUME NEW dirs \in Seq(Directory), NEW time, Chronicle(dirs, time)
  PROVE  LET left == prune_old_snapshots(dirs) IN
         /\ left \in Seq(Directory) /\ Chronicle(left, time)
         /\ dirs # << >> => left # << >> /\ left[Len(left)] = dirs[Len(dirs)]
         /\ \A run \in RunRow : RunKept(run, dirs) => RunKept(run, left)
<1> DEFINE left == prune_old_snapshots(dirs)
           skipped == Len(dirs) - Retention
<1>1. Len(dirs) \in Nat /\ Retention \in Nat /\ \A k \in 1..Len(dirs) : dirs[k] \in Directory
  BY BackupAssumption, ElementOfSeq, LenProperties
<1>2. CASE ~(Retention > 0 /\ Len(dirs) > Retention)
  BY <1>2 DEF prune_old_snapshots
<1>3. CASE Retention > 0 /\ Len(dirs) > Retention
  <2>1. left = SubSeq(dirs, skipped + 1, Len(dirs)) /\ skipped \in Nat /\ skipped + Retention = Len(dirs)
    BY <1>1, <1>3 DEF prune_old_snapshots
  <2>2. left \in Seq(Directory) /\ Len(left) = Retention /\ \A k \in 1..Retention : left[k] = dirs[skipped + k]
    <3>1. \A k \in skipped + 1..Len(dirs) : dirs[k] \in Directory
      BY <1>1, <2>1
    <3> HIDE DEF left, skipped
    <3>2. /\ left \in Seq(Directory) /\ Len(left) = IF skipped + 1 <= Len(dirs) THEN Len(dirs) - (skipped + 1) + 1 ELSE 0
          /\ \A k \in 1..Len(dirs) - (skipped + 1) + 1 : left[k] = dirs[skipped + 1 + k - 1]
      BY <1>1, <2>1, <3>1, SubSeqProperties
    <3>3. Len(dirs) - (skipped + 1) + 1 = Retention /\ skipped + 1 <= Len(dirs) /\ \A k \in 1..Retention : skipped + 1 + k - 1 = skipped + k
      BY <1>1, <1>3, <2>1
    <3> QED BY <3>2, <3>3
  <2> HIDE DEF left, skipped
  <2>3. \A k \in 1..Retention : skipped + k \in 1..Len(dirs)
    BY <1>1, <2>1
  <2>4. Chronicle(left, time)
    <3>1. \A k \in 1..Retention : left[k].at <= time
      BY <2>2, <2>3 DEF Chronicle
    <3>2. ASSUME NEW k \in 1..Retention, NEW l \in 1..Retention, k < l PROVE left[k].at < left[l].at
      <4>1. skipped + k < skipped + l
        BY <1>1, <2>1, <3>2
      <4> QED BY <2>2, <2>3, <4>1 DEF Chronicle
    <3> QED BY <2>2, <3>1, <3>2 DEF Chronicle
  <2>5. left # << >> /\ left[Len(left)] = dirs[Len(dirs)]
    <3>1. Retention \in 1..Retention /\ Len(left) = Retention /\ skipped + Retention = Len(dirs)
      BY <1>1, <1>3, <2>1, <2>2
    <3>2. left[Retention] = dirs[skipped + Retention]
      BY <2>2, <3>1
    <3>3. left # << >>
      BY <1>1, <1>3, <3>1
    <3> QED BY <3>1, <3>2, <3>3
  <2>6. ASSUME NEW run \in RunRow, RunKept(run, dirs) PROVE RunKept(run, left)
    <3>0. Len(left) - Retention + 1 = 1 /\ 1 \in 1..Retention /\ Len(left) = Retention
      BY <1>1, <1>3, <2>2
    <3>1. left[Len(left) - Retention + 1] = dirs[skipped + 1] /\ skipped + 1 \in 1..Len(dirs) /\ Len(dirs) - Retention + 1 = skipped + 1
      <4>1. left[1] = dirs[skipped + 1]
        BY <2>2, <3>0
      <4>2. skipped + 1 \in 1..Len(dirs) /\ Len(dirs) - Retention + 1 = skipped + 1
        BY <1>1, <1>3, <2>1
      <4> QED BY <3>0, <4>1, <4>2
    <3>2. CASE \E k \in 1..Len(dirs) : dirs[k].at = run.at /\ dirs[k].files = Files[run.tier] \ run.failed
      <4>1. PICK k \in 1..Len(dirs) : dirs[k].at = run.at /\ dirs[k].files = Files[run.tier] \ run.failed
        BY <3>2
      <4>2. CASE k <= skipped
        <5>1. k < skipped + 1
          BY <1>1, <2>1, <4>2
        <5>2. run.at < dirs[skipped + 1].at /\ run.at \in Nat /\ dirs[skipped + 1].at \in Nat
          BY <1>1, <3>1, <4>1, <5>1 DEF Chronicle, RunRow, Directory
        <5> QED BY <2>2, <3>1, <5>2, <1>1 DEF RunKept
      <4>3. CASE k > skipped
        <5>1. k - skipped \in 1..Retention /\ skipped + (k - skipped) = k
          BY <1>1, <2>1, <4>3
        <5> QED BY <2>2, <4>1, <5>1 DEF RunKept
      <4> QED BY <1>1, <2>1, <4>2, <4>3
    <3>3. CASE Len(dirs) >= Retention /\ dirs[Len(dirs) - Retention + 1].at > run.at
      BY <1>1, <2>2, <3>1, <3>3 DEF RunKept
    <3> QED BY <1>3, <2>6, <3>2, <3>3 DEF RunKept
  <2> QED BY <2>2, <2>4, <2>5, <2>6 DEF left
<1> QED BY <1>2, <1>3

(* A directory begun after all of them comes last. *)
LEMMA BegunDir ==
  ASSUME NEW dirs \in Seq(Directory), NEW time \in Nat, Chronicle(dirs, time), \A k \in 1..Len(dirs) : dirs[k].at # time,
         NEW dir \in Directory, dir.at = time
  PROVE  LET more == Append(dirs, dir) IN
         /\ more \in Seq(Directory) /\ Chronicle(more, time) /\ more # << >> /\ more[Len(more)] = dir
         /\ \A run \in RunRow : run.at <= time /\ RunKept(run, dirs) => RunKept(run, more)
<1> DEFINE more == Append(dirs, dir)
           n == Len(dirs)
<1>1. n \in Nat /\ Retention \in Nat /\ \A k \in 1..n : dirs[k] \in Directory /\ dirs[k].at \in Nat
  <2>1. n \in Nat /\ Retention \in Nat /\ \A k \in 1..n : dirs[k] \in Directory
    BY BackupAssumption, ElementOfSeq, LenProperties
  <2> QED BY <2>1 DEF Directory
<1>2. more \in Seq(Directory) /\ more # << >> /\ Len(more) = n + 1 /\ more[n + 1] = dir /\ \A k \in 1..n : more[k] = dirs[k]
  BY AppendProperties
<1> HIDE DEF more, n
<1>3. \A k \in 1..n : dirs[k].at < time
  BY <1>1 DEF Chronicle, n
<1>4. Chronicle(more, time)
  <2>1. \A k \in 1..n + 1 : more[k].at <= time
    BY <1>1, <1>2, <1>3
  <2>2. ASSUME NEW k \in 1..n + 1, NEW l \in 1..n + 1, k < l PROVE more[k].at < more[l].at
    <3>1. k \in 1..n
      BY <1>1, <2>2
    <3>2. CASE l \in 1..n
      BY <1>2, <2>2, <3>1, <3>2 DEF Chronicle, n
    <3>3. CASE l = n + 1
      BY <1>2, <1>3, <3>1, <3>3
    <3> QED BY <1>1, <3>2, <3>3
  <2> QED BY <1>2, <2>1, <2>2 DEF Chronicle
<1>5. ASSUME NEW run \in RunRow, run.at <= time, RunKept(run, dirs) PROVE RunKept(run, more)
  <2>0. run.at \in Nat
    BY DEF RunRow
  <2>1. CASE \E k \in 1..n : dirs[k].at = run.at /\ dirs[k].files = Files[run.tier] \ run.failed
    <3>1. PICK k \in 1..n : dirs[k].at = run.at /\ dirs[k].files = Files[run.tier] \ run.failed
      BY <2>1
    <3>2. k \in 1..Len(more) /\ more[k] = dirs[k]
      BY <1>1, <1>2
    <3> QED BY <3>1, <3>2 DEF RunKept
  <2>2. CASE Retention # 0 /\ n >= Retention /\ dirs[n - Retention + 1].at > run.at
    <3> DEFINE m == n - Retention + 1
    <3>1. m \in 1..n /\ n + 1 - Retention + 1 = m + 1 /\ n + 1 >= Retention /\ m + 1 \in 1..n + 1
      BY <1>1, <2>2
    <3>2. dirs[m].at > run.at
      BY <2>2
    <3> HIDE DEF m
    <3>3. more[m + 1].at > more[m].at
      <4>1. m < m + 1 /\ m \in 1..Len(more) /\ m + 1 \in 1..Len(more)
        BY <1>1, <1>2, <3>1
      <4> QED BY <1>4, <4>1 DEF Chronicle
    <3>4. more[m] = dirs[m] /\ more[m].at \in Nat /\ more[m + 1].at \in Nat
      BY <1>1, <1>2, <3>1, ElementOfSeq DEF Directory
    <3>5. more[m + 1].at > run.at
      BY <2>0, <3>2, <3>3, <3>4
    <3>6. Len(more) - Retention + 1 = m + 1 /\ Len(more) >= Retention
      BY <1>1, <1>2, <3>1
    <3> QED BY <3>5, <3>6 DEF RunKept
  <2> QED BY <1>5, <2>1, <2>2 DEF RunKept, n
<1> QED BY <1>2, <1>4, <1>5 DEF more

(* A file copied into the newest directory touches no run of an older one. *)
LEMMA FilledDir ==
  ASSUME NEW dirs \in Seq(Directory), NEW time, Chronicle(dirs, time), dirs # << >>, NEW f \in AnyFile
  PROVE  LET more == [dirs EXCEPT ![Len(dirs)].files = @ \cup {f}] IN
         /\ more \in Seq(Directory) /\ Chronicle(more, time) /\ more # << >> /\ Len(more) = Len(dirs)
         /\ more[Len(dirs)] = [dirs[Len(dirs)] EXCEPT !.files = @ \cup {f}]
         /\ \A run \in RunRow : run.at < dirs[Len(dirs)].at /\ RunKept(run, dirs) => RunKept(run, more)
<1> DEFINE n == Len(dirs)
           filled == [dirs[n] EXCEPT !.files = @ \cup {f}]
           more == [dirs EXCEPT ![n] = filled]
<1>0. more = [dirs EXCEPT ![Len(dirs)].files = @ \cup {f}]
  OBVIOUS
<1>1. n \in Nat /\ n \in 1..n /\ \A k \in 1..n : dirs[k] \in Directory
  <2>1. n \in Nat \ {0}
    BY EmptySeq
  <2> QED BY <2>1, ElementOfSeq
<1>2. filled \in Directory /\ filled.at = dirs[n].at
  BY <1>1 DEF Directory
<1>3. more \in Seq(Directory) /\ Len(more) = n /\ \A k \in 1..n : more[k] = IF k = n THEN filled ELSE dirs[k]
  BY <1>1, <1>2, ExceptSeq
<1> HIDE DEF more, filled
<1>4. \A k \in 1..n : more[k].at = dirs[k].at
  BY <1>2, <1>3
<1>5. Chronicle(more, time)
  BY <1>3, <1>4 DEF Chronicle
<1>6. more # << >>
  BY <1>1, <1>3, EmptySeq
<1>7. ASSUME NEW run \in RunRow, run.at < dirs[n].at, RunKept(run, dirs) PROVE RunKept(run, more)
  <2>0. run.at \in Nat /\ dirs[n].at \in Nat
    BY <1>1 DEF RunRow, Directory
  <2>1. CASE \E k \in 1..n : dirs[k].at = run.at /\ dirs[k].files = Files[run.tier] \ run.failed
    <3>1. PICK k \in 1..n : dirs[k].at = run.at /\ dirs[k].files = Files[run.tier] \ run.failed
      BY <2>1
    <3>2. k # n
      BY <1>7, <2>0, <3>1
    <3> QED BY <1>3, <3>1, <3>2 DEF RunKept
  <2>2. CASE Retention # 0 /\ n >= Retention /\ dirs[n - Retention + 1].at > run.at
    <3>1. n - Retention + 1 \in 1..n
      BY <1>1, <2>2, BackupAssumption
    <3> QED BY <1>3, <1>4, <2>2, <3>1 DEF RunKept
  <2> QED BY <1>7, <2>1, <2>2 DEF RunKept
<1>8. more[n] = filled
  BY <1>1, <1>3
<1> QED BY <1>0, <1>3, <1>5, <1>6, <1>7, <1>8 DEF filled

(* The latest recorded run is none before it. *)
LEMMA LatestIsLast ==
  ASSUME BackupInv, NEW t \in Tiers, NEW i \in 1..Len(runs), runs[i].tier = t
  PROVE  latest(t) \in Nat /\ runs[i].at <= latest(t)
<1> DEFINE T == {runs[j].at : j \in RunsOf(t)}
           newest == CHOOSE at \in T : \A j \in RunsOf(t) : runs[j].at <= at
<1>1. i \in RunsOf(t) /\ \A j \in RunsOf(t) : j \in 1..Len(runs) /\ runs[j].at \in Nat /\ runs[j].at <= now
  <2>1. \A j \in 1..Len(runs) : runs[j] \in RunRow
    BY ElementOfSeq DEF BackupInv
  <2>2. \A j \in 1..Len(runs) : runs[j].tier = t => snapshots[t] # << >> /\ runs[j].at <= snapshots[t][Len(snapshots[t])].at
    BY DEF BackupInv, TierInv, RunsBehind
  <2>3. snapshots[t] # << >> => Len(snapshots[t]) \in 1..Len(snapshots[t])
    <3>1. snapshots[t] \in Seq(Directory)
      BY DEF BackupInv
    <3> HIDE DEF Directory
    <3>2. snapshots[t] # << >> => Len(snapshots[t]) \in Nat \ {0}
      BY <3>1, EmptySeq
    <3> QED BY <3>2
  <2>4. \A k \in 1..Len(snapshots[t]) : snapshots[t][k].at <= now /\ snapshots[t][k] \in Directory
    BY ElementOfSeq DEF BackupInv, Chronicle
  <2>5. ASSUME NEW j \in RunsOf(t) PROVE j \in 1..Len(runs) /\ runs[j].at \in Nat /\ runs[j].at <= now
    <3> DEFINE d == snapshots[t][Len(snapshots[t])]
    <3>1. j \in 1..Len(runs) /\ runs[j].at \in Nat /\ runs[j].tier = t
      BY <2>1, <2>5 DEF RunsOf, RunRow
    <3>2. runs[j].at <= d.at /\ d.at <= now /\ d \in Directory
      BY <2>2, <2>3, <2>4, <3>1
    <3>3. d.at \in Nat /\ now \in Nat
      BY <3>2 DEF Directory, BackupInv
    <3> HIDE DEF d
    <3> QED BY <3>1, <3>2, <3>3
  <2> QED BY <2>5 DEF RunsOf
<1>2. \E at \in T : \A j \in RunsOf(t) : runs[j].at <= at
  <2> DEFINE Back == {now - at : at \in T}
  <2>1. now \in Nat /\ \A at \in T : at \in Nat /\ at <= now
    BY <1>1 DEF BackupInv
  <2>2. Back \subseteq Nat /\ Back # {}
    BY <1>1, <2>1
  <2>3. PICK b \in Back : \A c \in Back : b <= c
    <3> HIDE DEF Back
    <3> QED BY <2>2, Least
  <2>4. PICK at \in T : b = now - at
    BY <2>3
  <2>5. ASSUME NEW j \in RunsOf(t) PROVE runs[j].at <= at
    <3>1. runs[j].at \in T /\ now - runs[j].at \in Back
      BY <2>5
    <3>2. now - at <= now - runs[j].at
      BY <2>3, <2>4, <3>1
    <3> HIDE DEF T, Back
    <3> QED BY <2>1, <3>1, <3>2
  <2> QED BY <2>5
<1>3. newest \in T /\ \A j \in RunsOf(t) : runs[j].at <= newest
  BY <1>2
<1>4. latest(t) = newest
  BY <1>1 DEF latest
<1> HIDE DEF newest
<1> QED BY <1>1, <1>3, <1>4

-------------------------------------------------------------------------------
(* What a step does to one tier leaves the others, whose rows stay theirs. *)
LEMMA OneTier ==
  ASSUME BackupInv, now' = now, NEW t \in Tiers, NEW state \in TierState, NEW dirs \in Seq(Directory), NEW rows \in Seq(RunRow),
         tier' = [tier EXCEPT ![t] = state], snapshots' = [snapshots EXCEPT ![t] = dirs], runs' = rows,
         \A i \in 1..Len(rows) : rows[i].tier # t => \E j \in 1..Len(runs) : rows[i] = runs[j],
         Chronicle(dirs, now), TierInv(t, state, dirs, rows), RunsAreSpaced'
  PROVE  BackupInv'
<1>1. /\ tier' \in [Tiers -> TierState] /\ tier'[t] = state /\ \A s \in Tiers \ {t} : tier'[s] = tier[s]
      /\ snapshots' \in [Tiers -> Seq(Directory)] /\ snapshots'[t] = dirs /\ \A s \in Tiers \ {t} : snapshots'[s] = snapshots[s]
  BY DEF BackupInv
<1>2. ASSUME NEW s \in Tiers \ {t} PROVE TierInv(s, tier[s], snapshots[s], rows)
  <2>1. TierInv(s, tier[s], snapshots[s], runs)
    BY DEF BackupInv
  <2>2. \A i \in 1..Len(rows) : rows[i].tier = s => \E j \in 1..Len(runs) : rows[i] = runs[j]
    OBVIOUS
  <2>3. RunsBehind(s, snapshots[s], rows)
    BY <2>1, <2>2 DEF TierInv, RunsBehind
  <2>4. tier[s].running => InProgress(s, tier[s], snapshots[s], rows)
    BY <2>1, <2>2 DEF TierInv, InProgress
  <2> QED BY <2>1, <2>3, <2>4 DEF TierInv
<1>3. \A s \in Tiers : Chronicle(snapshots'[s], now') /\ TierInv(s, tier'[s], snapshots'[s], runs')
  BY <1>1, <1>2 DEF BackupInv
<1>4. now' \in Nat /\ runs' \in Seq(RunRow)
  BY DEF BackupInv
<1> QED BY <1>1, <1>3, <1>4 DEF BackupInv

LEMMA BackupTypes ==
  ASSUME BackupInv, NEW t \in Tiers
  PROVE  /\ now \in Nat /\ tier[t] \in TierState /\ snapshots[t] \in Seq(Directory) /\ runs \in Seq(RunRow)
         /\ Chronicle(snapshots[t], now) /\ TierInv(t, tier[t], snapshots[t], runs) /\ RunsAreSpaced
         /\ Len(runs) \in Nat /\ \A i \in 1..Len(runs) : runs[i] \in RunRow /\ runs[i].at \in Nat
<1>1. Len(runs) \in Nat /\ \A i \in 1..Len(runs) : runs[i] \in RunRow
  BY LenProperties, ElementOfSeq DEF BackupInv
<1>2. \A i \in 1..Len(runs) : runs[i].at \in Nat
  BY <1>1 DEF RunRow
<1> QED BY <1>1, <1>2 DEF BackupInv

(* The directory a tier has filled last. *)
LEMMA LastDirectory ==
  ASSUME NEW dirs \in Seq(Directory), dirs # << >>
  PROVE  Len(dirs) \in Nat /\ Len(dirs) \in 1..Len(dirs) /\ dirs[Len(dirs)] \in Directory /\ dirs[Len(dirs)].at \in Nat
<1>1. Len(dirs) \in Nat \ {0}
  BY EmptySeq
<1>2. Len(dirs) \in 1..Len(dirs)
  BY <1>1
<1>3. dirs[Len(dirs)] \in Directory
  BY <1>2, ElementOfSeq
<1> QED BY <1>1, <1>2, <1>3 DEF Directory

LEMMA BackupStarts == Init => BackupInv
<1> SUFFICES ASSUME Init PROVE BackupInv
  OBVIOUS
<1>1. now = 0 /\ tier = [t \in Tiers |-> Fresh] /\ snapshots = [t \in Tiers |-> << >>] /\ runs = << >> /\ Len(<< >>) = 0
  BY DEF Init, BackupInit
<1>2. Fresh \in TierState /\ Fresh.last_started_at = Never /\ ~Fresh.running
  BY DEF Fresh, NoCycle, TierState, Cycle
<1>3. now \in Nat /\ tier \in [Tiers -> TierState] /\ snapshots \in [Tiers -> Seq(Directory)] /\ runs \in Seq(RunRow)
  BY <1>1, <1>2
<1>4. ASSUME NEW t \in Tiers PROVE Chronicle(snapshots[t], now) /\ TierInv(t, tier[t], snapshots[t], runs)
  <2>1. snapshots[t] = << >> /\ tier[t] = Fresh /\ Len(runs) = 0 /\ Len(snapshots[t]) = 0
    BY <1>1
  <2> QED BY <2>1, <1>2 DEF Chronicle, TierInv, RunsBehind
<1>5. RunsAreSpaced
  BY <1>1 DEF RunsAreSpaced
<1> QED BY <1>3, <1>4, <1>5 DEF BackupInv

LEMMA BeginsKeepsBackup ==
  ASSUME BackupInv, NEW t \in Tiers, NEW manual \in BOOLEAN, begins(t, manual),
         ~manual => \A i \in 1..Len(runs) : runs[i].tier = t => now - runs[i].at > Interval[t]
  PROVE  BackupInv'
<1> DEFINE dirs == snapshots[t]
           state == [running |-> TRUE, last_started_at |-> now, cycle |-> [at |-> now, todo |-> Files[t], failed |-> {}]]
           dir == [at |-> now, files |-> {}, manual |-> manual]
           more == Append(dirs, dir)
<1>1. /\ now \in Nat /\ dirs \in Seq(Directory) /\ runs \in Seq(RunRow) /\ Chronicle(dirs, now)
      /\ RunsBehind(t, dirs, runs) /\ RunsAreSpaced
      /\ \A i \in 1..Len(runs) : runs[i] \in RunRow /\ runs[i].at \in Nat
  BY BackupTypes DEF TierInv
<1>2. state \in TierState /\ dir \in Directory /\ dir.at = now
  BY <1>1 DEF TierState, Cycle, Directory, AnyFile
<1>3. /\ tier' = [tier EXCEPT ![t] = state] /\ snapshots' = [snapshots EXCEPT ![t] = more] /\ runs' = runs /\ now' = now
      /\ \A k \in 1..Len(dirs) : dirs[k].at # now
  BY DEF begins, BackupInv
<1>4. /\ more \in Seq(Directory) /\ Chronicle(more, now) /\ more # << >> /\ more[Len(more)] = dir
      /\ \A run \in RunRow : run.at <= now /\ RunKept(run, dirs) => RunKept(run, more)
  <2> HIDE DEF dir, dirs
  <2> QED BY <1>1, <1>2, <1>3, BegunDir
<1>5. ASSUME NEW i \in 1..Len(runs), runs[i].tier = t PROVE runs[i].at < now /\ RunKept(runs[i], more)
  <2>1. dirs # << >> /\ runs[i].at <= dirs[Len(dirs)].at /\ RunKept(runs[i], dirs)
    BY <1>1, <1>5 DEF RunsBehind
  <2>2. Len(dirs) \in 1..Len(dirs) /\ dirs[Len(dirs)].at \in Nat
    BY <1>1, <2>1, LastDirectory
  <2>3. dirs[Len(dirs)].at <= now /\ dirs[Len(dirs)].at # now
    BY <1>1, <1>3, <2>2 DEF Chronicle
  <2>4. runs[i].at < now
    <3> HIDE DEF dirs
    <3> QED BY <1>1, <2>1, <2>2, <2>3
  <2> HIDE DEF dirs, more
  <2>5. runs[i].at <= now /\ runs[i] \in RunRow
    BY <1>1, <2>4
  <2> QED BY <1>4, <2>1, <2>4, <2>5
<1> HIDE DEF more
<1>6. InProgress(t, state, more, runs)
  <2>1. \A i \in 1..Len(runs) : runs[i].tier = t /\ ~manual => now - runs[i].at > Interval[t]
    OBVIOUS
  <2> QED BY <1>4, <1>5, <2>1 DEF InProgress
<1>7. RunsBehind(t, more, runs)
  <2>1. \A i \in 1..Len(runs) : runs[i].tier = t => runs[i].at <= now
    BY <1>1, <1>5
  <2> QED BY <1>4, <1>5, <2>1 DEF RunsBehind
<1>8. TierInv(t, state, more, runs)
  BY <1>4, <1>6, <1>7 DEF TierInv
<1>9. RunsAreSpaced'
  BY <1>1, <1>3 DEF RunsAreSpaced
<1> HIDE DEF state, dir, dirs
<1> QED BY <1>1, <1>2, <1>3, <1>4, <1>8, <1>9, OneTier

LEMMA FileKeepsBackup ==
  ASSUME BackupInv, NEW t \in Tiers, backup_one_file(t)
  PROVE  BackupInv'
<1> DEFINE dirs == snapshots[t]
           cycle == tier[t].cycle
           n == Len(dirs)
<1>1. /\ now \in Nat /\ dirs \in Seq(Directory) /\ runs \in Seq(RunRow) /\ Chronicle(dirs, now)
      /\ tier[t] \in TierState /\ TierInv(t, tier[t], dirs, runs) /\ RunsAreSpaced
      /\ \A i \in 1..Len(runs) : runs[i] \in RunRow /\ runs[i].at \in Nat
  BY BackupTypes
<1>2. tier[t].running /\ InProgress(t, tier[t], dirs, runs) /\ RunsBehind(t, dirs, runs)
  BY <1>1 DEF backup_one_file, Running, TierInv
<1>3. PICK f \in cycle.todo :
        /\ \/ /\ tier' = [tier EXCEPT ![t].cycle.todo = @ \ {f}]
              /\ snapshots' = [snapshots EXCEPT ![t][n].files = @ \cup {f}]
           \/ /\ tier' = [tier EXCEPT ![t].cycle.todo = @ \ {f}, ![t].cycle.failed = @ \cup {f}]
              /\ UNCHANGED snapshots
        /\ UNCHANGED <<runs, now>>
  BY DEF backup_one_file
<1>4. f \in Files[t] /\ f \in AnyFile /\ f \notin cycle.failed /\ cycle \in Cycle /\ dirs # << >> /\ dirs[n].at = cycle.at
      /\ dirs[n].files = Files[t] \ (cycle.todo \cup cycle.failed)
  BY <1>1, <1>2, <1>3 DEF InProgress, AnyFile, TierState
<1>5. RunsAreSpaced'
  BY <1>1, <1>3 DEF RunsAreSpaced
<1>6. CASE /\ tier' = [tier EXCEPT ![t].cycle.todo = @ \ {f}]
           /\ snapshots' = [snapshots EXCEPT ![t][n].files = @ \cup {f}]
  <2> DEFINE more == [dirs EXCEPT ![n].files = @ \cup {f}]
             state == [tier[t] EXCEPT !.cycle.todo = @ \ {f}]
  <2>1. /\ more \in Seq(Directory) /\ Chronicle(more, now) /\ more # << >> /\ Len(more) = n
        /\ more[n] = [dirs[n] EXCEPT !.files = @ \cup {f}]
        /\ \A run \in RunRow : run.at < dirs[n].at /\ RunKept(run, dirs) => RunKept(run, more)
    BY <1>1, <1>4, FilledDir
  <2>2. more[n].at = dirs[n].at /\ more[n].manual = dirs[n].manual /\ more[n].files = dirs[n].files \cup {f}
    <3>1. dirs[n] \in Directory
      BY <1>1, <1>4, LastDirectory
    <3> HIDE DEF more
    <3> QED BY <2>1, <3>1 DEF Directory
  <2>3. /\ state \in TierState /\ state.running = tier[t].running /\ state.last_started_at = tier[t].last_started_at
        /\ state.cycle = [at |-> cycle.at, todo |-> cycle.todo \ {f}, failed |-> cycle.failed]
    BY <1>1, <1>4 DEF TierState, Cycle
  <2>4. tier' = [tier EXCEPT ![t] = state] /\ snapshots' = [snapshots EXCEPT ![t] = more]
    BY <1>6 DEF BackupInv
  <2> HIDE DEF more, state
  <2>5. InProgress(t, state, more, runs)
    <3>1. more[n].files = Files[t] \ ((cycle.todo \ {f}) \cup cycle.failed)
      BY <1>4, <2>2
    <3> QED BY <1>2, <2>1, <2>2, <2>3, <3>1 DEF InProgress
  <2>6. RunsBehind(t, more, runs)
    <3>1. \A i \in 1..Len(runs) : runs[i].tier = t => runs[i].at < dirs[n].at
      BY <1>2 DEF InProgress
    <3> QED BY <1>1, <1>2, <2>1, <2>2, <3>1 DEF RunsBehind
  <2>7. TierInv(t, state, more, runs)
    BY <1>1, <2>1, <2>2, <2>3, <2>5, <2>6 DEF TierInv
  <2> HIDE DEF dirs, n, cycle
  <2> QED BY <1>1, <1>3, <1>5, <2>1, <2>3, <2>4, <2>7, OneTier
<1>7. CASE /\ tier' = [tier EXCEPT ![t].cycle.todo = @ \ {f}, ![t].cycle.failed = @ \cup {f}]
           /\ UNCHANGED snapshots
  <2> DEFINE state == [tier[t] EXCEPT !.cycle.todo = @ \ {f}, !.cycle.failed = @ \cup {f}]
  <2>1. /\ state \in TierState /\ state.running = tier[t].running /\ state.last_started_at = tier[t].last_started_at
        /\ state.cycle = [at |-> cycle.at, todo |-> cycle.todo \ {f}, failed |-> cycle.failed \cup {f}]
    BY <1>1, <1>4 DEF TierState, Cycle
  <2>2. tier' = [tier EXCEPT ![t] = state] /\ snapshots' = [snapshots EXCEPT ![t] = dirs]
    BY <1>7 DEF BackupInv
  <2> HIDE DEF state
  <2>3. InProgress(t, state, dirs, runs)
    <3>1. dirs[n].files = Files[t] \ ((cycle.todo \ {f}) \cup (cycle.failed \cup {f}))
      BY <1>3, <1>4
    <3> QED BY <1>2, <1>4, <2>1, <3>1 DEF InProgress
  <2>4. TierInv(t, state, dirs, runs)
    BY <1>1, <1>2, <2>1, <2>3 DEF TierInv
  <2> HIDE DEF dirs
  <2> QED BY <1>1, <1>3, <1>5, <2>1, <2>2, <2>4, OneTier
<1> QED BY <1>3, <1>6, <1>7

LEMMA FinishKeepsBackup ==
  ASSUME BackupInv, NEW t \in Tiers, finish_cycle(t)
  PROVE  BackupInv'
<1> DEFINE dirs == snapshots[t]
           cycle == tier[t].cycle
           n == Len(dirs)
           left == prune_old_snapshots(dirs)
           state == [tier[t] EXCEPT !.running = FALSE, !.cycle = NoCycle]
           row == [tier |-> t, at |-> cycle.at, failed |-> cycle.failed, manual |-> dirs[n].manual]
           more == Append(runs, row)
<1>1. /\ now \in Nat /\ dirs \in Seq(Directory) /\ runs \in Seq(RunRow) /\ Chronicle(dirs, now)
      /\ tier[t] \in TierState /\ TierInv(t, tier[t], dirs, runs) /\ RunsAreSpaced
      /\ Len(runs) \in Nat /\ \A i \in 1..Len(runs) : runs[i] \in RunRow /\ runs[i].at \in Nat
  BY BackupTypes
<1>2. InProgress(t, tier[t], dirs, runs) /\ RunsBehind(t, dirs, runs) /\ cycle.todo = {}
  BY <1>1 DEF finish_cycle, Running, TierInv
<1>3. /\ dirs # << >> /\ dirs[n].at = cycle.at /\ dirs[n].files = Files[t] \ cycle.failed /\ dirs[n] \in Directory
      /\ n \in 1..n /\ cycle.at \in Nat
  BY <1>1, <1>2, LastDirectory DEF InProgress
<1>4. /\ left \in Seq(Directory) /\ Chronicle(left, now) /\ left # << >> /\ left[Len(left)] = dirs[n]
      /\ \A run \in RunRow : RunKept(run, dirs) => RunKept(run, left)
  BY <1>1, <1>3, PrunedDirs
<1>5. /\ state \in TierState /\ ~state.running /\ state.last_started_at = tier[t].last_started_at
  BY <1>1 DEF TierState, NoCycle, Cycle
<1>6. /\ tier' = [tier EXCEPT ![t] = state] /\ snapshots' = [snapshots EXCEPT ![t] = left] /\ now' = now
      /\ runs' = more \/ runs' = runs
  BY DEF finish_cycle, BackupInv
<1>7. row \in RunRow
  BY <1>1, <1>3 DEF RunRow, TierState, Cycle, Directory
<1> HIDE DEF left, state
<1>8. RunsBehind(t, left, runs)
  BY <1>1, <1>2, <1>4 DEF RunsBehind
<1>9. TierInv(t, state, left, runs)
  BY <1>1, <1>4, <1>5, <1>8 DEF TierInv
<1>10. CASE runs' = runs
  <2>1. RunsAreSpaced'
    BY <1>1, <1>10 DEF RunsAreSpaced
  <2> HIDE DEF dirs
  <2> QED BY <1>1, <1>4, <1>5, <1>6, <1>9, <1>10, <2>1, OneTier
<1>11. CASE runs' = more
  <2>1. more \in Seq(RunRow) /\ Len(more) = Len(runs) + 1 /\ more[Len(runs) + 1] = row /\ \A i \in 1..Len(runs) : more[i] = runs[i]
    <3> HIDE DEF row
    <3> QED BY <1>1, <1>7, AppendProperties
  <2> HIDE DEF more
  <2>2. \A i \in 1..Len(more) : i \in 1..Len(runs) \/ i = Len(runs) + 1
    BY <1>1, <2>1
  <2>3. RunKept(row, left)
    <3>1. Len(left) \in 1..Len(left)
      BY <1>4, LastDirectory
    <3> QED BY <1>3, <1>4, <3>1 DEF RunKept
  <2>4. RunsBehind(t, left, more)
    <3>1. row.at <= left[Len(left)].at
      BY <1>3, <1>4
    <3> HIDE DEF row
    <3> QED BY <1>4, <1>8, <2>1, <2>2, <2>3, <3>1 DEF RunsBehind
  <2>5. TierInv(t, state, left, more)
    BY <1>9, <1>5, <2>4 DEF TierInv
  <2>6. \A i \in 1..Len(more) : more[i].tier # t => \E j \in 1..Len(runs) : more[i] = runs[j]
    BY <2>1, <2>2
  <2>7. RunsAreSpaced'
    <3> SUFFICES ASSUME NEW i \in 1..Len(more), NEW j \in 1..Len(more), more[i].tier = more[j].tier, more[i].at < more[j].at, ~more[j].manual
                 PROVE  more[j].at - more[i].at > Interval[more[i].tier]
      BY <1>11 DEF RunsAreSpaced
    <3>1. CASE i \in 1..Len(runs) /\ j \in 1..Len(runs)
      BY <1>1, <2>1, <3>1 DEF RunsAreSpaced
    <3>2. CASE i \in 1..Len(runs) /\ j = Len(runs) + 1
      BY <1>2, <1>3, <2>1, <3>2 DEF InProgress
    <3>3. CASE i = Len(runs) + 1
      <4>1. more[i].at = cycle.at /\ more[i].tier = t
        BY <2>1, <3>3
      <4>2. more[j].at <= cycle.at /\ more[j].at \in Nat
        <5>1. CASE j = Len(runs) + 1
          BY <1>3, <2>1, <5>1
        <5>2. CASE j \in 1..Len(runs)
          <6>1. runs[j].at < cycle.at /\ runs[j].at \in Nat
            BY <1>1, <1>2, <2>1, <4>1, <5>2 DEF InProgress
          <6> QED BY <1>3, <2>1, <5>2, <6>1
        <5> QED BY <2>2, <5>1, <5>2
      <4> HIDE DEF cycle
      <4> QED BY <1>3, <4>1, <4>2
    <3> QED BY <2>2, <3>1, <3>2, <3>3
  <2> HIDE DEF dirs
  <2> QED BY <1>4, <1>5, <1>6, <1>11, <2>1, <2>5, <2>6, <2>7, OneTier
<1> QED BY <1>6, <1>10, <1>11

LEMMA BackupOwnsItsState ==
  [Next]_vars => \/ BackupNext
                 \/ restart_backup /\ now' = now
                 \/ UNCHANGED backupVars
<1> SUFFICES ASSUME [Next]_vars, ~BackupNext, ~(restart_backup /\ now' = now) PROVE UNCHANGED backupVars
  OBVIOUS
<1>1. CASE coordinate \/ rest \/ alerting \/ trade_shadow \/ observe \/ sample \/ tick
  BY <1>1 DEF coordinate, rest, alerting, trade_shadow, observe, sample, tick
<1>2. CASE UNCHANGED vars
  BY <1>2 DEF vars
<1> QED BY <1>1, <1>2 DEF Next, backup, restart

LEMMA BackupStep == BackupInv /\ [Next]_vars => BackupInv'
<1> SUFFICES ASSUME BackupInv, [Next]_vars PROVE BackupInv'
  OBVIOUS
<1>1. now \in Nat /\ now' \in Nat /\ now <= now'
  BY ClockStep DEF BackupInv
<1>2. CASE UNCHANGED backupVars
  <2>1. \A t \in Tiers : Chronicle(snapshots[t], now')
    <3> SUFFICES ASSUME NEW t \in Tiers, NEW k \in 1..Len(snapshots[t]) PROVE snapshots[t][k].at <= now'
      BY DEF BackupInv, Chronicle
    <3>1. snapshots[t][k].at <= now /\ snapshots[t] \in Seq(Directory)
      BY DEF BackupInv, Chronicle
    <3>2. snapshots[t][k] \in Directory
      BY <3>1, ElementOfSeq
    <3>3. snapshots[t][k].at \in Nat
      BY <3>2 DEF Directory
    <3> QED BY <1>1, <3>1, <3>3
  <2>2. RunsAreSpaced'
    BY <1>2 DEF BackupInv, RunsAreSpaced, backupVars
  <2> QED BY <1>1, <1>2, <2>1, <2>2 DEF BackupInv, backupVars
<1>3. CASE restart_backup /\ now' = now
  <2>1. Fresh \in TierState /\ Fresh.last_started_at = Never /\ ~Fresh.running
    BY DEF Fresh, NoCycle, TierState, Cycle
  <2>2. \A t \in Tiers : TierInv(t, Fresh, snapshots[t], runs)
    BY <2>1 DEF BackupInv, TierInv
  <2>3. RunsAreSpaced'
    BY <1>3 DEF BackupInv, RunsAreSpaced, restart_backup
  <2>4. tier' \in [Tiers -> TierState] /\ \A t \in Tiers : tier'[t] = Fresh
    BY <1>3, <2>1 DEF restart_backup
  <2> QED BY <1>1, <1>3, <2>2, <2>3, <2>4 DEF BackupInv, restart_backup
<1>4. ASSUME NEW t \in Tiers, maybe_run_backup(t) PROVE BackupInv'
  <2>1. begins(t, FALSE) /\ now - seeded(t) > Interval[t]
    BY <1>4 DEF maybe_run_backup
  <2>2. ASSUME NEW i \in 1..Len(runs), runs[i].tier = t PROVE now - runs[i].at > Interval[t]
    <3>1. runs[i].at \in Nat /\ RunsBehind(t, snapshots[t], runs) /\ tier[t] \in TierState /\ TierInv(t, tier[t], snapshots[t], runs)
      BY BackupTypes DEF TierInv
    <3>2. seeded(t) \in Nat /\ runs[i].at <= seeded(t)
      <4>1. CASE tier[t].last_started_at = Never
        BY <2>2, <4>1, LatestIsLast DEF seeded
      <4>2. CASE tier[t].last_started_at # Never
        BY <2>2, <3>1, <4>2 DEF seeded, TierInv, RunsBehind, TierState
      <4> QED BY <4>1, <4>2
    <3>3. Interval[t] \in Nat
      BY BackupAssumption
    <3> QED BY <1>1, <2>1, <3>1, <3>2, <3>3
  <2> QED BY <2>1, <2>2, BeginsKeepsBackup
<1>5. ASSUME NEW t \in Tiers, run_backup_now(t) PROVE BackupInv'
  BY <1>5, BeginsKeepsBackup DEF run_backup_now
<1> QED BY <1>2, <1>3, <1>4, <1>5, FileKeepsBackup, FinishKeepsBackup, BackupOwnsItsState DEF BackupNext

(* When the run's own directory is gone, as many newer ones are there. *)
LEMMA CopiesAreKept == BackupInv => RecordedIsKept
<1> SUFFICES ASSUME BackupInv, NEW i \in 1..Len(runs)
             PROVE  LET t == runs[i].tier
                        newer == {k \in 1..Len(snapshots[t]) : snapshots[t][k].at > runs[i].at}
                    IN  \/ \E k \in 1..Len(snapshots[t]) : snapshots[t][k].at = runs[i].at /\ snapshots[t][k].files = Files[t] \ runs[i].failed
                        \/ Cardinality(newer) >= Retention
  BY DEF RecordedIsKept
<1> DEFINE t == runs[i].tier
           dirs == snapshots[t]
           n == Len(dirs)
           newer == {k \in 1..n : dirs[k].at > runs[i].at}
<1>1. runs[i] \in RunRow /\ t \in Tiers /\ runs[i].at \in Nat
  <2>1. runs[i] \in RunRow
    BY ElementOfSeq DEF BackupInv
  <2> QED BY <2>1 DEF RunRow
<1>2. dirs \in Seq(Directory) /\ Chronicle(dirs, now) /\ RunKept(runs[i], dirs)
  BY <1>1, BackupTypes DEF TierInv, RunsBehind
<1>3. n \in Nat /\ Retention \in Nat
  BY <1>2, LenProperties, BackupAssumption
<1>4. newer \subseteq 1..n /\ IsFiniteSet(newer) /\ Cardinality(newer) \in Nat
  <2>1. newer \subseteq 1..n /\ IsFiniteSet(1..n)
    <3>1. newer \subseteq 1..n
      OBVIOUS
    <3> HIDE DEF newer, n
    <3> QED BY <1>3, <3>1, FS_Interval
  <2>2. IsFiniteSet(newer)
    BY <2>1, FS_Subset
  <2> QED BY <2>1, <2>2, FS_CardinalityType
<1>5. CASE Retention = 0
  BY <1>4, <1>5
<1>6. CASE Retention # 0 /\ n >= Retention /\ dirs[n - Retention + 1].at > runs[i].at
  <2> DEFINE m == n - Retention + 1
  <2>1. m \in 1..n /\ n - m + 1 = Retention
    <3> HIDE DEF n
    <3> QED BY <1>3, <1>6
  <2>2. \A k \in 1..n : dirs[k].at \in Nat
    <3>1. \A k \in 1..n : dirs[k] \in Directory
      BY <1>2, ElementOfSeq
    <3> QED BY <3>1 DEF Directory
  <2>3. dirs[m].at > runs[i].at
    BY <1>6
  <2> HIDE DEF m
  <2>4. ASSUME NEW k \in m..n PROVE k \in newer
    <3>1. k \in 1..n /\ (k = m \/ m < k)
      BY <2>1
    <3>2. dirs[k].at = dirs[m].at \/ dirs[m].at < dirs[k].at
      BY <1>2, <2>1, <3>1 DEF Chronicle
    <3>3. dirs[k].at > runs[i].at
      <4> DEFINE a == dirs[k].at
                 b == dirs[m].at
                 c == runs[i].at
      <4>1. a \in Nat /\ b \in Nat /\ c \in Nat /\ (a = b \/ b < a) /\ b > c
        BY <1>1, <2>1, <2>2, <2>3, <3>1, <3>2
      <4> HIDE DEF a, b, c
      <4>2. a > c
        BY <4>1
      <4> QED BY <4>2 DEF a, c
    <3> QED BY <3>1, <3>3
  <2>5. m..n \subseteq newer
    BY <2>4
  <2> HIDE DEF newer
  <2>6. Cardinality(m..n) <= Cardinality(newer)
    BY <1>4, <2>5, FS_Subset
  <2>7. Cardinality(m..n) = Retention
    <3>1. m \in Int /\ n \in Int /\ ~(m > n)
      BY <1>3, <2>1
    <3>2. Cardinality(m..n) = n - m + 1
      <4> HIDE DEF n
      <4> QED BY <3>1, FS_Interval
    <3> QED BY <2>1, <3>2
  <2> QED BY <1>3, <1>4, <2>6, <2>7 DEF newer
<1>7. CASE \E k \in 1..n : dirs[k].at = runs[i].at /\ dirs[k].files = Files[t] \ runs[i].failed
  BY <1>7
<1> HIDE DEF newer, n, dirs
<1> QED BY <1>2, <1>5, <1>6, <1>7 DEF RunKept, newer, n, dirs

-------------------------------------------------------------------------------
(* The halt of the shadow trader, and the gate of the sampler: what the        *)
(* process remembers is what it stored, or it looks that up.                  *)

LEMMA ShadowOwnsItsState ==
  [Next]_vars => \/ ShadowNext
                 \/ restart_shadow
                 \/ UNCHANGED shadowVars
<1> SUFFICES ASSUME [Next]_vars, ~ShadowNext, ~restart_shadow PROVE UNCHANGED shadowVars
  OBVIOUS
<1>1. CASE coordinate \/ rest \/ alerting \/ backup \/ observe \/ sample \/ tick
  BY <1>1 DEF coordinate, rest, alerting, backup, observe, sample, tick
<1>2. CASE UNCHANGED vars
  BY <1>2 DEF vars
<1> QED BY <1>1, <1>2 DEF Next, trade_shadow, restart

LEMMA HaltStep == HaltIsStored /\ [Next]_vars => HaltIsStored'
<1> SUFFICES ASSUME HaltIsStored, [Next]_vars PROVE HaltIsStored'
  OBVIOUS
<1>1. ASSUME NEW risk, persist_risk(risk) PROVE HaltIsStored'
  BY <1>1 DEF persist_risk, HaltIsStored
<1>2. CASE evaluate_shadow
  <2>1. PICK k \in ShadowTickers, bankroll \in Bankrolls, kill_switch \in BOOLEAN : store_check(checked(bankroll, kill_switch))
    BY <1>2 DEF evaluate_shadow
  <2> QED BY <1>1, <2>1 DEF store_check, HaltIsStored
<1>3. CASE resume_shadow \/ clear_shadow
  BY <1>1, <1>3 DEF resume_shadow, clear_shadow
<1>4. CASE restart_shadow \/ UNCHANGED shadowVars
  BY <1>4 DEF restart_shadow, shadowVars, HaltIsStored
<1> QED BY <1>2, <1>3, <1>4, ShadowOwnsItsState DEF ShadowNext

(* A step stores a sample, takes a stall or starts the process again, or        *)
(* leaves the watchdog's window and the samples alone.                        *)
LEMMA SamplerOwnsItsState ==
  [Next]_vars => \/ maybe_capture
                 \/ stall
                 \/ restart_telemetry
                 \/ UNCHANGED <<samples, last_sample_at, stalls>>
<1> SUFFICES ASSUME [Next]_vars, ~maybe_capture, ~stall, ~restart_telemetry PROVE UNCHANGED <<samples, last_sample_at, stalls>>
  OBVIOUS
<1>1. CASE coordinate \/ rest \/ alerting \/ backup \/ trade_shadow \/ tick
  BY <1>1 DEF coordinate, rest, alerting, backup, trade_shadow, tick, telemetryVars
<1>2. CASE observe
  BY <1>2 DEF observe, TelemetryNext, fault_occurs, prune_faults, record_book, record_game, buffered, flush_swaps, flush_writes
<1>3. CASE UNCHANGED vars
  BY <1>3 DEF vars, telemetryVars
<1> QED BY <1>1, <1>2, <1>3 DEF Next, sample, restart

Sample == [at : Nat, stalls : Nat]
SampleInv ==
  /\ now \in Nat /\ stalls \in [window : Nat, ever : Int] /\ samples \in Seq(Sample)
  /\ last_sample_at \in {Unsampled, latest_sample_time}
  /\ SamplesAreSpaced

LEMMA SampleStarts == Init => SampleInv
<1> SUFFICES ASSUME Init PROVE SampleInv
  OBVIOUS
<1>1. now = 0 /\ stalls = [window |-> 0, ever |-> 0] /\ samples = << >> /\ last_sample_at = Unsampled /\ Len(samples) = 0
  BY DEF Init, TelemetryInit
<1> QED BY <1>1 DEF SampleInv, SamplesAreSpaced

LEMMA CaptureIsSpaced ==
  ASSUME SampleInv, maybe_capture, samples' = Append(samples, capture_from_runtime), last_sample_at' = now
  PROVE  samples' \in Seq(Sample) /\ last_sample_at' = latest_sample_time' /\ SamplesAreSpaced'
<1> DEFINE n == Len(samples)
           new == capture_from_runtime
<1>1. /\ now \in Nat /\ new \in Sample /\ new.at = now /\ samples \in Seq(Sample) /\ n \in Nat
      /\ SampleInterval \in Nat /\ \A i \in 1..n : samples[i] \in Sample
  BY TelemetryAssumption, ElementOfSeq, LenProperties DEF SampleInv, Sample, capture_from_runtime
<1>2. samples' \in Seq(Sample) /\ samples' # << >> /\ Len(samples') = n + 1 /\ samples'[n + 1] = new /\ \A i \in 1..n : samples'[i] = samples[i]
  BY <1>1, AppendProperties
<1>3. latest_sample_time' = now
  BY <1>1, <1>2 DEF latest_sample_time
<1>4. n > 0 => samples[n].at \in Nat /\ now - samples[n].at >= SampleInterval
  <2> SUFFICES ASSUME n > 0 PROVE samples[n].at \in Nat /\ now - samples[n].at >= SampleInterval
    OBVIOUS
  <2>1. n \in 1..n
    BY <1>1
  <2>2. samples[n].at \in Nat
    BY <1>1, <2>1 DEF Sample
  <2>3. samples # << >>
    BY <1>1, <2>1
  <2>4. SampleGate = samples[n].at
    BY <2>3 DEF SampleGate, SampleInv, latest_sample_time
  <2> QED BY <2>2, <2>4 DEF maybe_capture, Unsampled
<1>5. SamplesAreSpaced'
  <2> SUFFICES ASSUME NEW i \in 2..n + 1 PROVE samples'[i].at - samples'[i - 1].at >= SampleInterval
    BY <1>2 DEF SamplesAreSpaced
  <2>1. CASE i = n + 1
    <3>1. n \in 1..n /\ n > 0 /\ i - 1 = n
      BY <1>1, <2>1
    <3> QED BY <1>1, <1>2, <1>4, <2>1, <3>1
  <2>2. CASE i \in 2..n
    <3>1. i \in 1..n /\ i - 1 \in 1..n
      BY <1>1, <2>2
    <3> QED BY <1>2, <2>2, <3>1 DEF SampleInv, SamplesAreSpaced
  <2> QED BY <1>1, <2>1, <2>2
<1> QED BY <1>2, <1>3, <1>5

LEMMA RestartEmptiesTheWindow ==
  restart_telemetry => /\ samples' = samples /\ last_sample_at' = Unsampled
                       /\ stalls' = [window |-> 0, ever |-> stalls.ever - stalls.window]
BY ZenonT(20) DEF restart_telemetry

LEMMA SampleStep == ASSUME SampleInv, [Next]_vars PROVE SampleInv'
<1>0. stalls' \in [window : Nat, ever : Int]
  <2>1. stalls \in [window : Nat, ever : Int]
    BY DEF SampleInv
  <2>2. CASE maybe_capture \/ UNCHANGED <<samples, last_sample_at, stalls>>
    BY <2>1, <2>2 DEF maybe_capture, store_then_reset
  <2>3. CASE stall
    BY <2>1, <2>3 DEF stall
  <2>4. CASE restart_telemetry
    BY <2>1, <2>4, RestartEmptiesTheWindow
  <2> QED BY <2>2, <2>3, <2>4, SamplerOwnsItsState
<1>1. now \in Nat /\ now' \in Nat
  BY ClockStep DEF SampleInv
<1>2. CASE UNCHANGED <<samples, last_sample_at>>
  BY <1>0, <1>1, <1>2 DEF SampleInv, SamplesAreSpaced, latest_sample_time
<1>3. CASE maybe_capture
  <2>1. CASE samples' = Append(samples, capture_from_runtime) /\ last_sample_at' = now
    BY <1>0, <1>1, <1>3, <2>1, CaptureIsSpaced DEF SampleInv
  <2>2. CASE samples' = samples /\ last_sample_at' = SampleGate
    <3>1. SampleGate \in {Unsampled, latest_sample_time} /\ latest_sample_time' = latest_sample_time
      BY <2>2 DEF SampleInv, SampleGate, latest_sample_time
    <3>2. SamplesAreSpaced'
      BY <2>2 DEF SampleInv, SamplesAreSpaced
    <3> QED BY <1>0, <1>1, <2>2, <3>1, <3>2 DEF SampleInv
  <2> QED BY <1>3, <2>1, <2>2 DEF maybe_capture
<1>4. CASE stall
  BY <1>2, <1>4 DEF stall
<1>5. CASE restart_telemetry
  <2>1. samples' = samples /\ last_sample_at' = Unsampled
    BY <1>5, RestartEmptiesTheWindow
  <2>2. SamplesAreSpaced'
    BY <2>1 DEF SampleInv, SamplesAreSpaced
  <2> QED BY <1>0, <1>1, <2>1, <2>2 DEF SampleInv
<1> QED BY <1>2, <1>3, <1>4, <1>5, SamplerOwnsItsState

(* What is stored is no longer in the window. *)
StallsIn(rows) == [i \in 1..Len(rows) |-> rows[i].stalls]

LEMMA StallsAreNumbers ==
  ASSUME NEW rows \in Seq(Sample)
  PROVE  /\ StallsIn(rows) \in Seq(Int) /\ SumOfAll(StallsIn(rows)) \in Int
         /\ \A row \in Sample : SumOfAll(StallsIn(Append(rows, row))) = SumOfAll(StallsIn(rows)) + row.stalls
<1> DEFINE n == Len(rows)
<1>1. n \in Nat /\ \A i \in 1..n : rows[i].stalls \in Int
  <2>1. n \in Nat /\ \A i \in 1..n : rows[i] \in Sample
    BY LenProperties, ElementOfSeq
  <2> QED BY <2>1 DEF Sample
<1>2. StallsIn(rows) \in Seq(Int) /\ Len(StallsIn(rows)) = n /\ \A i \in 1..n : StallsIn(rows)[i] = rows[i].stalls
  <2> HIDE DEF n
  <2>1. [i \in 1..n |-> rows[i].stalls] \in Seq(Int) /\ Len([i \in 1..n |-> rows[i].stalls]) = n
    BY <1>1, IsASeq
  <2> QED BY <2>1 DEF StallsIn, n
<1>3. ASSUME NEW row \in Sample PROVE StallsIn(Append(rows, row)) = Append(StallsIn(rows), row.stalls)
  <2> DEFINE more == Append(rows, row)
             both == Append(StallsIn(rows), row.stalls)
  <2>1. Len(more) = n + 1 /\ more[n + 1] = row /\ \A i \in 1..n : more[i] = rows[i]
    BY AppendProperties
  <2>2. row.stalls \in Int
    BY DEF Sample
  <2>3. both \in Seq(Int) /\ Len(both) = n + 1 /\ both[n + 1] = row.stalls /\ \A i \in 1..n : both[i] = rows[i].stalls
    BY <1>2, <2>2, AppendProperties
  <2> HIDE DEF more, both, n
  <2>4. \A i \in 1..n + 1 : more[i].stalls = both[i] /\ more[i].stalls \in Int
    BY <1>1, <2>1, <2>2, <2>3
  <2>5. [i \in 1..n + 1 |-> more[i].stalls] \in Seq(Int) /\ Len([i \in 1..n + 1 |-> more[i].stalls]) = n + 1
    BY <1>1, <2>4, IsASeq
  <2>6. StallsIn(more) = both
    BY <1>1, <2>1, <2>3, <2>4, <2>5, SeqEqual DEF StallsIn
  <2> QED BY <2>6 DEF more, both
<1>4. \A row \in Sample : row.stalls \in Int
  BY DEF Sample
<1>5. SumOfAll(StallsIn(rows)) \in Int
  <2>1. StallsIn(rows) \in Seq(Int) /\ 0 \in Int
    BY <1>2
  <2> QED BY <2>1, TotalAppends
<1>6. ASSUME NEW row \in Sample PROVE SumOfAll(StallsIn(Append(rows, row))) = SumOfAll(StallsIn(rows)) + row.stalls
  BY <1>2, <1>3, <1>4, TotalAppends
<1> QED BY <1>2, <1>5, <1>6

LEMMA SamplesAddUpStep == SampleInv /\ SamplesAddUp /\ [Next]_vars => SamplesAddUp'
<1> SUFFICES ASSUME SampleInv, SamplesAddUp, [Next]_vars PROVE SamplesAddUp'
  OBVIOUS
<1> DEFINE sum == SumOfAll(StallsIn(samples))
<1>1. stalls \in [window : Nat, ever : Int] /\ samples \in Seq(Sample) /\ now \in Nat
  BY DEF SampleInv
<1>2. sum \in Int /\ sum + stalls.window = stalls.ever
  BY <1>1, StallsAreNumbers DEF SamplesAddUp, StallsIn
<1> SUFFICES SumOfAll(StallsIn(samples')) + stalls'.window = stalls'.ever
  BY DEF SamplesAddUp, StallsIn
<1>4. CASE samples' = samples
  <2>1. SumOfAll(StallsIn(samples')) = sum
    BY <1>4
  <2>2. stalls'.window - stalls.window = stalls'.ever - stalls.ever /\ stalls'.window \in Int /\ stalls'.ever \in Int
    <3>1. CASE maybe_capture
      <4>1. samples' # Append(samples, capture_from_runtime)
        <5>1. capture_from_runtime \in Sample
          BY <1>1 DEF capture_from_runtime, Sample
        <5>2. Len(Append(samples, capture_from_runtime)) = Len(samples) + 1 /\ Len(samples) \in Nat
          BY <1>1, <5>1, AppendProperties, LenProperties
        <5> QED BY <1>4, <5>2
      <4> QED BY <1>1, <3>1, <4>1 DEF maybe_capture, store_then_reset
    <3>2. CASE stall \/ stalls' = stalls
      BY <1>1, <3>2 DEF stall
    <3>3. CASE restart_telemetry
      BY <1>1, <3>3, RestartEmptiesTheWindow
    <3> QED BY <3>1, <3>2, <3>3, SamplerOwnsItsState
  <2>3. stalls.window \in Int /\ stalls.ever \in Int
    BY <1>1
  <2> HIDE DEF sum
  <2> QED BY <1>2, <2>1, <2>2, <2>3
<1>5. CASE samples' = Append(samples, capture_from_runtime) /\ stalls' = [stalls EXCEPT !.window = 0]
  <2>1. capture_from_runtime \in Sample /\ capture_from_runtime.stalls = stalls.window
    BY <1>1 DEF capture_from_runtime, Sample
  <2>2. SumOfAll(StallsIn(samples')) = sum + stalls.window
    BY <1>1, <1>5, <2>1, StallsAreNumbers
  <2>3. stalls.window \in Int /\ stalls'.window = 0 /\ stalls'.ever = stalls.ever
    BY <1>1, <1>5
  <2> HIDE DEF sum
  <2> QED BY <1>2, <2>2, <2>3
<1>6. restart_telemetry \/ stall => samples' = samples
  BY RestartEmptiesTheWindow DEF stall
<1>7. maybe_capture => samples' = samples \/ (samples' = Append(samples, capture_from_runtime) /\ stalls' = [stalls EXCEPT !.window = 0])
  BY DEF maybe_capture, store_then_reset
<1> QED BY <1>4, <1>5, <1>6, <1>7, SamplerOwnsItsState

-------------------------------------------------------------------------------
(* The alerts. What check_and_alert makes of the table, category after         *)
(* category, is for each of them what its own transition makes of it.         *)

Alert == [category : Category \cup {"crash"}, at : Nat, resolved : BOOLEAN]
IsActive(rows, c) == \E i \in 1..Len(rows) : rows[i].category = c /\ ~rows[i].resolved

AlertInv ==
  /\ now \in Nat /\ bad \in [Category -> BOOLEAN] /\ known \in [Category -> BOOLEAN] /\ alerts \in Seq(Alert)
  /\ AlertsTellTheState

LEMMA ActiveIsActive == ASSUME NEW rows, NEW c PROVE IsActive(rows, c) <=> Active(rows, c) # {}
BY DEF IsActive, Active

LEMMA RecordedRows ==
  ASSUME NEW rows \in Seq(Alert), NEW c \in Category \cup {"crash"}, now \in Nat
  PROVE  Recorded(rows, c) \in Seq(Alert) /\ \A d : IsActive(Recorded(rows, c), d) <=> d = c \/ IsActive(rows, d)
<1> DEFINE row == [category |-> c, at |-> now, resolved |-> FALSE]
           more == Append(rows, row)
           n == Len(rows)
<1>1. row \in Alert /\ n \in Nat
  BY LenProperties DEF Alert
<1>2. more \in Seq(Alert) /\ Len(more) = n + 1 /\ more[n + 1] = row /\ \A i \in 1..n : more[i] = rows[i]
  BY <1>1, AppendProperties
<1>3. row.category = c /\ ~row.resolved
  OBVIOUS
<1>4. Recorded(rows, c) = more
  BY DEF Recorded
<1> HIDE DEF more, row
<1>5. ASSUME NEW d PROVE IsActive(more, d) <=> d = c \/ IsActive(rows, d)
  <2>1. ASSUME IsActive(more, d), d # c PROVE IsActive(rows, d)
    <3>1. PICK i \in 1..n + 1 : more[i].category = d /\ ~more[i].resolved
      BY <1>2, <2>1 DEF IsActive
    <3>2. i \in 1..n
      BY <1>1, <1>2, <1>3, <2>1, <3>1
    <3> QED BY <1>2, <3>1, <3>2 DEF IsActive
  <2>2. ASSUME IsActive(rows, d) PROVE IsActive(more, d)
    <3>1. PICK i \in 1..n : rows[i].category = d /\ ~rows[i].resolved
      BY <2>2 DEF IsActive
    <3>2. i \in 1..Len(more) /\ more[i] = rows[i]
      BY <1>1, <1>2
    <3> QED BY <3>1, <3>2 DEF IsActive
  <2>3. IsActive(more, c)
    <3>1. n + 1 \in 1..Len(more)
      BY <1>1, <1>2
    <3> QED BY <1>2, <1>3, <3>1 DEF IsActive
  <2> QED BY <2>1, <2>2, <2>3
<1> QED BY <1>2, <1>4, <1>5

LEMMA ResolvedRows ==
  ASSUME NEW rows \in Seq(Alert), NEW ids
  PROVE  /\ ResolvedAll(rows, ids) \in Seq(Alert)
         /\ \A d : IsActive(ResolvedAll(rows, ids), d) <=> \E i \in 1..Len(rows) : rows[i].category = d /\ ~rows[i].resolved /\ i \notin ids
<1> DEFINE n == Len(rows)
           out(i) == IF i \in ids THEN [rows[i] EXCEPT !.resolved = TRUE] ELSE rows[i]
           done == [i \in 1..n |-> out(i)]
<1>1. n \in Nat /\ \A i \in 1..n : rows[i] \in Alert
  BY LenProperties, ElementOfSeq
<1>2. \A i \in 1..n : out(i) \in Alert /\ out(i).category = rows[i].category /\ (out(i).resolved <=> rows[i].resolved \/ i \in ids)
  BY <1>1 DEF Alert
<1>3. done \in Seq(Alert) /\ Len(done) = n /\ \A i \in 1..n : done[i] = out(i)
  <2> HIDE DEF out, n
  <2> QED BY <1>1, <1>2, IsASeq
<1>4. ResolvedAll(rows, ids) = done
  BY DEF ResolvedAll
<1> HIDE DEF done, out
<1>5. ASSUME NEW d PROVE IsActive(done, d) <=> \E i \in 1..n : rows[i].category = d /\ ~rows[i].resolved /\ i \notin ids
  BY <1>2, <1>3 DEF IsActive
<1> QED BY <1>3, <1>4, <1>5

(* The expiry of crash alerts is no business of the watched categories. *)
LEMMA ExpiredRows ==
  ASSUME NEW rows \in Seq(Alert)
  PROVE  Expired(rows) \in Seq(Alert) /\ \A d : d # "crash" => (IsActive(Expired(rows), d) <=> IsActive(rows, d))
<1> DEFINE ids == {i \in Active(rows, "crash") : rows[i].at <= now - CrashAge}
<1>1. \A i \in ids : rows[i].category = "crash"
  BY DEF Active
<1>2. Expired(rows) = ResolvedAll(rows, ids)
  BY DEF Expired
<1> HIDE DEF ids
<1>3. ResolvedAll(rows, ids) \in Seq(Alert)
  BY ResolvedRows
<1>4. ASSUME NEW d, d # "crash" PROVE IsActive(ResolvedAll(rows, ids), d) <=> IsActive(rows, d)
  <2>1. IsActive(ResolvedAll(rows, ids), d) <=> \E i \in 1..Len(rows) : rows[i].category = d /\ ~rows[i].resolved /\ i \notin ids
    BY ResolvedRows
  <2>2. \A i : rows[i].category = d => i \notin ids
    BY <1>1, <1>4
  <2> QED BY <2>1, <2>2 DEF IsActive
<1> QED BY <1>2, <1>3, <1>4

LEMMA TransitionRows ==
  ASSUME NEW rows \in Seq(Alert), NEW c \in Category, now \in Nat, bad \in [Category -> BOOLEAN], known \in [Category -> BOOLEAN]
  PROVE  /\ transition(rows, c) \in Seq(Alert)
         /\ \A d : IsActive(transition(rows, c), d) <=> IF d = c /\ Writes(c) THEN bad[c] ELSE IsActive(rows, d)
<1>1. c \in Category \cup {"crash"}
  OBVIOUS
<1>2. CASE ~Writes(c)
  BY <1>2 DEF transition
<1>3. CASE Writes(c) /\ bad[c]
  <2>1. transition(rows, c) = Recorded(rows, c)
    BY <1>3 DEF transition
  <2> QED BY <1>1, <1>3, <2>1, RecordedRows
<1>4. CASE Writes(c) /\ ~bad[c]
  <2>1. transition(rows, c) = ResolvedAll(rows, Active(rows, c))
    BY <1>4 DEF transition, resolve_category
  <2>2. ASSUME NEW d PROVE (\E i \in 1..Len(rows) : rows[i].category = d /\ ~rows[i].resolved /\ i \notin Active(rows, c)) <=> d # c /\ IsActive(rows, d)
    BY DEF Active, IsActive
  <2> QED BY <1>4, <2>1, <2>2, ResolvedRows
<1> QED BY <1>2, <1>3, <1>4

(* RowsAfter as a table of what each category leaves. *)
Checks(upto, rows, f) == f = [i \in 0..upto |-> IF i = 0 THEN rows ELSE transition(f[i - 1], Watched[i])]

LEMMA ChecksExist == ASSUME NEW rows, NEW m \in Nat PROVE \E f : Checks(m, rows, f)
<1> DEFINE Without == {n \in Nat : ~ \E f : Checks(n, rows, f)}
<1> SUFFICES ASSUME Without # {} PROVE FALSE
  OBVIOUS
<1>1. PICK n \in Without : \A y \in Without : n <= y
  BY Least
<1>2. Checks(0, rows, [i \in 0..0 |-> rows])
  BY DEF Checks
<1>3. PICK f : Checks(n - 1, rows, f)
  BY <1>1, <1>2
<1> DEFINE g == [i \in 0..n |-> IF i = n THEN transition(f[n - 1], Watched[n]) ELSE f[i]]
<1>4. n \in Nat /\ n # 0 /\ n - 1 \in Nat
  BY <1>1, <1>2
<1>5. \A i \in 0..n - 1 : f[i] = IF i = 0 THEN rows ELSE transition(f[i - 1], Watched[i])
  BY <1>3 DEF Checks
<1>6. ASSUME NEW i \in 0..n PROVE g[i] = IF i = 0 THEN rows ELSE transition(g[i - 1], Watched[i])
  <2>1. CASE i = 0
    BY <1>4, <1>5, <2>1
  <2>2. CASE i = n
    BY <1>4, <2>2
  <2>3. CASE i # 0 /\ i # n
    <3>1. i \in 0..n - 1 /\ i - 1 \in 0..n /\ i - 1 # n
      BY <1>4, <2>3
    <3> QED BY <1>5, <2>3, <3>1
  <2> QED BY <2>1, <2>2, <2>3
<1>7. g = [i \in 0..n |-> g[i]]
  OBVIOUS
<1> HIDE DEF g
<1>8. Checks(n, rows, g)
  BY <1>6, <1>7 DEF Checks
<1> QED BY <1>1, <1>8

LEMMA CheckedRows ==
  ASSUME NEW rows \in Seq(Alert), NEW n \in 0..Len(Watched), now \in Nat, bad \in [Category -> BOOLEAN], known \in [Category -> BOOLEAN]
  PROVE  /\ RowsAfter(n, rows) \in Seq(Alert)
         /\ \A c \in Category :
              IsActive(RowsAfter(n, rows), c) <=>
                IF Writes(c) /\ c \in {Watched[i] : i \in 1..n} THEN bad[c] ELSE IsActive(rows, c)
<1> DEFINE f == CHOOSE g : Checks(n, rows, g)
           Right(k) == /\ f[k] \in Seq(Alert)
                       /\ \A c \in Category :
                            IsActive(f[k], c) <=> IF Writes(c) /\ c \in {Watched[i] : i \in 1..k} THEN bad[c] ELSE IsActive(rows, c)
           Odd == {k \in 0..n : ~Right(k)}
<1>1. n \in Nat /\ Len(Watched) \in Nat
  BY AlertingAssumption, LenProperties
<1>2. Checks(n, rows, f)
  BY <1>1, ChecksExist
<1>3. RowsAfter(n, rows) = f[n]
  BY DEF RowsAfter, Checks
<1> HIDE DEF f
<1>4. \A k \in 0..n : f[k] = IF k = 0 THEN rows ELSE transition(f[k - 1], Watched[k])
  BY <1>2 DEF Checks
<1>5. Right(0)
  BY <1>1, <1>4
<1>6. ASSUME NEW k \in 1..n, Right(k - 1) PROVE Right(k)
  <2>1. f[k] = transition(f[k - 1], Watched[k]) /\ Watched[k] \in Category
    <3>1. k \in 0..n /\ k # 0 /\ k \in 1..Len(Watched)
      BY <1>1
    <3>2. f[k] = transition(f[k - 1], Watched[k])
      BY <1>4, <3>1
    <3>3. Watched[k] \in Category
      BY <3>1 DEF Category
    <3> QED BY <3>2, <3>3
  <2>2. /\ f[k] \in Seq(Alert)
        /\ \A d : IsActive(f[k], d) <=> IF d = Watched[k] /\ Writes(Watched[k]) THEN bad[Watched[k]] ELSE IsActive(f[k - 1], d)
    BY <1>6, <2>1, TransitionRows
  <2>3. \A c : c \in {Watched[i] : i \in 1..k} <=> c = Watched[k] \/ c \in {Watched[i] : i \in 1..k - 1}
    <3>1. \A i : i \in 1..k <=> i = k \/ i \in 1..k - 1
      BY <1>1
    <3> QED BY <3>1
  <2> QED BY <1>6, <2>2, <2>3
<1>7. ASSUME Odd # {} PROVE FALSE
  <2>1. PICK k \in Odd : \A y \in Odd : k <= y
    <3>1. Odd \subseteq Nat
      OBVIOUS
    <3> HIDE DEF Odd
    <3> QED BY <1>7, <3>1, Least
  <2>2. k \in 1..n /\ k - 1 \in 0..n
    BY <1>1, <1>5, <2>1
  <2>3. Right(k - 1)
    <3> HIDE DEF Right
    <3> QED BY <1>1, <2>1, <2>2
  <2> HIDE DEF Right
  <2> QED BY <1>6, <2>1, <2>2, <2>3
<1>8. Right(n)
  <2> HIDE DEF Right
  <2> QED BY <1>1, <1>7
<1> QED BY <1>3, <1>8

LEMMA AlertingOwnsItsState ==
  [Next]_vars => \/ AlertingNext
                 \/ restart_alerting
                 \/ UNCHANGED alertVars
<1> SUFFICES ASSUME [Next]_vars, ~AlertingNext, ~restart_alerting PROVE UNCHANGED alertVars
  OBVIOUS
<1>1. CASE coordinate \/ rest \/ trade_shadow \/ backup \/ observe \/ sample \/ tick
  BY <1>1 DEF coordinate, rest, trade_shadow, backup, observe, sample, tick
<1>2. CASE UNCHANGED vars
  BY <1>2 DEF vars
<1> QED BY <1>1, <1>2 DEF Next, alerting, restart

LEMMA AlertStarts == Init => AlertInv
<1> SUFFICES ASSUME Init PROVE AlertInv
  OBVIOUS
<1>1. now = 0 /\ bad = [c \in Category |-> FALSE] /\ known = [c \in Category |-> FALSE] /\ alerts = << >> /\ Len(alerts) = 0
  BY DEF Init, AlertingInit
<1>2. \A c \in Category : Active(alerts, c) = {}
  BY <1>1 DEF Active
<1> QED BY <1>1, <1>2 DEF AlertInv, AlertsTellTheState

(* What a step leaves to be compared: every category that has changed since    *)
(* it was last touched has the alerts its last check calls for.               *)
LEMMA AlertsAgree ==
  ASSUME now' \in Nat, bad' \in [Category -> BOOLEAN], known' \in [Category -> BOOLEAN], alerts' \in Seq(Alert),
         \A c \in Category : c \notin unsure' => (known'[c] <=> IsActive(alerts', c))
  PROVE  AlertInv'
BY ActiveIsActive DEF AlertInv, AlertsTellTheState

LEMMA CheckKeepsAlerts == ASSUME AlertInv, check_and_alert, now' \in Nat PROVE AlertInv'
<1>1. /\ now \in Nat /\ bad \in [Category -> BOOLEAN] /\ known \in [Category -> BOOLEAN] /\ alerts \in Seq(Alert)
      /\ \A c \in Category : c \notin unsure => (known[c] <=> IsActive(alerts, c))
      /\ Len(Watched) \in Nat
  BY ActiveIsActive, AlertingAssumption, LenProperties DEF AlertInv, AlertsTellTheState
<1>2. /\ Expired(alerts) \in Seq(Alert) /\ \A c \in Category : IsActive(Expired(alerts), c) <=> IsActive(alerts, c)
  <2>1. \A c \in Category : c # "crash"
    BY AlertingAssumption DEF Category
  <2> QED BY <1>1, <2>1, ExpiredRows
<1>3. ASSUME NEW n \in 0..Len(Watched)
      PROVE  /\ RowsAfter(n, Expired(alerts)) \in Seq(Alert)
             /\ \A c \in Category : IsActive(RowsAfter(n, Expired(alerts)), c) <=>
                  IF Writes(c) /\ c \in {Watched[i] : i \in 1..n} THEN bad[c] ELSE IsActive(alerts, c)
  BY <1>1, <1>2, CheckedRows
<1>4. bad' = bad
  BY DEF check_and_alert
<1>5. CASE known' = bad /\ alerts' = RowsAfter(Len(Watched), Expired(alerts)) /\ unsure' = unsure \ {c \in Category : Writes(c)}
  <2>1. \A c \in Category : c \in {Watched[i] : i \in 1..Len(Watched)}
    BY DEF Category
  <2>2. Len(Watched) \in 0..Len(Watched)
    BY <1>1
  <2>3. ASSUME NEW c \in Category, c \notin unsure' PROVE known'[c] <=> IsActive(alerts', c)
    <3>1. Writes(c) \/ c \notin unsure
      BY <1>5, <2>3
    <3>2. IsActive(alerts', c) <=> IF Writes(c) THEN bad[c] ELSE IsActive(alerts, c)
      BY <1>3, <1>5, <2>1, <2>2
    <3> QED BY <1>1, <1>5, <3>1, <3>2 DEF Writes
  <2>4. alerts' \in Seq(Alert)
    BY <1>3, <1>5, <2>2
  <2> QED BY <1>1, <1>4, <1>5, <2>3, <2>4, AlertsAgree
<1>6. ASSUME NEW n \in 1..Len(Watched),
             known' = [c \in Category |-> IF c \in {Watched[i] : i \in 1..n} THEN bad[c] ELSE known[c]],
             alerts' = RowsAfter(n - 1, Expired(alerts)),
             unsure' = (unsure \ {c \in {Watched[i] : i \in 1..n - 1} : Writes(c)}) \cup {Watched[n]}
      PROVE  AlertInv'
  <2>1. n - 1 \in 0..Len(Watched)
    BY <1>1
  <2>2. \A c : c \in {Watched[i] : i \in 1..n} <=> c = Watched[n] \/ c \in {Watched[i] : i \in 1..n - 1}
    <3>1. \A i : i \in 1..n <=> i = n \/ i \in 1..n - 1
      BY <1>1
    <3> QED BY <3>1
  <2>3. ASSUME NEW c \in Category, c \notin unsure' PROVE known'[c] <=> IsActive(alerts', c)
    <3>1. c # Watched[n] /\ ((Writes(c) /\ c \in {Watched[i] : i \in 1..n - 1}) \/ c \notin unsure)
      BY <1>6, <2>3
    <3>2. IsActive(alerts', c) <=> IF Writes(c) /\ c \in {Watched[i] : i \in 1..n - 1} THEN bad[c] ELSE IsActive(alerts, c)
      BY <1>3, <1>6, <2>1
    <3>3. known'[c] = IF c \in {Watched[i] : i \in 1..n - 1} THEN bad[c] ELSE known[c]
      BY <1>6, <2>2, <3>1
    <3> QED BY <1>1, <3>1, <3>2, <3>3 DEF Writes
  <2>4. known' \in [Category -> BOOLEAN] /\ alerts' \in Seq(Alert)
    BY <1>1, <1>3, <1>6, <2>1
  <2> QED BY <1>1, <1>4, <2>3, <2>4, AlertsAgree
<1> QED BY <1>5, <1>6 DEF check_and_alert

LEMMA AlertStep == AlertInv /\ [Next]_vars => AlertInv'
<1> SUFFICES ASSUME AlertInv, [Next]_vars PROVE AlertInv'
  OBVIOUS
<1>1. /\ now \in Nat /\ bad \in [Category -> BOOLEAN] /\ known \in [Category -> BOOLEAN] /\ alerts \in Seq(Alert)
      /\ \A c \in Category : c \notin unsure => (known[c] <=> IsActive(alerts, c))
      /\ \A c \in Category : c # "crash"
  BY ActiveIsActive, AlertingAssumption DEF AlertInv, AlertsTellTheState, Category
<1>2. now' \in Nat
  BY <1>1, ClockStep
<1>3. CASE condition_changes
  <2>1. PICK c \in Category : bad' = [bad EXCEPT ![c] = ~@]
    BY <1>3 DEF condition_changes
  <2>2. known' = known /\ alerts' = alerts /\ unsure' = unsure
    BY <1>3 DEF condition_changes
  <2>3. bad' \in [Category -> BOOLEAN]
    BY <1>1, <2>1
  <2> QED BY <1>1, <1>2, <2>2, <2>3, AlertsAgree
<1>4. CASE resolve_alert
  <2>1. PICK i \in 1..Len(alerts) : alerts' = ResolvedAll(alerts, {i}) /\ unsure' = unsure \cup ({alerts[i].category} \cap Category)
    BY <1>4 DEF resolve_alert
  <2>2. ASSUME NEW c \in Category, c \notin unsure' PROVE known[c] <=> IsActive(alerts', c)
    <3>1. c \notin unsure /\ c # alerts[i].category
      BY <2>1, <2>2
    <3>2. IsActive(alerts', c) <=> \E j \in 1..Len(alerts) : alerts[j].category = c /\ ~alerts[j].resolved /\ j \notin {i}
      BY <1>1, <2>1, ResolvedRows
    <3> QED BY <1>1, <3>1, <3>2 DEF IsActive
  <2>3. alerts' \in Seq(Alert) /\ known' = known /\ bad' = bad
    BY <1>1, <1>4, <2>1, ResolvedRows DEF resolve_alert
  <2> QED BY <1>1, <1>2, <2>2, <2>3, AlertsAgree
<1>5. ASSUME NEW t \in Tasks, task_crashes(t) PROVE AlertInv'
  <2>1. alerts' = Recorded(alerts, "crash") \/ alerts' = alerts
    BY <1>5 DEF task_crashes
  <2>2. known' = known /\ bad' = bad /\ unsure' = unsure
    BY <1>5 DEF task_crashes
  <2>3. alerts' \in Seq(Alert) /\ \A c \in Category : IsActive(alerts', c) <=> IsActive(alerts, c)
    <3>1. Recorded(alerts, "crash") \in Seq(Alert) /\ \A d : IsActive(Recorded(alerts, "crash"), d) <=> d = "crash" \/ IsActive(alerts, d)
      <4>1. now \in Nat /\ alerts \in Seq(Alert)
        BY <1>1
      <4> QED BY <4>1, RecordedRows
    <3>2. CASE alerts' = Recorded(alerts, "crash")
      BY <1>1, <3>1, <3>2
    <3>3. CASE alerts' = alerts
      BY <1>1, <3>3
    <3> QED BY <2>1, <3>2, <3>3
  <2> QED BY <1>1, <1>2, <2>2, <2>3, AlertsAgree
<1>6. ASSUME NEW t \in Tasks, task_ends(t) \/ task_restarts(t) PROVE AlertInv'
  <2>1. UNCHANGED <<bad, known, alerts, unsure>>
    BY <1>6 DEF task_ends, task_restarts
  <2> QED BY <1>1, <1>2, <2>1, AlertsAgree
<1>7. CASE restart_alerting
  <2>1. known' = [c \in Category |-> FALSE] /\ unsure' = Category /\ bad' = bad /\ alerts' = alerts
    BY <1>7 DEF restart_alerting
  <2> QED BY <1>1, <1>2, <2>1, AlertsAgree
<1>8. CASE UNCHANGED alertVars
  <2>1. UNCHANGED <<bad, known, alerts, unsure>>
    BY <1>8 DEF alertVars
  <2> QED BY <1>1, <1>2, <2>1, AlertsAgree
<1> QED BY <1>2, <1>3, <1>4, <1>5, <1>6, <1>7, <1>8, CheckKeepsAlerts, AlertingOwnsItsState DEF AlertingNext

(* The table answers what is wrong now, for any watched categories and        *)
(* whatever fails, restarts or is resolved by hand: check_and_alert.          *)
THEOREM AlertsTheorem == Spec => []AlertsTellTheState
<1>1. AlertInv => AlertsTellTheState
  BY DEF AlertInv
<1> QED BY AlertStarts, AlertStep, <1>1, PTL DEF Spec

-------------------------------------------------------------------------------
(* The fault log. *)

Fault == [key : FaultKeys, count : Int, last_seen : Int]
OneEach(rows) == \A i, j \in 1..Len(rows) : rows[i].key = rows[j].key => i = j
CountOf(rows, k) == SumOf(rows, RowsFor(rows, k))
(* The key's only row says the count, or there is none and nothing to count. *)
Counts(rows, k, count) ==
  \/ \E i \in 1..Len(rows) : rows[i].key = k /\ rows[i].count = count
  \/ count = 0 /\ \A i \in 1..Len(rows) : rows[i].key # k

LEMMA CountIsSum ==
  ASSUME NEW rows \in Seq(Fault), NEW k
  PROVE  /\ CountOf(rows, k) \in Int
         /\ OneEach(rows) => \A count : Counts(rows, k, count) <=> CountOf(rows, k) = count
         /\ (\A i \in 1..Len(rows) : rows[i].key # k) => CountOf(rows, k) = 0
<1> DEFINE n == Len(rows)
           term(i) == IF i \in RowsFor(rows, k) THEN rows[i].count ELSE 0
           terms == [i \in 1..n |-> term(i)]
<1>1. n \in Nat /\ \A i \in 1..n : rows[i] \in Fault
  BY LenProperties, ElementOfSeq
<1>2. \A i \in 1..n : term(i) \in Int /\ (rows[i].key = k => term(i) = rows[i].count) /\ (rows[i].key # k => term(i) = 0)
  BY <1>1 DEF RowsFor, Fault
<1>3. CountOf(rows, k) = SumOfAll(terms)
  BY DEF CountOf, SumOf
<1> HIDE DEF term
<1>4. terms \in Seq(Int) /\ Len(terms) = n /\ \A i \in 1..n : terms[i] = term(i)
  <2> HIDE DEF n
  <2> QED BY <1>1, <1>2, IsASeq
<1> HIDE DEF terms
<1>5. SumOfAll(terms) \in Int
  BY <1>4, TotalAppends
<1>6. ASSUME NEW j \in 1..n, rows[j].key = k, OneEach(rows) PROVE SumOfAll(terms) = rows[j].count
  <2>1. \A i \in 1..n : i # j => rows[i].key # k
    BY <1>6 DEF OneEach
  <2>2. SumOfAll(terms) = terms[j]
    <3>1. \A i \in 1..n : i # j => terms[i] = 0
      BY <1>2, <1>4, <2>1
    <3> HIDE DEF n
    <3> QED BY <1>4, <3>1, TotalOfOne
  <2> QED BY <1>2, <1>4, <1>6, <2>2
<1>7. ASSUME \A i \in 1..n : rows[i].key # k PROVE SumOfAll(terms) = 0
  BY <1>2, <1>4, <1>7, TotalOfZeros
<1>8. ASSUME OneEach(rows), NEW count PROVE Counts(rows, k, count) <=> SumOfAll(terms) = count
  BY <1>6, <1>7, <1>8 DEF Counts
<1> QED BY <1>3, <1>5, <1>7, <1>8

(* The rows of Kept are those of the set, each once and in their order. *)
KeptSoFar(rows, ids, i, upto) ==
  \E h \in [1..Len(upto) -> ids \cap (1..i)] :
    /\ \A p \in 1..Len(upto) : upto[p] = rows[h[p]]
    /\ \A p, q \in 1..Len(upto) : h[p] = h[q] => p = q
    /\ \A j \in ids \cap (1..i) : \E p \in 1..Len(upto) : h[p] = j
Keeps(rows, ids, n, f) ==
  f = [i \in 0..n |-> IF i = 0 THEN << >> ELSE IF i \in ids THEN Append(f[i - 1], rows[i]) ELSE f[i - 1]]

LEMMA KeepsExist == ASSUME NEW rows, NEW ids, NEW m \in Nat PROVE \E f : Keeps(rows, ids, m, f)
<1> DEFINE Without == {n \in Nat : ~ \E f : Keeps(rows, ids, n, f)}
           next(i, before) == IF i \in ids THEN Append(before, rows[i]) ELSE before
<1> SUFFICES ASSUME Without # {} PROVE FALSE
  OBVIOUS
<1>1. PICK n \in Without : \A y \in Without : n <= y
  BY Least
<1>2. Keeps(rows, ids, 0, [i \in 0..0 |-> << >>])
  BY DEF Keeps
<1>3. PICK f : Keeps(rows, ids, n - 1, f)
  BY <1>1, <1>2
<1> DEFINE g == [i \in 0..n |-> IF i = n THEN next(n, f[n - 1]) ELSE f[i]]
<1>4. n \in Nat /\ n # 0 /\ n - 1 \in Nat
  BY <1>1, <1>2
<1>5. \A i \in 0..n - 1 : f[i] = IF i = 0 THEN << >> ELSE next(i, f[i - 1])
  BY <1>3 DEF Keeps
<1>6. ASSUME NEW i \in 0..n PROVE g[i] = IF i = 0 THEN << >> ELSE next(i, g[i - 1])
  <2> HIDE DEF next
  <2>1. CASE i = 0
    BY <1>4, <1>5, <2>1
  <2>2. CASE i = n
    BY <1>4, <2>2
  <2>3. CASE i # 0 /\ i # n
    <3>1. i \in 0..n - 1 /\ i - 1 \in 0..n /\ i - 1 # n
      BY <1>4, <2>3
    <3> QED BY <1>5, <2>3, <3>1
  <2> QED BY <2>1, <2>2, <2>3
<1>7. g = [i \in 0..n |-> g[i]]
  OBVIOUS
<1> HIDE DEF g
<1>8. Keeps(rows, ids, n, g)
  BY <1>6, <1>7 DEF Keeps
<1> QED BY <1>1, <1>8

KeptFrom(rows, ids, kept) ==
  \E h \in [1..Len(kept) -> ids] :
    /\ \A p \in 1..Len(kept) : kept[p] = rows[h[p]]
    /\ \A p, q \in 1..Len(kept) : h[p] = h[q] => p = q
    /\ \A j \in ids : \E p \in 1..Len(kept) : h[p] = j

LEMMA KeptRows ==
  ASSUME NEW S, NEW rows \in Seq(S), NEW ids \in SUBSET (1..Len(rows))
  PROVE  Kept(rows, ids) \in Seq(S) /\ Len(Kept(rows, ids)) \in Nat /\ KeptFrom(rows, ids, Kept(rows, ids))
<1> DEFINE n == Len(rows)
           f == CHOOSE g : Keeps(rows, ids, n, g)
           Right(i) == f[i] \in Seq(S) /\ KeptSoFar(rows, ids, i, f[i])
           Odd == {i \in 0..n : ~Right(i)}
<1>1. n \in Nat /\ \A i \in 1..n : rows[i] \in S
  BY LenProperties, ElementOfSeq
<1>2. Keeps(rows, ids, n, f)
  BY <1>1, KeepsExist
<1>3. Kept(rows, ids) = f[n]
  BY DEF Kept, Keeps
<1> HIDE DEF f
<1>4. \A i \in 0..n : f[i] = IF i = 0 THEN << >> ELSE IF i \in ids THEN Append(f[i - 1], rows[i]) ELSE f[i - 1]
  BY <1>2 DEF Keeps
<1>5. Right(0)
  <2>1. f[0] = << >> /\ Len(<< >>) = 0
    BY <1>1, <1>4
  <2> DEFINE h == [p \in 1..Len(<< >>) |-> p]
  <2>2. \A j : j \notin 1..0
    OBVIOUS
  <2>3. h \in [1..Len(<< >>) -> ids \cap (1..0)]
    BY <2>1, <2>2
  <2> HIDE DEF h
  <2>4. KeptSoFar(rows, ids, 0, << >>)
    BY <2>1, <2>2, <2>3 DEF KeptSoFar
  <2> QED BY <2>1, <2>4
<1>6. ASSUME NEW i \in 1..n, Right(i - 1) PROVE Right(i)
  <2> DEFINE before == f[i - 1]
             m == Len(before)
  <2>1. before \in Seq(S) /\ m \in Nat
    BY <1>6, LenProperties
  <2>2. PICK h \in [1..m -> ids \cap (1..i - 1)] :
          /\ \A p \in 1..m : before[p] = rows[h[p]]
          /\ \A p, q \in 1..m : h[p] = h[q] => p = q
          /\ \A j \in ids \cap (1..i - 1) : \E p \in 1..m : h[p] = j
    BY <1>6 DEF KeptSoFar
  <2>3. i \in 0..n /\ i # 0 /\ \A j : j \in 1..i <=> j \in 1..i - 1 \/ j = i
    BY <1>1
  <2>4. i \notin 1..i - 1
    BY <1>1
  <2>5. CASE i \notin ids
    <3>1. f[i] = before
      BY <1>4, <2>3, <2>5
    <3>2. ids \cap (1..i) = ids \cap (1..i - 1)
      BY <2>3, <2>5
    <3>3. KeptSoFar(rows, ids, i, before)
      <4> HIDE DEF before
      <4> QED BY <2>2, <3>2 DEF KeptSoFar
    <3> HIDE DEF before
    <3> QED BY <2>1, <3>1, <3>3
  <2>6. CASE i \in ids
    <3> DEFINE after == Append(before, rows[i])
               g == [p \in 1..m + 1 |-> IF p = m + 1 THEN i ELSE h[p]]
    <3>1. f[i] = after
      BY <1>4, <2>3, <2>6
    <3> HIDE DEF before
    <3>2. after \in Seq(S) /\ Len(after) = m + 1 /\ after[m + 1] = rows[i] /\ \A p \in 1..m : after[p] = before[p]
      BY <1>1, <2>1, AppendProperties DEF m
    <3> HIDE DEF after, m
    <3>3. \A p : p \in 1..m + 1 <=> p \in 1..m \/ p = m + 1
      BY <2>1
    <3>4. m + 1 \notin 1..m
      BY <2>1
    <3>5. g \in [1..m + 1 -> ids \cap (1..i)]
      BY <2>2, <2>3, <2>6, <3>3, <3>4
    <3>6. g[m + 1] = i /\ \A p \in 1..m : g[p] = h[p] /\ g[p] # i
      BY <2>2, <2>4, <3>3, <3>4
    <3> HIDE DEF g
    <3>7. \A p \in 1..m + 1 : after[p] = rows[g[p]]
      BY <2>2, <3>2, <3>3, <3>6
    <3>8. \A p, q \in 1..m + 1 : g[p] = g[q] => p = q
      BY <2>2, <3>3, <3>6
    <3>9. \A j \in ids \cap (1..i) : \E p \in 1..m + 1 : g[p] = j
      BY <2>2, <2>3, <3>3, <3>6
    <3>10. KeptSoFar(rows, ids, i, after)
      <4>1. Len(after) = m + 1
        BY <3>2
      <4> QED BY <3>5, <3>7, <3>8, <3>9, <4>1 DEF KeptSoFar
    <3> QED BY <3>1, <3>2, <3>10
  <2> QED BY <2>5, <2>6
<1>7. ASSUME Odd # {} PROVE FALSE
  <2>1. PICK k \in Odd : \A y \in Odd : k <= y
    <3>1. Odd \subseteq Nat
      OBVIOUS
    <3> HIDE DEF Odd
    <3> QED BY <1>7, <3>1, Least
  <2>2. k \in 1..n /\ k - 1 \in 0..n
    BY <1>1, <1>5, <2>1
  <2>3. Right(k - 1)
    <3> HIDE DEF Right
    <3> QED BY <1>1, <2>1, <2>2
  <2> HIDE DEF Right
  <2> QED BY <1>6, <2>1, <2>2, <2>3
<1>8. Right(n)
  <2> HIDE DEF Right
  <2> QED BY <1>1, <1>7
<1>9. ids \cap (1..n) = ids
  OBVIOUS
<1>10. Len(f[n]) \in Nat
  BY <1>8, LenProperties
<1>11. KeptFrom(rows, ids, f[n])
  BY <1>8, <1>9 DEF KeptSoFar, KeptFrom
<1> QED BY <1>3, <1>8, <1>10, <1>11

(* Some row of a set is the latest. *)
LEMMA LatestRow ==
  ASSUME NEW rows \in Seq(Fault), NEW ids \in SUBSET (1..Len(rows)), ids # {}
  PROVE  LastSeen(rows, ids) \in Int
<1> DEFINE Latest(js) == \E i \in js : \A j \in js : rows[j].last_seen <= rows[i].last_seen
           Odd == {m \in Nat : \E js \in SUBSET (1..Len(rows)) : js # {} /\ (\A j \in js : j <= m) /\ ~Latest(js)}
<1>1. Len(rows) \in Nat /\ \A i \in 1..Len(rows) : rows[i].last_seen \in Int
  <2>1. Len(rows) \in Nat /\ \A i \in 1..Len(rows) : rows[i] \in Fault
    BY LenProperties, ElementOfSeq
  <2> QED BY <2>1 DEF Fault
<1>2. ASSUME Odd # {} PROVE FALSE
  <2>1. PICK m \in Odd : \A y \in Odd : m <= y
    <3>1. Odd \subseteq Nat
      OBVIOUS
    <3> HIDE DEF Odd
    <3> QED BY <1>2, <3>1, Least
  <2>2. m \in Nat
    OBVIOUS
  <2>3. PICK js \in SUBSET (1..Len(rows)) : js # {} /\ (\A j \in js : j <= m) /\ ~Latest(js)
    OBVIOUS
  <2>4. m # 0
    <3>1. PICK j \in js : j \in 1..Len(rows) /\ j <= m
      BY <2>3
    <3> QED BY <1>1, <2>2, <3>1
  <2>5. m - 1 \notin Odd /\ m - 1 \in Nat
    <3> HIDE DEF Odd
    <3> QED BY <2>1, <2>2, <2>4
  <2>6. \A less \in SUBSET (1..Len(rows)) : less # {} /\ (\A j \in less : j <= m - 1) => Latest(less)
    <3> HIDE DEF Latest
    <3> QED BY <2>5
  <2>7. m \in js
    <3>1. m \notin js => \A j \in js : j <= m - 1
      BY <1>1, <2>2, <2>3
    <3> HIDE DEF Latest
    <3> QED BY <2>3, <2>6, <3>1
  <2> DEFINE less == js \ {m}
  <2>8. \A j \in less : j <= m - 1
    BY <1>1, <2>2, <2>3
  <2>9. CASE less = {}
    <3>1. js = {m}
      BY <2>7, <2>9
    <3> QED BY <1>1, <2>3, <3>1
  <2>10. CASE less # {}
    <3>1. Latest(less)
      <4> HIDE DEF Latest
      <4> QED BY <2>6, <2>8, <2>10
    <3>2. PICK i \in less : \A j \in less : rows[j].last_seen <= rows[i].last_seen
      BY <3>1
    <3>3. i \in js /\ \A j \in js : j \in less \/ j = m
      OBVIOUS
    <3>4. rows[i].last_seen \in Int /\ rows[m].last_seen \in Int /\ \A j \in js : rows[j].last_seen \in Int
      BY <1>1, <2>3, <2>7, <3>3
    <3>5. CASE rows[m].last_seen <= rows[i].last_seen
      BY <2>3, <3>2, <3>3, <3>5
    <3>6. CASE rows[i].last_seen < rows[m].last_seen
      <4>1. \A j \in less : rows[j].last_seen <= rows[m].last_seen
        BY <3>2, <3>3, <3>4, <3>6
      <4>2. \A j \in js : rows[j].last_seen <= rows[m].last_seen
        BY <3>3, <3>4, <4>1
      <4> QED BY <2>3, <2>7, <4>2
    <3> QED BY <3>4, <3>5, <3>6
  <2> QED BY <2>9, <2>10
<1>3. Len(rows) \notin Odd
  BY <1>2
<1>4. Latest(ids)
  <2>1. \A j \in ids : j <= Len(rows)
    BY <1>1
  <2> HIDE DEF Latest
  <2> QED BY <1>1, <1>3, <2>1
<1>5. \E t \in {rows[i].last_seen : i \in ids} : \A i \in ids : rows[i].last_seen <= t
  BY <1>4
<1>6. LastSeen(rows, ids) \in {rows[i].last_seen : i \in ids}
  BY <1>5 DEF LastSeen
<1> QED BY <1>1, <1>6

(* One more occurrence: the key's row counts it, or a new row. *)
LEMMA UpsertCounts ==
  ASSUME NEW rows \in Seq(Fault), OneEach(rows), NEW k \in FaultKeys, now \in Int
  PROVE  /\ upserted(rows, k) \in Seq(Fault) /\ OneEach(upserted(rows, k))
         /\ \A j : CountOf(upserted(rows, k), j) = CountOf(rows, j) + (IF j = k THEN 1 ELSE 0)
<1> DEFINE n == Len(rows)
           after == upserted(rows, k)
           new == [key |-> k, count |-> 1, last_seen |-> now]
           next(i) == IF rows[i].key = k THEN [rows[i] EXCEPT !.count = @ + 1, !.last_seen = now] ELSE rows[i]
<1>1. n \in Nat /\ \A i \in 1..n : rows[i] \in Fault
  BY LenProperties, ElementOfSeq
<1>2. \A j : CountOf(rows, j) \in Int /\ Counts(rows, j, CountOf(rows, j))
  BY CountIsSum
<1>3. CASE RowsFor(rows, k) = {}
  <2>1. after = Append(rows, new) /\ \A i \in 1..n : rows[i].key # k
    BY <1>3 DEF upserted, RowsFor
  <2>2. new \in Fault /\ new.key = k /\ new.count = 1
    BY DEF Fault
  <2> HIDE DEF new
  <2>3. after \in Seq(Fault) /\ Len(after) = n + 1 /\ after[n + 1] = new /\ \A i \in 1..n : after[i] = rows[i]
    BY <2>1, <2>2, AppendProperties
  <2> HIDE DEF after, n
  <2>4. \A i : i \in 1..n + 1 <=> i \in 1..n \/ i = n + 1
    BY <1>1
  <2>5. OneEach(after)
    BY <2>1, <2>2, <2>3, <2>4 DEF OneEach, n
  <2>6. Counts(after, k, 1) /\ CountOf(rows, k) = 0
    <3>1. CountOf(rows, k) = 0
      BY <2>1, CountIsSum DEF n
    <3>2. n + 1 \in 1..Len(after)
      BY <1>1, <2>3
    <3> QED BY <2>2, <2>3, <3>1, <3>2 DEF Counts
  <2>7. ASSUME NEW j, j # k PROVE Counts(after, j, CountOf(rows, j))
    <3>1. CASE \E i \in 1..n : rows[i].key = j /\ rows[i].count = CountOf(rows, j)
      BY <2>3, <2>4, <3>1 DEF Counts
    <3>2. CASE CountOf(rows, j) = 0 /\ \A i \in 1..n : rows[i].key # j
      BY <2>2, <2>3, <2>4, <2>7, <3>2 DEF Counts
    <3> QED BY <1>2, <3>1, <3>2 DEF Counts, n
  <2>8. CountOf(after, k) = 1 /\ \A j : j # k => CountOf(after, j) = CountOf(rows, j)
    BY <2>3, <2>5, <2>6, <2>7, CountIsSum
  <2> QED BY <1>2, <2>3, <2>5, <2>6, <2>8 DEF after
<1>4. CASE RowsFor(rows, k) # {}
  <2>1. after = [i \in 1..n |-> next(i)] /\ \E i \in 1..n : rows[i].key = k
    BY <1>4 DEF upserted, RowsFor
  <2>2. \A i \in 1..n : /\ next(i) \in Fault /\ next(i).key = rows[i].key
                        /\ next(i).count = rows[i].count + (IF rows[i].key = k THEN 1 ELSE 0)
    <3> SUFFICES ASSUME NEW i \in 1..n PROVE /\ next(i) \in Fault /\ next(i).key = rows[i].key
                                             /\ next(i).count = rows[i].count + (IF rows[i].key = k THEN 1 ELSE 0)
      OBVIOUS
    <3>1. rows[i] \in Fault
      BY <1>1
    <3>2. rows[i].count + 1 \in Int
      BY <3>1 DEF Fault
    <3>3. rows[i].count + 0 = rows[i].count
      BY <3>1 DEF Fault
    <3>4. CASE rows[i].key = k
      BY <3>1, <3>2, <3>4 DEF Fault
    <3>5. CASE rows[i].key # k
      BY <3>1, <3>3, <3>5
    <3> QED BY <3>4, <3>5
  <2> HIDE DEF next
  <2>3. after \in Seq(Fault) /\ Len(after) = n /\ \A i \in 1..n : after[i] = next(i)
    <3> HIDE DEF n, after
    <3> QED BY <1>1, <2>1, <2>2, IsASeq
  <2> HIDE DEF after, n
  <2>4. OneEach(after)
    BY <2>2, <2>3 DEF OneEach, n
  <2>5. ASSUME NEW j PROVE Counts(after, j, CountOf(rows, j) + (IF j = k THEN 1 ELSE 0))
    <3>1. CASE \E i \in 1..n : rows[i].key = j /\ rows[i].count = CountOf(rows, j)
      BY <2>2, <2>3, <3>1 DEF Counts
    <3>2. CASE CountOf(rows, j) = 0 /\ \A i \in 1..n : rows[i].key # j
      <4>1. j # k
        BY <2>1, <3>2
      <4>2. CountOf(rows, j) + 0 = 0
        BY <3>2
      <4> QED BY <2>2, <2>3, <3>2, <4>1, <4>2 DEF Counts
    <3> QED BY <1>2, <3>1, <3>2 DEF Counts, n
  <2> QED BY <2>3, <2>4, <2>5, CountIsSum DEF after
<1> QED BY <1>3, <1>4

(* The duplicates of a key become its first row, with the count of them all. *)
LEMMA MergeCounts ==
  ASSUME NEW rows \in Seq(Fault)
  PROVE  LET merged == merge_duplicate_null_exc_type_rows(rows) IN
         merged \in Seq(Fault) /\ OneEach(merged) /\ \A k : CountOf(merged, k) = CountOf(rows, k)
<1> DEFINE n == Len(rows)
           sum(i) == SumOf(rows, RowsFor(rows, rows[i].key))
           last(i) == LastSeen(rows, RowsFor(rows, rows[i].key))
           all(i) == [rows[i] EXCEPT !.count = sum(i), !.last_seen = last(i)]
           whole == [i \in 1..n |-> all(i)]
           ids == FirstOfKeys(rows)
           merged == Kept(whole, ids)
<1>1. n \in Nat /\ \A i \in 1..n : rows[i] \in Fault
  BY LenProperties, ElementOfSeq
<1>2. \A i \in 1..n : sum(i) = CountOf(rows, rows[i].key) /\ sum(i) \in Int
  BY CountIsSum DEF CountOf
<1>3. \A i \in 1..n : last(i) \in Int
  <2> SUFFICES ASSUME NEW i \in 1..n PROVE last(i) \in Int
    OBVIOUS
  <2>1. RowsFor(rows, rows[i].key) \in SUBSET (1..Len(rows)) /\ i \in RowsFor(rows, rows[i].key)
    BY DEF RowsFor
  <2> QED BY <2>1, LatestRow
<1>4. merge_duplicate_null_exc_type_rows(rows) = merged
  BY DEF merge_duplicate_null_exc_type_rows
<1> HIDE DEF sum, last
<1>5. \A i \in 1..n : all(i) \in Fault /\ all(i).key = rows[i].key /\ all(i).count = CountOf(rows, rows[i].key)
  BY <1>1, <1>2, <1>3 DEF Fault
<1> HIDE DEF all
<1>6. whole \in Seq(Fault) /\ Len(whole) = n /\ \A i \in 1..n : whole[i] = all(i)
  <2> HIDE DEF n
  <2> QED BY <1>1, <1>5, IsASeq
<1> HIDE DEF whole
<1>7. ids \in SUBSET (1..Len(whole))
  BY <1>6 DEF FirstOfKeys
<1>8. merged \in Seq(Fault) /\ Len(merged) \in Nat /\ KeptFrom(whole, ids, merged)
  <2> HIDE DEF ids
  <2> QED BY <1>6, <1>7, KeptRows
<1> HIDE DEF merged, ids
<1>9. PICK h \in [1..Len(merged) -> ids] :
           /\ \A p \in 1..Len(merged) : merged[p] = whole[h[p]]
           /\ \A p, q \in 1..Len(merged) : h[p] = h[q] => p = q
           /\ \A j \in ids : \E p \in 1..Len(merged) : h[p] = j
  BY <1>8 DEF KeptFrom
<1>10. \A p \in 1..Len(merged) : h[p] \in ids /\ h[p] \in 1..n
  BY <1>6, <1>7, <1>9
<1>11. \A p \in 1..Len(merged) : merged[p].key = rows[h[p]].key /\ merged[p].count = CountOf(rows, rows[h[p]].key)
  BY <1>5, <1>6, <1>9, <1>10
<1>12. \A i, j \in ids : rows[i].key = rows[j].key => i = j
  <2> SUFFICES ASSUME NEW i \in ids, NEW j \in ids, rows[i].key = rows[j].key PROVE i = j
    OBVIOUS
  <2>1. i \in 1..n /\ j \in 1..n /\ i <= j /\ j <= i
    BY <1>6, <1>7 DEF ids, FirstOfKeys, RowsFor
  <2> QED BY <1>1, <2>1
<1>13. OneEach(merged)
  BY <1>9, <1>10, <1>11, <1>12 DEF OneEach
<1>14. ASSUME NEW k PROVE Counts(merged, k, CountOf(rows, k))
  <2>1. CASE RowsFor(rows, k) # {}
    <3>1. PICK i \in RowsFor(rows, k) : \A j \in RowsFor(rows, k) : i <= j
      <4>1. RowsFor(rows, k) \subseteq Nat
        BY DEF RowsFor
      <4> QED BY <2>1, <4>1, Least
    <3>2. i \in ids /\ rows[i].key = k
      BY <3>1 DEF ids, FirstOfKeys, RowsFor
    <3>3. PICK p \in 1..Len(merged) : h[p] = i
      BY <1>9, <3>2
    <3> QED BY <1>11, <3>2, <3>3 DEF Counts
  <2>2. CASE RowsFor(rows, k) = {}
    <3>1. \A i \in 1..n : rows[i].key # k
      BY <2>2 DEF RowsFor
    <3>2. CountOf(rows, k) = 0
      BY <3>1, CountIsSum
    <3> QED BY <1>10, <1>11, <3>1, <3>2 DEF Counts
  <2> QED BY <2>1, <2>2
<1>15. \A k : CountOf(merged, k) = CountOf(rows, k)
  BY <1>8, <1>13, <1>14, CountIsSum
<1> QED BY <1>4, <1>8, <1>13, <1>15

(* What is pruned counts nothing; the rest counts what it did. *)
LEMMA PruneCounts ==
  ASSUME NEW rows \in Seq(Fault), OneEach(rows), NEW old \in SUBSET (1..Len(rows))
  PROVE  /\ Kept(rows, 1..Len(rows) \ old) \in Seq(Fault) /\ OneEach(Kept(rows, 1..Len(rows) \ old))
         /\ \A k : CountOf(Kept(rows, 1..Len(rows) \ old), k) = IF RowsFor(rows, k) \cap old # {} THEN 0 ELSE CountOf(rows, k)
<1> DEFINE ids == 1..Len(rows) \ old
           kept == Kept(rows, ids)
<1>1. ids \in SUBSET (1..Len(rows)) /\ \A i : i \in ids <=> i \in 1..Len(rows) /\ i \notin old
  OBVIOUS
<1>2. kept \in Seq(Fault) /\ Len(kept) \in Nat /\ KeptFrom(rows, ids, kept)
  <2> HIDE DEF ids
  <2> QED BY <1>1, KeptRows
<1> HIDE DEF kept, ids
<1>3. PICK h \in [1..Len(kept) -> ids] :
           /\ \A p \in 1..Len(kept) : kept[p] = rows[h[p]]
           /\ \A p, q \in 1..Len(kept) : h[p] = h[q] => p = q
           /\ \A j \in ids : \E p \in 1..Len(kept) : h[p] = j
  BY <1>2 DEF KeptFrom
<1>4. \A p \in 1..Len(kept) : h[p] \in ids /\ h[p] \in 1..Len(rows)
  BY <1>1, <1>3
<1>5. OneEach(kept)
  BY <1>3, <1>4 DEF OneEach
<1>6. ASSUME NEW k, RowsFor(rows, k) \cap old # {} PROVE Counts(kept, k, 0)
  <2>1. PICK i \in 1..Len(rows) : rows[i].key = k /\ i \notin ids
    BY <1>1, <1>6 DEF RowsFor
  <2>2. \A j \in ids : rows[j].key # k
    BY <1>1, <2>1 DEF OneEach
  <2> QED BY <1>3, <1>4, <2>2 DEF Counts
<1>7. ASSUME NEW k, RowsFor(rows, k) \cap old = {} PROVE Counts(kept, k, CountOf(rows, k))
  <2>1. Counts(rows, k, CountOf(rows, k))
    BY CountIsSum
  <2>2. CASE \E i \in 1..Len(rows) : rows[i].key = k /\ rows[i].count = CountOf(rows, k)
    <3>1. PICK i \in 1..Len(rows) : rows[i].key = k /\ rows[i].count = CountOf(rows, k)
      BY <2>2
    <3>2. i \in ids
      BY <1>1, <1>7, <3>1 DEF RowsFor
    <3>3. PICK p \in 1..Len(kept) : h[p] = i
      BY <1>3, <3>2
    <3> QED BY <1>3, <3>1, <3>3 DEF Counts
  <2>3. CASE CountOf(rows, k) = 0 /\ \A i \in 1..Len(rows) : rows[i].key # k
    BY <1>3, <1>4, <2>3 DEF Counts
  <2> QED BY <2>1, <2>2, <2>3 DEF Counts
<1>8. \A k : CountOf(kept, k) = IF RowsFor(rows, k) \cap old # {} THEN 0 ELSE CountOf(rows, k)
  BY <1>2, <1>5, <1>6, <1>7, CountIsSum
<1> QED BY <1>2, <1>5, <1>8 DEF kept, ids

FaultInv ==
  /\ now \in Nat /\ faults \in Seq(Fault) /\ reported \in [FaultKeys -> Int]
  /\ indexed => OneEach(faults)
  /\ \A k \in FaultKeys : CountOf(faults, k) = reported[k]

LEMMA FaultsOwnTheirState ==
  [Next]_vars => \/ \E k \in FaultKeys : record_fault(k)
                 \/ prune_faults
                 \/ UNCHANGED <<faults, indexed, reported>>
<1> SUFFICES ASSUME [Next]_vars, \A k \in FaultKeys : ~record_fault(k), ~prune_faults PROVE UNCHANGED <<faults, indexed, reported>>
  OBVIOUS
<1>0. StallFault \in FaultKeys /\ FlushFault \in FaultKeys
  BY TelemetryAssumption
<1>1. CASE coordinate \/ rest \/ alerting \/ backup \/ trade_shadow \/ tick
  BY <1>1 DEF coordinate, rest, alerting, backup, trade_shadow, tick, telemetryVars
<1>2. CASE observe
  BY <1>0, <1>2 DEF observe, TelemetryNext, fault_occurs, stall, record_book, record_game, buffered, flush_swaps, flush_writes, NoFault
<1>3. CASE sample
  BY <1>0, <1>3 DEF sample, maybe_capture, record_or_swallow, NoFault
<1>4. CASE restart
  BY <1>4 DEF restart, restart_telemetry
<1>5. CASE UNCHANGED vars
  BY <1>5 DEF vars, telemetryVars
<1> QED BY <1>1, <1>2, <1>3, <1>4, <1>5 DEF Next

(* Every connection finds one row per fault, that counts the same. *)
LEMMA Connects ==
  ASSUME FaultInv
  PROVE  /\ connected(faults) \in Seq(Fault) /\ OneEach(connected(faults))
         /\ \A k \in FaultKeys : CountOf(connected(faults), k) = reported[k]
BY MergeCounts DEF FaultInv, connected

LEMMA FaultStep == FaultInv /\ [Next]_vars => FaultInv'
<1> SUFFICES ASSUME FaultInv, [Next]_vars PROVE FaultInv'
  OBVIOUS
<1> DEFINE rows == connected(faults)
<1>1. now' \in Nat
  BY ClockStep DEF FaultInv
<1>2. rows \in Seq(Fault) /\ OneEach(rows) /\ \A k \in FaultKeys : CountOf(rows, k) = reported[k]
  BY Connects
<1>3. reported \in [FaultKeys -> Int] /\ now \in Int
  BY DEF FaultInv
<1> SUFFICES /\ faults' \in Seq(Fault) /\ reported' \in [FaultKeys -> Int]
             /\ indexed' => OneEach(faults')
             /\ \A k \in FaultKeys : CountOf(faults', k) = reported'[k]
  <2>1. \A k \in FaultKeys : CountOf(faults, k)' = CountOf(faults', k)
    BY DEF CountOf, SumOf, RowsFor
  <2> QED BY <1>1, <2>1 DEF FaultInv, OneEach
<1>4. ASSUME NEW k \in FaultKeys, record_fault(k)
      PROVE  /\ faults' \in Seq(Fault) /\ reported' \in [FaultKeys -> Int] /\ OneEach(faults')
             /\ \A j \in FaultKeys : CountOf(faults', j) = reported'[j]
  <2>1. faults' = upserted(rows, k) /\ reported' = [reported EXCEPT ![k] = @ + 1]
    BY <1>4 DEF record_fault
  <2> HIDE DEF rows
  <2>2. /\ faults' \in Seq(Fault) /\ OneEach(faults')
        /\ \A j : CountOf(faults', j) = CountOf(rows, j) + (IF j = k THEN 1 ELSE 0)
    BY <1>2, <1>3, <2>1, UpsertCounts
  <2>3. reported' \in [FaultKeys -> Int] /\ \A j \in FaultKeys : reported'[j] = reported[j] + (IF j = k THEN 1 ELSE 0)
    BY <1>3, <2>1
  <2> QED BY <1>2, <2>2, <2>3
<1>5. ASSUME prune_faults
      PROVE  /\ faults' \in Seq(Fault) /\ reported' \in [FaultKeys -> Int] /\ OneEach(faults')
             /\ \A j \in FaultKeys : CountOf(faults', j) = reported'[j]
  <2> DEFINE old == {i \in 1..Len(rows) : rows[i].last_seen < now - FaultRetention}
  <2>1. /\ faults' = Kept(rows, 1..Len(rows) \ old)
        /\ reported' = [k \in FaultKeys |-> IF RowsFor(rows, k) \cap old # {} THEN 0 ELSE reported[k]]
    BY <1>5 DEF prune_faults
  <2>2. old \in SUBSET (1..Len(rows))
    OBVIOUS
  <2> HIDE DEF rows, old
  <2>3. /\ faults' \in Seq(Fault) /\ OneEach(faults')
        /\ \A k : CountOf(faults', k) = IF RowsFor(rows, k) \cap old # {} THEN 0 ELSE CountOf(rows, k)
    <3>1. /\ Kept(rows, 1..Len(rows) \ old) \in Seq(Fault) /\ OneEach(Kept(rows, 1..Len(rows) \ old))
          /\ \A k : CountOf(Kept(rows, 1..Len(rows) \ old), k) = IF RowsFor(rows, k) \cap old # {} THEN 0 ELSE CountOf(rows, k)
      BY <1>2, <2>2, PruneCounts
    <3> QED BY <2>1, <3>1
  <2>4. \A k \in FaultKeys : reported[k] \in Int
    BY <1>3
  <2>5. reported' \in [FaultKeys -> Int]
    BY <2>1, <2>4
  <2>6. \A j \in FaultKeys : reported'[j] = IF RowsFor(rows, j) \cap old # {} THEN 0 ELSE CountOf(rows, j)
    BY <1>2, <2>1, Zenon
  <2> QED BY <2>3, <2>5, <2>6
<1>6. CASE UNCHANGED <<faults, indexed, reported>>
  BY <1>6 DEF FaultInv
<1> QED BY <1>4, <1>5, <1>6, FaultsOwnTheirState

LEMMA FaultStarts == Init => FaultInv
<1> SUFFICES ASSUME Init PROVE FaultInv
  OBVIOUS
<1> DEFINE rows == budget.old_faults
<1>1. /\ now = 0 /\ faults = rows /\ indexed = (rows = << >>)
      /\ reported = [k \in FaultKeys |-> CountOf(rows, k)] /\ budget \in Scenarios
  BY DEF Init, TelemetryInit, CountOf
<1>2. rows \in Seq([key : FaultKeys, count : Nat, last_seen : Nat])
  BY <1>1, TelemetryAssumption
<1> HIDE DEF rows
<1>3. rows \in Seq(Fault)
  <2>1. Len(rows) \in Nat /\ (\A i \in 1..Len(rows) : rows[i] \in [key : FaultKeys, count : Nat, last_seen : Nat])
        /\ rows = [i \in 1..Len(rows) |-> rows[i]]
    BY <1>2, LenProperties, ElementOfSeq
  <2>2. \A i \in 1..Len(rows) : rows[i] \in Fault
    BY <2>1 DEF Fault
  <2> DEFINE n == Len(rows)
  <2>3. n \in Nat /\ \A i \in 1..n : rows[i] \in Fault
    BY <2>1, <2>2
  <2> HIDE DEF n
  <2>4. [i \in 1..n |-> rows[i]] \in Seq(Fault)
    BY <2>3, IsASeq
  <2> QED BY <2>1, <2>4 DEF n
<1>4. \A k : CountOf(rows, k) \in Int
  BY <1>3, CountIsSum
<1>5. indexed => OneEach(rows)
  <2>1. Len(<< >>) = 0 /\ \A i : i \notin 1..0
    OBVIOUS
  <2> QED BY <1>1, <2>1 DEF OneEach
<1> QED BY <1>1, <1>3, <1>4, <1>5 DEF FaultInv

LEMMA FaultsAreCounted == FaultInv => FaultsAddUp
<1> SUFFICES ASSUME FaultInv, NEW k \in FaultKeys PROVE CountOf(faults, k) = reported[k] /\ (indexed => Cardinality(RowsFor(faults, k)) <= 1)
  BY DEF FaultsAddUp, CountOf
<1>1. ASSUME indexed PROVE Cardinality(RowsFor(faults, k)) <= 1
  <2>1. CASE RowsFor(faults, k) = {}
    BY <2>1, FS_EmptySet
  <2>2. CASE RowsFor(faults, k) # {}
    <3>1. PICK i \in RowsFor(faults, k) : TRUE
      BY <2>2
    <3>2. RowsFor(faults, k) = {i}
      BY <1>1, <3>1 DEF FaultInv, OneEach, RowsFor
    <3>3. Cardinality({i}) = 1
      BY FS_Singleton
    <3> QED BY <3>2, <3>3
  <2> QED BY <2>1, <2>2
<1> QED BY <1>1 DEF FaultInv

-------------------------------------------------------------------------------
(* The observed rows: every step moves the rows of one place to another, or   *)
(* takes one more.                                                            *)

Observed == [key : Markets, at : Int, id : Int]
Store == [buffer : Seq(Observed), written : SUBSET Observed, lost : SUBSET Observed, taken : Nat]
Batches == [Flushers -> Seq(Observed)]
Table(store, batches) ==
  [p \in Places |-> IF p \in Flushers THEN Members(batches[p])
                    ELSE IF p = "buffer" THEN Members(store.buffer) ELSE IF p = "written" THEN store.written ELSE store.lost]
Once(table, taken) ==
  /\ \A p \in Places : \A r \in table[p] : r.id \in 0..taken - 1
  /\ \A n \in 0..taken - 1 : \E p \in Places : \E r \in table[p] : r.id = n
  /\ \A p, q \in Places : \A r \in table[p], o \in table[q] : r.id = o.id => p = q /\ r = o
(* The rows of a place are those of the places that are moved to it. *)
Moved(table, after, target) ==
  \A q \in Places : \A r : r \in after[q] <=> \E p \in Places : target[p] = q /\ r \in table[p]
WithRow(store, k, at) ==
  [store EXCEPT !.buffer = Append(@, [key |-> k, at |-> at, id |-> store.taken]), !.taken = @ + 1]
WithoutUnwritten(store, batches) ==
  [store EXCEPT !.buffer = << >>, !.lost = @ \cup Members(store.buffer) \cup UNION {Members(batches[f]) : f \in Flushers}]
Accounted(store, batches) == store \in Store /\ batches \in Batches /\ Once(Table(store, batches), store.taken)

RowsInv ==
  /\ now \in Nat
  /\ feed = [s \in Stores |-> feed[s]] /\ flushing = [s \in Stores |-> flushing[s]]
  /\ \A s \in Stores : Accounted(feed[s], flushing[s])

LEMMA MovedOnce ==
  ASSUME NEW table, NEW after, NEW target \in [Places -> Places], NEW taken, Once(table, taken), Moved(table, after, target)
  PROVE  Once(after, taken)
<1>1. \A p \in Places : \A r \in after[p] : r.id \in 0..taken - 1
  BY DEF Once, Moved
<1>2. ASSUME NEW n \in 0..taken - 1 PROVE \E p \in Places : \E r \in after[p] : r.id = n
  <2>1. PICK p \in Places : \E r \in table[p] : r.id = n
    BY DEF Once
  <2>2. PICK r \in table[p] : r.id = n
    BY <2>1
  <2>3. target[p] \in Places /\ r \in after[target[p]]
    BY DEF Moved
  <2> QED BY <2>2, <2>3
<1>3. ASSUME NEW p \in Places, NEW q \in Places, NEW r \in after[p], NEW o \in after[q], r.id = o.id PROVE p = q /\ r = o
  <2>1. PICK x \in Places : target[x] = p /\ r \in table[x]
    BY DEF Moved
  <2>2. PICK y \in Places : target[y] = q /\ o \in table[y]
    BY DEF Moved
  <2>3. x = y /\ r = o
    BY <1>3, <2>1, <2>2 DEF Once
  <2> QED BY <2>1, <2>2, <2>3
<1> QED BY <1>1, <1>2, <1>3 DEF Once

LEMMA PlacesDiffer ==
  /\ "buffer" \in Places /\ "written" \in Places /\ "lost" \in Places
  /\ "buffer" \notin Flushers /\ "written" \notin Flushers /\ "lost" \notin Flushers
  /\ \A p \in Places : p \in Flushers \/ p = "buffer" \/ p = "written" \/ p = "lost"
  /\ Flushers \subseteq Places
BY TelemetryAssumption DEF Places

LEMMA TableOf ==
  ASSUME NEW store, NEW batches
  PROVE  /\ Table(store, batches)["buffer"] = Members(store.buffer)
         /\ Table(store, batches)["written"] = store.written
         /\ Table(store, batches)["lost"] = store.lost
         /\ \A f \in Flushers : Table(store, batches)[f] = Members(batches[f])
BY PlacesDiffer DEF Table

LEMMA NoMembers == Members(<< >>) = {}
<1>1. Len(<< >>) = 0 /\ \A i : i \notin 1..0
  OBVIOUS
<1> QED BY <1>1 DEF Members

LEMMA MembersOf ==
  ASSUME NEW S, NEW rows \in Seq(S)
  PROVE  /\ Members(rows) \subseteq S
         /\ \A row \in S : \A r : r \in Members(Append(rows, row)) <=> r \in Members(rows) \/ r = row
<1> DEFINE n == Len(rows)
<1>1. n \in Nat /\ \A i \in 1..n : rows[i] \in S
  BY LenProperties, ElementOfSeq
<1>2. ASSUME NEW row \in S, NEW r PROVE r \in Members(Append(rows, row)) <=> r \in Members(rows) \/ r = row
  <2> DEFINE more == Append(rows, row)
  <2>1. Len(more) = n + 1 /\ more[n + 1] = row /\ \A i \in 1..n : more[i] = rows[i]
    BY AppendProperties
  <2> HIDE DEF more, n
  <2>2. \A i : i \in 1..n + 1 <=> i \in 1..n \/ i = n + 1
    BY <1>1
  <2>3. r \in Members(more) <=> \E i \in 1..n + 1 : more[i] = r
    BY <2>1 DEF Members
  <2>4. r \in Members(rows) <=> \E i \in 1..n : rows[i] = r
    BY DEF Members, n
  <2> QED BY <2>1, <2>2, <2>3, <2>4 DEF more
<1>3. Members(rows) \subseteq S
  BY <1>1 DEF Members
<1> QED BY <1>2, <1>3

LEMMA TakesRow ==
  ASSUME NEW store, NEW batches, Accounted(store, batches), NEW k \in Markets, NEW at \in Int
  PROVE  Accounted(WithRow(store, k, at), batches)
<1> DEFINE row == [key |-> k, at |-> at, id |-> store.taken]
           rows == Append(store.buffer, row)
           more == store.taken + 1
           after == [store EXCEPT !.buffer = rows, !.taken = more]
           t == Table(store, batches)
           u == Table(after, batches)
           taken == store.taken
<1>1. store \in Store /\ batches \in Batches /\ Once(t, taken)
  BY DEF Accounted
<1>2. store.buffer \in Seq(Observed) /\ taken \in Nat /\ more \in Nat /\ row \in Observed
  BY <1>1 DEF Store, Observed
<1>3. row.id = taken
  OBVIOUS
<1>4. rows \in Seq(Observed) /\ \A r : r \in Members(rows) <=> r \in Members(store.buffer) \/ r = row
  <2> HIDE DEF row
  <2> QED BY <1>2, AppendProperties, MembersOf
<1> HIDE DEF rows, row
<1>5. after \in Store /\ after.taken = more
  <2> HIDE DEF more
  <2> QED BY <1>1, <1>2, <1>4 DEF Store
<1>6. \A q \in Places : \A r : r \in u[q] <=> r \in t[q] \/ (q = "buffer" /\ r = row)
  <2>1. after.buffer = rows /\ after.written = store.written /\ after.lost = store.lost
    BY <1>1 DEF Store
  <2> HIDE DEF after
  <2> QED BY <1>4, <2>1, TableOf, PlacesDiffer
<1>7. Once(u, more)
  <2> HIDE DEF u, t, taken
  <2>0. more = taken + 1
    BY DEF taken
  <2> HIDE DEF more
  <2>1. \A n : n \in 0..more - 1 <=> n \in 0..taken - 1 \/ n = taken
    BY <1>2, <2>0
  <2>2. taken \notin 0..taken - 1
    BY <1>2
  <2>3. \A p \in Places : \A r \in u[p] : r.id \in 0..more - 1
    BY <1>1, <1>3, <1>6, <2>1 DEF Once
  <2>4. \A n \in 0..more - 1 : \E p \in Places : \E r \in u[p] : r.id = n
    <3> SUFFICES ASSUME NEW n \in 0..more - 1 PROVE \E p \in Places : \E r \in u[p] : r.id = n
      OBVIOUS
    <3>1. CASE n = taken
      BY <1>3, <1>6, <3>1, PlacesDiffer
    <3>2. CASE n \in 0..taken - 1
      BY <1>1, <1>6, <3>2 DEF Once
    <3> QED BY <2>1, <3>1, <3>2
  <2>5. ASSUME NEW p \in Places, NEW q \in Places, NEW r \in u[p], NEW o \in u[q], r.id = o.id PROVE p = q /\ r = o
    <3>1. \A x \in Places : \A y \in t[x] : y.id # taken
      BY <1>1, <2>2 DEF Once
    <3>2. CASE r \in t[p] /\ o \in t[q]
      BY <1>1, <2>5, <3>2 DEF Once
    <3>3. CASE ~(r \in t[p] /\ o \in t[q])
      BY <1>3, <1>6, <2>5, <3>1, <3>3
    <3> QED BY <3>2, <3>3
  <2> QED BY <2>3, <2>4, <2>5 DEF Once
<1>8. Accounted(after, batches)
  BY <1>1, <1>5, <1>7 DEF Accounted
<1> QED BY <1>8 DEF rows, row, WithRow

LEMMA SwapsBatch ==
  ASSUME NEW store, NEW batches, Accounted(store, batches), NEW f \in Flushers, batches[f] = << >>
  PROVE  Accounted([store EXCEPT !.buffer = << >>], [batches EXCEPT ![f] = store.buffer])
<1> DEFINE after == [store EXCEPT !.buffer = << >>]
           swapped == [batches EXCEPT ![f] = store.buffer]
           t == Table(store, batches)
           u == Table(after, swapped)
           target == [p \in Places |-> IF p = "buffer" THEN f ELSE p]
<1>1. store \in Store /\ batches \in Batches /\ Once(t, store.taken)
  BY DEF Accounted
<1>2. after \in Store /\ after.buffer = << >> /\ after.written = store.written /\ after.lost = store.lost /\ after.taken = store.taken
  <2> DEFINE empty == << >>
  <2>1. empty \in Seq(Observed)
    OBVIOUS
  <2> HIDE DEF empty
  <2>2. LET a == [store EXCEPT !.buffer = empty] IN
        a \in Store /\ a.buffer = empty /\ a.written = store.written /\ a.lost = store.lost /\ a.taken = store.taken
    BY <1>1, <2>1 DEF Store
  <2> QED BY <2>2 DEF empty
<1>3. swapped \in Batches /\ swapped[f] = store.buffer /\ \A g \in Flushers : g # f => swapped[g] = batches[g]
  BY <1>1 DEF Batches, Store
<1> HIDE DEF after, swapped
<1>4. target \in [Places -> Places] /\ target["buffer"] = f /\ \A p \in Places : p # "buffer" => target[p] = p
  BY PlacesDiffer
<1> HIDE DEF target
<1>5. u["buffer"] = {} /\ u["written"] = t["written"] /\ u["lost"] = t["lost"] /\ u[f] = t["buffer"] /\ t[f] = {}
      /\ \A g \in Flushers : g # f => u[g] = t[g]
  BY <1>2, <1>3, TableOf, NoMembers
<1> HIDE DEF u, t
<1>6. Moved(t, u, target)
  <2> SUFFICES ASSUME NEW q \in Places, NEW r PROVE r \in u[q] <=> \E p \in Places : target[p] = q /\ r \in t[p]
    BY DEF Moved
  <2>1. CASE q = "buffer"
    BY <1>4, <1>5, <2>1, PlacesDiffer
  <2>2. CASE q = f
    BY <1>4, <1>5, <2>2, PlacesDiffer
  <2>3. CASE q # "buffer" /\ q # f
    BY <1>4, <1>5, <2>3, PlacesDiffer
  <2> QED BY <2>1, <2>2, <2>3
<1>7. Once(u, store.taken)
  BY <1>1, <1>4, <1>6, MovedOnce
<1>8. Accounted(after, swapped)
  BY <1>2, <1>3, <1>7 DEF Accounted, u
<1> QED BY <1>8 DEF after, swapped

(* A batch goes to the table, or with a failed write to what is lost. *)
LEMMA FlushesBatch ==
  ASSUME NEW store, NEW batches, Accounted(store, batches), NEW f \in Flushers
  PROVE  /\ Accounted([store EXCEPT !.written = @ \cup Members(batches[f])], [batches EXCEPT ![f] = << >>])
         /\ Accounted([store EXCEPT !.lost = @ \cup Members(batches[f])], [batches EXCEPT ![f] = << >>])
<1> DEFINE flushed == [batches EXCEPT ![f] = << >>]
           t == Table(store, batches)
           rows == Members(batches[f])
<1>1. store \in Store /\ batches \in Batches /\ Once(t, store.taken)
  BY DEF Accounted
<1>2. flushed \in Batches /\ flushed[f] = << >> /\ \A g \in Flushers : g # f => flushed[g] = batches[g]
  BY <1>1 DEF Batches
<1> HIDE DEF flushed
<1>3. rows \subseteq Observed
  BY <1>1, MembersOf DEF Batches
<1>4. t[f] = rows
  BY TableOf
<1> HIDE DEF rows
<1>5. ASSUME NEW after, NEW place \in {"written", "lost"}, after \in Store, after.taken = store.taken,
             Table(after, flushed)[place] = t[place] \cup rows,
             \A p \in {"buffer", "written", "lost"} : p # place => Table(after, flushed)[p] = t[p]
      PROVE  Accounted(after, flushed)
  <2> DEFINE u == Table(after, flushed)
             target == [p \in Places |-> IF p = f THEN place ELSE p]
  <2>1. target \in [Places -> Places] /\ target[f] = place /\ \A p \in Places : p # f => target[p] = p
    BY PlacesDiffer
  <2> HIDE DEF target
  <2>2. u[f] = {} /\ \A g \in Flushers : g # f => u[g] = t[g]
    BY <1>2, TableOf, NoMembers
  <2>3. u[place] = t[place] \cup rows /\ \A p \in {"buffer", "written", "lost"} : p # place => u[p] = t[p]
    BY <1>5
  <2> HIDE DEF u, t
  <2>4. Moved(t, u, target)
    <3> SUFFICES ASSUME NEW q \in Places, NEW r PROVE r \in u[q] <=> \E p \in Places : target[p] = q /\ r \in t[p]
      BY DEF Moved
    <3>0. place \in Places /\ place \notin Flushers /\ f \in Places
      BY PlacesDiffer
    <3>1. CASE q = f
      BY <2>1, <2>2, <3>0, <3>1
    <3>2. CASE q = place
      BY <1>4, <2>1, <2>3, <3>0, <3>2
    <3>3. CASE q # f /\ q # place
      <4>1. u[q] = t[q]
        BY <2>2, <2>3, <3>3, PlacesDiffer
      <4> QED BY <2>1, <3>0, <3>3, <4>1
    <3> QED BY <3>1, <3>2, <3>3
  <2>5. Once(u, store.taken)
    BY <1>1, <2>1, <2>4, MovedOnce
  <2> QED BY <1>2, <1>5, <2>5 DEF Accounted, u
<1>6. Accounted([store EXCEPT !.written = @ \cup rows], flushed)
  <2> DEFINE after == [store EXCEPT !.written = @ \cup rows]
  <2>1. /\ after \in Store /\ after.taken = store.taken /\ after.buffer = store.buffer /\ after.lost = store.lost
        /\ after.written = store.written \cup rows
    BY <1>1, <1>3 DEF Store
  <2> HIDE DEF after
  <2>2. Table(after, flushed)["written"] = t["written"] \cup rows /\ Table(after, flushed)["lost"] = t["lost"]
        /\ Table(after, flushed)["buffer"] = t["buffer"]
    BY <2>1, TableOf
  <2> HIDE DEF t
  <2>3. \A p \in {"buffer", "written", "lost"} : p # "written" => Table(after, flushed)[p] = t[p]
    BY <2>2
  <2> QED BY <1>5, <2>1, <2>2, <2>3 DEF after
<1>7. Accounted([store EXCEPT !.lost = @ \cup rows], flushed)
  <2> DEFINE after == [store EXCEPT !.lost = @ \cup rows]
  <2>1. /\ after \in Store /\ after.taken = store.taken /\ after.buffer = store.buffer /\ after.written = store.written
        /\ after.lost = store.lost \cup rows
    BY <1>1, <1>3 DEF Store
  <2> HIDE DEF after
  <2>2. Table(after, flushed)["lost"] = t["lost"] \cup rows /\ Table(after, flushed)["written"] = t["written"]
        /\ Table(after, flushed)["buffer"] = t["buffer"]
    BY <2>1, TableOf
  <2> HIDE DEF t
  <2>3. \A p \in {"buffer", "written", "lost"} : p # "lost" => Table(after, flushed)[p] = t[p]
    BY <2>2
  <2> QED BY <1>5, <2>1, <2>2, <2>3 DEF after
<1> QED BY <1>6, <1>7 DEF rows, flushed

LEMMA LosesRows ==
  ASSUME NEW store, NEW batches, Accounted(store, batches)
  PROVE  Accounted(WithoutUnwritten(store, batches), [f \in Flushers |-> << >>])
<1> DEFINE open == UNION {Members(batches[f]) : f \in Flushers}
           gone == store.lost \cup Members(store.buffer) \cup open
           after == [store EXCEPT !.buffer = << >>, !.lost = gone]
           none == [f \in Flushers |-> << >>]
           t == Table(store, batches)
           u == Table(after, none)
           target == [p \in Places |-> IF p = "written" THEN p ELSE "lost"]
<1>1. store \in Store /\ batches \in Batches /\ Once(t, store.taken)
  BY DEF Accounted
<1>2. \A r : r \in open <=> \E f \in Flushers : r \in Members(batches[f])
  OBVIOUS
<1> HIDE DEF open
<1>3. gone \subseteq Observed /\ \A r : r \in gone <=> r \in store.lost \/ r \in Members(store.buffer) \/ \E f \in Flushers : r \in Members(batches[f])
  <2>1. store.lost \subseteq Observed /\ Members(store.buffer) \subseteq Observed /\ \A f \in Flushers : Members(batches[f]) \subseteq Observed
    BY <1>1, MembersOf DEF Store, Batches
  <2> QED BY <1>2, <2>1
<1> HIDE DEF gone
<1>4. after \in Store /\ after.buffer = << >> /\ after.written = store.written /\ after.lost = gone /\ after.taken = store.taken
  <2> DEFINE empty == << >>
  <2>1. empty \in Seq(Observed)
    OBVIOUS
  <2> HIDE DEF empty
  <2>2. LET a == [store EXCEPT !.buffer = empty, !.lost = gone] IN
        a \in Store /\ a.buffer = empty /\ a.written = store.written /\ a.lost = gone /\ a.taken = store.taken
    BY <1>1, <1>3, <2>1 DEF Store
  <2> QED BY <2>2 DEF empty
<1>5. none \in Batches /\ \A f \in Flushers : none[f] = << >>
  BY DEF Batches
<1> HIDE DEF after, none
<1>6. target \in [Places -> Places] /\ target["written"] = "written" /\ \A p \in Places : p # "written" => target[p] = "lost"
  BY PlacesDiffer
<1> HIDE DEF target
<1>7. /\ u["buffer"] = {} /\ u["written"] = t["written"] /\ \A f \in Flushers : u[f] = {}
      /\ \A r : r \in u["lost"] <=> r \in t["lost"] \/ r \in t["buffer"] \/ \E f \in Flushers : r \in t[f]
  BY <1>3, <1>4, <1>5, TableOf, NoMembers
<1> HIDE DEF u, t
<1>8. Moved(t, u, target)
  <2> SUFFICES ASSUME NEW q \in Places, NEW r PROVE r \in u[q] <=> \E p \in Places : target[p] = q /\ r \in t[p]
    BY DEF Moved
  <2>1. CASE q = "written"
    BY <1>6, <1>7, <2>1, PlacesDiffer
  <2>2. CASE q = "lost"
    BY <1>6, <1>7, <2>2, PlacesDiffer
  <2>3. CASE q = "buffer" \/ q \in Flushers
    BY <1>6, <1>7, <2>3, PlacesDiffer
  <2> QED BY <2>1, <2>2, <2>3, PlacesDiffer
<1>9. Once(u, store.taken)
  BY <1>1, <1>6, <1>8, MovedOnce
<1>10. Accounted(after, none)
  BY <1>4, <1>5, <1>9 DEF Accounted, u
<1> QED BY <1>10 DEF after, none, gone, open, WithoutUnwritten

LEMMA RowsOwnTheirState ==
  [Next]_vars => \/ observe
                 \/ restart_telemetry
                 \/ UNCHANGED <<feed, flushing>>
<1> SUFFICES ASSUME [Next]_vars, ~observe, ~restart_telemetry PROVE UNCHANGED <<feed, flushing>>
  OBVIOUS
<1>1. CASE coordinate \/ rest \/ alerting \/ backup \/ trade_shadow \/ tick
  BY <1>1 DEF coordinate, rest, alerting, backup, trade_shadow, tick, telemetryVars
<1>2. CASE sample
  BY <1>2 DEF sample, maybe_capture
<1>3. CASE UNCHANGED vars
  BY <1>3 DEF vars, telemetryVars
<1> QED BY <1>1, <1>2, <1>3 DEF Next, restart

LEMMA RowsStart == Init => RowsInv
<1> SUFFICES ASSUME Init PROVE RowsInv
  OBVIOUS
<1> DEFINE store == [buffer |-> << >>, written |-> {}, lost |-> {}, taken |-> 0]
           batches == [f \in Flushers |-> << >>]
<1>1. now = 0 /\ feed = [s \in Stores |-> store] /\ flushing = [s \in Stores |-> batches]
  BY DEF Init, TelemetryInit
<1>2. store \in Store /\ batches \in Batches /\ store.taken = 0 /\ store.written = {} /\ store.lost = {} /\ store.buffer = << >>
      /\ \A f \in Flushers : batches[f] = << >>
  <2> DEFINE empty == << >>
  <2>1. empty \in Seq(Observed)
    OBVIOUS
  <2> HIDE DEF empty
  <2>2. [buffer |-> empty, written |-> {}, lost |-> {}, taken |-> 0] \in Store /\ [f \in Flushers |-> empty] \in Batches
    BY <2>1 DEF Store, Batches
  <2> QED BY <2>2 DEF empty
<1> HIDE DEF store, batches
<1>3. \A p \in Places : Table(store, batches)[p] = {}
  BY <1>2, TableOf, NoMembers, PlacesDiffer
<1>4. \A n : n \notin 0..0 - 1
  OBVIOUS
<1>5. Once(Table(store, batches), 0)
  BY <1>3, <1>4 DEF Once
<1>6. Accounted(store, batches)
  BY <1>2, <1>5 DEF Accounted
<1>7. \A s \in Stores : feed[s] = store /\ flushing[s] = batches
  BY <1>1
<1> QED BY <1>1, <1>6, <1>7 DEF RowsInv

LEMMA RowsStep == RowsInv /\ [Next]_vars => RowsInv'
<1> SUFFICES ASSUME RowsInv, [Next]_vars PROVE RowsInv'
  OBVIOUS
<1>1. now \in Nat /\ now' \in Nat
  BY ClockStep DEF RowsInv
<1>2. feed = [s \in Stores |-> feed[s]] /\ flushing = [s \in Stores |-> flushing[s]] /\ \A s \in Stores : Accounted(feed[s], flushing[s])
  BY DEF RowsInv
<1> SUFFICES /\ feed' = [s \in Stores |-> feed'[s]] /\ flushing' = [s \in Stores |-> flushing'[s]]
             /\ \A s \in Stores : Accounted(feed'[s], flushing'[s])
  BY <1>1 DEF RowsInv
<1>3. CASE UNCHANGED <<feed, flushing>>
  BY <1>2, <1>3
<1>4. ASSUME NEW s, NEW k \in Markets, NEW state, buffered(s, k, state)
      PROVE  /\ feed' = [t \in Stores |-> feed'[t]] /\ flushing' = [t \in Stores |-> flushing'[t]]
             /\ \A t \in Stores : Accounted(feed'[t], flushing'[t])
  <2>1. feed' = [feed EXCEPT ![s] = WithRow(feed[s], k, now)] /\ flushing' = flushing
    BY <1>4 DEF buffered, Row, WithRow
  <2>2. \A t \in Stores : Accounted(WithRow(feed[t], k, now), flushing[t])
    BY <1>1, <1>2, TakesRow
  <2> QED BY <1>2, <2>1, <2>2
<1>5. ASSUME NEW s \in Stores, NEW f \in Flushers, flush_swaps(s, f)
      PROVE  /\ feed' = [t \in Stores |-> feed'[t]] /\ flushing' = [t \in Stores |-> flushing'[t]]
             /\ \A t \in Stores : Accounted(feed'[t], flushing'[t])
  <2> DEFINE store == [feed[s] EXCEPT !.buffer = << >>]
             batches == [flushing[s] EXCEPT ![f] = feed[s].buffer]
  <2>1. feed' = [feed EXCEPT ![s] = store] /\ flushing' = [flushing EXCEPT ![s] = batches] /\ flushing[s][f] = << >>
    BY <1>5 DEF flush_swaps, swap
  <2>2. Accounted(store, batches)
    BY <1>2, <2>1, SwapsBatch
  <2> HIDE DEF store, batches
  <2> QED BY <1>2, <2>1, <2>2
<1>6. ASSUME NEW s \in Stores, NEW f \in Flushers, flush_writes(s, f)
      PROVE  /\ feed' = [t \in Stores |-> feed'[t]] /\ flushing' = [t \in Stores |-> flushing'[t]]
             /\ \A t \in Stores : Accounted(feed'[t], flushing'[t])
  <2> DEFINE written == [feed[s] EXCEPT !.written = @ \cup Members(flushing[s][f])]
             gone == [feed[s] EXCEPT !.lost = @ \cup Members(flushing[s][f])]
             batches == [flushing[s] EXCEPT ![f] = << >>]
  <2>1. flushing' = [flushing EXCEPT ![s] = batches] /\ (feed' = [feed EXCEPT ![s] = written] \/ feed' = [feed EXCEPT ![s] = gone])
    BY <1>6 DEF flush_writes, Batch
  <2>2. Accounted(written, batches) /\ Accounted(gone, batches)
    BY <1>2, FlushesBatch
  <2> HIDE DEF written, gone, batches
  <2> QED BY <1>2, <2>1, <2>2
<1>7. ASSUME restart_telemetry
      PROVE  /\ feed' = [t \in Stores |-> feed'[t]] /\ flushing' = [t \in Stores |-> flushing'[t]]
             /\ \A t \in Stores : Accounted(feed'[t], flushing'[t])
  <2> DEFINE none == [f \in Flushers |-> << >>]
  <2>1. feed' = [s \in Stores |-> WithoutUnwritten(feed[s], flushing[s])] /\ flushing' = [s \in Stores |-> none]
    BY <1>7 DEF restart_telemetry, Batch, WithoutUnwritten
  <2>2. \A s \in Stores : Accounted(WithoutUnwritten(feed[s], flushing[s]), none)
    BY <1>2, LosesRows
  <2> HIDE DEF none
  <2> QED BY <2>1, <2>2
<1>8. CASE observe
  <2>1. \/ \E k \in Markets : record_book(k) \/ record_game(k)
        \/ \E s \in Stores, f \in Flushers : flush_swaps(s, f) \/ flush_writes(s, f)
        \/ UNCHANGED <<feed, flushing>>
    BY <1>8 DEF observe, TelemetryNext, fault_occurs, prune_faults, stall
  <2>2. ASSUME NEW k \in Markets, record_book(k) \/ record_game(k) PROVE \E s, state : buffered(s, k, state)
    BY <2>2 DEF record_book, record_game
  <2> QED BY <1>3, <1>4, <1>5, <1>6, <2>1, <2>2
<1> QED BY <1>3, <1>7, <1>8, RowsOwnTheirState

LEMMA RowsAreCounted == RowsInv => RowsAddUp
<1> SUFFICES ASSUME RowsInv, NEW s \in Stores, NEW n \in 0..feed[s].taken - 1
    PROVE  \E p \in Places : \E r \in Held(s, p) : r.id = n /\ \A q \in Places : \A o \in Held(s, q) : o.id = n => q = p /\ o = r
  BY DEF RowsAddUp
<1> DEFINE t == Table(feed[s], flushing[s])
<1>1. \A p \in Places : Held(s, p) = t[p]
  BY DEF Held, Table, Batch
<1>2. Once(t, feed[s].taken)
  BY DEF RowsInv, Accounted
<1> HIDE DEF t
<1>3. PICK p \in Places : \E r \in t[p] : r.id = n
  BY <1>2 DEF Once
<1>4. PICK r \in t[p] : r.id = n
  BY <1>3
<1>5. \A q \in Places : \A o \in t[q] : o.id = n => q = p /\ o = r
  BY <1>2, <1>4 DEF Once
<1> QED BY <1>1, <1>4, <1>5

-------------------------------------------------------------------------------
(* What guards the account and the copies of it survives a restart: the        *)
(* stored halt, the spacing of backups and of samples, and the rows of backup  *)
(* runs, whatever fails, and however many runs, rows and restarts there are.   *)
THEOREM GuardsTheorem == Spec => []RestartsKeepGuards
<1>1. Init => HaltIsStored
  BY DEF Init, ShadowInit, HaltIsStored
<1>2. SampleInv /\ BackupInv /\ HaltIsStored => RestartsKeepGuards
  BY CopiesAreKept DEF SampleInv, BackupInv, RestartsKeepGuards
<1> QED BY <1>1, <1>2, SampleStarts, SampleStep, BackupStarts, BackupStep, HaltStep, PTL DEF Spec

(* What is counted anywhere adds up: attempts in both tables of the reports,   *)
(* faults in their rows, also those merged from an older database, stalls in   *)
(* the samples, and observed rows over buffer, flushing threads and table.     *)
THEOREM CountsTheorem == Spec => []NothingUncounted
<1>1. Init => SamplesAddUp
  <2> SUFFICES ASSUME Init PROVE SamplesAddUp
    OBVIOUS
  <2>1. samples = << >> /\ stalls = [window |-> 0, ever |-> 0]
    BY DEF Init, TelemetryInit
  <2>2. [i \in 1..Len(<< >>) |-> << >>[i].stalls] = << >>
    OBVIOUS
  <2> QED BY <2>1, <2>2, TotalOfNone DEF SamplesAddUp
<1>2. AttemptInv /\ FaultInv /\ SamplesAddUp /\ RowsInv => NothingUncounted
  BY AttemptsAreCounted, FaultsAreCounted, RowsAreCounted DEF NothingUncounted
<1> QED BY <1>1, <1>2, AttemptStarts, AttemptStep, FaultStarts, FaultStep, SampleStarts, SampleStep, SamplesAddUpStep, RowsStart, RowsStep, PTL DEF Spec

-------------------------------------------------------------------------------
(* The repository's tools. What a row says of its subject follows from the     *)
(* runs that found it, of an audit or of a cycle; one run adds one.           *)

Gone == {"absent", "resolved"}

(* The row of a subject, the runs that found it among n of them, and when     *)
(* each was: a row that is not gone began in a run since when all found it.   *)
Lasting(row, n, found, at) ==
  /\ row.state = "absent" <=> found = {}
  /\ row.state = "resolved" <=> found # {} /\ n \notin found
  /\ row.state \notin Gone => \E i \in 1..n : i..n \subseteq found /\ at[i] = row.first

(* A run that found the subject begins its row anew or leaves its beginning.  *)
LEMMA FoundOnceMore ==
  ASSUME NEW row, NEW n \in Nat, NEW found \in SUBSET (1..n), NEW at, Lasting(row, n, found, at),
         NEW after, NEW times, \A i \in 1..n : times[i] = at[i],
         after.state \notin Gone,
         after.first = IF row.state \in Gone THEN times[n + 1] ELSE row.first
  PROVE  Lasting(after, n + 1, found \cup {n + 1}, times)
<1>1. CASE row.state \in Gone
  <2>1. (n + 1)..(n + 1) \subseteq found \cup {n + 1} /\ n + 1 \in 1..(n + 1)
    OBVIOUS
  <2> QED BY <1>1, <2>1 DEF Lasting, Gone
<1>2. CASE row.state \notin Gone
  <2>1. PICK i \in 1..n : i..n \subseteq found /\ at[i] = row.first
    BY <1>2 DEF Lasting
  <2>2. i..(n + 1) \subseteq found \cup {n + 1} /\ i \in 1..(n + 1) /\ times[i] = row.first
    BY <2>1
  <2> QED BY <1>2, <2>2 DEF Lasting, Gone
<1> QED BY <1>1, <1>2

(* A run that did not find it resolves a row that is there.                   *)
LEMMA NotFoundNow ==
  ASSUME NEW row, NEW n \in Nat, NEW found \in SUBSET (1..n), NEW at, Lasting(row, n, found, at),
         NEW after, NEW times,
         row.state \in Gone => after.state = row.state,
         row.state \notin Gone => after.state = "resolved"
  PROVE  Lasting(after, n + 1, found, times)
<1>1. n + 1 \notin found
  OBVIOUS
<1>2. CASE row.state \in Gone
  BY <1>1, <1>2 DEF Lasting, Gone
<1>3. CASE row.state \notin Gone
  <2>1. PICK i \in 1..n : i..n \subseteq found
    BY <1>3 DEF Lasting
  <2>2. found # {}
    BY <2>1
  <2> QED BY <1>1, <1>3, <2>2 DEF Lasting, Gone
<1> QED BY <1>2, <1>3

(* The level of a key is that of a finding: the last one reported has a       *)
(* position, as positions are bounded.                                        *)
LEMMA LastIsReported ==
  ASSUME NEW positions \in SUBSET DOMAIN Findings, positions # {}
  PROVE  Max(positions) \in positions
<1>1. DOMAIN Findings = 1..Len(Findings) /\ Len(Findings) \in Nat
  BY CoordinationAssumption
<1> DEFINE T == {Len(Findings) - i : i \in positions}
<1>2. T \subseteq Nat /\ T # {}
  BY <1>1
<1>3. PICK x \in T : \A y \in T : x <= y
  BY <1>2, Least
<1>4. PICK i \in positions : x = Len(Findings) - i
  BY <1>3
<1>5. ASSUME NEW j \in positions PROVE i >= j
  <2>1. Len(Findings) - j \in T
    OBVIOUS
  <2> HIDE DEF T
  <2>2. x <= Len(Findings) - j
    BY <1>3, <2>1
  <2> QED BY <1>1, <1>4, <2>2
<1> QED BY <1>4, <1>5 DEF Max

LEMMA LevelsFloor ==
  ASSUME NEW f \in ToSet(Findings), f \in findings
  PROVE  LET floor == FloorHours[level_of(AutomationKey[f])] IN floor \in Nat /\ DeburstGap <= floor
<1> DEFINE positions == Reported(AutomationKey[f])
           at == Max(positions)
<1>1. positions # {} /\ positions \in SUBSET DOMAIN Findings
  BY DEF ToSet, Reported
<1>2. at \in DOMAIN Findings
  BY <1>1, LastIsReported
<1>3. Findings[at] \in DOMAIN Severity
  BY <1>2, CoordinationAssumption
<1> QED BY <1>3, CoordinationAssumption DEF level_of

(* The invariants: what is there to look at, and what the rows of both tools  *)
(* say of it. An item that is raised, and a row of the engine that is.        *)
LiveBranch == [created : Int, committed : Int, pr : {"none", "OPEN"}, ci : {"none", "pending", "failure", "success"}]
Words == {"none", "OPEN", "pending", "failure", "success", "possibly_stuck", "unchecked"}
Signal == [domain : {"branch", "ledger"}, payload : Seq(Words), suppressed : BOOLEAN, immediate : BOOLEAN]
Audit == [at : Nat, present : SUBSET Keys, heard : UNION {[bs -> Int] : bs \in SUBSET Branches}]
CycleRecord == [at : Nat, signals : UNION {[ss -> Signal] : ss \in SUBSET Subjects}]
FoundBy(list, k) == {j \in 1..Len(list) : k \in list[j].present}
ListedBy(list, s) == {j \in 1..Len(list) : s \in DOMAIN list[j].signals}
At(list) == [j \in 1..Len(list) |-> list[j].at]

RaisedBy(item, k, audit) ==
  item.state = "escalation_eligible" =>
    /\ \A b \in DOMAIN audit.heard : k \in Edits[b] => audit.at - audit.heard[b] >= StalenessIdle
    /\ audit.at - item.first >= DeburstGap
DecidedBy(row, s, cycle) ==
  row.state = "escalation_eligible" =>
    \/ cycle.signals[s].immediate
    \/ ~cycle.signals[s].suppressed /\ cycle.at - row.first >= FloorHours[cycle.signals[s].domain]

WorldOK == now \in Nat /\ live \in [Branches -> LiveBranch] /\ findings \subseteq ToSet(Findings) /\ plans \subseteq Plans
ItemInv(item, k) ==
  /\ DOMAIN item = DOMAIN NoItem /\ item.first \in Int
  /\ Lasting(item, Len(audits), FoundBy(audits, k), At(audits))
  /\ RaisedBy(item, k, audits[Len(audits)])
RatchetInv ==
  /\ audits \in Seq(Audit)
  /\ \A k \in Keys : ItemInv(coordination_items[k], k)
RowInv(row, s) ==
  /\ DOMAIN row = DOMAIN NoSignal
  /\ Lasting(row, Len(cycles), ListedBy(cycles, s), At(cycles))
  /\ DecidedBy(row, s, cycles[Len(cycles)])
EngineInv ==
  /\ cycles \in Seq(CycleRecord)
  /\ \A s \in Subjects : RowInv(signal_state[s], s)
ToolsInv == WorldOK /\ RatchetInv /\ EngineInv

(* One more entry of a list leaves what the others found.                     *)
LEMMA OneMoreAudit ==
  ASSUME NEW list \in Seq(Audit), NEW audit \in Audit, NEW k
  PROVE  LET more == Append(list, audit)
         IN /\ more \in Seq(Audit) /\ Len(more) = Len(list) + 1 /\ Len(list) \in Nat /\ more[Len(more)] = audit
            /\ FoundBy(list, k) \in SUBSET (1..Len(list))
            /\ FoundBy(more, k) = IF k \in audit.present THEN FoundBy(list, k) \cup {Len(list) + 1} ELSE FoundBy(list, k)
            /\ At(more)[Len(list) + 1] = audit.at
            /\ \A j \in 1..Len(list) : At(more)[j] = At(list)[j]
<1> DEFINE more == Append(list, audit)
<1>1. /\ Len(list) \in Nat /\ more \in Seq(Audit) /\ Len(more) = Len(list) + 1 /\ more[Len(list) + 1] = audit
      /\ \A j \in 1..Len(list) : more[j] = list[j]
  OBVIOUS
<1> HIDE DEF more
<1>2. FoundBy(more, k) = IF k \in audit.present THEN FoundBy(list, k) \cup {Len(list) + 1} ELSE FoundBy(list, k)
  BY <1>1 DEF FoundBy
<1>3. At(more)[Len(list) + 1] = audit.at /\ \A j \in 1..Len(list) : At(more)[j] = At(list)[j]
  BY <1>1 DEF At
<1>4. FoundBy(list, k) \in SUBSET (1..Len(list))
  BY DEF FoundBy
<1> QED BY <1>1, <1>2, <1>3, <1>4 DEF more

(* The same of the cycles.                                                    *)
LEMMA OneMoreCycle ==
  ASSUME NEW list \in Seq(CycleRecord), NEW cycle \in CycleRecord, NEW s
  PROVE  LET more == Append(list, cycle)
         IN /\ more \in Seq(CycleRecord) /\ Len(more) = Len(list) + 1 /\ Len(list) \in Nat /\ more[Len(more)] = cycle
            /\ ListedBy(list, s) \in SUBSET (1..Len(list))
            /\ ListedBy(more, s) = IF s \in DOMAIN cycle.signals THEN ListedBy(list, s) \cup {Len(list) + 1} ELSE ListedBy(list, s)
            /\ At(more)[Len(list) + 1] = cycle.at
            /\ \A j \in 1..Len(list) : At(more)[j] = At(list)[j]
<1> DEFINE more == Append(list, cycle)
<1>1. /\ Len(list) \in Nat /\ more \in Seq(CycleRecord) /\ Len(more) = Len(list) + 1 /\ more[Len(list) + 1] = cycle
      /\ \A j \in 1..Len(list) : more[j] = list[j]
  OBVIOUS
<1> HIDE DEF more
<1>2. ListedBy(more, s) = IF s \in DOMAIN cycle.signals THEN ListedBy(list, s) \cup {Len(list) + 1} ELSE ListedBy(list, s)
  BY <1>1 DEF ListedBy
<1>3. At(more)[Len(list) + 1] = cycle.at /\ \A j \in 1..Len(list) : At(more)[j] = At(list)[j]
  BY <1>1 DEF At
<1>4. ListedBy(list, s) \in SUBSET (1..Len(list))
  BY DEF ListedBy
<1> QED BY <1>1, <1>2, <1>3, <1>4 DEF more

(* What the tools promise follows.                                            *)
LEMMA ToolsKeepTheirPromise == ToolsInv => OnlyRaisesWhatPersists
<1> SUFFICES ASSUME ToolsInv PROVE OnlyRaisesWhatPersists
  OBVIOUS
<1>1. RatchetFollowsAudits
  <2> SUFFICES ASSUME NEW k \in Keys
               PROVE  LET item == coordination_items[k]  last == Len(audits)
                          Unbroken(i) == \A j \in i..last : k \in audits[j].present
                          Heard == audits[last].heard
                      IN /\ item.state = "absent" <=> \A j \in 1..last : k \notin audits[j].present
                         /\ item.state = "resolved" <=> (\E j \in 1..last : k \in audits[j].present) /\ k \notin audits[last].present
                         /\ item.state = "escalation_eligible" =>
                              /\ \A b \in DOMAIN Heard : k \in Edits[b] => audits[last].at - Heard[b] >= StalenessIdle
                              /\ \E i \in 1..last : Unbroken(i) /\ audits[last].at - audits[i].at >= DeburstGap
    BY DEF RatchetFollowsAudits
  <2> DEFINE item == coordination_items[k]
             last == Len(audits)
  <2>1. /\ last \in Nat /\ Lasting(item, last, FoundBy(audits, k), At(audits))
        /\ RaisedBy(item, k, audits[last])
    BY DEF ToolsInv, RatchetInv, ItemInv
  <2> HIDE DEF item, last
  <2>2. \A j \in 1..last : j \in FoundBy(audits, k) <=> k \in audits[j].present
    BY DEF FoundBy, last
  <2>3. FoundBy(audits, k) \subseteq 1..last
    BY DEF FoundBy, last
  <2>4. item.state = "absent" <=> \A j \in 1..last : k \notin audits[j].present
    BY <2>1, <2>2, <2>3 DEF Lasting
  <2>5. item.state = "resolved" <=> (\E j \in 1..last : k \in audits[j].present) /\ k \notin audits[last].present
    BY <2>1, <2>2, <2>3 DEF Lasting
  <2>6. ASSUME item.state = "escalation_eligible"
        PROVE  /\ \A b \in DOMAIN audits[last].heard : k \in Edits[b] => audits[last].at - audits[last].heard[b] >= StalenessIdle
               /\ \E i \in 1..last : (\A j \in i..last : k \in audits[j].present) /\ audits[last].at - audits[i].at >= DeburstGap
    <3>1. PICK i \in 1..last : i..last \subseteq FoundBy(audits, k) /\ At(audits)[i] = item.first
      BY <2>1, <2>6 DEF Lasting, Gone
    <3>2. audits[i].at = item.first /\ \A j \in i..last : k \in audits[j].present
      BY <3>1, <2>1, <2>2 DEF At, last
    <3> QED BY <2>1, <2>6, <3>1, <3>2 DEF RaisedBy
  <2> QED BY <2>4, <2>5, <2>6 DEF item, last
<1>2. EngineFollowsCycles
  <2> SUFFICES ASSUME NEW s \in Subjects
               PROVE  LET row == signal_state[s]  last == Len(cycles)
                          Listed(j) == s \in DOMAIN cycles[j].signals
                      IN /\ row.state = "resolved" <=> (\E j \in 1..last : Listed(j)) /\ ~Listed(last)
                         /\ row.state = "escalation_eligible" =>
                              \/ cycles[last].signals[s].immediate
                              \/ /\ ~cycles[last].signals[s].suppressed
                                 /\ \E i \in 1..last : /\ \A j \in i..last : Listed(j)
                                                       /\ cycles[last].at - cycles[i].at >= FloorHours[cycles[last].signals[s].domain]
    BY DEF EngineFollowsCycles
  <2> DEFINE row == signal_state[s]
             last == Len(cycles)
  <2>1. /\ last \in Nat /\ Lasting(row, last, ListedBy(cycles, s), At(cycles))
        /\ DecidedBy(row, s, cycles[last])
    BY DEF ToolsInv, EngineInv, RowInv
  <2> HIDE DEF row, last
  <2>2. \A j \in 1..last : j \in ListedBy(cycles, s) <=> s \in DOMAIN cycles[j].signals
    BY DEF ListedBy, last
  <2>3. ListedBy(cycles, s) \subseteq 1..last
    BY DEF ListedBy, last
  <2>4. row.state = "resolved" <=> (\E j \in 1..last : s \in DOMAIN cycles[j].signals) /\ s \notin DOMAIN cycles[last].signals
    BY <2>1, <2>2, <2>3 DEF Lasting
  <2>5. ASSUME row.state = "escalation_eligible"
        PROVE  \/ cycles[last].signals[s].immediate
               \/ /\ ~cycles[last].signals[s].suppressed
                  /\ \E i \in 1..last : /\ \A j \in i..last : s \in DOMAIN cycles[j].signals
                                        /\ cycles[last].at - cycles[i].at >= FloorHours[cycles[last].signals[s].domain]
    <3>1. PICK i \in 1..last : i..last \subseteq ListedBy(cycles, s) /\ At(cycles)[i] = row.first
      BY <2>1, <2>5 DEF Lasting, Gone
    <3>2. cycles[i].at = row.first /\ \A j \in i..last : s \in DOMAIN cycles[j].signals
      BY <3>1, <2>1, <2>2 DEF At, last
    <3> QED BY <2>1, <2>5, <3>1, <3>2 DEF DecidedBy
  <2> QED BY <2>4, <2>5 DEF row, last
<1> QED BY <1>1, <1>2 DEF OnlyRaisesWhatPersists

(* The audit: nobody but its own run writes the items.                        *)
LEMMA AuditStep ==
  ASSUME WorldOK, RatchetInv, NEW heard \in SUBSET Existing, observe_main(heard)
  PROVE  RatchetInv'
<1> DEFINE present == {AutomationKey[f] : f \in findings}
           audit == [at |-> now, present |-> present, heard |-> [b \in heard |-> live[b].committed]]
<1>1. audits' = Append(audits, audit)
  BY DEF observe_main
<1>2. audit \in Audit
  <2>1. heard \subseteq Branches /\ \A b \in heard : live[b].committed \in Int
    BY DEF Existing, WorldOK, LiveBranch
  <2>2. present \subseteq Keys
    BY DEF WorldOK, Keys
  <2>3. [b \in heard |-> live[b].committed] \in UNION {[bs -> Int] : bs \in SUBSET Branches}
    BY <2>1
  <2> QED BY <2>2, <2>3 DEF Audit, WorldOK
<1>3. audits \in Seq(Audit) /\ now \in Nat
  BY DEF RatchetInv, WorldOK
<1>4. \A k \in Keys : coordination_items'[k] = IF k \in present THEN observed_item(k, heard) ELSE resolved_item(coordination_items[k])
  BY DEF observe_main
<1>5. /\ audit.at = now /\ audit.present = present /\ DOMAIN audit.heard = heard
      /\ \A b \in heard : audit.heard[b] = live[b].committed /\ audit.heard[b] \in Int
  BY DEF Existing, WorldOK, LiveBranch
<1> HIDE DEF audit
<1>6. ASSUME NEW k \in Keys, k \in present PROVE ItemInv(coordination_items[k], k)'
  <2> DEFINE item == coordination_items[k]
             after == observed_item(k, heard)
             first == first_observed_at(item)
             floor == FloorHours[level_of(k)]
  <2>1. /\ DOMAIN item = DOMAIN NoItem /\ item.first \in Int /\ Lasting(item, Len(audits), FoundBy(audits, k), At(audits))
        /\ coordination_items'[k] = after
    BY <1>4, <1>6 DEF RatchetInv, ItemInv
  <2>2. /\ first = IF item.state \in Gone THEN now ELSE item.first
        /\ after.first = first /\ first \in Int /\ DOMAIN after = DOMAIN NoItem
        /\ after.state = IF suppressing(k, heard) THEN "suppressed_pending_work"
                         ELSE IF floor_met(k, level_of(k), first, coordination_log[k] \cup {now}) THEN "escalation_eligible" ELSE "observed"
    BY <1>3, <2>1 DEF observed_item, first_observed_at, Gone, NoItem
  <2>3. floor \in Nat /\ DeburstGap <= floor /\ DeburstGap \in Nat /\ StalenessIdle \in Nat
    <3>1. PICK f \in findings : k = AutomationKey[f]
      BY <1>6
    <3>2. f \in ToSet(Findings)
      BY DEF WorldOK
    <3> QED BY <3>1, <3>2, LevelsFloor, CoordinationAssumption
  <2> HIDE DEF item, after, first
  <2>4. RaisedBy(after, k, audit)
    <3> SUFFICES ASSUME after.state = "escalation_eligible"
                 PROVE  /\ \A b \in heard : k \in Edits[b] => now - live[b].committed >= StalenessIdle
                        /\ now - first >= DeburstGap
      BY <1>5, <2>2 DEF RaisedBy
    <3>1. ~suppressing(k, heard) /\ floor_met(k, level_of(k), first, coordination_log[k] \cup {now})
      BY <2>2
    <3>2. \A b \in heard : k \in Edits[b] => now - live[b].committed >= StalenessIdle
      BY <1>3, <1>5, <2>3, <3>1 DEF suppressing
    <3>3. now - first >= DeburstGap
      BY <1>3, <2>2, <2>3, <3>1 DEF floor_met
    <3> QED BY <3>2, <3>3
  <2>5. after.state \notin Gone /\ after.first = IF item.state \in Gone THEN audit.at ELSE item.first
    BY <1>5, <2>2 DEF Gone
  <2> DEFINE more == Append(audits, audit)
  <2>6. /\ more \in Seq(Audit) /\ Len(more) = Len(audits) + 1 /\ Len(audits) \in Nat /\ more[Len(more)] = audit
        /\ FoundBy(audits, k) \in SUBSET (1..Len(audits))
        /\ FoundBy(more, k) = FoundBy(audits, k) \cup {Len(audits) + 1}
        /\ At(more)[Len(audits) + 1] = audit.at
        /\ \A j \in 1..Len(audits) : At(more)[j] = At(audits)[j]
    BY <1>2, <1>3, <1>5, <1>6, OneMoreAudit
  <2> HIDE DEF more
  <2>7. Lasting(after, Len(more), FoundBy(more, k), At(more))
    <3> DEFINE n == Len(audits)
    <3>1. /\ n \in Nat /\ Len(more) = n + 1 /\ FoundBy(more, k) = FoundBy(audits, k) \cup {n + 1}
          /\ after.first = IF item.state \in Gone THEN At(more)[n + 1] ELSE item.first
          /\ FoundBy(audits, k) \in SUBSET (1..n) /\ Lasting(item, n, FoundBy(audits, k), At(audits))
          /\ \A j \in 1..n : At(more)[j] = At(audits)[j]
      BY <2>1, <2>5, <2>6
    <3> HIDE DEF n
    <3> QED BY <2>5, <3>1, FoundOnceMore
  <2>8. audits' = more
    BY <1>1 DEF more
  <2> QED BY <2>1, <2>2, <2>4, <2>6, <2>7, <2>8 DEF ItemInv
<1>7. ASSUME NEW k \in Keys, k \notin present PROVE ItemInv(coordination_items[k], k)'
  <2> DEFINE item == coordination_items[k]
             after == resolved_item(item)
             more == Append(audits, audit)
  <2>1. /\ DOMAIN item = DOMAIN NoItem /\ item.first \in Int /\ Lasting(item, Len(audits), FoundBy(audits, k), At(audits))
        /\ coordination_items'[k] = after
    BY <1>4, <1>7 DEF RatchetInv, ItemInv
  <2>2. /\ item.state \in Gone => after = item
        /\ item.state \notin Gone => after = [item EXCEPT !.state = "resolved"]
    BY DEF resolved_item, Gone
  <2>3. /\ item.state \notin Gone => after.state = "resolved"
        /\ after.first = item.first /\ DOMAIN after = DOMAIN NoItem
    BY <2>1, <2>2 DEF NoItem
  <2>4. more \in Seq(Audit) /\ Len(more) = Len(audits) + 1 /\ Len(audits) \in Nat
        /\ FoundBy(audits, k) \in SUBSET (1..Len(audits))
        /\ FoundBy(more, k) = FoundBy(audits, k)
    BY <1>2, <1>3, <1>5, <1>7, OneMoreAudit
  <2> HIDE DEF item, after, more
  <2>5. Lasting(after, Len(more), FoundBy(more, k), At(more))
    <3> DEFINE n == Len(audits)
    <3>1. /\ n \in Nat /\ Len(more) = n + 1 /\ FoundBy(more, k) = FoundBy(audits, k)
          /\ FoundBy(audits, k) \in SUBSET (1..n) /\ Lasting(item, n, FoundBy(audits, k), At(audits))
          /\ item.state \in Gone => after.state = item.state
      BY <2>1, <2>2, <2>4
    <3> HIDE DEF n
    <3> QED BY <2>3, <3>1, NotFoundNow
  <2>6. after.first \in Int /\ DOMAIN after = DOMAIN NoItem /\ after.state # "escalation_eligible"
    BY <2>1, <2>2, <2>3 DEF Gone
  <2>7. audits' = more
    BY <1>1 DEF more
  <2> QED BY <2>1, <2>5, <2>6, <2>7 DEF ItemInv, RaisedBy
<1> QED BY <1>1, <1>2, <1>3, <1>6, <1>7, OneMoreAudit DEF RatchetInv

(* A cycle of the engine.                                                     *)
LEMMA CycleStep ==
  ASSUME WorldOK, EngineInv, NEW listed \in SUBSET Existing, NEW told \in BOOLEAN, detect(listed, told)
  PROVE  EngineInv'
<1> DEFINE signals == [s \in listed \cup plans |-> IF s \in listed THEN branch_signals(listed, told)[s] ELSE plan_signals(plans)[s]]
           cycle == [at |-> now, signals |-> signals]
           more == Append(cycles, cycle)
<1>1. cycles' = more /\ apply_observation(signals)
  BY DEF detect
<1>2. listed \subseteq Branches /\ plans \subseteq Plans /\ now \in Nat /\ cycles \in Seq(CycleRecord)
  BY DEF Existing, WorldOK, EngineInv
<1>3. ASSUME NEW b \in listed PROVE branch_signals(listed, told)[b] \in Signal
  <2>1. live[b] \in LiveBranch
    BY <1>2 DEF WorldOK
  <2>2. pr_state(b, told) \in Words /\ commit_status(b, told) \in Words
    BY <2>1 DEF pr_state, commit_status, LiveBranch, Words
  <2> DEFINE payload == <<pr_state(b, told), commit_status(b, told)>>
  <2>3. payload \in Seq(Words) /\ Append(payload, "possibly_stuck") \in Seq(Words)
    BY <2>2 DEF Words
  <2>4. branch_payload(b, told) \in Seq(Words)
    BY <2>3 DEF branch_payload
  <2> QED BY <2>4 DEF branch_signals, Signal
<1>4. ASSUME NEW p \in plans PROVE plan_signals(plans)[p] \in Signal
  <2>1. <<"unchecked">> \in Seq(Words)
    BY DEF Words
  <2> QED BY <2>1 DEF plan_signals, Signal
<1>5. signals \in [listed \cup plans -> Signal]
  BY <1>3, <1>4
<1>6. cycle \in CycleRecord
  <2>1. listed \cup plans \in SUBSET Subjects
    BY <1>2 DEF Subjects
  <2> HIDE DEF signals
  <2>2. signals \in UNION {[ss -> Signal] : ss \in SUBSET Subjects}
    BY <1>5, <2>1
  <2> QED BY <1>2, <2>2 DEF CycleRecord
<1>7. /\ cycle.at = now /\ cycle.signals = signals /\ DOMAIN signals = listed \cup plans
      /\ \A s \in DOMAIN signals : signals[s] \in Signal
  BY <1>5
<1> HIDE DEF signals, cycle, more
<1>8. ASSUME NEW s \in Subjects PROVE RowInv(signal_state[s], s)'
  <2> DEFINE row == signal_state[s]
             after == signal_state'[s]
             first == first_seen_at(row)
  <2>1. DOMAIN row = DOMAIN NoSignal /\ Lasting(row, Len(cycles), ListedBy(cycles, s), At(cycles))
    BY DEF EngineInv, RowInv
  <2>2. after = IF s \in DOMAIN signals
                THEN [state |-> decided(signals[s], first), fingerprint |-> signals[s].payload, first |-> first,
                      count |-> IF row.state \in {"absent", "resolved"} THEN 1 ELSE row.count + 1]
                ELSE IF row.state \in {"absent", "resolved"} THEN row ELSE [row EXCEPT !.state = "resolved"]
    BY <1>1 DEF apply_observation
  <2>3. first = IF row.state \in Gone THEN now ELSE row.first
    BY DEF first_seen_at, Gone
  <2>4. /\ more \in Seq(CycleRecord) /\ Len(more) = Len(cycles) + 1 /\ Len(cycles) \in Nat /\ more[Len(more)] = cycle
        /\ ListedBy(cycles, s) \in SUBSET (1..Len(cycles))
        /\ ListedBy(more, s) = IF s \in DOMAIN signals THEN ListedBy(cycles, s) \cup {Len(cycles) + 1} ELSE ListedBy(cycles, s)
        /\ At(more)[Len(cycles) + 1] = now
        /\ \A j \in 1..Len(cycles) : At(more)[j] = At(cycles)[j]
    BY <1>2, <1>6, <1>7, OneMoreCycle DEF more
  <2> HIDE DEF row, after, first
  <2>5. CASE s \in DOMAIN signals
    <3>1. after.state = decided(signals[s], first) /\ after.first = first /\ DOMAIN after = DOMAIN NoSignal
      BY <2>2, <2>5 DEF NoSignal
    <3>2. /\ after.state \notin Gone
          /\ after.state = "escalation_eligible" =>
               \/ signals[s].immediate
               \/ ~signals[s].suppressed /\ now - first >= FloorHours[signals[s].domain]
      BY <3>1 DEF decided, Gone
    <3> DEFINE n == Len(cycles)
    <3>4. /\ n \in Nat /\ Len(more) = n + 1 /\ ListedBy(more, s) = ListedBy(cycles, s) \cup {n + 1}
          /\ after.first = IF row.state \in Gone THEN At(more)[n + 1] ELSE row.first
      BY <2>3, <2>4, <2>5, <3>1
    <3>3. Lasting(after, Len(more), ListedBy(more, s), At(more))
      <4> HIDE DEF n
      <4>1. ListedBy(cycles, s) \in SUBSET (1..n) /\ Lasting(row, n, ListedBy(cycles, s), At(cycles))
            /\ \A j \in 1..n : At(more)[j] = At(cycles)[j]
        BY <2>1, <2>4 DEF n
      <4> QED BY <3>4, <3>2, <4>1, FoundOnceMore
    <3>5. DecidedBy(after, s, cycle)
      BY <1>7, <3>1, <3>2 DEF DecidedBy
    <3> QED BY <1>1, <2>4, <3>1, <3>3, <3>5 DEF RowInv, after
  <2>6. CASE s \notin DOMAIN signals
    <3>1. /\ row.state \in Gone => after = row
          /\ row.state \notin Gone => after.state = "resolved"
          /\ DOMAIN after = DOMAIN NoSignal
      BY <2>1, <2>2, <2>6 DEF Gone, NoSignal
    <3>2. Lasting(after, Len(more), ListedBy(more, s), At(more))
      BY <2>1, <2>4, <2>6, <3>1, NotFoundNow
    <3>3. after.state # "escalation_eligible"
      BY <3>1 DEF Gone
    <3> QED BY <1>1, <2>4, <3>1, <3>2, <3>3 DEF RowInv, DecidedBy, after
  <2> QED BY <2>5, <2>6
<1> QED BY <1>1, <1>2, <1>6, <1>8, OneMoreCycle DEF EngineInv, more

(* The work on the repository, and who else leaves the tools alone.           *)
LEMMA WorkKeepsWorld == ASSUME WorldOK, work PROVE WorldOK'
<1>1. now' = now
  BY DEF work
<1>2. CASE finding_changes /\ UNCHANGED <<live, plans>>
  BY <1>1, <1>2 DEF finding_changes, WorldOK
<1>3. CASE plan_changes /\ UNCHANGED <<findings, live>>
  BY <1>1, <1>3 DEF plan_changes, WorldOK
<1>4. CASE branch_changes /\ UNCHANGED <<findings, plans>>
  <2>1. PICK b \in budget.worked_on : \E to \in Worked(b) : live' = [live EXCEPT ![b] = to]
    BY <1>4 DEF branch_changes
  <2>2. PICK to \in Worked(b) : live' = [live EXCEPT ![b] = to]
    BY <2>1
  <2>3. ASSUME b \in Branches PROVE to \in LiveBranch
    <3>1. live[b] \in LiveBranch /\ Unborn \in LiveBranch /\ now \in Int
      BY <2>3 DEF WorldOK, LiveBranch, Unborn
    <3>2. \A ci \in {"pending", "failure", "success"} : [live[b] EXCEPT !.ci = ci] \in LiveBranch
      BY <3>1 DEF LiveBranch
    <3>3. /\ [Unborn EXCEPT !.created = now, !.committed = now] \in LiveBranch
          /\ [live[b] EXCEPT !.committed = now] \in LiveBranch
          /\ [live[b] EXCEPT !.pr = "OPEN", !.ci = "pending"] \in LiveBranch
      BY <3>1 DEF LiveBranch
    <3> QED BY <2>2, <3>1, <3>2, <3>3 DEF Worked
  <2>4. live' \in [Branches -> LiveBranch]
    BY <2>2, <2>3 DEF WorldOK
  <2> QED BY <1>1, <1>4, <2>4 DEF WorldOK
<1> QED BY <1>2, <1>3, <1>4 DEF work

LEMMA ToolsStart == Init => ToolsInv
<1> SUFFICES ASSUME Init PROVE ToolsInv
  OBVIOUS
<1>1. /\ now = 0 /\ findings = {} /\ live = [b \in Branches |-> Unborn] /\ plans = {}
      /\ coordination_items = [k \in Keys |-> NoItem] /\ signal_state = [s \in Subjects |-> NoSignal]
      /\ audits = << >> /\ cycles = << >>
  BY DEF Init, CoordinationInit
<1>2. WorldOK
  BY <1>1 DEF WorldOK, Unborn, LiveBranch
<1>3. RatchetInv
  BY <1>1 DEF RatchetInv, ItemInv, NoItem, Lasting, FoundBy, RaisedBy, Gone
<1>4. EngineInv
  BY <1>1 DEF EngineInv, RowInv, NoSignal, Lasting, ListedBy, DecidedBy, Gone
<1> QED BY <1>2, <1>3, <1>4 DEF ToolsInv

LEMMA ToolsOwnTheirState == [Next]_vars => coordinate \/ UNCHANGED coordinationVars
<1> SUFFICES ASSUME [Next]_vars, ~coordinate PROVE UNCHANGED coordinationVars
  OBVIOUS
<1>1. CASE rest \/ alerting \/ backup \/ trade_shadow \/ observe
  BY <1>1 DEF rest, alerting, backup, trade_shadow, observe
<1>2. CASE sample \/ tick \/ restart \/ UNCHANGED vars
  BY <1>2 DEF sample, tick, restart, vars
<1> QED BY <1>1, <1>2 DEF Next

LEMMA ToolsStep == ToolsInv /\ [Next]_vars => ToolsInv'
<1> SUFFICES ASSUME ToolsInv, [Next]_vars PROVE ToolsInv'
  OBVIOUS
<1>1. WorldOK /\ RatchetInv /\ EngineInv
  BY DEF ToolsInv
<1>2. UNCHANGED <<coordination_items, audits>> => RatchetInv'
  BY <1>1 DEF RatchetInv, ItemInv
<1>3. UNCHANGED <<signal_state, cycles>> => EngineInv'
  BY <1>1 DEF EngineInv, RowInv
<1>4. UNCHANGED world => WorldOK'
  BY <1>1, ClockStep DEF WorldOK, world
<1>5. CASE UNCHANGED coordinationVars
  BY <1>2, <1>3, <1>4, <1>5 DEF ToolsInv, coordinationVars, world
<1>6. CASE work
  BY <1>1, <1>2, <1>3, <1>6, WorkKeepsWorld DEF ToolsInv, work, ratchet, engine
<1>7. CASE run_coordination_cycle
  <2>1. WorldOK' /\ EngineInv'
    BY <1>3, <1>4, <1>7 DEF run_coordination_cycle, engine
  <2>2. RatchetInv'
    <3>1. ASSUME NEW heard \in SUBSET Existing, observe_main(heard) PROVE RatchetInv'
      BY <1>1, <3>1, AuditStep
    <3>2. CASE audit_fails
      BY <1>2, <3>2 DEF audit_fails
    <3> QED BY <1>7, <3>1, <3>2 DEF run_coordination_cycle
  <2> QED BY <2>1, <2>2 DEF ToolsInv
<1>8. CASE run_detect_cycle
  <2>1. WorldOK' /\ RatchetInv'
    BY <1>2, <1>4, <1>8 DEF run_detect_cycle, ratchet
  <2>2. EngineInv'
    <3>1. ASSUME NEW listed \in SUBSET Existing, NEW told \in BOOLEAN, detect(listed, told) PROVE EngineInv'
      BY <1>1, <3>1, CycleStep
    <3>2. {} \in SUBSET Existing /\ Existing \in SUBSET Existing
      OBVIOUS
    <3> QED BY <1>8, <3>1, <3>2 DEF run_detect_cycle
  <2> QED BY <2>1, <2>2 DEF ToolsInv
<1> QED BY <1>5, <1>6, <1>7, <1>8, ToolsOwnTheirState DEF coordinate, CoordinationNext

(* The tools raise only what outlived a floor: an item of the ratchet says     *)
(* what the audits found, and what either tool raises was found by every run  *)
(* over at least its floor with nobody seen at work on it (suppressing,       *)
(* floor_met, decided), for any findings, branches, plans and failing runs.   *)
THEOREM ToolsTheorem == Spec => []OnlyRaisesWhatPersists
BY ToolsStart, ToolsStep, ToolsKeepTheirPromise, PTL DEF Spec
=============================================================================
