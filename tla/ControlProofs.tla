---------------------------- MODULE ControlProofs -----------------------------
(******************************************************************************)
(* Theorems about AutoApply, for any rules, configurations, edits, signals,   *)
(* trades and scenarios: memory follows the file, and what the program        *)
(* changes by itself is authorized, spaced and on new evidence.               *)
(******************************************************************************)
EXTENDS AutoApply, SequenceTheorems, WellFoundedInduction, TLAPS

-------------------------------------------------------------------------------
(* Sequences of anything, and the least and the greatest of some numbers.     *)

IsSequence(s) == \E S : s \in Seq(S)

LEMMA AppendedSequence ==
  ASSUME NEW s, IsSequence(s), NEW x
  PROVE  /\ IsSequence(Append(s, x)) /\ Len(s) \in Nat /\ Len(Append(s, x)) = Len(s) + 1
         /\ Append(s, x)[Len(s) + 1] = x /\ \A i \in 1..Len(s) : Append(s, x)[i] = s[i]
<1>1. PICK S : s \in Seq(S)
  BY DEF IsSequence
<1> DEFINE T == S \cup {x}
           n == Len(s)
<1>2. n \in Nat /\ (\A i \in 1..n : s[i] \in T) /\ s = [i \in 1..n |-> s[i]]
  BY <1>1, LenProperties, ElementOfSeq
<1>3. s \in Seq(T)
  <2> HIDE DEF n, T
  <2>1. [i \in 1..n |-> s[i]] \in Seq(T)
    BY <1>2, IsASeq
  <2> QED BY <1>2, <2>1
<1>4. x \in T
  OBVIOUS
<1> HIDE DEF T
<1>5. Append(s, x) \in Seq(T) /\ Len(Append(s, x)) = n + 1 /\ Append(s, x)[n + 1] = x /\ \A i \in 1..n : Append(s, x)[i] = s[i]
  BY <1>3, <1>4, AppendProperties
<1> QED BY <1>2, <1>5 DEF IsSequence

LEMMA ChangedSequence ==
  ASSUME NEW s, IsSequence(s), NEW m \in 1..Len(s), NEW x
  PROVE  /\ IsSequence([s EXCEPT ![m] = x]) /\ Len([s EXCEPT ![m] = x]) = Len(s) /\ [s EXCEPT ![m] = x][m] = x
<1>1. PICK S : s \in Seq(S)
  BY DEF IsSequence
<1> DEFINE T == S \cup {x}
           n == Len(s)
           changed == [i \in 1..n |-> IF i = m THEN x ELSE s[i]]
<1>2. n \in Nat /\ (\A i \in 1..n : s[i] \in T /\ (IF i = m THEN x ELSE s[i]) \in T) /\ s = [i \in 1..n |-> s[i]]
  BY <1>1, LenProperties, ElementOfSeq
<1>3. changed \in Seq(T) /\ Len(changed) = n
  <2> HIDE DEF n, T
  <2> QED BY <1>2, IsASeq
<1>4. [s EXCEPT ![m] = x] = changed /\ changed[m] = x
  BY <1>2
<1> HIDE DEF changed
<1> QED BY <1>3, <1>4 DEF IsSequence

LEMMA Least ==
  ASSUME NEW T, T \subseteq Nat, T # {}
  PROVE  \E x \in T : \A y \in T : x <= y
<1>1. IsWellFoundedOn(OpToRel(<, Nat), Nat)
  BY NatLessThanWellFounded
<1>2. PICK x \in T : \A y \in T : ~(<<y, x>> \in OpToRel(<, Nat))
  BY <1>1, WFMin
<1>3. \A y \in T : ~(y < x)
  BY <1>2 DEF OpToRel
<1> QED BY <1>3

LEMMA Latest ==
  ASSUME NEW T, NEW n \in Nat, T \subseteq 0..n, T # {}
  PROVE  \E t \in T : \A u \in T : u <= t
<1> DEFINE ages == {n - t : t \in T}
<1>1. ages \subseteq Nat /\ ages # {}
  <2>1. \A t \in T : n - t \in Nat
    OBVIOUS
  <2> QED BY <2>1
<1>2. PICK a \in ages : \A b \in ages : a <= b
  <2> HIDE DEF ages
  <2> QED BY <1>1, Least
<1>3. PICK t \in T : a = n - t
  OBVIOUS
<1>4. ASSUME NEW u \in T PROVE u <= t
  <2>1. n - t <= n - u /\ t \in 0..n /\ u \in 0..n
    BY <1>2, <1>3
  <2> QED BY <2>1
<1> QED BY <1>4

-------------------------------------------------------------------------------
(* The store: what a read, a merge, a dump and a stat leave.                  *)

IsStore(s) ==
  /\ DOMAIN s = {"heap", "mem", "file", "noticed"}
  /\ IsSequence(s.heap) /\ s.mem \in 1..Len(s.heap)
(* Memory and file say the same; or the file has changed and is not noticed.  *)
Synced(s) == Current(s) = s.file
InStep(s) == s.noticed => Synced(s)

LEMMA LoadedStore == ASSUME NEW content PROVE IsStore(Loaded(content)) /\ Synced(Loaded(content))
<1> DEFINE one == <<content>>
<1>1. one \in Seq({content}) /\ Len(one) = 1 /\ one[1] = content
  OBVIOUS
<1>2. Loaded(content) = [heap |-> one, mem |-> 1, file |-> content, noticed |-> TRUE]
  BY DEF Loaded
<1> DEFINE l == Loaded(content)
<1> HIDE DEF one
<1>3. DOMAIN l = {"heap", "mem", "file", "noticed"} /\ l.heap = one /\ l.mem = 1 /\ l.file = content
  BY <1>2
<1>4. IsSequence(one)
  BY <1>1 DEF IsSequence
<1> HIDE DEF l
<1>5. IsStore(l) /\ Synced(l)
  BY <1>1, <1>3, <1>4 DEF IsStore, Synced, Current
<1> QED BY <1>5 DEF l

LEMMA GotStore ==
  ASSUME NEW s, IsStore(s)
  PROVE  /\ IsStore(get(s)) /\ get(s).file = s.file /\ (InStep(s) => InStep(get(s))) /\ (Synced(s) => Synced(get(s)))
         /\ Len(s.heap) <= Len(get(s).heap)
<1> DEFINE longer == Append(s.heap, s.file)
           n == Len(s.heap)
<1>1. IsSequence(longer) /\ n \in Nat /\ Len(longer) = n + 1 /\ longer[n + 1] = s.file
  BY AppendedSequence DEF IsStore
<1>2. CASE ~rereads(s)
  <2>1. get(s) = s
    BY <1>2 DEF get
  <2> QED BY <1>1, <2>1
<1>3. CASE rereads(s)
  <2> DEFINE g == get(s)
  <2>1. g = [s EXCEPT !.heap = longer, !.mem = n + 1, !.noticed = TRUE]
    BY <1>3 DEF get
  <2> HIDE DEF g
  <2>2. DOMAIN g = DOMAIN s /\ g.heap = longer /\ g.mem = n + 1 /\ g.file = s.file
    BY <2>1 DEF IsStore
  <2> HIDE DEF longer, n
  <2>3. IsStore(g) /\ Synced(g)
    BY <1>1, <2>2 DEF IsStore, Synced, Current
  <2>4. Len(s.heap) <= Len(g.heap)
    BY <1>1, <2>2 DEF n
  <2> QED BY <2>2, <2>3, <2>4 DEF InStep, g
<1> QED BY <1>2, <1>3

LEMMA MergedStore == ASSUME NEW s, IsStore(s), NEW path, NEW value PROVE IsStore(merged(s, path, value))
<1> DEFINE content == merge_in_place(Current(s), path, value)
           changed == [s.heap EXCEPT ![s.mem] = content]
           m == merged(s, path, value)
<1> HIDE DEF content
<1>1. IsSequence(changed) /\ Len(changed) = Len(s.heap)
  BY ChangedSequence DEF IsStore
<1>2. m = [s EXCEPT !.heap = changed]
  BY DEF merged, content
<1> HIDE DEF changed, m
<1>3. DOMAIN m = DOMAIN s /\ m.heap = changed /\ m.mem = s.mem
  BY <1>2 DEF IsStore
<1>4. IsStore(m)
  BY <1>1, <1>3 DEF IsStore
<1> QED BY <1>4 DEF m

LEMMA DumpedStore == ASSUME NEW s, IsStore(s) PROVE IsStore(dumped(s)) /\ Synced(dumped(s))
<1> DEFINE d == dumped(s)
<1>1. d = [s EXCEPT !.file = Current(s), !.noticed = FALSE]
  BY DEF dumped
<1> HIDE DEF d
<1>2. DOMAIN d = DOMAIN s /\ d.heap = s.heap /\ d.mem = s.mem /\ d.file = Current(s)
  BY <1>1 DEF IsStore
<1>3. IsStore(d) /\ Synced(d)
  BY <1>2 DEF IsStore, Synced, Current
<1> QED BY <1>3 DEF d

LEMMA StampedStore ==
  ASSUME NEW s, IsStore(s)
  PROVE  IsStore(stamped(s)) /\ (Synced(s) => Synced(stamped(s)))
<1> DEFINE d == stamped(s)
<1>1. d = [s EXCEPT !.noticed = TRUE]
  BY DEF stamped
<1> HIDE DEF d
<1>2. DOMAIN d = DOMAIN s /\ d.heap = s.heap /\ d.mem = s.mem /\ d.file = s.file
  BY <1>1 DEF IsStore
<1>3. IsStore(d) /\ (Synced(s) => Synced(d))
  BY <1>2 DEF IsStore, Synced, Current
<1> QED BY <1>3 DEF d

LEMMA EditedStore ==
  ASSUME NEW s, IsStore(s), NEW content, NEW edited, edited = [s EXCEPT !.file = content, !.noticed = FALSE]
  PROVE  IsStore(edited) /\ InStep(edited)
<1>1. DOMAIN edited = DOMAIN s /\ edited.heap = s.heap /\ edited.mem = s.mem /\ edited.noticed = FALSE
  BY DEF IsStore
<1> QED BY <1>1 DEF IsStore, InStep

-------------------------------------------------------------------------------
(* Memory follows the file. An update that is written and not yet recorded    *)
(* has left both the same, so the stat that follows it may be taken for a     *)
(* read; what stops short of that, or comes in between, is called adrift.     *)

Written(p) == p.path \notin {"none", "failed"}
StoreInv ==
  /\ IsStore(store) /\ adrift \in BOOLEAN
  /\ ~adrift => InStep(store) /\ (Written(pending) => Synced(store))

(* An update leaves memory and file the same, or is adrift.                   *)
LEMMA UpdatedStore ==
  ASSUME NEW s, IsStore(s), NEW path, NEW value, NEW old, NEW source, NEW n, update(s, path, value, old, source, n)
  PROVE  StoreInv'
<1>1. IsStore(merged(s, path, value))
  BY MergedStore
<1>2. CASE store' = dumped(merged(s, path, value)) /\ adrift' = FALSE
  <2> DEFINE m == merged(s, path, value)
  <2> HIDE DEF m
  <2>1. IsStore(dumped(m)) /\ Synced(dumped(m)) /\ store' = dumped(m)
    BY <1>1, <1>2, DumpedStore DEF m
  <2>2. IsStore(store') /\ Synced(store')
    BY <2>1
  <2> QED BY <1>2, <2>2 DEF StoreInv, InStep
<1>3. CASE store' = merged(s, path, value) /\ adrift' = TRUE
  BY <1>1, <1>3 DEF StoreInv
<1> QED BY <1>2, <1>3 DEF update

(* A read of the file leaves memory as close to it as it was.                 *)
LEMMA ReadStore ==
  ASSUME StoreInv, store' = get(store), UNCHANGED adrift, ~Written(pending')
  PROVE  StoreInv'
<1>1. IsStore(get(store)) /\ (InStep(store) => InStep(get(store)))
  BY GotStore DEF StoreInv
<1>2. IsStore(store') /\ (InStep(store) => InStep(store'))
  BY <1>1
<1> QED BY <1>2 DEF StoreInv

LEMMA KeptStore ==
  ASSUME StoreInv, UNCHANGED storeVars, Written(pending') => Written(pending)
  PROVE  StoreInv'
BY DEF StoreInv, storeVars

LEMMA LoopFreeIdle == ~Written(NoUpdate) /\ (LoopFree => ~Written(pending))
BY DEF LoopFree, NoUpdate, Written

(* The record of an update, and what follows it.                              *)
LEMMA LoggedStore == ASSUME StoreInv, log_applied_change \/ log_raises PROVE StoreInv'
<1>1. UNCHANGED adrift /\ ~Written(pending') /\ IsStore(stamped(store))
  BY LoopFreeIdle, StampedStore DEF log_applied_change, log_raises, returned, StoreInv
<1>2. CASE Written(pending) /\ store' = get(stamped(store))
  <2> DEFINE s == stamped(store)
  <2>1. IsStore(s) /\ (Synced(store) => Synced(s))
    BY StampedStore DEF StoreInv
  <2> HIDE DEF s
  <2>2. IsStore(get(s)) /\ (Synced(s) => Synced(get(s)))
    BY <2>1, GotStore
  <2>3. store' = get(s)
    BY <1>2 DEF s
  <2>4. IsStore(store') /\ (Synced(store) => Synced(store'))
    BY <2>1, <2>2, <2>3
  <2> QED BY <1>1, <1>2, <2>4 DEF StoreInv, InStep
<1>3. CASE UNCHANGED store
  BY <1>1, <1>3, KeptStore DEF storeVars
<1> QED BY <1>2, <1>3 DEF log_applied_change, log_raises, Written

LEMMA PassStore ==
  ASSUME StoreInv, trades_close \/ read_config \/ start_pass \/ start_apply_calibration \/ analyse \/ decline
  PROVE  StoreInv'
<1>1. store' = get(store) /\ UNCHANGED adrift /\ UNCHANGED pending /\ LoopFree
  BY DEF trades_close, read_config, start_pass, start_apply_calibration, analyse, decline, controlVars
<1>2. ~Written(pending')
  BY <1>1, LoopFreeIdle
<1> QED BY <1>1, <1>2, ReadStore

LEMMA TunedStore ==
  ASSUME StoreInv, calibrate \/ advise \/ apply_calibration
  PROVE  StoreInv'
<1>1. (\E path, value, old, source, n : update(store, path, value, old, source, n)) \/ UNCHANGED <<store, adrift, pending>>
  <2>1. CASE calibrate
    BY <2>1 DEF calibrate
  <2>2. CASE advise
    BY <2>2 DEF advise
  <2>3. CASE apply_calibration
    BY <2>3 DEF apply_calibration
  <2> QED BY <2>1, <2>2, <2>3
<1>2. IsStore(store)
  BY DEF StoreInv
<1> QED BY <1>1, <1>2, UpdatedStore, KeptStore DEF storeVars

(* What the Config tab sends is one change of one path.                       *)
LEMMA ConfigTabUpdates ==
  ASSUME patch_strategy \/ add_override \/ remove_override
  PROVE  \E path, value : update_config(path, value)
<1>1. CASE patch_strategy
  BY <1>1 DEF patch_strategy
<1> DEFINE table == ValueAt(Current(get(store)), "by_category")
           With(i, v) == [table EXCEPT ![Categories[i]] = v]
<1>2. CASE add_override
  <2>1. PICK i \in 1..Len(Categories) : update_config("by_category", With(i, 6000))
    BY <1>2 DEF add_override
  <2> HIDE DEF With
  <2> QED BY <2>1
<1>3. CASE remove_override
  <2>1. PICK i \in 1..Len(Categories) : update_config("by_category", With(i, 0))
    BY <1>3 DEF remove_override
  <2> HIDE DEF With
  <2> QED BY <2>1
<1> QED BY <1>1, <1>2, <1>3

(* The routes and the Config tab update the store as they read it.            *)
LEMMA RouteStore ==
  ASSUME StoreInv, apply_advisory_recommendation \/ set_auto_applies \/ patch_strategy \/ add_override \/ remove_override \/ apply_analysis
  PROVE  StoreInv'
<1> DEFINE s == get(store)
<1>1. IsStore(s)
  BY GotStore DEF StoreInv
<1>2. \/ \E path, value, old, source, n : update(s, path, value, old, source, n)
      \/ store' = stamped(dumped(s)) /\ adrift' = FALSE /\ UNCHANGED pending
      \/ store' = s /\ UNCHANGED <<adrift, pending>>
  <2>1. CASE apply_advisory_recommendation
    BY <2>1 DEF apply_advisory_recommendation
  <2>2. CASE set_auto_applies
    BY <2>2 DEF set_auto_applies, set_auto_apply
  <2>3. ASSUME NEW path, NEW value, update_config(path, value) PROVE \E old, source, n : update(s, path, value, old, source, n)
    BY <2>3 DEF update_config
  <2>4. CASE patch_strategy \/ add_override \/ remove_override
    BY <2>3, <2>4, ConfigTabUpdates
  <2>5. CASE apply_analysis
    BY <2>5 DEF apply_analysis
  <2> QED BY <2>1, <2>2, <2>4, <2>5
<1> HIDE DEF s
<1>3. CASE \E path, value, old, source, n : update(s, path, value, old, source, n)
  BY <1>1, <1>3, UpdatedStore
<1>4. CASE store' = stamped(dumped(s)) /\ adrift' = FALSE /\ UNCHANGED pending
  <2> DEFINE d == dumped(s)
  <2>1. IsStore(d) /\ Synced(d) /\ store' = stamped(d)
    BY <1>1, <1>4, DumpedStore
  <2> HIDE DEF d
  <2>2. IsStore(store') /\ Synced(store')
    BY <2>1, StampedStore
  <2> QED BY <1>4, <2>2 DEF StoreInv, InStep
<1>5. CASE store' = s /\ UNCHANGED <<adrift, pending>>
  <2>1. store' = get(store)
    BY <1>5 DEF s
  <2>2. IsStore(get(store)) /\ (InStep(store) => InStep(get(store))) /\ (Synced(store) => Synced(get(store)))
    BY GotStore DEF StoreInv
  <2>3. IsStore(store') /\ (InStep(store) => InStep(store')) /\ (Synced(store) => Synced(store'))
    BY <2>1, <2>2
  <2> QED BY <1>5, <2>3 DEF StoreInv
<1> QED BY <1>2, <1>3, <1>4, <1>5

LEMMA OutsideStore ==
  ASSUME StoreInv, edit \/ crash \/ undecline \/ lose_evidence \/ tick \/ UNCHANGED vars
  PROVE  StoreInv'
<1>1. CASE edit
  <2>1. PICK content : edit_file(content, Written(pending)) /\ UNCHANGED pending
    BY <1>1 DEF edit, Written
  <2>2. IsStore(store') /\ InStep(store')
    BY <2>1, EditedStore DEF edit_file, StoreInv
  <2> QED BY <2>1, <2>2 DEF edit_file, StoreInv
<1>2. CASE crash
  <2>1. store' = Loaded(store.file) /\ adrift' = FALSE /\ pending' = NoUpdate
    BY <1>2 DEF crash, restart_store
  <2>2. IsStore(store') /\ Synced(store')
    BY <2>1, LoadedStore
  <2> QED BY <2>1, <2>2 DEF StoreInv, InStep
<1>3. CASE undecline \/ lose_evidence \/ tick \/ UNCHANGED vars
  <2>1. UNCHANGED <<store, adrift, pending>>
    BY <1>3 DEF undecline, lose_evidence, tick, vars, storeVars, controlVars
  <2> QED BY <2>1, KeptStore DEF storeVars
<1> QED BY <1>1, <1>2, <1>3

(* While the recorded time of the file is the file's own and nothing is       *)
(* adrift, memory holds what the file says, whatever is updated, edited,      *)
(* re-read or restarted: get, update and their failures in config_store.py.   *)
THEOREM FollowsTheorem == Spec => []MemoryFollowsFile
<1>1. Init => StoreInv
  <2> SUFFICES ASSUME Init PROVE StoreInv
    OBVIOUS
  <2>1. store = Loaded(Initial) /\ adrift = FALSE /\ ~Written(pending)
    BY LoopFreeIdle DEF Init, StoreInit
  <2>2. IsStore(store) /\ Synced(store)
    BY <2>1, LoadedStore
  <2> QED BY <2>1, <2>2 DEF StoreInv, InStep
<1>2. StoreInv /\ [Next]_vars => StoreInv'
  BY LoggedStore, PassStore, TunedStore, RouteStore, OutsideStore DEF Next
<1>3. StoreInv => MemoryFollowsFile
  BY DEF StoreInv, InStep, Synced, MemoryFollowsFile
<1> QED BY <1>1, <1>2, <1>3, PTL DEF Spec

-------------------------------------------------------------------------------
(* The record of applied changes. Nothing but log_applied_change adds to it,  *)
(* and an automatic change that waits for its row is a cooldown after every   *)
(* row of its source: its pass has asked when the last one was.               *)

Rows == IsSequence(applied) /\ \A i \in 1..Len(applied) : applied[i].at \in 0..now
Since(rows, source, t) == \A i \in 1..Len(rows) : rows[i].source = source => t - rows[i].at >= Cooldown
(* When the pass that is under way, if one is, began.                         *)
PassClock == DOMAIN pass = {"pc", "cfg", "at"} /\ pass.at \in Int /\ pass.at <= now
RecordInv ==
  /\ now \in Nat /\ Rows /\ PassClock /\ CooldownKept
  /\ Written(pending) /\ pending.source \in Automatic => Since(applied, pending.source, now)

LEMMA RowsAreMany == ASSUME Rows PROVE Len(applied) \in Nat
BY AppendedSequence DEF Rows

(* last_applied_at is the time of a row of the source, and no row is later.   *)
LEMMA LastApplied ==
  ASSUME now \in Nat, Rows, NEW source, NEW i \in 1..Len(applied), applied[i].source = source
  PROVE  last_applied_at(source) \in 0..now /\ applied[i].at <= last_applied_at(source)
<1> DEFINE times == {applied[k].at : k \in {j \in 1..Len(applied) : applied[j].source = source}}
<1>1. applied[i].at \in times /\ times \subseteq 0..now
  BY DEF Rows
<1>2. last_applied_at(source) = IF times = {} THEN -1 ELSE CHOOSE t \in times : \A u \in times : u <= t
  BY DEF last_applied_at
<1> HIDE DEF times
<1>3. \E t \in times : \A u \in times : u <= t
  BY <1>1, Latest
<1>4. last_applied_at(source) \in times /\ \A u \in times : u <= last_applied_at(source)
  BY <1>1, <1>2, <1>3
<1> QED BY <1>1, <1>4

LEMMA CooledDown ==
  ASSUME now \in Nat, Rows, NEW source, NEW t \in Int, t <= now, cooled_down(source, t)
  PROVE  Since(applied, source, now)
<1> SUFFICES ASSUME NEW i \in 1..Len(applied), applied[i].source = source PROVE now - applied[i].at >= Cooldown
  BY DEF Since
<1>1. last_applied_at(source) \in 0..now /\ applied[i].at <= last_applied_at(source) /\ applied[i].at \in 0..now
  BY LastApplied DEF Rows
<1>2. t - last_applied_at(source) >= Cooldown
  BY <1>1 DEF cooled_down
<1> QED BY <1>1, <1>2, ControlAssumption

LEMMA UpdatedBy ==
  ASSUME NEW s, NEW path, NEW value, NEW old, NEW source, NEW n, update(s, path, value, old, source, n), Written(pending')
  PROVE  pending'.source = source /\ pending'.path = path
BY DEF update, Written

(* A step that leaves the record alone keeps what is known of it.             *)
LEMMA QuietRecord ==
  ASSUME RecordInv, UNCHANGED applied, now' = now \/ now' = now + 1,
         \/ pass' = pass \/ pass' = NoPass
         \/ \E pc : pass' = [pass EXCEPT !.pc = pc]
         \/ \E pc, cfg : pass' = [pc |-> pc, cfg |-> cfg, at |-> now],
         Written(pending') /\ pending'.source \in Automatic => pending' = pending \/ Since(applied, pending'.source, now)
  PROVE  RecordInv'
<1>1. now \in Nat /\ now' \in Nat /\ now <= now'
  BY DEF RecordInv
<1>2. Rows' /\ CooldownKept'
  BY <1>1 DEF RecordInv, Rows, CooldownKept
<1>3. PassClock'
  BY <1>1 DEF RecordInv, PassClock, NoPass
<1>4. ASSUME NEW source, Since(applied, source, now) PROVE Since(applied', source, now')
  BY <1>1, <1>4, ControlAssumption DEF Since, RecordInv, Rows
<1>5. Written(pending') /\ pending'.source \in Automatic => Since(applied, pending'.source, now)
  BY DEF RecordInv
<1>6. Written(pending') /\ pending'.source \in Automatic => Since(applied', pending'.source, now')
  BY <1>4, <1>5
<1> QED BY <1>1, <1>2, <1>3, <1>6 DEF RecordInv

(* The row of an update: an automatic one is a cooldown after the others.     *)
LEMMA LoggedRecord == ASSUME RecordInv, log_applied_change PROVE RecordInv'
<1> DEFINE s == get(stamped(store))
           row == Logged(pending, s)
           n == Len(applied)
<1>1. Written(pending) /\ applied' = Append(applied, row) /\ returned(pending.source, FALSE) /\ UNCHANGED now
  BY DEF log_applied_change, Written
<1>2. row.at = now /\ row.source = pending.source
  <2> DEFINE old == OldValue(pending.old, pending.path, s)
  <2>1. row = [path |-> pending.path, source |-> pending.source, at |-> now, new |-> pending.value,
               before |-> pending.before, n |-> pending.n, old |-> old]
    BY DEF Logged
  <2> HIDE DEF row, old
  <2> QED BY <2>1
<1> HIDE DEF row
<1>3. /\ IsSequence(applied') /\ n \in Nat /\ Len(applied') = n + 1 /\ applied'[n + 1] = row
      /\ \A i \in 1..n : applied'[i] = applied[i]
  BY <1>1, AppendedSequence DEF RecordInv, Rows
<1>4. now \in Nat /\ \A i \in 1..n : applied[i].at \in 0..now
  BY DEF RecordInv, Rows
<1> HIDE DEF n
<1>5. Rows'
  <2> SUFFICES ASSUME NEW i \in 1..Len(applied') PROVE applied'[i].at \in 0..now
    BY <1>1, <1>3 DEF Rows
  <2>1. CASE i = n + 1
    BY <1>2, <1>3, <1>4, <2>1
  <2>2. CASE i # n + 1
    <3>1. i \in 1..n
      BY <1>3, <2>2
    <3> QED BY <1>3, <1>4, <3>1
  <2> QED BY <2>1, <2>2
<1>6. CooldownKept'
  <2> SUFFICES ASSUME NEW i \in 1..n + 1, NEW j \in 1..n + 1, i < j, applied'[i].source = applied'[j].source,
                      applied'[i].source \in Automatic
               PROVE  applied'[j].at - applied'[i].at >= Cooldown
    BY <1>3 DEF CooldownKept
  <2>1. i \in 1..n /\ applied'[i] = applied[i]
    BY <1>3
  <2>2. CASE j = n + 1
    <3>1. applied[i].source = pending.source /\ applied'[j].at = now
      BY <1>2, <1>3, <2>1, <2>2
    <3>2. Since(applied, pending.source, now)
      BY <1>1, <2>1, <3>1 DEF RecordInv
    <3> QED BY <2>1, <3>1, <3>2 DEF Since, n
  <2>3. CASE j # n + 1
    <3>1. j \in 1..n /\ applied'[j] = applied[j]
      BY <1>3, <2>3
    <3> QED BY <2>1, <3>1 DEF RecordInv, CooldownKept, n
  <2> QED BY <2>2, <2>3
<1>7. PassClock' /\ ~Written(pending')
  <2>1. ~Written(pending')
    BY <1>1, LoopFreeIdle DEF returned
  <2>2. pass' = pass \/ pass' = NoPass \/ pass' = [pass EXCEPT !.pc = "advise"]
    BY <1>1 DEF returned
  <2>3. PassClock
    BY DEF RecordInv
  <2> QED BY <1>1, <1>4, <2>1, <2>2, <2>3 DEF PassClock, NoPass
<1> QED BY <1>1, <1>4, <1>5, <1>6, <1>7 DEF RecordInv

(* The pass asks before it updates; nobody else is held to the cooldown.      *)
LEMMA AutomaticRecord == ASSUME RecordInv, calibrate \/ advise PROVE RecordInv'
<1>1. UNCHANGED <<applied, now>> /\ (pass' = NoPass \/ \E pc : pass' = [pass EXCEPT !.pc = pc])
  BY DEF calibrate, advise
<1>2. \/ \E path, value, old, source, n : update(store, path, value, old, source, n) /\ cooled_down(source, pass.at)
      \/ UNCHANGED pending
  <2>1. CASE calibrate
    BY <2>1 DEF calibrate
  <2>2. CASE advise
    BY <2>2 DEF advise
  <2> QED BY <2>1, <2>2
<1>3. now \in Nat /\ Rows /\ pass.at \in Int /\ pass.at <= now
  BY DEF RecordInv, PassClock
<1>4. Written(pending') => pending' = pending \/ Since(applied, pending'.source, now)
  BY <1>2, <1>3, CooledDown, UpdatedBy
<1> QED BY <1>1, <1>4, QuietRecord

LEMMA ManualRecord ==
  ASSUME RecordInv, \/ apply_advisory_recommendation \/ apply_calibration \/ set_auto_applies
                    \/ patch_strategy \/ add_override \/ remove_override \/ apply_analysis
  PROVE  RecordInv'
<1>1. /\ UNCHANGED <<applied, now, pass>>
      /\ \/ UNCHANGED pending
         \/ \E s, path, value, old, n : \E source \in {"unified-advisory", "calibration-manual", "manual", "series-analyst"} :
              update(s, path, value, old, source, n)
  <2>1. CASE apply_advisory_recommendation
    BY <2>1 DEF apply_advisory_recommendation
  <2>2. CASE apply_calibration
    BY <2>2 DEF apply_calibration
  <2>3. CASE set_auto_applies
    BY <2>3 DEF set_auto_applies, set_auto_apply
  <2>4. CASE patch_strategy \/ add_override \/ remove_override
    <3>1. PICK path, value : update_config(path, value)
      BY <2>4, ConfigTabUpdates
    <3> QED BY <3>1 DEF update_config
  <2>5. CASE apply_analysis
    BY <2>5 DEF apply_analysis
  <2> QED BY <2>1, <2>2, <2>3, <2>4, <2>5
<1>2. Written(pending') /\ pending'.source \in Automatic => pending' = pending
  BY <1>1, UpdatedBy DEF Automatic
<1> QED BY <1>1, <1>2, QuietRecord

LEMMA OtherRecord ==
  ASSUME RecordInv, \/ log_raises \/ trades_close \/ read_config \/ start_pass \/ decline \/ undecline
                    \/ start_apply_calibration \/ analyse \/ edit \/ crash \/ lose_evidence \/ tick \/ UNCHANGED vars
  PROVE  RecordInv'
<1>1. /\ UNCHANGED applied /\ (pending' = pending \/ ~Written(pending'))
      /\ now' = now \/ now' = now + 1
      /\ \/ pass' = pass \/ pass' = NoPass
         \/ \E pc : pass' = [pass EXCEPT !.pc = pc]
         \/ \E pc, cfg : pass' = [pc |-> pc, cfg |-> cfg, at |-> now]
  <2>1. CASE log_raises
    BY <2>1, LoopFreeIdle DEF log_raises, returned
  <2>2. CASE start_pass
    BY <2>2 DEF start_pass
  <2>3. CASE trades_close \/ read_config \/ decline \/ undecline \/ start_apply_calibration \/ analyse \/ lose_evidence \/ UNCHANGED vars
    BY <2>3 DEF trades_close, read_config, decline, undecline, start_apply_calibration, analyse, lose_evidence, vars, controlVars
  <2>4. CASE edit \/ crash \/ tick
    BY <2>4, LoopFreeIdle DEF edit, crash, tick
  <2> QED BY <2>1, <2>2, <2>3, <2>4
<1> QED BY <1>1, QuietRecord

LEMMA RecordStep == RecordInv /\ [Next]_vars => RecordInv'
BY LoggedRecord, AutomaticRecord, ManualRecord, OtherRecord DEF Next

LEMMA RecordStarts == Init => RecordInv
<1> SUFFICES ASSUME Init PROVE RecordInv
  OBVIOUS
<1> DEFINE empty == << >>
<1>1. empty \in Seq({}) /\ Len(empty) = 0
  OBVIOUS
<1>2. applied = empty /\ now = 0 /\ pass = NoPass /\ ~Written(pending)
  BY LoopFreeIdle DEF Init
<1> HIDE DEF empty
<1>3. Rows /\ CooldownKept
  BY <1>1, <1>2 DEF Rows, CooldownKept, IsSequence
<1>4. PassClock
  BY <1>2 DEF PassClock, NoPass
<1> QED BY <1>2, <1>3, <1>4 DEF RecordInv

-------------------------------------------------------------------------------
(* The evidence. Trades are only ever added, with the moment they were        *)
(* entered; a suggestion of the pass is one that is left when the stale ones  *)
(* have been dropped.                                                         *)

TradesInv == IsSequence(trades) /\ \A t \in 1..Len(trades) : trades[t].entered \in Int

LEMMA ClosedTrade ==
  ASSUME TradesInv, now \in Nat, trades_close
  PROVE  TradesInv'
<1>1. PICK group \in budget.groups, entered \in {t \in 0..now : t >= now - 1} :
        \E fp \in IF entered = now THEN {Current(store').strategy} ELSE variants' : trades' = Append(trades, Trade(group, fp, entered))
  BY DEF trades_close
<1>2. PICK fp : trades' = Append(trades, Trade(group, fp, entered))
  BY <1>1
<1> DEFINE trade == Trade(group, fp, entered)
           n == Len(trades)
<1>2a. trade.entered \in Int
  BY DEF Trade
<1> HIDE DEF trade
<1>3. /\ IsSequence(trades') /\ n \in Nat /\ Len(trades') = n + 1 /\ trades'[n + 1] = trade
      /\ \A i \in 1..n : trades'[i] = trades[i]
  <2>1. trades' = Append(trades, trade)
    BY <1>2 DEF trade
  <2> QED BY <2>1, AppendedSequence DEF TradesInv
<1> HIDE DEF n
<1>4. ASSUME NEW i \in 1..n + 1 PROVE trades'[i].entered \in Int
  <2>1. CASE i = n + 1
    BY <1>2a, <1>3, <2>1
  <2>2. CASE i # n + 1
    <3>1. i \in 1..n
      BY <1>3, <2>2
    <3> QED BY <1>3, <3>1 DEF TradesInv, n
  <2> QED BY <2>1, <2>2
<1> QED BY <1>3, <1>4 DEF TradesInv

LEMMA TradesStep == TradesInv /\ now \in Nat /\ [Next]_vars => TradesInv'
<1> SUFFICES ASSUME TradesInv, now \in Nat, [Next]_vars PROVE TradesInv'
  OBVIOUS
<1>1. CASE trades_close
  BY <1>1, ClosedTrade
<1>2. CASE UNCHANGED trades
  BY <1>2 DEF TradesInv
<1>3. ASSUME NEW path, NEW value, update_config(path, value) PROVE UNCHANGED trades
  BY <1>3 DEF update_config
<1>4. patch_strategy \/ add_override \/ remove_override => UNCHANGED trades
  BY <1>3, ConfigTabUpdates
<1>5. log_applied_change \/ read_config \/ start_pass \/ calibrate \/ advise \/ decline \/ undecline => UNCHANGED trades
  BY DEF log_applied_change, read_config, start_pass, calibrate, advise, decline, undecline, controlVars
<1>6. apply_advisory_recommendation \/ start_apply_calibration \/ apply_calibration \/ set_auto_applies \/ analyse \/ apply_analysis
      => UNCHANGED trades
  BY DEF apply_advisory_recommendation, start_apply_calibration, apply_calibration, set_auto_applies, set_auto_apply, analyse,
     apply_analysis
<1>7. log_raises \/ edit \/ crash \/ lose_evidence \/ tick \/ UNCHANGED vars => UNCHANGED trades
  BY DEF log_raises, edit, crash, lose_evidence, tick, vars, controlVars
<1> QED BY <1>1, <1>2, <1>4, <1>5, <1>6, <1>7 DEF Next

(* all_last_applied_by_path holds a time no earlier than any row of the path. *)
LEMMA LastOfPath ==
  ASSUME now \in Nat, Rows, NEW i \in 1..Len(applied)
  PROVE  /\ applied[i].path \in DOMAIN all_last_applied_by_path
         /\ all_last_applied_by_path[applied[i].path] \in Nat
         /\ applied[i].at <= all_last_applied_by_path[applied[i].path]
<1> DEFINE p == applied[i].path
           times == {applied[j].at : j \in 1..Len(applied)}
           IsLatest(t) == /\ \E j \in 1..Len(applied) : applied[j].path = p /\ applied[j].at = t
                          /\ \A j \in 1..Len(applied) : applied[j].path = p => applied[j].at <= t
           own == {t \in 0..now : \E j \in 1..Len(applied) : applied[j].path = p /\ applied[j].at = t}
<1>1. applied[i].at \in own /\ own \subseteq 0..now
  BY DEF Rows
<1>2. PICK t \in own : \A u \in own : u <= t
  <2> HIDE DEF own
  <2> QED BY <1>1, Latest
<1>3. t \in times /\ IsLatest(t)
  BY <1>2 DEF Rows
<1>4. p \in DOMAIN all_last_applied_by_path /\ all_last_applied_by_path[p] = CHOOSE u \in times : IsLatest(u)
  BY DEF all_last_applied_by_path
<1> DEFINE latest == all_last_applied_by_path[p]
<1>5. latest \in times /\ IsLatest(latest)
  <2> HIDE DEF times, IsLatest
  <2> QED BY <1>3, <1>4
<1>6. latest \in Nat
  BY <1>5 DEF Rows
<1> QED BY <1>4, <1>5, <1>6

(* What the pass chooses is left by drop_stale_recommendations.               *)
LEMMA ChosenIsFresh ==
  ASSUME NEW recs, qualifying(recs) # {}
  PROVE  \/ recs[first(qualifying(recs))].path \notin DOMAIN all_last_applied_by_path
         \/ \E t \in 1..Len(trades) : trades[t].entered > all_last_applied_by_path[recs[first(qualifying(recs))].path]
<1> DEFINE ids == qualifying(recs)
<1>1. ids \subseteq 1..Len(recs) /\ ids \subseteq drop_stale_recommendations(recs, trades, all_last_applied_by_path)
  BY DEF qualifying, remaining, generate_recommendations, drop_stale_recommendations
<1>2. ids \subseteq Nat
  BY <1>1
<1> HIDE DEF ids
<1>3. \E i \in ids : \A j \in ids : i <= j
  BY <1>2, Least DEF ids
<1>4. first(ids) \in ids
  BY <1>3 DEF first
<1> DEFINE i == first(ids)
<1>5. i \in drop_stale_recommendations(recs, trades, all_last_applied_by_path)
  BY <1>1, <1>4
<1> HIDE DEF i
<1>6. \/ recs[i].path \notin DOMAIN all_last_applied_by_path
      \/ \E t \in 1..Len(trades) : trades[t].entered > all_last_applied_by_path[recs[i].path]
  BY <1>5 DEF drop_stale_recommendations
<1> QED BY <1>6 DEF i, ids

-------------------------------------------------------------------------------
(* The guards of an automatic change, at the step that makes it.              *)

LEMMA PassMoves ==
  ASSUME PassClock, [Next]_vars, pass'.pc \in {"calibrated", "advised"}, pass'.pc # pass.pc
  PROVE  calibrate \/ advise
<1>1. CASE log_applied_change \/ log_raises
  <2>1. pass' = pass \/ pass' = NoPass \/ pass' = [pass EXCEPT !.pc = "advise"]
    BY <1>1 DEF log_applied_change, log_raises, returned
  <2> QED BY <2>1 DEF PassClock, NoPass
<1>2. CASE start_pass \/ crash
  <2>1. pass'.pc \in {"rows", "advise", "idle"}
    BY <1>2 DEF start_pass, crash, NoPass
  <2> QED BY <2>1
<1>3. UNCHANGED pass => FALSE
  OBVIOUS
<1>4. ASSUME NEW path, NEW value, update_config(path, value) PROVE UNCHANGED pass
  BY <1>4 DEF update_config
<1>5. patch_strategy \/ add_override \/ remove_override => UNCHANGED pass
  BY <1>4, ConfigTabUpdates
<1>6. trades_close \/ read_config \/ decline \/ undecline \/ edit \/ lose_evidence \/ tick \/ UNCHANGED vars => UNCHANGED pass
  BY DEF trades_close, read_config, decline, undecline, edit, lose_evidence, tick, vars, controlVars
<1>7. apply_advisory_recommendation \/ start_apply_calibration \/ apply_calibration \/ set_auto_applies \/ analyse \/ apply_analysis
      => UNCHANGED pass
  BY DEF apply_advisory_recommendation, start_apply_calibration, apply_calibration, set_auto_applies, set_auto_apply, analyse,
     apply_analysis
<1> QED BY <1>1, <1>2, <1>3, <1>5, <1>6, <1>7 DEF Next

LEMMA UpdatesAuthorized == PassClock /\ [Next]_vars => Authorized
<1> SUFFICES ASSUME PassClock, [Next]_vars PROVE Authorized
  OBVIOUS
<1>1. CASE pass.pc = "rows" /\ pass'.pc = "calibrated"
  <2>1. calibrate
    BY <1>1, PassMoves DEF advise
  <2>2. Held(pass).calibration_auto
    BY <1>1, <2>1 DEF calibrate, PassClock
  <2> QED BY <1>1, <2>2 DEF Authorized, Held, Current
<1>2. CASE pass.pc = "advise" /\ pass'.pc = "advised"
  <2>1. advise
    BY <1>2, PassMoves DEF calibrate
  <2>2. Held(pass).advisory_auto
    BY <1>2, <2>1 DEF advise, NoPass
  <2> QED BY <1>2, <2>2 DEF Authorized, Held, Current
<1> QED BY <1>1, <1>2 DEF Authorized

LEMMA UpdatesFresh == RecordInv /\ TradesInv /\ [Next]_vars => OnFreshEvidence
<1> SUFFICES ASSUME RecordInv, TradesInv, [Next]_vars, pass.pc = "advise", pass'.pc = "advised", pending'.path # "failed",
                    NEW i \in 1..Len(applied), applied[i].path = pending'.path
             PROVE  \E t \in 1..Len(trades) : trades[t].entered > applied[i].at
  BY DEF OnFreshEvidence
<1>1. advise
  BY PassMoves DEF calibrate, RecordInv
<1> DEFINE recs == considered(Held(pass))
           chosen == recs[first(qualifying(recs))]
<1>2. qualifying(recs) # {} /\ pending'.path = chosen.path
  <2>1. qualifying(recs) # {} /\ update(store, chosen.path, chosen.value, current_of(chosen, pass.cfg), "unified-advisory-auto", chosen.n)
    BY <1>1 DEF advise, NoPass
  <2> HIDE DEF recs, chosen
  <2> QED BY <2>1 DEF update
<1> HIDE DEF recs
<1> DEFINE last == all_last_applied_by_path[applied[i].path]
<1>3. applied[i].path \in DOMAIN all_last_applied_by_path /\ last \in Nat /\ applied[i].at <= last /\ applied[i].at \in Nat
  BY LastOfPath DEF RecordInv, Rows
<1>4. PICK t \in 1..Len(trades) : trades[t].entered > last
  BY <1>2, <1>3, ChosenIsFresh
<1> HIDE DEF last
<1>5. trades[t].entered > applied[i].at
  BY <1>3, <1>4 DEF TradesInv
<1> QED BY <1>5

(* What the program changes by itself is authorized when it is changed, is a  *)
(* cooldown after the last change of its source and is on evidence newer than *)
(* the last change of its field: the guards of _maybe_run_auto_apply in       *)
(* main.py and of drop_stale_recommendations in advisory_engine.py.           *)
THEOREM TuningTheorem == Spec => AutoTuningIsGuarded
<1> DEFINE Inv == RecordInv /\ TradesInv
<1>1. Init => Inv
  <2>1. Init => TradesInv
    <3> DEFINE empty == << >>
    <3>1. empty \in Seq({}) /\ Len(empty) = 0
      OBVIOUS
    <3>2. Init => trades = empty
      BY DEF Init
    <3> HIDE DEF empty
    <3> QED BY <3>1, <3>2 DEF TradesInv, IsSequence
  <2> QED BY <2>1, RecordStarts
<1>2. Inv /\ [Next]_vars => Inv'
  <2>1. RecordInv => now \in Nat
    BY DEF RecordInv
  <2> QED BY <2>1, RecordStep, TradesStep
<1>3. Inv => CooldownKept
  BY DEF RecordInv
<1>4. Inv /\ [Next]_vars => [Authorized]_vars /\ [OnFreshEvidence]_vars
  <2>1. RecordInv => PassClock
    BY DEF RecordInv
  <2> QED BY <2>1, UpdatesAuthorized, UpdatesFresh
<1> HIDE DEF Inv
<1> QED BY <1>1, <1>2, <1>3, <1>4, PTL DEF Spec, AutoTuningIsGuarded, AutoApplyIsGuarded, AutoApplyAuthorized, EvidenceIsFresh
===============================================================================
