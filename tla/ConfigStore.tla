------------------------------ MODULE ConfigStore -----------------------------
(* services/config/config_store.py: settings.yaml, the copy of it in memory   *)
(* and the references callers keep to that copy. get() hands out the live     *)
(* section objects, update() merges into them in place, and a re-read of the  *)
(* file puts a new object beside the one earlier callers still hold. heap is  *)
(* the sequence of those objects, mem the one in use; noticed says that the   *)
(* recorded mtime is the file's.                                              *)
EXTENDS Integers, Sequences, FiniteSets

CONSTANTS Unreadable,     \* a file that is torn, empty or not a mapping
          Tables          \* the paths of nested maps whose keys update never deletes

VARIABLES store,
          adrift          \* the file was last changed by something memory has not read, or not changed at all

storeVars == <<store, adrift>>

Current(s) == s.heap[s.mem]
Loaded(content) == [heap |-> <<content>>, mem |-> 1, file |-> content, noticed |-> TRUE]

(* A configuration is a record of sections; strategy fields have paths of     *)
(* their own.                                                                 *)
ValueAt(content, path) == IF path \in DOMAIN content.strategy THEN content.strategy[path] ELSE content[path]

(* A key of a table that the patch does not mention keeps its value: 0 stands *)
(* for a key that is not there.                                               *)
Merged(old, new) == [k \in DOMAIN old |-> IF new[k] = 0 THEN old[k] ELSE new[k]]
merge_in_place(content, path, value) ==
  CASE path \in DOMAIN content.strategy -> [content EXCEPT !.strategy[path] = value]
    [] path \in Tables -> [content EXCEPT ![path] = Merged(content[path], value)]
    [] OTHER -> [content EXCEPT ![path] = value]

-----------------------------------------------------------------------------
(* Faulty variant: a read that was rejected is stamped all the same. *)
get_stamps_bad_reads(s) ==
  IF s.noticed THEN s
  ELSE IF s.file = Unreadable THEN [s EXCEPT !.noticed = TRUE]
  ELSE [s EXCEPT !.heap = Append(@, s.file), !.mem = Len(s.heap) + 1, !.noticed = TRUE]

(* What get() leaves: a changed and readable file is a new object. *)
rereads(s) == ~s.noticed /\ s.file # Unreadable
get(s) == IF rereads(s) THEN [s EXCEPT !.heap = Append(@, s.file), !.mem = Len(s.heap) + 1, !.noticed = TRUE] ELSE s

(* update() up to the rename of the new file: the merge and the dump. *)
merged(s, path, value) == [s EXCEPT !.heap[s.mem] = merge_in_place(Current(s), path, value)]
dumped(s) == [s EXCEPT !.file = Current(s), !.noticed = FALSE]
(* ... and the stat that follows it. *)
stamped(s) == [s EXCEPT !.noticed = TRUE]

StoreInit(content) == store = Loaded(content) /\ adrift = FALSE

(* Anything else that writes the file: an editor, git, another process.       *)
(* mid_update: update() has renamed the new file and not yet stamped it.      *)
edit_file(content, mid_update) ==
  /\ content # store.file
  /\ store' = [store EXCEPT !.file = content, !.noticed = FALSE]
  /\ adrift' = (adrift \/ mid_update)

(* A new process reads the file at import; it does not start on a bad one. *)
restart_store ==
  /\ store.file # Unreadable
  /\ store' = Loaded(store.file)
  /\ adrift' = FALSE

-----------------------------------------------------------------------------
(* While the recorded mtime is the file's, memory holds what the file says,   *)
(* except after a write of the file failed or an edit came between a rename   *)
(* and its stat: no edit is missed for good, and a bad read is tried again.   *)
MemoryFollowsFile == store.noticed /\ ~adrift => Current(store) = store.file
=============================================================================
