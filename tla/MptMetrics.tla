----------------------------- MODULE MptMetrics -----------------------------
(***************************************************************************)
(* The accounting of trie work, crates/stateless/src/mpt_metrics.rs and    *)
(* the observed operations of RlpTrie in sparse.rs: what is charged for a  *)
(* path, a mutation and a hash is predicted from snapshots keyed by path,  *)
(* next to a trie that caches the encoding of each of its nodes.           *)
(***************************************************************************)
EXTENDS SparseTrie

CONSTANTS
  Contents,    \* contents a trie is loaded with
  Values,      \* values written
  MaxOps       \* operations on one trie

VARIABLES
  trie,     \* the trie
  shown,    \* the snapshot: the paths it resolves
  cached,   \* cached_paths: the nodes the accounting holds to be encoded
  kept,     \* the nodes whose encoding the trie has cached
  work,     \* the last hash: nodes charged and nodes encoded
  ops
vars == <<trie, shown, cached, kept, work, ops>>

----------------------------------------------------------------------------
\* A leaf with nothing left of its key is short enough to be held inline.
Inline(c, p) == Kind(c, p) = "leaf" /\ p \in DOMAIN c

\* resolve_child_for_materialization, walk_resolved: an inline child is part
\* of its parent, a hashed one is resolved by its digest or skipped.
walk_resolved(c, nodes) == Opened(c, nodes \cup {Node(c, p) : p \in {q \in NodePaths(c) : Inline(c, q) /\ q # <<>>}})

\* from_prehashed: without its root a snapshot is empty.
SnapshotFromPrehashed(c, nodes) == walk_resolved(c, nodes)
cached_paths_on_prehashed_load(c, paths) == {p \in paths : p = <<>> \/ ~Inline(c, p)}

\* rebuild_snapshot: from the nodes the trie can encode.
from_rlp_nodes(t) == walk_resolved(t.c, rlp_nodes(t))

\* The nodes an access goes through; an empty snapshot counts one null visit.
observe_path(c, paths, k) ==
  IF paths = {} THEN [err |-> FALSE, found |-> FALSE, visits |-> 1, visited |-> {<<>>}]
  ELSE [err |-> ~(Visits(c, k) \subseteq paths), found |-> k \in DOMAIN c,
        visits |-> Cardinality(Visits(c, k)), visited |-> Visits(c, k)]

Unchanged(before, after, p) == Kind(before, p) = Kind(after, p) /\ Node(before, p) = Node(after, p)

\* diff: the nodes a mutation leaves new or changed; a node that moved is new
\* at its path.
diff(before, beforePaths, after, afterPaths) ==
  {p \in afterPaths : p \in beforePaths => ~Unchanged(before, after, p)}

\* Mutant: only the nodes whose bytes changed lose their cached encoding.
RetainSameBytes(before, beforePaths, after, afterPaths, path) ==
  (cached \cap afterPaths) \ diff(before, beforePaths, after, afterPaths)

\* observe_mutation: what stays cached.
Retained(before, beforePaths, after, afterPaths, path) ==
  (cached \cap afterPaths) \ (path.visited \cup diff(before, beforePaths, after, afterPaths))

\* hash_observation, observe_uncached_subtree: everything below the root that
\* no cached node hides.
Uncached(paths, hidden) == {p \in paths : ~\E q \in hidden : IsPrefix(q, p)}

----------------------------------------------------------------------------
Load(c, nodes) ==
  /\ trie = [ok |-> TRUE, c |-> c, open |-> walk_resolved(c, nodes)]
  /\ shown = SnapshotFromPrehashed(c, nodes)
  /\ cached = cached_paths_on_prehashed_load(c, SnapshotFromPrehashed(c, nodes))
  /\ kept = {p \in walk_resolved(c, nodes) : p = <<>> \/ ~Inline(c, p)}

Init ==
  /\ \E c \in Contents :
       \E nodes \in {{Node(c, p) : p \in P} : P \in {NodePaths(c), {p \in NodePaths(c) : Len(p) # 1}}} : Load(c, nodes)
  /\ work = [charged |-> {}, encoded |-> {}]
  /\ ops = 0

\* The trie drops the cached encodings along the path it changes.
KeptAfter(t, k) == {p \in kept \cap t.open : ~IsPrefix(p, k)}

Mutated(t, k, path) ==
  /\ trie' = t
  /\ shown' = from_rlp_nodes(t)
  /\ cached' = Retained(trie.c, shown, t.c, from_rlp_nodes(t), path)
  /\ kept' = KeptAfter(t, k)
  /\ ops' = ops + 1
  /\ UNCHANGED work

InsertObserved(k, v) ==
  /\ ops < MaxOps
  /\ \E path \in {observe_path(trie.c, shown, k)} :
     \E t \in {insert(trie, k, [slot |-> v])} :
       /\ ~path.err
       /\ t.ok
       /\ Mutated(t, k, path)

\* A removal that finds nothing leaves the snapshot and the cache as they are.
RemoveObserved(k) ==
  /\ ops < MaxOps
  /\ \E path \in {observe_path(trie.c, shown, k)} :
     \E t \in {remove(trie, k)} :
       /\ ~path.err
       /\ t.ok
       /\ IF k \in DOMAIN trie.c THEN Mutated(t, k, path)
          ELSE ops' = ops + 1 /\ UNCHANGED <<trie, shown, cached, kept, work>>

HashObserved ==
  /\ ops < MaxOps
  /\ work' = [charged |-> Uncached(shown, cached), encoded |-> Uncached(trie.open, kept)]
  /\ cached' = cached \cup Uncached(shown, cached)
  /\ kept' = kept \cup Uncached(trie.open, kept)
  /\ ops' = ops + 1
  /\ UNCHANGED <<trie, shown>>

Next == (\E k \in Keys : (\E v \in Values : InsertObserved(k, v)) \/ RemoveObserved(k)) \/ HashObserved

Spec == Init /\ [][Next]_vars

----------------------------------------------------------------------------
\* Every node the trie encodes when it is hashed is charged, after any
\* sequence of inserts, removals and hashes on a complete or partial trie: a
\* node that moved with a split or a merge, a value written over itself and an
\* inline node under a changed parent included (hash_observation in
\* mpt_metrics.rs, which is meant to overcharge and never to undercharge).
HashWorkCharged == work.encoded \subseteq work.charged
=============================================================================
