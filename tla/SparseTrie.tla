----------------------------- MODULE SparseTrie -----------------------------
(***************************************************************************)
(* The sparse Merkle-Patricia tries a block is replayed on without a       *)
(* database: crates/stateless/src/sparse.rs over the trie library it       *)
(* wraps.  A trie is canonical for its content, so a content (a function   *)
(* from nibble paths to values) stands for the root digest that commits to *)
(* it, and a node is the content below its path: digests are injective.    *)
(* What is sparse is which of its nodes the holder can open.  Opening a    *)
(* node that is only a digest panics in the library; the first such access *)
(* leaves the trie broken (ok = FALSE), as every caller then gives up.     *)
(***************************************************************************)
EXTENDS Naturals, Sequences, FiniteSets, SequencesExt, TLC

CONSTANT Keys   \* the nibble paths of the hashed addresses and slots

----------------------------------------------------------------------------
\* The shape of a canonical trie (the library): it depends on the keys alone.
KeyPrefixes == UNION {{SubSeq(k, 1, n) : n \in 0 .. Len(k)} : k \in Keys}
KeysUnder == [p \in KeyPrefixes |-> {k \in Keys : IsPrefix(p, k)}]
Under(c, p) == DOMAIN c \cap KeysUnder[p]

Shared(a, b) ==
  SubSeq(a, 1, CHOOSE n \in 0 .. Len(a) - 1 :
                 SubSeq(a, 1, n) = SubSeq(b, 1, n) /\ a[n + 1] # b[n + 1])

BranchPoints ==
  [S \in SUBSET Keys |-> {Shared(kk[1], kk[2]) : kk \in {jj \in S \X S : jj[1] # jj[2]}}]

NodePathsOf ==
  [S \in SUBSET Keys |->
     IF S = {} THEN {}
     ELSE {<<>>} \cup BranchPoints[S]
            \cup UNION {{SubSeq(k, 1, Len(b) + 1) : k \in S \cap KeysUnder[b]} : b \in BranchPoints[S]}]

NodePaths(c) == NodePathsOf[DOMAIN c]

Kind(c, p) ==
  IF Cardinality(Under(c, p)) = 1 THEN "leaf"
  ELSE IF p \in BranchPoints[DOMAIN c] THEN "branch" ELSE "extension"

Node(c, p) == {<<SubSeq(k, Len(p) + 1, Len(k)), c[k]>> : k \in Under(c, p)}

\* The nodes an access to k opens.
Visits(c, k) == {p \in NodePaths(c) : IsPrefix(p, k)}

\* The nodes of an eth_getProof answer for k: the opened ones.
ProofNodes(c, k) == {Node(c, p) : p \in Visits(c, k)}

\* The children of the branch that holds the leaf of k, but that leaf.
Siblings(c, k) ==
  LET leaf == CHOOSE p \in Visits(c, k) : Kind(c, p) = "leaf"
  IN  {p \in NodePaths(c) : /\ leaf # <<>>
                            /\ Len(p) = Len(leaf)
                            /\ Front(p) = Front(leaf)
                            /\ p # leaf}

----------------------------------------------------------------------------
\* RlpTrie.
Reached(paths, there) == {p \in there : \A q \in paths : IsPrefix(q, p) => q \in there}
Opened(c, nodes) == Reached(NodePaths(c), {p \in NodePaths(c) : Node(c, p) \in nodes})

from_prehashed(root, nodes) == [ok |-> TRUE, c |-> root, open |-> Opened(root, nodes)]

CanGet(t, k) == t.ok /\ Visits(t.c, k) \subseteq t.open

get(t, k) == IF k \in DOMAIN t.c THEN t.c[k] ELSE [none |-> TRUE]

Inserted(t, k, c) ==
  [t EXCEPT !.c = c,
            !.open = {p \in NodePaths(c) : IsPrefix(p, k) \/ p \in t.open \/ p \notin NodePaths(t.c)}]
insert(t, k, v) == IF CanGet(t, k) THEN Inserted(t, k, (k :> v) @@ t.c) ELSE [t EXCEPT !.ok = FALSE]

\* The branch left with one child is merged with it, which opens that child.
Removed(t, c, orphan) ==
  IF Cardinality(orphan) = 1 /\ ~(orphan \subseteq t.open) THEN [t EXCEPT !.ok = FALSE]
  ELSE [t EXCEPT !.c = c, !.open = t.open \cap NodePaths(c)]
remove(t, k) ==
  IF ~CanGet(t, k) THEN [t EXCEPT !.ok = FALSE]
  ELSE IF k \notin DOMAIN t.c THEN t
  ELSE Removed(t, [j \in DOMAIN t.c \ {k} |-> t.c[j]], Siblings(t.c, k))

rlp_nodes(t) == {Node(t.c, p) : p \in t.open}

hydrate_from_rlp(t, nodes) == [t EXCEPT !.open = Opened(t.c, nodes \cup rlp_nodes(t))]

\* The orphan a removal of k exposes, found in the proof that k is absent
\* after the block: a merged leaf or extension gives its shorter form back, a
\* branch stays a digest and is named by its path.
Deepest(P) == CHOOSE p \in P : \A q \in P : Len(q) <= Len(p)
Highest(P) == CHOOSE p \in P : \A q \in P : Len(q) >= Len(p)
SameNodes(t, after, last) ==
  {p \in NodePaths(t.c) \ t.open : /\ Under(t.c, p) = Under(after, last)
                                   /\ \A j \in Under(t.c, p) : t.c[j] = after[j]}
Orphan(t, P) ==
  IF P = {} THEN [trie |-> t, prefix |-> <<>>, unresolvable |-> FALSE]
  ELSE IF Kind(t.c, Highest(P)) = "branch" THEN [trie |-> t, prefix |-> Highest(P), unresolvable |-> TRUE]
  ELSE [trie |-> hydrate_from_rlp(t, {Node(t.c, Highest(P))}), prefix |-> <<>>, unresolvable |-> FALSE]
resolve_orphan(t, k, after) ==
  Orphan(t, IF DOMAIN after = {} THEN {} ELSE SameNodes(t, after, Deepest(Visits(after, k))))

----------------------------------------------------------------------------
\* Canonical order of hashed addresses and slots.
Before(a, b) ==
  \E n \in 1 .. Len(a) : SubSeq(a, 1, n - 1) = SubSeq(b, 1, n - 1) /\ a[n] < b[n]

Sorted(S) == SetToSortSeq(S, Before)

InsertAll(t, S, vals) == FoldLeft(LAMBDA acc, k : insert(acc, k, vals[k]), t, Sorted(S))
RemoveAll(t, S) == FoldLeft(LAMBDA acc, k : remove(acc, k), t, Sorted(S))
=============================================================================
