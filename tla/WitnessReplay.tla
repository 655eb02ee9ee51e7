--------------------------- MODULE WitnessReplay ----------------------------
(***************************************************************************)
(* The witness of a block: how it is built from RPC calls, and its replay  *)
(* in the guest.                                                           *)
(***************************************************************************)
EXTENDS StatelessValidation

(***************************************************************************)
(* Building the witness of a block from ordinary RPC calls:                *)
(* crates/provider/src/on_the_spot_witness.  The block is executed on a    *)
(* database that asks the node for what it reads and records it; the       *)
(* proofs of what was read, the nodes a deletion exposes (found in proofs  *)
(* of the state after the block) and the ancestors up to the oldest        *)
(* BLOCKHASH are then put together.                                        *)
(*                                                                         *)
(* node is what the RPC node answers: pre and post are the states of the   *)
(* parent and of the block, chain the headers by number; a faulty node     *)
(* answers one kind of call wrongly (node.fault).                          *)
(***************************************************************************)

CONSTANT eip1186_proof_chunk_size

\* eth_getProof.
SlotsIn(c, a) == IF a \in DOMAIN c THEN c[a].root ELSE <<>>
ValueIn(slots, s) == IF s \in DOMAIN slots THEN slots[s].slot ELSE 0
RpcProof(c, a, keys, slots) ==
  [address |-> a, of |-> c, account |-> IF a \in DOMAIN c THEN c[a] ELSE Nothing,
   slots |-> [s \in keys |-> [value |-> ValueIn(slots, s), nodes |-> ProofNodes(slots, s)]]]

PreState(node, keys) == IF node.fault = "lagging" /\ keys # {} THEN node.post ELSE node.pre

\* The keys in chunks, the first one even if it is empty.
ChunkOf(q, i) == {q[j] : j \in (i - 1) * eip1186_proof_chunk_size + 1 .. Min({Len(q), i * eip1186_proof_chunk_size})}
Chunks(q) == [i \in 1 .. Max({1, (Len(q) + eip1186_proof_chunk_size - 1) \div eip1186_proof_chunk_size}) |-> ChunkOf(q, i)]

Joined(answers) ==
  [err |-> \E i \in DOMAIN answers : answers[i].of # answers[1].of,
   proof |-> [answers[1] EXCEPT !.slots = FoldLeft(LAMBDA acc, p : acc @@ p.slots, <<>>, answers)]]

Answer(node, c, a, keys) == RpcProof(c, a, keys, SlotsIn(c, a))
Asked(node, a, parts) == Joined([i \in DOMAIN parts |-> Answer(node, PreState(node, parts[i]), a, parts[i])])
get_proof(node, a, keys) == Asked(node, a, Chunks(Sorted(keys)))

----------------------------------------------------------------------------
\* PreflightDb.
NewPreflightDb(node) ==
  [node |-> node, accounts |-> <<>>, codes |-> {}, numbers |-> {}, proofs |-> <<>>]

missing_proof(db, a, keys) ==
  IF a \notin DOMAIN db.proofs THEN [some |-> TRUE, keys |-> keys]
  ELSE [some |-> DOMAIN RootOf(db.proofs[a].account) # {} /\ ~(keys \subseteq DOMAIN db.proofs[a].slots),
        keys |-> keys \ DOMAIN db.proofs[a].slots]

merge_checked_maps(f, g) == \A s \in DOMAIN f \cap DOMAIN g : f[s] = g[s]

Merged(db, p, q) ==
  [err |-> ~(q.account = p.account /\ q.of = p.of /\ merge_checked_maps(q.slots, p.slots)),
   db  |-> [db EXCEPT !.proofs = (p.address :> [q EXCEPT !.slots = @ @@ p.slots]) @@ @]]
AddProof(db, p) ==
  IF p.address \in DOMAIN db.proofs THEN Merged(db, p, db.proofs[p.address])
  ELSE [err |-> FALSE, db |-> [db EXCEPT !.proofs = (p.address :> p) @@ @]]
AddAnswer(db, got) == IF got.err THEN [err |-> TRUE, db |-> db] ELSE AddProof(db, got.proof)

FetchWanted(e, a, want) == IF want.some THEN AddAnswer(e.db, get_proof(e.db.node, a, want.keys)) ELSE e
FetchMissing(e, a, keys) == IF e.err THEN e ELSE FetchWanted(e, a, missing_proof(e.db, a, keys))

add_access_list(e, list) == FoldLeft(LAMBDA acc, item : FetchMissing(acc, item.a, item.keys), e, list)

ReadAccount(r, a) == [err |-> r.err, db |-> r.db, val |-> IF r.err THEN Nothing ELSE r.db.proofs[a].account]
Touched(db, a, keys) == [db EXCEPT !.accounts = (a :> (keys \cup IF a \in DOMAIN @ THEN @[a] ELSE {})) @@ @]

PreflightBasic(db, a) ==
  ReadAccount(IF a \in DOMAIN db.proofs THEN [err |-> FALSE, db |-> Touched(db, a, {})]
              ELSE AddAnswer(Touched(db, a, {}), get_proof(db.node, a, {})), a)

PreflightStorage(db, a, s) ==
  [err |-> FALSE, db |-> Touched(db, a, {s}),
   val |-> IF a \in DOMAIN db.proofs /\ s \in DOMAIN db.proofs[a].slots THEN db.proofs[a].slots[s].value
           ELSE ValueIn(SlotsIn(IF db.node.fault = "storageAt" THEN db.node.post ELSE db.node.pre, a), s)]

\* The bytes are filed under the hash that was asked for; a wrong answer is
\* found out where the bytes are hashed again.
PreflightCode(db, c) ==
  [err |-> FALSE, db |-> [db EXCEPT !.codes = @ \cup {IF db.node.fault = "code" THEN NoCode ELSE c}]]

PreflightHash(db, n) ==
  [err |-> n \notin DOMAIN db.node.chain, db |-> [db EXCEPT !.numbers = @ \cup {n}],
   val |-> IF db.node.fault = "reorg" THEN Nothing ELSE db.node.chain[n]]

\* By hash from the parent back to the oldest number that was asked for.
ancestor_proof(db, start) ==
  LET first == Min(db.numbers \cup {start.number})
  IN  [err |-> FALSE, headers |-> [i \in 1 .. start.number - first + 1 |->
                                     from_header(db.node.chain[first + i - 1])]]

TriesOf(asked, used) ==
  [err |-> asked.err, db |-> asked.db,
   state |-> from_prehashed(IF used = {} THEN asked.db.node.pre ELSE asked.db.proofs[CHOOSE a \in used : TRUE].of,
                            UNION {ProofNodes(asked.db.proofs[a].of, a) : a \in used}),
   storages |-> [a \in used |->
     from_prehashed(RootOf(asked.db.proofs[a].account),
                    UNION {asked.db.proofs[a].slots[s].nodes :
                             s \in asked.db.accounts[a] \cap DOMAIN asked.db.proofs[a].slots})]]

state_proof(db) ==
  TriesOf(FoldSet(LAMBDA a, e : FetchMissing(e, a, db.accounts[a]), [db |-> db, err |-> FALSE], DOMAIN db.accounts),
          DOMAIN db.accounts)

----------------------------------------------------------------------------
\* Proofs of the state after the block.
handle_new_account(t, node, a) == hydrate_from_rlp(t, ProofNodes(node.post, a))

handle_removed_account(t, node, a) ==
  resolve_orphan(hydrate_from_rlp(t, ProofNodes(node.post, a)), a, node.post)

\* debug_storageRangeAt: the first slot at or after the prefix.
NextKey(hit) == IF hit = {} THEN Nothing ELSE [key |-> CHOOSE s \in hit : \A u \in hit : s = u \/ Before(s, u)]
get_next_storage_key(node, slots, prefix) ==
  NextKey(IF node.fault = "range" THEN {} ELSE {s \in DOMAIN slots : IsPrefix(prefix, s)})

\* The slots that appear or disappear.
Flipped(j) == {s \in DOMAIN j.slots : (j.slots[s].was = 0) # (j.slots[s].now = 0)}

HydrateAll(t, slots, keys) == hydrate_from_rlp(t, UNION {ProofNodes(slots, s) : s \in keys})

\* Mutant: the orphans a deletion exposes are not looked for.
InclusionOnly(t, node, slots, j) == [err |-> FALSE, trie |-> HydrateAll(t, slots, Flipped(j))]

Noted(acc, r) == [trie |-> r.trie, open |-> acc.open \cup (IF r.unresolvable THEN {r.prefix} ELSE {})]
ResolveEach(t, slots, keys) ==
  FoldSet(LAMBDA s, acc : IF s \in DOMAIN slots THEN acc ELSE Noted(acc, resolve_orphan(acc.trie, s, slots)),
          [trie |-> HydrateAll(t, slots, keys), open |-> {}], keys)
FetchOpen(first, node, slots, keys) ==
  IF Nothing \in keys THEN [err |-> TRUE, trie |-> first.trie]
  ELSE [err |-> FALSE, trie |-> HydrateAll(first.trie, slots, {k.key : k \in keys})]
ResolveOpen(first, node, slots) ==
  FetchOpen(first, node, slots, {get_next_storage_key(node, slots, p) : p \in first.open})
handle_modified_account(t, node, slots, j) == ResolveOpen(ResolveEach(t, slots, Flipped(j)), node, slots)

-----------------------------------------------------------------------------
(***************************************************************************)
(* A block, from the RPC calls that build its witness to its replay in the *)
(* guest.  A scene is the parent state, the transactions and one fault: of *)
(* the RPC node while the witness is built, or of the material that reaches*)
(* the guest.                                                              *)
(***************************************************************************)

CONSTANTS
  Scenes,      \* the scenes: functions of the parent state, see MCProofs
  NodeFaults,  \* kinds of RPC answer that are wrong
  Tampers,     \* what is wrong with the witness or the headers the guest reads
  Ancestors    \* the headers before the parent, oldest first, by number from 0

VARIABLES scene, phase, node, db, acct, tries, todo, witness, seen
vars == <<scene, phase, node, db, acct, tries, todo, witness, seen>>

----------------------------------------------------------------------------
\* The full state: what a node with a database computes.
AncestorOf(h, n) ==
  LET up[k \in 0 .. h.number] == IF k = h.number THEN h ELSE up[k + 1].parent IN up[n]

FullBasic(d, a) == [err |-> FALSE, db |-> d, val |-> IF a \in DOMAIN d.root THEN d.root[a] ELSE Nothing]
FullStorage(d, a, s) ==
  [err |-> FALSE, db |-> d,
   val |-> IF a \in DOMAIN d.root THEN IF s \in DOMAIN d.root[a].root THEN d.root[a].root[s].slot ELSE 0 ELSE 0]
FullCode(d, c) == [err |-> FALSE, db |-> d]
FullHash(d, n) == [err |-> FALSE, db |-> d, val |-> AncestorOf(d, n)]

TruePost(parent, txs) == After(parent.root, Execute(txs, parent, FullBasic, FullStorage, FullCode, FullHash).acct)

Child(parent, root, ts, beacon, txs) ==
  [number |-> parent.number + 1, parent |-> parent, root |-> root, ts |-> ts, beacon |-> beacon, txs |-> txs]

\* The source lists transactions; the block holds those that count.
ParentOf(sc) == Child(Last(Ancestors), sc.pre, UnzenTime, "zero", <<>>)
BlockTxs(sc) == SelectSeq(sc.txs, LAMBDA t : t.signed /\ t.valid)
BlockOn(parent, txs) == Child(parent, TruePost(parent, txs), UnzenTime + 1, "zero", txs)
Chain(parent) == [n \in 0 .. parent.number |-> IF n = parent.number THEN parent ELSE Ancestors[n + 1]]

----------------------------------------------------------------------------
NoTries == [state |-> Nothing, storages |-> <<>>]
NoWitness == [state |-> <<>>, indices |-> <<>>, codes |-> {}, headers |-> <<>>]

Init ==
  /\ scene \in Scenes
  /\ phase = "fetch"
  /\ node = Nothing /\ db = Nothing /\ acct = <<>> /\ tries = NoTries /\ todo = {}
  /\ witness = NoWitness /\ seen = Nothing

\* The block and its parent hash; the proofs of the access lists.
NodeOf(parent, block, fault) ==
  [pre |-> parent.root, post |-> block.root, chain |-> Chain(parent), block |-> block, fault |-> fault]
AccessLists(txs) == FlattenSeq([i \in DOMAIN txs |-> txs[i].list])

FetchBlock ==
  /\ phase = "fetch"
  /\ \E fault \in (IF scene.faulty THEN NodeFaults ELSE {"none"}) :
     \E parent \in {ParentOf(scene)} :
     \E block \in {BlockOn(parent, BlockTxs(scene))} :
     \E n \in {NodeOf(parent, block, fault)} :
     \E listed \in {add_access_list([db |-> NewPreflightDb(n), err |-> FALSE], AccessLists(block.txs))} :
       /\ node' = n
       /\ db' = listed.db
       /\ phase' = IF listed.err THEN "failed" ELSE "execute"
  /\ UNCHANGED <<scene, acct, tries, todo, witness, seen>>

ExecuteOnHost ==
  /\ phase = "execute"
  /\ \E run \in {Execute(node.block.txs, db, PreflightBasic, PreflightStorage, PreflightCode, PreflightHash)} :
       /\ db' = run.db
       /\ acct' = run.acct
       /\ phase' = IF run.err THEN "failed" ELSE "prove"
  /\ UNCHANGED <<scene, node, tries, todo, witness, seen>>

\* The pre-state proofs and the ancestors.
ProveState ==
  /\ phase = "prove"
  /\ \E p \in {state_proof(db)}, h \in {ancestor_proof(db, node.block.parent)} :
       /\ db' = p.db
       /\ tries' = [state |-> p.state, storages |-> p.storages]
       /\ witness' = [witness EXCEPT !.headers = h.headers]
       /\ todo' = {a \in Changed(acct) : acct[a].was \/ acct[a].now}
       /\ phase' = IF p.err \/ h.err THEN "failed" ELSE "post"
  /\ UNCHANGED <<scene, node, acct, seen>>

\* One changed account, in the order of a hash map: it is new, modified, gone
\* or was never there.
NewAccount(a) ==
  /\ phase = "post" /\ a \in todo /\ ~acct[a].was /\ acct[a].now
  /\ tries' = [tries EXCEPT !.state = handle_new_account(@, node, a)]
  /\ todo' = todo \ {a}
  /\ UNCHANGED <<scene, phase, node, db, acct, witness, seen>>

ModifiedAccount(a) ==
  /\ phase = "post" /\ a \in todo /\ acct[a].was /\ acct[a].now
  /\ \E r \in {handle_modified_account(tries.storages[a], node, SlotsIn(node.post, a), acct[a])} :
       /\ tries' = [tries EXCEPT !.storages = (a :> r.trie) @@ @]
       /\ phase' = IF r.err THEN "failed" ELSE "post"
  /\ todo' = todo \ {a}
  /\ UNCHANGED <<scene, node, db, acct, witness, seen>>

RemovedAccount(a) ==
  /\ phase = "post" /\ a \in todo /\ acct[a].was /\ ~acct[a].now
  /\ \E r \in {handle_removed_account(tries.state, node, a)} :
       /\ tries' = [tries EXCEPT !.state = r.trie]
       /\ phase' = IF r.unresolvable THEN "failed" ELSE "post"
  /\ todo' = todo \ {a}
  /\ UNCHANGED <<scene, node, db, acct, witness, seen>>

Assemble ==
  /\ phase = "post"
  /\ todo = {}
  /\ witness' = [state |-> SetAsSeq(rlp_nodes(tries.state)
                                      \cup UNION {rlp_nodes(tries.storages[a]) : a \in DOMAIN tries.storages}),
                 indices |-> <<>>, codes |-> db.codes, headers |-> canonicalize_headers(witness.headers)]
  /\ phase' = "ready"
  /\ UNCHANGED <<scene, node, db, acct, tries, todo, seen>>

----------------------------------------------------------------------------
\* The guest.  The ancestor window of a proposal covers the headers of every
\* witness and the parent of the parent.
WindowOf(first) == [i \in 1 .. node.block.number - first |-> from_header(node.chain[first + i - 1])]
Window == WindowOf(Min({witness.headers[1].header.number, Max({node.block.number - 2, 0})}))

Foreign == Node((<<0, 0, 0>> :> Value(9)), <<>>)
Stranger == [node.block.parent EXCEPT !.root = (<<0, 0, 0>> :> [nonce |-> 9, code |-> NoCode, root |-> <<>>])]

Given(w, headers, pool, block) == [witness |-> w, headers |-> headers, pool |-> pool, block |-> block]

\* What the guest is given when the material is incomplete, foreign or wrong.
Material(how, i, w, win, n, pool, block) ==
  CASE how = "none"     -> Given(w, win, <<>>, block)
    [] how = "pooled"   -> Given([w EXCEPT !.state = <<>>, !.indices = [k \in DOMAIN pool |-> k]], win, pool, block)
    [] how = "dropped"  -> Given([w EXCEPT !.state = RemoveAt(@, i)], win, <<>>, block)
    [] how = "foreign"  -> Given([w EXCEPT !.state = <<Foreign>> \o RemoveAt(@, i)], win, <<>>, block)
    [] how = "bounds"   -> Given([w EXCEPT !.indices = <<Len(pool) + 1>>], win, pool, block)
    [] how = "claimed"  -> Given(w, [win EXCEPT ![n] = from_header_with_hash(@.header, Stranger)], <<>>, block)
    [] how = "compact"  -> Given(w, [win EXCEPT ![1] = into_compact(@)], <<>>, block)
    [] how = "gap"      -> Given(w, RemoveAt(win, n - 1), <<>>, block)
    [] how = "short"    -> Given(w, <<win[n]>>, <<>>, block)
    [] how = "stranger" -> Given(w, [win EXCEPT ![n] = from_header(Stranger)], <<>>, block)
    [] how = "swapped"  -> Given(w, [win EXCEPT ![1] = from_header([@.header EXCEPT !.ts = @ + 1])], <<>>, block)
    [] how = "empty"    -> Given(w, <<>>, <<>>, block)
    [] how = "root"     -> Given(w, win, <<>>, [block EXCEPT !.root = <<>>])
    [] how = "beacon"   -> Given(w, win, <<>>, [block EXCEPT !.beacon = "other"])
    [] how = "early"    -> Given(w, win, <<>>, [block EXCEPT !.ts = UnzenTime - 1])

Decoded(m) == [m EXCEPT !.witness = DecodeWitness(@, FALSE),
                        !.headers = [k \in DOMAIN @ |-> DecodeHeader(@[k])]]

Replay ==
  /\ phase = "ready"
  /\ \E how \in (IF scene.tampered THEN Tampers ELSE {"none"}) :
     \E i \in (IF how \in {"dropped", "foreign"} THEN DOMAIN witness.state ELSE {1}) :
     \E m \in {Decoded(Material(how, i, witness, Window, Len(Window), Reverse(witness.state), node.block))} :
       seen' = [how |-> how, block |-> m.block,
                checked |-> validate_block_with_witness_resources(m.block, m.witness, m.headers, m.pool),
                rebuilt |-> reconstruct_block_from_transactions_core(Head(scene.txs), Tail(scene.txs),
                              [ts |-> m.block.ts, beacon |-> m.block.beacon], m.witness, m.headers, m.pool),
                read |-> [a \in DOMAIN acct |-> [s \in DOMAIN acct[a].slots |->
                            read_parent_storage_core(a, s, m.witness, m.headers, m.pool)]]]
  /\ phase' = "done"
  /\ UNCHANGED <<scene, node, db, acct, tries, todo, witness>>

PostProof(a) == NewAccount(a) \/ ModifiedAccount(a) \/ RemovedAccount(a)

Next == FetchBlock \/ ExecuteOnHost \/ ProveState \/ (\E a \in todo : PostProof(a)) \/ Assemble \/ Replay

Spec == Init /\ [][Next]_vars

----------------------------------------------------------------------------
\* An honest node's answers make a witness with which the guest accepts the
\* block, rebuilds it from its transactions and reads the parent's slots,
\* whatever the block reads, writes, creates and deletes: no node a deletion
\* exposes is missing (sparse.rs, trie.rs).  Building it fails only where an
\* account is deleted next to a branch.
WitnessSuffices ==
  /\ phase = "done" /\ node.fault = "none" /\ ~scene.txs[1].reverts /\ seen.how \in {"none", "pooled", "claimed"} =>
       /\ seen.checked = [hash |-> seen.block]
       /\ seen.rebuilt = [hash |-> seen.block]
       /\ \A a \in DOMAIN seen.read : \A s \in DOMAIN seen.read[a] :
            seen.read[a][s] = [err |-> FALSE, val |-> acct[a].slots[s].was]
  /\ phase = "failed" => node.fault # "none" \/ \E a \in DOMAIN acct : acct[a].was /\ ~acct[a].now

\* Whatever the node answered and whatever reaches the guest, a block it
\* accepts or rebuilds has the state root that running its transactions on
\* the whole state of its parent gives, and BLOCKHASH saw the ancestors of
\* that parent (validation.rs, witness_db.rs): a wrong or missing node,
\* header, code or hash only makes the guest refuse.
ReplayedIsTrue ==
  seen # Nothing =>
    \A v \in {seen.checked, seen.rebuilt} \ {Nothing} :
      v.hash.root = TruePost(v.hash.parent, v.hash.txs)
=============================================================================
