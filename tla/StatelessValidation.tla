------------------------- MODULE StatelessValidation -------------------------
(***************************************************************************)
(* Replaying a block from a witness: crates/stateless/src/validation.rs,   *)
(* witness_db.rs and the SparseState of sparse.rs, with the witness types  *)
(* of crates/primitives/src/stateless.rs.  An address or a slot is the     *)
(* nibble path of its hash, a header is its own hash, a code its own hash. *)
(* The EVM (external) is a fold of operations over a database, so that the *)
(* full state, the recording database of the host and the witness database *)
(* of the guest run the same transactions.                                 *)
(***************************************************************************)
EXTENDS SparseTrie, Integers, FiniteSetsExt

CONSTANTS UnzenTime, ShastaTime   \* activation timestamps of the chain specification

Nothing == [none |-> TRUE]
NoCode == "no code"
Value(v) == [slot |-> v]
Nat0(r) == IF r = Nothing THEN 0 ELSE r.slot

----------------------------------------------------------------------------
\* The EVM.  acct[a] is the journal entry of a loaded account, hash the last
\* BLOCKHASH answer, which selects the slot an operation works on, err a fatal
\* database error: everything after it is skipped.
Journal(was) ==
  [was   |-> was # Nothing, now |-> was # Nothing,
   nonce |-> IF was = Nothing THEN 0 ELSE was.nonce,
   code  |-> IF was = Nothing THEN NoCode ELSE was.code,
   paid  |-> FALSE, slots |-> <<>>]

SetSlot(e, a, s, was, now) ==
  [e EXCEPT !.acct = (a :> [e.acct[a] EXCEPT !.slots = (s :> [was |-> was, now |-> now]) @@ @]) @@ @]

SlotOf(e, o) == IF e.hash = o.h THEN o.s ELSE o.d

Step(e, o, Basic(_, _), Storage(_, _, _), Code(_, _), Hash(_, _)) ==
  CASE o.op = "load" ->
         IF o.a \in DOMAIN e.acct THEN e
         ELSE LET r == Basic(e.db, o.a)
              IN  [e EXCEPT !.db = r.db, !.err = r.err, !.acct = (o.a :> Journal(r.val)) @@ @]
    [] o.op = "sload" ->
         LET s == SlotOf(e, o)
         IN  IF s \in DOMAIN e.acct[o.a].slots THEN e
             ELSE IF ~e.acct[o.a].was THEN SetSlot(e, o.a, s, 0, 0)
             ELSE LET r == Storage(e.db, o.a, s)
                  IN  SetSlot([e EXCEPT !.db = r.db, !.err = r.err], o.a, s, r.val, r.val)
    [] o.op = "code" ->
         IF e.acct[o.a].code = NoCode THEN e
         ELSE LET r == Code(e.db, e.acct[o.a].code) IN [e EXCEPT !.db = r.db, !.err = r.err]
    [] o.op = "hash" -> LET r == Hash(e.db, o.n) IN [e EXCEPT !.db = r.db, !.err = r.err, !.hash = r.val]
    [] o.op = "sstore" -> SetSlot(e, o.a, SlotOf(e, o), e.acct[o.a].slots[SlotOf(e, o)].was, o.v)
    [] o.op = "copy" -> SetSlot(e, o.a, o.d, e.acct[o.a].slots[o.d].was, e.acct[o.a].slots[o.s].now)
    [] o.op = "pay" ->
         [e EXCEPT !.acct = (o.a :> [e.acct[o.a] EXCEPT !.now = TRUE, !.paid = TRUE, !.nonce = @ + 1]) @@ @]
    [] o.op = "destroy" -> [e EXCEPT !.acct = (o.a :> [e.acct[o.a] EXCEPT !.now = FALSE]) @@ @]

Execute(txs, db, Basic(_, _), Storage(_, _, _), Code(_, _), Hash(_, _)) ==
  FoldLeft(LAMBDA e, o : IF e.err THEN e ELSE Step(e, o, Basic, Storage, Code, Hash),
           [db |-> db, acct |-> <<>>, hash |-> Nothing, err |-> FALSE],
           FlattenSeq([i \in DOMAIN txs |-> txs[i].ops]))

\* HashedPostState: the accounts and slots the block changed.
ChangedSlots(j) == {s \in DOMAIN j.slots : j.slots[s].was # j.slots[s].now}
Changed(acct) == {a \in DOMAIN acct : acct[a].was # acct[a].now \/ acct[a].paid \/ ChangedSlots(acct[a]) # {}}

\* What the block does to the full state: the meaning of its state root.
SlotsAfter(c, j) ==
  LET zero == {s \in ChangedSlots(j) : j.slots[s].now = 0}
  IN  [s \in (DOMAIN c \cup ChangedSlots(j)) \ zero |->
         IF s \in ChangedSlots(j) THEN Value(j.slots[s].now) ELSE c[s]]

After(world, acct) ==
  LET gone == {a \in Changed(acct) : ~acct[a].now}
  IN  [a \in (DOMAIN world \cup Changed(acct)) \ gone |->
         IF a \in Changed(acct)
         THEN [nonce |-> acct[a].nonce, code |-> acct[a].code,
               root |-> SlotsAfter(IF a \in DOMAIN world THEN world[a].root ELSE <<>>, acct[a])]
         ELSE world[a]]

----------------------------------------------------------------------------
\* SparseState.
Sparse(root, nodes) == [state |-> from_prehashed(root, nodes), storages |-> <<>>, nodes |-> nodes]

Hydrate(indices, state, pool) ==
  IF indices = {} THEN [err |-> FALSE, nodes |-> ToSet(state)]
  ELSE [err |-> ~(indices \subseteq DOMAIN pool), nodes |-> {pool[i] : i \in indices \cap DOMAIN pool}]

rlp_by_digest(witness, pool) == Hydrate(ToSet(witness.indices), witness.state, pool)

Made(r, witness, root) == [err |-> r.err, st |-> Sparse(root, r.nodes), codes |-> witness.codes]
new_with_state_pool(witness, pool, root) == Made(rlp_by_digest(witness, pool), witness, root)

Loaded(st, a, v) ==
  [err |-> FALSE, val |-> v,
   st  |-> IF v = Nothing \/ a \in DOMAIN st.storages THEN st
           ELSE [st EXCEPT !.storages = (a :> from_prehashed(v.root, st.nodes)) @@ @]]

account(st, a) ==
  IF CanGet(st.state, a) THEN Loaded(st, a, get(st.state, a)) ELSE [err |-> TRUE, val |-> Nothing, st |-> st]

GetSlot(t, s) == IF CanGet(t, s) THEN [err |-> FALSE, val |-> Nat0(get(t, s))] ELSE [err |-> TRUE, val |-> 0]

storage(st, a, s) ==
  IF a \in DOMAIN st.storages THEN GetSlot(st.storages[a], s) ELSE [err |-> TRUE, val |-> 0]

RootOf(v) == IF v = Nothing THEN <<>> ELSE v.root

storage_trie_mut(st, a) ==
  IF a \in DOMAIN st.storages THEN st.storages[a]
  ELSE [from_prehashed(RootOf(get(st.state, a)), st.nodes) EXCEPT !.ok = CanGet(st.state, a)]

Zeroed(j) == {s \in ChangedSlots(j) : j.slots[s].now = 0}
NewValues(j) == [s \in ChangedSlots(j) |-> Value(j.slots[s].now)]

StorageRoot(t, j) == RemoveAll(InsertAll(t, ChangedSlots(j) \ Zeroed(j), NewValues(j)), Zeroed(j))

remove_account(t, a) == remove(t, a)

PutAccount(t, a, j, s) ==
  insert([t EXCEPT !.ok = @ /\ s.ok], a, [nonce |-> j.nonce, code |-> j.code, root |-> s.c])

Applied(t) == [ok |-> t.ok, root |-> t.c]

\* The accounts that stay, each after its storage, then the ones that are gone.
calculate_state_root(st, acct) ==
  LET live == {a \in Changed(acct) : acct[a].now}
      put(t, a) == PutAccount(t, a, acct[a], StorageRoot(storage_trie_mut([st EXCEPT !.state = t], a), acct[a]))
  IN  Applied(FoldLeft(remove_account, FoldLeft(put, st.state, Sorted(live)), Sorted(Changed(acct) \ live)))

SlotOfLoaded(r, a, s) == IF r.err THEN [err |-> TRUE, val |-> 0] ELSE GetSlot(storage_trie_mut(r.st, a), s)
storage_from_witness(st, a, s) == SlotOfLoaded(account(st, a), a, s)

----------------------------------------------------------------------------
\* Witness types and their codecs.  A full header is re-hashed when it is
\* decoded; a compact one keeps the hash the host wrote.
from_header(h) == [hash |-> h, header |-> h, full |-> TRUE]
from_header_with_hash(h, hash) == [hash |-> hash, header |-> h, full |-> TRUE]
into_compact(w) == [w EXCEPT !.full = FALSE]
full_header(w) == w.full

DecodeHeader(w) == IF w.full THEN from_header(w.header) ELSE w

SetAsSeq(S) == FoldSet(LAMBDA n, acc : Append(acc, n), <<>>, S)
canonicalize_state_nodes(nodes) == SetAsSeq(ToSet(nodes))
canonicalize_state_indices(indices) == SetToSortSeq(ToSet(indices), <)
canonicalize_headers(headers) == SortSeq(headers, LAMBDA x, y : x.header.number < y.header.number)

\* A human readable encoding is put in canonical order when it is decoded, the
\* binary one the guest reads is taken in the order it was written.
DecodeWitness(w, readable) ==
  LET d == [w EXCEPT !.headers = [i \in DOMAIN @ |-> DecodeHeader(@[i])]]
  IN  IF ~readable THEN d
      ELSE [d EXCEPT !.state = canonicalize_state_nodes(@),
                     !.indices = canonicalize_state_indices(@),
                     !.headers = canonicalize_headers(@)]

----------------------------------------------------------------------------
\* WitnessDatabase.
AncestorHash(db, n) ==
  LET i == n - db.start + 1 IN IF i \in DOMAIN db.hashes THEN db.hashes[i] ELSE Nothing

WitnessBasic(db, a) ==
  LET r == account(db.st, a) IN [err |-> r.err, val |-> r.val, db |-> [db EXCEPT !.st = r.st]]
WitnessStorage(db, a, s) == LET r == storage(db.st, a, s) IN [err |-> r.err, val |-> r.val, db |-> db]
WitnessCode(db, c) == [err |-> c \notin db.codes, db |-> db]
WitnessHash(db, n) == LET h == AncestorHash(db, n) IN [err |-> h = Nothing, val |-> h, db |-> db]

\* Mutant: the numbers of the ancestors are checked, their hashes are not.
UnlinkedWindow(number, parent, headers) ==
  [err |-> \E i \in DOMAIN headers : ~headers[i].full \/ headers[i].header.number # number - (Len(headers) - i) - 1,
   start |-> IF headers = <<>> THEN 0 ELSE headers[1].header.number,
   hashes |-> [i \in DOMAIN headers |-> headers[i].hash]]

compute_ancestor_hashes_for_child(number, parent, headers) ==
  LET n == Len(headers)
      childNumber(i) == IF i = n THEN number ELSE headers[i + 1].header.number
      childParent(i) == IF i = n THEN parent ELSE headers[i + 1].header.parent
  IN  [err |-> \E i \in 1 .. n : \/ ~full_header(headers[i])
                                 \/ childParent(i) # headers[i].hash
                                 \/ headers[i].header.number + 1 # childNumber(i),
       start |-> IF n = 0 THEN 0 ELSE headers[1].header.number,
       hashes |-> [i \in 1 .. n |-> headers[i].hash]]

compute_ancestor_hashes(block, headers) ==
  compute_ancestor_hashes_for_child(block.number, block.parent, headers)

compute_next_block_ancestor_hashes(headers) ==
  compute_ancestor_hashes_for_child(Last(headers).header.number + 1, Last(headers).hash, headers)

----------------------------------------------------------------------------
\* Validation.  Every step may refuse the block; a refusal is Nothing.
ensure_unzen_active(ts) == ts >= UnzenTime
is_shasta_active(ts) == ts >= ShastaTime
ensure_supported_parent_beacon_block_root(beacon) == beacon \in {"none", "zero"}
ensure_canonical_parent_beacon_block_root(beacon) ==
  ensure_supported_parent_beacon_block_root(beacon) /\ beacon = "zero"
ensure_full_ancestor_headers(headers) == \A i \in DOMAIN headers : full_header(headers[i])
ensure_anchor_receipt_success(txs) == txs # <<>> /\ ~txs[1].reverts

sealed_parent_header(headers) == headers # <<>> /\ full_header(Last(headers))

determine_pre_state_root(headers) ==
  IF headers = <<>> \/ ~full_header(Last(headers)) THEN Nothing ELSE Last(headers).header.root

block_timestamp_by_hash(headers, hash) == \E i \in DOMAIN headers : headers[i].hash = hash

validate_block_consensus(block, headers) ==
  /\ ensure_canonical_parent_beacon_block_root(block.beacon)
  /\ ensure_full_ancestor_headers(headers)
  /\ headers # <<>>
  /\ LET parent == Last(headers).header
     IN  /\ is_shasta_active(block.ts) /\ parent.number # 0 =>
              Len(headers) >= 2 /\ block_timestamp_by_hash(headers, parent.parent)
         /\ block.parent = Last(headers).hash
         /\ block.number = parent.number + 1
         /\ block.ts >= parent.ts

decode_recovered_block(block) == \A i \in DOMAIN block.txs : block.txs[i].signed

WitnessRun(txs, made, window) ==
  Execute(txs, [st |-> made.st, codes |-> made.codes, start |-> window.start, hashes |-> window.hashes],
          WitnessBasic, WitnessStorage, WitnessCode, WitnessHash)

\* The post-state root of transactions run on a witness.
PostRoot(post) == IF post.ok THEN [root |-> post.root] ELSE Nothing
AfterRun(run, txs) ==
  IF run.err \/ ~ensure_anchor_receipt_success(txs) THEN Nothing
  ELSE PostRoot(calculate_state_root(run.db.st, run.acct))
execute_block(txs, made, window) == IF made.err THEN Nothing ELSE AfterRun(WitnessRun(txs, made, window), txs)

Compared(post, block) ==
  IF post = Nothing THEN Nothing ELSE IF post.root # block.root THEN Nothing ELSE [hash |-> block]

stateless_validation_with_trie(block, witness, headers, pool, window) ==
  IF /\ decode_recovered_block(block)
     /\ validate_block_consensus(block, headers)
     /\ ~window.err
     /\ \A i \in DOMAIN block.txs : block.txs[i].valid
  THEN Compared(execute_block(block.txs, new_with_state_pool(witness, pool, determine_pre_state_root(headers)), window),
                block)
  ELSE Nothing

validate_block_with_witness_resources(block, witness, headers, pool) ==
  IF ensure_unzen_active(block.ts)
  THEN stateless_validation_with_trie(block, witness, headers, pool, compute_ancestor_hashes(block, headers))
  ELSE Nothing

\* The anchor first, then the transactions whose signer can be recovered; the
\* block executor (external) leaves out the ones that are not valid.
build_derived_block(anchor, txs) == <<anchor>> \o SelectSeq(txs, LAMBDA t : t.signed)
CommittedTransactions(txs) == SelectSeq(txs, LAMBDA t : t.valid)

FilteredBlock(post, txs, env, headers) ==
  [number |-> Last(headers).header.number + 1, parent |-> Last(headers).hash,
   root |-> post.root, ts |-> env.ts, beacon |-> env.beacon, txs |-> txs]
Consistent(block, headers) == IF validate_block_consensus(block, headers) THEN [hash |-> block] ELSE Nothing
Assembled(post, txs, env, headers) ==
  IF post = Nothing THEN Nothing ELSE Consistent(FilteredBlock(post, txs, env, headers), headers)

Rebuilt(txs, env, made, headers, window) ==
  IF window.err THEN Nothing ELSE Assembled(execute_block(txs, made, window), txs, env, headers)

reconstruct_block_from_transactions_core(anchor, txs, env, witness, headers, pool) ==
  IF /\ ensure_unzen_active(env.ts)
     /\ ensure_supported_parent_beacon_block_root(env.beacon)
     /\ sealed_parent_header(headers)
     /\ anchor.valid
  THEN Rebuilt(CommittedTransactions(build_derived_block(anchor, txs)), env,
               new_with_state_pool(witness, pool, determine_pre_state_root(headers)), headers,
               compute_next_block_ancestor_hashes(headers))
  ELSE Nothing

ReadFrom(made, a, s) == IF made.err THEN [err |-> TRUE, val |-> 0] ELSE storage_from_witness(made.st, a, s)

read_parent_storage_core(a, s, witness, headers, pool) ==
  IF determine_pre_state_root(headers) = Nothing THEN [err |-> TRUE, val |-> 0]
  ELSE ReadFrom(new_with_state_pool(witness, pool, determine_pre_state_root(headers)), a, s)
=============================================================================
