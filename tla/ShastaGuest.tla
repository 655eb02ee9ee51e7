---------------------------- MODULE ShastaGuest -----------------------------
(***************************************************************************)
(* The rules by which the blocks of a Shasta proposal are derived, and the *)
(* guest program that checks them.                                         *)
(***************************************************************************)
EXTENDS ShastaPrimitives, FiniteSets

(***************************************************************************)
(* How the L2 blocks of one Shasta proposal follow from its derivation     *)
(* sources, and which L1 anchors those blocks may carry.  The host runs    *)
(* these rules in preflight and the guest program runs them again, so the  *)
(* two callers share this module as they share the crates it translates.   *)
(*                                                                         *)
(* A manifest is a sequence of blocks [ts, coinbase, anchor, gas, txs].    *)
(* The payload of a source is abstracted to what decoding its blobs gives: *)
(* a manifest, or Undecodable.                                             *)
(***************************************************************************)

CONSTANTS
    Undecodable,         \* blobs that decode to no manifest
    MaxU64,              \* the largest u64, where saturating sums stop
    AnchorGas,           \* ANCHOR_V3_V4_GAS_LIMIT
    GasDenominator,      \* GAS_LIMIT_DENOMINATOR
    GasMaxChange,        \* BLOCK_GAS_LIMIT_MAX_CHANGE
    MinGas, MaxGas,      \* MIN_ and MAX_BLOCK_GAS_LIMIT
    MaxBlocks,           \* UNZEN_DERIVATION_SOURCE_MAX_BLOCKS
    MaxManifestOffset,   \* the last offset a manifest header fits behind
    Mainnet,             \* TAIKO_MAINNET_CHAIN_ID
    AnchorMaxOffset, MainnetAnchorMaxOffset,
    TimestampMaxOffset, MainnetTimestampMaxOffset

SatAdd(a, b) == IF a + b > MaxU64 THEN MaxU64 ELSE a + b
SatSub(a, b) == IF a > b THEN a - b ELSE 0
Larger(a, b) == IF a >= b THEN a ELSE b
Smaller(a, b) == IF a <= b THEN a ELSE b

(***************************************************************************)
(* Anchor linkage                                                          *)
(***************************************************************************)

anchor_max_offset_for_chain(chain) ==
    IF chain = Mainnet THEN MainnetAnchorMaxOffset ELSE AnchorMaxOffset

\* Every anchor repeats the parent's, and it has left the window below the origin.
should_bypass_stalled_anchor_linkage(anchors, last, origin, chain) ==
    /\ anchors # << >>
    /\ anchors[1] = last
    /\ SatSub(origin, anchors[1]) > anchor_max_offset_for_chain(chain)
    /\ \A i \in DOMAIN anchors : anchors[i] = anchors[1]

validate_anchor_progression(anchors, last, origin, chain) ==
    /\ anchors # << >>
    /\ \A i \in DOMAIN anchors :
          /\ anchors[i] >= last
          /\ anchors[i] >= SatSub(origin, anchor_max_offset_for_chain(chain))
          /\ anchors[i] <= origin
          /\ i > 1 => anchors[i] >= anchors[i - 1]

\* Blocks covered by the first k of the spans.
Covered(spans, k) ==
    LET sum[i \in 0..k] == IF i = 0 THEN 0 ELSE sum[i - 1] + spans[i].count
    IN  sum[k]

\* The index of the first anchor that the L1 headers must prove, or Err.  What
\* precedes it belongs to forced inclusions and repeats the parent's anchor.
validate_source_aware_anchor_progression(anchors, spans, last, origin, chain) ==
    LET n == Len(spans)
        start == Covered(spans, n - 1)
    IN  IF /\ anchors # << >>
           /\ n > 0
           /\ ~spans[n].forced
           /\ spans[n].count > 0
           /\ \A k \in 1..(n - 1) : spans[k].forced /\ spans[k].count > 0
           /\ start <= Len(anchors)
           /\ \A i \in 1..start : anchors[i] = last
           /\ start + spans[n].count = Len(anchors)
           /\ validate_anchor_progression(SubSeq(anchors, start + 1, Len(anchors)),
                                          last, origin, chain)
        THEN start
        ELSE Err

(***************************************************************************)
(* Source manifests.  ctx holds the parent [ts, gas, number, anchor] and   *)
(* the proposal's meta [ts, origin, proposer, chain] with the fork time.   *)
(***************************************************************************)
DefaultManifest ==
    << [ts |-> 0, coinbase |-> NoAddress, anchor |-> 0, gas |-> 0, txs |-> << >>] >>

manifest_is_default(m) == m = DefaultManifest

timestamp_max_offset_for_chain(chain) ==
    IF chain = Mainnet THEN MainnetTimestampMaxOffset ELSE TimestampMaxOffset

compute_timestamp_lower_bound(parentTs, meta, fork) ==
    Larger(Larger(SatAdd(parentTs, 1),
                  SatSub(meta.ts, timestamp_max_offset_for_chain(meta.chain))), fork)

effective_parent_gas_limit(parent) ==
    IF parent.number = 0 THEN parent.gas ELSE SatSub(parent.gas, AnchorGas)

GasUpper(gas) == Smaller((gas * (GasDenominator + GasMaxChange)) \div GasDenominator, MaxGas)
gas_limit_bounds(gas) ==
    LET lower == (gas * (GasDenominator - GasMaxChange)) \div GasDenominator
    IN  Smaller(Larger(lower, MinGas), GasUpper(gas)) .. GasUpper(gas)

\* Forced and default manifests take their metadata from the parent.
apply_inherited_metadata(m, parent, meta, fork) ==
    LET ts[i \in 0..Len(m)] ==
            IF i = 0 THEN parent.ts ELSE compute_timestamp_lower_bound(ts[i - 1], meta, fork)
    IN  [i \in DOMAIN m |->
            [m[i] EXCEPT !.ts = ts[i], !.coinbase = meta.proposer, !.anchor = parent.anchor,
                         !.gas = effective_parent_gas_limit(parent)]]

validate_timestamps(m, parent, meta, fork) ==
    \A i \in DOMAIN m :
        LET lower == compute_timestamp_lower_bound(IF i = 1 THEN parent.ts ELSE m[i - 1].ts,
                                                   meta, fork)
        IN  lower <= meta.ts /\ lower <= m[i].ts /\ m[i].ts <= meta.ts

\* The protocol client's own copy of the anchor window.
max_anchor_offset_for_chain(chain) ==
    IF chain = Mainnet THEN MainnetAnchorMaxOffset ELSE AnchorMaxOffset

\* Mutant: anchors may fall behind the window that the guest accepts.
AnchorsWithoutWindow(m, parent, meta, forced) ==
    /\ \A i \in DOMAIN m :
          m[i].anchor >= (IF i = 1 THEN parent.anchor ELSE m[i - 1].anchor)
          /\ m[i].anchor <= meta.origin
    /\ forced \/ \E i \in DOMAIN m : m[i].anchor > parent.anchor

\* A normal source must also advance the anchor.
validate_anchor_numbers(m, parent, meta, forced) ==
    /\ \A i \in DOMAIN m :
          /\ m[i].anchor >= (IF i = 1 THEN parent.anchor ELSE m[i - 1].anchor)
          /\ m[i].anchor <= meta.origin
          /\ m[i].anchor >= SatSub(meta.origin, max_anchor_offset_for_chain(meta.chain))
    /\ forced \/ \E i \in DOMAIN m : m[i].anchor > parent.anchor

validate_gas_limit(m, parent) ==
    \A i \in DOMAIN m :
        m[i].gas \in gas_limit_bounds(IF i = 1 THEN effective_parent_gas_limit(parent)
                                      ELSE m[i - 1].gas)

validate_source_manifest(m, parent, meta, fork, forced) ==
    /\ m # << >>
    /\ validate_timestamps(m, parent, meta, fork)
    /\ validate_anchor_numbers(m, parent, meta, forced)
    /\ validate_gas_limit(m, parent)

\* What the host hands over for one source: inline bytes that nothing on chain
\* binds, raw blobs (None when missing), and whether each blob has blob length.
HasPayload(data) == data.inline \/ data.blob # None

decode_blob_backed_manifest(data) ==
    IF data.blob = None \/ ~data.lengthOk THEN Err
    ELSE IF data.blob = Undecodable THEN DefaultManifest
    ELSE IF Len(data.blob) > MaxBlocks THEN DefaultManifest
    ELSE data.blob

DecodeSource(source, data) ==
    IF source.hashes = 0 THEN (IF HasPayload(data) THEN Err ELSE DefaultManifest)
    ELSE IF source.offset > MaxManifestOffset THEN DefaultManifest
    ELSE decode_blob_backed_manifest(data)

prepare_source_manifest_with_max_blocks(source, data, parent, meta, fork) ==
    LET decoded == DecodeSource(source, data)
        single == IF source.forced /\ Len(decoded) # 1 THEN DefaultManifest ELSE decoded
        filled == IF source.forced \/ manifest_is_default(single)
                  THEN apply_inherited_metadata(single, parent, meta, fork) ELSE single
    IN  IF decoded = Err THEN Err
        ELSE IF validate_source_manifest(filled, parent, meta, fork, source.forced)
        THEN filled
        ELSE apply_inherited_metadata(DefaultManifest, parent, meta, fork)

\* The context the next source starts from, behind the blocks of this one.
AdvanceParent(parent, m) ==
    IF m = << >> THEN parent
    ELSE [ts |-> m[Len(m)].ts, gas |-> SatAdd(m[Len(m)].gas, AnchorGas),
          number |-> parent.number + Len(m), anchor |-> m[Len(m)].anchor]

\* All sources in order: the blocks, the span of each source, and the context
\* behind them; Err as soon as one source cannot be prepared.
DeriveSources(sources, data, parent, meta, fork) ==
    LET step[k \in 0..Len(sources)] ==
            IF k = 0 THEN [blocks |-> << >>, spans |-> << >>, parent |-> parent]
            ELSE LET before == step[k - 1]
                     m == prepare_source_manifest_with_max_blocks(
                              sources[k], data[k], before.parent, meta, fork)
                 IN  IF before = Err THEN Err
                     ELSE IF m = Err THEN Err
                     ELSE [blocks |-> before.blocks \o m,
                           spans |-> Append(before.spans,
                                            [forced |-> sources[k].forced, count |-> Len(m)]),
                           parent |-> AdvanceParent(before.parent, m)]
    IN  step[Len(sources)]

-----------------------------------------------------------------------------
(***************************************************************************)
(* The Shasta guest program: what it checks before it commits to a         *)
(* proposal and the carry data it commits to.  The host runs the same      *)
(* checks on every input it prepares.                                      *)
(*                                                                         *)
(* Hashes are injective: the hash of an L1 header is in its record, and    *)
(* two L2 headers with the same number differ in "tag" when they differ at *)
(* all.  A state root stands for the storage the program reads under it:   *)
(* the anchor number, the latest stored checkpoint and what was executed.  *)
(***************************************************************************)

CONSTANTS
    AncestorWindowLimit, \* ANCESTOR_HEADER_WINDOW_LIMIT
    BuiltinChains        \* chain id -> [unzen, shasta], the compiled-in chain specs

Zero == << "zero", 0 >>
NoCheckpoint == [number |-> 0, hash |-> Zero, root |-> Zero]
HashOf(block) == << block.number, block.tag >>
CheckpointOf(block) == [number |-> block.number, hash |-> HashOf(block), root |-> block.root]

\* active_at_timestamp of a timestamp fork condition.
UnzenActive(spec, ts) == ts >= spec.unzen

(***************************************************************************)
(* Blob usage                                                              *)
(***************************************************************************)
\* Blobs, commitments, proofs and on-chain hashes pair up one to one, every
\* proof of equivalence verifies and every commitment hashes to its blob hash.
verify_proposal_mode_blob_usage(sources, data) ==
    /\ sources # << >> => Len(data) = Len(sources)
    /\ \A k \in DOMAIN data :
          /\ k \in DOMAIN sources
          /\ IF sources[k].hashes = 0 THEN ~HasPayload(data[k])
             ELSE data[k].blob # None /\ data[k].countsOk /\ data[k].kzgOk

(***************************************************************************)
(* Ancestor headers and parent storage                                     *)
(***************************************************************************)

roll_proposal_ancestor_headers_in_place(headers, parent) ==
    LET keep == AncestorWindowLimit - 1
    IN  Append(IF Len(headers) > keep
               THEN SubSeq(headers, Len(headers) - keep + 1, Len(headers)) ELSE headers, parent)

validate_proposal_ancestor_header_count(g) ==
    Len(g.ancestors) \in 1..AncestorWindowLimit

\* A compact header keeps its number, its hash, its parent's and its time.
into_compact(h) ==
    [number |-> h.number, hash |-> HashOf(h), parentHash |-> h.parentHash, ts |-> h.ts]
full_header(h) == "root" \in DOMAIN h

last_full_header(headers) ==
    LET full == SelectSeq(headers, full_header)
    IN  IF full = << >> THEN Err ELSE full[Len(full)]

determine_pre_state_root(headers) ==
    LET last == headers[Len(headers)] IN IF full_header(last) THEN last.root ELSE Err

\* Storage is read below the state root of the last ancestor header, through the
\* nodes that the first witness carries; a missing node is an error.
ReadParent(g, node, slot) ==
    LET root == determine_pre_state_root(g.ancestors)
    IN  IF root = Err \/ node \notin g.witnesses[1].nodes THEN Err ELSE root[slot]

verified_parent_anchor_block_number(g) ==
    LET anchor == ReadParent(g, "anchor", "anchor")
    IN  IF anchor = Err \/ g.manifest.lastAnchor \notin {None, anchor} THEN Err ELSE anchor

verified_parent_shasta_checkpoint(g, number) ==
    LET store == ReadParent(g, "checkpoint", "store")
    IN  IF store = Err THEN Err
        ELSE IF store.number # number \/ store.hash = Zero \/ store.root = Zero THEN Err
        ELSE store

(***************************************************************************)
(* L1 linkage                                                              *)
(***************************************************************************)
\* How many checkpoints the first k headers account for: each header takes the
\* run of checkpoints with its number, and all of the run must match it.
Consumed(headers, cps) ==
    LET idx[k \in 0..Len(headers)] ==
            IF k = 0 THEN 0
            ELSE IF idx[k - 1] = -1 THEN -1
            ELSE LET h == headers[k]
                     run == { j \in (idx[k - 1] + 1)..Len(cps) :
                                \A i \in (idx[k - 1] + 1)..j : cps[i].number = h.number }
                 IN  IF \E j \in run : cps[j].hash # h.hash \/ cps[j].root # h.root THEN -1
                     ELSE idx[k - 1] + Cardinality(run)
    IN  idx[Len(headers)]

HeadersChained(headers) ==
    \A k \in 2..Len(headers) : headers[k].parentHash = headers[k - 1].hash

HeadersReachOrigin(headers, cps, proposal) ==
    /\ headers # << >>
    /\ \A k \in 2..Len(headers) : headers[k].number = headers[k - 1].number + 1
    /\ HeadersChained(headers)
    /\ headers[Len(headers)].number = proposal.origin
    /\ headers[Len(headers)].hash = proposal.originHash
    /\ Consumed(headers, cps) = Len(cps)

validate_l1_anchor_linkage(g, cps, last, spans) ==
    LET proposal == g.manifest.proposal
        chain == g.manifest.chain
        numbers == [i \in DOMAIN cps |-> cps[i].number]
        parentCp == verified_parent_shasta_checkpoint(g, last)
        start == validate_source_aware_anchor_progression(numbers, spans, last,
                                                           proposal.origin, chain)
    IN  /\ g.manifest.l1Header.number = proposal.origin
        /\ g.manifest.l1Header.hash = proposal.originHash
        /\ proposal.ts > g.manifest.l1Header.ts
        /\ IF should_bypass_stalled_anchor_linkage(numbers, last, proposal.origin, chain)
           THEN parentCp # Err /\ \A i \in DOMAIN cps : cps[i] = parentCp
           ELSE /\ start # Err
                /\ start > 0 => parentCp # Err /\ \A i \in 1..start : cps[i] = parentCp
                /\ HeadersReachOrigin(g.manifest.l1Headers,
                                      SubSeq(cps, start + 1, Len(cps)), proposal)

(***************************************************************************)
(* Blocks                                                                  *)
(***************************************************************************)
\* A proposal without sources gives no expected blocks.
derive_expected_shasta_blocks(g) ==
    LET proposal == g.manifest.proposal
        header == last_full_header(g.ancestors)
        parent == [ts |-> header.ts, gas |-> header.gas, number |-> header.number,
                   anchor |-> verified_parent_anchor_block_number(g)]
        meta == [ts |-> proposal.ts, origin |-> proposal.origin,
                 proposer |-> proposal.proposer, chain |-> g.manifest.chain]
        derived == DeriveSources(proposal.sources, g.manifest.data, parent, meta,
                                 BuiltinChains[g.witnesses[1].chain].shasta)
    IN  IF proposal.sources = << >> THEN None
        ELSE IF \/ proposal.sources[Len(proposal.sources)].forced
                \/ Len(g.manifest.data) # Len(proposal.sources)
                \/ header = Err
        THEN Err
        ELSE IF derived = Err THEN Err
        ELSE IF Len(derived.blocks) # Len(g.witnesses) THEN Err ELSE derived

\* The anchor transaction is the golden-touch EIP-1559 call of anchorV4, with the
\* chain's recipient and id, the block's base fee and the canonical signature.
validate_anchor_transaction_common(block) == block.anchorTx = "canonical"

\* A hash of the two, kept injective.
calculate_shasta_difficulty(parentMix, number) == 100 * parentMix + number

validate_shasta_manifest_block_metadata(g, block, expected, parent) ==
    /\ block.ts = expected.ts
    /\ block.coinbase = expected.coinbase
    /\ block.gas = SatAdd(expected.gas, AnchorGas)
    /\ block.extra = << g.manifest.proposal.basefeePctg, g.manifest.proposalId >>
    /\ block.mix = calculate_shasta_difficulty(parent.mix, block.number)
    /\ block.anchor.number = expected.anchor

\* Execution of the anchor and then of the manifest's transactions on the parent
\* state; a transaction that cannot be executed is left out of the block.
ExecutableTxs(txs) == SelectSeq(txs, LAMBDA t : t # "invalid")
RootAfter(block, txs) == [anchor |-> block.anchor.number, store |-> block.anchor, txs |-> txs]

\* Execution under the environment of the given block, from a complete witness.
Reconstruct(block, expected, parent) ==
    [block EXCEPT !.number = parent.number + 1, !.parentHash = HashOf(parent),
                  !.txs = ExecutableTxs(expected.txs),
                  !.root = RootAfter(block, ExecutableTxs(expected.txs))]

\* Whether the window is a chain of full headers, as BLOCKHASH needs it.
compute_next_block_ancestor_hashes(window) ==
    /\ \A i \in DOMAIN window : full_header(window[i])
    /\ \A i \in 2..Len(window) : /\ window[i].parentHash = HashOf(window[i - 1])
                                 /\ window[i].number = window[i - 1].number + 1

\* Mutant: the block is not checked against the manifest it was derived from.
BlockWithoutMetadata(g, w, expected, window) ==
    /\ validate_anchor_transaction_common(w.block)
    /\ compute_next_block_ancestor_hashes(window)
    /\ "state" \in w.nodes
    /\ Reconstruct(w.block, expected, window[Len(window)]) = w.block

\* The metadata is compared below a full parent header; execution refuses a
\* window that holds a compact one.
VerifyBlock(g, w, expected, window) ==
    LET parent == window[Len(window)]
    IN  /\ validate_anchor_transaction_common(w.block)
        /\ full_header(parent) =>
               validate_shasta_manifest_block_metadata(g, w.block, expected, parent)
        /\ compute_next_block_ancestor_hashes(window)
        /\ "state" \in w.nodes
        /\ Reconstruct(w.block, expected, parent) = w.block

\* Each block is verified below the header window that its predecessors rolled.
VerifyBlocks(g, expected) ==
    LET n == Len(g.witnesses)
        window[i \in 1..n] ==
            IF i = 1 THEN g.ancestors
            ELSE roll_proposal_ancestor_headers_in_place(window[i - 1], g.witnesses[i - 1].block)
    IN  \A i \in 1..n :
            /\ i > 1 => /\ g.witnesses[i].block.parentHash = HashOf(g.witnesses[i - 1].block)
                        /\ g.witnesses[i].block.number = g.witnesses[i - 1].block.number + 1
            /\ Len(window[i]) <= AncestorWindowLimit
            /\ VerifyBlock(g, g.witnesses[i], expected[i], window[i])

(***************************************************************************)
(* The proposal program.  Its output is the carry data itself: the         *)
(* sub-proof hash binds every field of it.                                 *)
(***************************************************************************)
CarryMatchesProposal(g) ==
    LET c == g.carry
        p == g.manifest.proposal
    IN  /\ c.id = g.manifest.proposalId
        /\ c.prover = g.manifest.prover
        /\ fits_shasta_uint48(g.manifest.proposalId)
        /\ g.manifest.proposalId = p.id
        /\ fits_shasta_uint48(c.ts)
        /\ fits_shasta_uint48(c.checkpoint.number)
        /\ c.proposalHash = p
        /\ c.parentProposalHash = p.parentProposalHash
        /\ c.proposer = p.proposer
        /\ c.ts = p.ts

ChainsAgree(g) ==
    LET chain == g.witnesses[1].chain
    IN  /\ g.manifest.chain = chain
        /\ \A i \in DOMAIN g.witnesses : g.witnesses[i].chain = chain
        /\ g.carry.chain = chain

UnzenOnly(g) ==
    LET spec == BuiltinChains[g.witnesses[1].chain]
    IN  /\ UnzenActive(spec, g.manifest.proposal.ts)
        /\ \A i \in DOMAIN g.witnesses : UnzenActive(spec, g.witnesses[i].block.ts)

CarryMatchesBlocks(g) ==
    /\ g.carry.parentHash = g.witnesses[1].block.parentHash
    /\ g.carry.checkpoint = CheckpointOf(g.witnesses[Len(g.witnesses)].block)

prove_shasta_proposal(g) ==
    /\ g.witnesses # << >>
    /\ g.witnesses[1].chain \in DOMAIN BuiltinChains
    /\ UnzenOnly(g)
    /\ validate_proposal_ancestor_header_count(g)
    /\ verify_proposal_mode_blob_usage(g.manifest.proposal.sources, g.manifest.data)
    /\ ChainsAgree(g)
    /\ CarryMatchesProposal(g)
    /\ verified_parent_anchor_block_number(g) # Err
    /\ LET derived == derive_expected_shasta_blocks(g)
           cps == [i \in DOMAIN g.witnesses |-> g.witnesses[i].block.anchor]
       IN  /\ derived \notin {Err, None}
           /\ VerifyBlocks(g, derived.blocks)
           /\ validate_l1_anchor_linkage(g, cps, verified_parent_anchor_block_number(g),
                                         derived.spans)
    /\ CarryMatchesBlocks(g)
=============================================================================
