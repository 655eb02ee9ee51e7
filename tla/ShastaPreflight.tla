-------------------------- MODULE ShastaPreflight --------------------------
(***************************************************************************)
(* One proposal request on its way through the host: preflight fetches the *)
(* proposal and everything the guest needs over RPC, one answer at a time, *)
(* validates it, proves it and aggregates it with a neighbour.             *)
(*                                                                         *)
(* An RPC answer may fail (and is then asked again), be true, or be wrong  *)
(* in one of the ways the provider's answer can be wrong; the "world" is   *)
(* what the chains really hold.                                            *)
(***************************************************************************)
EXTENDS ShastaGuest

CONSTANTS
    Worlds,          \* [chain, parent, grand, proposal, data]: the truth
    Requests,        \* how a request departs from the truth, and the wrong and the
                     \* failed answers it may meet
    InitialDelay, MaxDelay    \* PREFLIGHT_RETRY_INITIAL_DELAY, _MAX_DELAY

VARIABLES world, truth, req, pc, lies, fails, delay, got, chunks, input, output
vars == << world, truth, req, pc, lies, fails, delay, got, chunks, input, output >>

(***************************************************************************)
(* The chains                                                              *)
(***************************************************************************)
L1Header(branch, n) ==
    [number |-> n, hash |-> << branch, n >>, parentHash |-> << branch, n - 1 >>,
     root |-> << "root", branch, n >>, ts |-> n]
CheckpointAt(branch, n) ==
    [number |-> n, hash |-> L1Header(branch, n).hash, root |-> L1Header(branch, n).root]

Meta(w) == [ts |-> w.proposal.ts, origin |-> w.proposal.origin,
            proposer |-> w.proposal.proposer, chain |-> w.chain]
Derived(w) ==
    DeriveSources(w.proposal.sources, w.data,
                  [ts |-> w.parent.ts, gas |-> w.parent.gas, number |-> w.parent.number,
                   anchor |-> w.parent.root.anchor], Meta(w), BuiltinChains[w.chain].shasta)

\* The blocks that the L2 nodes built from the proposal.
ChainBlocks(w) ==
    LET m == Derived(w).blocks
        raw(i) ==
            [number |-> w.parent.number + i, tag |-> "true", ts |-> m[i].ts,
             parentHash |-> IF i = 1 THEN HashOf(w.parent) ELSE << w.parent.number + i - 1, "true" >>,
             coinbase |-> m[i].coinbase, gas |-> SatAdd(m[i].gas, AnchorGas),
             extra |-> << w.proposal.basefeePctg, w.proposal.id >>, mix |-> 0,
             anchor |-> CheckpointAt("main", m[i].anchor), anchorTx |-> "canonical",
             txs |-> ExecutableTxs(m[i].txs), root |-> 0]
        chain[i \in 0..Len(m)] ==
            IF i = 0 THEN w.parent
            ELSE [raw(i) EXCEPT !.mix = calculate_shasta_difficulty(chain[i - 1].mix, raw(i).number),
                                !.root = RootAfter(raw(i), raw(i).txs)]
    IN  [i \in DOMAIN m |-> chain[i]]

TrueCarry(w, blocks, verifier, prover) ==
    [chain |-> w.chain, verifier |-> verifier, id |-> w.proposal.id,
     proposalHash |-> w.proposal, parentProposalHash |-> w.proposal.parentProposalHash,
     parentHash |-> HashOf(w.parent), prover |-> prover, proposer |-> w.proposal.proposer,
     ts |-> w.proposal.ts, checkpoint |-> CheckpointOf(blocks[Len(blocks)])]

(***************************************************************************)
(* The request and the manifest                                            *)
(***************************************************************************)
extract_block_range(r) == [i \in 1..(r.last - r.first + 1) |-> r.first + i - 1]

validate_derivation_source_block_limit(count) == count <= MaxBlocks

\* SGX and native provers take the request's hint; zkVMs always prove equivalence.
resolve_blob_proof_type(r) ==
    IF r.proofType \in {"sp1", "risc0"} THEN "equivalence" ELSE r.blobHint

InlineData == [inline |-> TRUE, blob |-> None, lengthOk |-> TRUE, countsOk |-> FALSE, kzgOk |-> FALSE]

\* A payload given in the request becomes inline data: of the only source, of each
\* source that a payload is left for, or of the last one.
derive_data_sources(sources, payloads) ==
    IF Len(sources) <= 1 THEN << InlineData >>
    ELSE LET taken[k \in 0..Len(sources)] ==
                 IF k = 0 THEN 0 ELSE Smaller(taken[k - 1] + sources[k].hashes, Len(payloads))
         IN  [k \in DOMAIN sources |-> [InlineData EXCEPT !.inline = taken[k] > taken[k - 1]]]

validate_manifest_against_blocks(m, blocks) ==
    /\ m # << >>
    /\ Len(m) = Len(blocks)
    /\ \A i \in DOMAIN m :
          /\ m[i].ts = blocks[i].ts
          /\ m[i].coinbase = blocks[i].coinbase
          /\ blocks[i].number = 0 \/ blocks[i].gas = m[i].gas + AnchorGas

build_taiko_manifest(r, event, blocks) ==
    LET payload == IF r.payloads = << >> THEN None ELSE r.payloads[1]
    IN  IF payload # None /\ (payload = Undecodable
                                \/ ~validate_manifest_against_blocks(payload, blocks)) THEN Err
        ELSE [proposalId |-> r.proposalId, proposal |-> event, chain |-> r.chain,
              prover |-> r.prover, checkpoint |-> r.checkpoint, lastAnchor |-> r.lastAnchor,
              blobType |-> resolve_blob_proof_type(r),
              data |-> IF payload = None THEN << >>
                       ELSE derive_data_sources(event.sources, r.payloads),
              l1Header |-> L1Header("none", 0), l1Headers |-> << >>]

LastAnchor(r) == IF r.lastAnchor = None THEN 0 ELSE r.lastAnchor

(***************************************************************************)
(* Steps                                                                   *)
(***************************************************************************)
Init ==
    /\ world \in Worlds
    /\ truth = ChainBlocks(world)
    /\ \E r \in Requests :
         req = [chain |-> world.chain, proposalId |-> world.proposal.id,
                  first |-> world.parent.number + 1,
                  last |-> world.parent.number + Len(truth) + r.extra,
                  lastAnchor |-> IF r.anchor = None THEN None
                                 ELSE world.parent.root.anchor + r.anchor,
                  checkpoint |-> CASE r.checkpoint = "none" -> None
                                   [] r.checkpoint = "wrong" ->
                                        [CheckpointOf(truth[Len(truth)]) EXCEPT !.hash = << 0, "other" >>]
                                   [] OTHER -> CheckpointOf(truth[Len(truth)]),
                  prover |-> r.prover, proofType |-> r.proofType, blobHint |-> r.blobHint,
                  payloads |-> r.payloads, verify |-> r.verify,
                  maxLies |-> r.maxLies, maxFails |-> r.maxFails, faithful |-> r.faithful]
    /\ pc = "proposalBlock"
    /\ lies = {} /\ fails = 0 /\ delay = InitialDelay
    /\ got = [x \in {} |-> 0]
    /\ chunks = << >>
    /\ input = None /\ output = None

RpcSteps == {"proposalBlock", "event", "blocks", "data", "parent", "headers", "witnesses",
             "checkpoint", "verify"}

\* The operation at "step" gets the true answer or, while lies are left, a wrong one.
Answers(step, a, true, wrong) ==
    /\ delay' = InitialDelay
    /\ \/ a = true /\ lies' = lies
       \/ a \in wrong \ {true} /\ Cardinality(lies) < req.maxLies /\ lies' = lies \cup {step}

Go(step) == pc' = step
Fail == pc' = "failed" /\ UNCHANGED << got, chunks, input, output >>
Keep(field, a) == got' = [x \in DOMAIN got \cup {field} |-> IF x = field THEN a ELSE got[x]]

\* The block whose timestamp selects the L1 contract.
fetch_preflight_proposal_block ==
    /\ pc = "proposalBlock"
    /\ LET true == [number |-> req.first, ts |-> truth[1].ts]
       IN  \E a \in {true, [true EXCEPT !.number = @ + 1], [true EXCEPT !.ts = 0]} :
             /\ Answers("proposalBlock", a, true, {[true EXCEPT !.number = @ + 1], [true EXCEPT !.ts = 0]})
             /\ IF /\ req.first <= req.last
                   /\ a.number = req.first
                   /\ UnzenActive(BuiltinChains[req.chain], a.ts)
                THEN Go("event") /\ UNCHANGED << got, chunks, input, output >>
                ELSE Fail
             /\ UNCHANGED << world, truth, req, fails >>

WrongEvents ==
    LET p == world.proposal
    IN  {[p EXCEPT !.id = @ + 1], [p EXCEPT !.ts = @ - 1], [p EXCEPT !.originHash = << "fork", p.origin >>],
         [p EXCEPT !.originHash = Zero], [p EXCEPT !.origin = @ - 1],
         [p EXCEPT !.sources = << >>]}

resolve_shasta_proposal_event ==
    /\ pc = "event"
    /\ \E a \in {world.proposal} \cup WrongEvents :
           /\ Answers("event", a, world.proposal, WrongEvents)
           /\ IF /\ validate_derivation_source_block_limit(req.last - req.first + 1)
                 /\ UnzenActive(BuiltinChains[req.chain], a.ts)
              THEN Go("blocks") /\ Keep("event", a) /\ UNCHANGED << chunks, input, output >>
              ELSE Fail
           /\ UNCHANGED << world, truth, req, fails >>

\* The last block in every way it can be wrong: a different field, a different
\* state, an anchor on a fork of L1, or no block at all.
WrongBlocks(true) ==
    LET n == Len(true)
        b == [true[n] EXCEPT !.tag = "wrong"]
        last(x) == [true EXCEPT ![n] = x]
    IN  { last([b EXCEPT !.ts = @ + 1]), last([b EXCEPT !.gas = @ + 1]),
          last([b EXCEPT !.coinbase = "other"]), last([b EXCEPT !.txs = Append(@, "other")]),
          last([b EXCEPT !.root.txs = << "other" >>]), last([b EXCEPT !.extra = << 0, 0 >>]),
          last([b EXCEPT !.mix = 0]), last([b EXCEPT !.anchorTx = "forged"]),
          last([b EXCEPT !.anchor = CheckpointAt("fork", b.anchor.number),
                         !.root.store = CheckpointAt("fork", b.anchor.number)]),
          last([b EXCEPT !.anchor = CheckpointAt("main", b.anchor.number + 1),
                         !.root.anchor = @ + 1,
                         !.root.store = CheckpointAt("main", b.anchor.number + 1)]),
          last([b EXCEPT !.parentHash = << 0, "wrong" >>]), SubSeq(true, 1, n - 1) }

\* Blocks of the requested range that exist on the chain.
ServedBlocks ==
    SelectSeq(truth, LAMBDA b : b.number \in req.first..req.last)

validate_fetched_block_numbers(numbers, blocks) ==
    Len(blocks) = Len(numbers) /\ \A i \in DOMAIN numbers : blocks[i].number = numbers[i]

ensure_unzen_preflight_blocks(blocks) ==
    \A i \in DOMAIN blocks : UnzenActive(BuiltinChains[req.chain], blocks[i].ts)

\* Fetches the blocks and builds the manifest from the request and the event.
fetch_preflight_blocks ==
    /\ pc = "blocks"
    /\ \E a \in {ServedBlocks} \cup WrongBlocks(ServedBlocks) :
           /\ Answers("blocks", a, ServedBlocks, WrongBlocks(ServedBlocks))
           /\ LET manifest == build_taiko_manifest(req, got.event, a)
              IN  IF /\ validate_fetched_block_numbers(extract_block_range(req), a)
                     /\ ensure_unzen_preflight_blocks(a)
                     /\ manifest # Err
                  THEN /\ Go(IF manifest.data = << >> /\ manifest.proposal.sources # << >>
                             THEN "data" ELSE "parent")
                       /\ got' = [event |-> got.event, blocks |-> a, manifest |-> manifest]
                       /\ UNCHANGED << chunks, input, output >>
                  ELSE Fail
           /\ UNCHANGED << world, truth, req, fails >>

WrongData ==
    LET n == Len(world.data)
    IN  { SubSeq(world.data, 1, n - 1),
          [world.data EXCEPT ![n].blob = Undecodable, ![n].kzgOk = FALSE],
          [world.data EXCEPT ![n].blob = None],
          [world.data EXCEPT ![n].lengthOk = FALSE, ![n].kzgOk = FALSE],
          [world.data EXCEPT ![n].inline = TRUE], [world.data EXCEPT ![n].countsOk = FALSE] }

build_preflight_manifest ==
    /\ pc = "data"
    /\ \E a \in {world.data} \cup WrongData :
           /\ Answers("data", a, world.data, WrongData)
           /\ Go("parent")
           /\ got' = [got EXCEPT !.manifest.data = a]
           /\ UNCHANGED << world, truth, req, fails, chunks, input, output >>

\* The parent block opens the derivation; an event without sources has none.
derive_preflight_source_data(m, parent, blocks) ==
    IF m.proposal.sources = << >> THEN None
    ELSE IF Len(m.proposal.sources) # Len(m.data) THEN Err
    ELSE LET derived == DeriveSources(m.proposal.sources, m.data,
                            [ts |-> parent.ts, gas |-> parent.gas, number |-> parent.number,
                             anchor |-> LastAnchor(req)],
                            [ts |-> m.proposal.ts, origin |-> m.proposal.origin,
                             proposer |-> m.proposal.proposer, chain |-> req.chain],
                            BuiltinChains[req.chain].shasta)
         IN  IF derived = Err THEN Err
             ELSE IF Len(derived.blocks) # Len(blocks) THEN Err ELSE derived

WrongParents ==
    LET p == [world.parent EXCEPT !.tag = "wrong"]
    IN  {[p EXCEPT !.gas = @ + 3], [p EXCEPT !.ts = @ + 1], [p EXCEPT !.number = @ + 1]}

fetch_preflight_parent_block_for_tx_lists ==
    LET derived(a) == derive_preflight_source_data(got.manifest, a, got.blocks)
        after(a) ==
            IF /\ derived(a) # Err
               /\ got.event.originHash # Zero
               /\ \A i \in DOMAIN got.blocks : got.blocks[i].anchorTx # None
            THEN Go("headers") /\ Keep("derived", derived(a)) /\ UNCHANGED << chunks, input, output >>
            ELSE Fail
    IN  /\ pc = "parent"
        /\ \/ /\ got.event.sources = << >>
              /\ after(None) /\ UNCHANGED << lies, delay >>
           \/ /\ got.event.sources # << >>
              /\ \E a \in {world.parent} \cup WrongParents :
                    /\ Answers("parent", a, world.parent, WrongParents)
                    /\ IF a.number = req.first - 1 THEN after(a) ELSE Fail
        /\ UNCHANGED << world, truth, req, fails >>

\* The L1 headers to ask for: the origin alone behind a stalled anchor, else from
\* the first anchor of the normal source up to the origin.
Anchors == [i \in DOMAIN got.blocks |-> got.blocks[i].anchor]
AnchorNumbers == [i \in DOMAIN got.blocks |-> got.blocks[i].anchor.number]
Stalled == should_bypass_stalled_anchor_linkage(AnchorNumbers, LastAnchor(req),
                                                got.event.origin, req.chain)
l1_header_anchor_checkpoints ==
    IF got.derived = None
    THEN IF validate_anchor_progression(AnchorNumbers, LastAnchor(req), got.event.origin, req.chain)
         THEN 0 ELSE Err
    ELSE validate_source_aware_anchor_progression(AnchorNumbers, got.derived.spans,
                                                  LastAnchor(req), got.event.origin, req.chain)
FirstHeader ==
    IF Stalled THEN got.event.origin
    ELSE LET numbers == { AnchorNumbers[i] : i \in (l1_header_anchor_checkpoints + 1)..Len(got.blocks) }
         IN  Larger(CHOOSE n \in numbers : \A m \in numbers : n <= m, LastAnchor(req))

HeaderRange(branch, first, last) == [i \in 1..(last - first + 1) |-> L1Header(branch, first + i - 1)]

validate_l1_headers(headers, cps, first, event) ==
    /\ \A i \in DOMAIN headers : headers[i].number = first + i - 1
    /\ HeadersChained(headers)
    /\ Consumed(headers, cps) = Len(cps)
    /\ headers[Len(headers)].hash = event.originHash

hydrate_shasta_l1_headers ==
    LET ready == Stalled \/ l1_header_anchor_checkpoints # Err
        true == HeaderRange("main", FirstHeader, got.event.origin)
        wrong == { HeaderRange("fork", FirstHeader, got.event.origin),
                   [true EXCEPT ![1] = L1Header("fork", FirstHeader)], Tail(true) }
        kept(a) == [got.manifest EXCEPT !.l1Header = a[Len(a)],
                                        !.l1Headers = IF Stalled THEN << >> ELSE a]
    IN  /\ pc = "headers"
        /\ \/ /\ ~ready
              /\ Fail /\ UNCHANGED << lies, delay >>
           \/ /\ ready
              /\ \E a \in {true} \cup wrong :
                    /\ Answers("headers", a, true, wrong)
                    /\ IF /\ Len(a) = Len(true)
                          /\ validate_l1_headers(a, IF Stalled THEN << >>
                                 ELSE SubSeq(Anchors, l1_header_anchor_checkpoints + 1, Len(Anchors)),
                                 FirstHeader, got.event)
                       THEN /\ Go("witnesses") /\ got' = [got EXCEPT !.manifest = kept(a)]
                            /\ UNCHANGED << chunks, input, output >>
                       ELSE Fail
        /\ UNCHANGED << world, truth, req, fails >>

\* Witness chunks (of one block each) are fetched concurrently and come back in any
\* order.  The tx list of a chunk is the canonical anchor and the manifest's txs; an
\* answer of another length than the chunk is an error.
Witness(i, nodes, headers) ==
    [block |-> got.blocks[i], chain |-> req.chain, nodes |-> nodes,
     headers |-> IF i = 1 THEN headers ELSE << >>]
TrueHeaders == << world.grand, world.parent >>

fetch_preflight_chunk ==
    /\ pc = "witnesses"
    /\ \E i \in DOMAIN got.blocks \ { chunks[k].index : k \in DOMAIN chunks } :
           LET true == Witness(i, {"state", "anchor"}, TrueHeaders)
               wrong == { Witness(i, {}, TrueHeaders), Witness(i, {"state"}, TrueHeaders),
                          Witness(i, {"state", "anchor"}, << [world.parent EXCEPT !.tag = "wrong"] >>),
                          Witness(i, {"state", "anchor"}, << into_compact(world.grand), world.parent >>),
                          Witness(i, {"state", "anchor"}, << world.grand, into_compact(world.parent) >>),
                          Witness(i, {"state", "anchor"}, << >>), None }
           IN  \E a \in {true} \cup wrong :
                 /\ Answers("witnesses", a, true, wrong)
                 /\ IF a = None THEN Fail
                    ELSE /\ chunks' = Append(chunks, [index |-> i, witness |-> a])
                         /\ Go(IF Len(chunks') = Len(got.blocks) THEN "checkpoint" ELSE "witnesses")
                         /\ UNCHANGED << got, input, output >>
                 /\ UNCHANGED << world, truth, req, fails >>

fetch_preflight_witnesses ==
    [i \in DOMAIN chunks |-> chunks[CHOOSE k \in DOMAIN chunks : chunks[k].index = i].witness]

\* How many of the anchors must repeat the parent's checkpoint: none needs no proof.
parent_checkpoint_validation_scope ==
    IF Stalled THEN Len(got.blocks)
    ELSE IF got.derived = None THEN 0 ELSE l1_header_anchor_checkpoints

\* A transport error: the operation sleeps and asks again, without end.
retry_shasta_preflight_operation ==
    /\ pc \in RpcSteps /\ fails < req.maxFails
    /\ pc = "parent" => got.event.sources # << >>
    /\ pc = "headers" => Stalled \/ l1_header_anchor_checkpoints # Err
    /\ pc = "checkpoint" => parent_checkpoint_validation_scope > 0
    /\ fails' = fails + 1 /\ delay' = Smaller(2 * delay, MaxDelay)
    /\ UNCHANGED << world, truth, req, pc, lies, got, chunks, input, output >>

validate_block_range(ws, id) ==
    /\ ws # << >>
    /\ \A i \in DOMAIN ws : ws[i].block.extra[2] = id
    /\ \A i \in 2..Len(ws) : ws[i].block.number = ws[i - 1].block.number + 1

\* The first witness's headers become the proposal's ancestor headers.
compact_proposal_witness_data(ws) == ws[1].headers

Guest(m, ws, carry) ==
    [witnesses |-> ws, manifest |-> m, carry |-> carry,
     ancestors |-> compact_proposal_witness_data(ws)]

\* The proof of the parent's checkpoint joins the first witness; then the
\* canonical preflight is complete.
hydrate_shasta_parent_checkpoint_witness ==
    LET scope == parent_checkpoint_validation_scope
        complete(nodes) == [fetch_preflight_witnesses EXCEPT ![1].nodes = @ \cup nodes]
        stored(ws) == IF ws[1].headers = << >> THEN Err
                      ELSE verified_parent_shasta_checkpoint(
                               Guest(got.manifest, ws, None), LastAnchor(req))
        finish(ws) ==
            IF validate_block_range(ws, req.proposalId)
            THEN Go("validate") /\ input' = Guest(got.manifest, ws, None)
                 /\ UNCHANGED << got, chunks, output >>
            ELSE Fail
    IN  /\ pc = "checkpoint"
        /\ \/ /\ scope = 0
              /\ finish(fetch_preflight_witnesses) /\ UNCHANGED << lies, delay >>
           \/ /\ scope > 0
              /\ \E a \in {{"checkpoint"}, {}} :
                    /\ Answers("checkpoint", a, {"checkpoint"}, {{}})
                    /\ LET ws == complete(a)
                       IN  IF /\ a # {}
                              /\ stored(ws) # Err
                              /\ \A i \in 1..scope : Anchors[i] = stored(ws)
                           THEN finish(ws) ELSE Fail
        /\ UNCHANGED << world, truth, req, fails >>

(***************************************************************************)
(* Validation, proving and aggregation                                     *)
(***************************************************************************)
get_fork_verifier_address(r) == IF r.proofType = "native" THEN "sgx" ELSE r.proofType

build_proof_carry_data_with_chain_spec(g, verifier) ==
    LET ws == g.witnesses
        p == g.manifest.proposal
        checkpoint == CheckpointOf(ws[Len(ws)].block)
    IN  IF \/ ws = << >>
           \/ ~fits_shasta_uint48(g.manifest.proposalId) \/ g.manifest.proposalId # p.id
           \/ ~fits_shasta_uint48(checkpoint.number)
           \/ g.manifest.checkpoint \notin {None, checkpoint}
        THEN Err
        ELSE [chain |-> g.manifest.chain, verifier |-> verifier, id |-> g.manifest.proposalId,
              proposalHash |-> p, parentProposalHash |-> p.parentProposalHash,
              parentHash |-> ws[1].block.parentHash, prover |-> g.manifest.prover,
              proposer |-> p.proposer, ts |-> p.ts, checkpoint |-> checkpoint]

validate_materialized_canonical_data(g) ==
    /\ g.manifest.proposalId = g.manifest.proposal.id
    /\ validate_block_range(g.witnesses, g.manifest.proposal.id)
    /\ validate_derivation_source_block_limit(Len(g.witnesses))
    /\ verify_proposal_mode_blob_usage(g.manifest.proposal.sources, g.manifest.data)
    /\ prove_shasta_proposal(g)

\* The canonical core is validated lane-neutrally, with no prover and no verifier.
validate_canonical_preflight(g) ==
    LET neutral == [g EXCEPT !.manifest.prover = NoAddress, !.manifest.lastAnchor = LastAnchor(req)]
        carry == build_proof_carry_data_with_chain_spec(neutral, NoAddress)
    IN  /\ carry # Err
        /\ g.witnesses[1].block.number = req.first
        /\ g.witnesses[Len(g.witnesses)].block.number = req.last
        /\ validate_materialized_canonical_data([neutral EXCEPT !.carry = carry])

\* Canonical validation, then the request's own prover and verifier, for the kind
\* of blob proof that the core was built with.
materialize_guest_input ==
    LET carry == build_proof_carry_data_with_chain_spec(input, get_fork_verifier_address(req))
    IN  /\ pc = "validate"
        /\ IF /\ validate_canonical_preflight(input)
              /\ resolve_blob_proof_type(req) = input.manifest.blobType
              /\ carry # Err
           THEN Go(IF req.verify THEN "verify" ELSE "prove") /\ input' = [input EXCEPT !.carry = carry]
                /\ UNCHANGED << got, chunks, output >>
           ELSE Fail
        /\ UNCHANGED << world, truth, req, lies, fails, delay >>

compare_checkpoint(g, first, last, parent) ==
    /\ first.parentHash = g.carry.parentHash
    /\ HashOf(parent) = g.carry.parentHash
    /\ last.number = g.carry.checkpoint.number
    /\ HashOf(last) = g.carry.checkpoint.hash

\* The blocks are asked for once more: a reorganisation since the first answers,
\* or a wrong first answer, shows here.
verify_checkpoint_against_rpc ==
    /\ pc = "verify"
    /\ LET blocks == ServedBlocks
           true == [first |-> blocks[1], last |-> blocks[Len(blocks)], parent |-> world.parent]
           wrong == {[true EXCEPT !.last.tag = "wrong"], [true EXCEPT !.parent.tag = "wrong"]}
       IN  \E a \in {true} \cup wrong :
             /\ Answers("verify", a, true, wrong)
             /\ IF compare_checkpoint(input, a.first, a.last, a.parent)
                THEN Go("prove") /\ UNCHANGED << got, chunks, input, output >> ELSE Fail
             /\ UNCHANGED << world, truth, req, fails >>

\* The pipeline validates the materialized input, and the prover runs the guest.
Prove ==
    LET carry == build_proof_carry_data_with_chain_spec(input, get_fork_verifier_address(req))
    IN  /\ pc = "prove"
        /\ IF carry = input.carry /\ validate_materialized_canonical_data(input)
           THEN Go("proved") /\ output' = input.carry /\ UNCHANGED << got, chunks, input >>
           ELSE Fail
        /\ UNCHANGED << world, truth, req, lies, fails, delay >>

Next ==
    \/ retry_shasta_preflight_operation
    \/ fetch_preflight_proposal_block
    \/ resolve_shasta_proposal_event
    \/ fetch_preflight_blocks
    \/ build_preflight_manifest
    \/ fetch_preflight_parent_block_for_tx_lists
    \/ hydrate_shasta_l1_headers
    \/ fetch_preflight_chunk
    \/ hydrate_shasta_parent_checkpoint_witness
    \/ materialize_guest_input
    \/ verify_checkpoint_against_rpc
    \/ Prove

Spec == Init /\ [][Next]_vars

(***************************************************************************)
(* Properties                                                              *)
(***************************************************************************)
\* A proof that names the real proposal and the real parent block ends in the real
\* block, with its real state, whatever the RPC answered on the way: nothing that
\* prove_shasta_proposal takes from the host is taken on the host's word.
AcceptedIsTrue ==
    pc = "proved" /\ output.proposalHash = world.proposal
                  /\ output.parentHash = HashOf(world.parent) =>
        output = TrueCarry(world, truth, output.verifier, req.prover)

\* The host's own preflight never gives up on a request that is right about a
\* proposal when every answer is true in the end: what derivation lets into a
\* block (forced inclusions, defaults, a stalled anchor at the edge of the window)
\* is what hydration fetches proofs for and what the guest accepts.
\* The host asks for at most MaxBlocks blocks in all.
HonestSucceeds ==
    pc = "failed" /\ lies = {} /\ Len(truth) <= MaxBlocks => ~req.faithful
=============================================================================
