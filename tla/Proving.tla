------------------------------ MODULE Proving -------------------------------
(***************************************************************************)
(* The provers: what each backend does with one call, and batches that are *)
(* proved and aggregated over a time in which the deployment changes.      *)
(***************************************************************************)
EXTENDS ShastaPrimitives, FiniteSets

(***************************************************************************)
(* The prover backends: how each one proves an encoded proposal and        *)
(* aggregates the proofs of several, and what it checks of the answers it  *)
(* gets.  Native, RISC0 and local SP1 run in the process; the SP1 network  *)
(* and the SGX service are asked, and what they answered is an argument.   *)
(*                                                                         *)
(* A guest input is [carry, witnesses, chain, sound]: "sound" says whether *)
(* prove_shasta_proposal accepts it (module ShastaGuest).  A Proof is      *)
(* [proof, input, quote, uuid, carry], each of them possibly None.  Public *)
(* values are a sequence of 32-byte values.  An uuid is [vk], the JSON of  *)
(* an SP1 verifying key, or [hex], the bytes of an image id.               *)
(***************************************************************************)

prove_shasta_proposal(g) == IF g.sound THEN hash_shasta_subproof_input(g.carry) ELSE Err

NoProof == [proof |-> None, input |-> None, quote |-> None, uuid |-> None, carry |-> None]

(***************************************************************************)
(* Checks shared by the backends                                           *)
(***************************************************************************)
parse_shasta_proposal_input_hash(values) == IF Len(values) = 1 THEN values[1] ELSE Err
parse_shasta_aggregation_input_hash(values) == IF Len(values) >= 1 THEN values[1] ELSE Err

validated_shasta_proposal_input(c) ==
    IF build_shasta_commitment_from_proof_carry_data_vec(<< c >>) = Err THEN Err
    ELSE hash_shasta_subproof_input(c)

ensure_shasta_proposal_input_matches_carry(input, c) ==
    /\ input # Err
    /\ validated_shasta_proposal_input(c) # Err
    /\ input = validated_shasta_proposal_input(c)

expected_shasta_aggregate_input(cs, instance) ==
    LET commitment == build_shasta_commitment_from_proof_carry_data_vec(cs)
    IN  IF cs = << >> \/ commitment = Err THEN Err
        ELSE shasta_aggregation_output(commitment, cs[1].chain, cs[1].verifier, instance)

ensure_shasta_aggregate_input_matches_carries(input, cs, instance) ==
    /\ input # Err
    /\ expected_shasta_aggregate_input(cs, instance) # Err
    /\ input = expected_shasta_aggregate_input(cs, instance)

\* The words of a verifying key are kept as SP1 gives them; raw bytes are words
\* with the low byte first.
sp1_image_id_words_from_uuid(uuid) ==
    IF "vk" \in DOMAIN uuid THEN uuid.vk ELSE words_from_bytes_le(uuid.hex)
shasta_image_id_words_from_uuid(uuid) == sp1_image_id_words_from_uuid(uuid)

NoImage == << 0, 0 >>
shasta_aggregation_image_id_words(proofs) ==
    LET named == { shasta_image_id_words_from_uuid(proofs[i].uuid) :
                   i \in { j \in DOMAIN proofs : proofs[j].uuid # None } }
    IN  CASE named = {} -> NoImage
          [] \E w \in named : named = {w} -> CHOOSE w \in named : TRUE
          [] OTHER -> Err

\* The input of an aggregation guest, or Err.
build_shasta_aggregation_input(proofs) ==
    LET image == shasta_aggregation_image_id_words(proofs)
        cs == [i \in DOMAIN proofs |-> proofs[i].carry]
    IN  IF /\ image # Err
           /\ \A i \in DOMAIN cs : cs[i] # None
           /\ build_shasta_commitment_from_proof_carry_data_vec(cs) # Err
           /\ \A i \in DOMAIN cs :
                 proofs[i].input # None => proofs[i].input = hash_shasta_subproof_input(cs[i])
        THEN [image |-> image, carries |-> cs, prover |-> NoAddress,
              inputs |-> [i \in DOMAIN cs |-> hash_shasta_subproof_input(cs[i])]]
        ELSE Err

Has(p, fields) == \A f \in fields : p[f] # None
validate_external_aggregate_proof_metadata(kind, proofs) ==
    \A i \in DOMAIN proofs :
        CASE kind = "native" -> Has(proofs[i], {"input", "carry"})
          [] kind = "sgx" -> Has(proofs[i], {"input", "carry", "proof"})
          [] kind = "sp1" -> /\ Has(proofs[i], {"input", "carry", "uuid"})
                             /\ proofs[i].quote # None \/ proofs[i].proof # None
          [] kind = "risc0" -> Has(proofs[i], {"input", "carry", "uuid", "quote"})

validate_external_aggregate_proofs(kind, chain, proofs) ==
    /\ validate_external_aggregate_proof_metadata(kind, proofs)
    /\ \A i \in DOMAIN proofs : proofs[i].carry # None /\ proofs[i].carry.chain = chain

(***************************************************************************)
(* Enclave-style proofs: instance id, instance address, signature          *)
(***************************************************************************)
build_shasta_proof_bytes(id, instance, sig) == [id |-> id, instance |-> instance, sig |-> sig]
sign_hash(key, hash) == [signer |-> key, hash |-> hash]

NativeId == "native id"
NativeInstance == "native instance"
mock_signature(hash) == sign_hash("mock", hash)

native_prove_encoded(g) ==
    LET input == prove_shasta_proposal(g)
    IN  IF g.witnesses = 0 \/ ~ensure_shasta_proposal_input_matches_carry(input, g.carry) THEN Err
        ELSE [NoProof EXCEPT !.input = input, !.carry = g.carry,
              !.proof = build_shasta_proof_bytes(NativeId, NativeInstance, mock_signature(input))]

verify_native_proof_envelope(p, expected) ==
    /\ p.proof # None
    /\ p.proof.id = NativeId
    /\ p.proof.instance = NativeInstance
    /\ p.input # None => p.input = expected
    /\ p.proof.sig = mock_signature(expected)

native_aggregate(proofs, endianness) ==
    LET agg == build_shasta_aggregation_input(proofs)
        image == IF endianness = "be" THEN words_to_bytes_be(agg.image)
                                      ELSE words_to_bytes_le(agg.image)
        hash == aggregate_shasta_zk_with_verifier(image, agg.inputs, agg.carries, agg.prover,
                    [i \in DOMAIN proofs |-> verify_native_proof_envelope(proofs[i], agg.inputs[i])])
    IN  IF agg = Err \/ endianness \notin {"be", "le"} THEN Err
        ELSE IF hash = Err THEN Err
        ELSE [NoProof EXCEPT !.input = hash,
              !.proof = build_shasta_proof_bytes(NativeId, NativeInstance, mock_signature(hash))]

(***************************************************************************)
(* RISC0                                                                   *)
(***************************************************************************)
\* A receipt of the zkVM: the image that ran, its journal, whether it is a fake
\* of the mock mode, and whether its claim still shows the image.
Receipt(image, journal, mock) == [image |-> image, journal |-> journal, fake |-> mock, pruned |-> FALSE]
receipt_verify(r, image, dev) == r.image = image /\ (r.fake => dev)

verify_receipt(config, r, image) == config.verify => receipt_verify(r, image, config.mock)

risc0_prove_encoded(g, image, config) ==
    LET input == prove_shasta_proposal(g)
        receipt == Receipt(image, << input >>, config.mock)
    IN  IF input = Err THEN Err
        ELSE IF /\ verify_receipt(config, receipt, image)
                /\ ensure_shasta_proposal_input_matches_carry(
                       parse_shasta_proposal_input_hash(receipt.journal), g.carry)
        THEN [NoProof EXCEPT !.input = input, !.carry = g.carry, !.quote = receipt,
                             !.uuid = [hex |-> words_to_bytes_le(image)],
                             !.proof = [seal |-> receipt, image |-> words_to_bytes_le(image)]]
        ELSE Err

receipt_image_id(r) == IF r.pruned THEN Err ELSE r.image

verify_receipt_against_expected_image_id(r, expected, allowFake) ==
    receipt_verify(r, expected, allowFake)

validate_receipt_image_id(r, expected, allowFake) ==
    IF receipt_image_id(r) # Err
    THEN (IF receipt_image_id(r) = expected THEN expected ELSE Err)
    ELSE IF verify_receipt_against_expected_image_id(r, expected, allowFake) THEN expected ELSE Err

\* What the envelope of a child proof is turned back into: its uuid is the image
\* of its receipt.
proof_from_envelope(p, expected, allowFake) ==
    IF p.quote = None THEN Err
    ELSE LET image == validate_receipt_image_id(p.quote, expected, allowFake)
         IN  IF image = Err THEN Err
             ELSE [p EXCEPT !.uuid = [hex |-> words_to_bytes_le(image)]]

build_risc0_aggregation_input(proofs, expected, allowFake) ==
    LET children == [i \in DOMAIN proofs |-> proof_from_envelope(proofs[i], expected, allowFake)]
    IN  IF \E i \in DOMAIN children : children[i] = Err THEN Err
        ELSE LET agg == build_shasta_aggregation_input(children)
             IN  IF agg = Err THEN Err
                 ELSE IF agg.image # expected THEN Err ELSE agg

\* The aggregation guest: every receipt verifies for the image, and its journal is
\* the input of its child.  A guest accepts no fake receipt.
risc0_aggregation_guest(agg, receipts) ==
    LET image == words_to_bytes_le(agg.image)
    IN  IF /\ Len(receipts) = Len(agg.carries)
           /\ \A i \in DOMAIN receipts : /\ receipt_verify(receipts[i], agg.image, FALSE)
                                         /\ Len(receipts[i].journal) = 1
        THEN aggregate_shasta_zk_with_verifier(image, [i \in DOMAIN receipts |-> receipts[i].journal[1]],
                 agg.carries, agg.prover, [i \in DOMAIN receipts |-> TRUE])
        ELSE Err

risc0_aggregate(proofs, build, config) ==
    LET agg == build_risc0_aggregation_input(proofs, build.proposal, config.allowFake)
        input == risc0_aggregation_guest(agg, [i \in DOMAIN proofs |-> proofs[i].quote])
        receipt == Receipt(build.aggregation, << input >>, config.mock)
    IN  IF agg = Err THEN Err
        ELSE IF input = Err THEN Err
        ELSE IF verify_receipt(config, receipt, build.aggregation)
        THEN [NoProof EXCEPT !.input = parse_shasta_aggregation_input_hash(receipt.journal),
                 !.quote = receipt, !.uuid = [hex |-> words_to_bytes_le(build.aggregation)],
                 !.proof = [seal |-> receipt, block |-> words_to_bytes_le(build.proposal),
                            aggregation |-> words_to_bytes_le(build.aggregation)]]
        ELSE Err

-----------------------------------------------------------------------------
(***************************************************************************)
(* The SP1 backend, local and on the prover network, and the SGX backend   *)
(* with the service it calls.  An SP1 proof is [mode, vk, values, ok]: the *)
(* key it claims, its public values, and whether it verifies for them.     *)
(***************************************************************************)

Sp1Proof(mode, vk, values) == [mode |-> mode, vk |-> vk, values |-> values, ok |-> TRUE]
sp1_verify(proof, vk) == proof.ok /\ proof.vk = vk

\* HashableKey::hash_bytes: the words of the key with the high byte first.
hash_bytes(vk) == words_to_bytes_be(vk)

(***************************************************************************)
(* SP1 payloads                                                            *)
(***************************************************************************)
remote_verifier_proof_bytes(proof) ==
    IF proof.mode \in {"plonk", "groth16"} THEN proof ELSE None

encode_sp1_proposal_proof_payload(proof, vk) ==
    IF remote_verifier_proof_bytes(proof) = None THEN None
    ELSE [program |-> vk, bytes |-> proof]
encode_sp1_aggregation_proof_payload(proof, aggregationVk, blockVk) ==
    IF remote_verifier_proof_bytes(proof) = None THEN None
    ELSE [program |-> aggregationVk, block |-> hash_bytes(blockVk), bytes |-> proof]

\* The contract on L1 is asked about proofs in an on-chain mode only, and only
\* where its address is configured.
verify_sp1_remote_contract(config, proof, vk) == config.remoteVerify /\ sp1_verify(proof, vk)
verify_network_proposal_proof(config, proof, vk) ==
    remote_verifier_proof_bytes(proof) # None =>
        /\ parse_shasta_proposal_input_hash(proof.values) # Err
        /\ verify_sp1_remote_contract(config, proof, vk)
verify_network_aggregation_proof(config, proof, vk) ==
    remote_verifier_proof_bytes(proof) # None => verify_sp1_remote_contract(config, proof, vk)

\* Sp1Response into Proof: the quote is the proof, the uuid its verifying key.
Sp1Response(payload, input, proof, vk, carry) ==
    [proof |-> payload, input |-> input, quote |-> proof, uuid |-> [vk |-> vk], carry |-> carry]

(***************************************************************************)
(* SP1 proposals                                                           *)
(***************************************************************************)
\* The guest runs and its output is reported, without a proof.
execute_proposal_with_local_client(g) ==
    LET input == prove_shasta_proposal(g)
    IN  IF ensure_shasta_proposal_input_matches_carry(input, g.carry)
        THEN [NoProof EXCEPT !.input = input, !.carry = g.carry] ELSE Err

\* What every proof of a proposal is checked for, and the Proof made of it.
Sp1Proposal(g, proof, vk) ==
    LET input == parse_shasta_proposal_input_hash(proof.values)
    IN  IF ~ensure_shasta_proposal_input_matches_carry(input, g.carry) THEN Err
        ELSE Sp1Response(encode_sp1_proposal_proof_payload(proof, vk), input, proof, vk, g.carry)

prove_proposal_with_client(g, vk, mode, verify) ==
    LET input == prove_shasta_proposal(g)
        proof == Sp1Proof(mode, vk, << input >>)
    IN  IF input = Err THEN Err
        ELSE IF verify => sp1_verify(proof, vk) THEN Sp1Proposal(g, proof, vk) ELSE Err

prove_proposal_with_network_client(g, vk, config, answer) ==
    IF answer = Err THEN Err
    ELSE IF config.verify => verify_network_proposal_proof(config, answer, vk)
    THEN Sp1Proposal(g, answer, vk) ELSE Err

(***************************************************************************)
(* SP1 aggregation                                                         *)
(***************************************************************************)
\* The child's own proof: its quote, or the payload of an older release, which
\* held the serialized proof.
load_sp1_subproof_for_aggregation(p) ==
    CASE p.quote # None -> p.quote
      [] p.quote = None /\ p.proof # None -> (IF "legacy" \in DOMAIN p.proof THEN p.proof.legacy ELSE Err)
      [] OTHER -> Err

\* The children as they are written to the guest, each with the proposal key.
subproofs(proofs) ==
    LET loaded == [i \in DOMAIN proofs |-> load_sp1_subproof_for_aggregation(proofs[i])]
    IN  IF \E i \in DOMAIN loaded : loaded[i] = Err THEN Err
        ELSE IF \E i \in DOMAIN loaded : loaded[i].mode # "compressed" THEN Err ELSE loaded

\* The guest asks the zkVM to verify each child for the image of the input, and
\* the zkVM holds the keys the host wrote beside the proofs.
sp1_aggregation_guest(agg, children, proposalVk) ==
    aggregate_shasta_zk_with_verifier(sp1_contract_block_program_id(agg.image), agg.inputs,
        agg.carries, agg.prover,
        [i \in DOMAIN children |-> /\ agg.image = proposalVk
                                   /\ sp1_verify(children[i], proposalVk)
                                   /\ children[i].values = << agg.inputs[i] >>])

aggregate_with_client(proofs, build, mode, verify) ==
    LET agg == build_shasta_aggregation_input(proofs)
        children == subproofs(proofs)
        input == sp1_aggregation_guest(agg, children, build.proposal)
        proof == Sp1Proof(mode, build.aggregation, << input >>)
    IN  IF agg = Err \/ children = Err THEN Err
        ELSE IF input = Err THEN Err
        ELSE IF verify => sp1_verify(proof, build.aggregation)
        THEN Sp1Response(encode_sp1_aggregation_proof_payload(proof, build.aggregation, build.proposal),
                 parse_shasta_aggregation_input_hash(proof.values), proof, build.aggregation, None)
        ELSE Err

expected_sp1_aggregation_input_hash(agg) ==
    aggregate_shasta_zk_with_verifier(sp1_contract_block_program_id(agg.image), agg.inputs,
        agg.carries, agg.prover, [i \in DOMAIN agg.inputs |-> TRUE])

ensure_sp1_network_aggregation_input_hash_matches(expected, actual) ==
    actual # Err /\ expected = actual

aggregate_with_network_client(proofs, build, config, answer) ==
    LET agg == build_shasta_aggregation_input(proofs)
    IN  IF agg = Err \/ subproofs(proofs) = Err \/ answer = Err THEN Err
        ELSE IF /\ expected_sp1_aggregation_input_hash(agg) # Err
                /\ config.verify => verify_network_aggregation_proof(config, answer, build.aggregation)
                /\ ensure_sp1_network_aggregation_input_hash_matches(
                       expected_sp1_aggregation_input_hash(agg),
                       parse_shasta_aggregation_input_hash(answer.values))
        THEN Sp1Response(encode_sp1_aggregation_proof_payload(answer, build.aggregation, build.proposal),
                 parse_shasta_aggregation_input_hash(answer.values), answer, build.aggregation, None)
        ELSE Err

(***************************************************************************)
(* The SGX service                                                         *)
(***************************************************************************)
load_signer_identity(key) == << "instance", key >>

\* The answer for an input: signed by the key that is on disk, for its instance.
proof_result_from_input_hash(key, id, input) ==
    [proof |-> build_shasta_proof_bytes(id, load_signer_identity(key), sign_hash(key, input)),
     instance |-> load_signer_identity(key), input |-> input]

service_validate_proposal(g) == g.witnesses > 0 /\ g.chain = g.carry.chain

service_prove_request(g, key, id) ==
    LET input == prove_shasta_proposal(g)
    IN  IF ~service_validate_proposal(g) \/ input = Err THEN Err
        ELSE IF input # hash_shasta_subproof_input(g.carry) THEN Err
        ELSE proof_result_from_input_hash(key, id, input)

validate_sgx_child_proof(proof, input, id, instance) ==
    /\ proof.id = id
    /\ proof.instance = instance
    /\ load_signer_identity(proof.sig.signer) = instance
    /\ proof.sig.hash = input

\* Mutant: the children may be signed by any enclave.
ChildrenOfAnyEnclave(items, id, instance) ==
    /\ items # << >>
    /\ build_shasta_commitment_from_proof_carry_data_vec([i \in DOMAIN items |-> items[i].carry]) # Err
    /\ \A i \in DOMAIN items : items[i].input = hash_shasta_subproof_input(items[i].carry)

validate_aggregate_request(items, id, instance) ==
    /\ items # << >>
    /\ build_shasta_commitment_from_proof_carry_data_vec([i \in DOMAIN items |-> items[i].carry]) # Err
    /\ \A i \in DOMAIN items :
          /\ items[i].input = hash_shasta_subproof_input(items[i].carry)
          /\ validate_sgx_child_proof(items[i].proof, items[i].input, id, instance)

(***************************************************************************)
(* The SGX backend                                                         *)
(***************************************************************************)
build_shasta_packet(g) == IF g.witnesses = 0 \/ g.carry.chain = 0 THEN Err ELSE g

\* from_proof of one child: its proof and its carry, with the input recomputed.
Raiko2AggregateProof(p) ==
    IF p.proof = None \/ p.carry = None THEN Err
    ELSE LET expected == validated_shasta_proposal_input(p.carry)
         IN  IF expected = Err \/ (p.input # None /\ p.input # expected) THEN Err
             ELSE [input |-> expected, proof |-> p.proof, carry |-> p.carry]

build_shasta_aggregate_request(proofs) ==
    LET items == [i \in DOMAIN proofs |-> Raiko2AggregateProof(proofs[i])]
    IN  IF proofs = << >> \/ \E i \in DOMAIN items : items[i] = Err THEN Err ELSE items

\* What the host makes of the answer to a proposal request.
gaiko2_prove_encoded(packet, answer) ==
    IF answer = Err THEN Err
    ELSE IF ensure_shasta_proposal_input_matches_carry(answer.input, packet.carry)
    THEN [NoProof EXCEPT !.proof = answer.proof, !.input = answer.input, !.carry = packet.carry]
    ELSE Err

parse_aggregate_instance_address(answer) == IF answer.instance = None THEN Err ELSE answer.instance

gaiko2_aggregate(items, answer) ==
    IF answer = Err THEN Err
    ELSE IF /\ parse_aggregate_instance_address(answer) # Err
            /\ ensure_shasta_aggregate_input_matches_carries(answer.input,
                   [i \in DOMAIN items |-> items[i].carry], answer.instance)
    THEN [NoProof EXCEPT !.proof = answer.proof, !.input = answer.input]
    ELSE Err

-----------------------------------------------------------------------------
(***************************************************************************)
(* A batch of proposals proved and aggregated by one backend, over a time  *)
(* in which the deployment changes: the server may restart with other      *)
(* guest programs, the enclave key may be generated anew while the SGX     *)
(* service is running, and the prover network may answer with a proof of   *)
(* something else or with one that does not verify.                        *)
(*                                                                         *)
(* "proofs" holds the proof of each proposal, as the artifact store does   *)
(* across restarts.  A batch to aggregate is any sequence of them: the API *)
(* takes the proofs of an aggregation from its caller.                     *)
(***************************************************************************)

CONSTANTS
    Inputs,          \* proposal -> its guest input
    Builds,          \* a sequence of [proposal, aggregation], the images of each release
    Backends,        \* the backends and their configuration
    Batches,         \* the sequences of proposals that are submitted for aggregation
    MaxKeys          \* the bound on the enclave keys generated

VARIABLES
    backend,     \* the backend of this instance
    release,     \* the index of the running release in Builds
    key,         \* the enclave key on disk
    attested,    \* the key that bootstrap.json and the quote in it name
    proofs,      \* proposal -> [proof, release, key, fault] of its stored proof, or None
    call,        \* the aggregation the SGX service is in, or None
    result       \* the last aggregation: [batch, children, proof, fault, release], or None

vars == << backend, release, key, attested, proofs, call, result >>

build == Builds[release]
Proposals == DOMAIN Inputs
Config == backend.config
InstanceId == "registered id"

Init ==
    /\ backend \in Backends
    /\ release = 1
    /\ key = 1
    /\ attested = 1
    /\ proofs = [p \in Proposals |-> None]
    /\ call = None
    /\ result = None

(***************************************************************************)
(* Proposals                                                               *)
(***************************************************************************)
Store(p, proof, fault) ==
    /\ proof # Err
    /\ proofs' = [proofs EXCEPT ![p] = [proof |-> proof, release |-> release, key |-> key,
                                        fault |-> fault]]
    /\ UNCHANGED << backend, release, key, attested, call, result >>

\* The backends that run in the process.
ProveLocal(p) ==
    /\ proofs[p] = None
    /\ CASE backend.kind = "native" -> Store(p, native_prove_encoded(Inputs[p]), "none")
         [] backend.kind = "risc0" ->
                Store(p, risc0_prove_encoded(Inputs[p], build.proposal, Config), "none")
         [] backend.kind = "sp1" /\ Config.mode = "execute" /\ Config.prover # "network" ->
                Store(p, execute_proposal_with_local_client(Inputs[p]), "none")
         [] backend.kind = "sp1" /\ Config.mode = "prove" /\ Config.prover = "local" ->
                Store(p, prove_proposal_with_client(Inputs[p], build.proposal, Config.recursion,
                                                    Config.verify), "none")
         [] OTHER -> FALSE

\* What the network may answer: the proof that was asked for, the proof of another
\* request, or bytes that do not verify.
NetworkAnswers(vk, recursion, right, wrong) ==
    LET proof(h) == Sp1Proof(recursion, vk, << h >>)
    IN  (IF right = Err THEN {} ELSE {proof(right), [proof(right) EXCEPT !.ok = FALSE]})
        \cup { proof(h) : h \in wrong }

Fault(answer, right) ==
    CASE ~answer.ok -> "bytes" [] answer.ok /\ answer.values = << right >> -> "none" [] OTHER -> "other"

ProveOnNetwork(p) ==
    /\ proofs[p] = None
    /\ backend.kind = "sp1" /\ Config.mode = "prove" /\ Config.prover = "network"
    /\ \E answer \in NetworkAnswers(build.proposal, Config.recursion,
                         prove_shasta_proposal(Inputs[p]),
                         { hash_shasta_subproof_input(Inputs[q].carry) : q \in Proposals \ {p} }) :
          Store(p, prove_proposal_with_network_client(Inputs[p], build.proposal, Config, answer),
                Fault(answer, prove_shasta_proposal(Inputs[p])))

\* One request to the SGX service: it reads the key once.
ProveInEnclave(p) ==
    /\ proofs[p] = None
    /\ backend.kind = "sgx"
    /\ build_shasta_packet(Inputs[p]) # Err
    /\ Store(p, gaiko2_prove_encoded(build_shasta_packet(Inputs[p]),
                    service_prove_request(Inputs[p], key, InstanceId)), "none")

\* An older release stored the serialized SP1 proof in place of the quote, and a
\* RISC0 receipt may come without the claim that shows its image.
StoredOtherwise(p) ==
    /\ proofs[p] # None
    /\ LET proof == proofs[p].proof
       IN  \/ /\ backend.kind = "sp1"
              /\ proof.quote # None /\ proof.proof = None
              /\ proofs' = [proofs EXCEPT ![p].proof.quote = None,
                                          ![p].proof.proof = [legacy |-> proof.quote]]
           \/ /\ backend.kind = "risc0"
              /\ ~proof.quote.pruned
              /\ proofs' = [proofs EXCEPT ![p].proof.quote.pruned = TRUE]
    /\ UNCHANGED << backend, release, key, attested, call, result >>

(***************************************************************************)
(* Aggregation                                                             *)
(***************************************************************************)
Children(batch) == [i \in DOMAIN batch |-> proofs[batch[i]].proof]
Chain(batch) == Inputs[batch[1]].carry.chain

Available(batch) == \A i \in DOMAIN batch : proofs[batch[i]] # None

Finish(batch, proof, fault) ==
    /\ result' = [batch |-> batch, children |-> [i \in DOMAIN batch |-> proofs[batch[i]]],
                  proof |-> proof, fault |-> fault, release |-> release]
    /\ UNCHANGED << backend, release, key, attested, proofs >>

AggregateLocal(batch) ==
    /\ result = None /\ Available(batch)
    /\ UNCHANGED call
    /\ CASE backend.kind = "native" ->
                Finish(batch, native_aggregate(Children(batch), Config.endianness), "none")
         [] backend.kind = "risc0" -> Finish(batch, risc0_aggregate(Children(batch), build, Config), "none")
         [] backend.kind = "sp1" /\ Config.prover = "local" ->
                Finish(batch, aggregate_with_client(Children(batch), build, Config.aggRecursion,
                                                    Config.verify), "none")
         [] OTHER -> FALSE

\* The network runs the aggregation guest on the children it was given.
AggregateOnNetwork(batch) ==
    LET agg == build_shasta_aggregation_input(Children(batch))
    IN  /\ result = None /\ Available(batch)
        /\ backend.kind = "sp1" /\ Config.prover = "network"
        /\ UNCHANGED call
        /\ IF agg = Err \/ subproofs(Children(batch)) = Err THEN Finish(batch, Err, "none")
           ELSE LET right == sp1_aggregation_guest(agg, subproofs(Children(batch)), build.proposal)
                    answers == NetworkAnswers(build.aggregation, Config.aggRecursion, right,
                                              { agg.inputs[1] })
                IN  \/ right = Err /\ Finish(batch, Err, "none")
                    \/ \E answer \in answers :
                          Finish(batch, aggregate_with_network_client(Children(batch), build, Config,
                                            answer), Fault(answer, right))

\* The SGX service reads the key for the address it expects of the children ...
ServiceIdentity(batch) ==
    LET items == build_shasta_aggregate_request(Children(batch))
    IN  /\ result = None /\ call = None /\ Available(batch)
        /\ backend.kind = "sgx"
        /\ IF items = Err THEN Finish(batch, Err, "none") /\ UNCHANGED call
           ELSE IF ~validate_aggregate_request(items, InstanceId, load_signer_identity(key))
                THEN Finish(batch, Err, "none") /\ UNCHANGED call
           ELSE /\ call' = [batch |-> batch, items |-> items, instance |-> load_signer_identity(key)]
                /\ UNCHANGED << backend, release, key, attested, proofs, result >>

\* ... and once more to sign, and the host checks what comes back.
ServiceSign ==
    /\ call # None
    /\ LET input == expected_shasta_aggregate_input([i \in DOMAIN call.items |-> call.items[i].carry],
                                                    call.instance)
       IN  Finish(call.batch, gaiko2_aggregate(call.items,
                      proof_result_from_input_hash(key, InstanceId, input)), "none")
    /\ call' = None

Discard ==
    /\ result # None
    /\ result' = None
    /\ UNCHANGED << backend, release, key, attested, proofs, call >>

(***************************************************************************)
(* The deployment                                                          *)
(***************************************************************************)
\* The server restarts with the next release; stored proofs stay.
Redeploy ==
    /\ release < Len(Builds)
    /\ release' = release + 1
    /\ result' = None
    /\ call' = None
    /\ UNCHANGED << backend, key, attested, proofs >>

\* bootstrap_with_provider: the new key is saved first ...
SaveKey ==
    /\ backend.kind = "sgx"
    /\ key < MaxKeys
    /\ key' = key + 1
    /\ UNCHANGED << backend, release, attested, proofs, call, result >>

\* ... and then bootstrap.json is written for it.
WriteBootstrap ==
    /\ backend.kind = "sgx"
    /\ attested # key
    /\ attested' = key
    /\ UNCHANGED << backend, release, key, proofs, call, result >>

Next ==
    \/ \E p \in Proposals : \/ ProveLocal(p)
                            \/ ProveOnNetwork(p)
                            \/ ProveInEnclave(p)
                            \/ StoredOtherwise(p)
    \/ \E batch \in Batches : \/ AggregateLocal(batch)
                              \/ AggregateOnNetwork(batch)
                              \/ ServiceIdentity(batch)
    \/ ServiceSign
    \/ Discard
    \/ Redeploy
    \/ SaveKey
    \/ WriteBootstrap

Spec == Init /\ [][Next]_vars

(***************************************************************************)
(* Properties                                                              *)
(***************************************************************************)
Accepted == result # None /\ result.proof # Err
Carries == [i \in DOMAIN result.batch |-> Inputs[result.batch[i]].carry]

\* The public input that the contract recomputes on L1 for a range of proposals.
ContractInput(image, cs, instance) ==
    LET public == shasta_aggregation_output([firstId |-> cs[1].id, firstParent |-> cs[1].parentHash,
                      lastProposal |-> cs[Len(cs)].proposalHash, prover |-> cs[1].prover,
                      endBlock |-> cs[Len(cs)].checkpoint.number, endRoot |-> cs[Len(cs)].checkpoint.root,
                      transitions |-> [i \in DOMAIN cs |-> [proposer |-> cs[i].proposer, ts |-> cs[i].ts,
                                                           block |-> cs[i].checkpoint.hash]]],
                      cs[1].chain, cs[1].verifier, instance)
    IN  IF image = None THEN public ELSE << image, public >>

\* The contract takes the program ids, or the instance, from the payload itself.
ContractAccepts(payload, cs) ==
    CASE backend.kind = "risc0" -> /\ words_to_bytes_le(payload.seal.image) = payload.aggregation
                                   /\ payload.seal.journal = << ContractInput(payload.block, cs, NoAddress) >>
      [] backend.kind = "sp1" -> /\ sp1_verify(payload.bytes, payload.program)
                                 /\ payload.bytes.values = << ContractInput(payload.block, cs, NoAddress) >>
      [] backend.kind = "sgx" -> /\ load_signer_identity(payload.sig.signer) = payload.instance
                                 /\ payload.sig.hash = ContractInput(None, cs, payload.instance)
      [] backend.kind = "native" -> payload.sig.hash = result.proof.input

\* An aggregate that a backend returns is one the verifier contract accepts for the
\* proposals of the batch: the programs or the instance that its payload names are
\* the ones its public input was made with, and the proposals continue each other.
\* Restarts with other guest programs, a key generated while the service signs,
\* and network answers for something else are all refused on the way.  Bytes of
\* the network that do not verify are refused when verification is configured.
AggregateVerifies ==
    Accepted /\ result.proof.proof # None
             /\ (result.fault = "bytes" => Config.verify /\ Config.remoteVerify) =>
        /\ ContractAccepts(result.proof.proof, Carries)
        /\ \A i \in 2..Len(Carries) : /\ Carries[i].parentHash = Carries[i - 1].checkpoint.hash
                                      /\ Carries[i].id = Carries[i - 1].id + 1

\* The children of an accepted aggregate were all proved by one release, the one
\* that aggregates, and by one enclave key; none is a proof that does not verify.
\* (The in-process guest and the enclave check each child; for the network the
\* guest of the network does.)
AggregateOfOneBuild ==
    Accepted /\ result.fault # "bytes" =>
        \A i \in DOMAIN result.children :
            /\ backend.kind \in {"risc0", "sp1"} =>
                  Builds[result.children[i].release].proposal = Builds[result.release].proposal
            /\ backend.kind = "sgx" => result.proof.proof.sig.signer = result.children[i].key
            /\ result.children[i].fault = "none"

\* A stored proof was made for the proposal it is stored for: its input is the
\* hash of that proposal's carry, and the guest accepted the proposal.
CarryIsProved ==
    \A p \in Proposals : proofs[p] # None =>
        LET proof == proofs[p].proof
        IN  /\ proof.carry = Inputs[p].carry
            /\ proof.input = hash_shasta_subproof_input(Inputs[p].carry)
            /\ proof.quote # None /\ backend.kind = "sp1" => proof.quote.values = << proof.input >>
            /\ Inputs[p].sound

\* A batch that is in order and that one deployment proved without a fault is never
\* refused by the same deployment: every conversion of image ids between the words
\* of the guest, the stored uuid and the payload agrees, and what the API asks of
\* the proofs that a caller brings is all that the backends need.
GoodBatchAggregates ==
    result # None /\ result.proof = Err =>
        \/ \E i \in DOMAIN result.children :
               \/ result.children[i].release # result.release
               \/ result.children[i].fault # "none"
               \/ backend.kind = "sgx" /\ result.children[i].key # key
        \/ result.fault # "none"
        \/ ~validate_external_aggregate_proofs(backend.kind, Chain(result.batch),
               [i \in DOMAIN result.children |-> result.children[i].proof])
        \/ \E i \in 2..Len(Carries) : \/ Carries[i].parentHash # Carries[i - 1].checkpoint.hash
                                      \/ Carries[i].id # Carries[i - 1].id + 1
                                      \/ Carries[i].prover # Carries[1].prover
        \/ backend.kind = "sp1" /\ Config.recursion # "compressed"
        \/ backend.kind = "risc0" /\ Config.mock
=============================================================================
