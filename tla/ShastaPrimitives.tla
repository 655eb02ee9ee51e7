-------------------------- MODULE ShastaPrimitives --------------------------
(***************************************************************************)
(* The public inputs of Shasta proofs: the hash that a proposal proof      *)
(* commits to, the commitment of a range of proposals, and the inputs of   *)
(* an aggregation.  Host, guest programs and SGX service share them.       *)
(*                                                                         *)
(* keccak256 is injective, so the hash of some values is their tuple.  A   *)
(* program image is a sequence of words and a word is a number below       *)
(* ByteBase^2: two bytes stand for the four of a u32, which is enough to   *)
(* tell the byte orders apart.                                             *)
(***************************************************************************)
EXTENDS Integers, Sequences

CONSTANTS
    None, Err,           \* the absent option, the error result
    MaxU48               \* SHASTA_UINT48_MAX

NoAddress == "zero"
ByteBase == 16
fits_shasta_uint48(v) == v <= MaxU48

(***************************************************************************)
(* Image ids                                                               *)
(***************************************************************************)
\* The i-th byte of the words, written low byte first or high byte first.
LowByte(w) == w % ByteBase
HighByte(w) == w \div ByteBase
words_to_bytes_le(words) ==
    [i \in 1..2 * Len(words) |-> LET w == words[(i + 1) \div 2]
                                 IN  IF i % 2 = 1 THEN LowByte(w) ELSE HighByte(w)]
words_to_bytes_be(words) ==
    [i \in 1..2 * Len(words) |-> LET w == words[(i + 1) \div 2]
                                 IN  IF i % 2 = 1 THEN HighByte(w) ELSE LowByte(w)]

words_from_bytes_le(bytes) ==
    [i \in 1..Len(bytes) \div 2 |-> bytes[2 * i - 1] + ByteBase * bytes[2 * i]]

sp1_contract_block_program_id(words) == words_to_bytes_be(words)

(***************************************************************************)
(* Carry data and commitments                                              *)
(***************************************************************************)
hash_shasta_transition_input(c) ==
    << c.id, c.proposalHash, c.parentProposalHash, c.parentHash, c.prover, c.proposer, c.ts,
       c.checkpoint >>
hash_shasta_subproof_input(c) ==
    << "subproof", c.chain, c.verifier, hash_shasta_transition_input(c) >>

validate_shasta_proof_carry_data_vec(cs) ==
    /\ cs # << >>
    /\ \A i \in DOMAIN cs : /\ fits_shasta_uint48(cs[i].id)
                            /\ fits_shasta_uint48(cs[i].ts)
                            /\ fits_shasta_uint48(cs[i].checkpoint.number)
                            /\ cs[i].prover = cs[1].prover
    /\ \A i \in 2..Len(cs) : /\ cs[i].id = cs[i - 1].id + 1
                             /\ cs[i].parentProposalHash = cs[i - 1].proposalHash
                             /\ cs[i].chain = cs[i - 1].chain
                             /\ cs[i].verifier = cs[i - 1].verifier
                             /\ cs[i].parentHash = cs[i - 1].checkpoint.hash

build_shasta_commitment_from_proof_carry_data_vec(cs) ==
    IF ~validate_shasta_proof_carry_data_vec(cs) THEN Err
    ELSE [firstId |-> cs[1].id, firstParent |-> cs[1].parentHash,
          lastProposal |-> cs[Len(cs)].proposalHash, prover |-> cs[1].prover,
          endBlock |-> cs[Len(cs)].checkpoint.number, endRoot |-> cs[Len(cs)].checkpoint.root,
          transitions |-> [i \in DOMAIN cs |-> [proposer |-> cs[i].proposer, ts |-> cs[i].ts,
                                               block |-> cs[i].checkpoint.hash]]]

hash_commitment(c) ==
    << c.firstId, c.firstParent, c.lastProposal, c.prover, c.endBlock, c.endRoot, c.transitions >>
shasta_aggregation_output(commitment, chain, verifier, instance) ==
    << "public", hash_commitment(commitment), chain, verifier, instance >>
shasta_zk_aggregation_output(image, hash) == << image, hash >>

(***************************************************************************)
(* Aggregation                                                             *)
(***************************************************************************)
\* The public input of an aggregation, or Err.  "inputs" are the inputs that the
\* child proofs commit to, "verified" says whether the proof of each child
\* verifies for its input, and every input must be the hash of its carry.
aggregate_shasta_zk_with_verifier(image, inputs, cs, prover, verified) ==
    LET commitment == build_shasta_commitment_from_proof_carry_data_vec(cs)
    IN  IF /\ Len(inputs) = Len(cs)
           /\ cs # << >>
           /\ prover = NoAddress
           /\ commitment # Err
           /\ \A i \in DOMAIN cs : verified[i] /\ inputs[i] = hash_shasta_subproof_input(cs[i])
        THEN shasta_zk_aggregation_output(image,
                 shasta_aggregation_output(commitment, cs[1].chain, cs[1].verifier, prover))
        ELSE Err
=============================================================================
