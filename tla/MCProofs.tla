------------------------------ MODULE MCProofs ------------------------------
(***************************************************************************)
(* What is proved, one part at a time: the block witness and its replay in *)
(* the guest, the answers of the chain's nodes it is made from, the        *)
(* guest's trie accounting, and the provers.  The parts are separate       *)
(* models on shared variables; `area' says which one a behaviour is about. *)
(***************************************************************************)
EXTENDS WitnessReplay

CONSTANTS None, Err, MaxU48,
          Areas   \* the parts this run is about

VARIABLES area, cast

-----------------------------------------------------------------------------
\* Blocks that read, write and delete slots and accounts.
MCKeys == {<<0, 0, 0>>, <<0, 0, 1>>, <<0, 1, 0>>, <<1, 0, 0>>, <<1, 0, 1>>, <<1, 1, 0>>}
FourSlots == {<<0, 0, 0>>, <<0, 0, 1>>, <<0, 1, 0>>, <<1, 0, 0>>}
FiveSlots == FourSlots \cup {<<1, 1, 0>>}
A == <<0, 0, 1>>
B == <<0, 1, 0>>
C == <<1, 0, 0>>
D == <<1, 0, 1>>
E == <<0, 0, 0>>

MCAncestors ==
  LET h0 == [number |-> 0, parent |-> Nothing, root |-> <<>>, ts |-> 0, beacon |-> "zero", txs |-> <<>>]
      h1 == Child(h0, <<>>, 1, "zero", <<>>)
  IN  <<h0, h1>>

Acct(slots) == [nonce |-> 1, code |-> "code", root |-> slots]
Plain == [nonce |-> 1, code |-> NoCode, root |-> <<>>]
Tx(ops, list) == [ops |-> ops, list |-> list, signed |-> TRUE, valid |-> TRUE, reverts |-> FALSE]
Op(op, a, s) == [op |-> op, a |-> a, s |-> s, d |-> s, h |-> Nothing, v |-> 0, n |-> 0]
Load(a) == <<Op("load", a, <<>>)>>
Read(s) == Load(A) \o <<Op("sload", A, s)>>
Set(s, v) == Read(s) \o <<[Op("sstore", A, s) EXCEPT !.v = v]>>
Do(op, a) == Load(a) \o <<Op(op, a, <<>>)>>

Scene(pre, txs, faulty, tampered) == [pre |-> pre, txs |-> txs, faulty |-> faulty, tampered |-> tampered]

\* Every content of a storage trie, with every set of at most n slots read,
\* cleared or written.
Touches(keys, n) == UNION {[S -> {"read", "clear", "set"}] : S \in {T \in SUBSET keys : Cardinality(T) <= n}}
OpsOf(t) == LET q == Sorted(DOMAIN t)
            IN  FlattenSeq([i \in DOMAIN q |-> IF t[q[i]] = "read" THEN Read(q[i])
                                              ELSE Set(q[i], IF t[q[i]] = "clear" THEN 0 ELSE 2)])
StorageScenes(keys, n) ==
  {Scene((A :> Acct([s \in S |-> Value(1)])), <<Tx(OpsOf(t), <<>>)>>, FALSE, FALSE) :
     S \in SUBSET keys, t \in Touches(keys, n)}

\* Every set of accounts, one or two of them paid, created or deleted.
AccountScenes ==
  {Scene([a \in S |-> Plain], <<Tx(Do(x[1], x[2]) \o Do(x[3], x[4]), <<>>)>>, FALSE, FALSE) :
     S \in SUBSET {A, B, C, D, E},
     x \in {"pay", "destroy"} \X {A, B} \X {"pay", "destroy"} \X {B, C}}

\* Reads through access lists, BLOCKHASH, code and copied slots, under every
\* fault of the node and of the material.
Busy ==
  LET pre == (A :> Acct([s \in {<<0, 0, 0>>, <<0, 0, 1>>, <<1, 0, 0>>} |-> Value(1)])) @@ (B :> Plain)
      copy == Read(<<0, 0, 0>>) \o Read(<<1, 0, 0>>) \o <<[Op("copy", A, <<0, 0, 0>>) EXCEPT !.d = <<1, 0, 0>>]>>
      \* Writes one slot if block n has the expected hash, another one if not.
      pick(op, n) == [Op(op, A, <<0, 1, 0>>) EXCEPT !.d = <<1, 1, 0>>, !.h = MCAncestors[n + 1], !.v = 7, !.n = n]
      hash(n) == Load(A) \o <<pick("hash", n), pick("sload", n), pick("sstore", n)>>
      anchor == Tx(Do("pay", B) \o Do("code", A) \o hash(0), <<>>)
      listed == Tx(Set(<<0, 0, 1>>, 0) \o copy,
                   <<[a |-> A, keys |-> {<<0, 0, 0>>, <<0, 0, 1>>, <<1, 1, 0>>}], [a |-> A, keys |-> {<<0, 1, 0>>}]>>)
      near == Tx(Set(<<1, 0, 0>>, 0) \o hash(1), <<>>)
      bad(t) == {[t EXCEPT !.signed = FALSE], [t EXCEPT !.valid = FALSE]}
  IN  {Scene(pre, <<anchor, t>>, TRUE, FALSE) : t \in {listed, near}}
        \cup {Scene(pre, <<anchor, t>>, FALSE, TRUE) : t \in {listed, near} \cup bad(near)}
        \cup {Scene(pre, <<[anchor EXCEPT !.reverts = TRUE], near>>, FALSE, TRUE),
               Scene(pre, <<Tx(<<>>, <<>>)>>, FALSE, TRUE)}

MCScenes == StorageScenes(FourSlots, 3) \cup StorageScenes(FiveSlots, 2) \cup AccountScenes \cup Busy
MCNodeFaults == {"none", "lagging", "storageAt", "code", "reorg", "range"}
MCTampers == {"none", "pooled", "dropped", "foreign", "bounds", "claimed", "compact", "gap", "short",
              "stranger", "swapped", "empty", "root", "beacon", "early"}

-----------------------------------------------------------------------------
\* The tries whose hashing is accounted.
TrieKeys == {<<0, 0, 0>>, <<0, 0, 1>>, <<0, 1, 0>>, <<1, 0, 0>>}
TrieContents == {[k \in S |-> [slot |-> 1]] : S \in SUBSET TrieKeys}

Mpt == INSTANCE MptMetrics WITH
    Keys <- TrieKeys, Contents <- TrieContents, Values <- {1, 2}, MaxOps <- 4,
    trie <- db, shown <- acct, cached <- witness, kept <- tries, work <- seen, ops <- todo

-----------------------------------------------------------------------------
\* Three releases, two of them with the same proposal program; proposals 1 and 2
\* that continue each other, 3 that is 2 on another parent, and 4, which the guest
\* rejects.
TheCarry(id, parent, end) ==
    [id |-> id, ts |-> id, checkpoint |-> [number |-> id, hash |-> end, root |-> end],
     prover |-> "prover", parentProposalHash |-> << "proposal", id - 1 >>,
     proposalHash |-> << "proposal", id >>, chain |-> 7, verifier |-> "verifier",
     parentHash |-> parent, proposer |-> "proposer"]
Input(carry, sound) == [carry |-> carry, witnesses |-> 1, chain |-> 7, sound |-> sound]

MCInputs == << Input(TheCarry(1, "h0", "h1"), TRUE), Input(TheCarry(2, "h1", "h2"), TRUE),
               Input(TheCarry(2, "x1", "x2"), TRUE), Input(TheCarry(3, "h2", "h3"), FALSE) >>
MCBuilds == << [proposal |-> << 18, 52 >>, aggregation |-> << 86, 120 >>],
               [proposal |-> << 154, 188 >>, aggregation |-> << 86, 120 >>],
               [proposal |-> << 154, 188 >>, aggregation |-> << 222, 19 >>] >>
MCBatches == { << 1 >>, << 1, 2 >>, << 2, 1 >>, << 1, 3 >>, << 1, 1 >> }

Native(endianness) == [kind |-> "native", config |-> [endianness |-> endianness]]
Risc0(mock, verify, allowFake) ==
    [kind |-> "risc0", config |-> [mock |-> mock, verify |-> verify, allowFake |-> allowFake]]
Sp1(mode, prover, recursion, verify, remote) ==
    [kind |-> "sp1", config |-> [mode |-> mode, prover |-> prover, recursion |-> recursion,
                                 aggRecursion |-> "groth16", verify |-> verify, remoteVerify |-> remote]]
MCBackends ==
    { Native("be"), Native("le"), Risc0(FALSE, TRUE, FALSE), Risc0(FALSE, FALSE, FALSE),
      Risc0(TRUE, TRUE, TRUE), Sp1("execute", "local", "compressed", TRUE, FALSE),
      Sp1("prove", "local", "compressed", TRUE, FALSE), Sp1("prove", "local", "plonk", TRUE, FALSE),
      Sp1("prove", "network", "compressed", TRUE, TRUE), Sp1("prove", "network", "compressed", FALSE, FALSE),
      Sp1("prove", "network", "groth16", TRUE, TRUE), [kind |-> "sgx", config |-> [id |-> 0]] }

Provers == INSTANCE Proving WITH
    Inputs <- MCInputs, Builds <- MCBuilds, Backends <- MCBackends,
    Batches <- MCBatches, MaxKeys <- 3, backend <- scene, release <- phase, key <- acct,
    attested <- tries, proofs <- db, call <- todo, result <- seen

-----------------------------------------------------------------------------
\* Two calls at a time to the nodes, over the same permits.
AllBlocks == 0..3
Knows == [b \in AllBlocks |-> IF b = 2 THEN {"golden"} ELSE {"treasury"}]
TheNode(lacks) == [preimages |-> Knows, lacks |-> lacks]

\* A call; the fields its operation does not read are empty.
Ask(op, kind, blocks) ==
  [op |-> op, kind |-> kind, taiko |-> TRUE, blocks |-> blocks, who |-> <<>>, lists |-> 0, sources |-> <<>>,
   logs |-> <<>>, proposal |-> "p1", node |-> TheNode(FALSE)]
Witnesses(kind, lacks) == [Ask("witnesses", kind, <<1, 2, 3>>) EXCEPT !.node = TheNode(lacks)]
TxLists(kind, n) == [Ask("txLists", kind, <<1, 2>>) EXCEPT !.lists = n]
Of(op, blocks, who) == [Ask(op, "Reth", blocks) EXCEPT !.who = who]
Event(b, logs) == [Ask("event", "Reth", <<b>>) EXCEPT !.logs = logs]
Sources(ss) == [Ask("blobs", "Reth", <<>>) EXCEPT !.sources = ss]
Src(ts, hashes) == [ts |-> ts, hashes |-> hashes]

CallPairs ==
  { <<Witnesses("Reth", TRUE), Ask("l1Header", "Reth", <<1, 2, 3>>)>>,
    <<Witnesses("Geth", FALSE), Of("slots", <<2, 3>>, <<<<"a", "b">>, <<>>>>)>>,
    <<Witnesses("GethLocalWitness", FALSE), TxLists("Reth", 2)>>,
    <<[Witnesses("GethLocalWitness", FALSE) EXCEPT !.taiko = FALSE], [Witnesses("Geth", FALSE) EXCEPT !.taiko = FALSE]>>,
    <<TxLists("Reth", 1), TxLists("Geth", 2)>>,
    <<Ask("block", "Reth", <<1, 2, 3>>), Of("proofs", <<1, 2>>, <<<<"b", "a", "b">>, <<"a">>>>)>>,
    <<Ask("header", "Reth", <<1, 2, 3>>), Of("proofs", <<0, 2>>, <<<<"b">>, <<"a">>>>)>>,
    <<Of("slots", <<0>>, <<<<"a">>>>), Of("proofs", <<1, 2>>, <<<<"b">>>>)>>,
    <<Event(2, <<"p0", "p1">>), Event(2, <<"garbled", "p1">>)>>,
    <<Event(0, <<>>), Event(2, <<"p0">>)>>,
    <<Sources(<<Src(5, <<"h2", "h1", "h2">>), Src(5, <<"h1">>), Src(9, <<"h2">>)>>), Sources(<<Src(0, <<"h1">>)>>)>>,
    <<Sources(<<Src(5, <<>>)>>), [Ask("witnesses", "Reth", <<0, 1>>) EXCEPT !.node = TheNode(FALSE)]>> }

ProviderCasts == {[c \in {"c1", "c2"} |-> IF c = "c1" THEN p[1] ELSE p[2]] : p \in CallPairs}

Provider == INSTANCE ChainProvider WITH
    Calls <- {"c1", "c2"}, Casts <- ProviderCasts, concurrency_limit <- 1, max_attempts <- 1,
    batch_size <- 2, genesis_time <- 2, seconds_per_slot <- 3, Blobs <- {"h1", "h2"},
    call <- db, pkt <- witness, permits <- todo

-----------------------------------------------------------------------------
Unused(variable) == variable = None

RunInit ==
    /\ area \in Areas
    /\ \/ area = "witness" /\ Init /\ Unused(cast)
       \/ /\ area = "mpt" /\ Mpt!Init
          /\ Unused(scene) /\ Unused(phase) /\ Unused(node) /\ Unused(cast)
       \/ /\ area = "proving" /\ Provers!Init
          /\ Unused(node) /\ Unused(witness) /\ Unused(cast)
       \/ /\ area = "provider" /\ Provider!Init
          /\ Unused(scene) /\ Unused(phase) /\ Unused(node) /\ Unused(acct) /\ Unused(tries)
          /\ Unused(seen)

RunNext ==
    \/ area = "witness" /\ Next /\ UNCHANGED <<area, cast>>
    \/ area = "mpt" /\ Mpt!Next /\ UNCHANGED <<area, scene, phase, node, cast>>
    \/ area = "proving" /\ Provers!Next /\ UNCHANGED <<area, node, witness, cast>>
    \/ /\ area = "provider" /\ Provider!Next
       /\ UNCHANGED <<area, scene, phase, node, acct, tries, seen>>

RunSpec == RunInit /\ [][RunNext]_<<vars, area, cast>>

-----------------------------------------------------------------------------
\* A block the guest accepts has the state its transactions really lead to,
\* whatever was wrong with the node's answers or the material (validate_block).
ReplayIsTrue == area = "witness" => ReplayedIsTrue

\* The witness an honest node's answers make is enough for the guest, and a batch
\* of good proofs of one build aggregates.
HonestWorkPasses ==
    /\ area = "witness" => WitnessSuffices
    /\ area = "proving" => Provers!GoodBatchAggregates

\* An aggregate that is accepted verifies on L1 for exactly the proposals of its
\* batch, which its own build proved, with the carries their guests accepted.
AggregatesAreTrue ==
    area = "proving" => /\ Provers!AggregateVerifies
                        /\ Provers!AggregateOfOneBuild
                        /\ Provers!CarryIsProved

\* Every node the guest's trie encodes is charged (hash_observation).
HashWorkIsCharged == area = "mpt" => Mpt!HashWorkCharged

\* The i-th answer of a batched call is made of the answers to the i-th request
\* (the provider's batches, witness and blob calls).
AnswersLineUp == area = "provider" => Provider!ResultsLineUp
=============================================================================
