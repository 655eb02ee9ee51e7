----------------------------- MODULE MCPipeline -----------------------------
(***************************************************************************)
(* What surrounds a proof, one part at a time: the bucket's adapter, the   *)
(* preflight of a proposal and its validation, and the commands that       *)
(* build, release and exercise the guests.  The parts are separate models  *)
(* on shared variables; `area' says which one a behaviour is about, and    *)
(* the bucket stands still in the others.                                  *)
(***************************************************************************)
EXTENDS GcsProofArtifactStore, Integers, TLC

CONSTANTS key1, key2, pre1, client1, client2, bytes1, bytes2, Torn,
          Areas,  \* the parts this run is about
          BuildCasts,  \* what happens around the guest builds
          Err, Undecodable, MaxU64, AnchorGas, GasDenominator, GasMaxChange, MinGas, MaxGas,
          MaxBlocks, MaxManifestOffset, Mainnet, AnchorMaxOffset, MainnetAnchorMaxOffset,
          TimestampMaxOffset, MainnetTimestampMaxOffset, AncestorWindowLimit, MaxU48, InitialDelay, MaxDelay

VARIABLES area, world, truth, req, pc, lies, fails, delay, got, chunks, input, output, left

shared == <<world, truth, req, pc, lies, fails, delay, got, chunks, input, output, left>>

-----------------------------------------------------------------------------
\* Two clients on one proof, one client with two late requests on it, two
\* clients on one preflight, and the start-up of a bucket with two proofs and a
\* preflight.
MCCasts ==
    {[names |-> {key1}, clients |-> {client1, client2}, stock |-> {}, late |-> 1, stops |-> 1],
     [names |-> {key1}, clients |-> {client1}, stock |-> {}, late |-> 2, stops |-> 1],
     [names |-> {pre1}, clients |-> {client1, client2}, stock |-> {}, late |-> 1, stops |-> 1],
     [names |-> {}, clients |-> {}, stock |-> {key1, key2, pre1}, late |-> 0, stops |-> 2]}

Symmetry == Permutations({client1, client2}) \cup Permutations({bytes1, bytes2})

-----------------------------------------------------------------------------
\* Proposals around every edge of the derivation rules, on a scaled-down chain.
Rules == INSTANCE ShastaPreflight WITH BuiltinChains <- {}, Worlds <- {}, Requests <- {}

MCBuiltinChains == [c \in {"devnet", "mainnet"} |-> [unzen |-> 1, shasta |-> 1]]

TrueHeader(n, anchor) ==
    [number |-> n, tag |-> "true", ts |-> 2 + n, gas |-> 11, mix |-> 7, coinbase |-> "alice",
     parentHash |-> << n - 1, "true" >>, extra |-> << 1, 4 >>, anchorTx |-> "canonical",
     anchor |-> Rules!CheckpointAt("main", anchor), txs |-> << >>,
     root |-> [anchor |-> anchor, store |-> Rules!CheckpointAt("main", anchor), txs |-> << >>]]

Blob(m) == [inline |-> FALSE, blob |-> m, lengthOk |-> TRUE, countsOk |-> TRUE, kzgOk |-> TRUE]
NoBlob == [Blob(None) EXCEPT !.countsOk = FALSE]
ManifestBlock(ts, anchor, gas, txs) ==
    [ts |-> ts, coinbase |-> "bob", anchor |-> anchor, gas |-> gas, txs |-> txs]

\* One manifest per rule that accepts or rejects it.
Manifests(origin) ==
    { Undecodable, Rules!DefaultManifest,
      << ManifestBlock(6, origin, 10, << "a", "invalid", "b" >>) >>,
      << ManifestBlock(5, origin - 1, 10, << "a" >>), ManifestBlock(6, origin, 12, << >>) >>,
      << ManifestBlock(5, origin - 2, 10, << "a" >>), ManifestBlock(6, origin - 2, 10, << >>) >>,
      << ManifestBlock(5, origin - 3, 10, << >>), ManifestBlock(6, origin, 10, << >>) >>,
      << ManifestBlock(6, origin, 13, << "a" >>) >>,
      << ManifestBlock(6, origin, 10, << >>), ManifestBlock(6, origin, 10, << >>) >>,
      [i \in 1..3 |-> ManifestBlock(4 + i, origin, 10, << >>)],
      [i \in 1..4 |-> ManifestBlock(3 + i, origin, 10, << >>)] }

NormalSource == [forced |-> FALSE, hashes |-> 1, offset |-> 0]
ForcedSource == [forced |-> TRUE, hashes |-> 1, offset |-> 0]
Inclusions ==
    { << << >>, << >> >>,
      << << ForcedSource >>, << Blob(<< ManifestBlock(1, 1, 1, << "f" >>) >>) >> >>,
      << << [ForcedSource EXCEPT !.hashes = 0] >>, << NoBlob >> >> }

World(chain, anchor, origin, inclusion, manifest, offset) ==
    [chain |-> chain, parent |-> TrueHeader(1, anchor), grand |-> TrueHeader(0, anchor),
     proposal |-> [id |-> 5, ts |-> 7, origin |-> origin, originHash |-> << "main", origin >>,
                   proposer |-> "alice", basefeePctg |-> 1, parentProposalHash |-> "proposal4",
                   sources |-> Append(inclusion[1], [NormalSource EXCEPT !.offset = offset])],
     data |-> Append(inclusion[2], Blob(manifest))]

MCWorlds ==
    { World(x[1], x[2], x[3], i, m, 0) :
        x \in {<< "devnet", 1, 3 >>, << "devnet", 1, 4 >>, << "devnet", 3, 4 >>, << "mainnet", 1, 4 >>},
        i \in Inclusions, m \in Manifests(4) }
    \cup { World("devnet", 2, 4, << << >>, << >> >>, m, 9) : m \in Manifests(4) }

Right == [extra |-> 0, anchor |-> 0, checkpoint |-> "none", prover |-> "carol",
          proofType |-> "sp1", blobHint |-> "equivalence", payloads |-> << >>, verify |-> FALSE,
          maxLies |-> 1, maxFails |-> 0, faithful |-> TRUE]
MCRequests ==
    { Right, [Right EXCEPT !.checkpoint = "true", !.proofType = "native", !.verify = TRUE,
                         !.maxLies = 0, !.maxFails = 1] }
    \cup { [r EXCEPT !.faithful = FALSE, !.maxLies = 0] :
             r \in { [Right EXCEPT !.extra = 1], [Right EXCEPT !.extra = -1], [Right EXCEPT !.anchor = 1],
                     [Right EXCEPT !.anchor = None], [Right EXCEPT !.checkpoint = "wrong"],
                     [Right EXCEPT !.payloads = << << ManifestBlock(6, 4, 10, << "a", "b" >>) >> >>] } }

Preflight == INSTANCE ShastaPreflight WITH
    BuiltinChains <- MCBuiltinChains, Worlds <- MCWorlds, Requests <- MCRequests

-----------------------------------------------------------------------------
\* The guest builds, releases and registrations.
Build == INSTANCE GuestRelease WITH Casts <- {},
    cast <- req, tree <- truth, head <- got, toolchain <- lies, target <- chunks, proc <- pc,
    cache <- input, registry <- output, chain <- fails, last <- delay, doubtful <- world

Cmd(op, which) ==
    [op |-> op, which |-> which, force |-> FALSE, bench |-> FALSE, image |-> "default",
     tag |-> None, skip |-> FALSE, refresh |-> "none", dest |-> "v1", apply |-> FALSE,
     chain |-> Build!ExpectChain]

Forced(cmd) == [cmd EXCEPT !.force = TRUE]
OnHost(cmd) == [cmd EXCEPT !.image = "none"]
Apply(cmd) == [cmd EXCEPT !.apply = TRUE]

Quiet == [backends |-> {"risc0"}, first |-> {}, commands |-> {}, assets |-> <<>>,
          edited |-> {}, commits |-> FALSE, live |-> FALSE, risczero |-> "docker",
          left |-> [edits |-> 0, commands |-> 0, crashes |-> 0]]

\* SP1 builds, checks and a bench build around edits, failures and a kill.
BuildSp1 == [Quiet EXCEPT !.backends = {"sp1"}, !.first = {Cmd("build", "sp1")},
    !.commands = {Cmd("build", "sp1"), Cmd("check", "sp1"),
                  [Cmd("bench", "sp1") EXCEPT !.bench = TRUE]},
    !.edited = {"deep", "host"}, !.left = [edits |-> 1, commands |-> 3, crashes |-> 1]]

\* RISC0 builds with an old cargo-risczero, and a forced one.
BuildRisc0 == [Quiet EXCEPT !.risczero = "legacy", !.first = {OnHost(Cmd("build", "risc0"))},
    !.commands = {OnHost(Cmd("build", "risc0")), OnHost(Cmd("check", "risc0")),
                  Forced(OnHost(Cmd("build", "risc0")))},
    !.edited = {"deep"}, !.commits = TRUE,
    !.left = [edits |-> 2, commands |-> 2, crashes |-> 1]]

\* Both backends, and assets of another release downloaded over them.
Downloads == [Quiet EXCEPT !.backends = Build!Backends, !.first = {Cmd("build", "all")},
    !.commands = {Cmd("download", "all"), Cmd("check", "all"), Cmd("build", "all")},
    !.assets = [k \in {x \in Build!Artifacts : x[2] /= "aggregation"} |->
                  [src |-> [p \in Build!Compiled(FALSE) |-> 7],
                   tool |-> [label |-> "pinned", docker |-> 0]]],
    !.left = [edits |-> 0, commands |-> 2, crashes |-> 1]]

\* Image releases with a refresh, without one, forced, and with flags that clash.
Releases == [Quiet EXCEPT !.first = {Cmd("build", "risc0")},
    !.commands = {Cmd("release", "risc0"), Forced(Cmd("release", "risc0")),
                  [Cmd("release", "host") EXCEPT !.dest = "v2"],
                  [Forced(Cmd("release", "risc0")) EXCEPT !.skip = TRUE]},
    !.edited = {"common"}, !.commits = TRUE,
    !.left = [edits |-> 1, commands |-> 2, crashes |-> 1]]

\* Registrations retried after timeouts, over builds in between.
Registers == [Quiet EXCEPT !.backends = {"sp1"}, !.first = {Cmd("build", "sp1")},
    !.commands = {Apply(Cmd("register", "sp1")), Cmd("register", "sp1"),
                  [Apply(Cmd("register", "sp1")) EXCEPT !.chain = 2], Cmd("digests", "sp1")},
    !.left = [edits |-> 0, commands |-> 2, crashes |-> 0]]

\* RISC0 builds in the toolchain image and with cargo-risczero over one target
\* directory, around edits.
Mixed == [Quiet EXCEPT !.first = {Cmd("build", "risc0")},
    !.commands = {Cmd("build", "risc0"), OnHost(Cmd("build", "risc0")),
                  Cmd("check", "risc0"), OnHost(Cmd("check", "risc0"))},
    !.edited = {"deep"}, !.left = [edits |-> 1, commands |-> 3, crashes |-> 0]]

\* Edits of a source and of a Dockerfile while the commands run.
Edited == [Quiet EXCEPT !.first = {Cmd("build", "risc0")},
    !.commands = {Cmd("build", "risc0"), Cmd("check", "risc0"), Cmd("release", "risc0")},
    !.edited = {"deep", "docker"}, !.commits = TRUE, !.live = TRUE,
    !.left = [edits |-> 2, commands |-> 2, crashes |-> 0]]

AllBuilds == {BuildSp1, BuildRisc0, Downloads, Releases, Registers, Mixed, Edited}
MixedBuilds == {Mixed}

Release == INSTANCE GuestRelease WITH Casts <- BuildCasts,
    cast <- req, tree <- truth, head <- got, toolchain <- lies, target <- chunks, proc <- pc,
    cache <- input, registry <- output, chain <- fails, last <- delay, doubtful <- world

-----------------------------------------------------------------------------
\* The commands of the fixture, bench and launcher tools.
Pre == [op |-> "preflight", network |-> "hoodi", chain |-> None, l1_chain |-> None, rpc |-> FALSE,
        id |-> 1, start |-> 1, end |-> 1, proof |-> "native", out |-> None, save |-> TRUE,
        overwrite |-> FALSE]
PreCmds == {Pre, [Pre EXCEPT !.overwrite = TRUE], [Pre EXCEPT !.id = 2, !.proof = "sp1"],
            [Pre EXCEPT !.network = "main", !.rpc = TRUE, !.out = <<"out", "any", 0>>],
            [Pre EXCEPT !.network = None, !.chain = 2, !.out = <<"out", "any", 0>>],
            [Pre EXCEPT !.chain = 3], [Pre EXCEPT !.save = FALSE], [Pre EXCEPT !.start = 2]}
Rep == [op |-> "replay", network |-> "hoodi", proposal |-> None, suite |-> None, all |-> TRUE,
        fail_fast |-> TRUE]
RepCmds == {Rep, [Rep EXCEPT !.all = FALSE, !.proposal = 2],
            [Rep EXCEPT !.all = FALSE, !.fail_fast = FALSE,
                        !.suite = [network |-> "hoodi", ids |-> <<2, 1>>]]}
Ben == [op |-> "bench", repeat |-> 2, warmup |-> 1, backend |-> "sp1", suite |-> None,
        input |-> None, output |-> None, network |-> "hoodi", chain |-> None, rpc |-> FALSE,
        id |-> 1, start |-> 1, end |-> 1, proof_type |-> "sp1", mode |-> "execute",
        proof_mode |-> "compressed", skip |-> FALSE, force |-> FALSE]
BenCmds == {Ben, [Ben EXCEPT !.id = 2, !.mode = "prove"], [Ben EXCEPT !.force = TRUE],
            [Ben EXCEPT !.network = None, !.chain = 2, !.skip = TRUE],
            [Ben EXCEPT !.proof_mode = "core", !.mode = "prove"],
            [Ben EXCEPT !.input = <<"out", "any", 0>>], [Ben EXCEPT !.output = <<"out", "any", 0>>],
            [Ben EXCEPT !.network = None, !.id = None, !.suite = <<<<"out", "any", 0>>, <<"bench", "hoodi", 1>>>>],
            [Ben EXCEPT !.repeat = 0]}
Lau == [op |-> "launch", stage |-> "proposal", proof_type |-> "sp1", mode |-> "execute",
        proof_mode |-> None, input |-> <<"fixture", "hoodi", 1>>, aggregate |-> <<>>, elf |-> FALSE,
        list |-> None, jsonl |-> FALSE, output |-> FALSE, prover |-> None]
LauCmds == {Lau, [Lau EXCEPT !.mode = "prove", !.output = TRUE], [Lau EXCEPT !.prover = "network"],
            [Lau EXCEPT !.proof_type = "native", !.mode = "prove", !.output = TRUE],
            [Lau EXCEPT !.proof_type = "risc0", !.elf = TRUE],
            [Lau EXCEPT !.stage = "opcode-lab", !.elf = TRUE],
            [Lau EXCEPT !.stage = "opcode-lab", !.elf = TRUE, !.jsonl = TRUE, !.list = <<<<"out", "any", 0>>>>],
            [Lau EXCEPT !.stage = "precompile-lab", !.elf = TRUE],
            [Lau EXCEPT !.stage = "precompile-lab", !.elf = TRUE, !.jsonl = TRUE, !.list = <<>>],
            [Lau EXCEPT !.aggregate = <<<<"out", "any", 0>>>>, !.mode = "prove", !.output = TRUE]}
Chk == [op |-> "check", chain |-> None, diagnose |-> FALSE, supplement |-> FALSE, number |-> 1]
ChkCmds == {Chk, [Chk EXCEPT !.supplement = TRUE, !.chain = 2], [Chk EXCEPT !.diagnose = TRUE, !.number = 0]}

BenchCasts == {
    [name |-> "fixtures", cmds |-> PreCmds \cup RepCmds, left |-> [commands |-> 4, kills |-> 1]],
    [name |-> "bench", cmds |-> BenCmds, left |-> [commands |-> 3, kills |-> 1]],
    [name |-> "launch", cmds |-> LauCmds \cup {Pre, Ben} \cup ChkCmds, left |-> [commands |-> 3, kills |-> 0]]}

Bench == INSTANCE GuestBench WITH Casts <- BenchCasts,
    cast <- req, files <- truth, elf <- chunks, proc <- pc, last <- delay

-----------------------------------------------------------------------------
Tee == INSTANCE TeeRelease WITH
    Tags <- {"r1"}, External <- "gaiko", MaxMoves <- 4,
    source <- truth, lock <- input, published <- output, manifest <- got, run <- pc,
    moves <- left

Latest == INSTANCE LatestProposal WITH
    PageSizes <- {0, 1, 2}, Lookbacks <- {1, 3}, MaxL1 <- 3, MaxL2 <- 3, NotSet <- None,
    l1 <- fails, l2 <- got, args <- req, scan <- pc

-----------------------------------------------------------------------------
Unused(variable) == variable = None

\* The bucket of a behaviour about another part: nobody works on it.
StandStill == Init /\ cast = CHOOSE c \in Casts : c.stock = {}

RunInit ==
    /\ area \in Areas
    /\ \/ /\ area = "store" /\ Init
          /\ Unused(world) /\ Unused(truth) /\ Unused(req) /\ Unused(pc) /\ Unused(lies)
          /\ Unused(fails) /\ Unused(delay) /\ Unused(got) /\ Unused(chunks) /\ Unused(input)
          /\ Unused(output) /\ Unused(left)
       \/ area = "preflight" /\ StandStill /\ Preflight!Init /\ Unused(left)
       \/ area = "release" /\ StandStill /\ Release!Init
       \/ /\ area = "tee" /\ StandStill /\ Tee!Init
          /\ Unused(world) /\ Unused(req) /\ Unused(lies) /\ Unused(chunks) /\ Unused(fails)
          /\ Unused(delay)
       \/ /\ area = "latest" /\ StandStill /\ Latest!Init
          /\ Unused(world) /\ Unused(truth) /\ Unused(lies) /\ Unused(chunks) /\ Unused(input)
          /\ Unused(output) /\ Unused(delay) /\ Unused(left)
       \/ /\ area = "bench" /\ StandStill /\ Bench!Init
          /\ Unused(world) /\ Unused(got) /\ Unused(lies) /\ Unused(input) /\ Unused(output)
          /\ Unused(fails)

RunNext ==
    \/ area = "store" /\ Next /\ UNCHANGED <<area, shared>>
    \/ area = "preflight" /\ Preflight!Next /\ UNCHANGED <<vars, area, left>>
    \/ area = "release" /\ Release!Next /\ UNCHANGED <<vars, area>>
    \/ /\ area = "tee" /\ Tee!Next
       /\ UNCHANGED <<vars, area, world, req, lies, chunks, fails, delay>>
    \/ /\ area = "latest" /\ Latest!Next
       /\ UNCHANGED <<vars, area, world, truth, lies, chunks, input, output, delay, left>>
    \/ /\ area = "bench" /\ Bench!Next
       /\ UNCHANGED <<vars, area, world, got, lies, input, output, fails>>

RunSpec == RunInit /\ [][RunNext]_<<vars, area, shared>>

-----------------------------------------------------------------------------
\* A proof that names the real proposal and parent ends in the real block,
\* whatever the RPC answered (prove_shasta_proposal).
AcceptedIsTrue == area = "preflight" => Preflight!AcceptedIsTrue

\* A request that is right about its proposal passes the preflight when every
\* answer is true in the end.
HonestSucceeds == area = "preflight" => Preflight!HonestSucceeds

\* What the tools report is so.
\*   `build-guest --check' calls a backend current only when its programs and keys
\*   come from the worktree's sources and Dockerfile (check_backend_with_source)
\*   or were recorded by a build that itself did not see these inputs, see
\*   CheckedIsFresh; a published image that was not edited under way holds exactly
\*   its label's revision, guests included (release_image.rs); a registration that reports success left its whole plan trusted on chain
\*   (apply_one in register_image.rs).
\*   The two SGX variants under a release tag fit together and the manifest names
\*   what was pushed (build_local_provider_entries).
\*   A request for the latest proposal holds all its L2 blocks up to the head
\*   (fetch_l2_proposal_range).
\*   A bench measured the runs, mode and proposal it was asked for (prepare_input,
\*   run_bench_case), and every whole fixture is what it is filed as and passes a
\*   replay (write_guest_input_json, replay_proposal).
ToolsAreSound ==
    /\ area = "release" => /\ Release!CurrentIsFresh /\ Release!PublishedIsCommitted
                           /\ Release!AppliedIsTrusted
    /\ area = "tee" => Tee!VariantsPair
    /\ area = "latest" => Latest!RangeIsWhole
    /\ area = "bench" => Bench!MeasuredIsAsked /\ Bench!SavedReplays

\* Whenever `build-guest --check' calls a backend current, its programs were
\* compiled from the worktree's sources (check_backend, export_risc0_elves).
CheckedIsFresh == area = "release" => Release!CheckedIsFresh
=============================================================================
