----------------------------- MODULE GuestBench -----------------------------
(***************************************************************************)
(* The tools that make, keep and run guest inputs: `preflight' writes one  *)
(* to a file and, as a native fixture, to the fixture tree; `bench-guest'  *)
(* prepares inputs, reusing a file that exists, and runs `guest-launcher'  *)
(* on them; `replay-guest-input' validates fixtures again; `witness-check' *)
(* validates a block from its witness.  Commands run one after the other   *)
(* on the same files and may be killed while one is written.               *)
(*                                                                         *)
(* A guest input is [network, id, carry]: its proposal, and the proof type *)
(* its carry data was built for.                                           *)
(***************************************************************************)
EXTENDS Integers, Sequences, FiniteSets, TLC

CONSTANTS Casts, None, Torn

VARIABLES cast,    \* the commands of the scenario
          files,   \* path -> None, Torn or a guest input
          elf,     \* the SP1 proposal program: none, plain or bench
          proc,    \* the running command
          last,    \* the last command that ended
          left     \* commands and crashes still allowed

vars == <<cast, files, elf, proc, last, left>>

\* The chain specs: `main' names no RPC endpoint, `l1' is the default L1.
Networks == [hoodi |-> [chain |-> 2, rpc |-> TRUE, taiko |-> TRUE],
             main |-> [chain |-> 3, rpc |-> FALSE, taiko |-> TRUE],
             l1 |-> [chain |-> 1, rpc |-> TRUE, taiko |-> FALSE]]
ProposalIds == <<1, 2>>
Fixture(network, id) == <<"fixture", network, id>>
Elsewhere == <<"out", "any", 0>>
Paths == ({"fixture", "bench"} \X {"hoodi", "main", "l1", "by chain id"} \X {1, 2}) \cup {Elsewhere}

Intact(p) == files[p] \notin {None, Torn}
At(step) == proc /= None /\ proc.at = step
End(ok, out) == proc' = None /\ last' = [cmd |-> proc.cmd, ok |-> ok, out |-> out]
Fail == End(FALSE, <<>>)

-----------------------------------------------------------------------------
(* preflight *)

\* A network names its chain, and a chain id that is given too must agree.
resolve_chain_spec(network, chain, default) ==
    IF network /= None
    THEN IF network \in DOMAIN Networks /\ chain \in {None, Networks[network].chain}
         THEN network ELSE None
    ELSE LET id == IF chain = None THEN default ELSE chain
             known == {n \in DOMAIN Networks : Networks[n].chain = id}
         IN  IF known = {} THEN None ELSE CHOOSE n \in known : TRUE

resolve_rpc_url(explicit, network) == explicit \/ Networks[network].rpc

resolve_preflight_config(a) ==
    LET network == resolve_chain_spec(a.network, a.chain, None)
        l1 == resolve_chain_spec(None, a.l1_chain, Networks.l1.chain)
    IN  IF /\ network /= None /\ l1 /= None
           /\ resolve_rpc_url(a.rpc, network) /\ resolve_rpc_url(FALSE, l1)
        THEN network ELSE None

\* What is refused before anything is fetched.
PreflightAccepts(a) ==
    /\ a.out /= None \/ a.save
    /\ resolve_preflight_config(a) /= None
    /\ a.start <= a.end
    /\ a.save => a.proof = "native"

\* Refused over an existing file unless told to overwrite.
write_guest_input_json(path, overwrite) == files[path] = None \/ overwrite

RunPreflight ==
    /\ At("preflight")
    /\ IF ~PreflightAccepts(proc.pre) THEN Fail
       ELSE \/ /\ proc' = [proc EXCEPT !.at = "write output",
                  !.input = [network |-> resolve_preflight_config(proc.pre), id |-> proc.pre.id,
                             carry |-> proc.pre.proof]]
               /\ UNCHANGED last
            \/ Fail
    /\ UNCHANGED <<cast, files, elf, left>>

WriteOutput ==
    /\ At("write output")
    /\ files' = IF proc.pre.out = None THEN files ELSE [files EXCEPT ![proc.pre.out] = proc.input]
    /\ proc' = [proc EXCEPT !.at = "write fixture"] /\ UNCHANGED last
    /\ UNCHANGED <<cast, elf, left>>

\* The fixture is filed under the network flag, which is only required here.
WriteFixture ==
    /\ At("write fixture")
    /\ IF ~proc.pre.save
       THEN /\ UNCHANGED files
            /\ IF proc.cmd.op = "bench"
               THEN proc' = [proc EXCEPT !.at = "build"] /\ UNCHANGED last
               ELSE End(TRUE, <<>>)
       ELSE IF proc.pre.network = None THEN Fail /\ UNCHANGED files
       ELSE IF ~write_guest_input_json(Fixture(proc.pre.network, proc.input.id), proc.pre.overwrite)
       THEN Fail /\ UNCHANGED files
       ELSE /\ files' = [files EXCEPT ![Fixture(proc.pre.network, proc.input.id)] = proc.input]
            /\ End(TRUE, <<>>)
    /\ UNCHANGED <<cast, elf, left>>

-----------------------------------------------------------------------------
(* guest-launcher *)

effective_proof_mode(a) ==
    IF a.proof_mode /= None THEN a.proof_mode
    ELSE IF a.aggregate = <<>> THEN "compressed" ELSE "plonk"

\* The SP1 prover a run uses: execution is local, proving goes to the network.
sp1_config(a) ==
    IF a.prover /= None THEN a.prover ELSE IF a.mode = "execute" THEN "local" ELSE "network"

validate_standard_guest_artifacts(a) ==
    (a.stage = "proposal" /\ a.proof_type = "sp1") =>
       /\ ~a.elf
       /\ a.mode = "prove" =>
             effective_proof_mode(a) = IF a.aggregate = <<>> THEN "compressed" ELSE "plonk"

\* An execution never reaches the network prover.
execute_sp1_blocking(a) == sp1_config(a) /= "network"

\* A laboratory stage takes one input, or a list of them and a report file.
read_opcode_lab_input_list(a) == a.list /= <<>>

\* Inputs are all read before the first is executed, in the list's order.
execute_opcode_lab_batch_blocking(a) == execute_sp1_blocking(a)
run_opcode_lab_batch(a) ==
    /\ a.jsonl /\ a.elf
    /\ read_opcode_lab_input_list(a)
    /\ execute_opcode_lab_batch_blocking(a)

run_opcode_lab(a) ==
    /\ a.proof_type = "sp1" /\ a.mode = "execute" /\ a.aggregate = <<>>
    /\ IF a.list /= None THEN run_opcode_lab_batch(a)
       ELSE a.input /= None /\ a.elf /\ execute_sp1_blocking(a)

execute_precompile_lab_batch_blocking(a) == execute_sp1_blocking(a)
run_precompile_lab_batch(a) ==
    /\ a.jsonl /\ a.elf
    /\ read_opcode_lab_input_list(a)
    /\ execute_precompile_lab_batch_blocking(a)

run_precompile_lab(a) ==
    /\ a.proof_type = "sp1" /\ a.mode = "execute" /\ a.aggregate = <<>>
    /\ IF a.list /= None THEN run_precompile_lab_batch(a)
       ELSE a.input /= None /\ a.elf /\ execute_sp1_blocking(a)

\* Aggregation proves, with PLONK, the proofs it could read, into a file.
read_proofs(a) == \A p \in {a.aggregate[i] : i \in 1..Len(a.aggregate)} : Intact(p)
run_aggregation(a) ==
    /\ a.proof_type = "sp1" /\ a.output
    /\ a.mode = "prove"
    /\ effective_proof_mode(a) = "plonk"
    /\ read_proofs(a)

\* Carry data that is missing is built for the proof type that is asked for.
read_input(content, proof_type) ==
    IF content.carry = "default" THEN [content EXCEPT !.carry = proof_type] ELSE content

\* The prover itself refuses to execute on the network.
run_sp1_proposal(a) == /\ elf /= "none"
                       /\ a.mode = "execute" => sp1_config(a) /= "network"
run_risc0_proposal(a) == a.mode = "execute"
run_native_proposal(a) == a.mode = "prove" /\ a.output

run_proposal(a) ==
    /\ a.input /= None /\ Intact(a.input)
    /\ \/ a.proof_type = "sp1" /\ run_sp1_proposal(a)
       \/ a.proof_type = "native" /\ run_native_proposal(a)
       \/ a.proof_type = "risc0" /\ run_risc0_proposal(a)

\* Whether the arguments lead to an execution or a proof at all.
Launches(a) ==
    /\ validate_standard_guest_artifacts(a)
    /\ IF a.stage = "opcode-lab" THEN run_opcode_lab(a)
       ELSE IF a.stage = "precompile-lab" THEN run_precompile_lab(a)
       ELSE IF a.aggregate /= <<>> THEN run_aggregation(a)
       ELSE run_proposal(a)

\* What a run leaves in its JSON report, and whether it wrote a proof.
Report(a) ==
    [stage |-> a.stage, mode |-> a.mode, proof_mode |-> effective_proof_mode(a),
     input |-> IF a.stage = "proposal" /\ a.aggregate = <<>>
               THEN read_input(files[a.input], a.proof_type) ELSE None,
     proof |-> a.mode = "prove" /\ a.output]

Launch ==
    /\ At("launch")
    /\ IF ~Launches(proc.cmd) THEN Fail ELSE End(TRUE, <<Report(proc.cmd)>>) \/ Fail
    /\ UNCHANGED <<cast, files, elf, left>>

-----------------------------------------------------------------------------
(* bench-guest *)

\* A prepared input is named after everything that selects the proposal, and
\* not after the proof type, the prover or the graffiti.
default_output(a) == <<"bench", IF a.network /= None THEN a.network ELSE "by chain id", a.id>>

build_preflight_command(a, output) ==
    [network |-> a.network, chain |-> a.chain, l1_chain |-> Networks.l1.chain, rpc |-> a.rpc,
     id |-> a.id, start |-> a.start, end |-> a.end, proof |-> a.proof_type,
     out |-> output, save |-> FALSE, overwrite |-> FALSE]

read_suite_manifest(suite) ==
    suite /= <<>> /\ \A i \in DOMAIN suite : files[suite[i]] /= None

SuiteAlone(a) ==
    /\ a.input = None /\ a.output = None /\ a.network = None /\ a.chain = None
    /\ a.id = None /\ ~a.rpc /\ ~a.force

\* The file a request without a suite is measured on, and whether preflight
\* has to write it first.
prepare_input(a) ==
    LET output == IF a.output /= None THEN a.output ELSE default_output(a)
    IN  IF a.input /= None
        THEN [ok |-> files[a.input] /= None, path |-> a.input, fresh |-> FALSE]
        ELSE [ok |-> (a.network /= None \/ a.chain /= None) /\ a.id /= None, path |-> output,
              fresh |-> files[output] = None \/ a.force]

prepare_bench_cases ==
    /\ At("bench")
    /\ IF proc.cmd.repeat = 0 \/ proc.cmd.backend /= "sp1" THEN Fail
       ELSE IF proc.cmd.suite /= None
       THEN IF SuiteAlone(proc.cmd) /\ read_suite_manifest(proc.cmd.suite)
            THEN proc' = [proc EXCEPT !.at = "build", !.cases = proc.cmd.suite] /\ UNCHANGED last
            ELSE Fail
       ELSE \E in \in {prepare_input(proc.cmd)} :
            IF ~in.ok THEN Fail
            ELSE /\ proc' = [proc EXCEPT !.cases = <<in.path>>,
                       !.at = IF in.fresh THEN "preflight" ELSE "build",
                       !.pre = IF in.fresh THEN build_preflight_command(proc.cmd, in.path) ELSE None]
                 /\ UNCHANGED last
    /\ UNCHANGED <<cast, files, elf, left>>

\* The guest is built with its cycle counters unless the build is skipped, and
\* then the launcher, before the modes are looked at.
BuildForBench ==
    /\ At("build")
    /\ \/ /\ IF proc.cmd.skip THEN elf /= "none" /\ UNCHANGED elf ELSE elf' = "bench"
          /\ proc' = [proc EXCEPT !.at = "cases"] /\ UNCHANGED last
       \/ Fail /\ UNCHANGED elf
    /\ UNCHANGED <<cast, files, left>>

run_guest_launcher(a, path) ==
    [stage |-> "proposal", proof_type |-> a.proof_type, mode |-> a.mode,
     proof_mode |-> a.proof_mode, input |-> path, aggregate |-> <<>>, elf |-> FALSE,
     list |-> None, jsonl |-> FALSE, output |-> FALSE, prover |-> None]

\* The runs whose report is read.
Measured(a, run) == run > a.warmup

\* One launch of a case: warm-up runs come first and are not read back.
run_bench_case ==
    /\ At("cases") /\ proc.case <= Len(proc.cases)
    /\ \E l \in {run_guest_launcher(proc.cmd, proc.cases[proc.case])} :
          IF ~Launches(l) THEN Fail
          ELSE \/ Fail
               \/ /\ proc' = [proc EXCEPT
                        !.reports = IF Measured(proc.cmd, proc.run)
                                    THEN Append(@, Report(l) @@ [run |-> proc.run, case |-> proc.case])
                                    ELSE @,
                        !.run = IF @ < proc.cmd.warmup + proc.cmd.repeat THEN @ + 1 ELSE 1,
                        !.case = IF proc.run < proc.cmd.warmup + proc.cmd.repeat THEN @ ELSE @ + 1]
                  /\ UNCHANGED last
    /\ UNCHANGED <<cast, files, elf, left>>

\* The summary is taken over the reports of all cases, in order.
build_bench_report ==
    /\ At("cases") /\ proc.case > Len(proc.cases)
    /\ End(TRUE, proc.reports)
    /\ UNCHANGED <<cast, files, elf, left>>

-----------------------------------------------------------------------------
(* replay-guest-input *)

validate_proposal_list(ids) ==
    ids /= <<>> /\ \A i, j \in DOMAIN ids : ids[i] = ids[j] => i = j

\* Exactly one of a proposal, a suite or every file of the network.
selected_proposals(a) ==
    IF a.proposal /= None THEN IF a.suite = None /\ ~a.all THEN <<a.proposal>> ELSE <<>>
    ELSE IF a.suite /= None
    THEN IF ~a.all /\ a.suite.network = a.network /\ validate_proposal_list(a.suite.ids)
         THEN a.suite.ids ELSE <<>>
    ELSE IF a.all
    THEN SelectSeq(ProposalIds, LAMBDA id : files[Fixture(a.network, id)] /= None) ELSE <<>>

\* A fixture replays when it is read whole, is the proposal it is filed under
\* and carries no proof data or the native ones.
replay_proposal(path) ==
    /\ Intact(path)
    /\ files[path].id = path[3]
    /\ files[path].carry \in {"default", "native"}

Replay ==
    /\ At("replay")
    /\ \E ids \in {selected_proposals(proc.cmd)} :
       \E failed \in {{i \in DOMAIN ids : ~replay_proposal(Fixture(proc.cmd.network, ids[i]))}} :
          LET upto == IF proc.cmd.fail_fast /\ failed /= {}
                      THEN CHOOSE i \in failed : \A j \in failed : i <= j ELSE Len(ids)
          IN  End(ids /= <<>> /\ failed = {},
                  [i \in 1..upto |-> [id |-> ids[i], passed |-> i \notin failed]])
    /\ UNCHANGED <<cast, files, elf, left>>

-----------------------------------------------------------------------------
(* witness-check *)

\* The chain is the one named, or the one the node answers with.
resolve_chain_id(a, answer) == IF a.chain /= None THEN a.chain ELSE answer

\* Looking at the coverage of an address needs the parent block.
diagnose_witness_addresses(a) == a.diagnose => a.number > 0

\* A supplemented witness gains the nodes of the golden-touch account.
maybe_validate_with_golden_touch(a, lacking) == a.supplement \/ ~lacking

CheckWitness ==
    /\ At("check")
    /\ \E answer \in {Networks.hoodi.chain, Networks.l1.chain}, lacking \in BOOLEAN :
         LET network == resolve_chain_spec(None, resolve_chain_id(proc.cmd, answer), None)
         IN  \/ Fail
             \/ /\ network /= None /\ Networks[network].taiko
                /\ diagnose_witness_addresses(proc.cmd)
                /\ proc.cmd.supplement => proc.cmd.number > 0
                /\ maybe_validate_with_golden_touch(proc.cmd, lacking)
                /\ End(TRUE, <<[supplemented |-> proc.cmd.supplement, lacking |-> lacking]>>)
    /\ UNCHANGED <<cast, files, elf, left>>

-----------------------------------------------------------------------------
Start(c) ==
    /\ proc = None /\ left.commands > 0
    /\ proc' = [cmd |-> c, at |-> c.op, pre |-> IF c.op = "preflight" THEN c ELSE None,
                input |-> None, cases |-> <<>>, case |-> 1, run |-> 1, reports |-> <<>>]
    /\ left' = [left EXCEPT !.commands = @ - 1]
    /\ UNCHANGED <<cast, files, elf, last>>

\* A file is written in place, so a command killed meanwhile leaves part of it.
Kill ==
    /\ proc /= None /\ left.kills > 0
    /\ files' \in {files} \cup
         (IF At("write output") /\ proc.pre.out /= None
          THEN {[files EXCEPT ![proc.pre.out] = Torn]} ELSE {}) \cup
         (IF /\ At("write fixture") /\ proc.pre.save /\ proc.pre.network /= None
             /\ write_guest_input_json(Fixture(proc.pre.network, proc.input.id), proc.pre.overwrite)
          THEN {[files EXCEPT ![Fixture(proc.pre.network, proc.input.id)] = Torn]} ELSE {})
    /\ proc' = None
    /\ left' = [left EXCEPT !.kills = @ - 1]
    /\ UNCHANGED <<cast, elf, last>>

Init ==
    /\ cast \in Casts
    /\ files = [p \in Paths |-> None]
    /\ elf = "none"
    /\ proc = None
    /\ last = [cmd |-> None, ok |-> FALSE, out |-> <<>>]
    /\ left = cast.left

Next ==
    \/ \E c \in cast.cmds : Start(c)
    \/ RunPreflight \/ WriteOutput \/ WriteFixture
    \/ Launch
    \/ prepare_bench_cases \/ BuildForBench \/ run_bench_case \/ build_bench_report
    \/ Replay
    \/ CheckWitness
    \/ Kill

Spec == Init /\ [][Next]_vars

-----------------------------------------------------------------------------
(* Properties *)

\* A bench that ends well over an input it prepares itself measured exactly
\* the asked number of runs, all after the warm-up, in the asked mode and on
\* the proposal and network that were asked for - whatever earlier commands
\* prepared, reused, forced or left half written (prepare_input,
\* run_bench_case).  A file named with --output is reused whatever it holds,
\* and is the caller's choice.
MeasuredIsAsked ==
    LET c == last.cmd IN
    (last.ok /\ c.op = "bench" /\ c.suite = None /\ c.input = None /\ c.output = None) =>
       /\ Len(last.out) = c.repeat
       /\ \A i \in 1..Len(last.out) :
             /\ last.out[i].run > c.warmup
             /\ last.out[i].mode = c.mode /\ last.out[i].proof_mode = c.proof_mode
             /\ last.out[i].input.id = c.id
             /\ last.out[i].input.network = resolve_chain_spec(c.network, c.chain, None)

\* Every whole fixture preflight has filed is the proposal and network it is
\* filed under and passes a replay, whatever was saved, overwritten or
\* interrupted before (--save-guest-input, replay_proposal).
SavedReplays ==
    \A p \in Paths : (p[1] = "fixture" /\ Intact(p)) =>
        files[p].network = p[2] /\ replay_proposal(p)
=============================================================================
