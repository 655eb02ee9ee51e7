--------------------------- MODULE Configuration ----------------------------
(***************************************************************************)
(* What a server is configured with: the chain specifications, and the     *)
(* configuration that names them.                                          *)
(***************************************************************************)
EXTENDS Integers, Sequences, FiniteSets, FiniteSetsExt

(***************************************************************************)
(* Chain specifications (crates/primitives/src/chain_spec.rs): the fork    *)
(* table of a network, which fork is active at a block, what a fork        *)
(* configures (verifier and contract addresses), how a JSON description is *)
(* completed from the compiled-in ("canonical") one, and the sanity check  *)
(* a host makes of its description before it serves.                       *)
(*                                                                         *)
(* A fork identifier is <<class, rank>>: <<0, r>> is the Ethereum fork of  *)
(* rank r in ETHEREUM_EXECUTION_FORKS, <<1, r>> the r-th Taiko fork, so    *)
(* that the order derived for ForkId is the lexicographic one.  A table is *)
(* a function from fork identifiers to conditions.                         *)
(***************************************************************************)

CONSTANTS None,          \* an absent optional value
          Err,           \* an error returned to the caller
          BuiltinTaiko,  \* chain id -> fork table compiled into the Taiko runtime
          BuiltinEth,    \* chain id -> fork table compiled in for an L1
          CanonicalName  \* network name -> chain id with a canonical description

SHANGHAI == 11
OSAKA == 14
Ontake == <<1, 2>>
Pacaya == <<1, 3>>
Shasta == <<1, 4>>
Unzen == <<1, 5>>
Cancun == <<0, 12>>
Prague == <<0, 13>>
Osaka == <<0, 14>>
TAIKO_EXECUTION_FORKS == {Ontake, Pacaya, Shasta, Unzen}
ETHEREUM_EXECUTION_FORKS == {<<0, r>> : r \in 1..15}

Block(n) == [kind |-> "block", at |-> n]
Timestamp(n) == [kind |-> "timestamp", at |-> n]
Tbd == [kind |-> "tbd", at |-> 0]

\* The derived order of ForkId: every Ethereum fork before every Taiko fork.
ForkLeq(f, g) == f[1] < g[1] \/ (f[1] = g[1] /\ f[2] <= g[2])
Latest(forks) == CHOOSE f \in forks : \A g \in forks : ForkLeq(g, f)

active(cond, block, time) == CASE cond.kind = "block" -> cond.at <= block
                               [] cond.kind = "timestamp" -> cond.at <= time
                               [] OTHER -> FALSE

as_spec_id(f) == IF f[1] = 0 THEN f[2] ELSE IF f = Unzen THEN OSAKA ELSE SHANGHAI

max_spec_id(forks) ==
    IF DOMAIN forks = {} THEN 1 ELSE Max({as_spec_id(f) : f \in DOMAIN forks})

\* Forks are scanned from the last to the first.
ActiveForks(spec, block, time) ==
    {f \in DOMAIN spec.hard_forks : active(spec.hard_forks[f], block, time)}

active_fork_id(spec, block, time) ==
    LET forks == ActiveForks(spec, block, time) IN IF forks = {} THEN None ELSE Latest(forks)

active_fork(spec, block, time) ==
    LET f == active_fork_id(spec, block, time)
    IN IF f = None \/ as_spec_id(f) > spec.max_spec_id THEN Err ELSE as_spec_id(f)

\* The value of the latest fork that has one, is not after the active fork and
\* is itself active.
active_configured_fork_value(spec, values, block, time) ==
    LET current == active_fork_id(spec, block, time)
        usable == {f \in DOMAIN values \cap ActiveForks(spec, block, time) : ForkLeq(f, current)}
    IN IF usable = {} THEN None ELSE values[Latest(usable)]

get_fork_verifier_address(spec, block, time, proofType) ==
    LET verifiers == active_configured_fork_value(spec, spec.verifier_address_forks, block, time)
    IN IF verifiers = None THEN Err
       ELSE IF proofType \notin DOMAIN verifiers THEN Err
       ELSE IF verifiers[proofType] = None THEN Err
       ELSE verifiers[proofType]

-----------------------------------------------------------------------------
(* Compiled-in descriptions. *)

\* ForkCondition of an alethia condition; TTD counts as its fork block.
from_alethia_fork_condition(c) ==
    CASE c.kind = "ttd" -> Block(IF c.fork = None THEN c.at ELSE c.fork)
      [] c.kind = "never" -> Tbd
      [] OTHER -> [kind |-> c.kind, at |-> c.at]

alethia_fork_condition(c) == IF c.kind = "tbd" THEN [kind |-> "never", at |-> 0] ELSE c

builtin_taiko_chain_spec(chainId) ==
    IF chainId \in DOMAIN BuiltinTaiko THEN BuiltinTaiko[chainId] ELSE Err

\* Eip1559Constants::default(), the gas constants of every compiled-in description.
DefaultEip1559Constants == "default"

\* A Taiko runtime table always has the four Taiko forks; one it does not list
\* never activates.
canonical_taiko_chain_spec(chainId, runtime) ==
    LET forks == [f \in TAIKO_EXECUTION_FORKS |->
                    IF f \in DOMAIN runtime THEN from_alethia_fork_condition(runtime[f]) ELSE Tbd]
    IN [chain_id |-> chainId, hard_forks |-> forks, max_spec_id |-> max_spec_id(forks),
        eip_1559_constants |-> DefaultEip1559Constants, is_taiko |-> TRUE]

canonical_l1_chain_spec(chainId, runtime) ==
    LET forks == [f \in ETHEREUM_EXECUTION_FORKS \cap DOMAIN runtime |->
                    from_alethia_fork_condition(runtime[f])]
    IN [chain_id |-> chainId, hard_forks |-> forks, max_spec_id |-> max_spec_id(forks),
        eip_1559_constants |-> DefaultEip1559Constants, is_taiko |-> FALSE]

canonical_chain_spec(name) ==
    IF name \notin DOMAIN CanonicalName THEN None
    ELSE LET id == CanonicalName[name]
         IN IF id \in DOMAIN BuiltinTaiko THEN canonical_taiko_chain_spec(id, BuiltinTaiko[id])
            ELSE canonical_l1_chain_spec(id, BuiltinEth[id])

-----------------------------------------------------------------------------
(* JSON descriptions: a field a known network leaves out is taken from its *)
(* canonical description; an unknown network must give it.                 *)

Given(json, canonical, field) ==
    IF json[field] # None THEN json[field]
    ELSE IF canonical # None THEN canonical[field] ELSE None

\* A JSON condition: an object naming Block or, failing that, Timestamp, or
\* a string that can only be "TBD".
ForkConditionFromJson(value) ==
    CASE value.block # None -> Block(value.block)
      [] value.block = None /\ value.timestamp # None -> Timestamp(value.timestamp)
      [] value.block = None /\ value.timestamp = None /\ value.text = "TBD" -> Tbd
      [] OTHER -> Err

HardForksFromJson(table) ==
    IF table = None THEN None ELSE [f \in DOMAIN table |-> ForkConditionFromJson(table[f])]

chain_spec_from_json_helper(json) ==
    LET canonical == canonical_chain_spec(json.name)
        id == Given(json, canonical, "chain_id")
        forks == Given([json EXCEPT !.hard_forks = HardForksFromJson(@)], canonical, "hard_forks")
        limit == Given(json, canonical, "max_spec_id")
        gas == Given(json, canonical, "eip_1559_constants")
        taiko == Given(json, canonical, "is_taiko")
    IN IF id = None \/ forks = None \/ gas = None \/ taiko = None THEN Err
       ELSE IF \E f \in DOMAIN forks : forks[f] = Err THEN Err
       ELSE [name |-> json.name, chain_id |-> id, hard_forks |-> forks,
             max_spec_id |-> IF limit = None THEN max_spec_id(forks) ELSE limit,
             eip_1559_constants |-> gas, is_taiko |-> taiko, l2_contract |-> json.l2_contract,
             checkpoint_store_contract |-> json.checkpoint_store_contract,
             l1_contract |-> json.l1_contract,
             verifier_address_forks |-> json.verifier_address_forks,
             rpc |-> json.rpc, beacon_rpc |-> json.beacon_rpc,
             seconds_per_slot |-> json.seconds_per_slot]

\* Descriptions are kept by name, the last one of a name winning; a list with
\* an unreadable entry counts as empty.
SupportedChainSpecs(list) ==
    LET specs == [i \in DOMAIN list |-> chain_spec_from_json_helper(list[i])]
        names == {list[i].name : i \in DOMAIN list}
    IN IF \E i \in DOMAIN specs : specs[i] = Err THEN [n \in {} |-> Err]
       ELSE [n \in names |-> specs[Max({i \in DOMAIN list : list[i].name = n})]]

get_chain_spec(known, name) == IF name \in DOMAIN known THEN known[name] ELSE None

\* A predeploy address is the decimal chain id, zeros and a fixed suffix.
shasta_predeploy_address(chainId, suffix) == IF chainId = 0 THEN Err ELSE <<chainId, suffix>>
shasta_taiko_l2_address(chainId) == shasta_predeploy_address(chainId, 10001)
shasta_checkpoint_store_address(chainId) == shasta_predeploy_address(chainId, 5)

\* Mutant: the fork table of the description is not compared.
SanityWithoutForks(known) ==
    LET taiko == {n \in DOMAIN known : known[n].is_taiko}
    IN taiko # {} /\ \A n \in taiko : known[n].chain_id \in DOMAIN BuiltinTaiko

\* Every Taiko description must agree with the compiled-in rules that guests
\* use: one description for each chain id, the same forks and gas constants,
\* and the predeploys derived from the id.
validate_host_sanity(known) ==
    LET taiko == {n \in DOMAIN known : known[n].is_taiko}
        Agrees(spec) ==
            /\ builtin_taiko_chain_spec(spec.chain_id) # Err
            /\ LET canonical == canonical_taiko_chain_spec(spec.chain_id,
                                                           BuiltinTaiko[spec.chain_id])
               IN /\ spec.max_spec_id = canonical.max_spec_id
                  /\ spec.hard_forks = canonical.hard_forks
                  /\ spec.eip_1559_constants = canonical.eip_1559_constants
            /\ spec.l2_contract = shasta_taiko_l2_address(spec.chain_id)
            /\ spec.checkpoint_store_contract = shasta_checkpoint_store_address(spec.chain_id)
    IN /\ taiko # {}
       /\ \A n \in taiko : Agrees(known[n])
       /\ \A m, n \in taiko : known[m].chain_id = known[n].chain_id => m = n

-----------------------------------------------------------------------------
(* The runtime specification execution uses: the compiled-in one with the  *)
(* configured Taiko forks laid over it.                                    *)

DEVNET == 167001

\* Unzen moves the Ethereum forks it brings; Hekla has no runtime counterpart.
apply_configured_taiko_forks(spec, runtime) ==
    LET set == DOMAIN spec.hard_forks \cap TAIKO_EXECUTION_FORKS
        unzen == IF Unzen \in set THEN {Cancun, Prague, Osaka} ELSE {}
    IN [f \in DOMAIN runtime \cup set \cup unzen |->
            IF f \in unzen THEN alethia_fork_condition(spec.hard_forks[Unzen])
            ELSE IF f \in set THEN alethia_fork_condition(spec.hard_forks[f])
            ELSE runtime[f]]

\* A devnet moves its Unzen fork in time only.
to_taiko_chain_spec(spec) ==
    LET base == builtin_taiko_chain_spec(spec.chain_id)
    IN IF ~spec.is_taiko \/ base = Err THEN Err
       ELSE IF /\ spec.chain_id = DEVNET
               /\ Unzen \in DOMAIN spec.hard_forks
               /\ spec.hard_forks[Unzen].kind # "timestamp"
            THEN Err
       ELSE apply_configured_taiko_forks(spec, base)

align_taiko_runtime_forks(spec) ==
    IF ~spec.is_taiko THEN spec
    ELSE LET runtime == to_taiko_chain_spec(spec)
         IN IF runtime = Err THEN Err
            ELSE LET canonical == canonical_taiko_chain_spec(spec.chain_id, runtime)
                 IN [spec EXCEPT !.max_spec_id = canonical.max_spec_id,
                                 !.hard_forks = canonical.hard_forks]

-----------------------------------------------------------------------------
(***************************************************************************)
(* The server's configuration (bin/raiko2/src/config): loading it from a   *)
(* file, environment references and the command line, validating it,       *)
(* resolving its network pairs, and the SP1 settings a request may         *)
(* override (crates/prover/src/sp1_config.rs).                             *)
(*                                                                         *)
(* A URL or a name is an opaque value: "" is the empty one, "bad" one that *)
(* does not parse.  Probabilities count in units of 1/Scale.               *)
(***************************************************************************)

CONSTANT Scale  \* a probability of one

OrElse(v, default) == IF v # None THEN v ELSE default
Min2(a, b) == IF a < b THEN a ELSE b
is_valid_url(url) == url \notin {"", "bad"}

-----------------------------------------------------------------------------
(* SP1 settings *)

\* What a request may set only for a network prover, and all that it may set.
NetworkFields == {"network_mode", "fulfillment_strategy", "skip_simulation", "timeout_secs",
                  "network_request_max_attempts", "max_price_per_pgu", "auction_timeout_secs"}
Sp1ConfigOverrides == NetworkFields \cup {"recursion", "prover", "mode", "verify", "cycle_limit"}
NoOverrides == [f \in Sp1ConfigOverrides |-> None]

\* The settings a request gives win, except that it cannot raise the number of
\* network requests; the cycle limits of a stage, the network's address and the
\* verifier are never its to set.
merged_with(base, over) ==
    [f \in DOMAIN base |->
        IF f \notin Sp1ConfigOverrides THEN base[f]
        ELSE IF over[f] = None THEN base[f]
        ELSE IF f = "network_request_max_attempts" THEN Min2(over[f], base[f])
        ELSE over[f]]

has_network_overrides(over) == \E f \in NetworkFields : over[f] # None

cycle_limit_for_context(config, context) ==
    OrElse(IF context = "aggregation" THEN config.aggregation_cycle_limit
           ELSE config.proposal_cycle_limit, config.cycle_limit)

\* What is wrong with a set of SP1 settings, as a set of complaints.
Sp1Complaints(c) ==
    {f \in {"cycle_limit", "proposal_cycle_limit", "aggregation_cycle_limit", "timeout_secs",
            "network_request_max_attempts", "max_price_per_pgu", "auction_timeout_secs"} :
        c[f] = 0}
    \cup (IF c.rpc_url # None /\ ~is_valid_url(c.rpc_url) THEN {"rpc_url"} ELSE {})
    \cup (IF /\ c.remote_verify # None
             /\ \/ ~is_valid_url(c.remote_verify.rpc_url)
                \/ c.remote_verify.verifier_address \in {"", "bad"}
          THEN {"remote_verify"} ELSE {})
    \cup (IF c.mode = "execute" /\ c.prover = "network" THEN {"execute"} ELSE {})
    \cup (IF /\ c.prover = "network"
             /\ <<c.network_mode, c.fulfillment_strategy>> \notin
                    {<<"mainnet", "auction">>, <<"reserved", "reserved">>, <<"reserved", "hosted">>}
          THEN {"strategy"} ELSE {})

\* Context is "batch", "batch_aggregate" or "aggregation".  A proposal that is
\* proved is always compressed, an aggregate always on-chain verifiable.
resolve_request_config(base, overrides, context) ==
    LET over == OrElse(overrides, NoOverrides)
        merged == merged_with(base, over)
        effective ==
            [merged EXCEPT
                !.cycle_limit = IF over.cycle_limit = None
                                THEN cycle_limit_for_context(merged, context) ELSE @,
                !.recursion = IF context = "aggregation" THEN "plonk"
                              ELSE IF merged.mode = "prove" THEN "compressed" ELSE @]
    IN IF \/ has_network_overrides(over) /\ effective.prover # "network"
          \/ effective.mode = "execute" /\ context # "batch"
          \/ Sp1Complaints(effective) # {}
       THEN Err ELSE effective

\* The verifier of the network pair replaces the configured one.
applied_to(system, config) ==
    IF system = None THEN config ELSE [config EXCEPT !.remote_verify = system]

-----------------------------------------------------------------------------
(* Provers *)

ProofTypes == {"risc0", "sp1", "native", "sgx", "sgxgeth"}

runner(prover, t) ==
    IF ~prover[t].enabled THEN None
    ELSE CASE t = "sp1" -> IF prover.sp1.config.prover = "network" THEN "network" ELSE "local"
           [] t \in {"sgx", "sgxgeth"} -> "remote"
           [] OTHER -> "local"

is_enabled(prover, t) == runner(prover, t) # None
iter_routes(prover) == {<<t, runner(prover, t)>> : t \in {u \in ProofTypes : is_enabled(prover, u)}}

validate_route(route) ==
    route \in {<<"sp1", "local">>, <<"sp1", "network">>, <<"risc0", "local">>,
               <<"native", "local">>, <<"sgx", "remote">>, <<"sgxgeth", "remote">>}

\* A list of routes: at least one, each supported, no proof type twice.
ProverRoutesOverrideFromStr(list) ==
    IF \/ list = <<>>
       \/ \E i \in DOMAIN list : ~validate_route(list[i])
       \/ \E i, j \in DOMAIN list : i # j /\ list[i][1] = list[j][1]
    THEN Err ELSE {list[i] : i \in DOMAIN list}

\* The override replaces the whole selection; a mock SP1 prover stays a mock
\* when the local runner is asked for.
apply_routes_override(prover, routes) ==
    LET Chosen(t) == \E r \in routes : r[1] = t
        mode == prover.sp1.config.prover
        asked == IF <<"sp1", "network">> \in routes THEN "network"
                 ELSE IF mode = "mock" THEN "mock" ELSE "local"
        selected == [f \in DOMAIN prover |->
                        IF f \in ProofTypes THEN [prover[f] EXCEPT !.enabled = Chosen(f)]
                        ELSE prover[f]]
    IN [selected EXCEPT !.sp1.config.prover = IF Chosen("sp1") THEN asked ELSE mode]

ZkAnyTargets(zk) == {t \in {"sp1", "risc0"} : zk[t] # None}

\* Every target a probability, and all of them together at most one.
ZkAnyValid(zk) ==
    LET p(t) == IF zk[t] = None THEN 0 ELSE zk[t].probability
    IN /\ \A t \in ZkAnyTargets(zk) : p(t) \in 0..Scale
       /\ p("sp1") + p("risc0") <= Scale

RemoteLaneValid(lane) == lane.enabled => lane.base_url # "" /\ lane.timeout_ms # 0

ProverValid(prover) ==
    /\ iter_routes(prover) # {}
    /\ prover.risc0.enabled => prover.risc0.execution_po2 # 0
    /\ prover.sp1.enabled => /\ Sp1Complaints(prover.sp1.config) = {}
                             /\ prover.sp1.config.mode = "prove" => prover.sp1.config.verify
    /\ RemoteLaneValid(prover.sgx)
    /\ RemoteLaneValid(prover.sgxgeth)
    /\ ZkAnyValid(prover.zk_any)
    /\ \A t \in ZkAnyTargets(prover.zk_any) : is_enabled(prover, t)

-----------------------------------------------------------------------------
(* Network pairs *)

NetworkPairKey(pair) == <<pair.network, pair.l1_network>>

resolve_pair(known, pair) ==
    LET l2 == get_chain_spec(known, pair.network)
        l1 == get_chain_spec(known, pair.l1_network)
    IN IF l2 = None \/ l1 = None THEN Err
       ELSE LET l2Rpc == OrElse(pair.l2_rpc, l2.rpc)
            IN [key |-> NetworkPairKey(pair), network |-> pair.network,
                l1_network |-> pair.l1_network, l1_rpc |-> OrElse(pair.l1_rpc, l1.rpc),
                l2_rpc |-> l2Rpc, l2_witness_rpc |-> OrElse(pair.l2_witness_rpc, l2Rpc),
                sp1_verifier_rpc_url |-> pair.sp1_verifier_rpc_url,
                sp1_verifier_address |-> pair.sp1_verifier_address,
                l1_spec |-> [l1 EXCEPT !.beacon_rpc = OrElse(pair.beacon_rpc, @)],
                l2_spec |-> l2]

\* Resolving checks the chain descriptions first.
resolved_pairs(rpc, known) ==
    LET pairs == [i \in DOMAIN rpc.pairs |-> resolve_pair(known, rpc.pairs[i])]
    IN IF \/ rpc.pairs = <<>>
          \/ ~validate_host_sanity(known)
          \/ \E i \in DOMAIN pairs : pairs[i] = Err
       THEN Err ELSE pairs

ClientValid(client) ==
    /\ client.timeout_ms # 0 /\ client.concurrency_limit # 0
    /\ client.max_attempts # 0 => client.initial_backoff_ms # 0

PairValid(pair) ==
    /\ is_valid_url(pair.l1_rpc) /\ is_valid_url(pair.l2_rpc) /\ is_valid_url(pair.l2_witness_rpc)
    /\ pair.l1_spec.beacon_rpc # None => is_valid_url(pair.l1_spec.beacon_rpc)
    /\ pair.l1_spec.seconds_per_slot # 0
    /\ pair.l2_spec.is_taiko

validate_base(rpc, known) ==
    LET pairs == resolved_pairs(rpc, known)
    IN /\ ClientValid(rpc.client)
       /\ pairs # Err
       /\ \A i \in DOMAIN pairs : PairValid(pairs[i])
       /\ \A i, j \in DOMAIN pairs : pairs[i].key = pairs[j].key => i = j

\* Both verifier settings of a pair, or neither.
validate_sp1_verifier_pairs(pairs) ==
    \A i \in DOMAIN pairs :
        \/ pairs[i].sp1_verifier_rpc_url = None /\ pairs[i].sp1_verifier_address = None
        \/ /\ pairs[i].sp1_verifier_rpc_url # None /\ pairs[i].sp1_verifier_address # None
           /\ is_valid_url(pairs[i].sp1_verifier_rpc_url)
           /\ pairs[i].sp1_verifier_address \notin {"bad", "zero"}

\* A cross-check endpoint must name the network of exactly one pair.
PreflightValid(preflight, pairs) ==
    \A n \in DOMAIN preflight :
        /\ n # "" /\ is_valid_url(preflight[n])
        /\ Cardinality({i \in DOMAIN pairs : pairs[i].network = n}) = 1

-----------------------------------------------------------------------------
(* Runtime, queue and server settings *)

RuntimeValid(r) ==
    /\ r.environment # "" /\ r.namespace # ""
    /\ r.terminal_task_ttl_secs # 0 /\ r.cleanup_interval_secs # 0
    /\ r.cleanup_batch_size \in 1..1024
    /\ \A i, j \in DOMAIN r.startup_cleanup : r.startup_cleanup[i] = r.startup_cleanup[j] => i = j
    /\ CASE r.backend = "memory" ->
                /\ r.bucket = None
                /\ r.allow_ephemeral \/ r.environment \in {"development", "local", "test"}
         [] r.backend = "gcs" ->
                ~r.allow_ephemeral /\ r.bucket # None /\ r.bucket # "" /\ r.prefix # ""

QueueValid(q) == q.workers # 0 /\ q.maintenance_interval_ms # 0

AclValid(keys) ==
    /\ \A i \in DOMAIN keys : /\ keys[i].id # "" /\ keys[i].key # ""
                              /\ keys[i].allow # {}
                              /\ keys[i].rate_limit_per_minute # 0
    /\ \A i, j \in DOMAIN keys :
            keys[i].id = keys[j].id \/ keys[i].key = keys[j].key => i = j

ServerValid(s) == s.host # "" /\ s.port # 0 /\ AclValid(s.acl)

ConfigValid(c, known) ==
    /\ ServerValid(c.server)
    /\ validate_base(c.rpc, known)
    /\ ProverValid(c.prover)
    /\ RuntimeValid(c.runtime)
    /\ QueueValid(c.queue)
    /\ is_enabled(c.prover, "sp1") => validate_sp1_verifier_pairs(resolved_pairs(c.rpc, known))
    /\ PreflightValid(c.preflight, resolved_pairs(c.rpc, known))

-----------------------------------------------------------------------------
(* Loading *)

\* A lane's endpoint may be a reference to an environment variable, which must
\* be set and not empty.
resolve_environment_references(file, env) ==
    IF \E lane \in DOMAIN file.refs :
            \/ file.refs[lane] \notin DOMAIN env
            \/ env[file.refs[lane]] = ""
    THEN Err
    ELSE [file.config EXCEPT !.prover = [t \in DOMAIN @ |->
            IF t \in DOMAIN file.refs THEN [@[t] EXCEPT !.base_url = env[file.refs[t]]] ELSE @[t]]]

\* The endpoint overrides only make sense when there is a single pair.
override_single_rpc_pair(pairs, cli) ==
    IF cli.l1_rpc = None /\ cli.l2_rpc = None THEN pairs
    ELSE IF Len(pairs) # 1 THEN Err
    ELSE <<[pairs[1] EXCEPT !.l1_rpc = OrElse(cli.l1_rpc, @), !.l2_rpc = OrElse(cli.l2_rpc, @)]>>

\* File, then command line, then validation.
ConfigLoad(file, env, cli, known) ==
    LET base == resolve_environment_references(file, env)
        routes == IF cli.prover_routes = None THEN None
                  ELSE ProverRoutesOverrideFromStr(cli.prover_routes)
        pairs == override_single_rpc_pair(base.rpc.pairs, cli)
        routed == IF routes = None THEN base.prover ELSE apply_routes_override(base.prover, routes)
        config == [base EXCEPT
                    !.server.port = OrElse(cli.port, @),
                    !.rpc.pairs = pairs,
                    !.rpc.client.max_attempts = OrElse(cli.rpc_retry_max_attempts, @),
                    !.prover = [routed EXCEPT
                        !.sgx.timeout_ms = OrElse(cli.remote_sgx_timeout_ms, @),
                        !.sgxgeth.timeout_ms = OrElse(cli.remote_sgx_timeout_ms, @)],
                    !.queue.workers = OrElse(cli.queue_workers, @)]
    IN IF base = Err THEN Err
       ELSE IF pairs = Err \/ routes = Err THEN Err
       ELSE IF ConfigValid(config, known) THEN config ELSE Err

-----------------------------------------------------------------------------
(* What the server builds from it *)

\* The engine a prover route is bound to; a build without the feature a route
\* needs refuses it.
PipelineKey(t) == t
enabled_pipeline_registrations(prover, features) ==
    IF \/ runner(prover, "risc0") = "local" /\ "local-provers" \notin features
       \/ is_enabled(prover, "sp1") /\ "host" \notin features
    THEN Err
    ELSE {[pipeline_key |-> PipelineKey(r[1]), proof_type |-> r[1], runner |-> r[2],
           remote_url |-> IF r[1] \in {"sgx", "sgxgeth"} THEN prover[r[1]].base_url ELSE None] :
            r \in iter_routes(prover)}

\* One engine for each pair and registered pipeline.
build_pipeline_factory(pairs, registrations) ==
    {<<pairs[i].key, r.pipeline_key>> : i \in DOMAIN pairs, r \in registrations}
=============================================================================
