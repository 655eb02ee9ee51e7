------------------------------ MODULE Admission ------------------------------
(***************************************************************************)
(* From a configuration to an accepted submission.                         *)
(*                                                                         *)
(* A server is started from a deployment (file, environment, command line, *)
(* chain descriptions, build features): it refuses it or builds one engine *)
(* for each network pair and enabled route.  Once up it takes batch (v3),  *)
(* proposal (v4) and aggregation requests and ballots: API keys are        *)
(* checked and rate limited, a zk_any request draws its proof type from    *)
(* the sampler, and a request becomes a submission with the identity that  *)
(* decides whether it is a duplicate.                                      *)
(*                                                                         *)
(* real is the monotonic clock of the rate limiter, wall the system clock  *)
(* of the sampler, which an operator may set back.                         *)
(***************************************************************************)
EXTENDS Configuration

CONSTANTS Deployments,       \* what a server may be started from, how many calls
                             \* and how much time it is followed for, and the batch, proof and aggregation
                             \* requests and ballots it is sent
          Keys,              \* values of the API key header
          SeedRatio,         \* seed -> its ratio, in units of 1/Scale
          SEED_CACHE_CAPACITY, RATE_LIMIT_WINDOW, DEFAULT_ACL_RATE_LIMIT_PER_MINUTE,
          SHASTA_PROPOSAL_ID_MAX, MAX_PROPOSALS_PER_REQUEST, MAX_RANGE_LEN, Day,
          MaxStepBacks

VARIABLES
    deployment, \* what the server is started from
    config,     \* its validated configuration, None before and Err after a refusal
    pairs,      \* the network pairs of the configuration
    engines,    \* <<pair key, pipeline key>> of the engines that exist
    real, wall, \* the two clocks
    limiter,    \* key index -> instants kept by the rate limiter
    sampler,    \* the zk_any sampler
    admitted,   \* history: key index -> every instant a request was let through
    drawn,      \* history: zk_any decisions under the current ballot
    routed,     \* history: routes chosen for requests
    accepted,   \* history: accepted submissions with their identities
    calls       \* requests made so far

vars == <<deployment, config, pairs, engines, real, wall, limiter, sampler, admitted, drawn, routed,
          accepted, calls>>

Up == config \notin {None, Err}

-----------------------------------------------------------------------------
(* Sampler *)

ZkAnySampler(zk) ==
    [entries |-> [t \in ZkAnyTargets(zk) |->
                    [probability |-> zk[t].probability, per_day |-> zk[t].per_day,
                     last_draw_at |-> None]],
     cached_results |-> <<>>]

\* The entries are tried in the order sp1, risc0.
draw_candidate(s, seed) ==
    LET p(t) == IF t \in DOMAIN s.entries THEN s.entries[t].probability ELSE 0
    IN IF SeedRatio[seed] < p("sp1") THEN "sp1"
       ELSE IF SeedRatio[seed] < p("sp1") + p("risc0") THEN "risc0" ELSE None

min_interval(per_day) == (Day + per_day \div 2) \div per_day

\* The per-day gate; a clock behind the last draw keeps it shut.
check_frequency(s, t, now) ==
    LET e == s.entries[t]
    IN \/ e.per_day = 0
       \/ e.last_draw_at = None
       \/ now >= e.last_draw_at /\ now - e.last_draw_at >= min_interval(e.per_day)

\* The oldest seed makes room; a hit never comes here.
cache_result(cache, seed, result) ==
    Append(IF Len(cache) >= SEED_CACHE_CAPACITY THEN Tail(cache) ELSE cache, <<seed, result>>)

\* A cached seed keeps its answer; otherwise the draw is gated and cached.
draw_with_time(s, seed, now) ==
    LET hits == {i \in DOMAIN s.cached_results : s.cached_results[i][1] = seed}
        candidate == draw_candidate(s, seed)
        gated == candidate # None /\ check_frequency(s, candidate, now)
        result == IF gated THEN candidate ELSE None
        stamped == IF gated /\ s.entries[candidate].per_day # 0
                   THEN [s EXCEPT !.entries[candidate].last_draw_at = now] ELSE s
    IN IF hits # {} THEN [result |-> s.cached_results[CHOOSE i \in hits : TRUE][2], next |-> s]
       ELSE [result |-> result,
             next |-> [stamped EXCEPT !.cached_results = cache_result(@, seed, result)]]

-----------------------------------------------------------------------------
(* API keys *)

acl_allows_feature(allow, feature) == "admin" \in allow \/ feature \in allow
acl_feature_enabled(feature) ==
    \E i \in DOMAIN config.server.acl : acl_allows_feature(config.server.acl[i].allow, feature)

\* The index of the key a header authorizes for a feature, or why it does not.
authorize_acl_key(key, feature) ==
    LET matching == {i \in DOMAIN config.server.acl : config.server.acl[i].key = key}
        allowed == {i \in matching : acl_allows_feature(config.server.acl[i].allow, feature)}
    IN CASE ~acl_feature_enabled(feature) -> "not_found"
         [] acl_feature_enabled(feature) /\ allowed # {} -> "ok"
         [] acl_feature_enabled(feature) /\ allowed = {} /\ matching # {} -> "forbidden"
         [] OTHER -> "unauthorized"

KeyIndex(key) == CHOOSE i \in DOMAIN config.server.acl : config.server.acl[i].key = key

rate_limit_or_default(i) == OrElse(config.server.acl[i].rate_limit_per_minute,
                                   DEFAULT_ACL_RATE_LIMIT_PER_MINUTE)

\* Instants older than the window are dropped before they are counted.
allow_request(i) ==
    LET kept == SelectSeq(limiter[i], LAMBDA t : real - t < RATE_LIMIT_WINDOW)
    IN IF Len(kept) >= rate_limit_or_default(i) THEN [ok |-> FALSE, kept |-> kept]
       ELSE [ok |-> TRUE, kept |-> Append(kept, real)]

\* Key check, then rate limit; a refused key does not count.
authorize_acl_feature_with_rate_limit(key, feature) ==
    IF authorize_acl_key(key, feature) = "ok"
    THEN LET a == allow_request(KeyIndex(key))
         IN [ok |-> a.ok, limiter |-> [limiter EXCEPT ![KeyIndex(key)] = a.kept],
             admitted |-> IF a.ok THEN [admitted EXCEPT ![KeyIndex(key)] = Append(@, real)]
                          ELSE admitted]
    ELSE [ok |-> FALSE, limiter |-> limiter, admitted |-> admitted]

\* A feature no key mentions is open to everyone.
authorize_optional_acl_feature_with_rate_limit(key, feature) ==
    IF acl_feature_enabled(feature) THEN authorize_acl_feature_with_rate_limit(key, feature)
    ELSE [ok |-> TRUE, limiter |-> limiter, admitted |-> admitted]

-----------------------------------------------------------------------------
(* Requests *)

\* Both network names, or neither for the first pair.
resolved_pair(req) ==
    CASE req.network = None /\ req.l1_network = None -> pairs[1]
      [] req.network # None /\ req.l1_network # None ->
            LET found == {i \in DOMAIN pairs : pairs[i].key = <<req.network, req.l1_network>>}
            IN IF found = {} THEN Err ELSE pairs[Min(found)]
      [] OTHER -> Err

pair_sp1_system_config(pair) ==
    IF pair.sp1_verifier_rpc_url # None /\ pair.sp1_verifier_address # None
    THEN [rpc_url |-> pair.sp1_verifier_rpc_url, verifier_address |-> pair.sp1_verifier_address]
    ELSE None

\* SP1 settings are the only ones a request may give, and not with zk_any.
validate_public_prover_args(req) ==
    /\ req.sp1 # None => req.proof_type = "sp1"
    /\ ~req.other_args

validate_request_shape(req) ==
    req.proposals # <<>> /\ ~(req.aggregate /\ req.proof_type = "zk_any")

validate_shasta_proposal_id(id) == id <= SHASTA_PROPOSAL_ID_MAX

\* A nonempty run of consecutive numbers, as its first and last.
validate_l2_block_numbers(numbers) ==
    IF numbers = <<>> \/ \E i \in 1..(Len(numbers) - 1) : numbers[i + 1] # numbers[i] + 1 THEN Err
    ELSE <<numbers[1], numbers[Len(numbers)]>>

canonicalize_proposal(p) ==
    IF ~validate_shasta_proposal_id(p.proposal_id)
       \/ validate_l2_block_numbers(p.l2_block_numbers) = Err
    THEN Err
    ELSE [proposal_id |-> p.proposal_id, l1_inclusion |-> p.l1_inclusion,
          range |-> validate_l2_block_numbers(p.l2_block_numbers), checkpoint |-> p.checkpoint]

\* The proof type of a request: the one it names, or a draw seeded by its
\* first proposal.
Seed(req) == <<req.proposals[1].proposal_id, req.proposals[1].l1_inclusion>>
decide_batch_proof_type(req) ==
    IF req.proof_type # "zk_any" THEN [result |-> req.proof_type, next |-> sampler]
    ELSE draw_with_time(sampler, Seed(req), wall)

Sp1Runner(c) == IF c.prover = "network" THEN "network" ELSE "local"

\* A request cannot move SP1 to a runner the server does not have.
validate_sp1_runner_for_request(overrides, context) ==
    LET effective == resolve_request_config(config.prover.sp1.config, overrides, context)
    IN effective # Err => Sp1Runner(effective) = runner(config.prover, "sp1")

route_for_proof_type(t, overrides, context) ==
    IF ~is_enabled(config.prover, t) THEN Err
    ELSE IF t = "sp1" /\ \/ resolve_request_config(config.prover.sp1.config, overrides, context) = Err
                         \/ ~validate_sp1_runner_for_request(overrides, context)
    THEN Err
    ELSE [proof_type |-> t, runner |-> runner(config.prover, t), pipeline_key |-> PipelineKey(t)]

prover_type_for_proof_type(t, overrides, context) ==
    CASE t = "sp1" -> resolve_request_config(config.prover.sp1.config, overrides, context).prover
      [] t = "risc0" -> IF config.prover.risc0.mock THEN "mock" ELSE "local"
      [] OTHER -> None

\* What a hosted server refuses to run on SP1.
validate_hosted_sp1_posture(effective) ==
    /\ effective.mode = "prove" /\ effective.verify
    /\ effective.prover = "network" => effective.remote_verify # None

EffectiveSp1(pair, overrides, context) ==
    applied_to(pair_sp1_system_config(pair),
               resolve_request_config(config.prover.sp1.config, overrides, context))

validate_route_specific_request(pair, t, overrides, context) ==
    IF t = "sp1" THEN validate_hosted_sp1_posture(EffectiveSp1(pair, overrides, context))
    ELSE overrides = None

Context(req) == IF req.aggregate THEN "batch_aggregate" ELSE "batch"

\* The checks of a batch request before its proof type is decided.
BatchAcceptable(req) ==
    /\ validate_request_shape(req)
    /\ resolved_pair(req) # Err
    /\ validate_public_prover_args(req)
    /\ \A i \in DOMAIN req.proposals : canonicalize_proposal(req.proposals[i]) # Err

Canonical(req, route) ==
    LET pair == resolved_pair(req)
    IN [pair |-> pair.key, route |-> route, requested |-> req.proof_type,
        aggregate |-> req.aggregate, prover |-> req.prover, graffiti |-> req.graffiti,
        sp1 |-> req.sp1, sp1_system |-> pair_sp1_system_config(pair),
        prover_type |-> prover_type_for_proof_type(route.proof_type, req.sp1, Context(req)),
        proposals |-> [i \in DOMAIN req.proposals |-> canonicalize_proposal(req.proposals[i])]]

\* Err, None when zk_any drew nothing, or the submission; the draw counts
\* whatever the later checks say.
build_canonical_batch_submission(req) ==
    IF ~BatchAcceptable(req) THEN [submission |-> Err, next |-> sampler, drew |-> FALSE]
    ELSE LET d == decide_batch_proof_type(req)
             route == route_for_proof_type(d.result, req.sp1, Context(req))
             refused == IF d.result = None THEN FALSE
                        ELSE IF route = Err THEN TRUE
                        ELSE ~validate_route_specific_request(resolved_pair(req), d.result, req.sp1,
                                                              Context(req))
         IN [submission |-> IF d.result = None THEN None
                            ELSE IF refused THEN Err ELSE Canonical(req, route),
             next |-> d.next, drew |-> req.proof_type = "zk_any", result |-> d.result,
             route |-> IF d.result = None THEN None ELSE route]

-----------------------------------------------------------------------------
(* Identities *)

Namespace == <<config.runtime.environment, config.runtime.namespace>>

\* A digest of labelled chunks, each with its length: it tells apart what differs in
\* the domain, the namespace or any field.
RequestFingerprint(domain, submission) ==
    [domain |-> domain, namespace |-> Namespace, submission |-> submission]

\* Everything a batch submission says, in one digest.
batch_request_fingerprint(s) == RequestFingerprint("batch", s)

\* Mutant: the identity of a proposal leaves its checkpoint out.
FingerprintWithoutCheckpoint(s) ==
    RequestFingerprint("proposal", [s EXCEPT !.graffiti = None, !.proposals = [i \in DOMAIN @ |->
                                       [@[i] EXCEPT !.checkpoint = None]]])

\* A proposal's identity leaves out only what a v4 request cannot say.
proposal_request_fingerprint(s) ==
    RequestFingerprint("proposal", [s EXCEPT !.graffiti = None])

external_aggregate_request_fingerprint(pair, route, prover_type, req) ==
    RequestFingerprint("aggregate",
        [pair |-> pair.key, route |-> route, prover_type |-> prover_type,
         sp1 |-> req.sp1, sp1_system |-> pair_sp1_system_config(pair),
         ids |-> req.aggregation_ids, proofs |-> req.proofs])

-----------------------------------------------------------------------------
(* v4 requests *)

inclusive_range_len(p) == IF p.last < p.first THEN Err ELSE p.last - p.first + 1

validate_proof_request_shape(req) ==
    LET lens == [i \in DOMAIN req.proposals |-> inclusive_range_len(req.proposals[i])]
        total[i \in 0..Len(lens)] == IF i = 0 THEN 0 ELSE total[i - 1] + lens[i]
    IN /\ Len(req.proposals) \in 1..MAX_PROPOSALS_PER_REQUEST
       /\ ~req.aggregate => Len(req.proposals) = 1
       /\ \A i \in DOMAIN lens : lens[i] # Err
       /\ \A i \in DOMAIN lens : lens[i] <= MAX_RANGE_LEN
       /\ total[Len(lens)] <= MAX_RANGE_LEN

\* The ids of the proposals must be consecutive.
proposal_id_range(req) ==
    IF \E i \in DOMAIN req.proposals :
            req.proposals[i].proposal_id # req.proposals[1].proposal_id + i - 1
    THEN Err
    ELSE <<req.proposals[1].proposal_id, req.proposals[Len(req.proposals)].proposal_id>>

collect_inclusive_range(p) == [i \in 1..inclusive_range_len(p) |-> p.first + i - 1]

\* A v4 request is a batch request for the first pair without settings.
AsBatch(req) ==
    [proof_type |-> req.proof_type, aggregate |-> req.aggregate, prover |-> req.prover,
     graffiti |-> None, sp1 |-> None, other_args |-> FALSE, network |-> None, l1_network |-> None,
     proposals |-> [i \in DOMAIN req.proposals |->
        [proposal_id |-> req.proposals[i].proposal_id, l1_inclusion |-> req.proposals[i].l1_inclusion,
         l2_block_numbers |-> collect_inclusive_range(req.proposals[i]),
         checkpoint |-> req.proposals[i].checkpoint]]]

-----------------------------------------------------------------------------
(* Aggregation requests *)

validate_aggregate_request_shape(req) ==
    /\ req.proof_type \in {"sp1", "risc0", "sgx", "sgxgeth"}
    /\ req.proofs # <<>>
    /\ req.aggregation_ids # <<>> => Len(req.aggregation_ids) = Len(req.proofs)
    /\ \A i \in DOMAIN req.aggregation_ids : validate_shasta_proposal_id(req.aggregation_ids[i])

\* Each proof has the fields that aggregation on the route reads, and its carry
\* data is of the pair's chain.  Which backend made it is not looked at.
validate_external_aggregate_proof_metadata(pipeline, proof) ==
    /\ {"input", "carry"} \subseteq proof.has
    /\ pipeline \in {"sp1", "risc0"} => "uuid" \in proof.has
    /\ pipeline = "risc0" => "quote" \in proof.has
    /\ pipeline \in {"sgx", "sgxgeth"} => "proof" \in proof.has
    /\ pipeline = "sp1" => proof.has \cap {"quote", "proof"} # {}

validate_external_aggregate_proofs(pipeline, chainId, proofs) ==
    \A i \in DOMAIN proofs :
        /\ validate_external_aggregate_proof_metadata(pipeline, proofs[i])
        /\ proofs[i].chain_id = chainId

build_external_aggregate_submission(req) ==
    IF ~(validate_aggregate_request_shape(req) /\ validate_public_prover_args(req)) THEN Err
    ELSE LET pair == resolved_pair(req)
             route == route_for_proof_type(req.proof_type, req.sp1, "aggregation")
         IN IF pair = Err \/ route = Err THEN Err
            ELSE IF ~validate_route_specific_request(pair, req.proof_type, req.sp1, "aggregation")
            THEN Err
            ELSE IF ~validate_external_aggregate_proofs(route.pipeline_key, pair.l2_spec.chain_id,
                                                        req.proofs)
            THEN Err
            ELSE external_aggregate_request_fingerprint(
                    pair, route, prover_type_for_proof_type(req.proof_type, req.sp1, "aggregation"),
                    req)

-----------------------------------------------------------------------------
(* Steps *)

Init ==
    /\ deployment \in Deployments
    /\ config = None /\ pairs = <<>> /\ engines = {}
    /\ real = 0 /\ wall = MaxStepBacks
    /\ limiter = <<>> /\ admitted = <<>>
    /\ sampler = None
    /\ drawn = <<>> /\ routed = {} /\ accepted = {} /\ calls = 0

\* Load, validate, register one engine for each pair and route.
AppStateNew ==
    /\ config = None
    /\ LET known == SupportedChainSpecs(deployment.chains)
           loaded == ConfigLoad(deployment.file, deployment.env, deployment.cli, known)
           registrations == IF loaded = Err THEN Err
                            ELSE enabled_pipeline_registrations(loaded.prover, deployment.features)
       IN IF registrations = Err
          THEN config' = Err /\ UNCHANGED <<pairs, engines, limiter, admitted, sampler>>
          ELSE /\ config' = loaded
               /\ pairs' = resolved_pairs(loaded.rpc, known)
               /\ engines' = build_pipeline_factory(pairs', registrations)
               /\ limiter' = [i \in DOMAIN loaded.server.acl |-> <<>>]
               /\ admitted' = [i \in DOMAIN loaded.server.acl |-> <<>>]
               /\ sampler' = ZkAnySampler(loaded.prover.zk_any)
    /\ UNCHANGED <<deployment, real, wall, drawn, routed, accepted, calls>>

Called == Up /\ calls < deployment.calls /\ calls' = calls + 1

Decided(b, req) ==
    /\ sampler' = b.next
    /\ drawn' = IF b.drew THEN Append(drawn, [seed |-> Seed(req), result |-> b.result, at |-> real])
                ELSE drawn

\* Route found: an engine is looked up; without one the request is refused.
Accept(pairKey, route, identity, work) ==
    /\ routed' = routed \cup {[pair |-> pairKey, route |-> route]}
    /\ accepted' = IF <<pairKey, route.pipeline_key>> \in engines
                   THEN accepted \cup {[id |-> identity, work |-> work]} ELSE accepted

Refuse == UNCHANGED <<routed, accepted>>

Work(s) == [pair |-> s.pair, route |-> s.route, proposals |-> s.proposals,
            aggregate |-> s.aggregate, prover |-> s.prover, sp1 |-> s.sp1]

request_batch_shasta_proof_inner(req) ==
    /\ Called
    /\ LET b == build_canonical_batch_submission(req)
       IN /\ Decided(b, req)
          /\ IF b.submission \in {None, Err} THEN Refuse
             ELSE Accept(b.submission.pair, b.submission.route,
                         batch_request_fingerprint(b.submission), Work(b.submission))
    /\ UNCHANGED <<deployment, config, pairs, engines, real, wall, limiter, admitted>>

request_proposal_proof(key, req) ==
    /\ Called
    /\ LET auth == authorize_optional_acl_feature_with_rate_limit(key, "prover_submit")
       IN /\ limiter' = auth.limiter /\ admitted' = auth.admitted
          /\ IF ~auth.ok \/ ~validate_proof_request_shape(req) THEN Refuse /\ UNCHANGED <<sampler, drawn>>
             ELSE IF proposal_id_range(req) = Err THEN Refuse /\ UNCHANGED <<sampler, drawn>>
             ELSE LET b == build_canonical_batch_submission(AsBatch(req))
                  IN /\ Decided(b, AsBatch(req))
                     /\ IF b.submission \in {None, Err} THEN Refuse
                        ELSE Accept(b.submission.pair, b.submission.route,
                                    proposal_request_fingerprint(b.submission), Work(b.submission))
    /\ UNCHANGED <<deployment, config, pairs, engines, real, wall>>

request_aggregation_proof_inner(req) ==
    /\ Called
    /\ LET id == build_external_aggregate_submission(req)
       IN IF id = Err THEN Refuse
          ELSE Accept(id.submission.pair, id.submission.route, id, id.submission)
    /\ UNCHANGED <<deployment, config, pairs, engines, real, wall, limiter, admitted, sampler, drawn>>

BallotAllowed(ballot) ==
    /\ DOMAIN ballot \subseteq {"sp1", "risc0"}
    /\ \A t \in DOMAIN ballot : is_enabled(config.prover, t)

zk_any_config_from_ballot(ballot) ==
    [t \in {"sp1", "risc0"} |->
        IF t \in DOMAIN ballot THEN [probability |-> ballot[t][1], per_day |-> ballot[t][2]]
        ELSE None]

\* A ballot replaces the sampler, cached answers and last draws included.
set_ballot(key, ballot) ==
    /\ Called
    /\ LET auth == authorize_acl_feature_with_rate_limit(key, "admin_ballot_write")
           zk == zk_any_config_from_ballot(ballot)
       IN /\ limiter' = auth.limiter /\ admitted' = auth.admitted
          /\ IF auth.ok /\ BallotAllowed(ballot) /\ ZkAnyValid(zk)
             THEN sampler' = ZkAnySampler(zk) /\ drawn' = <<>>
             ELSE UNCHANGED <<sampler, drawn>>
    /\ UNCHANGED <<deployment, config, pairs, engines, real, wall, routed, accepted>>

get_ballot(key) ==
    /\ Called
    /\ LET auth == authorize_acl_feature_with_rate_limit(key, "admin_ballot_read")
       IN limiter' = auth.limiter /\ admitted' = auth.admitted
    /\ UNCHANGED <<deployment, config, pairs, engines, real, wall, sampler, drawn, routed, accepted>>

Elapse ==
    /\ Up /\ real < deployment.time /\ calls < deployment.calls
    /\ real' = real + 1 /\ wall' = wall + 1
    /\ UNCHANGED <<deployment, config, pairs, engines, limiter, sampler, admitted, drawn, routed, accepted,
                   calls>>

\* real + MaxStepBacks - wall is how far the wall clock was set back.
StepBack ==
    /\ Up /\ real + MaxStepBacks - wall < MaxStepBacks /\ calls < deployment.calls
    /\ wall' = wall - 1
    /\ UNCHANGED <<deployment, config, pairs, engines, real, limiter, sampler, admitted, drawn, routed,
                   accepted, calls>>

Next == \/ AppStateNew
        \/ \E req \in deployment.batches : request_batch_shasta_proof_inner(req)
        \/ \E key \in Keys, req \in deployment.proofs : request_proposal_proof(key, req)
        \/ \E req \in deployment.aggregates : request_aggregation_proof_inner(req)
        \/ \E key \in Keys, ballot \in deployment.ballots : set_ballot(key, ballot)
        \/ \E key \in Keys : get_ballot(key)
        \/ Elapse
        \/ StepBack

Spec == Init /\ [][Next]_vars

-----------------------------------------------------------------------------
(* Properties *)

\* A server that is up agrees with the rules compiled into its guests: for every
\* pair, at every block and time, the fork its description makes active and the
\* one the runtime specification makes active are the same, and so are the
\* execution specification it derives and the table a preflight puts into the
\* input of a guest (validate_host_sanity, align_taiko_runtime_forks).
\* The pairs do not change while it runs, so looking before the first call is
\* enough.
HostMatchesGuest ==
    Up /\ calls = 0 => \A i \in DOMAIN pairs : \A block, time \in 0..3 :
        LET spec == pairs[i].l2_spec
            guest == canonical_taiko_chain_spec(spec.chain_id, BuiltinTaiko[spec.chain_id])
        IN /\ active_fork(spec, block, time) = active_fork(guest, block, time)
           /\ to_taiko_chain_spec(spec) # Err
           /\ align_taiko_runtime_forks(spec).hard_forks = guest.hard_forks
           /\ \A f \in TAIKO_EXECUTION_FORKS \cap DOMAIN BuiltinTaiko[spec.chain_id] :
                from_alethia_fork_condition(to_taiko_chain_spec(spec)[f])
                    = from_alethia_fork_condition(BuiltinTaiko[spec.chain_id][f])

\* No window of the rate limit ever sees more requests of one key than the key
\* is allowed, wherever the window starts (AclRateLimiter::allow_request).
RateWithinWindow ==
    Up => \A i \in DOMAIN admitted : \A from \in 0..real :
        Len(SelectSeq(admitted[i], LAMBDA t : t >= from /\ t < from + RATE_LIMIT_WINDOW))
            <= rate_limit_or_default(i)

\* Under one ballot two selecting draws of a proof type are at least the
\* per-day interval apart in elapsed time, even when the system clock is set
\* back between them (check_frequency).
DrawsSpaced ==
    Up => \A i, j \in DOMAIN drawn :
        /\ i < j
        /\ drawn[i].seed # drawn[j].seed
        /\ drawn[i].result = drawn[j].result
        /\ drawn[i].result # None
        /\ \A k \in 1..(j - 1) : drawn[k].seed # drawn[j].seed
        /\ \A k \in 1..(i - 1) : drawn[k].seed # drawn[i].seed
        => LET t == drawn[i].result
           IN sampler.entries[t].per_day # 0
                => drawn[j].at - drawn[i].at >= min_interval(sampler.entries[t].per_day)

\* A repeated zk_any request gets the answer of its first one for as long as no
\* more seeds were drawn than the sampler remembers (draw_with_time), so that a
\* client that polls by resubmitting never sees its proof type change.
DecisionStable ==
    \A i, j \in DOMAIN drawn :
        /\ i < j
        /\ drawn[i].seed = drawn[j].seed
        /\ Cardinality({drawn[k].seed : k \in 1..j}) <= SEED_CACHE_CAPACITY
        => drawn[i].result = drawn[j].result

\* Whatever the overrides and the ballots did, a request that is routed finds an
\* engine, an SP1 request runs where that engine runs, and a zk_any draw only
\* selects enabled proof types (enabled_pipeline_registrations, set_ballot).
RoutedHasEngine ==
    Up => /\ \A r \in routed : <<r.pair, r.route.pipeline_key>> \in engines
          /\ \A i \in DOMAIN drawn :
                drawn[i].result # None => is_enabled(config.prover, drawn[i].result)

\* Two submissions with one task id ask for the same work: a resubmission can
\* only be answered with the proof it asked for (the request fingerprints).
SameIdSameWork == \A a, b \in accepted : a.id = b.id => a.work = b.work
=============================================================================
