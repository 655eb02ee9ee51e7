---------------------------- MODULE MCRequests ----------------------------
(***************************************************************************)
(* The life of a request, one part of the server at a time: the roots and  *)
(* the status calls of ProofStatus, the admission of requests, and the     *)
(* stages recorded for a root.  The parts are separate models; `area' says *)
(* which one a behaviour is about, and the others stand still.             *)
(* r1 proves prop1, r2 its aggregate batch, r3 prop1 and prop2 without an  *)
(* aggregate.                                                              *)
(***************************************************************************)
EXTENDS ProofStatus, Sequences, TLC

CONSTANTS r1, r2, r3, prop1, prop2, batch, w1, w2, c1, c2,
          Areas,  \* the parts this run is about
          Err

VARIABLES area, scene, u1, u2, u3, u4, u5, u6, u7, u8, u9, u10, u11, u12

runVars == <<allVars, area, scene, u1, u2, u3, u4, u5, u6, u7, u8, u9, u10, u11, u12>>

MCPlan == r1 :> {prop1} @@ r2 :> {prop1, batch} @@ r3 :> {prop1, prop2}
MCDeps == prop1 :> {} @@ prop2 :> {} @@ batch :> {prop1}

TheCast(rs, ws, cs, calls, faults, m) ==
    [roots |-> rs, workers |-> ws, callers |-> cs, calls |-> calls, faults |-> faults, moves |-> m]

MCCasts == {
    TheCast({r1}, {w1, w2}, {c1}, {"submit", "cancel"}, {"expire"}, 3),
    TheCast({r1, r2}, {w1}, {c1}, {"submit", "cancel"}, {}, 3),
    TheCast({r1}, {w1}, {c1, c2}, {"submit", "remove"}, {"lose"}, 4),
    TheCast({r1, r3}, {w1}, {c1}, {"submit", "sweep"}, {"retry"}, 3),
    TheCast({r1}, {w1}, {c1, c2}, {"submit", "sweep"}, {"remote", "refuse", "fail", "panic"}, 3),
    TheCast({r2}, {w1}, {c1}, {"submit", "remove"}, {"restart", "fail", "lose"}, 4),
    TheCast({r1}, {w1}, {c1, c2}, {"submit", "cancel"}, {"fail", "lose"}, 3),
    TheCast({r2}, {w1}, {c1}, {"read", "submit"}, {"restart", "fail", "retry"}, 2),
    TheCast({r1}, {w1}, {c1, c2}, {"read", "submit", "cancel", "remove"}, {}, 2),
    TheCast({r1}, {w1}, {c1}, {"read", "submit", "clear"}, {"lose", "remote"}, 2),
    TheCast({r3}, {w1}, {c1}, {"read", "submit"}, {"lose"}, 1),
    TheCast({r1, r2}, {w1}, {c1}, {"submit", "cancel", "tally"}, {"fail", "remote"}, 3)}

-----------------------------------------------------------------------------
\* Admission: deployments that differ from a sound one in one place each, and the
\* requests that tell them apart.
Rules == INSTANCE Admission WITH
    BuiltinTaiko <- {}, BuiltinEth <- {}, CanonicalName <- {}, Scale <- 3, Deployments <- {}, Keys <- {}, SeedRatio <- {},
    SEED_CACHE_CAPACITY <- 2, RATE_LIMIT_WINDOW <- 2, DEFAULT_ACL_RATE_LIMIT_PER_MINUTE <- 3,
    SHASTA_PROPOSAL_ID_MAX <- 4, MAX_PROPOSALS_PER_REQUEST <- 2, MAX_RANGE_LEN <- 4, Day <- 2,
    MaxStepBacks <- 1,
    deployment <- scene, config <- u1, pairs <- u2, engines <- u3, real <- u4, wall <- u5,
    limiter <- u6, sampler <- u7, admitted <- u8, drawn <- u9, routed <- u10, accepted <- u11,
    calls <- u12
AtTime(n) == [kind |-> "timestamp", at |-> n]
AtBlock(n) == [kind |-> "block", at |-> n]

TaikoForks(shasta, unzen) == Rules!Ontake :> AtBlock(0) @@ Rules!Pacaya :> AtBlock(0)
                             @@ Rules!Shasta :> AtTime(shasta) @@ Rules!Unzen :> AtTime(unzen)
TaikoTables == 7 :> (TaikoForks(1, 2) @@ Rules!Cancun :> AtTime(2)) @@ Rules!DEVNET :> TaikoForks(0, 0)
EthTables == 1 :> (<<0, 11>> :> AtBlock(0) @@ Rules!Cancun :> AtTime(1))
Names == "taiko" :> 7 @@ "l1" :> 1 @@ "devnet" :> Rules!DEVNET

Json(name) == [name |-> name, chain_id |-> None, hard_forks |-> None, max_spec_id |-> None,
               eip_1559_constants |-> None, is_taiko |-> None, l2_contract |-> None, checkpoint_store_contract |-> None,
               l1_contract |-> (Rules!Shasta :> "contract"), verifier_address_forks |-> <<>>,
               rpc |-> name, beacon_rpc |-> None, seconds_per_slot |-> 12]
Taiko(name, id) == [Json(name) EXCEPT !.l2_contract = <<id, 10001>>,
                                      !.checkpoint_store_contract = <<id, 5>>]
L1 == [Json("l1") EXCEPT !.beacon_rpc = "beacon"]
Chains == <<Taiko("taiko", 7), L1, Taiko("devnet", Rules!DEVNET)>>
JsonFork(block, time, text) == [block |-> block, timestamp |-> time, text |-> text]
ForksUntil(last) == Rules!Ontake :> JsonFork(0, None, "") @@ Rules!Pacaya :> JsonFork(0, None, "")
                    @@ Rules!Shasta :> JsonFork(None, 1, "") @@ Rules!Unzen :> last
Forks(later) == ForksUntil(JsonFork(None, later, ""))
ChainChoices == <<Chains,
                 <<[Taiko("taiko", 7) EXCEPT !.hard_forks = Forks(3)], L1>>,
                 <<[Taiko("taiko", 7) EXCEPT !.hard_forks = Forks(2)], L1>>,
                 <<[Taiko("taiko", 7) EXCEPT !.l2_contract = <<8, 10001>>], L1>>,
                 <<Taiko("taiko", 7), L1, [Taiko("copy", 7) EXCEPT !.chain_id = 7,
                    !.hard_forks = Forks(2), !.eip_1559_constants = "default", !.is_taiko = TRUE]>>,
                 <<[Taiko("taiko", 7) EXCEPT !.eip_1559_constants = "other"], L1>>,
                 <<Taiko("taiko", 7), L1, [Json("new") EXCEPT !.chain_id = 8,
                    !.hard_forks = Forks(2), !.is_taiko = FALSE]>>,
                 <<[Taiko("taiko", 7) EXCEPT !.hard_forks = ForksUntil(JsonFork(None, None, "soon"))], L1>>,
                 <<Taiko("taiko", 7), [L1 EXCEPT !.seconds_per_slot = 0]>>>>

Sp1Base == [prover |-> "local", mode |-> "prove", verify |-> TRUE, network_mode |-> "reserved",
            fulfillment_strategy |-> "hosted", skip_simulation |-> TRUE, timeout_secs |-> 2,
            max_price_per_pgu |-> None, auction_timeout_secs |-> None, rpc_url |-> None,
            cycle_limit |-> 5, proposal_cycle_limit |-> None,
            aggregation_cycle_limit |-> 3, network_request_max_attempts |-> 2,
            remote_verify |-> None, recursion |-> "compressed"]
Lane(on) == [enabled |-> on, base_url |-> "sgx", timeout_ms |-> 2]
Target(p, d) == [probability |-> p, per_day |-> d]
Prover == [risc0 |-> [enabled |-> TRUE, execution_po2 |-> 20, mock |-> FALSE],
           sp1 |-> [enabled |-> TRUE, config |-> Sp1Base], native |-> [enabled |-> TRUE],
           sgx |-> Lane(TRUE), sgxgeth |-> Lane(FALSE),
           zk_any |-> [sp1 |-> Target(2, 1), risc0 |-> Target(1, 0)]]
Pair(n, l) == [network |-> n, l1_network |-> l, l1_rpc |-> None, l2_rpc |-> None,
               l2_witness_rpc |-> None, beacon_rpc |-> None, sp1_verifier_rpc_url |-> None,
               sp1_verifier_address |-> None]
Verified(p) == [p EXCEPT !.sp1_verifier_rpc_url = "verifier", !.sp1_verifier_address = "address"]
Key(id, allow, rate) == [id |-> id, key |-> id, allow |-> allow, rate_limit_per_minute |-> rate]
Base == [server |-> [host |-> "host", port |-> 80,
                     acl |-> <<Key("k1", {"prover_submit", "admin_ballot_write"}, 1),
                               Key("k2", {"admin"}, None)>>],
         rpc |-> [pairs |-> <<Verified(Pair("taiko", "l1"))>>,
                  client |-> [timeout_ms |-> 2, concurrency_limit |-> 1, max_attempts |-> 2,
                              initial_backoff_ms |-> 1]],
         prover |-> Prover,
         runtime |-> [environment |-> "test", namespace |-> "ns", terminal_task_ttl_secs |-> 1,
                      cleanup_interval_secs |-> 1, cleanup_batch_size |-> 1,
                      startup_cleanup |-> <<"tasks">>, backend |-> "memory", bucket |-> None,
                      prefix |-> "p", allow_ephemeral |-> FALSE],
         queue |-> [workers |-> 1, maintenance_interval_ms |-> 1],
         preflight |-> [n \in {} |-> n]]

\* Sound variations first, then one fault each.
Configs ==
    <<[Base EXCEPT !.prover.sp1.config.prover = "network"],
     [Base EXCEPT !.prover.sp1.config.prover = "network", !.rpc.pairs = <<Pair("taiko", "l1")>>],
     [Base EXCEPT !.prover.sp1.config.prover = "mock", !.prover.risc0.enabled = FALSE,
                  !.prover.zk_any.risc0 = None],
     [Base EXCEPT !.rpc.pairs = <<Pair("taiko", "l1"), Pair("devnet", "l1")>>,
                  !.preflight = "taiko" :> "other"],
     [Base EXCEPT !.server.acl = <<>>, !.runtime.backend = "gcs", !.runtime.bucket = "b"],
     [Base EXCEPT !.rpc.pairs = <<Pair("taiko", "l1"), Pair("taiko", "l1")>>],
     [Base EXCEPT !.rpc.pairs[1].sp1_verifier_address = None],
     [Base EXCEPT !.rpc.pairs = <<Pair("l1", "taiko")>>],
     [Base EXCEPT !.rpc.pairs = <<Pair("unknown", "l1")>>],
     [Base EXCEPT !.prover.sp1.enabled = FALSE],
     [Base EXCEPT !.prover.sp1.config.network_mode = "mainnet", !.prover.sp1.config.prover = "network"],
     [Base EXCEPT !.prover.zk_any.risc0 = Target(3, 0)],
     [Base EXCEPT !.preflight = "devnet" :> "other"],
     [Base EXCEPT !.runtime.environment = "production"],
     [Base EXCEPT !.server.acl[2].key = "k1"]>>

NoCli == [port |-> None, l1_rpc |-> None, l2_rpc |-> None, prover_routes |-> None,
          rpc_retry_max_attempts |-> None, remote_sgx_timeout_ms |-> None, queue_workers |-> None]
Clis == <<[NoCli EXCEPT !.prover_routes = <<<<"sp1", "local">>, <<"risc0", "local">>>>],
         [NoCli EXCEPT !.prover_routes = <<<<"sp1", "network">>, <<"risc0", "local">>>>],
         [NoCli EXCEPT !.prover_routes = <<<<"sgx", "remote">>>>],
         [NoCli EXCEPT !.prover_routes = <<<<"sp1", "local">>, <<"sp1", "network">>>>],
         [NoCli EXCEPT !.l1_rpc = "elsewhere"]>>

Proposal(id, l1) == [proposal_id |-> id, l1_inclusion |-> l1, l2_block_numbers |-> <<4, 5>>,
                     checkpoint |-> None]
Batch(t, ps) == [proof_type |-> t, aggregate |-> FALSE, prover |-> None, graffiti |-> None,
                 sp1 |-> None, other_args |-> FALSE, network |-> None, l1_network |-> None,
                 proposals |-> ps]
ZkAny(l1) == Batch("zk_any", <<Proposal(1, l1)>>)
BatchCalls ==
    {ZkAny(1), ZkAny(2), ZkAny(3),
     Batch("sp1", <<Proposal(1, 1)>>),
     [Batch("sp1", <<Proposal(1, 1)>>) EXCEPT !.network = "devnet", !.l1_network = "l1"],
     [Batch("sp1", <<Proposal(1, 1)>>) EXCEPT !.sp1 =
            [Rules!NoOverrides EXCEPT !.prover = "network", !.network_request_max_attempts = 9]],
     [Batch("sp1", <<Proposal(1, 1)>>) EXCEPT !.sp1 = [Rules!NoOverrides EXCEPT !.timeout_secs = 0]],
     [Batch("sp1", <<Proposal(1, 1)>>) EXCEPT !.sp1 = [Rules!NoOverrides EXCEPT !.verify = FALSE]],
     [Batch("sgx", <<Proposal(1, 1)>>) EXCEPT !.proposals[1].l2_block_numbers = <<4, 6>>]}

Proof4(t, p) == [proof_type |-> t, aggregate |-> FALSE, prover |-> None, proposals |-> <<p>>]
Range4(id, a, b) == [proposal_id |-> id, l1_inclusion |-> 1, first |-> a, last |-> b,
                     checkpoint |-> None]
ProofCalls ==
    {Proof4("risc0", Range4(1, 4, 5)),
     Proof4("risc0", [Range4(1, 4, 5) EXCEPT !.checkpoint = "c"]),
     Proof4("sgx", Range4(1, 4, 9)),
     [Proof4("native", Range4(1, 4, 5)) EXCEPT !.aggregate = TRUE,
            !.proposals = <<Range4(1, 4, 5), Range4(3, 6, 6)>>]}

Full == {"input", "carry", "uuid", "quote", "proof"}
AggregateCall(t, chain, has) == [proof_type |-> t, proofs |-> <<[has |-> has, chain_id |-> chain]>>,
                        aggregation_ids |-> <<1>>, sp1 |-> None, other_args |-> FALSE,
                        network |-> None, l1_network |-> None]
AggregateCalls == {AggregateCall("sp1", 7, Full \ {"quote"}), AggregateCall("risc0", 7, Full \ {"quote"}),
                   AggregateCall("risc0", 7, Full), AggregateCall("risc0", 1, Full)}

Ballots == {"risc0" :> <<1, 2>>, "sp1" :> <<3, 0>>, "native" :> <<1, 0>>}

\* Seeds 1 and 2 fall on SP1, seed 3 on RISC0.
Ratios == <<1, 1>> :> 0 @@ <<1, 2>> :> 1 @@ <<1, 3>> :> 2

Deploy(c) == [file |-> [config |-> c, refs |-> <<>>], env |-> <<>>, cli |-> NoCli,
              chains |-> Chains, features |-> {"host", "local-provers"}, calls |-> 2, time |-> 0,
              batches |-> BatchCalls, proofs |-> ProofCalls, aggregates |-> AggregateCalls, ballots |-> Ballots]
Mocked == [Base EXCEPT !.prover.sp1.config.prover = "mock"]
DeploymentSeq ==
    <<[Deploy(Base) EXCEPT !.calls = 3, !.time = 2, !.batches = {ZkAny(1), ZkAny(2), ZkAny(3)}, !.proofs = {},
                            !.aggregates = {}]>>
    \o [i \in DOMAIN Configs |-> Deploy(Configs[i])]
    \o [i \in DOMAIN ChainChoices |-> [Deploy(Base) EXCEPT !.chains = ChainChoices[i]]]
    \o [i \in DOMAIN Clis |-> [Deploy(Base) EXCEPT !.cli = Clis[i]]]
    \o [i \in DOMAIN Clis |-> [Deploy(Mocked) EXCEPT !.cli = Clis[i]]]
    \o <<[Deploy(Base) EXCEPT !.file.refs = "sgx" :> "URL"],
         [Deploy(Base) EXCEPT !.file.refs = "sgx" :> "URL", !.env = "URL" :> "there"],
         [Deploy(Base) EXCEPT !.features = {"host"}],
         [Deploy(Base) EXCEPT !.features = {"local-provers"}]>>
MCDeployments == {DeploymentSeq[i] : i \in DOMAIN DeploymentSeq}

Door == INSTANCE Admission WITH
    BuiltinTaiko <- TaikoTables, BuiltinEth <- EthTables,
    CanonicalName <- Names, Scale <- 3, Deployments <- MCDeployments,
    Keys <- {"k1", "k2", "other"}, SeedRatio <- Ratios,
    SEED_CACHE_CAPACITY <- 2, RATE_LIMIT_WINDOW <- 2, DEFAULT_ACL_RATE_LIMIT_PER_MINUTE <- 3,
    SHASTA_PROPOSAL_ID_MAX <- 4, MAX_PROPOSALS_PER_REQUEST <- 2, MAX_RANGE_LEN <- 4, Day <- 2,
    MaxStepBacks <- 1,
    deployment <- scene, config <- u1, pairs <- u2, engines <- u3, real <- u4, wall <- u5,
    limiter <- u6, sampler <- u7, admitted <- u8, drawn <- u9, routed <- u10, accepted <- u11,
    calls <- u12

-----------------------------------------------------------------------------
\* Stages: roots that share proposals: a batch without an aggregate, an aggregate
\* over proposals given out of order, and an aggregate of external proofs.
P(n) == [proposal_id |-> n, blocks |-> <<10 * n, 10 * n + 1>>, pins |-> n]

StagePlan(id, proposals, aggregate, inputs) ==
  [id |-> id, pair |-> <<"l2", "l1">>, key |-> "sp1", route |-> "sp1/network",
   proposals |-> proposals, aggregate |-> aggregate, inputs |-> inputs]

A == StagePlan("A", <<P(2), P(1)>>, TRUE, 0)
B == StagePlan("B", <<P(1)>>, FALSE, 0)
C == StagePlan("C", <<P(1), P(2)>>, FALSE, 0)
D == StagePlan("D", <<P(1)>>, TRUE, 0)
X == StagePlan("X", <<>>, TRUE, 2)

StageCast(roots, m, n) ==
  [pair |-> <<"l2", "l1">>, route |-> "sp1/network", roots |-> roots,
   leases |-> m, restarts |-> n]

StageCasts == {StageCast([A |-> A], 2, 0), StageCast([B |-> B, D |-> D], 1, 0), StageCast([C |-> C], 2, 1),
            StageCast([B |-> B, X |-> X], 2, 1)}

Submission(id, attempt) ==
  [id |-> id, attempt |-> attempt, submitted |-> 10, timeout |-> 5, limits |-> 1]

StageSubmissions == {Submission("q1", 1), Submission("q2", 2)}

Stages == INSTANCE ProofStages WITH Casts <- StageCasts, Submissions <- StageSubmissions,
    cast <- scene, wants <- u1, records <- u2, handler <- u3, attached <- u4, done <- u5,
    proofs <- u6, lease <- u7, tracked <- u8, leases <- u9, restarts <- u10

-----------------------------------------------------------------------------
Unused(variable) == variable = None

\* The roots of a behaviour about another part: nothing is asked for.
StandStill == StatusInit /\ cast = CHOOSE c \in Casts : TRUE

RunInit ==
    /\ area \in Areas
    /\ \/ /\ area = "roots" /\ StatusInit
          /\ Unused(scene) /\ Unused(u1) /\ Unused(u2) /\ Unused(u3) /\ Unused(u4) /\ Unused(u5)
          /\ Unused(u6) /\ Unused(u7) /\ Unused(u8) /\ Unused(u9) /\ Unused(u10) /\ Unused(u11)
          /\ Unused(u12)
       \/ area = "admission" /\ StandStill /\ Door!Init
       \/ area = "stages" /\ StandStill /\ Stages!Init /\ Unused(u11) /\ Unused(u12)

RunNext ==
    \/ /\ area = "roots" /\ StatusNext
       /\ UNCHANGED <<area, scene, u1, u2, u3, u4, u5, u6, u7, u8, u9, u10, u11, u12>>
    \/ area = "admission" /\ Door!Next /\ UNCHANGED <<allVars, area>>
    \/ area = "stages" /\ Stages!Next /\ UNCHANGED <<allVars, area, u11, u12>>

RunSpec == RunInit /\ [][RunNext]_runVars

-----------------------------------------------------------------------------
\* A server that starts agrees with the fork rules compiled into its guests
\* (validate_host_sanity).
HostMatchesGuest == area = "admission" => Door!HostMatchesGuest

\* What is admitted is what the configuration and the request say, whatever the
\* clocks, the overrides and the order of the calls.  Two accepted submissions
\* with one identity ask for the same proof of the same blocks under the same
\* settings (proposal_task_fingerprint); no window sees more requests of a key
\* than it is allowed; draws of a zk proof type keep their distance, are stable
\* for a seed and select what is enabled; what is routed finds an engine.
AdmissionIsSound ==
    area = "admission" =>
        /\ Door!SameIdSameWork /\ Door!RateWithinWindow /\ Door!DrawsSpaced
        /\ Door!DecisionStable /\ Door!RoutedHasEngine

\* Whatever the observer wrote into a record, it decodes after a restart, the
\* plan rebuilt from it is the first one, and a failed root can be resumed
\* (decode_for_record, recovery_plan, failed_root_can_resume).
RecordsSurvive == area = "stages" => Stages!PersistedDecodes /\ Stages!RecoveryKeepsPlan /\ Stages!FailedCanResume

\* A record goes one way.  An incarnation that ended stays so (a failed one may
\* be recovered), a worker changes only the incarnations it holds a permit for,
\* and what was submitted to a provider is replaced only by a later attempt.
RecordsAdvance ==
    [][/\ area = "roots" => EndIsFinal /\ ReplacedSpared
       /\ area = "stages" => Stages!SubmissionsAdvance]_runVars
============================================================================
