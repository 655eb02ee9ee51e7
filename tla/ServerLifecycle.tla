-------------------------- MODULE ServerLifecycle --------------------------
(***************************************************************************)
(* The life of one server process: the start-up checks, the building of    *)
(* the runtime and of one engine per network pair and proving route, the   *)
(* supervised worker pools, the readiness endpoint, and the shutdown that  *)
(* a signal begins.                                                        *)
(*                                                                         *)
(* Four activities meet.  The main task runs run_server.  A second task    *)
(* waits for the signal, closes the execution gate and tells the main      *)
(* task to bound the HTTP drain.  Requests are handled by tasks of their   *)
(* own, which outlive the server future when the HTTP drain times out.     *)
(* The supervisors of an engine restart its worker and its maintenance     *)
(* task whenever they die.  Handlers, workers and the cleanup loop write   *)
(* to the store while they hold the execution gate; no such write has a    *)
(* deadline, and neither has the wait for the gate.                        *)
(***************************************************************************)
EXTENDS Integers, Sequences, FiniteSets

CONSTANTS
    Casts,      \* the deployments to look at
    None        \* no request, no job, no answer

(***************************************************************************)
(* A cast is                                                               *)
(*   config    the loaded configuration:                                   *)
(*     pairs     a sequence of [key, l1, l2, witness, chains, verifier]:   *)
(*               the three node addresses, whether both chain              *)
(*               specifications convert, whether the pair names an SP1     *)
(*               verifier                                                  *)
(*     routes    the set of <<proof type, runner>> that are enabled        *)
(*     scopes    the start-up cleanup scopes, in order                     *)
(*     sp1       [prove, verify, verifier, key, url]                       *)
(*     interval  queue.maintenance_interval_ms                             *)
(*     valid     Config::validate and the routes' own validation           *)
(*   nodes     address -> "right", "wrong" (another chain, a store whose   *)
(*             generation moved), "down" or "malformed" (not a URL)        *)
(*   broken    the start-up steps that fail                                *)
(*   requests  request -> [pair, key, slow, hangs, op, of]: the engine it  *)
(*             is for, whether its client never finishes sending it,       *)
(*             whether the provider never answers its submission, what the *)
(*             handler does under the gate ("attach"; "replace" for        *)
(*             replace and recover_if_inactive; "cancel" for cancel and    *)
(*             the removal of a root) and which request's graph a "cancel" *)
(*             detaches                                                    *)
(*   panics    how often a worker task may die                             *)
(*   flaps     how often a node may change its answer                      *)
(*   seconds   how often a second passes without a maintenance tick        *)
(*   probes    how often the readiness endpoint is asked                   *)
(***************************************************************************)
ASSUME ServerLifecycleAssumption == \A c \in Casts : \A r \in DOMAIN c.requests : <<"request", r>> # None

VARIABLES
    cast,
    nodes,      \* address -> what the node answers now
    main,       \* the step run_server is at
    cleaned,    \* the cleanup scopes already done
    gate,       \* holder of the execution lifecycle gate: a request, the worker
                \* of an engine or the cleanup loop
    draining,   \* RuntimeManager.draining
    active,     \* RuntimeManager.active
    signal,     \* how far the signal task has got
    accepting,  \* the listener still takes requests
    reqs,       \* request -> where its handling stands
    engines,    \* engine -> its worker group, its queue and its job
    cleanup,    \* the runtime cleanup loop
    probe,      \* the readiness request being answered
    budget      \* remaining panics, flaps, seconds and probes

vars == <<cast, nodes, main, cleaned, gate, draining, active, signal, accepting, reqs,
          engines, cleanup, probe, budget>>

config == cast.config

Enabled(proofType) == \E route \in config.routes : route[1] = proofType

Pairs == {config.pairs[i] : i \in 1..Len(config.pairs)}

-----------------------------------------------------------------------------
(* Start-up checks and readiness of what the server depends on.            *)

\* build_rpc_client fails on an address that is no URL; eth_chainId fails on a
\* node that is down and disagrees on a node of another chain.
check_rpc_chain_id(address) == nodes[address] = "right"

\* The witness node is asked only when it is not the L2 node.
check_rpc_pairs ==
    \A p \in Pairs :
        /\ check_rpc_chain_id(p.l1)
        /\ check_rpc_chain_id(p.l2)
        /\ p.witness # p.l2 => check_rpc_chain_id(p.witness)

sp1_network_credentials_required == <<"sp1", "network">> \in config.routes

\* A pair's own verifier replaces the global one.
sp1_effective_pair_config(p) == p.verifier \/ config.sp1.verifier

check_sp1_prover ==
    /\ sp1_network_credentials_required =>
         /\ config.sp1.prove /\ config.sp1.verify =>
              \A p \in Pairs : sp1_effective_pair_config(p)
         /\ config.sp1.key = "valid"
    /\ config.sp1.url # "malformed"

check_prover == config.valid /\ (Enabled("sp1") => check_sp1_prover)

\* The remote TEE provers that are enabled answer /health.
check_accelerator_health ==
    \A t \in {"sgx", "sgxgeth"} : Enabled(t) => nodes[t] = "right"

ensure_startup_ready == check_rpc_pairs /\ check_prover

-----------------------------------------------------------------------------
(* The engines.                                                            *)

Tasks == {"worker", "maintenance"}

\* PipelineKey of a route; both SP1 runners share one.
PipelineKey(route) == route[1]

\* setup::build_provider and setup::build_context: every node address must be
\* a URL and both chain specifications must convert.
build_provider(p) == \A a \in {p.l1, p.l2, p.witness} : nodes[a] # "malformed"
build_context(p) == p.chains

\* The engine of one route: the SP1 prover and the guest programs were
\* prepared once for all pairs; a TEE lane builds a client for its own URL.
build_remote_sgx_engine(p, route) ==
    nodes[route[1]] # "malformed" /\ build_provider(p) /\ build_context(p)
build_local_engine(p) == build_provider(p) /\ build_context(p)

EngineBuilds(p, route) ==
    IF route[2] = "remote" THEN build_remote_sgx_engine(p, route) ELSE build_local_engine(p)

\* A new engine: no worker group, nothing queued, no maintenance tick yet.
\* group is "none", "live", or "taken" once shutdown took its handles; told
\* says whether the group's shutdown channel was set.
NewEngine ==
    [group |-> "none", told |-> FALSE, sup |-> [t \in Tasks |-> "off"],
     queue |-> {}, job |-> None, permit |-> FALSE, age |-> None]

\* The engine with another worker group, or with other work.
Grouped(engine, group, told, sup) ==
    [group |-> group, told |-> told, sup |-> sup, queue |-> engine.queue,
     job |-> engine.job, permit |-> engine.permit, age |-> engine.age]
Working(engine, queue, job, permit) ==
    [group |-> engine.group, told |-> engine.told, sup |-> engine.sup, queue |-> queue,
     job |-> job, permit |-> permit, age |-> engine.age]
Aged(engine, age) ==
    [group |-> engine.group, told |-> engine.told, sup |-> engine.sup, queue |-> engine.queue,
     job |-> engine.job, permit |-> engine.permit, age |-> age]

build_pipeline_factory ==
    [e \in {<<p.key, PipelineKey(r)>> : p \in Pairs, r \in config.routes} |-> NewEngine]

\* spawn_workers: a supervisor for the worker and one for maintenance.
spawn_workers(engine) == Grouped(engine, "live", engine.told, [t \in Tasks |-> "run"])

\* WorkerGroup::all_alive, over the groups the engine has registered.
all_alive(engine) ==
    engine.group = "live" /\ \A t \in Tasks : engine.sup[t] # "done"

workers_healthy(engine) == engine.group = "none" \/ all_alive(engine)

\* Time is counted in steps of a second.
StepMs == 1000

\* Three maintenance intervals, but at least a second.
QueueMaxAge == IF 3 * config.interval > 1000 THEN 3 * config.interval ELSE 1000

queue_maintenance_ready(engine) ==
    engine.age # None /\ engine.age * StepMs <= QueueMaxAge

\* An age beyond every limit is not told apart any further.
AgeCap == QueueMaxAge \div StepMs + 1

-----------------------------------------------------------------------------
(* Starting the process.                                                   *)

Startup == <<"startup_check", "config", "store", "cleanup", "initialize", "reconcile",
             "resources", "factory", "metadata", "restore", "workers", "bind">>

After(step) == Startup[(CHOOSE i \in 1..Len(Startup) : Startup[i] = step) + 1]

\* A start-up step that fails ends the process with its error.
Proceed(step, ok) == main' = IF ok THEN After(step) ELSE "failed"

StartVars == <<cast, nodes, gate, draining, active, signal, accepting, reqs, probe, budget>>

Works(step) == step \notin cast.broken

StartupCheck ==
    /\ main = "startup_check"
    /\ Proceed("startup_check", ensure_startup_ready)
    /\ UNCHANGED <<cleaned, engines, cleanup>>
    /\ UNCHANGED StartVars

\* Config::validate and enabled_pipeline_registrations.
ValidateConfig ==
    /\ main = "config"
    /\ Proceed("config", config.valid)
    /\ UNCHANGED <<cleaned, engines, cleanup>>
    /\ UNCHANGED StartVars

build_runtime ==
    /\ main = "store"
    /\ Proceed("store", Works("store"))
    /\ UNCHANGED <<cleaned, engines, cleanup>>
    /\ UNCHANGED StartVars

\* One scope after the other; the first that fails aborts the start, the
\* scopes before it stay cleaned.
CleanScope ==
    /\ main = "cleanup"
    /\ IF cleaned = Len(config.scopes)
       THEN main' = After("cleanup") /\ UNCHANGED cleaned
       ELSE \/ cleaned' = cleaned + 1 /\ UNCHANGED main
            \/ ~Works("cleanup") /\ main' = "failed" /\ UNCHANGED cleaned
    /\ UNCHANGED <<engines, cleanup>>
    /\ UNCHANGED StartVars

\* runtime.initialize, then reconcile_invalidated_proof_artifacts.
initialize_runtime ==
    /\ main \in {"initialize", "reconcile"}
    /\ Proceed(main, Works(main))
    /\ UNCHANGED <<cleaned, engines, cleanup>>
    /\ UNCHANGED StartVars

\* The guest programs are loaded and the SP1 prover is set up when some
\* route needs them.
PrepareResources ==
    /\ main = "resources"
    /\ Proceed("resources", (Enabled("sp1") \/ Enabled("risc0")) => Works("resources"))
    /\ UNCHANGED <<cleaned, engines, cleanup>>
    /\ UNCHANGED StartVars

\* One engine for every pair and route, or none at all.
register_pair_pipelines ==
    /\ main = "factory"
    /\ \E ok \in {\A p \in Pairs, r \in config.routes : EngineBuilds(p, r)} :
         /\ Proceed("factory", ok)
         /\ engines' = IF ok THEN build_pipeline_factory ELSE engines
    /\ UNCHANGED <<cleaned, cleanup>>
    /\ UNCHANGED StartVars

\* Persisted metadata is decoded and pending roots are restored before any
\* worker runs.
RestorePersisted ==
    /\ main \in {"metadata", "restore"}
    /\ Proceed(main, Works(main))
    /\ UNCHANGED <<cleaned, engines, cleanup>>
    /\ UNCHANGED StartVars

finish_initialization ==
    /\ main = "workers"
    /\ main' = After("workers")
    /\ engines' = [e \in DOMAIN engines |-> spawn_workers(engines[e])]
    /\ cleanup' = "idle"
    /\ UNCHANGED cleaned
    /\ UNCHANGED StartVars

\* TcpListener::bind; a failure drops the state, and with it every group.
Bind ==
    /\ main = "bind"
    /\ IF Works("bind")
       THEN main' = "serving" /\ accepting' = TRUE /\ UNCHANGED <<engines, cleanup>>
       ELSE /\ main' = "failed"
            /\ engines' = [e \in DOMAIN engines |-> NewEngine]
            /\ cleanup' = "off"
            /\ UNCHANGED accepting
    /\ UNCHANGED <<cast, nodes, cleaned, gate, draining, active, signal, reqs, probe, budget>>

-----------------------------------------------------------------------------
(* Requests: the handler registers its root and attaches its plan under    *)
(* the execution gate.  Replacing, recovering and cancelling a root write  *)
(* to the store first, and the gate is held until the store answers.       *)

Requests == DOMAIN reqs

ReqVars == <<cast, nodes, main, cleaned, draining, active, signal, accepting, cleanup, probe,
             budget>>

Arrive(r) ==
    /\ accepting /\ reqs[r] = "idle"
    /\ reqs' = [reqs EXCEPT ![r] = "open"]
    /\ UNCHANGED <<gate, engines>>
    /\ UNCHANGED ReqVars

EngineOf(r) == <<cast.requests[r].pair, cast.requests[r].key>>

\* The handler waits for the gate; a draining runtime refuses it, be it by the
\* check of attach and recover_if_inactive or by the write itself.  A request
\* whose client is still sending has not come this far.
TakeGate(r) ==
    /\ reqs[r] = "open" /\ ~cast.requests[r].slow
    /\ gate = None
    /\ IF active /\ ~draining
       THEN /\ gate' = <<"request", r>>
            /\ reqs' = [reqs EXCEPT ![r] =
                          IF cast.requests[r].op = "attach" THEN "attaching" ELSE "writing"]
       ELSE gate' = gate /\ reqs' = [reqs EXCEPT ![r] = "refused"]
    /\ UNCHANGED engines
    /\ UNCHANGED ReqVars

\* The store answers replace or recover_if_inactive: the root was written and
\* its plan is attached next, or it had changed or the write failed.
replace(r) ==
    /\ reqs[r] = "writing" /\ cast.requests[r].op = "replace"
    /\ \/ reqs' = [reqs EXCEPT ![r] = "attaching"] /\ UNCHANGED gate
       \/ reqs' = [reqs EXCEPT ![r] = "refused"] /\ gate' = None
    /\ UNCHANGED engines
    /\ UNCHANGED ReqVars

\* The store answers a cancellation or removal: the root's graph leaves the
\* queue, unless the root had changed or the write failed.
cancel(r) ==
    /\ reqs[r] = "writing" /\ cast.requests[r].op = "cancel"
    /\ \/ /\ reqs' = [reqs EXCEPT ![r] = "cancelled"]
          /\ engines' = [engines EXCEPT ![EngineOf(r)] =
                           Working(@, @.queue \ {cast.requests[r].of}, @.job, @.permit)]
       \/ reqs' = [reqs EXCEPT ![r] = "refused"] /\ UNCHANGED engines
    /\ gate' = None
    /\ UNCHANGED ReqVars

\* The rest of attach.  The root is read again, as others left it: gone,
\* replaced or ended (refused, like a plan the engine does not take), completed
\* (nothing to do), or waiting, and then its graph enters the engine's queue,
\* which wakes a worker.  A replaced or recovered root is not read again.
attach(r) ==
    /\ reqs[r] = "attaching"
    /\ \/ /\ engines' = [engines EXCEPT ![EngineOf(r)] =
                           Working(@, @.queue \union {r}, @.job, @.permit)]
          /\ reqs' = [reqs EXCEPT ![r] = "attached"]
       \/ /\ cast.requests[r].op = "attach"
          /\ reqs' = [reqs EXCEPT ![r] = "attached"] /\ UNCHANGED engines
       \/ reqs' = [reqs EXCEPT ![r] = "refused"] /\ UNCHANGED engines
    /\ gate' = None
    /\ UNCHANGED ReqVars

\* The client has its answer and the connection closes.
Respond(r) ==
    /\ reqs[r] \in {"attached", "cancelled", "refused"}
    /\ reqs' = [reqs EXCEPT ![r] = "closed"]
    /\ UNCHANGED <<gate, engines>>
    /\ UNCHANGED ReqVars

-----------------------------------------------------------------------------
(* Workers and their supervisors.                                          *)

EngineVars == <<cast, nodes, main, cleaned, draining, active, signal, accepting, reqs, cleanup,
                probe>>

Running(e, t) == engines[e].sup[t] = "run" /\ ~engines[e].told

\* The worker takes the next graph; a network proof first reserves the
\* checkpoint of its submission, which a draining runtime refuses.
StartJob(e) ==
    /\ Running(e, "worker") /\ engines[e].job = None
    /\ \E r \in engines[e].queue :
         engines' = [engines EXCEPT ![e] =
            Working(@, @.queue \ {r}, IF active /\ ~draining THEN r ELSE None,
                    active /\ ~draining)]
    /\ UNCHANGED <<gate, budget>>
    /\ UNCHANGED EngineVars

\* The provider accepted the submission: its identifier is written under the
\* gate, also by a draining runtime.
CheckpointJob(e) ==
    /\ Running(e, "worker") /\ engines[e].permit /\ active
    /\ ~cast.requests[engines[e].job].hangs
    /\ gate = None /\ gate' = <<"worker", e>>
    /\ UNCHANGED <<engines, budget>>
    /\ UNCHANGED EngineVars

\* The store answers the worker: the checkpoint is durable or refused for good,
\* or it failed and is tried again.
CheckpointAnswered(e) ==
    /\ Running(e, "worker") /\ gate = <<"worker", e>>
    /\ \/ engines' = [engines EXCEPT ![e] = Working(@, @.queue, None, FALSE)]
       \/ UNCHANGED engines
    /\ gate' = None
    /\ UNCHANGED budget
    /\ UNCHANGED EngineVars

\* A task that dies or is aborted takes what it held with it.
Without(engine, t) ==
    IF t = "worker" THEN Working(engine, engine.queue, None, FALSE) ELSE engine
Dropped(e, t) == IF t = "worker" /\ gate = <<"worker", e>> THEN None ELSE gate
Supervised(engine, t, step) ==
    Grouped(engine, engine.group, engine.told, [engine.sup EXCEPT ![t] = step])

\* A worker or maintenance task dies.
Panic(e, t) ==
    /\ Running(e, t) /\ budget.panics > 0
    /\ engines' = [engines EXCEPT ![e] = Supervised(Without(@, t), t, "backoff")]
    /\ gate' = Dropped(e, t)
    /\ budget' = [budget EXCEPT !.panics = @ - 1]
    /\ UNCHANGED EngineVars

\* The supervisor starts the task anew once the back-off is over.
Restart(e, t) ==
    /\ engines[e].sup[t] = "backoff" /\ ~engines[e].told
    /\ engines' = [engines EXCEPT ![e] = Supervised(@, t, "run")]
    /\ UNCHANGED <<gate, budget>>
    /\ UNCHANGED EngineVars

\* Shutdown reaches a supervisor while its task runs (the task is aborted and
\* awaited) or during the back-off; either way the supervisor ends.
SupervisorStops(e, t) ==
    /\ engines[e].told /\ engines[e].sup[t] \in {"run", "backoff"}
    /\ engines' = [engines EXCEPT ![e] = Supervised(Without(@, t), t, "done")]
    /\ gate' = Dropped(e, t)
    /\ UNCHANGED budget
    /\ UNCHANGED EngineVars

MaintenanceTick(e) ==
    /\ Running(e, "maintenance") /\ engines[e].age # 0
    /\ engines' = [engines EXCEPT ![e] = Aged(@, 0)]
    /\ UNCHANGED <<gate, budget>>
    /\ UNCHANGED EngineVars

\* A second passes.
TimePasses ==
    /\ budget.seconds > 0
    /\ \E e \in DOMAIN engines : engines[e].age # None /\ engines[e].age < AgeCap
    /\ engines' = [e \in DOMAIN engines |->
          Aged(engines[e], IF engines[e].age = None THEN None
                           ELSE IF engines[e].age < AgeCap THEN engines[e].age + 1
                           ELSE engines[e].age)]
    /\ budget' = [budget EXCEPT !.seconds = @ - 1]
    /\ UNCHANGED gate
    /\ UNCHANGED EngineVars

CleanupVars == <<cast, nodes, main, cleaned, draining, active, signal, accepting, reqs, engines,
                 probe, budget>>

\* The cleanup loop cancels orphans and retires a batch of roots under the gate,
\* while the runtime accepts mutations.
CleanupTakesGate ==
    /\ cleanup = "idle" /\ active /\ ~draining
    /\ gate = None /\ gate' = <<"cleanup">>
    /\ cleanup' = "retiring"
    /\ UNCHANGED CleanupVars

\* The store answers: the gate is released before the artifacts of the batch are
\* deleted, which holds the namespace fence alone.
CleanupAnswered ==
    /\ \/ cleanup = "retiring" /\ cleanup' \in {"deleting", "idle"}
          /\ gate = <<"cleanup">> /\ gate' = None
       \/ cleanup = "deleting" /\ cleanup' = "idle" /\ UNCHANGED gate
    /\ UNCHANGED CleanupVars

CleanupLoop == CleanupTakesGate \/ CleanupAnswered

-----------------------------------------------------------------------------
(* The signal and the shutdown.                                            *)

shutdown_signal ==
    /\ main = "serving" /\ signal = "none"
    /\ signal' = "raised"
    /\ UNCHANGED <<cast, nodes, main, cleaned, gate, draining, active, accepting, reqs,
                   engines, cleanup, probe, budget>>

\* Mutant: draining starts without waiting for the gate.
BeginShutdownUngated(next) ==
    /\ draining' = TRUE
    /\ next

\* ProofLifecycle::begin_shutdown: the gate is free, so no attachment is
\* between its check and its end while draining starts.
begin_shutdown(next) ==
    /\ gate = None
    /\ draining' = TRUE
    /\ next

SignalTask ==
    /\ signal = "raised"
    /\ begin_shutdown(signal' = "draining")
    /\ UNCHANGED <<cast, nodes, main, cleaned, gate, active, accepting, reqs, engines, cleanup,
                   probe, budget>>

\* The shutdown future resolves: the main task is notified and the listener
\* closes.
NotifyDrain ==
    /\ signal = "draining"
    /\ signal' = "notified" /\ accepting' = FALSE
    /\ UNCHANGED <<cast, nodes, main, cleaned, gate, draining, active, reqs, engines, cleanup,
                   probe, budget>>

Open ==
    {r \in Requests :
        reqs[r] \in {"open", "writing", "attaching", "attached", "cancelled", "refused"}}

\* Every connection has closed, or HTTP_GRACEFUL_DRAIN_TIMEOUT is over: the
\* main task goes on in either case, and handlers that are still open keep
\* running.
run_server ==
    /\ main = "serving" /\ signal = "notified"
    /\ main' = "shutdown"
    /\ UNCHANGED <<cast, nodes, cleaned, gate, draining, active, signal, accepting, reqs,
                   engines, cleanup, probe, budget>>

\* AppState::shutdown closes the gate again, for a server that ended by itself.
CloseGate ==
    /\ main = "shutdown"
    /\ begin_shutdown(main' = "drain")
    /\ UNCHANGED <<cast, nodes, cleaned, gate, active, signal, accepting, reqs, engines, cleanup,
                   probe, budget>>

Held == {e \in DOMAIN engines : engines[e].permit}

\* begin_draining_with_deadline: the commits in flight end and every accepted
\* submission is checkpointed, or SUBMISSION_CHECKPOINT_DRAIN_TIMEOUT is over;
\* the runtime becomes inactive in either case.
\* Mutant: the drain has no deadline.
DrainForever ==
    /\ main = "drain"
    /\ cleanup # "deleting" /\ Held = {}
    /\ active' = FALSE /\ main' = "pipelines"
    /\ UNCHANGED <<cast, nodes, cleaned, gate, draining, signal, accepting, reqs, engines,
                   cleanup, probe, budget>>

DrainSubmissions ==
    /\ main = "drain"
    /\ active' = FALSE /\ main' = "pipelines"
    /\ UNCHANGED <<cast, nodes, cleaned, gate, draining, signal, accepting, reqs, engines,
                   cleanup, probe, budget>>

\* Mutant: the stopped group leaves the engine's registry.
ForgetGroup(engine) == Grouped(engine, "none", TRUE, engine.sup)

\* WorkerGroup::shutdown, first half: the channel is set and the handles are
\* taken; the group stays registered.
shutdown_workers(engine) == Grouped(engine, "taken", TRUE, engine.sup)

\* The engines stop one after the other, each awaited before the next.
StopEngine ==
    /\ main = "pipelines"
    /\ \A e \in DOMAIN engines :
         engines[e].told => \A t \in Tasks : engines[e].sup[t] = "done"
    /\ \E e \in DOMAIN engines :
         /\ ~engines[e].told
         /\ engines' = [engines EXCEPT ![e] = shutdown_workers(@)]
    /\ UNCHANGED <<cast, nodes, main, cleaned, gate, draining, active, signal, accepting, reqs,
                   cleanup, probe, budget>>

EnginesStopped ==
    /\ main = "pipelines"
    /\ \A e \in DOMAIN engines :
         engines[e].told /\ \A t \in Tasks : engines[e].sup[t] = "done"
    /\ main' = "background"
    /\ UNCHANGED <<cast, nodes, cleaned, gate, draining, active, signal, accepting, reqs,
                   engines, cleanup, probe, budget>>

\* The background tasks are aborted and awaited, and the process ends with
\* whatever handlers it still has.
Exit ==
    /\ main = "background"
    /\ cleanup' = "off" /\ main' = "exited"
    /\ reqs' = [r \in Requests |-> IF r \in Open THEN "closed" ELSE reqs[r]]
    /\ probe' = [at |-> "none", passed |-> probe.passed, late |-> probe.late,
                 status |-> probe.status]
    /\ gate' = None
    /\ UNCHANGED <<cast, nodes, cleaned, draining, active, signal, accepting, engines, budget>>

-----------------------------------------------------------------------------
(* The readiness endpoint: six checks, one after the other, each awaited.  *)

ProbeVars == <<cast, nodes, main, cleaned, gate, draining, active, signal, accepting, reqs,
               engines, cleanup>>

NoProbe == [at |-> "none", passed |-> {}, late |-> FALSE, status |-> "none"]

\* late records that the process was already draining when the probe came.
Probe ==
    /\ accepting /\ probe.at = "none" /\ probe.status = "none"
    /\ budget.probes > 0 /\ budget' = [budget EXCEPT !.probes = @ - 1]
    /\ probe' = [at |-> "reth", passed |-> {}, late |-> draining, status |-> "none"]
    /\ UNCHANGED ProbeVars

Checks == <<"reth", "runtime", "queue", "prover", "accelerator", "workers">>

Check(check) ==
    CASE check = "reth" -> check_rpc_pairs
      [] check = "runtime" -> active /\ ~draining /\ nodes["store"] = "right"
      [] check = "queue" -> \A e \in DOMAIN engines : queue_maintenance_ready(engines[e])
      [] check = "prover" -> check_prover
      [] check = "accelerator" -> check_accelerator_health
      [] check = "workers" -> \A e \in DOMAIN engines : workers_healthy(engines[e])

readiness_response(passed) ==
    IF passed = {Checks[i] : i \in 1..Len(Checks)} THEN "ok" ELSE "error"

evaluate_readiness ==
    /\ probe.at # "none"
    /\ LET i == CHOOSE k \in 1..Len(Checks) : Checks[k] = probe.at
           passed == probe.passed \union (IF Check(probe.at) THEN {probe.at} ELSE {})
       IN  probe' = IF i < Len(Checks)
                    THEN [at |-> Checks[i + 1], passed |-> passed, late |-> probe.late,
                          status |-> probe.status]
                    ELSE [at |-> "none", passed |-> {}, late |-> probe.late,
                          status |-> readiness_response(passed)]
    /\ UNCHANGED budget
    /\ UNCHANGED ProbeVars

\* The answer has been read; the next probe may come.
ProbeRead ==
    /\ probe.status # "none"
    /\ probe' = NoProbe
    /\ UNCHANGED budget
    /\ UNCHANGED ProbeVars

\* A node goes down, comes back, or is replaced by one of another chain.
Flap ==
    /\ budget.flaps > 0
    /\ \E a \in DOMAIN nodes, answer \in {"right", "wrong", "down"} :
         /\ nodes[a] # "malformed" /\ nodes[a] # answer
         /\ nodes' = [nodes EXCEPT ![a] = answer]
    /\ budget' = [budget EXCEPT !.flaps = @ - 1]
    /\ UNCHANGED <<cast, main, cleaned, gate, draining, active, signal, accepting, reqs,
                   engines, cleanup, probe>>

-----------------------------------------------------------------------------
Init ==
    /\ cast \in Casts
    /\ nodes = cast.nodes
    /\ main = "startup_check" /\ cleaned = 0
    /\ gate = None /\ draining = FALSE /\ active = TRUE
    /\ signal = "none" /\ accepting = FALSE
    /\ reqs = [r \in DOMAIN cast.requests |-> "idle"]
    /\ engines = <<>>
    /\ cleanup = "off"
    /\ probe = NoProbe
    /\ budget = [panics |-> cast.panics, flaps |-> cast.flaps, seconds |-> cast.seconds,
                 probes |-> cast.probes]

Start == \/ StartupCheck \/ ValidateConfig \/ build_runtime \/ CleanScope \/ initialize_runtime
         \/ PrepareResources \/ register_pair_pipelines \/ RestorePersisted
         \/ finish_initialization \/ Bind

Handle(r) == TakeGate(r) \/ attach(r) \/ Respond(r)

StoreAnswers(r) == replace(r) \/ cancel(r)

Supervise(e, t) == Restart(e, t) \/ SupervisorStops(e, t)

Shutdown == \/ SignalTask \/ NotifyDrain \/ run_server \/ CloseGate \/ DrainSubmissions
            \/ StopEngine \/ EnginesStopped \/ Exit

Alive == main \notin {"exited", "failed"}

Next ==
    /\ Alive
    /\ \/ Start
       \/ Shutdown
       \/ shutdown_signal
       \/ \E r \in Requests : Arrive(r) \/ Handle(r) \/ StoreAnswers(r)
       \/ \E e \in DOMAIN engines :
            StartJob(e) \/ CheckpointJob(e) \/ CheckpointAnswered(e) \/ MaintenanceTick(e)
       \/ \E e \in DOMAIN engines, t \in Tasks : Panic(e, t) \/ Supervise(e, t)
       \/ TimePasses
       \/ CleanupLoop
       \/ Probe \/ evaluate_readiness \/ ProbeRead
       \/ Flap

(***************************************************************************)
(* The Tokio runtime polls every task that can go on: the main task and    *)
(* the signal task, whose waits are bounded by timers or are for the gate, *)
(* the handlers, and the supervisors.  The gate is a Tokio mutex, which    *)
(* serves its waiters in order, so the shutdown is not overtaken for ever. *)
(* Nothing is assumed of clients, providers, the store or the node         *)
(* operators.                                                              *)
(***************************************************************************)
Fairness ==
    /\ WF_vars(Start) /\ SF_vars(Shutdown)
    /\ WF_vars(\E r \in Requests : Handle(r))
    /\ WF_vars(\E e \in DOMAIN engines, t \in Tasks : Supervise(e, t))

Spec == Init /\ [][Next]_vars /\ Fairness

-----------------------------------------------------------------------------
(* Properties.                                                             *)

\* Once draining has begun no execution graph enters an engine's queue, so
\* the shutdown never races a root that is being attached
\* (ProofLifecycle::begin_shutdown "closes new root-to-projection transitions
\* before namespace draining begins").
DrainSeals ==
    [][\A e \in DOMAIN engines :
          ~(engines'[e].queue \subseteq engines[e].queue) => ~draining]_vars

\* The readiness endpoint answers "ok" only while every engine's supervisors
\* are alive, and never to a probe that came after draining had begun: the
\* checks are made one after the other while the shutdown goes on, and a pool
\* that was stopped must not look like one that was never started.
ReadyIsServing ==
    [][probe'.status = "ok" /\ probe.status # "ok" =>
          /\ ~probe.late
          /\ \A e \in DOMAIN engines :
               ~engines[e].told /\ \A t \in Tasks : engines[e].sup[t] # "done"]_vars

\* The gate is held across a store write that is not answered yet.
AwaitsStore ==
    \/ \E r \in Requests : gate = <<"request", r>> /\ reqs[r] = "writing"
    \/ \E e \in DOMAIN engines : gate = <<"worker", e>>
    \/ gate = <<"cleanup">>

\* A signal ends the process, unless a store write made under the execution gate
\* is never answered: begin_shutdown and AppState::shutdown wait for the gate
\* without a deadline.  Slow clients, silent providers, dying workers, store
\* calls made outside the gate, and however many take the gate before it, delay
\* the shutdown by its two timeouts and no longer.
ShutdownEnds == <>[]AwaitsStore \/ (signal = "raised" ~> main = "exited")
=============================================================================
