----------------------- MODULE ServerLifecycleProofs -----------------------
(***************************************************************************)
(* Proofs about ServerLifecycle, for any deployment and any number of      *)
(* requests, engines, deaths of workers and probes.                        *)
(*                                                                         *)
(* The argument.  The execution gate belongs to the request that is being  *)
(* written or attached, and neither the workers nor the cleanup loop take  *)
(* it away, so draining, which begins under the gate, finds none (Gated).  *)
(* Readiness asks six questions one after the other while the shutdown     *)
(* goes on.  Draining never ends, so a probe that came after its start     *)
(* fails the runtime question whenever that is asked; the question about   *)
(* the workers is the last one, and it is answered for every engine,       *)
(* because a serving process has started all of them (Served) and the      *)
(* group of a stopped one stays registered (Stopped).                      *)
(***************************************************************************)
EXTENDS ServerLifecycle, TLAPS

Starting == {"startup_check", "config", "store", "cleanup", "initialize", "reconcile",
             "resources", "factory", "metadata", "restore", "workers", "bind"}
Serving == {"serving", "shutdown", "drain", "pipelines", "background", "exited"}

\* Where the process stands, and that its requests are those of the cast.
Staged ==
    /\ cast \in Casts /\ DOMAIN reqs = DOMAIN cast.requests
    /\ main \in Starting \cup Serving \cup {"failed"}
    /\ draining \in BOOLEAN

\* Nothing of the serving process happens before it serves.
Quiet ==
    main \notin Serving =>
        ~draining /\ signal = "none" /\ ~accepting /\ probe.at = "none"

\* A request that is being written or attached holds the gate, and draining
\* waits for it.
Gated ==
    \A r \in DOMAIN reqs :
        reqs[r] \in {"writing", "attaching"} => gate = <<"request", r>> /\ ~draining

\* A process about to serve, or serving, has started the workers of every engine.
Served == main \in Serving \cup {"bind"} => \A e \in DOMAIN engines : engines[e].group # "none"

\* The group of an engine that was told to stop is taken, not forgotten.
Stopped ==
    \A e \in DOMAIN engines : engines[e].told => engines[e].group = "taken" /\ main \in Serving

\* What a probe under way can have passed.
Probed ==
    /\ probe.at \in {"none"} \cup {Checks[k] : k \in 1..Len(Checks)}
    /\ probe.late => draining
    /\ "workers" \notin probe.passed
    /\ probe.late => "runtime" \notin probe.passed

SInv == Staged /\ Quiet /\ Gated /\ Served /\ Stopped /\ Probed

-----------------------------------------------------------------------------
(* The two sequences the code goes through.                                *)

LEMMA AfterStep ==
    ASSUME NEW step \in Starting, step # "bind"
    PROVE  After(step) \in Starting /\ (After(step) = "bind" => step = "workers")
<1> DEFINE i == CHOOSE k \in 1..Len(Startup) : Startup[k] = step
<1>1. Len(Startup) = 12 BY DEF Startup
<1>2. /\ Startup[1] = "startup_check" /\ Startup[2] = "config" /\ Startup[3] = "store"
      /\ Startup[4] = "cleanup" /\ Startup[5] = "initialize" /\ Startup[6] = "reconcile"
      /\ Startup[7] = "resources" /\ Startup[8] = "factory" /\ Startup[9] = "metadata"
      /\ Startup[10] = "restore" /\ Startup[11] = "workers" /\ Startup[12] = "bind"
  BY DEF Startup
<1>3. \E k \in 1..12 : Startup[k] = step BY <1>2 DEF Starting
<1>4. i \in 1..12 /\ Startup[i] = step BY <1>1, <1>3
<1>5. After(step) = Startup[i + 1] BY DEF After
<1> HIDE DEF i
<1>6. i \in 1..11 BY <1>2, <1>4
<1>7. \/ i = 1 \/ i = 2 \/ i = 3 \/ i = 4 \/ i = 5 \/ i = 6 \/ i = 7 \/ i = 8 \/ i = 9
      \/ i = 10 \/ i = 11
  BY <1>6
<1> QED BY <1>2, <1>4, <1>5, <1>7 DEF Starting

LEMMA CheckOrder ==
    ASSUME NEW at, at \in {Checks[k] : k \in 1..Len(Checks)},
           NEW i, i = CHOOSE k \in 1..Len(Checks) : Checks[k] = at
    PROVE  /\ i \in 1..6 /\ Checks[i] = at /\ Len(Checks) = 6
           /\ i < 6 => at # "workers" /\ Checks[i + 1] \in {Checks[k] : k \in 1..Len(Checks)}
<1>1. Len(Checks) = 6 BY DEF Checks
<1>2. i \in 1..6 /\ Checks[i] = at BY <1>1
<1>3. \A k \in 1..6 : Checks[k] = "workers" => k = 6 BY DEF Checks
<1>4. i < 6 => i + 1 \in 1..6 BY <1>2
<1> QED BY <1>1, <1>2, <1>3, <1>4

-----------------------------------------------------------------------------
(* Workers and supervisors never add work, and leave the groups alone.     *)

Work ==
    \/ \E e \in DOMAIN engines :
         StartJob(e) \/ CheckpointJob(e) \/ CheckpointAnswered(e) \/ MaintenanceTick(e)
    \/ \E e \in DOMAIN engines, t \in Tasks : Panic(e, t) \/ Supervise(e, t)
    \/ TimePasses

LEMMA WorkStep ==
    Work => /\ UNCHANGED EngineVars
            /\ \A r : gate = <<"request", r>> /\ gate # None => gate' = gate
            /\ DOMAIN engines' = DOMAIN engines
            /\ \A x \in DOMAIN engines :
                  /\ engines'[x].group = engines[x].group
                  /\ engines'[x].told = engines[x].told
                  /\ engines'[x].queue \subseteq engines[x].queue
<1> DEFINE Kept == \A r : gate = <<"request", r>> /\ gate # None => gate' = gate
           Goal == /\ UNCHANGED EngineVars
                   /\ Kept
                   /\ DOMAIN engines' = DOMAIN engines
                   /\ \A x \in DOMAIN engines :
                         /\ engines'[x].group = engines[x].group
                         /\ engines'[x].told = engines[x].told
                         /\ engines'[x].queue \subseteq engines[x].queue
<1>1. ASSUME NEW e \in DOMAIN engines, NEW new,
             engines' = [engines EXCEPT ![e] = new], new.group = engines[e].group,
             new.told = engines[e].told, new.queue \subseteq engines[e].queue,
             UNCHANGED EngineVars, Kept
      PROVE  Goal
  BY <1>1
<1> HIDE DEF Goal
<1>2. ASSUME UNCHANGED gate PROVE Kept
  BY <1>2
<1>3. ASSUME NEW e \in DOMAIN engines, gate = <<"worker", e>> PROVE Kept
  BY <1>3
<1>4. ASSUME NEW e, NEW t, gate' = Dropped(e, t) PROVE Kept
  BY <1>4 DEF Dropped
<1>5. ASSUME gate = None PROVE Kept
  BY <1>5
<1> HIDE DEF Kept
<1>6. ASSUME NEW e \in DOMAIN engines, StartJob(e) PROVE Goal
  BY <1>1, <1>2, <1>6 DEF StartJob, Working
<1>7. ASSUME NEW e \in DOMAIN engines, CheckpointJob(e) PROVE Goal
  BY <1>5, <1>7 DEF CheckpointJob, Goal
<1>8. ASSUME NEW e \in DOMAIN engines, CheckpointAnswered(e) PROVE Goal
  <2>1. Kept /\ UNCHANGED EngineVars BY <1>3, <1>8 DEF CheckpointAnswered
  <2>2. CASE UNCHANGED engines BY <2>1, <2>2 DEF Goal
  <2>3. CASE engines' = [engines EXCEPT ![e] = Working(@, @.queue, None, FALSE)]
    BY <1>1, <2>1, <2>3 DEF Working
  <2> QED BY <1>8, <2>2, <2>3 DEF CheckpointAnswered
<1>9. ASSUME NEW e \in DOMAIN engines, MaintenanceTick(e) PROVE Goal
  BY <1>1, <1>2, <1>9 DEF MaintenanceTick, Aged
<1>10. ASSUME NEW e \in DOMAIN engines, NEW t \in Tasks, Panic(e, t) PROVE Goal
  BY <1>1, <1>4, <1>10 DEF Panic, Supervised, Without, Grouped, Working
<1>11. ASSUME NEW e \in DOMAIN engines, NEW t \in Tasks, Supervise(e, t) PROVE Goal
  <2>1. CASE Restart(e, t)
    BY <1>1, <1>2, <2>1 DEF Restart, Supervised, Grouped
  <2>2. CASE SupervisorStops(e, t)
    BY <1>1, <1>4, <2>2 DEF SupervisorStops, Supervised, Without, Grouped, Working
  <2> QED BY <1>11, <2>1, <2>2 DEF Supervise
<1>12. CASE TimePasses
  BY <1>2, <1>12 DEF TimePasses, Aged, Goal
<1> QED BY <1>6, <1>7, <1>8, <1>9, <1>10, <1>11, <1>12 DEF Work, Goal, Kept

LEMMA StagedStep ==
    Staged /\ [Next]_vars => Staged'
<1> SUFFICES ASSUME Staged, [Next]_vars PROVE Staged'
  OBVIOUS
<1> USE DEF StartVars, ReqVars, ProbeVars, Staged, Starting, Serving
<1>1. CASE Start
  <2>1. CASE StartupCheck BY <2>1, AfterStep DEF StartupCheck, Proceed
  <2>2. CASE ValidateConfig BY <2>2, AfterStep DEF ValidateConfig, Proceed
  <2>3. CASE build_runtime BY <2>3, AfterStep DEF build_runtime, Proceed
  <2>4. CASE CleanScope BY <2>4, AfterStep DEF CleanScope
  <2>5. CASE initialize_runtime BY <2>5, AfterStep DEF initialize_runtime, Proceed
  <2>6. CASE PrepareResources BY <2>6, AfterStep DEF PrepareResources, Proceed
  <2>7. CASE register_pair_pipelines BY <2>7, AfterStep DEF register_pair_pipelines, Proceed,
     build_pipeline_factory, NewEngine
  <2>8. CASE RestorePersisted BY <2>8, AfterStep DEF RestorePersisted, Proceed
  <2>9. CASE finish_initialization BY <2>9, AfterStep DEF finish_initialization, spawn_workers,
     Grouped
  <2>10. CASE Bind BY <2>10, AfterStep DEF Bind, NewEngine
  <2> QED BY <1>1, <2>1, <2>2, <2>3, <2>4, <2>5, <2>6, <2>7, <2>8, <2>9, <2>10 DEF Start
<1>2. CASE Shutdown
  <2>1. CASE SignalTask BY <2>1 DEF SignalTask, begin_shutdown
  <2>2. CASE NotifyDrain BY <2>2 DEF NotifyDrain
  <2>3. CASE run_server BY <2>3 DEF run_server
  <2>4. CASE CloseGate BY <2>4 DEF CloseGate, begin_shutdown
  <2>5. CASE DrainSubmissions BY <2>5 DEF DrainSubmissions
  <2>6. CASE StopEngine BY <2>6 DEF StopEngine, shutdown_workers, Grouped
  <2>7. CASE EnginesStopped BY <2>7 DEF EnginesStopped
  <2>8. CASE Exit BY <2>8 DEF Exit, Open, Requests
  <2> QED BY <1>2, <2>1, <2>2, <2>3, <2>4, <2>5, <2>6, <2>7, <2>8 DEF Shutdown
<1>3. CASE shutdown_signal BY <1>3 DEF shutdown_signal
<1>4. ASSUME NEW r \in Requests, Arrive(r) \/ Handle(r) \/ StoreAnswers(r) PROVE Staged'
  <2>1. CASE Arrive(r) BY <1>4, <2>1 DEF Arrive, Requests
  <2>2. CASE TakeGate(r) BY <1>4, <2>2, ServerLifecycleAssumption DEF TakeGate, Requests
  <2>3. CASE attach(r) BY <1>4, <2>3 DEF attach, Working, Requests
  <2>4. CASE Respond(r) BY <1>4, <2>4 DEF Respond, Requests
  <2>5. CASE replace(r) BY <1>4, <2>5 DEF replace, Requests
  <2>6. CASE cancel(r) BY <1>4, <2>6 DEF cancel, Working, Requests
  <2> QED BY <1>4, <2>1, <2>2, <2>3, <2>4, <2>5, <2>6 DEF Handle, StoreAnswers
<1>5. CASE Work BY <1>5, WorkStep DEF EngineVars
<1>6. CASE CleanupLoop \/ Flap
  BY <1>6 DEF CleanupLoop, CleanupTakesGate, CleanupAnswered, CleanupVars, Flap
<1>7. CASE Probe BY <1>7 DEF Probe
<1>8. CASE evaluate_readiness
  BY <1>8 DEF evaluate_readiness
<1>9. CASE ProbeRead BY <1>9 DEF ProbeRead, NoProbe
<1>10. CASE UNCHANGED vars BY <1>10 DEF vars
<1> QED BY <1>1, <1>2, <1>3, <1>4, <1>5, <1>6, <1>7, <1>8, <1>9, <1>10 DEF Next, Work

LEMMA QuietStep ==
    Staged /\ Quiet /\ [Next]_vars => Quiet'
<1> SUFFICES ASSUME Staged, Quiet, [Next]_vars PROVE Quiet'
  OBVIOUS
<1> USE DEF StartVars, ReqVars, ProbeVars, Staged, Quiet, Starting, Serving
<1>1. CASE Start
  <2>1. CASE StartupCheck BY <2>1, AfterStep DEF StartupCheck, Proceed
  <2>2. CASE ValidateConfig BY <2>2, AfterStep DEF ValidateConfig, Proceed
  <2>3. CASE build_runtime BY <2>3, AfterStep DEF build_runtime, Proceed
  <2>4. CASE CleanScope BY <2>4, AfterStep DEF CleanScope
  <2>5. CASE initialize_runtime BY <2>5, AfterStep DEF initialize_runtime, Proceed
  <2>6. CASE PrepareResources BY <2>6, AfterStep DEF PrepareResources, Proceed
  <2>7. CASE register_pair_pipelines BY <2>7, AfterStep DEF register_pair_pipelines, Proceed,
     build_pipeline_factory, NewEngine
  <2>8. CASE RestorePersisted BY <2>8, AfterStep DEF RestorePersisted, Proceed
  <2>9. CASE finish_initialization BY <2>9, AfterStep DEF finish_initialization, spawn_workers,
     Grouped
  <2>10. CASE Bind BY <2>10, AfterStep DEF Bind, NewEngine
  <2> QED BY <1>1, <2>1, <2>2, <2>3, <2>4, <2>5, <2>6, <2>7, <2>8, <2>9, <2>10 DEF Start
<1>2. CASE Shutdown
  <2>1. CASE SignalTask BY <2>1 DEF SignalTask, begin_shutdown
  <2>2. CASE NotifyDrain BY <2>2 DEF NotifyDrain
  <2>3. CASE run_server BY <2>3 DEF run_server
  <2>4. CASE CloseGate BY <2>4 DEF CloseGate, begin_shutdown
  <2>5. CASE DrainSubmissions BY <2>5 DEF DrainSubmissions
  <2>6. CASE StopEngine BY <2>6 DEF StopEngine, shutdown_workers, Grouped
  <2>7. CASE EnginesStopped BY <2>7 DEF EnginesStopped
  <2>8. CASE Exit BY <2>8 DEF Exit, Open, Requests
  <2> QED BY <1>2, <2>1, <2>2, <2>3, <2>4, <2>5, <2>6, <2>7, <2>8 DEF Shutdown
<1>3. CASE shutdown_signal BY <1>3 DEF shutdown_signal
<1>4. ASSUME NEW r \in Requests, Arrive(r) \/ Handle(r) \/ StoreAnswers(r) PROVE Quiet'
  <2>1. CASE Arrive(r) BY <1>4, <2>1 DEF Arrive, Requests
  <2>2. CASE TakeGate(r) BY <1>4, <2>2, ServerLifecycleAssumption DEF TakeGate, Requests
  <2>3. CASE attach(r) BY <1>4, <2>3 DEF attach, Working, Requests
  <2>4. CASE Respond(r) BY <1>4, <2>4 DEF Respond, Requests
  <2>5. CASE replace(r) BY <1>4, <2>5 DEF replace, Requests
  <2>6. CASE cancel(r) BY <1>4, <2>6 DEF cancel, Working, Requests
  <2> QED BY <1>4, <2>1, <2>2, <2>3, <2>4, <2>5, <2>6 DEF Handle, StoreAnswers
<1>5. CASE Work BY <1>5, WorkStep DEF EngineVars
<1>6. CASE CleanupLoop \/ Flap
  BY <1>6 DEF CleanupLoop, CleanupTakesGate, CleanupAnswered, CleanupVars, Flap
<1>7. CASE Probe BY <1>7 DEF Probe
<1>8. CASE evaluate_readiness
  BY <1>8 DEF evaluate_readiness
<1>9. CASE ProbeRead BY <1>9 DEF ProbeRead, NoProbe
<1>10. CASE UNCHANGED vars BY <1>10 DEF vars
<1> QED BY <1>1, <1>2, <1>3, <1>4, <1>5, <1>6, <1>7, <1>8, <1>9, <1>10 DEF Next, Work

LEMMA GatedStep ==
    Staged /\ Quiet /\ Gated /\ [Next]_vars => Gated'
<1> SUFFICES ASSUME Staged, Quiet, Gated, [Next]_vars PROVE Gated'
  OBVIOUS
<1> USE DEF StartVars, ReqVars, ProbeVars, Staged, Quiet, Gated, Starting, Serving
<1>1. CASE Start
  <2>1. CASE StartupCheck BY <2>1, AfterStep DEF StartupCheck, Proceed
  <2>2. CASE ValidateConfig BY <2>2, AfterStep DEF ValidateConfig, Proceed
  <2>3. CASE build_runtime BY <2>3, AfterStep DEF build_runtime, Proceed
  <2>4. CASE CleanScope BY <2>4, AfterStep DEF CleanScope
  <2>5. CASE initialize_runtime BY <2>5, AfterStep DEF initialize_runtime, Proceed
  <2>6. CASE PrepareResources BY <2>6, AfterStep DEF PrepareResources, Proceed
  <2>7. CASE register_pair_pipelines BY <2>7, AfterStep DEF register_pair_pipelines, Proceed,
     build_pipeline_factory, NewEngine
  <2>8. CASE RestorePersisted BY <2>8, AfterStep DEF RestorePersisted, Proceed
  <2>9. CASE finish_initialization BY <2>9, AfterStep DEF finish_initialization, spawn_workers,
     Grouped
  <2>10. CASE Bind BY <2>10, AfterStep DEF Bind, NewEngine
  <2> QED BY <1>1, <2>1, <2>2, <2>3, <2>4, <2>5, <2>6, <2>7, <2>8, <2>9, <2>10 DEF Start
<1>2. CASE Shutdown
  <2>1. CASE SignalTask BY <2>1, ServerLifecycleAssumption DEF SignalTask, begin_shutdown
  <2>2. CASE NotifyDrain BY <2>2 DEF NotifyDrain
  <2>3. CASE run_server BY <2>3 DEF run_server
  <2>4. CASE CloseGate BY <2>4, ServerLifecycleAssumption DEF CloseGate, begin_shutdown
  <2>5. CASE DrainSubmissions BY <2>5 DEF DrainSubmissions
  <2>6. CASE StopEngine BY <2>6 DEF StopEngine, shutdown_workers, Grouped
  <2>7. CASE EnginesStopped BY <2>7 DEF EnginesStopped
  <2>8. CASE Exit BY <2>8 DEF Exit, Open, Requests
  <2> QED BY <1>2, <2>1, <2>2, <2>3, <2>4, <2>5, <2>6, <2>7, <2>8 DEF Shutdown
<1>3. CASE shutdown_signal BY <1>3 DEF shutdown_signal
<1>4. ASSUME NEW r \in Requests, Arrive(r) \/ Handle(r) \/ StoreAnswers(r) PROVE Gated'
  <2>1. CASE Arrive(r) BY <1>4, <2>1 DEF Arrive, Requests
  <2>2. CASE TakeGate(r) BY <1>4, <2>2, ServerLifecycleAssumption DEF TakeGate, Requests
  <2>3. CASE attach(r) BY <1>4, <2>3 DEF attach, Working, Requests
  <2>4. CASE Respond(r) BY <1>4, <2>4 DEF Respond, Requests
  <2>5. CASE replace(r) BY <1>4, <2>5 DEF replace, Requests
  <2>6. CASE cancel(r) BY <1>4, <2>6 DEF cancel, Working, Requests
  <2> QED BY <1>4, <2>1, <2>2, <2>3, <2>4, <2>5, <2>6 DEF Handle, StoreAnswers
<1>5. CASE Work
  <2>1. UNCHANGED <<reqs, draining>> BY <1>5, WorkStep DEF EngineVars
  <2>2. \A r : gate = <<"request", r>> /\ gate # None => gate' = gate BY <1>5, WorkStep
  <2>3. \A r \in DOMAIN reqs : <<"request", r>> # None BY ServerLifecycleAssumption
  <2> QED BY <2>1, <2>2, <2>3
<1>6. CASE CleanupLoop \/ Flap
  <2>1. UNCHANGED <<reqs, draining>>
    BY <1>6 DEF CleanupLoop, CleanupTakesGate, CleanupAnswered, CleanupVars, Flap
  <2>2. gate' = gate \/ gate \in {None, <<"cleanup">>}
    BY <1>6 DEF CleanupLoop, CleanupTakesGate, CleanupAnswered, Flap
  <2>3. \A r \in DOMAIN reqs : <<"request", r>> # None BY ServerLifecycleAssumption
  <2>4. \A r : <<"request", r>> # <<"cleanup">> OBVIOUS
  <2> QED BY <2>1, <2>2, <2>3, <2>4
<1>7. CASE Probe BY <1>7 DEF Probe
<1>8. CASE evaluate_readiness
  BY <1>8 DEF evaluate_readiness
<1>9. CASE ProbeRead BY <1>9 DEF ProbeRead, NoProbe
<1>10. CASE UNCHANGED vars BY <1>10 DEF vars
<1> QED BY <1>1, <1>2, <1>3, <1>4, <1>5, <1>6, <1>7, <1>8, <1>9, <1>10 DEF Next, Work

LEMMA ServedStep ==
    Staged /\ Served /\ [Next]_vars => Served'
<1> SUFFICES ASSUME Staged, Served, [Next]_vars PROVE Served'
  OBVIOUS
<1> USE DEF StartVars, ReqVars, ProbeVars, Staged, Served, Starting, Serving
<1>1. CASE Start
  <2>1. CASE StartupCheck BY <2>1, AfterStep DEF StartupCheck, Proceed
  <2>2. CASE ValidateConfig BY <2>2, AfterStep DEF ValidateConfig, Proceed
  <2>3. CASE build_runtime BY <2>3, AfterStep DEF build_runtime, Proceed
  <2>4. CASE CleanScope BY <2>4, AfterStep DEF CleanScope
  <2>5. CASE initialize_runtime BY <2>5, AfterStep DEF initialize_runtime, Proceed
  <2>6. CASE PrepareResources BY <2>6, AfterStep DEF PrepareResources, Proceed
  <2>7. CASE register_pair_pipelines BY <2>7, AfterStep DEF register_pair_pipelines, Proceed,
     build_pipeline_factory, NewEngine
  <2>8. CASE RestorePersisted BY <2>8, AfterStep DEF RestorePersisted, Proceed
  <2>9. CASE finish_initialization BY <2>9, AfterStep DEF finish_initialization, spawn_workers,
     Grouped
  <2>10. CASE Bind BY <2>10, AfterStep DEF Bind, NewEngine
  <2> QED BY <1>1, <2>1, <2>2, <2>3, <2>4, <2>5, <2>6, <2>7, <2>8, <2>9, <2>10 DEF Start
<1>2. CASE Shutdown
  <2>1. CASE SignalTask BY <2>1 DEF SignalTask, begin_shutdown
  <2>2. CASE NotifyDrain BY <2>2 DEF NotifyDrain
  <2>3. CASE run_server BY <2>3 DEF run_server
  <2>4. CASE CloseGate BY <2>4 DEF CloseGate, begin_shutdown
  <2>5. CASE DrainSubmissions BY <2>5 DEF DrainSubmissions
  <2>6. CASE StopEngine BY <2>6 DEF StopEngine, shutdown_workers, Grouped
  <2>7. CASE EnginesStopped BY <2>7 DEF EnginesStopped
  <2>8. CASE Exit BY <2>8 DEF Exit, Open, Requests
  <2> QED BY <1>2, <2>1, <2>2, <2>3, <2>4, <2>5, <2>6, <2>7, <2>8 DEF Shutdown
<1>3. CASE shutdown_signal BY <1>3 DEF shutdown_signal
<1>4. ASSUME NEW r \in Requests, Arrive(r) \/ Handle(r) \/ StoreAnswers(r) PROVE Served'
  <2>1. CASE Arrive(r) BY <1>4, <2>1 DEF Arrive, Requests
  <2>2. CASE TakeGate(r) BY <1>4, <2>2, ServerLifecycleAssumption DEF TakeGate, Requests
  <2>3. CASE attach(r) BY <1>4, <2>3 DEF attach, Working, Requests
  <2>4. CASE Respond(r) BY <1>4, <2>4 DEF Respond, Requests
  <2>5. CASE replace(r) BY <1>4, <2>5 DEF replace, Requests
  <2>6. CASE cancel(r) BY <1>4, <2>6 DEF cancel, Working, Requests
  <2> QED BY <1>4, <2>1, <2>2, <2>3, <2>4, <2>5, <2>6 DEF Handle, StoreAnswers
<1>5. CASE Work BY <1>5, WorkStep DEF EngineVars
<1>6. CASE CleanupLoop \/ Flap
  BY <1>6 DEF CleanupLoop, CleanupTakesGate, CleanupAnswered, CleanupVars, Flap
<1>7. CASE Probe BY <1>7 DEF Probe
<1>8. CASE evaluate_readiness
  BY <1>8 DEF evaluate_readiness
<1>9. CASE ProbeRead BY <1>9 DEF ProbeRead, NoProbe
<1>10. CASE UNCHANGED vars BY <1>10 DEF vars
<1> QED BY <1>1, <1>2, <1>3, <1>4, <1>5, <1>6, <1>7, <1>8, <1>9, <1>10 DEF Next, Work

LEMMA StoppedStep ==
    Staged /\ Served /\ Stopped /\ [Next]_vars => Stopped'
<1> SUFFICES ASSUME Staged, Served, Stopped, [Next]_vars PROVE Stopped'
  OBVIOUS
<1> USE DEF StartVars, ReqVars, ProbeVars, Staged, Served, Stopped, Starting, Serving
<1>1. CASE Start
  <2>1. CASE StartupCheck BY <2>1, AfterStep DEF StartupCheck, Proceed
  <2>2. CASE ValidateConfig BY <2>2, AfterStep DEF ValidateConfig, Proceed
  <2>3. CASE build_runtime BY <2>3, AfterStep DEF build_runtime, Proceed
  <2>4. CASE CleanScope BY <2>4, AfterStep DEF CleanScope
  <2>5. CASE initialize_runtime BY <2>5, AfterStep DEF initialize_runtime, Proceed
  <2>6. CASE PrepareResources BY <2>6, AfterStep DEF PrepareResources, Proceed
  <2>7. CASE register_pair_pipelines BY <2>7, AfterStep DEF register_pair_pipelines, Proceed,
     build_pipeline_factory, NewEngine
  <2>8. CASE RestorePersisted BY <2>8, AfterStep DEF RestorePersisted, Proceed
  <2>9. CASE finish_initialization BY <2>9, AfterStep DEF finish_initialization, spawn_workers,
     Grouped
  <2>10. CASE Bind BY <2>10, AfterStep DEF Bind, NewEngine
  <2> QED BY <1>1, <2>1, <2>2, <2>3, <2>4, <2>5, <2>6, <2>7, <2>8, <2>9, <2>10 DEF Start
<1>2. CASE Shutdown
  <2>1. CASE SignalTask BY <2>1 DEF SignalTask, begin_shutdown
  <2>2. CASE NotifyDrain BY <2>2 DEF NotifyDrain
  <2>3. CASE run_server BY <2>3 DEF run_server
  <2>4. CASE CloseGate BY <2>4 DEF CloseGate, begin_shutdown
  <2>5. CASE DrainSubmissions BY <2>5 DEF DrainSubmissions
  <2>6. CASE StopEngine BY <2>6 DEF StopEngine, shutdown_workers, Grouped
  <2>7. CASE EnginesStopped BY <2>7 DEF EnginesStopped
  <2>8. CASE Exit BY <2>8 DEF Exit, Open, Requests
  <2> QED BY <1>2, <2>1, <2>2, <2>3, <2>4, <2>5, <2>6, <2>7, <2>8 DEF Shutdown
<1>3. CASE shutdown_signal BY <1>3 DEF shutdown_signal
<1>4. ASSUME NEW r \in Requests, Arrive(r) \/ Handle(r) \/ StoreAnswers(r) PROVE Stopped'
  <2>1. CASE Arrive(r) BY <1>4, <2>1 DEF Arrive, Requests
  <2>2. CASE TakeGate(r) BY <1>4, <2>2, ServerLifecycleAssumption DEF TakeGate, Requests
  <2>3. CASE attach(r) BY <1>4, <2>3 DEF attach, Working, Requests
  <2>4. CASE Respond(r) BY <1>4, <2>4 DEF Respond, Requests
  <2>5. CASE replace(r) BY <1>4, <2>5 DEF replace, Requests
  <2>6. CASE cancel(r) BY <1>4, <2>6 DEF cancel, Working, Requests
  <2> QED BY <1>4, <2>1, <2>2, <2>3, <2>4, <2>5, <2>6 DEF Handle, StoreAnswers
<1>5. CASE Work BY <1>5, WorkStep DEF EngineVars
<1>6. CASE CleanupLoop \/ Flap
  BY <1>6 DEF CleanupLoop, CleanupTakesGate, CleanupAnswered, CleanupVars, Flap
<1>7. CASE Probe BY <1>7 DEF Probe
<1>8. CASE evaluate_readiness
  BY <1>8 DEF evaluate_readiness
<1>9. CASE ProbeRead BY <1>9 DEF ProbeRead, NoProbe
<1>10. CASE UNCHANGED vars BY <1>10 DEF vars
<1> QED BY <1>1, <1>2, <1>3, <1>4, <1>5, <1>6, <1>7, <1>8, <1>9, <1>10 DEF Next, Work

LEMMA ProbedStep ==
    Staged /\ Probed /\ [Next]_vars => Probed'
<1> SUFFICES ASSUME Staged, Probed, [Next]_vars PROVE Probed'
  OBVIOUS
<1> USE DEF StartVars, ReqVars, ProbeVars, Staged, Probed, Starting, Serving
<1>1. CASE Start
  <2>1. CASE StartupCheck BY <2>1, AfterStep DEF StartupCheck, Proceed
  <2>2. CASE ValidateConfig BY <2>2, AfterStep DEF ValidateConfig, Proceed
  <2>3. CASE build_runtime BY <2>3, AfterStep DEF build_runtime, Proceed
  <2>4. CASE CleanScope BY <2>4, AfterStep DEF CleanScope
  <2>5. CASE initialize_runtime BY <2>5, AfterStep DEF initialize_runtime, Proceed
  <2>6. CASE PrepareResources BY <2>6, AfterStep DEF PrepareResources, Proceed
  <2>7. CASE register_pair_pipelines BY <2>7, AfterStep DEF register_pair_pipelines, Proceed,
     build_pipeline_factory, NewEngine
  <2>8. CASE RestorePersisted BY <2>8, AfterStep DEF RestorePersisted, Proceed
  <2>9. CASE finish_initialization BY <2>9, AfterStep DEF finish_initialization, spawn_workers,
     Grouped
  <2>10. CASE Bind BY <2>10, AfterStep DEF Bind, NewEngine
  <2> QED BY <1>1, <2>1, <2>2, <2>3, <2>4, <2>5, <2>6, <2>7, <2>8, <2>9, <2>10 DEF Start
<1>2. CASE Shutdown
  <2>1. CASE SignalTask BY <2>1 DEF SignalTask, begin_shutdown
  <2>2. CASE NotifyDrain BY <2>2 DEF NotifyDrain
  <2>3. CASE run_server BY <2>3 DEF run_server
  <2>4. CASE CloseGate BY <2>4 DEF CloseGate, begin_shutdown
  <2>5. CASE DrainSubmissions BY <2>5 DEF DrainSubmissions
  <2>6. CASE StopEngine BY <2>6 DEF StopEngine, shutdown_workers, Grouped
  <2>7. CASE EnginesStopped BY <2>7 DEF EnginesStopped
  <2>8. CASE Exit BY <2>8 DEF Exit, Open, Requests
  <2> QED BY <1>2, <2>1, <2>2, <2>3, <2>4, <2>5, <2>6, <2>7, <2>8 DEF Shutdown
<1>3. CASE shutdown_signal BY <1>3 DEF shutdown_signal
<1>4. ASSUME NEW r \in Requests, Arrive(r) \/ Handle(r) \/ StoreAnswers(r) PROVE Probed'
  <2>1. CASE Arrive(r) BY <1>4, <2>1 DEF Arrive, Requests
  <2>2. CASE TakeGate(r) BY <1>4, <2>2, ServerLifecycleAssumption DEF TakeGate, Requests
  <2>3. CASE attach(r) BY <1>4, <2>3 DEF attach, Working, Requests
  <2>4. CASE Respond(r) BY <1>4, <2>4 DEF Respond, Requests
  <2>5. CASE replace(r) BY <1>4, <2>5 DEF replace, Requests
  <2>6. CASE cancel(r) BY <1>4, <2>6 DEF cancel, Working, Requests
  <2> QED BY <1>4, <2>1, <2>2, <2>3, <2>4, <2>5, <2>6 DEF Handle, StoreAnswers
<1>5. CASE Work BY <1>5, WorkStep DEF EngineVars
<1>6. CASE CleanupLoop \/ Flap
  BY <1>6 DEF CleanupLoop, CleanupTakesGate, CleanupAnswered, CleanupVars, Flap
<1>7. CASE Probe
  <2>1. "reth" \in {Checks[k] : k \in 1..Len(Checks)} BY DEF Checks
  <2> QED BY <1>7, <2>1 DEF Probe
<1>8. CASE evaluate_readiness
  <2> DEFINE i == CHOOSE k \in 1..Len(Checks) : Checks[k] = probe.at
             passed == probe.passed \union (IF Check(probe.at) THEN {probe.at} ELSE {})
  <2>1. probe.at \in {Checks[k] : k \in 1..Len(Checks)} BY <1>8 DEF evaluate_readiness
  <2>2. /\ i \in 1..6 /\ Len(Checks) = 6
        /\ i < 6 => probe.at # "workers" /\ Checks[i + 1] \in {Checks[k] : k \in 1..Len(Checks)}
    BY <2>1, CheckOrder
  <2>3. UNCHANGED draining BY <1>8 DEF evaluate_readiness
  <2>4. probe' = IF i < Len(Checks)
                 THEN [at |-> Checks[i + 1], passed |-> passed, late |-> probe.late,
                       status |-> probe.status]
                 ELSE [at |-> "none", passed |-> {}, late |-> probe.late,
                       status |-> readiness_response(passed)]
    BY <1>8 DEF evaluate_readiness
  <2>5. probe.at = "runtime" /\ Check(probe.at) => ~draining BY DEF Check
  <2> HIDE DEF i
  <2>6. CASE i < Len(Checks)
    BY <2>2, <2>3, <2>4, <2>5, <2>6
  <2>7. CASE ~(i < Len(Checks))
    BY <2>2, <2>3, <2>4, <2>7
  <2> QED BY <2>6, <2>7
<1>9. CASE ProbeRead BY <1>9 DEF ProbeRead, NoProbe
<1>10. CASE UNCHANGED vars BY <1>10 DEF vars
<1> QED BY <1>1, <1>2, <1>3, <1>4, <1>5, <1>6, <1>7, <1>8, <1>9, <1>10 DEF Next, Work

-----------------------------------------------------------------------------
(* What a step may do, and the theorems.                                   *)

Sealed ==
    \A e \in DOMAIN engines : ~(engines'[e].queue \subseteq engines[e].queue) => ~draining

Ready ==
    probe'.status = "ok" /\ probe.status # "ok" =>
        /\ ~probe.late
        /\ \A e \in DOMAIN engines :
             ~engines[e].told /\ \A t \in Tasks : engines[e].sup[t] # "done"

LEMMA SealStep ==
    SInv /\ [Next]_vars => Sealed
<1> SUFFICES ASSUME SInv, [Next]_vars PROVE Sealed
  OBVIOUS
<1> USE DEF StartVars, ReqVars, ProbeVars, SInv, Staged, Quiet, Gated, Starting, Serving, Sealed
<1>1. CASE Start
  <2>1. CASE StartupCheck BY <2>1, AfterStep DEF StartupCheck, Proceed
  <2>2. CASE ValidateConfig BY <2>2, AfterStep DEF ValidateConfig, Proceed
  <2>3. CASE build_runtime BY <2>3, AfterStep DEF build_runtime, Proceed
  <2>4. CASE CleanScope BY <2>4, AfterStep DEF CleanScope
  <2>5. CASE initialize_runtime BY <2>5, AfterStep DEF initialize_runtime, Proceed
  <2>6. CASE PrepareResources BY <2>6, AfterStep DEF PrepareResources, Proceed
  <2>7. CASE register_pair_pipelines BY <2>7, AfterStep DEF register_pair_pipelines, Proceed,
     build_pipeline_factory, NewEngine
  <2>8. CASE RestorePersisted BY <2>8, AfterStep DEF RestorePersisted, Proceed
  <2>9. CASE finish_initialization BY <2>9, AfterStep DEF finish_initialization, spawn_workers,
     Grouped
  <2>10. CASE Bind BY <2>10, AfterStep DEF Bind, NewEngine
  <2> QED BY <1>1, <2>1, <2>2, <2>3, <2>4, <2>5, <2>6, <2>7, <2>8, <2>9, <2>10 DEF Start
<1>2. CASE Shutdown
  <2>1. CASE SignalTask BY <2>1 DEF SignalTask, begin_shutdown
  <2>2. CASE NotifyDrain BY <2>2 DEF NotifyDrain
  <2>3. CASE run_server BY <2>3 DEF run_server
  <2>4. CASE CloseGate BY <2>4 DEF CloseGate, begin_shutdown
  <2>5. CASE DrainSubmissions BY <2>5 DEF DrainSubmissions
  <2>6. CASE StopEngine BY <2>6 DEF StopEngine, shutdown_workers, Grouped
  <2>7. CASE EnginesStopped BY <2>7 DEF EnginesStopped
  <2>8. CASE Exit BY <2>8 DEF Exit, Open, Requests
  <2> QED BY <1>2, <2>1, <2>2, <2>3, <2>4, <2>5, <2>6, <2>7, <2>8 DEF Shutdown
<1>3. CASE shutdown_signal BY <1>3 DEF shutdown_signal
<1>4. ASSUME NEW r \in Requests, Arrive(r) \/ Handle(r) \/ StoreAnswers(r) PROVE Sealed
  <2>1. CASE Arrive(r) BY <1>4, <2>1 DEF Arrive, Requests
  <2>2. CASE TakeGate(r) BY <1>4, <2>2, ServerLifecycleAssumption DEF TakeGate, Requests
  <2>3. CASE attach(r) BY <1>4, <2>3 DEF attach, Working, Requests
  <2>4. CASE Respond(r) BY <1>4, <2>4 DEF Respond, Requests
  <2>5. CASE replace(r) BY <1>4, <2>5 DEF replace, Requests
  <2>6. CASE cancel(r) BY <1>4, <2>6 DEF cancel, Working, Requests
  <2> QED BY <1>4, <2>1, <2>2, <2>3, <2>4, <2>5, <2>6 DEF Handle, StoreAnswers
<1>5. CASE Work BY <1>5, WorkStep DEF EngineVars
<1>6. CASE CleanupLoop \/ Flap
  BY <1>6 DEF CleanupLoop, CleanupTakesGate, CleanupAnswered, CleanupVars, Flap
<1>7. CASE Probe BY <1>7 DEF Probe
<1>8. CASE evaluate_readiness
  BY <1>8 DEF evaluate_readiness
<1>9. CASE ProbeRead BY <1>9 DEF ProbeRead, NoProbe
<1>10. CASE UNCHANGED vars BY <1>10 DEF vars
<1> QED BY <1>1, <1>2, <1>3, <1>4, <1>5, <1>6, <1>7, <1>8, <1>9, <1>10 DEF Next, Work

LEMMA ReadyStep ==
    SInv /\ [Next]_vars => Ready
<1> SUFFICES ASSUME SInv, [Next]_vars PROVE Ready
  OBVIOUS
<1> USE DEF StartVars, ReqVars, ProbeVars, Ready
<1>1. CASE Start
  <2>1. CASE StartupCheck BY <2>1, AfterStep DEF StartupCheck, Proceed
  <2>2. CASE ValidateConfig BY <2>2, AfterStep DEF ValidateConfig, Proceed
  <2>3. CASE build_runtime BY <2>3, AfterStep DEF build_runtime, Proceed
  <2>4. CASE CleanScope BY <2>4, AfterStep DEF CleanScope
  <2>5. CASE initialize_runtime BY <2>5, AfterStep DEF initialize_runtime, Proceed
  <2>6. CASE PrepareResources BY <2>6, AfterStep DEF PrepareResources, Proceed
  <2>7. CASE register_pair_pipelines BY <2>7, AfterStep DEF register_pair_pipelines, Proceed,
     build_pipeline_factory, NewEngine
  <2>8. CASE RestorePersisted BY <2>8, AfterStep DEF RestorePersisted, Proceed
  <2>9. CASE finish_initialization BY <2>9, AfterStep DEF finish_initialization, spawn_workers,
     Grouped
  <2>10. CASE Bind BY <2>10, AfterStep DEF Bind, NewEngine
  <2> QED BY <1>1, <2>1, <2>2, <2>3, <2>4, <2>5, <2>6, <2>7, <2>8, <2>9, <2>10 DEF Start
<1>2. CASE Shutdown
  <2>1. CASE SignalTask BY <2>1 DEF SignalTask, begin_shutdown
  <2>2. CASE NotifyDrain BY <2>2 DEF NotifyDrain
  <2>3. CASE run_server BY <2>3 DEF run_server
  <2>4. CASE CloseGate BY <2>4 DEF CloseGate, begin_shutdown
  <2>5. CASE DrainSubmissions BY <2>5 DEF DrainSubmissions
  <2>6. CASE StopEngine BY <2>6 DEF StopEngine, shutdown_workers, Grouped
  <2>7. CASE EnginesStopped BY <2>7 DEF EnginesStopped
  <2>8. CASE Exit BY <2>8 DEF Exit, Open, Requests
  <2> QED BY <1>2, <2>1, <2>2, <2>3, <2>4, <2>5, <2>6, <2>7, <2>8 DEF Shutdown
<1>3. CASE shutdown_signal BY <1>3 DEF shutdown_signal
<1>4. ASSUME NEW r \in Requests, Arrive(r) \/ Handle(r) \/ StoreAnswers(r) PROVE Ready
  <2>1. CASE Arrive(r) BY <1>4, <2>1 DEF Arrive, Requests
  <2>2. CASE TakeGate(r) BY <1>4, <2>2, ServerLifecycleAssumption DEF TakeGate, Requests
  <2>3. CASE attach(r) BY <1>4, <2>3 DEF attach, Working, Requests
  <2>4. CASE Respond(r) BY <1>4, <2>4 DEF Respond, Requests
  <2>5. CASE replace(r) BY <1>4, <2>5 DEF replace, Requests
  <2>6. CASE cancel(r) BY <1>4, <2>6 DEF cancel, Working, Requests
  <2> QED BY <1>4, <2>1, <2>2, <2>3, <2>4, <2>5, <2>6 DEF Handle, StoreAnswers
<1>5. CASE Work BY <1>5, WorkStep DEF EngineVars
<1>6. CASE CleanupLoop \/ Flap
  BY <1>6 DEF CleanupLoop, CleanupTakesGate, CleanupAnswered, CleanupVars, Flap
<1>7. CASE Probe BY <1>7 DEF Probe
<1>8. CASE evaluate_readiness
  <2> DEFINE i == CHOOSE k \in 1..Len(Checks) : Checks[k] = probe.at
             passed == probe.passed \union (IF Check(probe.at) THEN {probe.at} ELSE {})
  <2> SUFFICES ASSUME probe'.status = "ok", probe.status # "ok"
               PROVE  /\ ~probe.late
                      /\ \A e \in DOMAIN engines :
                           ~engines[e].told /\ \A t \in Tasks : engines[e].sup[t] # "done"
    OBVIOUS
  <2>1. probe' = IF i < Len(Checks)
                 THEN [at |-> Checks[i + 1], passed |-> passed, late |-> probe.late,
                       status |-> probe.status]
                 ELSE [at |-> "none", passed |-> {}, late |-> probe.late,
                       status |-> readiness_response(passed)]
    BY <1>8 DEF evaluate_readiness
  <2>2. readiness_response(passed) = "ok" BY <2>1
  <2>3. "workers" \in passed /\ "runtime" \in passed
    <3>1. passed = {Checks[k] : k \in 1..Len(Checks)} BY <2>2 DEF readiness_response
    <3>2. Len(Checks) = 6 /\ Checks[6] = "workers" /\ Checks[2] = "runtime" BY DEF Checks
    <3> QED BY <3>1, <3>2
  <2>4. probe.at = "workers" /\ Check("workers") BY <2>3 DEF SInv, Probed
  <2>5. "runtime" \in probe.passed BY <2>3, <2>4
  <2>6. ~probe.late BY <2>5 DEF SInv, Probed
  <2>7. main \in Serving BY <1>8 DEF evaluate_readiness, SInv, Quiet
  <2>8. ASSUME NEW e \in DOMAIN engines
        PROVE  ~engines[e].told /\ \A t \in Tasks : engines[e].sup[t] # "done"
    <3>1. workers_healthy(engines[e]) BY <2>4 DEF Check
    <3>2. engines[e].group # "none" BY <2>7 DEF SInv, Served
    <3>3. engines[e].group = "live" /\ \A t \in Tasks : engines[e].sup[t] # "done"
      BY <3>1, <3>2 DEF workers_healthy, all_alive
    <3>4. ~engines[e].told BY <3>3 DEF SInv, Stopped
    <3> QED BY <3>3, <3>4
  <2> QED BY <2>6, <2>8
<1>9. CASE ProbeRead BY <1>9 DEF ProbeRead, NoProbe
<1>10. CASE UNCHANGED vars BY <1>10 DEF vars
<1> QED BY <1>1, <1>2, <1>3, <1>4, <1>5, <1>6, <1>7, <1>8, <1>9, <1>10 DEF Next, Work

LEMMA ServerInvariance == Spec => []SInv
<1>1. Init => SInv
  <2> SUFFICES ASSUME Init PROVE SInv
    OBVIOUS
  <2> USE DEF Init, NoProbe
  <2>1. Staged /\ Quiet BY DEF Staged, Quiet, Starting
  <2>2. Gated BY DEF Gated
  <2>3. Served /\ Stopped BY DEF Served, Stopped, Serving
  <2>4. Probed BY DEF Probed
  <2> QED BY <2>1, <2>2, <2>3, <2>4 DEF SInv
<1>2. SInv /\ [Next]_vars => SInv'
  BY StagedStep, QuietStep, GatedStep, ServedStep, StoppedStep, ProbedStep DEF SInv
<1> QED BY <1>1, <1>2, PTL DEF Spec

\* No execution graph enters an engine's queue once begin_shutdown has set
\* draining: attach and the start of draining exclude each other by the gate.
THEOREM DrainSealsQueues == Spec => DrainSeals
<1>1. SInv /\ [Next]_vars => Sealed BY SealStep
<1> QED BY <1>1, ServerInvariance, PTL DEF Spec, DrainSeals, Sealed

\* The readiness endpoint never says "ok" for an engine that was stopped or
\* whose supervisors ended, nor to a probe that came after draining had begun.
THEOREM ReadyMeansServing == Spec => ReadyIsServing
<1>1. SInv /\ [Next]_vars => Ready BY ReadyStep
<1> QED BY <1>1, ServerInvariance, PTL DEF Spec, ReadyIsServing, Ready
=============================================================================
