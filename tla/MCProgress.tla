----------------------------- MODULE MCProgress -----------------------------
(***************************************************************************)
(* Who waits, one part at a time: the waiters of the remote poller, the    *)
(* requests for a preflight and the tasks of the scheduler.  The parts are *)
(* separate models; `area' says which one a behaviour is about, and the    *)
(* others stand still.                                                     *)
(***************************************************************************)
EXTENDS RemotePoller, PreflightCache, TLC

CONSTANTS s1, s2,
          Areas  \* the parts this run is about

VARIABLES area, scene, tasks, dependents, ready, scheduled, permit, workers, calls, upkeep,
          group, moves, spent

poolVars == <<scene, tasks, dependents, ready, scheduled, permit, workers, calls, upkeep, group,
            moves, spent>>

TwoSubs == {s1, s2}
Known == {"Sp1"}
NoAuction == {}

Surroundings(subs, types, faulty, ends, clocks) ==
    [subs |-> subs, proof_type |-> types, faulty |-> faulty, drops |-> FALSE, ends |-> ends,
     clocks |-> clocks]

AllSp1 == [s \in Subs |-> "Sp1"]

\* A submission of its own, and a prover that is dropped meanwhile.
Dropped == [Surroundings({s1}, AllSp1, TRUE, {"Fulfilled", "Unexecutable"}, {"local"})
              EXCEPT !.drops = TRUE]

\* A provider that never finishes anything.
Silent == Surroundings(Subs, AllSp1, FALSE, {}, {"local"})

MCCasts == {Silent, Dropped}

\* Two callers in one process, the third in another.
MCProc == [a1 |-> "p", a2 |-> "p", b1 |-> "q"]
MCHasStore == [c \in {"a1", "a2", "b1"} |-> TRUE]

-----------------------------------------------------------------------------
\* The scheduler: a two-stage chain and one independent task, two workers, and
\* what goes wrong chosen by the cast.
FixedRetry(lease, max, delay) ==
    [lease_duration |-> lease, retry |-> "Fixed", max_attempts |-> max, delay |-> delay]
ExponentialRetry(lease, max, base, cap) ==
    [lease_duration |-> lease, retry |-> "Exponential", max_attempts |-> max, delay |-> base,
     max_delay |-> cap]
NoRetry(lease) == [lease_duration |-> lease, retry |-> "None"]

Chain == <<"Preflight", "Validation", "Preflight">>
PoolCast(ids, cs, deps, prio, policy, ops, mv, kinds, flt, limit) ==
    [ids |-> ids, callers |-> cs, kind |-> Chain, deps |-> deps, prio |-> prio,
     policy |-> policy, calls |-> ops, moves |-> mv, kinds |-> kinds, faults |-> flt,
     limit |-> limit]

Normal == <<"Medium", "Medium", "High">>

\* a short policy lease under the store's floor; panics and stalls
Leases == PoolCast({3}, {"c1"}, << <<>>, <<1>>, <<>> >>, Normal,
               <<NoRetry(1), NoRetry(1), FixedRetry(2, 2, 0)>>,
               {"submit"}, 1, {"panic", "stall"}, 1, 1)
\* a chain whose stages fail and are retried, with an observer that fails
Retries == PoolCast({1, 2}, {"c1"}, << <<>>, <<1, 1>>, <<>> >>, Normal,
                <<ExponentialRetry(1, 6, 1, 3), FixedRetry(1, 3, 0), NoRetry(1)>>,
                {"submit"}, 2, {"stage", "observer", "permit"}, 2, 2)
\* one task that fails until its delays are past the cap and the u64
Backoffs == PoolCast({3}, {"c1"}, << <<>>, <<1>>, <<>> >>, Normal,
                <<NoRetry(1), NoRetry(1), ExponentialRetry(1, 6, 1, 5)>>,
                {"submit"}, 1, {"stage", "record", "permit"}, 5, 2)
\* two callers, cancellation and removal against running work
Calls == PoolCast({1}, {"c1", "c2"}, << <<>>, <<1>>, <<>> >>, Normal,
              <<NoRetry(1), NoRetry(1), NoRetry(1)>>,
              {"submit", "cancel", "remove"}, 3, {}, 0, 1)
\* shutdown under way
Stops == PoolCast({1}, {"c1"}, << <<>>, <<1>>, <<>> >>, Normal,
              <<NoRetry(1), NoRetry(1), NoRetry(1)>>,
              {"submit", "shutdown"}, 2, {"panic", "maintenance"}, 1, 1)

PoolCasts == {Leases, Retries, Backoffs, Calls, Stops}

Pool == INSTANCE Scheduler WITH
    Tasks <- {1, 2, 3}, Workers <- {"w1", "w2"}, Callers <- {"c1", "c2"},
    Casts <- PoolCasts, StoreLease <- 2, MinRenew <- 1, MaintenanceInterval <- 1,
    U64 <- 7, U32 <- 100, FiveMinutes <- 6, cast <- scene, faults <- spent

-----------------------------------------------------------------------------
Unused(variable) == variable = None

\* The poller and the cache of a behaviour about another part: nobody uses them.
PollerRests == Init /\ cast = Silent
CacheRests == CacheInit /\ store = None
PoolRests == /\ Unused(scene) /\ Unused(tasks) /\ Unused(dependents) /\ Unused(ready)
             /\ Unused(scheduled) /\ Unused(permit) /\ Unused(workers) /\ Unused(calls)
             /\ Unused(upkeep) /\ Unused(group) /\ Unused(moves) /\ Unused(spent)

RunInit ==
    /\ area \in Areas
    /\ \/ area = "poller" /\ Init /\ CacheRests /\ PoolRests
       \/ area = "cache" /\ PollerRests /\ CacheInit /\ PoolRests
       \/ area = "scheduler" /\ PollerRests /\ CacheRests /\ Pool!Init

RunNext ==
    \/ area = "poller" /\ Next /\ UNCHANGED <<area, cacheVars, poolVars>>
    \/ area = "cache" /\ CacheNext /\ UNCHANGED <<area, vars, poolVars>>
    \/ area = "scheduler" /\ Pool!Next /\ UNCHANGED <<area, vars, cacheVars>>

\* The fairness each module assumes of its own steps.  A behaviour is about one
\* part, so the parts may share a formula.
PollerIsFair ==
    /\ WF_vars(area = "poller" /\ HandleRegister /\ UNCHANGED cast)
    /\ WF_vars(area = "poller" /\ HandleUntrack /\ UNCHANGED cast)
    /\ WF_vars(area = "poller" /\ CommandsClose /\ UNCHANGED cast)
    /\ WF_vars(area = "poller" /\ Exit /\ UNCHANGED cast)
    /\ WF_vars(area = "poller" /\ Tick /\ UNCHANGED cast)
    /\ \A t \in ProofTypes :
          /\ WF_vars(area = "poller" /\ Complete(t) /\ UNCHANGED cast)
          /\ WF_vars(area = "poller" /\ PollFails(t, "Transient") /\ UNCHANGED cast)
    /\ \A s \in Subs :
          /\ WF_vars(area = "poller" /\ Pass(<<"local", s>>) /\ UNCHANGED cast)
          /\ WF_vars(area = "poller" /\ Conclude(s) /\ UNCHANGED cast)

CacheIsFair ==
    \A c \in Callers :
        WF_cacheVars(area = "cache" /\ (elect(c) \/ WaitForFlight(c) \/ LeaderStep(c)))

PoolIsFair ==
    /\ \A w \in {"w1", "w2"} :
          /\ WF_poolVars(area = "scheduler" /\ Pool!WorkerStep(w))
          /\ WF_poolVars(area = "scheduler" /\ Pool!Execute(w))
          /\ WF_poolVars(area = "scheduler" /\ Pool!RenewLease(w))
          /\ WF_poolVars(area = "scheduler" /\ Pool!Restart(w))
          /\ WF_poolVars(area = "scheduler" /\ Pool!SupervisorStops(w))
    /\ \A c \in {"c1", "c2"} :
          WF_poolVars(area = "scheduler" /\ (Pool!MarkReady(c) \/ Pool!PushReady(c)))
    /\ WF_poolVars(area = "scheduler" /\ (Pool!PromoteScheduled \/ Pool!RequeueExpiredLeases))
    /\ WF_poolVars(area = "scheduler" /\ Pool!MaintenanceRestarts)
    /\ WF_poolVars(area = "scheduler" /\ Pool!MaintenanceStops)
    /\ WF_poolVars(area = "scheduler" /\ Pool!Joined)
    /\ WF_poolVars(area = "scheduler" /\ Pool!Tick)

RunSpec ==
    /\ RunInit /\ [][RunNext]_<<area, vars, cacheVars, poolVars>>
    /\ PollerIsFair /\ CacheIsFair /\ PoolIsFair

-----------------------------------------------------------------------------
\* Work in hand is not taken away or repeated in haste.  The exact delete of an
\* unusable cache entry spares the good one that replaced it; a worker whose
\* lease was lost has been told and one that renews on time keeps its lease.  A
\* refused permit or an output that could not be recorded never ends a task, and
\* every retry waits exactly the doubled, capped delay of the policy in force,
\* the u64 of the code notwithstanding.
WorkIsKept ==
    [][/\ area = "cache" => GoodEntryKept
       /\ area = "scheduler" => Pool!LostIsNoticed /\ Pool!OnTimeKeepsLease
                                /\ Pool!CoordinationRetries /\ Pool!DelaysGrow
      ]_<<area, vars, cacheVars, poolVars>>

\* Whoever waits is answered in the end.
\*   A waiter of the poller: neither a hanging provider nor a poll in flight for
\*   ever keeps it waiting.
\*   A request for a preflight: its leader's result wakes it or, when the leader
\*   is dropped, it leads or follows the next flight.
\*   A submitted task: whatever panics, stalls or is retried, and whichever
\*   wake-up falls between a worker's look at the queue and its wait.
WaitersEnd ==
    []<>(/\ area = "poller" => Unanswered = {}
         /\ area = "cache" => \A c \in Callers : pc[c] = "done"
         /\ area = "scheduler" => Pool!Settled)
=============================================================================
