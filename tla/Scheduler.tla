----------------------------- MODULE Scheduler -----------------------------
(***************************************************************************)
(* The single-task interface of the queue (raiko2-queue Scheduler over     *)
(* MemoryStore), the worker pool that serves it (raiko2-engine worker.rs)  *)
(* and the clock both live by: leases that run out, renewals at half the   *)
(* lease, delayed retries, the maintenance tick, wake-ups that store at    *)
(* most one permit, and supervisors that restart what panics.              *)
(*                                                                         *)
(* Time is kept as what is left of each timer: Tick takes one unit off all *)
(* of them.  A timer that is due is served before time goes on, except     *)
(* where a worker has stalled.  Which tasks exist, their kinds, priorities *)
(* and policies, and how much may go wrong, come from a cast.              *)
(***************************************************************************)
EXTENDS Integers, Sequences, FiniteSets, SequencesExt, FiniteSetsExt, Functions

CONSTANTS
    Tasks,          \* task ids
    Workers,        \* worker slots of the pool
    Callers,        \* concurrent callers of submit
    Casts,          \* [ids, callers, kind, deps, prio, policy, calls, moves, kinds, faults, limit]
    StoreLease,     \* MemoryStore's own lease, the floor under every policy's
    MinRenew,       \* the one-second floor of the renewal period
    MaintenanceInterval,
    U64,            \* u64::MAX of the retry arithmetic, scaled down
    U32,            \* u32::MAX of the attempt counter, scaled down
    FiveMinutes     \* the longest wait for a durable state, scaled down

VARIABLES
    cast,       \* the instance under way, chosen at the start
    tasks,      \* task id -> record, NoTask when the store has no such task
    dependents, \* task id -> the ids waiting on it
    ready,      \* priority -> queue of ids
    scheduled,  \* delayed ids, earliest first: [id, due]
    permit,     \* the wake-up ready_notify keeps for a worker not yet waiting
    workers,    \* worker -> where it is in its loop
    calls,      \* caller -> the submission it is in the middle of
    upkeep,     \* the maintenance task: [at, due, moved, runs]
    group,      \* "up", "stopping" or "down"
    moves,      \* calls made so far, bounded by the cast
    faults      \* panics, stalls and observer errors so far, bounded by the cast

vars == <<cast, tasks, dependents, ready, scheduled, permit, workers, calls,
          upkeep, group, moves, faults>>

store == <<tasks, dependents, ready, scheduled>>

NoTask == [state |-> "None"]
NoTimer == -1
Priorities == <<"High", "Medium", "Low">>

Terminal == {"Succeeded", "Failed", "Cancelled"}

-----------------------------------------------------------------------------
(* Retry policies (scheduler/retry.rs).                                    *)

Saturated(n) == IF n > U64 THEN U64 ELSE n

\* 1 << exponent, u64::MAX once the bit falls out.
Factor(exponent) == IF 2 ^ exponent > U64 THEN U64 ELSE 2 ^ exponent

\* The delay before the next attempt, NoTimer when the attempts are used up.
retry_delay(policy, attempt) ==
    CASE policy.retry = "None" -> NoTimer
      [] policy.retry = "Fixed" ->
            IF attempt >= policy.max_attempts THEN NoTimer ELSE policy.delay
      [] policy.retry = "Exponential" ->
            IF attempt >= policy.max_attempts THEN NoTimer
            ELSE Min({Saturated(policy.delay * Factor(Max({attempt - 1, 0}))),
                      policy.max_delay})

failure_is_terminal(policy, attempt) == retry_delay(policy, attempt) = NoTimer

\* What the engine replaces the policy by when the runtime state could not be
\* reached: growing delays, for as long as it takes.
durability_retry_policy ==
    [retry |-> "Exponential", max_attempts |-> U32, delay |-> 1, max_delay |-> FiveMinutes]

\* Mutant: every failure counts against the task's own policy.
OwnPolicy(policy, error) == policy

\* An observer's error is not the task's failure.
apply_execution_failure_policy(policy, error) ==
    IF error = "coordination" THEN durability_retry_policy ELSE policy

-----------------------------------------------------------------------------
(* The store's primitives, each under the one lock.                        *)

\* The ready queue with id in its place: the id order stands for the sort key.
push_ready_locked(rdy, prio, id) ==
    [rdy EXCEPT ![prio] = SortSeq(Append(@, id), LAMBDA a, b : a < b)]

remove_ready(rdy, ids) == [p \in DOMAIN rdy |-> SelectSeq(rdy[p], LAMBDA e : e \notin ids)]
remove_scheduled(sch, ids) == SelectSeq(sch, LAMBDA e : e.id \notin ids)

remove_dependent_edges(edges, id) == [d \in Tasks |-> edges[d] \ {id}]

lease_ms(policy) == Max({policy.lease_duration, StoreLease})

running_lease_matches(id, token, attempt) ==
    /\ tasks[id].state = "Running"
    /\ tasks[id].token = token
    /\ tasks[id].attempt = attempt

\* An inserted record: what the dependencies' states make of it.
resolve_dependency_insert_state(deps) ==
    LET Ended == {i \in DOMAIN deps : tasks[deps[i]].state \in {"Failed", "Cancelled"}}
        unresolved == SelectSeq(deps, LAMBDA d : tasks[d].state # "Succeeded")
    IN IF Ended # {}
       THEN [state |-> tasks[deps[Min(Ended)]].state, unresolved |-> <<>>]
       ELSE [state |-> "Pending", unresolved |-> unresolved]

TaskRecord(id, deps, resolved) ==
    [state |-> resolved.state, remaining |-> Len(resolved.unresolved), attempt |-> 0,
     token |-> 0, lease |-> NoTimer, deps |-> deps, prio |-> cast.prio[id],
     policy |-> cast.policy[id]]

\* Every task reachable from id over dependent edges.
Downstream(id) ==
    LET Grow(ids) == ids \cup UNION {dependents[d] : d \in ids}
        All == FoldLeft(LAMBDA ids, i : Grow(ids), {id}, SetToSeq(Tasks))
    IN All \ {id}

\* id ends as `state`; what waits on it fails with it.
EndWithDependents(id, state) ==
    LET Hit == {id} \cup {d \in Downstream(id) : tasks[d].state \notin Terminal \cup {"None"}}
    IN /\ tasks' = [d \in Tasks |->
                       IF d \notin Hit THEN tasks[d]
                       ELSE [tasks[d] EXCEPT !.state = IF d = id THEN state ELSE "Failed",
                                             !.lease = NoTimer]]
       /\ ready' = remove_ready(ready, Downstream(id) \cup {id})
       /\ scheduled' = remove_scheduled(scheduled, Downstream(id) \cup {id})
       /\ UNCHANGED dependents

\* complete_success_and_release_dependents_if_running: what waited on id
\* counts down, and what has nothing left to wait for is queued.
release_dependents_locked(id) ==
    LET Waiting == {d \in dependents[id] : tasks[d].state = "Pending"}
        Freed == {d \in Waiting : tasks[d].remaining <= 1}
    IN /\ tasks' = [d \in Tasks |->
                       IF d = id THEN [tasks[d] EXCEPT !.state = "Succeeded", !.lease = NoTimer]
                       ELSE IF d \notin Waiting THEN tasks[d]
                       ELSE [tasks[d] EXCEPT !.remaining = Max({@ - 1, 0}),
                                             !.state = IF d \in Freed THEN "Ready" ELSE @]]
       /\ ready' = FoldLeft(LAMBDA q, d : push_ready_locked(q, tasks[d].prio, d),
                            remove_ready(ready, {id}), SetToSeq(Freed))
       /\ scheduled' = remove_scheduled(scheduled, {id})
       /\ UNCHANGED dependents

-----------------------------------------------------------------------------
(* Wake-ups.                                                               *)

\* Mutant: only the workers already waiting are woken; no permit is kept.
WakeWaitersOnly(wks) ==
    /\ workers' = [w \in Workers |->
                      IF wks[w].at = "waiting" THEN [wks[w] EXCEPT !.at = "look"] ELSE wks[w]]
    /\ UNCHANGED permit
\* notify_waiters wakes every registered worker, notify_one then leaves a
\* permit for one that has found nothing and is not registered yet.
notify_ready_workers(wks) ==
    /\ workers' = [w \in Workers |->
                      IF wks[w].at = "waiting" THEN [wks[w] EXCEPT !.at = "look"] ELSE wks[w]]
    /\ permit' = TRUE

\* lease_notify.notify_waiters(): the watcher of every running execution.
WatchersWoken(wks) ==
    [w \in Workers |-> IF wks[w].at = "run" THEN [wks[w] EXCEPT !.woken = TRUE] ELSE wks[w]]

Idle(at) == [at |-> at, task |-> 0, token |-> 0, attempt |-> 0, policy |-> NoTask,
             renew |-> NoTimer, woken |-> FALSE, stalled |-> FALSE, error |-> "none"]

-----------------------------------------------------------------------------
Init ==
    /\ cast \in Casts
    /\ tasks = [t \in Tasks |-> NoTask]
    /\ dependents = [t \in Tasks |-> {}]
    /\ ready = [p \in ToSet(Priorities) |-> <<>>]
    /\ scheduled = <<>>
    /\ permit = FALSE
    /\ workers = [w \in Workers |-> Idle("look")]
    /\ calls = [c \in Callers |-> [at |-> "idle", id |-> 0]]
    /\ upkeep = [at |-> "promote", due |-> 0, moved |-> 0]
    /\ group = "up"
    /\ moves = 0
    /\ faults = 0

Move(op) ==
    /\ op \in cast.calls
    /\ moves < cast.moves
    /\ moves' = moves + 1

Fault(kind) ==
    /\ kind \in cast.kinds
    /\ faults < cast.faults
    /\ faults' = faults + 1

-----------------------------------------------------------------------------
(* submit, in the three store calls it makes; cancel; remove.              *)

\* A dependency list without its duplicates.
Normalized(deps) ==
    FoldLeft(LAMBDA seen, d : IF d \in ToSet(seen) THEN seen ELSE Append(seen, d), <<>>, deps)

\* insert_task: a new record, or a fresh start for one that failed or was
\* cancelled; a task that is already there is left alone.
insert_task(id, resolved) ==
    /\ tasks' = [tasks EXCEPT ![id] = TaskRecord(id, Normalized(cast.deps[id]), resolved)]
    /\ dependents' = [d \in Tasks |->
                         IF d \in ToSet(resolved.unresolved) THEN dependents[d] \cup {id}
                         ELSE dependents[d] \ {id}]
    /\ ready' = remove_ready(ready, {id})
    /\ scheduled' = remove_scheduled(scheduled, {id})

Submit(c, id) ==
    /\ calls[c].at = "idle"
    /\ Move("submit")
    /\ c \in cast.callers
    /\ id \in cast.ids
    /\ IF tasks[id].state \in {"None", "Failed", "Cancelled"}
       THEN /\ insert_task(id, resolve_dependency_insert_state(Normalized(cast.deps[id])))
            /\ calls' = [calls EXCEPT ![c] = [at |-> "mark", id |-> id]]
       ELSE UNCHANGED <<store, calls>>
    /\ UNCHANGED <<cast, permit, workers, upkeep, group, faults>>

\* try_mark_ready: with nothing left to wait for the task becomes Ready here,
\* and is put in the queue by a call of its own.
MarkReady(c) ==
    LET id == calls[c].id IN
    /\ calls[c].at = "mark"
    /\ IF tasks[id].state = "Pending" /\ tasks[id].remaining = 0
       THEN /\ tasks' = [tasks EXCEPT ![id].state = "Ready"]
            /\ calls' = [calls EXCEPT ![c].at = "push"]
       ELSE /\ calls' = [calls EXCEPT ![c] = [at |-> "idle", id |-> 0]]
            /\ UNCHANGED tasks
    /\ UNCHANGED <<cast, dependents, ready, scheduled, permit, workers, upkeep, group, moves, faults>>

PushReady(c) ==
    /\ calls[c].at = "push"
    /\ ready' = push_ready_locked(ready, cast.prio[calls[c].id], calls[c].id)
    /\ notify_ready_workers(workers)
    /\ calls' = [calls EXCEPT ![c] = [at |-> "idle", id |-> 0]]
    /\ UNCHANGED <<cast, tasks, dependents, scheduled, upkeep, group, moves, faults>>

Cancel(id) ==
    /\ Move("cancel")
    /\ IF tasks[id].state \in Terminal \cup {"None"} THEN UNCHANGED store
       ELSE EndWithDependents(id, "Cancelled")
    /\ workers' = WatchersWoken(workers)
    /\ UNCHANGED <<cast, permit, calls, upkeep, group, faults>>

RemoveTask(id) ==
    /\ Move("remove")
    /\ tasks[id].state # "None"
    /\ tasks' = [tasks EXCEPT ![id] = NoTask]
    /\ dependents' = [remove_dependent_edges(dependents, id) EXCEPT ![id] = {}]
    /\ ready' = remove_ready(ready, {id})
    /\ scheduled' = remove_scheduled(scheduled, {id})
    /\ workers' = WatchersWoken(workers)
    /\ UNCHANGED <<cast, permit, calls, upkeep, group, faults>>

-----------------------------------------------------------------------------
(* A worker's loop: run_one until there is nothing, then wait.             *)

Takeable(q) == {i \in DOMAIN q : tasks[q[i]].state = "Ready"}

\* pop_ready_and_take drops what is no longer Ready until it can take one.
Popped(q) == IF Takeable(q) = {} THEN <<>> ELSE SubSeq(q, Min(Takeable(q)) + 1, Len(q))

\* The first priority with something to take; the queues before it are drained.
NextPriority == {i \in DOMAIN Priorities : Takeable(ready[Priorities[i]]) # {}}

FreshToken ==
    Min((1 .. 2 * Cardinality(Workers) + Cardinality(Tasks))
            \ ({workers[w].token : w \in Workers}
                \cup {tasks[t].token : t \in {u \in Tasks : tasks[u] # NoTask}}))

\* spawn_lease_renewal's period: half the policy's lease, at least a second.
renew_period(policy) == Max({policy.lease_duration \div 2, MinRenew})

Started(id, token) ==
    [at |-> "permit", task |-> id, token |-> token, attempt |-> tasks[id].attempt + 1,
     policy |-> tasks[id].policy, renew |-> renew_period(tasks[id].policy),
     woken |-> FALSE, stalled |-> FALSE, error |-> "none"]

Taken(id, token) ==
    [tasks[id] EXCEPT !.state = "Running", !.token = token, !.attempt = @ + 1,
                      !.lease = lease_ms(tasks[id].policy)]

TakeFrom(w, prio, id) ==
    /\ tasks' = [tasks EXCEPT ![id] = Taken(id, FreshToken)]
    /\ workers' = [workers EXCEPT ![w] = Started(id, FreshToken)]
    /\ ready' = [p \in DOMAIN ready |->
                    IF p = Priorities[prio] \/ \E i \in 1 .. prio - 1 : p = Priorities[i]
                    THEN Popped(ready[p]) ELSE ready[p]]

\* next_ready, and the renewal task spawned with the lease.
NextReady(w) ==
    /\ workers[w].at = "look"
    /\ NextPriority # {}
    /\ \E prio \in {Min(NextPriority)} :
         LET q == ready[Priorities[prio]] IN TakeFrom(w, prio, q[Min(Takeable(q))])
    /\ UNCHANGED <<cast, dependents, scheduled, permit, calls, upkeep, group, moves, faults>>

FindNothing(w) ==
    /\ workers[w].at = "look"
    /\ NextPriority = {}
    /\ ready' = [p \in DOMAIN ready |-> <<>>]
    /\ workers' = [workers EXCEPT ![w].at = "empty"]
    /\ UNCHANGED <<cast, tasks, dependents, scheduled, permit, calls, upkeep, group, moves, faults>>

\* notified().await: a kept permit is used up, else the worker registers.
AwaitNotified(w) ==
    /\ workers[w].at = "empty"
    /\ workers' = [workers EXCEPT ![w].at = IF permit THEN "look" ELSE "waiting"]
    /\ permit' = FALSE
    /\ UNCHANGED <<cast, store, calls, upkeep, group, moves, faults>>

Holds(w) == running_lease_matches(workers[w].task, workers[w].token, workers[w].attempt)

Extended(w) ==
    [tasks EXCEPT ![workers[w].task].lease = lease_ms(tasks[workers[w].task].policy)]

\* acquire_current_execution_permit: the observer may refuse, but the lease
\* is renewed first, and a lease already lost ends the run without a word.
AcquirePermit(w) ==
    /\ workers[w].at = "permit"
    /\ IF Holds(w)
       THEN /\ tasks' = Extended(w)
            /\ \/ /\ workers' = [workers EXCEPT ![w].at = "run", ![w].woken = TRUE]
                  /\ UNCHANGED faults
               \/ /\ Fault("permit")
                  /\ workers' = [workers EXCEPT ![w].at = "ended", ![w].error = "coordination"]
       ELSE /\ workers' = [workers EXCEPT ![w] = Idle("look")]
            /\ UNCHANGED <<tasks, faults>>
    /\ UNCHANGED <<cast, dependents, ready, scheduled, permit, calls, upkeep, group, moves>>

\* wait_lease_interruption: registered before it reads, woken by every change
\* of a lease; a task cancelled under the worker and a lease lost differ.
WatchLease(w) ==
    /\ workers[w].at = "run"
    /\ workers[w].woken
    /\ workers' = [workers EXCEPT ![w] =
          IF Holds(w) THEN [@ EXCEPT !.woken = FALSE]
          ELSE IF tasks[workers[w].task].state = "Cancelled"
               THEN [@ EXCEPT !.woken = FALSE, !.at = "ended", !.error = "cancelled"]
               ELSE [@ EXCEPT !.woken = FALSE, !.at = "failing", !.renew = NoTimer,
                              !.policy = [retry |-> "None"]]]
    /\ UNCHANGED <<cast, store, permit, calls, upkeep, group, moves, faults>>

\* The stage a task's input must come from (Engine::execute and
\* get_guest_input, get_encoded_input): a preflight needs none.
InputStage == [Preflight |-> "none", Validation |-> "Preflight",
               Encode |-> "Validation", Prove |-> "Encode"]

InputAtHand(id) ==
    LET kind == cast.kind[id] IN
    \/ InputStage[kind] = "none"
    \/ /\ Len(cast.deps[id]) > 0
       /\ LET input == cast.deps[id][1] IN
            /\ tasks[input].state = "Succeeded"
            /\ cast.kind[input] = InputStage[kind]

\* The stage itself ends, in an output, an error, or an output the observer could
\* not record (notify_execution_success).
Execute(w) ==
    /\ workers[w].at = "run"
    /\ \/ /\ InputAtHand(workers[w].task)
          /\ workers' = [workers EXCEPT ![w].at = "ended"]
          /\ UNCHANGED faults
       \/ /\ InputAtHand(workers[w].task) => faults < cast.faults /\ "stage" \in cast.kinds
          /\ faults' = IF InputAtHand(workers[w].task) THEN faults + 1 ELSE faults
          /\ workers' = [workers EXCEPT ![w].at = "ended", ![w].error = "stage"]
       \/ /\ InputAtHand(workers[w].task)
          /\ Fault("record")
          /\ workers' = [workers EXCEPT ![w].at = "ended", ![w].error = "coordination"]
    /\ UNCHANGED <<cast, store, permit, calls, upkeep, group, moves>>

Done(w) == [workers EXCEPT ![w] = Idle("look")]

\* retry_now or retry_later, as the delay says.
Rescheduled(w, delay) ==
    LET id == workers[w].task IN
    IF delay = 0
    THEN /\ tasks' = [tasks EXCEPT ![id] = [@ EXCEPT !.state = "Ready", !.lease = NoTimer]]
         /\ ready' = push_ready_locked(ready, tasks[id].prio, id)
         /\ notify_ready_workers(WatchersWoken(Done(w)))
         /\ UNCHANGED <<dependents, scheduled>>
    ELSE /\ tasks' = [tasks EXCEPT ![id] = [@ EXCEPT !.state = "Retrying", !.lease = NoTimer]]
         /\ scheduled' = SortSeq(Append(scheduled, [id |-> id, due |-> delay]),
                                 LAMBDA a, b : a.due < b.due)
         /\ workers' = WatchersWoken(Done(w))
         /\ UNCHANGED <<dependents, ready, permit>>

\* complete_with_disposition on a success.
CompleteSuccess(w) ==
    /\ workers[w].at = "ended"
    /\ workers[w].error = "none"
    /\ IF Holds(w)
       THEN /\ release_dependents_locked(workers[w].task)
            /\ notify_ready_workers(WatchersWoken(Done(w)))
       ELSE /\ workers' = Done(w)
            /\ UNCHANGED <<store, permit>>
    /\ UNCHANGED <<cast, calls, upkeep, group, moves, faults>>

\* An error short of terminal is retried; a terminal one is recorded first.
CompleteError(w) ==
    /\ workers[w].at = "ended"
    /\ workers[w].error # "none"
    /\ \E policy \in {apply_execution_failure_policy(workers[w].policy, workers[w].error)} :
         IF failure_is_terminal(policy, workers[w].attempt)
         THEN /\ workers' = [workers EXCEPT ![w].at = "failing"]
              /\ UNCHANGED <<store, permit>>
         ELSE IF Holds(w) THEN Rescheduled(w, retry_delay(policy, workers[w].attempt))
         ELSE workers' = Done(w) /\ UNCHANGED <<store, permit>>
    /\ UNCHANGED <<cast, calls, upkeep, group, moves, faults>>

\* retry_after_terminal_observer_error.
RetryDurably(w) ==
    /\ Fault("observer")
    /\ IF Holds(w) THEN Rescheduled(w, retry_delay(durability_retry_policy, workers[w].attempt))
       ELSE workers' = Done(w) /\ UNCHANGED <<store, permit>>

\* complete_terminal_failure up to the observer's record: the observer's
\* permit, and once more the lease.
TerminalFailure(w) ==
    /\ workers[w].at = "failing"
    /\ \/ RetryDurably(w)
       \/ /\ IF Holds(w)
             THEN /\ tasks' = Extended(w)
                  /\ workers' = [workers EXCEPT ![w].at = "recorded"]
             ELSE /\ workers' = Done(w)
                  /\ UNCHANGED tasks
          /\ UNCHANGED <<dependents, ready, scheduled, permit, faults>>
    /\ UNCHANGED <<cast, calls, upkeep, group, moves>>

\* The observer's record is made, or not; then the queue's own failure.
FailCompletedLease(w) ==
    /\ workers[w].at = "recorded"
    /\ \/ RetryDurably(w)
       \/ /\ IF Holds(w)
             THEN /\ EndWithDependents(workers[w].task, "Failed")
                  /\ workers' = WatchersWoken(Done(w))
             ELSE /\ workers' = Done(w)
                  /\ UNCHANGED store
          /\ UNCHANGED <<permit, faults>>
    /\ UNCHANGED <<cast, calls, upkeep, group, moves>>

\* One round of the renewal task; it stops when the lease is not the worker's.
RenewLease(w) ==
    /\ workers[w].renew = 0
    /\ IF Holds(w)
       THEN /\ tasks' = Extended(w)
            /\ workers' = [workers EXCEPT ![w].renew = renew_period(workers[w].policy),
                                          ![w].stalled = FALSE]
       ELSE /\ workers' = [workers EXCEPT ![w].renew = NoTimer, ![w].stalled = FALSE]
            /\ UNCHANGED tasks
    /\ UNCHANGED <<cast, dependents, ready, scheduled, permit, calls, upkeep, group, moves, faults>>

-----------------------------------------------------------------------------
(* Supervision: what panics comes back, and a stopped pool stays stopped.  *)

Panic(w) ==
    /\ Fault("panic")
    /\ workers[w].at \notin {"backoff", "off"}
    /\ workers' = [workers EXCEPT ![w] = Idle("backoff")]
    /\ UNCHANGED <<cast, store, permit, calls, upkeep, group, moves>>

Restart(w) ==
    /\ group = "up"
    /\ workers[w].at = "backoff"
    /\ workers' = [workers EXCEPT ![w].at = "look"]
    /\ UNCHANGED <<cast, store, permit, calls, upkeep, group, moves, faults>>

\* The worker's thread is held up: its renewal comes late.
Stall(w) ==
    /\ Fault("stall")
    /\ workers[w].renew # NoTimer
    /\ ~workers[w].stalled
    /\ workers' = [workers EXCEPT ![w].stalled = TRUE]
    /\ UNCHANGED <<cast, store, permit, calls, upkeep, group, moves>>

MaintenancePanics ==
    /\ Fault("maintenance")
    /\ upkeep.at \in {"promote", "requeue"}
    /\ upkeep' = [upkeep EXCEPT !.at = "backoff"]
    /\ UNCHANGED <<cast, store, permit, workers, calls, group, moves>>

\* The interval of a new maintenance task ticks at once.
MaintenanceRestarts ==
    /\ group = "up"
    /\ upkeep.at = "backoff"
    /\ upkeep' = [at |-> "promote", due |-> 0, moved |-> 0]
    /\ UNCHANGED <<cast, store, permit, workers, calls, group, moves, faults>>

\* WorkerGroup::shutdown: every supervisor is told, each aborts its task.
Shutdown ==
    /\ Move("shutdown")
    /\ group = "up"
    /\ group' = "stopping"
    /\ UNCHANGED <<cast, store, permit, workers, calls, upkeep, faults>>

SupervisorStops(w) ==
    /\ group = "stopping"
    /\ workers[w].at # "off"
    /\ workers' = [workers EXCEPT ![w] = Idle("off")]
    /\ UNCHANGED <<cast, store, permit, calls, upkeep, group, moves, faults>>

MaintenanceStops ==
    /\ group = "stopping"
    /\ upkeep.at # "off"
    /\ upkeep' = [at |-> "off", due |-> NoTimer, moved |-> 0]
    /\ UNCHANGED <<cast, store, permit, workers, calls, group, moves, faults>>

\* Every handle joined: shutdown returns, and all_alive stays false.
Joined ==
    /\ group = "stopping"
    /\ upkeep.at = "off"
    /\ \A w \in Workers : workers[w].at = "off"
    /\ group' = "down"
    /\ UNCHANGED <<cast, store, permit, workers, calls, upkeep, moves, faults>>

-----------------------------------------------------------------------------
(* The maintenance tick and the clock.                                     *)

Due == {i \in DOMAIN scheduled : scheduled[i].due = 0}
Promoted == {i \in Due : i <= cast.limit}

\* promote_scheduled, at most `limit` of those that are due.
PromoteScheduled ==
    LET ids == {scheduled[i].id : i \in Promoted} IN
    /\ upkeep.at = "promote"
    /\ upkeep.due = 0
    /\ tasks' = [t \in Tasks |-> IF t \in ids THEN [tasks[t] EXCEPT !.state = "Ready"] ELSE tasks[t]]
    /\ ready' = FoldLeft(LAMBDA q, t : push_ready_locked(q, tasks[t].prio, t), ready, SetToSeq(ids))
    /\ scheduled' = SubSeq(scheduled, Cardinality(Promoted) + 1, Len(scheduled))
    /\ upkeep' = [upkeep EXCEPT !.at = "requeue", !.moved = Cardinality(ids)]
    /\ UNCHANGED <<cast, dependents, permit, workers, calls, group, moves, faults>>

\* requeue_expired_leases takes the first `limit` in order of deadline, then of
\* leasing; which of several that expired together come first is left open.
Expired == {t \in Tasks : tasks[t].state = "Running" /\ tasks[t].lease = 0}

Requeued == {ids \in SUBSET Expired : Cardinality(ids) = Min({cast.limit, Cardinality(Expired)})}

\* The watchers are woken when a lease was taken back.
AfterRequeue(ids) == IF ids = {} THEN workers ELSE WatchersWoken(workers)

RequeueExpiredLeases ==
    /\ upkeep.at = "requeue"
    /\ \E ids \in Requeued :
         /\ tasks' = [t \in Tasks |->
                         IF t \in ids THEN [tasks[t] EXCEPT !.state = "Ready", !.lease = NoTimer]
                         ELSE tasks[t]]
         /\ ready' = FoldLeft(LAMBDA q, t : push_ready_locked(q, tasks[t].prio, t),
                              ready, SetToSeq(ids))
         /\ IF upkeep.moved + Cardinality(ids) > 0
            THEN notify_ready_workers(AfterRequeue(ids))
            ELSE UNCHANGED <<workers, permit>>
    /\ upkeep' = [at |-> "promote", due |-> MaintenanceInterval, moved |-> 0]
    /\ UNCHANGED <<cast, dependents, scheduled, calls, group, moves, faults>>

Less(n) == IF n > 0 THEN n - 1 ELSE n

\* Time goes on once every timer that is due has been served.
Tick ==
    /\ upkeep.at # "requeue"
    /\ upkeep.at = "promote" => upkeep.due > 0
    /\ \A w \in Workers : workers[w].renew = 0 => workers[w].stalled
    /\ tasks' = [t \in Tasks |-> IF tasks[t] = NoTask THEN NoTask ELSE [tasks[t] EXCEPT !.lease = Less(@)]]
    /\ scheduled' = [i \in DOMAIN scheduled |-> [scheduled[i] EXCEPT !.due = Less(@)]]
    /\ workers' = [w \in Workers |-> [workers[w] EXCEPT !.renew = Less(@)]]
    /\ upkeep' = [upkeep EXCEPT !.due = Less(@)]
    /\ UNCHANGED <<cast, dependents, ready, permit, calls, group, moves, faults>>

-----------------------------------------------------------------------------
WorkerStep(w) ==
    \/ NextReady(w) \/ FindNothing(w) \/ AwaitNotified(w) \/ AcquirePermit(w)
    \/ WatchLease(w) \/ CompleteSuccess(w) \/ CompleteError(w)
    \/ TerminalFailure(w) \/ FailCompletedLease(w)

Next ==
    \/ \E w \in Workers :
          \/ WorkerStep(w) \/ Execute(w) \/ RenewLease(w) \/ Panic(w) \/ Restart(w)
          \/ Stall(w) \/ SupervisorStops(w)
    \/ \E c \in Callers : MarkReady(c) \/ PushReady(c) \/ \E id \in Tasks : Submit(c, id)
    \/ \E id \in Tasks : Cancel(id) \/ RemoveTask(id)
    \/ PromoteScheduled \/ RequeueExpiredLeases \/ MaintenancePanics \/ MaintenanceRestarts
    \/ Shutdown \/ MaintenanceStops \/ Joined \/ Tick

\* The executor runs every task that can run: worker loops, renewals, the
\* maintenance loop, the supervisors and callers; stages end; time goes on.
Fairness ==
    /\ \A w \in Workers :
          /\ WF_vars(WorkerStep(w)) /\ WF_vars(Execute(w)) /\ WF_vars(RenewLease(w))
          /\ WF_vars(Restart(w)) /\ WF_vars(SupervisorStops(w))
    /\ \A c \in Callers : WF_vars(MarkReady(c) \/ PushReady(c))
    /\ WF_vars(PromoteScheduled \/ RequeueExpiredLeases)
    /\ WF_vars(MaintenanceRestarts) /\ WF_vars(MaintenanceStops) /\ WF_vars(Joined)
    /\ WF_vars(Tick)

Spec == Init /\ [][Next]_vars /\ Fairness

-----------------------------------------------------------------------------
(* Properties.                                                             *)

\* A task that waits on one the store does not have, or no longer links to it.
Stranded(t) ==
    /\ tasks[t].state = "Pending"
    /\ \/ \E d \in Tasks : t \in dependents[d] /\ tasks[d] = NoTask
       \/ Cardinality({d \in Tasks : t \in dependents[d]}) < tasks[t].remaining

\* Every task that was submitted has ended, or cannot: the pool was shut down or
\* a task it waits for was removed or never submitted.
Settled ==
    \/ \A t \in Tasks : tasks[t] # NoTask => tasks[t].state \in Terminal
    \/ group # "up"
    \/ \E d \in Tasks : Stranded(d)

\* A worker still executing a task whose lease is no longer its own has been
\* told: its lease watcher has a wake-up to act on (wait_lease_interruption
\* and the notify_waiters calls after every change of a lease).
LostIsNoticed ==
    \A w \in Workers : workers[w].at = "run" /\ ~Holds(w) => workers[w].woken

\* Maintenance takes a lease back only from a worker that is gone or late:
\* one that renews on time, at the period spawn_lease_renewal chose, keeps the
\* lease take_ready_locked gave it, whatever its policy says of lease lengths.
OnTimeKeepsLease ==
    \A t \in Tasks :
          (/\ upkeep.at = "requeue" /\ upkeep'.at = "promote"
           /\ tasks[t].state = "Running" /\ tasks'[t].state = "Ready")
          => \A w \in Workers : (workers[w].task = t /\ Holds(w)) => workers[w].stalled

\* A failure that is the observer's and not the task's is retried, whatever the
\* task's own policy: no refused permit and no output that could not be recorded
\* ends the task (apply_execution_failure_policy, durability_retry_policy).
CoordinationRetries ==
    \A w \in Workers :
       workers[w].error = "coordination" /\ Holds(w) => tasks'[workers[w].task].state # "Failed"

\* A delayed retry waits the base delay doubled once per attempt, up to the cap of
\* the policy in force, also where the doubling leaves the range of a u64
\* (RetryPolicy::retry_delay).
DelaysGrow ==
    \A w \in Workers : \A i \in DOMAIN scheduled' :
       (/\ workers[w].at \in {"ended", "failing", "recorded"} /\ Holds(w)
        /\ scheduled'[i].id = workers[w].task
        /\ tasks'[workers[w].task].state = "Retrying") =>
          LET policy == IF workers[w].at # "ended" \/ workers[w].error = "coordination"
                        THEN durability_retry_policy ELSE tasks[workers[w].task].policy
          IN  policy.retry = "Exponential" =>
                 scheduled'[i].due = Min({policy.max_delay, policy.delay * 2 ^ (workers[w].attempt - 1)})
=============================================================================
