------------------------ MODULE ExecutionProjection ------------------------
(***************************************************************************)
(* The in-memory execution projection of crates/queue: one MemoryStore     *)
(* behind one mutex, the Scheduler that calls it, and the engine workers   *)
(* that lease its tasks.                                                   *)
(*                                                                         *)
(* Runtime roots (owners) attach whole dependency graphs; graphs share     *)
(* tasks; a task lives as long as some owner needs it.  Every operation    *)
(* that holds the store's mutex is one action.  next_ready holds it twice  *)
(* (pop_ready, then take_ready), so it is two actions.                     *)
(*                                                                         *)
(* Time is left out: a lease may be found expired, and a retry due, at any *)
(* moment.  A lease token is a UUID that is only ever compared for         *)
(* equality, so a token nobody refers to any more may be handed out again. *)
(***************************************************************************)
EXTENDS Naturals, FiniteSets

CONSTANTS
    Owners,       \* runtime roots: (task id, incarnation id) pairs
    Tasks,        \* execution task ids
    Workers,      \* engine worker tasks
    Tokens,       \* lease tokens
    Graphs,       \* the validated graphs an owner may attach
    Key,          \* Key[t]: the ready queue sort prefix of t
    MaxAttempt,   \* the largest attempt number (u32::MAX in the code)
    BatchLimit,   \* MAINTENANCE_TICK_LIMIT
    None          \* "no task", "no lease", "no definition"

Priorities == {"High", "Medium", "Low"}

(* RetryPolicy: how often an execution may be tried, and whether the next  *)
(* try is immediate (a zero delay) or scheduled.  RetryPolicy::None is     *)
(* max = 0, because the first attempt is number 1.                         *)
RetryPolicies == [max : 0 .. MaxAttempt, delay : {"now", "later"}]

NoRetry == [max |-> 0, delay |-> "now"]

DurabilityRetry == [max |-> MaxAttempt, delay |-> "later"]

(* The definition of a task, fixed when a graph that holds it is attached. *)
Nodes == [deps : SUBSET Tasks, prio : Priorities, body : STRING, retry : RetryPolicies]

(* normalize_and_validate_graph accepts a graph: it is not empty, its      *)
(* dependencies are nodes of it, and it has no cycle (every nonempty set   *)
(* of nodes has one that depends on none of them).                         *)
ValidGraph(g) ==
    /\ DOMAIN g # {}
    /\ DOMAIN g \subseteq Tasks
    /\ g \in [DOMAIN g -> Nodes]
    /\ \A t \in DOMAIN g : g[t].deps \subseteq DOMAIN g
    /\ \A S \in SUBSET DOMAIN g :
           S # {} => \E t \in S : g[t].deps \cap S = {}

ASSUME ConstantsAssumption ==
    /\ IsFiniteSet(Tasks)
    /\ None \notin Tasks
    /\ None \notin Tokens
    /\ Key \in [Tasks -> Nat]
    /\ MaxAttempt \in Nat \ {0}
    /\ BatchLimit \in Nat \ {0}

ASSUME GraphsAssumption == \A g \in Graphs : ValidGraph(g)

VARIABLES
    status,      \* Inner.tasks[t].state, "Absent" when t has no record
    def,         \* the definition in the record of t
    owners,      \* Inner.task_owners[t]
    ownerState,  \* Inner.owner_graphs[o].attached
    graph,       \* Inner.owner_graphs[o].task_ids
    remaining,   \* Inner.remaining[t]
    dependents,  \* Inner.dependents[t]
    ready,       \* how often t occurs in the ready queue of its priority
    scheduled,   \* the tasks in Inner.scheduled
    attempt,     \* the record's attempt counter
    token,       \* lease_token of TaskState::Running
    payload,     \* the record's payload: "Execute" its definition, or "Publish" a proof
    hand,        \* the id a worker has popped and not yet taken
    lease        \* the TaskLease a worker holds

records == <<status, def, remaining, dependents, attempt, token, payload>>
ownership == <<owners, ownerState, graph>>
queues == <<ready, scheduled>>
workers == <<hand, lease>>
vars == <<status, def, owners, ownerState, graph, remaining, dependents,
          ready, scheduled, attempt, token, payload, hand, lease>>

States == {"Absent", "Pending", "Ready", "Running", "Retrying",
           "Succeeded", "Failed", "Cancelled"}

FailedStates == {"Failed", "Cancelled"}

TerminalStates == FailedStates \cup {"Succeeded"}

Live(t) == status[t] \notin TerminalStates \cup {"Absent"}

Leases == [task : Tasks, token : Tokens, attempt : 1 .. MaxAttempt,
           payload : {"Execute", "Publish"}, retry : RetryPolicies]

Init ==
    /\ status = [t \in Tasks |-> "Absent"]
    /\ def = [t \in Tasks |-> None]
    /\ owners = [t \in Tasks |-> {}]
    /\ ownerState = [o \in Owners |-> "Unknown"]
    /\ graph = [o \in Owners |-> {}]
    /\ remaining = [t \in Tasks |-> 0]
    /\ dependents = [t \in Tasks |-> {}]
    /\ ready = [t \in Tasks |-> 0]
    /\ scheduled = {}
    /\ attempt = [t \in Tasks |-> 0]
    /\ token = [t \in Tasks |-> None]
    /\ payload = [t \in Tasks |-> "Execute"]
    /\ hand = [w \in Workers |-> None]
    /\ lease = [w \in Workers |-> None]

-----------------------------------------------------------------------------
(* Attaching and detaching owners                                          *)

(* f with the value v everywhere on S. *)
Assign(f, S, v) == [t \in DOMAIN f |-> IF t \in S THEN v ELSE f[t]]

(* Mutant: the retry schedule keeps its entries. *)
KeepSchedule(S) ==
    /\ ready' = Assign(ready, S, 0)
    /\ UNCHANGED scheduled

(* remove_queue_memberships: the tasks of S leave the ready queues and the *)
(* schedule.                                                               *)
RemoveQueueMemberships(S) ==
    /\ ready' = Assign(ready, S, 0)
    /\ scheduled' = scheduled \ S

(* push_ready_locked: the ready queues with one more entry for each of S.  *)
Pushed(S) == [t \in Tasks |-> IF t \in S THEN ready[t] + 1 ELSE ready[t]]

(* Mutant: a dependency that has started counts as done. *)
StartedCounts(deps, st) ==
    LET bad == {st[d] : d \in deps} \cap FailedStates IN
    IF bad # {} THEN bad
    ELSE IF \A d \in deps : st[d] \in {"Running", "Succeeded"} THEN {"Ready"} ELSE {"Pending"}

(* resolve_dependency_insert_state: the states in which a node with these  *)
(* dependencies may enter the store when the records are in the states st. *)
(* Of several failed or cancelled dependencies the first one listed        *)
(* decides; the order of the list is left open.                            *)
InsertStates(deps, st) ==
    LET bad == {st[d] : d \in deps} \cap FailedStates IN
    IF bad # {} THEN bad
    ELSE IF \A d \in deps : st[d] = "Succeeded" THEN {"Ready"} ELSE {"Pending"}

Unresolved(deps, st) == {d \in deps : st[d] # "Succeeded"}

(* Put the nodes `ins` of the graph g in the store, dependencies first:    *)
(* new(t) is the state of t, decided by the states its dependencies then   *)
(* have.  Old edges to and queue entries of a node are dropped first.      *)
InsertNodes(g, ins, new) ==
    LET st == [t \in Tasks |-> IF t \in ins THEN new[t] ELSE status[t]] IN
    /\ \A t \in ins : new[t] \in InsertStates(g[t].deps, st)
    /\ status' = st
    /\ def' = [t \in Tasks |-> IF t \in ins THEN g[t] ELSE def[t]]
    /\ remaining' = [t \in Tasks |->
           IF t \notin ins THEN remaining[t]
           ELSE IF new[t] = "Pending" THEN Cardinality(Unresolved(g[t].deps, st)) ELSE 0]
    /\ dependents' = [d \in Tasks |->
           (dependents[d] \ ins)
             \cup {t \in ins : new[t] = "Pending" /\ d \in Unresolved(g[t].deps, st)}]
    /\ attempt' = Assign(attempt, ins, 0)
    /\ token' = Assign(token, ins, None)
    /\ payload' = Assign(payload, ins, "Execute")
    /\ ready' = [t \in Tasks |->
           IF t \notin ins THEN ready[t] ELSE IF new[t] = "Ready" THEN 1 ELSE 0]
    /\ scheduled' = scheduled \ ins

(* task_definition_matches, for every record that g would share. *)
Compatible(g) == \A t \in DOMAIN g : status[t] # "Absent" => def[t] = g[t]

(* The nodes of g that enter the store: the new ones, and those that       *)
(* failed or were cancelled and have no owner.                             *)
Inserted(g) ==
    {t \in DOMAIN g : status[t] = "Absent" \/ (status[t] \in FailedStates /\ owners[t] = {})}

(* The owners of each task once o has joined the nodes of g. *)
OwnersWith(o, g) ==
    [t \in Tasks |-> IF t \in DOMAIN g THEN owners[t] \cup {o} ELSE owners[t]]

(* attach_graph for an owner the store does not know.  A task id with      *)
(* another definition is a conflict, and nothing is inserted.  Tasks that  *)
(* are there already are shared, whatever their state.                     *)
AttachGraph(o, g) ==
    LET ins == Inserted(g) IN
    /\ ownerState[o] = "Unknown"
    /\ Compatible(g)
    /\ \E new \in [ins -> {"Ready", "Pending", "Failed", "Cancelled"}] :
           InsertNodes(g, ins, new)
    /\ owners' = OwnersWith(o, g)
    /\ graph' = [graph EXCEPT ![o] = DOMAIN g]
    /\ ownerState' = [ownerState EXCEPT ![o] = "Attached"]
    /\ UNCHANGED workers

(* attach_graph for an owner that is attached to the same graph: all of    *)
(* its failed and cancelled nodes start over together.                     *)
ReattachGraph(o) ==
    LET reset == {t \in graph[o] : status[t] \in FailedStates} IN
    /\ ownerState[o] = "Attached"
    /\ reset # {}
    /\ \E new \in [reset -> {"Ready", "Pending"}] : InsertNodes(def, reset, new)
    /\ UNCHANGED ownership
    /\ UNCHANGED workers

(* The tasks fail_dependents_locked reaches from the set R: the least set  *)
(* that holds the dependents of R and is closed under dependents.          *)
Reached(R) ==
    {t \in Tasks : \A S \in SUBSET Tasks :
        (\A r \in R \cup S : dependents[r] \subseteq S) => t \in S}

(* The owners of each task once o has let go of its graph. *)
OwnersWithout(o) ==
    [t \in Tasks |-> IF ownerState[o] = "Attached" /\ t \in graph[o]
                     THEN owners[t] \ {o} ELSE owners[t]]

(* Mutant: every task of the owner is retired, shared or not. *)
RetireShared(o) == graph[o]

(* Mutant: a task that runs survives its last owner. *)
RetireIdle(o) == {t \in graph[o] : OwnersWithout(o)[t] = {} /\ status[t] # "Running"}

(* The tasks of o that nobody owns after that. *)
RetiredBy(o) == {t \in graph[o] : OwnersWithout(o)[t] = {}}

(* detach_owner in mode Cancel: each retired task, dependencies first, is  *)
(* cancelled unless it is terminal already, and its live dependents fail.  *)
(* A retired task that another retired one reaches has therefore failed    *)
(* before its turn comes.  The owner stays known, and retired.             *)
DetachCancel(o) ==
    LET cancelled == {t \in RetiredBy(o) : Live(t)}
        failed    == {t \in Reached(cancelled) : Live(t)}
    IN
    /\ ownerState[o] = "Attached"
    /\ status' = [t \in Tasks |-> IF t \in failed THEN "Failed"
                                  ELSE IF t \in cancelled THEN "Cancelled" ELSE status[t]]
    /\ token' = Assign(token, cancelled \cup failed, None)
    /\ RemoveQueueMemberships(cancelled \cup failed)
    /\ owners' = OwnersWithout(o)
    /\ ownerState' = [ownerState EXCEPT ![o] = "Retired"]
    /\ UNCHANGED <<def, graph, remaining, dependents, attempt, payload>>
    /\ UNCHANGED workers

(* detach_owner in mode Remove, of an attached or a retired owner: the     *)
(* records of the retired tasks, their edges and queue entries disappear,  *)
(* and the owner is forgotten.                                             *)
DetachRemove(o) ==
    LET gone == RetiredBy(o) IN
    /\ ownerState[o] \in {"Attached", "Retired"}
    /\ status' = Assign(status, gone, "Absent")
    /\ def' = Assign(def, gone, None)
    /\ remaining' = Assign(remaining, gone, 0)
    /\ dependents' = [d \in Tasks |-> IF d \in gone THEN {} ELSE dependents[d] \ gone]
    /\ attempt' = Assign(attempt, gone, 0)
    /\ token' = Assign(token, gone, None)
    /\ payload' = Assign(payload, gone, "Execute")
    /\ RemoveQueueMemberships(gone)
    /\ owners' = OwnersWithout(o)
    /\ graph' = [graph EXCEPT ![o] = {}]
    /\ ownerState' = [ownerState EXCEPT ![o] = "Unknown"]
    /\ UNCHANGED workers

-----------------------------------------------------------------------------
(* Leasing                                                                 *)

Idle(w) == hand[w] = None /\ lease[w] = None

(* The queue of each priority is sorted by key; equal keys come first in   *)
(* first out, here in any order.                                           *)
FrontOfQueue(t) ==
    /\ ready[t] > 0
    /\ \A u \in Tasks : ready[u] > 0 /\ def[u].prio = def[t].prio => Key[t] <= Key[u]

(* pop_ready, from the queue of any priority: next_ready looks at the      *)
(* higher ones first, but they may have filled since.                      *)
PopReady(w, t) ==
    /\ Idle(w)
    /\ FrontOfQueue(t)
    /\ ready' = [ready EXCEPT ![t] = @ - 1]
    /\ hand' = [hand EXCEPT ![w] = t]
    /\ UNCHANGED <<records, ownership, scheduled, lease>>

TokensInUse == {token[t] : t \in Tasks} \cup {lease[w].token : w \in {v \in Workers : lease[v] # None}}

(* The policy in the record: checkpointing a proof replaces payload and    *)
(* policy together.                                                        *)
RecordRetry(t) == IF payload[t] = "Publish" THEN DurabilityRetry ELSE def[t].retry

(* attempt.saturating_add(1) *)
NextAttempt(t) == IF attempt[t] < MaxAttempt THEN attempt[t] + 1 ELSE MaxAttempt

(* take_ready of the popped id: it is leased if its record is still (or    *)
(* again) ready.                                                           *)
TakeReady(w) ==
    LET t == hand[w]
        n == NextAttempt(t)
        k == CHOOSE k \in Tokens : k \notin TokensInUse
    IN
    /\ hand[w] # None
    /\ status[t] = "Ready"
    /\ Tokens \ TokensInUse # {}
    /\ attempt' = [attempt EXCEPT ![t] = n]
    /\ status' = [status EXCEPT ![t] = "Running"]
    /\ token' = [token EXCEPT ![t] = k]
    /\ lease' = [lease EXCEPT ![w] = [task |-> t, token |-> k, attempt |-> n,
                                      payload |-> payload[t], retry |-> RecordRetry(t)]]
    /\ hand' = [hand EXCEPT ![w] = None]
    /\ UNCHANGED <<def, remaining, dependents, payload, ownership, queues>>

(* take_ready finds no ready record; the worker goes on popping. *)
TakeNothing(w) ==
    /\ hand[w] # None
    /\ status[hand[w]] # "Ready"
    /\ hand' = [hand EXCEPT ![w] = None]
    /\ UNCHANGED <<records, ownership, queues, lease>>

(* Mutant: the attempt alone identifies a lease. *)
CurrentByAttempt(w) ==
    /\ lease[w] # None
    /\ status[lease[w].task] = "Running"
    /\ attempt[lease[w].task] = lease[w].attempt

(* running_lease_matches: the record of the leased task still carries the  *)
(* worker's token and attempt.                                             *)
Current(w) ==
    /\ lease[w] # None
    /\ status[lease[w].task] = "Running"
    /\ token[lease[w].task] = lease[w].token
    /\ attempt[lease[w].task] = lease[w].attempt

(* checkpoint_payload_if_running, from checkpoint_completed_proof: the     *)
(* proof becomes the payload and its publication is retried for good.      *)
CheckpointPayload(w) ==
    /\ Current(w)
    /\ payload' = [payload EXCEPT ![lease[w].task] = "Publish"]
    /\ lease' = [lease EXCEPT ![w] = [task |-> lease[w].task, token |-> lease[w].token,
                                       attempt |-> lease[w].attempt, payload |-> "Publish",
                                       retry |-> DurabilityRetry]]
    /\ UNCHANGED <<status, def, remaining, dependents, attempt, token>>
    /\ UNCHANGED <<ownership, queues, hand>>

(* complete_success: the task succeeds and its pending dependents wait for *)
(* one dependency less; those that wait for none are ready.                *)
CompleteSuccess(w) ==
    LET t        == lease[w].task
        pending  == {u \in dependents[t] : status[u] = "Pending"}
        released == {u \in pending : remaining[u] <= 1}
    IN
    /\ Current(w)
    /\ status' = [u \in Tasks |-> IF u = t THEN "Succeeded"
                                  ELSE IF u \in released THEN "Ready" ELSE status[u]]
    /\ token' = [token EXCEPT ![t] = None]
    /\ remaining' = [u \in Tasks |-> IF u \in pending /\ remaining[u] > 0
                                     THEN remaining[u] - 1 ELSE remaining[u]]
    /\ ready' = [Pushed(released) EXCEPT ![t] = 0]
    /\ scheduled' = scheduled \ {t}
    /\ lease' = [lease EXCEPT ![w] = None]
    /\ UNCHANGED <<def, dependents, attempt, payload, ownership, hand>>

(* complete_failure under a policy that has no attempt left: the task and  *)
(* every live task it reaches fail.                                        *)
CompleteFailed(w, retry) ==
    LET t      == lease[w].task
        failed == {t} \cup {u \in Reached({t}) : Live(u)}
    IN
    /\ Current(w)
    /\ lease[w].attempt >= retry.max
    /\ status' = Assign(status, failed, "Failed")
    /\ token' = Assign(token, failed, None)
    /\ RemoveQueueMemberships(failed)
    /\ lease' = [lease EXCEPT ![w] = None]
    /\ UNCHANGED <<def, remaining, dependents, attempt, payload, ownership, hand>>

(* complete_failure with an attempt left: the payload of the lease goes    *)
(* back to the record, which is ready at once or after a delay.            *)
CompleteRetry(w, retry) ==
    LET t == lease[w].task IN
    /\ Current(w)
    /\ lease[w].attempt < retry.max
    /\ payload' = [payload EXCEPT ![t] = lease[w].payload]
    /\ token' = [token EXCEPT ![t] = None]
    /\ IF retry.delay = "now"
       THEN /\ status' = [status EXCEPT ![t] = "Ready"]
            /\ ready' = Pushed({t})
            /\ UNCHANGED scheduled
       ELSE /\ status' = [status EXCEPT ![t] = "Retrying"]
            /\ scheduled' = scheduled \cup {t}
            /\ UNCHANGED ready
    /\ lease' = [lease EXCEPT ![w] = None]
    /\ UNCHANGED <<def, remaining, dependents, attempt, ownership, hand>>

(* Any completion of a lease that is no longer current changes nothing. *)
CompleteStale(w) ==
    /\ lease[w] # None
    /\ ~Current(w)
    /\ lease' = [lease EXCEPT ![w] = None]
    /\ UNCHANGED <<records, ownership, queues, hand>>

(* A worker that panics drops its lease without completing it. *)
LoseWorker(w) ==
    /\ lease[w] # None
    /\ lease' = [lease EXCEPT ![w] = None]
    /\ UNCHANGED <<records, ownership, queues, hand>>

(* promote_scheduled: up to BatchLimit retries that are due become ready.  *)
(* An entry whose task is not waiting for a retry is dropped.              *)
PromoteScheduled(due) ==
    LET promoted == {t \in due : status[t] = "Retrying"} IN
    /\ due # {}
    /\ due \subseteq scheduled
    /\ Cardinality(promoted) <= BatchLimit
    /\ status' = Assign(status, promoted, "Ready")
    /\ ready' = Pushed(promoted)
    /\ scheduled' = scheduled \ due
    /\ UNCHANGED <<def, remaining, dependents, attempt, token, payload>>
    /\ UNCHANGED <<ownership, workers>>

(* requeue_expired_leases: up to BatchLimit running tasks whose lease ran  *)
(* out become ready, whatever their attempt.                               *)
RequeueExpired(expired) ==
    /\ expired # {}
    /\ \A t \in expired : status[t] = "Running"
    /\ Cardinality(expired) <= BatchLimit
    /\ status' = Assign(status, expired, "Ready")
    /\ token' = Assign(token, expired, None)
    /\ ready' = Pushed(expired)
    /\ UNCHANGED <<def, remaining, dependents, attempt, payload>>
    /\ UNCHANGED <<ownership, scheduled, workers>>

-----------------------------------------------------------------------------

(* The policies under which the engine fails a lease: its own, for ever    *)
(* when only coordination failed, and none when the proof was invalidated. *)
FailurePolicies(w) == {lease[w].retry, DurabilityRetry, NoRetry}

WorkerStep(w) ==
    \/ \E t \in Tasks : PopReady(w, t)
    \/ TakeReady(w)
    \/ TakeNothing(w)
    \/ CheckpointPayload(w)
    \/ CompleteSuccess(w)
    \/ \E retry \in RetryPolicies :
           /\ lease[w] # None /\ retry \in FailurePolicies(w)
           /\ CompleteFailed(w, retry) \/ CompleteRetry(w, retry)
    \/ CompleteStale(w)
    \/ LoseWorker(w)

Next ==
    \/ \E o \in Owners, g \in Graphs : AttachGraph(o, g)
    \/ \E o \in Owners : ReattachGraph(o) \/ DetachCancel(o) \/ DetachRemove(o)
    \/ \E w \in Workers : WorkerStep(w)
    \/ \E due \in SUBSET Tasks : PromoteScheduled(due) \/ RequeueExpired(due)

Spec == Init /\ [][Next]_vars

-----------------------------------------------------------------------------
(* Properties                                                              *)

(* The types of the store's tables and of what the workers hold. *)
TypeOK ==
    /\ status \in [Tasks -> States]
    /\ def \in [Tasks -> Nodes \cup {None}]
    /\ owners \in [Tasks -> SUBSET Owners]
    /\ ownerState \in [Owners -> {"Unknown", "Attached", "Retired"}]
    /\ graph \in [Owners -> SUBSET Tasks]
    /\ remaining \in [Tasks -> Nat]
    /\ dependents \in [Tasks -> SUBSET Tasks]
    /\ ready \in [Tasks -> Nat]
    /\ scheduled \subseteq Tasks
    /\ attempt \in [Tasks -> 0 .. MaxAttempt]
    /\ token \in [Tasks -> Tokens \cup {None}]
    /\ payload \in [Tasks -> {"Execute", "Publish"}]
    /\ hand \in [Workers -> Tasks \cup {None}]
    /\ lease \in [Workers -> Leases \cup {None}]

(* The two ownership indexes agree and attached owners miss no task, so    *)
(* the "ownership indexes disagree" and "references a missing task" errors *)
(* of attach_graph, detach_owner and inspect_owner cannot occur.           *)
IndexesAgree ==
    \A t \in Tasks :
        /\ \A o \in Owners : o \in owners[t] <=> ownerState[o] = "Attached" /\ t \in graph[o]
        /\ owners[t] # {} => status[t] # "Absent"

(* Whoever owns a task owns its dependencies. *)
DependenciesOwned ==
    \A t \in Tasks : status[t] # "Absent" =>
        \A d \in def[t].deps : owners[t] \subseteq owners[d]

(* detach_owner leaves no runnable work behind: a task that no root owns   *)
(* is never pending, ready, running or retrying.                           *)
NoOrphanWork == \A t \in Tasks : Live(t) => owners[t] # {}

(* Cancelling one root is invisible to the others: an owned task is never  *)
(* in the cancelled state.                                                 *)
OwnedNotCancelled == \A t \in Tasks : owners[t] # {} => status[t] # "Cancelled"

(* attach_graph and detach_owner keep the ownership indexes in agreement,  *)
(* and leave neither orphaned work nor an owned cancelled task behind.     *)
OwnershipSound == IndexesAgree /\ DependenciesOwned /\ NoOrphanWork /\ OwnedNotCancelled

(* A task is handed to workers only when all its dependencies succeeded.   *)
RunnableAfterDependencies ==
    \A t \in Tasks : status[t] \in {"Ready", "Running", "Retrying"} =>
        \A d \in def[t].deps : status[d] = "Succeeded"

(* No pending task is forgotten: it waits for exactly the dependencies     *)
(* that have not succeeded, at least one, none of them has failed, and     *)
(* each will find it among its dependents when it succeeds.                *)
PendingAccounted ==
    \A t \in Tasks : status[t] = "Pending" =>
        LET waits == Unresolved(def[t].deps, status) IN
        /\ waits # {}
        /\ remaining[t] = Cardinality(waits)
        /\ \A d \in waits : Live(d) /\ t \in dependents[d]

(* No ready task is stranded: it is in a ready queue, or a worker has      *)
(* popped it and is about to take it.                                      *)
ReadyReachable ==
    \A t \in Tasks : status[t] = "Ready" => ready[t] > 0 \/ \E w \in Workers : hand[w] = t

(* The schedule holds exactly the tasks that wait for a retry. *)
RetriesScheduled == \A t \in Tasks : t \in scheduled <=> status[t] = "Retrying"

(* The store never forgets a task: a pending one is counted and linked for *)
(* each dependency it waits for, a ready one can be popped, a retrying one *)
(* is scheduled.                                                           *)
NothingForgotten == PendingAccounted /\ ReadyReachable /\ RetriesScheduled

(* At most one worker can complete a task: no two hold a current lease.    *)
LeaseExclusive ==
    \A v, w \in Workers :
        Current(v) /\ Current(w) /\ lease[v].task = lease[w].task => v = w

(* The unreachable! of reset_attached_terminal_nodes: a failed dependency  *)
(* of a node that is reset is reset too.                                   *)
ResetComplete ==
    \A o \in Owners : ownerState[o] = "Attached" =>
        \A t \in graph[o] : status[t] \in FailedStates =>
            \A d \in def[t].deps : status[d] \in FailedStates => d \in graph[o]

(* Detaching one root, in either mode, changes no task that another owns.  *)
OthersUntouched ==
    \A o \in Owners : ownerState[o] = "Attached" /\ ownerState'[o] # "Attached" =>
        \A t \in Tasks : owners'[t] # {} =>
            status'[t] = status[t] /\ token'[t] = token[t] /\ payload'[t] = payload[t]

(* detach_owner never takes more than OthersUntouched allows. *)
DetachIsolated == [][OthersUntouched]_vars

(* A task that has succeeded is not run again while its record exists.     *)
SucceededStays ==
    \A t \in Tasks : status[t] = "Succeeded" => status'[t] \in {"Succeeded", "Absent"}

(* No completion, requeue, reset or cancellation undoes a success. *)
SuccessFinal == [][SucceededStays]_vars

(* The payload of a live task stays a proof once it is one. *)
ProofStays ==
    \A t \in Tasks : payload[t] = "Publish" /\ Live(t) =>
        payload'[t] = "Publish" \/ status'[t] \in TerminalStates \cup {"Absent"}

(* A proof checkpointed by checkpoint_payload_if_running is not lost to a  *)
(* retry, an expired lease or a late worker.                               *)
CheckpointKept == [][ProofStays]_vars

=============================================================================
