----------------------------- MODULE Sp1Network -----------------------------
(***************************************************************************)
(* Paid SP1 network requests and their durable checkpoints: the request    *)
(* loop of crates/prover/src/sp1/mod.rs, the retried checkpoint write of   *)
(* crates/prover/src/lib.rs, and the projection of a checkpoint into the   *)
(* runtime roots by RuntimeObserver and TaskMetadata (bin/raiko2).         *)
(*                                                                         *)
(* One proof stage is shared by several runtime roots.  A run of the stage *)
(* loads the newest checkpoint that any retained root remembers, resumes   *)
(* that request or submits a new one, makes its identifier durable in      *)
(* every active root before it waits for it, and replaces a request that   *)
(* ended without a proof until the attempt limit.  Roots are registered,   *)
(* cancelled, failed, recovered, replaced and removed meanwhile; the run   *)
(* may be dropped at any await and the process may crash and come back     *)
(* with another configuration.  Two workers stand for a lease that expired *)
(* under a run still in progress.                                          *)
(*                                                                         *)
(* A request carries its submission context with it: what the code         *)
(* compares field by field (submission time, deadline, network mode,       *)
(* strategy, limits) is the identity of the request here, and target is    *)
(* the part of the configuration that load_sp1_resume compares.            *)
(***************************************************************************)
EXTENDS Naturals, Sequences, FiniteSets

CONSTANTS
    Roots,        \* runtime roots that share the stage
    Workers,      \* concurrent runs of the stage
    None,         \* no record, no checkpoint
    Casts         \* surroundings a behaviour may have, see Cast

(* Who runs the stage (two workers overlap), what an operator may configure *)
(* (provider targets, network_request_max_attempts), the request's own limit *)
(* (0 when it names none), and three bounds: requests the provider accepts,  *)
(* transitions of roots, and dropped runs, lost answers and crashes.         *)
Cast == [workers : SUBSET Workers, targets : SUBSET Nat, operators : SUBSET (Nat \ {0}),
         override : Nat, requests : Nat, moves : Nat, faults : Nat]

ASSUME Sp1NetworkAssumption ==
    \A c \in Casts : c \in Cast /\ c.targets # {} /\ c.operators # {}

VARIABLES
    root,      \* durable: the runtime record of each root
    config,    \* target and network_request_max_attempts of this process
    requests,  \* the provider: requests in the order it accepted them
    run,       \* where each worker stands
    durable,   \* requests whose checkpoint was stored (history)
    incs,      \* incarnations handed out so far
    moves, faults,
    cast       \* the surroundings of this behaviour

bounds == <<moves, faults>>
vars == <<root, config, requests, run, durable, incs, bounds, cast>>

Statuses == {"Active", "Completed", "Failed", "Cancelled"}

Idle == [pc |-> "idle", owners |-> <<>>, attempt |-> 0, req |-> 0, resumed |-> FALSE]

Init ==
    /\ root = [r \in Roots |-> None]
    /\ cast \in Casts
    /\ config \in [target : cast.targets, operator : cast.operators]
    /\ requests = <<>>
    /\ run = [w \in Workers |-> Idle]
    /\ durable = {}
    /\ incs = 0
    /\ moves = 0 /\ faults = 0

\* merged_with: an override may lower the operator's limit, never raise it.
Limit ==
    IF cast.override # 0 /\ cast.override < config.operator THEN cast.override ELSE config.operator

-----------------------------------------------------------------------------
(* The roots, as the API and the retention jobs move them.                 *)

Retained == {r \in Roots : root[r] # None}
Active == {r \in Retained : root[r].status = "Active"}

Fresh == [status |-> "Active", inc |-> incs + 1, cp |-> None]

Move ==
    /\ moves < cast.moves
    /\ moves' = moves + 1
    /\ UNCHANGED <<config, requests, run, durable, faults>>

\* register_task_if_absent, and replace: a new incarnation with new metadata.
RegisterTask(r) ==
    /\ root[r] = None
    /\ root' = [root EXCEPT ![r] = Fresh]
    /\ incs' = incs + 1
    /\ Move

ReplaceTask(r) ==
    /\ root[r] # None
    /\ root' = [root EXCEPT ![r] = Fresh]
    /\ incs' = incs + 1
    /\ Move

CancelTask(r) ==
    /\ r \in Active
    /\ root' = [root EXCEPT ![r].status = "Cancelled"]
    /\ Move /\ UNCHANGED incs

\* prepare_task_for_recovery_if_unchanged keeps the metadata of a failed root.
RecoverTask(r) ==
    /\ r \in Retained /\ root[r].status = "Failed"
    /\ root' = [root EXCEPT ![r].status = "Active"]
    /\ Move /\ UNCHANGED incs

RemoveTask(r) ==
    /\ r \in Retained \ Active
    /\ root' = [root EXCEPT ![r] = None]
    /\ Move /\ UNCHANGED incs

-----------------------------------------------------------------------------
(* One run of the stage.                                                   *)

At(w, pc) == run[w].pc = pc
Become(w, p) == run' = [run EXCEPT ![w] = p]
Goto(w, pc) == run' = [run EXCEPT ![w].pc = pc]
Leave(w) == Become(w, Idle)

\* The execution permit remembers the incarnation of every active root.
Start(w) ==
    /\ At(w, "idle") /\ Active # {}
    /\ Become(w, [Idle EXCEPT !.pc = "load",
                              !.owners = [r \in Active |-> root[r].inc]])
    /\ UNCHANGED <<root, config, requests, durable, incs, bounds>>

\* Mutant: only active roots are searched.
RememberedByActive == {root[r].cp : r \in Active} \ {None}

\* Every retained root is searched, whatever its status.
Remembered == {root[r].cp : r \in Retained} \ {None}

Conflicting(cps) == \E c, d \in cps : c.attempt = d.attempt /\ c # d

Newest(cps) == CHOOSE c \in cps : \A d \in cps : d.attempt <= c.attempt

FirstAttempt == 1

\* Mutant: the provider target is not compared.
AnyTarget(cp) == TRUE

SameTarget(cp) == requests[cp.req].target = config.target

\* load_pending_proof_checkpoint refuses conflicting checkpoints and a stage
\* without an active root; load_sp1_resume refuses another provider target.
Load(w) ==
    /\ At(w, "load")
    /\ IF Active = {} \/ Conflicting(Remembered) THEN Leave(w)
       ELSE IF Remembered = {}
       THEN Become(w, [run[w] EXCEPT !.pc = "submit", !.attempt = FirstAttempt])
       ELSE LET cp == Newest(Remembered)
            IN IF ~SameTarget(cp) THEN Leave(w)
               ELSE Become(w, [run[w] EXCEPT !.pc = "persist", !.attempt = cp.attempt,
                                             !.req = cp.req, !.resumed = TRUE])
    /\ UNCHANGED <<root, config, requests, durable, incs, bounds>>

Accepted(attempt) ==
    [target |-> config.target, attempt |-> attempt, state |-> "open", over |-> FALSE]

\* submit_or_resume_sp1_request without a stored submission.
Submit(w) ==
    /\ At(w, "submit") /\ Len(requests) < cast.requests
    /\ requests' = Append(requests, Accepted(run[w].attempt))
    /\ Become(w, [run[w] EXCEPT !.pc = "persist", !.req = Len(requests) + 1,
                                !.resumed = FALSE])
    /\ UNCHANGED <<root, config, durable, incs, bounds>>

SubmitRefused(w) ==
    /\ At(w, "submit")
    /\ Leave(w)
    /\ UNCHANGED <<root, config, requests, durable, incs, bounds>>

\* current_owner_incarnations: roots that joined later are included, a root
\* whose incarnation was replaced since the run started is not.
Owners(w) ==
    {r \in Active : r \in DOMAIN run[w].owners => run[w].owners[r] = root[r].inc}

Checkpoint(w) == [attempt |-> run[w].attempt, req |-> run[w].req]

\* Mutant: the last writer wins.
MergeAny(cp, new) == TRUE

\* merge_sp1_network_submission on one root: an older attempt and another
\* request of the same attempt are conflicts.
Mergeable(cp, new) ==
    cp # None => cp.attempt < new.attempt \/ cp = new

\* on_task_progress: one conditional write that updates every owner or none.
Persist(w) ==
    /\ At(w, "persist")
    /\ IF Owners(w) = {} \/ \E r \in Owners(w) : ~Mergeable(root[r].cp, Checkpoint(w))
       THEN Leave(w) /\ UNCHANGED <<root, durable>>
       ELSE /\ root' = [r \in Roots |->
                IF r \in Owners(w) THEN [root[r] EXCEPT !.cp = Checkpoint(w)] ELSE root[r]]
            /\ durable' = durable \cup {run[w].req}
            /\ Goto(w, "waitplan")
    /\ UNCHANGED <<config, requests, incs, bounds>>

Over(w) == requests[run[w].req].over

\* sp1_resume_wait_plan: a resumed request past its deadline is read first.
WaitPlan(w) ==
    /\ At(w, "waitplan")
    /\ Goto(w, IF run[w].resumed /\ Over(w) THEN "check" ELSE "wait")
    /\ UNCHANGED <<root, config, requests, durable, incs, bounds>>

Fulfilled(w) == requests[run[w].req].state = "fulfilled"

\* The proof is published: every owner that is still active is completed.
Complete(w) ==
    /\ root' = [r \in Roots |->
          IF r \in Owners(w) THEN [root[r] EXCEPT !.status = "Completed"] ELSE root[r]]
    /\ Leave(w)

CheckExpired(w) ==
    /\ At(w, "check")
    /\ IF Fulfilled(w) THEN Complete(w) ELSE Goto(w, "wait") /\ UNCHANGED root
    /\ UNCHANGED <<config, requests, durable, incs, bounds>>

WaitFulfilled(w) ==
    /\ At(w, "wait") /\ Fulfilled(w)
    /\ Complete(w)
    /\ UNCHANGED <<config, requests, durable, incs, bounds>>

\* What RemotePoller answers with a retry: the request is given up or one of
\* its deadlines has passed.
Retryable(w) == requests[run[w].req].state = "dead" \/ Over(w)

WaitRetry(w) ==
    /\ At(w, "wait") /\ Retryable(w)
    /\ IF run[w].attempt >= Limit THEN Leave(w)
       ELSE Become(w, [run[w] EXCEPT !.pc = "submit", !.attempt = @ + 1])
    /\ UNCHANGED <<root, config, requests, durable, incs, bounds>>

\* An error of the stage; after the last one the owners are failed.
Fails(w) ==
    /\ ~At(w, "idle")
    /\ faults < cast.faults /\ faults' = faults + 1
    /\ \/ UNCHANGED root
       \/ root' = [r \in Roots |->
             IF r \in Owners(w) THEN [root[r] EXCEPT !.status = "Failed"] ELSE root[r]]
    /\ Leave(w)
    /\ UNCHANGED <<config, requests, durable, incs, moves>>

\* The future is dropped, also between the provider's acceptance and its answer.
Drop(w) ==
    /\ ~At(w, "idle")
    /\ faults < cast.faults /\ faults' = faults + 1
    /\ \/ UNCHANGED requests
       \/ /\ At(w, "submit") /\ Len(requests) < cast.requests
          /\ requests' = Append(requests, Accepted(run[w].attempt))
    /\ Leave(w)
    /\ UNCHANGED <<root, config, durable, incs, moves>>

Crash ==
    /\ faults < cast.faults /\ faults' = faults + 1
    /\ run' = [w \in Workers |-> Idle]
    /\ config' \in [target : cast.targets, operator : cast.operators]
    /\ UNCHANGED <<root, requests, durable, incs, moves>>

-----------------------------------------------------------------------------
(* The provider and the clock.                                             *)

Provide(q) ==
    /\ requests[q].state = "open"
    /\ \E s \in {"fulfilled", "dead"} : requests' = [requests EXCEPT ![q].state = s]
    /\ UNCHANGED <<root, config, run, durable, incs, bounds>>

Expire(q) ==
    /\ ~requests[q].over
    /\ requests' = [requests EXCEPT ![q].over = TRUE]
    /\ UNCHANGED <<root, config, run, durable, incs, bounds>>

-----------------------------------------------------------------------------
Step(w) ==
    \/ Start(w) \/ Load(w) \/ Submit(w) \/ SubmitRefused(w) \/ Persist(w)
    \/ WaitPlan(w) \/ CheckExpired(w) \/ WaitFulfilled(w) \/ WaitRetry(w)
    \/ Fails(w) \/ Drop(w)

Next ==
    /\ \/ \E w \in cast.workers : Step(w)
       \/ \E r \in Roots : RegisterTask(r) \/ ReplaceTask(r) \/ CancelTask(r)
                           \/ RecoverTask(r) \/ RemoveTask(r)
       \/ \E q \in DOMAIN requests : Provide(q) \/ Expire(q)
       \/ Crash
    /\ UNCHANGED cast

Spec == Init /\ [][Next]_vars

-----------------------------------------------------------------------------
(* Properties.                                                             *)

\* Records, checkpoints and runs keep their shape, and a stored attempt is a
\* number from one on.
TypeOK ==
    /\ \A r \in Retained :
          /\ root[r].status \in Statuses /\ root[r].inc \in 1..incs
          /\ root[r].cp # None =>
                root[r].cp.attempt \in Nat \ {0} /\ root[r].cp.req \in DOMAIN requests
    /\ \A w \in Workers :
          /\ run[w].pc \in {"idle", "load", "submit", "persist", "waitplan", "check", "wait"}
          /\ run[w].attempt \in Nat /\ run[w].req \in 0..Len(requests)
    /\ durable \subseteq DOMAIN requests

\* A request identifier is waited for only after its checkpoint was stored, and
\* only under the provider target it was submitted to.
AwaitedIsDurable ==
    \A w \in Workers :
        run[w].pc \in {"waitplan", "check", "wait"} =>
            /\ run[w].req \in durable
            /\ requests[run[w].req].target = config.target

\* Every retained projection of one attempt names the same request; otherwise
\* no later run could load a checkpoint and every root of the stage would fail.
Projected == {root[r].cp : r \in Retained} \ {None}

RetainedAgree == \A c, d \in Projected : c.attempt = d.attempt => c.req = d.req

\* While the runs of the stage do not overlap, they do agree.
Overlapping == Cardinality(cast.workers) > 1

AgreeUnlessOverlapping == Overlapping \/ RetainedAgree

\* At most one request that the service remembers can still be fulfilled in
\* time: a replacement is paid for only when its predecessors are over.  (Runs
\* that overlap may each pay for one.)
Pending(q) == requests[q].state = "open" /\ ~requests[q].over

OnePendingRequest ==
    Overlapping \/ Cardinality({c \in Projected : Pending(c.req)}) <= 1

\* What the service remembers of a stage is one request: the two above.
OneRequest == AgreeUnlessOverlapping /\ OnePendingRequest

\* Recovery never moves a root back: within one incarnation the stored attempt
\* grows, and one attempt keeps its request.
CheckpointsAdvance ==
    \A r \in Roots :
        root[r] # None /\ root'[r] # None /\ root'[r].inc = root[r].inc
        /\ root[r].cp # None =>
            /\ root'[r].cp # None
            /\ root'[r].cp = root[r].cp \/ root'[r].cp.attempt > root[r].cp.attempt

\* No request beyond the operator's limit is submitted, whatever a request
\* asks for and whatever limit an earlier process ran with.
WithinOperatorLimit ==
    Len(requests') > Len(requests) =>
        requests'[Len(requests')].attempt <= config.operator
=============================================================================
