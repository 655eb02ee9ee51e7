----------------------------- MODULE ProofRoots -----------------------------
(***************************************************************************)
(* The composition of the durable runtime roots, the execution projection  *)
(* and the engine workers: what a request, a cancellation, a removal, the  *)
(* orphan sweep and a worker's run do to a root and to its place in the    *)
(* queue.                                                                  *)
(*                                                                         *)
(* A commit of the runtime state is one step (RuntimeCommit shows how one  *)
(* reaches the store), and so is an operation of the projection (see       *)
(* ExecutionProjection).  The publication of a proof is one step here; it  *)
(* is the subject of ProofPublication.  The execution-lifecycle gate is    *)
(* `gate': a holder keeps it over several steps, and the steps the code    *)
(* takes without it run in between.                                        *)
(*                                                                         *)
(* Two snapshots of a root are equal here when they agree on what is kept  *)
(* of it; the code's record also carries a time in seconds.                *)
(***************************************************************************)
EXTENDS Naturals, FiniteSets

CONSTANTS
    Roots,       \* task ids
    Nodes,       \* execution tasks: proposals and aggregates
    Aggregates,  \* the nodes that prove an aggregate
    Plan,        \* Plan[r]: the nodes of the execution plan of r
    Deps,        \* Deps[n]: the proposals an aggregate combines, {} for a proposal
    Workers,     \* engine workers
    Callers,     \* API requests and maintenance jobs
    MaxInc,      \* bound: incarnations of a root anything refers to at one time
    Casts,       \* who takes part in a behaviour, see Cast
    None

ASSUME PlanAssumption ==
    /\ Aggregates \subseteq Nodes
    /\ Plan \in [Roots -> SUBSET Nodes \ {{}}]
    /\ Deps \in [Nodes -> SUBSET (Nodes \ Aggregates)]
    /\ \A n \in Nodes \ Aggregates : Deps[n] = {}
    /\ \A r \in Roots : /\ Cardinality(Plan[r] \cap Aggregates) <= 1
                         /\ \A n \in Plan[r] : Deps[n] \subseteq Plan[r]

(* A cast: the roots that are requested, who works, the kinds of calls,    *)
(* the faults, and the number of calls and faults.                         *)
Cast == [roots : SUBSET Roots, workers : SUBSET Workers, callers : SUBSET Callers,
         calls : SUBSET {"submit", "cancel", "read", "clear", "tally", "sweep", "remove"},
         faults : SUBSET {"retry", "fail", "remote", "refuse", "expire", "panic", "lose",
                          "restart"},
         moves : Nat]

ASSUME CastAssumption == Casts \subseteq Cast

VARIABLES
    rec,       \* RuntimeState.tasks: root -> record or None
    proof,     \* the nodes whose proof artifact is active and readable
    node,      \* the projection's record of each node
    attached,  \* the owners attached to their plan
    retired,   \* the owners detached by a cancellation
    gate,      \* holder of the execution-lifecycle gate, or None
    stored,    \* the permit kept by the ready notifier
    worker,    \* where each worker stands
    caller,    \* where each request or job stands
    moves,     \* calls and faults so far
    cast

queue == <<node, attached, retired>>
vars == <<rec, proof, queue, gate, stored, worker, caller, moves, cast>>

Bad == {"Failed", "Cancelled"}
Active == {"Pending", "Ready", "Retrying", "Running"}

Absent == [st |-> "Absent", holder |-> None, pub |-> FALSE]

NoWork == [pc |-> "idle", node |-> None, permit |-> {}, active |-> {}]
NoCall == [pc |-> "idle", root |-> None, snap |-> None, missing |-> FALSE]

Init ==
    /\ cast \in Casts
    /\ rec = [r \in Roots |-> None]
    /\ proof = {}
    /\ node = [n \in Nodes |-> Absent]
    /\ attached = {}
    /\ retired = {}
    /\ gate = None
    /\ stored = FALSE
    /\ worker = [w \in Workers |-> NoWork]
    /\ caller = [c \in Callers |-> NoCall]
    /\ moves = 0

Move == moves < cast.moves /\ moves' = moves + 1

Fault(f) == f \in cast.faults /\ Move

-----------------------------------------------------------------------------
(* Records                                                                 *)

Owner(r, i) == [root |-> r, inc |-> i]

Terminal(t) == t.status \in {"Completed", "Failed", "Cancelled"}

\* Everything that still names an incarnation of r.
IncsOf(r) ==
    {rec[q].inc : q \in {q \in {r} : rec[q] # None}}
      \cup {o.inc : o \in {o \in attached \cup retired : o.root = r}}
      \cup {o.inc : o \in {o \in UNION {worker[w].permit \cup worker[w].active : w \in Workers} : o.root = r}}
      \cup {caller[c].snap.inc : c \in {d \in Callers : caller[d].root = r /\ caller[d].snap # None}}

FreeIncs(r) == (1 .. MaxInc) \ IncsOf(r)

\* build_task_record: a fresh incarnation.
NewRecord(r) ==
    [inc |-> CHOOSE i \in FreeIncs(r) : TRUE, status |-> "Allocated",
     done |-> {}, stage |-> None, remote |-> FALSE]

\* root_proof_artifact_refs: the aggregate's proof, or that of the only proposal;
\* a batch without an aggregate has none of its own.
RootProof(r) ==
    IF Plan[r] \cap Aggregates # {} THEN Plan[r] \cap Aggregates
    ELSE IF Cardinality(Plan[r]) = 1 THEN Plan[r] ELSE {}

\* What reconcile_runtime_task_from_artifacts has to find.
Evidence(r) == IF RootProof(r) # {} THEN RootProof(r) ELSE Plan[r]

\* completed_root_artifact_missing
ArtifactMissing(r, t) == t.status = "Completed" /\ ~ RootProof(r) \subseteq proof

(* current_execution_owners: the roots a run of n speaks for.  A root that *)
(* was replaced since the permit was taken is fenced off, one that was     *)
(* registered since may join.                                              *)
CurrentOwners(n, completed, permit) ==
    {Owner(r, rec[r].inc) : r \in {q \in Roots :
        /\ rec[q] # None
        /\ n \in Plan[q]
        /\ ~ Terminal(rec[q]) \/ (completed /\ rec[q].status = "Completed")
        /\ \A o \in permit : o.root = q => o.inc = rec[q].inc}}

\* root_completed_by_proof_success, with the stages that are completed by now.
CompletedBy(n, r, done) ==
    n \in Aggregates \/ (Plan[r] \cap Aggregates = {} /\ Plan[r] \subseteq done)

-----------------------------------------------------------------------------
(* The projection                                                          *)

OwnedIn(n, owners) == \E o \in owners : n \in Plan[o.root]

\* inspect_owner: has_active_execution of an exact owner.
HasActive(o) == o \in attached /\ \E n \in Plan[o.root] : node[n].st \in Active

\* resolve_dependency_insert_state; proposals enter before the aggregate.
EntryState(n, ins) ==
    LET st == {IF d \in ins THEN "Ready" ELSE node[d].st : d \in Deps[n]} IN
    IF st \cap Bad # {} THEN CHOOSE s \in st \cap Bad : TRUE
    ELSE IF st \subseteq {"Succeeded"} THEN "Ready" ELSE "Pending"

\* The nodes an attachment of o inserts or starts over.
Inserted(o) ==
    {n \in Plan[o.root] :
        \/ node[n].st = "Absent"
        \/ node[n].st \in Bad /\ (o \in attached \/ ~ OwnedIn(n, attached))}

(* notify_ready_workers: every waiting worker wakes, and one permit is     *)
(* kept for a worker that has found nothing and does not wait yet.         *)
NotifyReady(ws) ==
    /\ worker' = [w \in Workers |-> IF ws[w].pc = "waiting" THEN NoWork ELSE ws[w]]
    /\ stored' = TRUE

\* attach_execution_plan
AttachPlan(o) ==
    /\ node' = [n \in Nodes |-> IF n \in Inserted(o)
                                THEN [Absent EXCEPT !.st = EntryState(n, Inserted(o))]
                                ELSE node[n]]
    /\ attached' = attached \cup {o}
    /\ UNCHANGED retired
    /\ IF o \notin attached \/ Inserted(o) # {} THEN NotifyReady(worker)
       ELSE UNCHANGED <<worker, stored>>

Unowned(os) == {n \in Nodes : OwnedIn(n, os) /\ ~ OwnedIn(n, attached \ os)}

\* detach_execution(Remove) of each of os.
DetachRemove(os) ==
    /\ node' = [n \in Nodes |-> IF n \in Unowned(os \cap (attached \cup retired))
                                THEN Absent ELSE node[n]]
    /\ attached' = attached \ os
    /\ retired' = retired \ os

\* detach_execution(Cancel): live nodes nobody else owns are cancelled, and the
\* aggregates that wait for one of them fail.
DetachCancel(o) ==
    LET gone == {n \in Unowned({o}) : node[n].st \in Active}
        hit  == {n \in Nodes : node[n].st = "Pending" /\ Deps[n] \cap gone # {}}
    IN  IF o \in attached
        THEN /\ node' = [n \in Nodes |->
                    IF n \in hit THEN [node[n] EXCEPT !.st = "Failed", !.holder = None]
                    ELSE IF n \in gone THEN [node[n] EXCEPT !.st = "Cancelled", !.holder = None]
                    ELSE node[n]]
             /\ attached' = attached \ {o}
             /\ retired' = retired \cup {o}
        ELSE UNCHANGED queue

-----------------------------------------------------------------------------
(* Requests and jobs.  A step says where its caller goes next.             *)

At(c, pc) == caller[c].pc = pc

Goto(c, pc) ==
    caller' = [caller EXCEPT ![c] = IF pc = "idle" THEN NoCall ELSE [@ EXCEPT !.pc = pc]]

GotoWith(c, pc, r, snap, missing) ==
    caller' = [caller EXCEPT ![c] = [pc |-> pc, root |-> r, snap |-> snap, missing |-> missing]]

TakeGate(p) == gate = None /\ gate' = p
DropGate == gate' = None
PassGate == gate = None /\ UNCHANGED gate

Quiet == UNCHANGED <<proof, moves, cast>>
QueueKept == UNCHANGED <<queue, stored, worker>>

Call(c, kind) == At(c, "idle") /\ c \in cast.callers /\ kind \in cast.calls /\ Move

\* v4 submit_submission reads the record first, v3 registers at once.
Submit(c, r) ==
    /\ Call(c, "submit")
    /\ \/ GotoWith(c, "register", r, None, FALSE)
       \/ rec[r] # None /\ GotoWith(c, "existing", r, rec[r], FALSE)
    /\ UNCHANGED <<rec, proof, gate, cast>> /\ QueueKept

\* register_task_if_absent: a created root is attached next.
Register(c) ==
    LET r == caller[c].root IN
    /\ At(c, "register")
    /\ IF rec[r] = None
       THEN /\ FreeIncs(r) # {}
            /\ rec' = [rec EXCEPT ![r] = NewRecord(r)]
            /\ GotoWith(c, "attach", r, NewRecord(r), FALSE)
       ELSE /\ UNCHANGED rec
            /\ GotoWith(c, "existing", r, rec[r], FALSE)
    /\ UNCHANGED gate /\ Quiet /\ QueueKept

\* ProofLifecycle::attach, up to the check of the current record.
AttachCheck(c) ==
    LET r == caller[c].root IN
    /\ At(c, "attach")
    /\ IF rec[r] # None /\ rec[r].inc = caller[c].snap.inc /\ rec[r].status = "Allocated"
       THEN TakeGate(c) /\ Goto(c, "attaching")
       ELSE PassGate /\ Goto(c, "idle")
    /\ UNCHANGED rec /\ Quiet /\ QueueKept

AttachCreated(c) ==
    /\ At(c, "attaching")
    /\ AttachPlan(Owner(caller[c].root, caller[c].snap.inc))
    /\ DropGate /\ Goto(c, "idle")
    /\ UNCHANGED rec /\ Quiet

\* handle_existing_batch_task, with should_reenqueue_existing_submission.
Existing(c) ==
    LET r == caller[c].root
        t == caller[c].snap
        missing == ArtifactMissing(r, t)
    IN
    /\ At(c, "existing")
    /\ GotoWith(c, IF missing \/ t.status \in {"Allocated", "Failed"} THEN "poll" ELSE "status",
                r, t, missing)
    /\ UNCHANGED <<rec, gate>> /\ Quiet /\ QueueKept

\* What complete_nonterminal_task makes of the record with incarnation i.
Reconciled(r, i) ==
    IF rec[r] # None /\ rec[r].inc = i /\ ~ Terminal(rec[r]) /\ Evidence(r) \subseteq proof
    THEN [rec EXCEPT ![r].status = "Completed"] ELSE rec

(* load_task_data_from_lookup reconciles the current record with its       *)
(* artifacts; a poll of an existing task goes on to recover it unless the  *)
(* answer is a completed one.                                              *)
Status(c) ==
    LET r == caller[c].root IN
    /\ At(c, "poll") \/ At(c, "status")
    /\ rec' = IF rec[r] = None THEN rec ELSE Reconciled(r, rec[r].inc)
    /\ Goto(c, IF \/ At(c, "status")
                  \/ /\ ~ caller[c].missing
                     /\ rec'[r] # None
                     /\ rec'[r].status = "Completed" /\ RootProof(r) \subseteq proof
               THEN "idle" ELSE "recover")
    /\ UNCHANGED gate /\ Quiet /\ QueueKept

(* recover_if_inactive up to prepare_task_for_recovery_if_unchanged: a     *)
(* root that is completed or cancelled, that runs already, or that has     *)
(* changed, is not recovered; one whose proof is gone is replaced.         *)
RecoverPrepare(c) ==
    LET r == caller[c].root
        t == caller[c].snap
        final == t.status \in {"Completed", "Cancelled"}
    IN
    /\ At(c, "recover")
    /\ IF final
       THEN UNCHANGED <<rec, gate>> /\ Goto(c, IF caller[c].missing THEN "replace" ELSE "status")
       ELSE IF rec[r] # t \/ (t.status = "Allocated" /\ HasActive(Owner(r, t.inc)))
       THEN PassGate /\ UNCHANGED rec /\ Goto(c, "status")
       ELSE /\ TakeGate(c)
            /\ rec' = [rec EXCEPT ![r].status = "Allocated"]
            /\ Goto(c, "reattach")
    /\ Quiet /\ QueueKept

RecoverAttach(c) ==
    /\ At(c, "reattach")
    /\ AttachPlan(Owner(caller[c].root, caller[c].snap.inc))
    /\ DropGate /\ Goto(c, "status")
    /\ UNCHANGED rec /\ Quiet

(* The plan cannot be built or attached: restore_recovery_snapshot puts    *)
(* the record back if nothing changed it, and the request replaces the     *)
(* root unless a remote submission would be lost.                          *)
RecoverRefused(c) ==
    LET r == caller[c].root
        t == caller[c].snap
    IN
    /\ At(c, "reattach") /\ Fault("refuse")
    /\ rec' = IF rec[r] = [t EXCEPT !.status = "Allocated"] THEN [rec EXCEPT ![r] = t] ELSE rec
    /\ DropGate
    /\ Goto(c, IF t.remote THEN "idle" ELSE "replace")
    /\ UNCHANGED <<proof, cast>> /\ QueueKept

\* ProofLifecycle::replace of an unchanged record; otherwise the request registers
\* again and leaves whatever is there.
Replace(c) ==
    LET r == caller[c].root IN
    /\ At(c, "replace")
    /\ IF rec[r] = caller[c].snap
       THEN /\ FreeIncs(r) # {}
            /\ TakeGate(c)
            /\ rec' = [rec EXCEPT ![r] = NewRecord(r)]
            /\ Goto(c, "swap")
       ELSE PassGate /\ UNCHANGED rec /\ Goto(c, "reregister")
    /\ Quiet /\ QueueKept

SwapDetach(c) ==
    LET r == caller[c].root IN
    /\ At(c, "swap")
    /\ DetachRemove({Owner(r, caller[c].snap.inc)})
    /\ GotoWith(c, "attaching", r, rec[r], FALSE)
    /\ UNCHANGED <<rec, gate, stored, worker>> /\ Quiet

Reregister(c) ==
    LET r == caller[c].root IN
    /\ At(c, "reregister")
    /\ IF rec[r] = None
       THEN /\ FreeIncs(r) # {}
            /\ rec' = [rec EXCEPT ![r] = NewRecord(r)]
            /\ GotoWith(c, "attach", r, NewRecord(r), FALSE)
       ELSE UNCHANGED rec /\ Goto(c, "status")
    /\ UNCHANGED gate /\ Quiet /\ QueueKept

\* cancel_task and clear_prover_tasks: a terminal root is left alone.
CancelCall(c, r) ==
    /\ Call(c, "cancel") /\ rec[r] # None /\ ~ Terminal(rec[r])
    /\ GotoWith(c, "cancel", r, rec[r], FALSE)
    /\ UNCHANGED <<rec, proof, gate, cast>> /\ QueueKept

\* cancel_task_if_current of the incarnation that was read.
Cancel(c) ==
    LET r == caller[c].root IN
    /\ At(c, "cancel")
    /\ IF /\ rec[r] # None /\ rec[r].inc = caller[c].snap.inc
          /\ rec[r].status \in {"Allocated", "Cancelled"}
       THEN /\ TakeGate(c)
            /\ rec' = [rec EXCEPT ![r].status = "Cancelled"]
            /\ Goto(c, "cancelled")
       ELSE PassGate /\ UNCHANGED rec /\ Goto(c, "idle")
    /\ Quiet /\ QueueKept

CancelDetach(c) ==
    /\ At(c, "cancelled")
    /\ DetachCancel(Owner(caller[c].root, caller[c].snap.inc))
    /\ DropGate /\ Goto(c, "idle")
    /\ UNCHANGED <<rec, stored, worker>> /\ Quiet

\* cancel_orphaned_runtime_tasks picks a root that has not moved for long; the job
\* comes back as long as the server runs.
SweepCall(c, r) ==
    /\ At(c, "idle") /\ c \in cast.callers /\ "sweep" \in cast.calls
    /\ rec[r] # None /\ ~ Terminal(rec[r])
    /\ GotoWith(c, "sweep", r, rec[r], FALSE)
    /\ UNCHANGED <<rec, gate>> /\ Quiet /\ QueueKept

\* A root whose proofs are there is completed, one with a paid request is kept.
SweepReconcile(c) ==
    LET r == caller[c].root
        t == caller[c].snap
    IN
    /\ At(c, "sweep")
    /\ rec' = Reconciled(r, t.inc)
    /\ Goto(c, IF \/ rec'[r] # None /\ rec'[r].inc = t.inc /\ rec'[r].status = "Completed"
                  \/ t.remote
               THEN "idle" ELSE "orphan")
    /\ UNCHANGED gate /\ Quiet /\ QueueKept

\* cancel_orphaned_if_unchanged: inspect, cancel, detach under one gate.
OrphanInspect(c) ==
    LET o == Owner(caller[c].root, caller[c].snap.inc) IN
    /\ At(c, "orphan")
    /\ IF HasActive(o) THEN PassGate /\ Goto(c, "idle")
       ELSE TakeGate(c) /\ Goto(c, "orphaned")
    /\ UNCHANGED rec /\ Quiet /\ QueueKept

OrphanCancel(c) ==
    LET r == caller[c].root IN
    /\ At(c, "orphaned")
    /\ IF rec[r] = caller[c].snap
       THEN /\ rec' = [rec EXCEPT ![r].status = "Cancelled"]
            /\ Goto(c, "cancelled") /\ UNCHANGED gate
       ELSE UNCHANGED rec /\ DropGate /\ Goto(c, "idle")
    /\ Quiet /\ QueueKept

\* prune_tasks removes any root, retention only one that is terminal.
RemoveCall(c, r) ==
    /\ Call(c, "remove") /\ rec[r] # None
    /\ GotoWith(c, "remove", r, rec[r], FALSE)
    /\ UNCHANGED <<rec, proof, gate, cast>> /\ QueueKept

\* retire_task_if_unchanged, and prepare_terminal_task_retention_batch of one root.
Retire(c) ==
    LET r == caller[c].root IN
    /\ At(c, "remove")
    /\ IF rec[r] = caller[c].snap
       THEN /\ TakeGate(c)
            /\ rec' = [rec EXCEPT ![r].status = "Cancelled"]
            /\ Goto(c, "retired")
       ELSE PassGate /\ UNCHANGED rec /\ Goto(c, "idle")
    /\ Quiet /\ QueueKept

RetireDetach(c) ==
    /\ At(c, "retired")
    /\ DetachRemove({Owner(caller[c].root, caller[c].snap.inc)})
    /\ Goto(c, "removal")
    /\ UNCHANGED <<rec, gate, stored, worker>> /\ Quiet

\* remove_task_if_current
Removal(c) ==
    LET r == caller[c].root IN
    /\ At(c, "removal")
    /\ rec' = IF rec[r] # None /\ rec[r].inc = caller[c].snap.inc /\ rec[r].status = "Cancelled"
              THEN [rec EXCEPT ![r] = None] ELSE rec
    /\ DropGate /\ Goto(c, "idle")
    /\ Quiet /\ QueueKept

-----------------------------------------------------------------------------
(* Workers: run_one, step by step.                                         *)

On(w, pc) == worker[w].pc = pc

\* The lease is still the one w was given.
Current(w) == node[worker[w].node].st = "Running" /\ node[worker[w].node].holder = w

With(w, me) == [worker EXCEPT ![w] = me]

Become(w, pc) ==
    worker' = With(w, IF pc \in {"idle", "gap", "waiting"} THEN [NoWork EXCEPT !.pc = pc]
                      ELSE [worker[w] EXCEPT !.pc = pc])

CallersKept == UNCHANGED <<caller, cast>>

RetryLater(n) == node' = [node EXCEPT ![n].st = "Retrying", ![n].holder = None]

\* next_ready leases a ready node.
Take(w, n) ==
    /\ On(w, "idle") /\ w \in cast.workers /\ node[n].st = "Ready"
    /\ node' = [node EXCEPT ![n].st = "Running", ![n].holder = w]
    /\ worker' = With(w, [NoWork EXCEPT !.pc = "permit", !.node = n])
    /\ UNCHANGED <<rec, proof, attached, retired, gate, stored, moves>> /\ CallersKept

\* run_one found nothing; the worker has not registered for a notification yet.
FindNothing(w) ==
    /\ On(w, "idle") /\ w \in cast.workers /\ \A n \in Nodes : node[n].st # "Ready"
    /\ Become(w, "gap")
    /\ UNCHANGED <<rec, proof, queue, gate, stored, moves>> /\ CallersKept

\* notified().await: a kept permit is taken at once.
Wait(w) ==
    /\ On(w, "gap")
    /\ IF stored THEN stored' = FALSE /\ Become(w, "idle")
       ELSE UNCHANGED stored /\ Become(w, "waiting")
    /\ UNCHANGED <<rec, proof, queue, gate, moves>> /\ CallersKept

\* acquire_task_execution_permit captures the current owners.
Permit(w) ==
    LET n == worker[w].node IN
    /\ On(w, "permit")
    /\ worker' = With(w, [worker[w] EXCEPT !.pc = "renew",
                                           !.permit = CurrentOwners(n, node[n].pub, {})])
    /\ UNCHANGED <<rec, proof, queue, gate, stored, moves>> /\ CallersKept

\* The lease must have survived the capture.  A run without an owner cannot end
\* for good, as it has no permit to fail with: it is tried again.
Renew(w) ==
    LET n == worker[w].node IN
    /\ On(w, "renew")
    /\ IF Current(w) /\ worker[w].permit = {}
       THEN RetryLater(n) /\ Become(w, "idle")
       ELSE UNCHANGED node /\ Become(w, IF Current(w) THEN "start" ELSE "idle")
    /\ UNCHANGED <<rec, proof, attached, retired, gate, stored, moves>> /\ CallersKept

\* Mutant: the start of a stage reopens a root that has ended.
StartAny(w) ==
    LET n == worker[w].node IN
    /\ On(w, "start")
    /\ rec' = [r \in Roots |->
           IF rec[r] # None /\ Owner(r, rec[r].inc) \in worker[w].permit
           THEN [rec[r] EXCEPT !.status = "Allocated", !.stage = n] ELSE rec[r]]
    /\ Become(w, "run")
    /\ UNCHANGED <<proof, queue, gate, stored, moves>> /\ CallersKept

\* on_task_started marks the stage on the roots of the permit that are not terminal;
\* a retry of a publication does not.
Start(w) ==
    LET n == worker[w].node IN
    /\ On(w, "start")
    /\ rec' = [r \in Roots |->
           IF /\ ~ node[n].pub
              /\ rec[r] # None /\ Owner(r, rec[r].inc) \in worker[w].permit
              /\ ~ Terminal(rec[r])
           THEN [rec[r] EXCEPT !.status = "Allocated", !.stage = n] ELSE rec[r]]
    /\ Become(w, "run")
    /\ UNCHANGED <<proof, queue, gate, stored, moves>> /\ CallersKept

\* on_task_progress registers a paid request on the current owners.
Progress(w) ==
    LET n == worker[w].node
        os == CurrentOwners(n, FALSE, worker[w].permit)
    IN
    /\ On(w, "run") /\ Fault("remote") /\ PassGate
    /\ IF os = {} THEN Become(w, "coordinate") /\ UNCHANGED rec
       ELSE /\ rec' = [r \in Roots |-> IF rec[r] # None /\ Owner(r, rec[r].inc) \in os
                                       THEN [rec[r] EXCEPT !.remote = TRUE] ELSE rec[r]]
            /\ UNCHANGED worker
    /\ UNCHANGED <<proof, queue, stored>> /\ CallersKept

\* The proof is made, or found: the queue keeps it before anything is published.
Proved(w) ==
    LET n == worker[w].node IN
    /\ On(w, "run")
    /\ IF Current(w) THEN node' = [node EXCEPT ![n].pub = TRUE] /\ Become(w, "checkpoint")
       ELSE UNCHANGED node /\ Become(w, "fail")
    /\ UNCHANGED <<rec, proof, attached, retired, gate, stored, moves>> /\ CallersKept

\* wait_lease_interruption
Interrupted(w) ==
    /\ On(w, "run") /\ ~ Current(w)
    /\ Become(w, "fail")
    /\ UNCHANGED <<rec, proof, queue, gate, stored, moves>> /\ CallersKept

\* A stage fails; its policy allows another attempt or not.
StageFails(w) ==
    /\ On(w, "run")
    /\ \/ Fault("retry") /\ Become(w, "coordinate")
       \/ Fault("fail") /\ Become(w, "fail")
    /\ UNCHANGED <<rec, proof, queue, gate, stored>> /\ CallersKept

\* complete with an error that is retried.
Reschedule(w) ==
    /\ On(w, "coordinate")
    /\ IF Current(w) THEN RetryLater(worker[w].node) ELSE UNCHANGED node
    /\ Become(w, "idle")
    /\ UNCHANGED <<rec, proof, attached, retired, gate, stored, moves>> /\ CallersKept

\* checkpoint_completed_proof fixes the owners the proof is published for.
Checkpoint(w) ==
    LET n == worker[w].node
        os == CurrentOwners(n, TRUE, worker[w].permit)
    IN
    /\ On(w, "checkpoint")
    /\ worker' = With(w, [worker[w] EXCEPT !.pc = IF os = {} THEN "fail" ELSE "publish",
                                           !.active = os])
    /\ UNCHANGED <<rec, proof, queue, gate, stored, moves>> /\ CallersKept

(* sync_proof_success, under the gate: the artifact becomes active with    *)
(* the roots it completes or moves on; a completed root it does not        *)
(* complete is passed over, and without any root the proof is refused.     *)
Publish(w) ==
    LET n == worker[w].node
        owners == CurrentOwners(n, TRUE, worker[w].active)
        ends(r) == CompletedBy(n, r, rec[r].done \cup {n})
        synced == {r \in Roots : /\ rec[r] # None /\ Owner(r, rec[r].inc) \in owners
                                 /\ rec[r].status = "Completed" => ends(r)}
    IN
    /\ On(w, "publish") /\ PassGate
    /\ IF synced = {} THEN UNCHANGED <<rec, proof>> /\ Become(w, "fail")
       ELSE /\ proof' = proof \cup {n}
            /\ rec' = [r \in Roots |->
                 IF r \in synced
                 THEN [rec[r] EXCEPT !.done = @ \cup {n}, !.stage = n,
                                     !.status = IF ends(r) THEN "Completed" ELSE "Allocated"]
                 ELSE rec[r]]
            /\ Become(w, "complete")
    /\ UNCHANGED <<queue, stored, moves>> /\ CallersKept

\* The publication fails halfway: the queue tries it again with the proof it kept.
PublishFails(w) ==
    /\ On(w, "publish") /\ Fault("retry") /\ Become(w, "coordinate")
    /\ UNCHANGED <<rec, proof, queue, gate, stored>> /\ CallersKept

\* complete_success: the aggregates that waited for this one may run.
Complete(w) ==
    LET n == worker[w].node
        freed == {a \in Nodes : /\ node[a].st = "Pending" /\ n \in Deps[a]
                                /\ \A d \in Deps[a] \ {n} : node[d].st = "Succeeded"}
    IN
    /\ On(w, "complete")
    /\ IF Current(w)
       THEN /\ node' = [m \in Nodes |->
                 IF m = n THEN [node[n] EXCEPT !.st = "Succeeded", !.holder = None]
                 ELSE IF m \in freed THEN [node[m] EXCEPT !.st = "Ready"] ELSE node[m]]
            /\ NotifyReady(With(w, NoWork))
       ELSE UNCHANGED <<node, stored>> /\ Become(w, "idle")
    /\ UNCHANGED <<rec, proof, attached, retired, gate, moves>> /\ CallersKept

\* complete_terminal_failure: the gate, the owners still active, then the lease.
FailGate(w) ==
    LET n == worker[w].node IN
    /\ On(w, "fail")
    /\ IF Current(w)
       THEN /\ TakeGate(w)
            /\ worker' = With(w, [worker[w] EXCEPT !.pc = "failing",
                                     !.active = CurrentOwners(n, FALSE, worker[w].permit)])
       ELSE PassGate /\ Become(w, "idle")
    /\ UNCHANGED <<rec, proof, queue, stored, moves>> /\ CallersKept

\* on_task_failed: if none of the owners can be marked any more, the failure is
\* not durable and the queue tries again.
FailRoots(w) ==
    LET hit == {r \in Roots : /\ rec[r] # None /\ Owner(r, rec[r].inc) \in worker[w].active
                              /\ ~ Terminal(rec[r])}
    IN
    /\ On(w, "failing")
    /\ IF hit = {} /\ worker[w].active # {}
       THEN DropGate /\ UNCHANGED rec /\ Become(w, "coordinate")
       ELSE /\ rec' = [r \in Roots |-> IF r \in hit THEN [rec[r] EXCEPT !.status = "Failed"]
                                       ELSE rec[r]]
            /\ UNCHANGED gate /\ Become(w, "failed")
    /\ UNCHANGED <<proof, queue, stored, moves>> /\ CallersKept

\* The queue's failure takes the waiting aggregates with it.
FailNode(w) ==
    LET n == worker[w].node IN
    /\ On(w, "failed")
    /\ node' = IF Current(w)
               THEN [m \in Nodes |->
                   IF m = n \/ (node[m].st = "Pending" /\ n \in Deps[m])
                   THEN [node[m] EXCEPT !.st = "Failed", !.holder = None] ELSE node[m]]
               ELSE node
    /\ Become(w, "detach")
    /\ UNCHANGED <<rec, proof, attached, retired, gate, stored, moves>> /\ CallersKept

\* Mutant: a root that joined during the run is failed but not detached.
FailDetachPermit(w) ==
    /\ On(w, "detach")
    /\ DetachRemove(worker[w].permit)
    /\ DropGate /\ Become(w, "idle")
    /\ UNCHANGED <<rec, proof, stored, moves>> /\ CallersKept

\* detach_terminal_failure_projection, still under the gate.
FailDetach(w) ==
    /\ On(w, "detach")
    /\ DetachRemove(worker[w].permit \cup worker[w].active)
    /\ DropGate /\ Become(w, "idle")
    /\ UNCHANGED <<rec, proof, stored, moves>> /\ CallersKept

-----------------------------------------------------------------------------
(* Maintenance and faults                                                  *)

MadeReady(n) == node' = [node EXCEPT ![n].st = "Ready", ![n].holder = None]

\* promote_scheduled
Promote(n) ==
    /\ node[n].st = "Retrying" /\ MadeReady(n) /\ NotifyReady(worker)
    /\ UNCHANGED <<rec, proof, attached, retired, gate, caller, moves, cast>>

Held(n) == worker[node[n].holder].node = n

\* requeue_expired_leases: the lease of a worker that still runs is renewed, so it
\* expires only as a fault; one that nobody holds any more always does.
Expire(n) ==
    /\ node[n].st = "Running" /\ MadeReady(n) /\ NotifyReady(worker)
    /\ IF Held(n) THEN Fault("expire") ELSE UNCHANGED moves
    /\ UNCHANGED <<rec, proof, attached, retired, gate, caller, cast>>

\* A worker panics and is started again; its guard is dropped, its lease is not.
Panic(w) ==
    /\ worker[w].node # None /\ Fault("panic")
    /\ Become(w, "idle")
    /\ gate' = IF gate = w THEN None ELSE gate
    /\ UNCHANGED <<rec, proof, queue, stored>> /\ CallersKept

\* A proof object disappears from the store.
Lose(n) ==
    /\ n \in proof /\ Fault("lose") /\ proof' = proof \ {n}
    /\ UNCHANGED <<rec, queue, gate, stored, worker, caller, cast>>

\* The process is started again: the roots and the proofs are what remains.
Restart ==
    /\ Fault("restart")
    /\ node' = [n \in Nodes |-> Absent] /\ attached' = {} /\ retired' = {}
    /\ gate' = None /\ stored' = FALSE
    /\ worker' = [w \in Workers |-> NoWork]
    /\ caller' = [c \in Callers |-> NoCall]
    /\ UNCHANGED <<rec, proof, cast>>

-----------------------------------------------------------------------------
Begin(c) == \E r \in cast.roots : Submit(c, r) \/ CancelCall(c, r) \/ RemoveCall(c, r)

CallerStep(c) ==
    \/ Register(c) \/ AttachCheck(c) \/ AttachCreated(c) \/ Existing(c) \/ Status(c)
    \/ RecoverPrepare(c) \/ RecoverAttach(c) \/ Replace(c) \/ SwapDetach(c) \/ Reregister(c)
    \/ Cancel(c) \/ CancelDetach(c)
    \/ SweepReconcile(c) \/ OrphanInspect(c) \/ OrphanCancel(c)
    \/ Retire(c) \/ RetireDetach(c) \/ Removal(c)

WorkerStep(w) ==
    \/ \E n \in Nodes : Take(w, n)
    \/ FindNothing(w) \/ Wait(w) \/ Permit(w) \/ Renew(w) \/ Start(w)
    \/ Proved(w) \/ Interrupted(w) \/ Reschedule(w) \/ Checkpoint(w) \/ Publish(w) \/ Complete(w)
    \/ FailGate(w) \/ FailRoots(w) \/ FailNode(w) \/ FailDetach(w)

Trouble ==
    \/ \E c \in Callers : RecoverRefused(c)
    \/ \E w \in Workers : Progress(w) \/ StageFails(w) \/ PublishFails(w) \/ Panic(w)
    \/ \E n \in Nodes : Lose(n)
    \/ Restart

Next ==
    \/ \E c \in Callers : \/ Begin(c) \/ CallerStep(c)
                          \/ \E r \in cast.roots : SweepCall(c, r)
    \/ \E w \in Workers : WorkerStep(w)
    \/ \E n \in Nodes : Promote(n) \/ Expire(n)
    \/ Trouble

Spec == Init /\ [][Next]_vars

(* Workers and requests go on, and a waiter for the gate, which is a fair  *)
(* queue, gets it; maintenance ticks, and the sweep comes by every root.   *)
FairSpec ==
    /\ Spec
    /\ \A w \in Workers : SF_vars(WorkerStep(w))
    /\ \A c \in Callers : SF_vars(CallerStep(c))
    /\ \A n \in Nodes : WF_vars(Promote(n)) /\ WF_vars(Expire(n) /\ ~ Held(n))
    /\ \A c \in Callers, r \in Roots : SF_vars(SweepCall(c, r))

-----------------------------------------------------------------------------
TypeOK ==
    /\ rec \in [Roots -> [inc : 1 .. MaxInc, status : {"Allocated", "Completed", "Failed", "Cancelled"},
                          done : SUBSET Nodes, stage : Nodes \cup {None}, remote : BOOLEAN] \cup {None}]
    /\ proof \subseteq Nodes
    /\ attached \subseteq [root : Roots, inc : 1 .. MaxInc]
    /\ retired \subseteq [root : Roots, inc : 1 .. MaxInc]
    /\ gate \in Workers \cup Callers \cup {None}
    /\ moves <= cast.moves

(* Whenever nobody is inside the lifecycle gate, an owner in the execution *)
(* projection is the incarnation its root has now, and that root has not   *)
(* been cancelled: no request, removal, replacement or failure leaves the  *)
(* queue working for a root that is gone.  A root may be Failed there only *)
(* when a worker died between the failure and the detachment.              *)
AttachedIsCurrent ==
    gate = None => \A o \in attached :
        /\ rec[o.root] # None /\ rec[o.root].inc = o.inc
        /\ rec[o.root].status # "Cancelled"
        /\ rec[o.root].status = "Failed" => "panic" \in cast.faults

(* cancel_orphaned_if_unchanged cancels a root only while the projection   *)
(* holds no live work of it: no attachment comes between the inspection    *)
(* and the cancellation.                                                   *)
OrphanSparesWork ==
    \A c \in Callers : At(c, "orphaned") =>
        ~ HasActive(Owner(caller[c].root, caller[c].snap.inc))

(* notify_ready_workers loses no wakeup: while a task is ready, some       *)
(* worker is awake or will be by the kept permit.                          *)
WorkIsNoticed ==
    (\E n \in Nodes : node[n].st = "Ready") =>
        \E w \in cast.workers : ~ On(w, "waiting") /\ (On(w, "gap") => stored)

(* A root is Completed only with the proofs that make it so: its own       *)
(* proof, or those of all its proposals, unless the store lost one.        *)
CompletedIsProved ==
    \A r \in Roots : rec[r] # None /\ rec[r].status = "Completed" /\ "lose" \notin cast.faults
        => Evidence(r) \subseteq proof

(* What a root stands for is so, at every moment: the four above.          *)
RootsAreSound == AttachedIsCurrent /\ OrphanSparesWork /\ WorkIsNoticed /\ CompletedIsProved

(* A run never touches a root that was replaced after the run's permit was *)
(* taken: what a worker changes is the incarnation it began with, or a     *)
(* root it did not know yet.                                               *)
ReplacedSpared ==
    \A r \in Roots : rec'[r] # rec[r] /\ UNCHANGED caller =>
        \E w \in Workers : /\ worker[w].node # None
                            /\ \A o \in worker[w].permit : o.root = r => o.inc = rec[r].inc

(* An incarnation that is Cancelled stays so, one that is Completed is at  *)
(* most retired, and only recovery opens a Failed one again.               *)
EndIsFinal ==
    \A r \in Roots :
        rec[r] # None /\ rec'[r] # None /\ rec'[r] # rec[r] /\ rec'[r].inc = rec[r].inc /\ Terminal(rec[r])
          => \/ rec'[r].status = "Cancelled"
             \/ rec[r].status = rec'[r].status /\ rec[r].status # "Cancelled"
             \/ rec[r].status = "Failed" /\ \E c \in Callers : At(c, "recover")

\* A root that still waits for its proof, and for which nothing was paid.
Unsettled(r) == rec[r] # None /\ rec[r].status = "Allocated" /\ ~rec[r].remote
=============================================================================
