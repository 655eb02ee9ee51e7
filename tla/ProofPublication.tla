-------------------------- MODULE ProofPublication --------------------------
(***************************************************************************)
(* The publication saga and the reclamation of ONE proof artifact key.     *)
(*                                                                         *)
(* Every commit of the runtime state is one atomic step here: module       *)
(* RuntimeCommit models how such a commit reaches the store.  The          *)
(* canonical object is the GCS manifest, a create-only object with a       *)
(* generation that is deleted only by its exact descriptor.                *)
(*                                                                         *)
(* Workers run the engine's publication of a computed proof (checkpoint,   *)
(* commit, activation, tail cleanup).  Handlers run the API transitions    *)
(* that release a root's intent, and the retention and start-up            *)
(* reconciliation jobs.  Each step between two awaits is an action; the    *)
(* keyed artifact-lifecycle lock is `lock', the execution-lifecycle gate   *)
(* is held exactly by a process at "activate" or "removeTask".             *)
(***************************************************************************)
EXTENDS Naturals, FiniteSets

CONSTANTS
    Roots,      \* task ids whose requests resolve to the artifact key
    Partial,    \* the roots this proof is only one part of (batches, aggregates)
    Reopened,   \* the roots that are recovered after a failure
    Workers,    \* engine workers publishing a proof of the key
    Handlers,   \* API and maintenance tasks
    Hashes,     \* contents two runs of the prover may produce
    MaxInc,     \* bound: incarnations anything refers to at one time
    MaxGen,     \* bound: generations anything refers to at one time
    Casts,      \* who may take part in a behaviour, see Cast
    None

(* One behaviour has one cast: its roots, workers and handlers, the contents *)
(* its prover runs may produce, whether the key is an input of an external   *)
(* aggregate (which requests publish, not workers), and the number of        *)
(* requests and faults (None for no bound).                                  *)
Cast == [roots : SUBSET Roots, workers : SUBSET Workers, handlers : SUBSET Handlers,
         hashes : SUBSET Hashes, external : BOOLEAN, moves : Nat \cup {None}]

VARIABLES
    task,       \* RuntimeState.tasks: root -> record or None
    artifact,   \* RuntimeState.artifacts at the key: [desc, life] or None
    pending,    \* RuntimeState.pending_publications at the key: [hash, owners] or None
    canonical,  \* the canonical object's descriptor [gen, hash], or None
    outbox,     \* hash of the pending blob's bytes, or None
    lock,       \* holder of the artifact-lifecycle lock, or None
    node,       \* the queue's task: [proof, lease], the proof it retains for a retry
    proc,       \* where each worker and handler stands, with its locals
    moves,      \* requests and faults so far
    cast        \* who takes part

vars == <<task, artifact, pending, canonical, outbox, lock, node, proc, moves, cast>>

Procs == Workers \cup Handlers

NoNode == [proof |-> None, lease |-> None]

Descriptors == [gen : 1 .. MaxGen, hash : Hashes]

-----------------------------------------------------------------------------
(* Ownership.  `Failed' and `Cancelled' roots own nothing; a `Completed'    *)
(* root still owns its artifact.  Allocated stands for Allocated and        *)
(* Running, which no operation here tells apart.                            *)

Live(t) == t # None /\ t.status \notin {"Failed", "Cancelled"}

LiveIncs(ts) == {ts[r].inc : r \in {q \in Roots : Live(ts[q])}}

HasLiveTask == LiveIncs(task) # {}

Referenced == \E r \in Roots : task[r] # None

HasLiveOwner == pending # None /\ pending.owners \cap LiveIncs(task) # {}

\* What a captured permit (root -> incarnation, 0 when the root was not there)
\* still speaks for: a root that was replaced since is fenced off, one that was
\* registered since may join.
CurrentOwners(permit) ==
    [r \in Roots |-> IF Live(task[r]) /\ permit[r] \in {0, task[r].inc}
                     THEN task[r].inc ELSE 0]

Incs(owners) == {owners[r] : r \in Roots} \ {0}

NoOwners == [r \in Roots |-> 0]

Registered(desc, lives) ==
    artifact # None /\ artifact.desc = desc /\ artifact.life \in lives

\* No record at the key, or one of this very object.
Compatible(desc) == artifact # None => artifact.desc = desc

Without(pd, incs) ==
    IF pd = None THEN None ELSE [pd EXCEPT !.owners = @ \ incs]

-----------------------------------------------------------------------------
(* Control.  `yes' and `no' are the continuations of the two shared         *)
(* procedures: "invalidate" answers, "prune" returns to `yes'.              *)

Idle == [pc |-> "idle", boot |-> FALSE, hash |-> None, own |-> NoOwners,
         desc |-> None, want |-> None, synced |-> {}, yes |-> "idle", no |-> "idle"]

At(p, label) == proc[p].pc = label

\* A process keeps the locals it will read again.
Become(p, me) ==
    proc' = [proc EXCEPT ![p] =
        CASE me.pc \in {"idle", "drop", "keep"} -> [Idle EXCEPT !.pc = me.pc]
          [] me.pc = "retry" -> [Idle EXCEPT !.pc = "retry", !.hash = me.hash, !.own = me.own]
          [] me.pc = "fail"  -> [Idle EXCEPT !.pc = "fail", !.own = me.own, !.synced = me.synced]
          [] OTHER           -> me]

Goto(p, label) == Become(p, [proc[p] EXCEPT !.pc = label])

Call(p, label, yes, no) ==
    Become(p, [proc[p] EXCEPT !.pc = label, !.want = None, !.yes = yes, !.no = no])

\* The last call of a job: none of its locals is read again.
TailCall(p, label, yes, no) ==
    Become(p, [Idle EXCEPT !.pc = label, !.yes = yes, !.no = no])

LockFree == lock = None

GateFree == \A p \in Procs : proc[p].pc \notin {"activate", "removeTask"}

\* An error ends a handler's job; a worker's failure has a follow-up of its own.
Else(p, label) == IF p \in Handlers THEN "idle" ELSE label

Booting == \E p \in Handlers : proc[p].boot

Durable == <<task, artifact, pending, canonical, outbox>>

\* The runtime-state records, the stored objects and the locks have their types: in
\* particular no record is ever written for an object that is not there.
TypeOK ==
    /\ task \in [Roots -> {None} \cup
            [inc : 1 .. MaxInc, status : {"Allocated", "Completed", "Failed", "Cancelled"},
             proof : Descriptors \cup {None}, exact : BOOLEAN]]
    /\ artifact \in {None} \cup [desc : Descriptors, life : {"Pending", "Active", "Invalidated"}]
    /\ pending \in {None} \cup [hash : Hashes, owners : SUBSET (1 .. MaxInc)]
    /\ canonical \in {None} \cup Descriptors
    /\ outbox \in {None} \cup Hashes
    /\ lock \in {None} \cup Procs
    /\ node \in [proof : {None} \cup Hashes, lease : {None} \cup Workers]
    /\ moves \in Nat /\ cast \in Casts
    /\ DOMAIN proc = Procs

Init ==
    /\ task = [r \in Roots |-> None]
    /\ artifact = None /\ pending = None /\ canonical = None /\ outbox = None
    /\ lock = None /\ node = NoNode
    /\ proc = [p \in Procs |-> Idle]
    /\ moves = 0
    /\ cast \in Casts

-----------------------------------------------------------------------------
(* Root lifecycle.  The transitions below the gate cannot fall between a    *)
(* worker's refresh of its owners and the activation it commits.            *)

\* A new uuid differs from every incarnation that anything still refers to; a new
\* generation likewise.  Names nobody refers to are used again, so that neither
\* is a counter.
IncsInUse == {task[r].inc : r \in {q \in Roots : task[q] # None}}
             \cup (IF pending = None THEN {} ELSE pending.owners)
             \cup UNION {Incs(proc[p].own) : p \in Procs}

FreshInc == CHOOSE i \in 1 .. MaxInc : i \notin IncsInUse

CanRegister == (1 .. MaxInc) \ IncsInUse # {}

\* A request or a fault: what the environment does, not the system.
Move ==
    IF cast.moves = None THEN UNCHANGED moves
    ELSE moves < cast.moves /\ moves' = moves + 1

FreshRoot == [inc |-> FreshInc, status |-> "Allocated", proof |-> None, exact |-> FALSE]

Register(r) ==
    /\ Move /\ ~Booting
    /\ task[r] = None /\ CanRegister
    /\ task' = [task EXCEPT ![r] = FreshRoot]
    /\ UNCHANGED <<artifact, pending, canonical, outbox, lock, node, proc>>

\* A request for a cached, still active proof completes the root in place.
CompleteFromArtifact(r) ==
    /\ Move /\ ~Booting
    /\ r \notin Partial /\ task[r] # None /\ task[r].status = "Allocated"
    /\ artifact # None /\ artifact.life = "Active"
    /\ task' = [task EXCEPT ![r].status = "Completed", ![r].proof = artifact.desc]
    /\ UNCHANGED <<artifact, pending, canonical, outbox, lock, node, proc>>

\* The final proof of a batch or an aggregate has a key of its own.
CompleteElsewhere(r) ==
    /\ Move /\ ~Booting
    /\ r \in Partial /\ task[r] # None /\ task[r].status = "Allocated"
    /\ task' = [task EXCEPT ![r].status = "Completed"]
    /\ UNCHANGED <<artifact, pending, canonical, outbox, lock, node, proc>>

\* Terminal failure of the execution, committed under a TerminalFailurePermit.
FailRoot(r) ==
    /\ Move /\ ~Booting /\ GateFree
    /\ task[r] # None /\ task[r].status = "Allocated"
    /\ task' = [task EXCEPT ![r].status = "Failed", ![r].proof = None]
    /\ UNCHANGED <<artifact, pending, canonical, outbox, lock, node, proc>>

\* A failed root is reopened in the same incarnation.
RecoverRoot(r) ==
    /\ Move /\ ~Booting /\ GateFree
    /\ r \in Reopened
    /\ task[r] # None /\ task[r].status = "Failed"
    /\ task' = [task EXCEPT ![r].status = "Allocated"]
    /\ UNCHANGED <<artifact, pending, canonical, outbox, lock, node, proc>>

\* Retention removes an expired terminal root and its publication ownership;
\* nothing releases the intent here, the pending-retention job finds it later.
ExpireRoot(r) ==
    /\ Move /\ ~Booting /\ GateFree
    /\ task[r] # None /\ task[r].status # "Allocated"
    /\ task' = [task EXCEPT ![r] = None]
    /\ pending' = Without(pending, {task[r].inc})
    /\ UNCHANGED <<artifact, canonical, outbox, lock, node, proc>>

\* The rest of an API transition: release the intent that incarnation i of r owned.
StartRelease(h, r, label) ==
    Become(h, [Idle EXCEPT !.pc = label,
                           !.own = [NoOwners EXCEPT ![r] = task[r].inc]])

Replace(h, r) ==
    /\ Move /\ ~Booting /\ GateFree /\ At(h, "idle")
    /\ task[r] # None /\ CanRegister
    /\ task' = [task EXCEPT ![r] = FreshRoot]
    /\ pending' = Without(pending, {task[r].inc})
    /\ StartRelease(h, r, "release")
    /\ UNCHANGED <<artifact, canonical, outbox, lock, node>>

Cancel(h, r) ==
    /\ Move /\ ~Booting /\ GateFree /\ At(h, "idle")
    /\ task[r] # None /\ task[r].status \in {"Allocated", "Cancelled"}
    /\ task' = [task EXCEPT ![r].status = "Cancelled"]
    /\ StartRelease(h, r, "release")
    /\ UNCHANGED <<artifact, pending, canonical, outbox, lock, node>>

\* ProofLifecycle::remove: retire, detach, then remove the task, all under the gate.
Retire(h, r) ==
    /\ Move /\ ~Booting /\ GateFree /\ At(h, "idle")
    /\ task[r] # None
    /\ task' = [task EXCEPT ![r].status = "Cancelled", ![r].proof = None]
    /\ StartRelease(h, r, "removeTask")
    /\ UNCHANGED <<artifact, pending, canonical, outbox, lock, node>>

RemoveTask(h) ==
    /\ At(h, "removeTask")
    /\ LET gone == {r \in Roots : /\ task[r] # None
                                  /\ task[r].inc = proc[h].own[r]
                                  /\ task[r].status = "Cancelled"}
       IN  /\ task' = [r \in Roots |-> IF r \in gone THEN None ELSE task[r]]
           /\ pending' = Without(pending, {task[r].inc : r \in gone})
    /\ Goto(h, "release")
    /\ UNCHANGED <<artifact, canonical, outbox, lock, node, moves>>

-----------------------------------------------------------------------------
(* release_pending_proof_publication_owner                                  *)

Release(h) ==
    /\ At(h, "release") /\ LockFree
    /\ pending' = Without(pending, Incs(proc[h].own))
    /\ Goto(h, IF pending = None THEN "idle" ELSE "released")
    /\ UNCHANGED <<task, artifact, canonical, outbox, lock, node, moves>>

Released(h) ==
    /\ At(h, "released")
    /\ IF HasLiveOwner THEN Goto(h, "idle") ELSE TailCall(h, "invalidate", "idle", "prune")
    /\ UNCHANGED <<Durable, lock, node, moves>>

-----------------------------------------------------------------------------
(* invalidate_pending_proof_publication                                     *)

ReadCanonical(p) ==
    /\ At(p, "invalidate") /\ LockFree
    /\ lock' = p
    /\ Become(p, [proc[p] EXCEPT !.pc = "mark", !.desc = canonical])
    /\ UNCHANGED <<Durable, node, moves>>

\* Mutant: only the intent is consulted, not the consumers of an active artifact.
ForbiddenByIntent(desc) == HasLiveOwner

\* mark_unowned_pending_publication_invalidated: a live owner of the intent, or
\* a live consumer of an active artifact, forbids the invalidation.
MarkForbidden(desc) ==
    \/ HasLiveOwner
    \/ HasLiveTask /\ (pending = None \/ Registered(desc, {"Active"}))

MarkTakesCanonical(desc) ==
    /\ desc # None
    /\ \/ Registered(desc, {"Invalidated"})
       \/ pending # None /\ pending.hash = desc.hash
       \/ ~HasLiveTask

Mark(p) ==
    LET desc == proc[p].desc IN
    /\ At(p, "mark")
    /\ lock' = None
    /\ \/ /\ MarkForbidden(desc)
          /\ Goto(p, proc[p].no)
          /\ UNCHANGED artifact
       \/ /\ ~MarkForbidden(desc) /\ MarkTakesCanonical(desc)
          /\ artifact' = IF Compatible(desc)
                         THEN [desc |-> desc, life |-> "Invalidated"] ELSE artifact
          /\ Goto(p, "erase")
       \/ /\ ~MarkForbidden(desc) /\ ~MarkTakesCanonical(desc)
          /\ Goto(p, "prune")
          /\ UNCHANGED artifact
    /\ UNCHANGED <<task, pending, canonical, outbox, node, moves>>

\* Mutant: the delete carries no generation.
DeleteAny(p, done, stale) ==
    /\ canonical' = None
    /\ Goto(p, done)

\* finalize_proof_artifact_invalidation: the exact delete runs without the lock.
DeleteExact(p, done, stale) ==
    IF canonical = None \/ canonical = proc[p].desc
    THEN /\ canonical' = None
         /\ Goto(p, done)
    ELSE /\ Goto(p, stale)
         /\ UNCHANGED canonical

Erase(p) ==
    /\ At(p, "erase")
    /\ DeleteExact(p, "forget", Else(p, proc[p].no))
    /\ UNCHANGED <<task, artifact, pending, outbox, lock, node, moves>>

\* finalize_terminal_task_retention_batch for one artifact: the record goes only
\* when it is still exactly the invalidation that was finalized.
Forget(p) ==
    /\ At(p, "forget") /\ LockFree
    /\ IF Registered(proc[p].desc, {"Invalidated"})
       THEN artifact' = None /\ Goto(p, "prune")
       ELSE Goto(p, Else(p, proc[p].no)) /\ UNCHANGED artifact
    /\ UNCHANGED <<task, pending, canonical, outbox, lock, node, moves>>

-----------------------------------------------------------------------------
(* remove_pending_proof_publication_if_unowned                              *)

Prune(p) ==
    /\ At(p, "prune") /\ LockFree
    /\ lock' = p
    /\ Goto(p, "pruneObject")
    /\ UNCHANGED <<Durable, node, moves>>

PruneObject(p) ==
    /\ At(p, "pruneObject")
    /\ IF HasLiveOwner \/ (pending = None /\ outbox = None)
       THEN lock' = None /\ Goto(p, proc[p].yes) /\ UNCHANGED outbox
       ELSE outbox' = None /\ Goto(p, "pruneRecord") /\ UNCHANGED lock
    /\ UNCHANGED <<task, artifact, pending, canonical, node, moves>>

PruneRecord(p) ==
    /\ At(p, "pruneRecord")
    /\ lock' = None
    /\ pending' = IF HasLiveOwner THEN pending ELSE None
    /\ Goto(p, proc[p].yes)
    /\ UNCHANGED <<task, artifact, canonical, outbox, node, moves>>

-----------------------------------------------------------------------------
(* A worker's publication.                                                  *)

\* acquire_task_execution_permit: an ordinary execution speaks for the
\* non-terminal roots, a publication retry for the completed ones as well.
PermitOwners(retrying) ==
    [r \in Roots |-> IF /\ task[r] # None
                        /\ task[r].status \in {"Allocated"} \cup
                               (IF retrying THEN {"Completed"} ELSE {})
                     THEN task[r].inc ELSE 0]

\* load_completed_proof: an active artifact, then the owned outbox, spare the
\* prover another run; a blob that differs from its intent is an error.
ActiveArtifact == artifact # None /\ artifact.life = "Active"

Recoverable == HasLiveOwner /\ outbox # None

Mismatch == Recoverable /\ outbox # pending.hash

ProofsAtHand ==
    CASE ActiveArtifact                    -> {artifact.desc.hash}
      [] ~ActiveArtifact /\ Recoverable    -> {outbox} \cap {pending.hash}
      [] ~ActiveArtifact /\ ~Recoverable   -> IF node.proof # None THEN {node.proof} ELSE cast.hashes

\* The execution has its permit and its proof, fresh or recovered, and the queue
\* has checkpointed the proof under the worker's lease.  A second worker starts
\* when the lease of the first one expired.
StartPublish(w) ==
    /\ ~Booting /\ At(w, "idle")
    /\ LET own == PermitOwners(node.proof # None)
       IN  /\ own # NoOwners
           /\ \E h \in ProofsAtHand :
                 /\ node' = [proof |-> h, lease |-> w]
                 /\ Become(w, [Idle EXCEPT !.pc = "checkpoint",
                                           !.hash = h, !.own = own])
    /\ UNCHANGED <<Durable, lock, moves>>

\* A permit nobody can own makes the engine drop the retained proof and the intent.
StartDetached(w) ==
    /\ ~Booting /\ At(w, "idle")
    /\ node.proof # None /\ PermitOwners(TRUE) = NoOwners
    /\ node' = [node EXCEPT !.lease = w]
    /\ TailCall(w, "invalidate", "drop", "keep")
    /\ UNCHANGED <<Durable, lock, moves>>

\* The end of an execution: the queue drops the proof (published or invalidated)
\* or keeps it for a retry.  A worker whose lease expired changes nothing there.
Settle(w) ==
    /\ proc[w].pc \in {"drop", "keep"}
    /\ node' = IF node.lease # w THEN node
               ELSE IF At(w, "drop") THEN NoNode ELSE [node EXCEPT !.lease = None]
    /\ Goto(w, "idle")
    /\ UNCHANGED <<Durable, lock, moves>>

\* checkpoint_completed_proof refreshes the permit before it writes an intent.
Checkpoint(w) ==
    LET own == CurrentOwners(proc[w].own) IN
    /\ At(w, "checkpoint")
    /\ IF own = NoOwners
       THEN TailCall(w, "invalidate", "drop", "keep")
       ELSE Become(w, [proc[w] EXCEPT !.pc = "intent", !.own = own])
    /\ UNCHANGED <<Durable, lock, node, moves>>

\* record_pending_proof_publication_intent
Intent(p) ==
    LET live   == LiveIncs(task)
        mine   == Incs(proc[p].own) \cap live
        theirs == IF pending = None THEN {} ELSE pending.owners \cap live
        same   == pending # None /\ pending.hash = proc[p].hash
    IN
    /\ At(p, "intent") /\ LockFree
    /\ \/ /\ mine = {}
          /\ Goto(p, Else(p, "drop"))
          /\ UNCHANGED <<lock, pending>>
       \/ /\ mine # {} /\ theirs # {} /\ ~same
          /\ Goto(p, Else(p, "keep"))
          /\ UNCHANGED <<lock, pending>>
       \/ /\ mine # {} /\ (theirs = {} \/ same)
          /\ pending' = [hash |-> proc[p].hash, owners |-> mine \cup (IF same THEN theirs ELSE {})]
          /\ lock' = p
          /\ Goto(p, "materialize")
    /\ UNCHANGED <<task, artifact, canonical, outbox, node, moves>>

\* materialize_pending_proof_publication: other bytes are deleted, then replaced.
Materialize(p) ==
    /\ At(p, "materialize")
    /\ IF outbox \in {None, proc[p].hash}
       THEN outbox' = proc[p].hash /\ Goto(p, "recheck")
       ELSE outbox' = None /\ UNCHANGED proc
    /\ UNCHANGED <<task, artifact, pending, canonical, lock, node, moves>>

\* Still the intent of this proof, with a live owner?
Recheck(p) ==
    /\ At(p, "recheck")
    /\ IF HasLiveOwner /\ pending.hash = proc[p].hash
       THEN lock' = None /\ Goto(p, IF p \in Workers THEN "publish" ELSE "commit")
       ELSE TailCall(p, "pruneObject", Else(p, "drop"), Else(p, "keep")) /\ UNCHANGED lock
    /\ UNCHANGED <<Durable, node, moves>>

\* publish_final_proof_artifact: any live root at the key lets the commit go on.
Publish(w) ==
    /\ At(w, "publish")
    /\ IF HasLiveTask THEN Goto(w, "commit") ELSE Call(w, "invalidate", "fail", "retry")
    /\ UNCHANGED <<Durable, lock, node, moves>>

\* commit_proof_artifact_publication: a pending cleanup fences the object write.
Commit(p) ==
    /\ At(p, "commit") /\ LockFree
    /\ IF artifact # None /\ artifact.life = "Invalidated"
       THEN Goto(p, Else(p, "retry")) /\ UNCHANGED lock
       ELSE lock' = p /\ Goto(p, "put")
    /\ UNCHANGED <<Durable, node, moves>>

\* An execution verifies what it committed; a request looks at what won.
Committed(p) == IF p \in Workers THEN "verify" ELSE "accept"

FreshGen ==
    CHOOSE g \in 1 .. MaxGen :
        /\ artifact # None => artifact.desc.gen # g
        /\ \A r \in Roots : task[r] # None /\ task[r].proof # None => task[r].proof.gen # g
        /\ \A q \in Procs : proc[q].desc # None => proc[q].desc.gen # g

\* put_if_absent on the canonical object: the first content wins.
Put(p) ==
    /\ At(p, "put")
    /\ IF canonical = None
       THEN LET new == [gen |-> FreshGen, hash |-> proc[p].hash]
            IN  /\ canonical' = new
                /\ Become(p, [proc[p] EXCEPT !.pc = "registerNew", !.desc = new])
       ELSE /\ Become(p, [proc[p] EXCEPT !.pc = "registerOld", !.desc = canonical])
            /\ UNCHANGED canonical
    /\ UNCHANGED <<task, artifact, pending, outbox, lock, node, moves>>

\* register_pending_proof_artifact
RegisterPending(desc) ==
    artifact' = IF artifact # None /\ (artifact.desc # desc \/ artifact.life = "Invalidated")
                THEN artifact
                ELSE [desc |-> desc,
                      life |-> IF HasLiveOwner THEN "Pending" ELSE "Invalidated"]

RegisterNew(p) ==
    LET desc == proc[p].desc IN
    /\ At(p, "registerNew")
    /\ RegisterPending(desc)
    /\ lock' = None
    /\ Goto(p, IF artifact' = [desc |-> desc, life |-> "Pending"] THEN Committed(p) ELSE Else(p, "retry"))
    /\ UNCHANGED <<task, pending, canonical, outbox, node, moves>>

\* An object somebody else created: known, recoverable through the outbox that
\* holds the same content, or an orphan to be cleaned up first.
RegisterOld(p) ==
    LET desc  == proc[p].desc
        known == Registered(desc, {"Pending", "Active"})
        found == /\ Recoverable /\ ~Mismatch /\ outbox = desc.hash
                 /\ Compatible(desc) /\ ~Registered(desc, {"Invalidated"})
    IN
    /\ At(p, "registerOld")
    /\ lock' = None
    /\ \/ /\ known
          /\ Goto(p, Committed(p))
          /\ UNCHANGED artifact
       \/ /\ ~known /\ found
          /\ RegisterPending(desc)
          /\ Goto(p, Committed(p))
       \/ /\ ~known /\ ~found
          /\ artifact' = IF ~Mismatch /\ Compatible(desc)
                         THEN [desc |-> desc, life |-> "Invalidated"] ELSE artifact
          /\ Goto(p, Else(p, "retry"))
    /\ UNCHANGED <<task, pending, canonical, outbox, node, moves>>

\* proof_artifact_descriptor_is_current
Verify(w) ==
    /\ At(w, "verify")
    /\ Goto(w, IF canonical = proc[w].desc THEN "sync" ELSE "fail")
    /\ UNCHANGED <<Durable, lock, node, moves>>

\* sync_proof_success takes the gate and refreshes the owners.
Sync(w) ==
    /\ At(w, "sync") /\ GateFree
    /\ IF CurrentOwners(proc[w].own) = NoOwners
       THEN Call(w, "invalidate", "fail", "retry")
       ELSE Become(w, [proc[w] EXCEPT !.pc = "activate", !.want = CurrentOwners(proc[w].own)])
    /\ UNCHANGED <<Durable, lock, node, moves>>

\* activate_proof_artifact_with_tasks: the artifact becomes readable and every
\* owning root is completed with exactly that descriptor, in one commit.
ActivationRefused(p) ==
    \/ pending = None
    \/ ~Registered(proc[p].desc, {"Pending", "Active"})
    \/ Registered(proc[p].desc, {"Pending"}) /\ pending # None /\ pending.hash # proc[p].desc.hash

Activate(w) ==
    LET desc   == proc[w].desc
        owners == Incs(proc[w].want)
        alive  == owners \cap LiveIncs(task)
        mine   == {r \in Roots : Live(task[r]) /\ task[r].inc \in owners}
        synced == {r \in mine \ Partial : \/ task[r].status = "Allocated"
                                          \/ task[r].exact /\ task[r].proof = desc}
        counted == synced \cup {r \in mine \cap Partial : task[r].status = "Allocated"}
        refused == ActivationRefused(w) \/ (alive # {} /\ alive # owners)
    IN
    /\ At(w, "activate") /\ LockFree
    /\ \/ /\ refused
          /\ Goto(w, "retry")
          /\ UNCHANGED <<task, artifact, pending>>
       \/ /\ ~refused /\ counted = {}
          /\ Call(w, "invalidate", "fail", "retry")
          /\ UNCHANGED <<task, artifact, pending>>
       \/ /\ ~refused /\ counted # {}
          /\ task' = [r \in Roots |-> IF r \in synced
                         THEN [task[r] EXCEPT !.status = "Completed", !.proof = desc, !.exact = TRUE]
                         ELSE task[r]]
          /\ artifact' = [artifact EXCEPT !.life = "Active"]
          /\ pending' = [pending EXCEPT !.owners = {}]
          /\ Become(w, [proc[w] EXCEPT !.pc = "prune", !.synced = synced, !.want = None,
                                       !.yes = "fence", !.no = "retry"])
    /\ UNCHANGED <<canonical, outbox, lock, node, moves>>

\* The completion is fenced against an invalidation that overtook it.
Fence(w) ==
    /\ At(w, "fence")
    /\ Goto(w, IF Registered(proc[w].desc, {"Active"}) THEN "drop" ELSE "fail")
    /\ UNCHANGED <<Durable, lock, node, moves>>

\* invalidate_failed_publication: the owning roots are cancelled, but a root that
\* some other publication completed keeps its proof.
Fail(w) ==
    LET mine    == {r \in Roots : Live(task[r]) /\ task[r].inc \in Incs(proc[w].own)}
        keeps   == {r \in mine : task[r].status = "Completed" /\ r \notin proc[w].synced}
        ends    == mine \ keeps
        after   == [r \in Roots |-> IF r \in ends
                       THEN [task[r] EXCEPT !.status = "Cancelled", !.proof = None, !.exact = FALSE]
                       ELSE task[r]]
        invalidate == mine # {} /\ keeps = {} /\ LiveIncs(after) = {}
    IN
    /\ At(w, "fail") /\ LockFree
    /\ task' = after
    /\ pending' = IF pending = None THEN None
                  ELSE [pending EXCEPT !.owners = @ \cap LiveIncs(after)]
    /\ artifact' = IF artifact # None /\ invalidate
                   THEN [artifact EXCEPT !.life = "Invalidated"] ELSE artifact
    /\ TailCall(w, IF invalidate THEN "invalidate" ELSE "prune", "drop", "drop")
    /\ UNCHANGED <<canonical, outbox, lock, node, moves>>

\* handle_proof_success: a retryable error starts another attempt or, after the
\* last one, leaves the proof to the queue.
Retry(w) ==
    /\ At(w, "retry")
    /\ Goto(w, "publish")
    /\ UNCHANGED <<Durable, lock, node, moves>>

GiveUp(w) ==
    /\ At(w, "retry")
    /\ Goto(w, "keep")
    /\ UNCHANGED <<Durable, lock, node, moves>>

-----------------------------------------------------------------------------
(* publish_active_proof_artifact_bytes: the request for an external          *)
(* aggregate publishes one of its inputs, through the same intent and        *)
(* commit, and activates it without completing the aggregate.                *)

StartInput(h, r) ==
    /\ Move /\ ~Booting /\ At(h, "idle")
    /\ cast.external /\ r \in Partial /\ task[r] # None /\ task[r].status = "Allocated"
    /\ \E hash \in cast.hashes :
          Become(h, [Idle EXCEPT !.pc = "intent", !.hash = hash,
                                 !.own = [NoOwners EXCEPT ![r] = task[r].inc]])
    /\ UNCHANGED <<Durable, lock, node>>

\* Other bytes won, or these are active already: the intent is given back.
Accept(h) ==
    LET desc == proc[h].desc IN
    /\ At(h, "accept")
    /\ Goto(h, IF desc.hash # proc[h].hash \/ Registered(desc, {"Active"})
               THEN "release" ELSE "activateInput")
    /\ UNCHANGED <<Durable, lock, node, moves>>

ActivateInput(h) ==
    /\ At(h, "activateInput") /\ LockFree
    /\ \/ /\ ActivationRefused(h)
          /\ Goto(h, "idle")
          /\ UNCHANGED <<artifact, pending>>
       \/ /\ ~ActivationRefused(h) /\ Incs(proc[h].own) \cap LiveIncs(task) = {}
          /\ TailCall(h, "invalidate", "idle", "idle")
          /\ UNCHANGED <<artifact, pending>>
       \/ /\ ~ActivationRefused(h) /\ Incs(proc[h].own) \cap LiveIncs(task) # {}
          /\ artifact' = [artifact EXCEPT !.life = "Active"]
          /\ pending' = [pending EXCEPT !.owners = {}]
          /\ TailCall(h, "prune", "idle", "idle")
    /\ UNCHANGED <<task, canonical, outbox, lock, node, moves>>

-----------------------------------------------------------------------------
(* Retention of the artifact: mark, delete exactly, forget.                 *)

StartRetainArtifact(h) ==
    /\ ~Booting /\ At(h, "idle") /\ LockFree
    /\ artifact # None
    /\ artifact.life = "Invalidated" \/ ~Referenced
    /\ artifact' = [artifact EXCEPT !.life = "Invalidated"]
    /\ Become(h, [Idle EXCEPT !.pc = "retainErase", !.desc = artifact.desc])
    /\ UNCHANGED <<task, pending, canonical, outbox, lock, node, moves>>

RetainErase(h) ==
    /\ At(h, "retainErase")
    /\ DeleteExact(h, "retainForget", "idle")
    /\ UNCHANGED <<task, artifact, pending, outbox, lock, node, moves>>

\* Start-up reconciliation also prunes the intent of what it removed.
RetainForget(h) ==
    LET current == Registered(proc[h].desc, {"Invalidated"}) IN
    /\ At(h, "retainForget") /\ LockFree
    /\ artifact' = IF current THEN None ELSE artifact
    /\ Goto(h, IF current /\ proc[h].boot THEN "prune" ELSE "idle")
    /\ UNCHANGED <<task, pending, canonical, outbox, lock, node, moves>>

-----------------------------------------------------------------------------
(* Retention of an intent nobody references any more:                       *)
(* finalize_pending_publication_retention and the removal of the record.    *)

StartRetainPending(h) ==
    /\ ~Booting /\ At(h, "idle")
    /\ pending # None /\ ~Referenced
    /\ Become(h, [Idle EXCEPT !.pc = "pendCheck", !.want = pending])
    /\ UNCHANGED <<Durable, lock, node, moves>>

StillUnreferenced(h) == pending = proc[h].want /\ ~Referenced

PendCheck(h) ==
    /\ At(h, "pendCheck") /\ LockFree
    /\ \/ /\ pending = None
          /\ Goto(h, "pendDrop")
          /\ UNCHANGED lock
       \/ /\ pending # None /\ ~StillUnreferenced(h)
          /\ Goto(h, "idle")
          /\ UNCHANGED lock
       \/ /\ pending # None /\ StillUnreferenced(h)
          /\ IF canonical # None /\ canonical.hash = pending.hash
             THEN /\ lock' = h
                  /\ Become(h, [proc[h] EXCEPT !.pc = "pendTake", !.desc = canonical])
             ELSE Goto(h, "pendObject") /\ UNCHANGED lock
    /\ UNCHANGED <<Durable, node, moves>>

\* prepare_pending_canonical_for_retention: an object no record speaks for gets an
\* invalidation; a pending or active registration keeps its object.
PendTake(h) ==
    LET desc == proc[h].desc IN
    /\ At(h, "pendTake")
    /\ lock' = None
    /\ artifact' = IF StillUnreferenced(h) /\ artifact = None
                   THEN [desc |-> desc, life |-> "Invalidated"] ELSE artifact
    /\ Goto(h, IF ~StillUnreferenced(h) THEN "idle"
               ELSE IF artifact = None \/ Registered(desc, {"Invalidated"})
               THEN "pendErase" ELSE "pendObject")
    /\ UNCHANGED <<task, pending, canonical, outbox, node, moves>>

PendErase(h) ==
    /\ At(h, "pendErase")
    /\ DeleteExact(h, "pendForget", "idle")
    /\ UNCHANGED <<task, artifact, pending, outbox, lock, node, moves>>

PendForget(h) ==
    LET current == Registered(proc[h].desc, {"Invalidated"}) IN
    /\ At(h, "pendForget") /\ LockFree
    /\ artifact' = IF current THEN None ELSE artifact
    /\ Goto(h, IF current THEN "pendObject" ELSE "idle")
    /\ UNCHANGED <<task, pending, canonical, outbox, lock, node, moves>>

PendObject(h) ==
    /\ At(h, "pendObject") /\ LockFree
    /\ outbox' = IF StillUnreferenced(h) THEN None ELSE outbox
    /\ Goto(h, IF StillUnreferenced(h) THEN "pendDrop" ELSE "idle")
    /\ UNCHANGED <<task, artifact, pending, canonical, lock, node, moves>>

PendDrop(h) ==
    /\ At(h, "pendDrop") /\ LockFree
    /\ pending' = IF StillUnreferenced(h) THEN None ELSE pending
    /\ Goto(h, "idle")
    /\ UNCHANGED <<task, artifact, canonical, outbox, lock, node, moves>>

-----------------------------------------------------------------------------
(* Faults.  A store or commit error ends the step that met it; a crash ends *)
(* every process.  An operation interrupted in flight took effect or not:   *)
(* the fault falls after or before its step.                                *)

AfterError(p) ==
    CASE p \in Handlers                                                      -> "idle"
      [] p \in Workers /\ proc[p].pc \in {"checkpoint", "intent", "materialize", "recheck"} -> "keep"
      [] p \in Workers /\ At(p, "fail")                                       -> "drop"
      [] p \in Workers /\ proc[p].pc \in {"publish", "commit", "put", "registerNew",
                             "registerOld", "verify", "sync", "activate", "fence", "retry"} -> "retry"
      [] OTHER                                                               -> proc[p].no

Error(p) ==
    /\ Move
    /\ proc[p].pc \notin {"idle", "retry", "drop", "keep"} /\ ~proc[p].boot
    /\ lock' = IF lock = p THEN None ELSE lock
    /\ Goto(p, AfterError(p))
    /\ UNCHANGED <<Durable, node>>

\* The new process reconciles an invalidation before it serves anything.
Crash(h) ==
    /\ Move
    /\ lock' = None
    /\ node' = NoNode
    /\ proc' = [p \in Procs |->
                  IF p = h /\ artifact # None /\ artifact.life = "Invalidated"
                  THEN [Idle EXCEPT !.pc = "retainErase", !.boot = TRUE, !.desc = artifact.desc]
                  ELSE Idle]
    /\ UNCHANGED <<Durable>>

-----------------------------------------------------------------------------
RootStep == \E r \in cast.roots :
    \/ Register(r) \/ CompleteFromArtifact(r) \/ CompleteElsewhere(r) \/ FailRoot(r) \/ RecoverRoot(r) \/ ExpireRoot(r)
    \/ \E h \in cast.handlers : Replace(h, r) \/ Cancel(h, r) \/ Retire(h, r) \/ StartInput(h, r)

SharedStep(p) ==
    \/ Intent(p) \/ Materialize(p) \/ Recheck(p)
    \/ Commit(p) \/ Put(p) \/ RegisterNew(p) \/ RegisterOld(p)
    \/ ReadCanonical(p) \/ Mark(p) \/ Erase(p) \/ Forget(p)
    \/ Prune(p) \/ PruneObject(p) \/ PruneRecord(p)

WorkerStep(w) ==
    \/ Checkpoint(w) \/ Publish(w) \/ Verify(w) \/ Sync(w) \/ Activate(w)
    \/ Fence(w) \/ Fail(w) \/ Retry(w) \/ GiveUp(w) \/ Settle(w) \/ SharedStep(w)

HandlerStep(h) ==
    \/ Accept(h) \/ ActivateInput(h) \/ RemoveTask(h) \/ Release(h) \/ Released(h) \/ RetainErase(h) \/ RetainForget(h)
    \/ PendCheck(h) \/ PendTake(h) \/ PendErase(h) \/ PendForget(h) \/ PendObject(h)
    \/ PendDrop(h) \/ SharedStep(h)

StartJob ==
    \/ \E w \in cast.workers : StartPublish(w) \/ StartDetached(w)
    \/ \E h \in cast.handlers : StartRetainArtifact(h) \/ StartRetainPending(h)

Fault == (\E p \in Procs : Error(p)) \/ (\E h \in cast.handlers : Crash(h))

Next ==
    /\ \/ RootStep \/ StartJob \/ Fault
       \/ \E w \in cast.workers : WorkerStep(w)
       \/ \E h \in cast.handlers : HandlerStep(h)
    /\ UNCHANGED cast

Spec == Init /\ [][Next]_vars

\* Workers and handlers are tokio tasks that run on; the engine executes what
\* has an owner, and the cleanup loop offers what may be reclaimed.  Strong
\* fairness where a step waits for a lock: tokio's mutex is first come, first served.
\* The attempts of one execution are counted, so it gives up at last.
Fairness ==
    /\ \A w \in Workers :
          /\ SF_vars(w \in cast.workers /\ WorkerStep(w) /\ UNCHANGED cast)
          /\ SF_vars(w \in cast.workers /\ GiveUp(w) /\ UNCHANGED cast)
          /\ WF_vars(w \in cast.workers /\ StartPublish(w) /\ UNCHANGED cast)
          /\ WF_vars(w \in cast.workers /\ StartDetached(w) /\ UNCHANGED cast)
    /\ \A h \in Handlers :
          /\ SF_vars(h \in cast.handlers /\ HandlerStep(h) /\ UNCHANGED cast)
          /\ SF_vars(h \in cast.handlers /\ StartRetainArtifact(h) /\ UNCHANGED cast)
          /\ WF_vars(h \in cast.handlers /\ StartRetainPending(h) /\ UNCHANGED cast)

FairSpec == Spec /\ Fairness

-----------------------------------------------------------------------------
(* Properties.                                                              *)

\* What a reader resolves through an active record is there, with its generation and
\* its content: no cleanup, however delayed, deletes the object of an active record.
ActiveIsReadable ==
    artifact # None /\ artifact.life = "Active" => canonical = artifact.desc

\* A root the activation commit completed keeps its proof for as long as it is
\* completed: neither invalidate_pending_proof_publication nor the retention jobs
\* take the record it points to, whatever other roots of the key do.
CompletedKeepsProof ==
    \A r \in Roots \ Partial : task[r] # None /\ task[r].status = "Completed" =>
        Registered(task[r].proof, {"Active"})

\* Every owner of an intent is a root that still exists: validate_runtime_state
\* would reject the state at the next load, and every later commit.
OwnersExist ==
    pending # None => pending.owners \subseteq {task[r].inc : r \in {q \in Roots : task[q] # None}}

\* The canonical object never differs from the registered one: a publication
\* waits for the cleanup of its predecessor (ProofArtifactCleanupPending), so the
\* exact delete and the conditional removal always speak of the same generation.
RegisteredIsCurrent ==
    artifact # None /\ canonical # None => canonical = artifact.desc

\* invalidate_failed_publication never cancels a root that still waits: a worker
\* gives a publication up only when its roots are gone or were completed.  (A root
\* reopened in its old incarnation is the exception, hence not in Reopened.)
NoSpuriousCancel ==
    \A w \in Workers : At(w, "fail") =>
        \A r \in Roots \ Reopened : ~(task[r] # None /\ task[r].status = "Allocated"
                             /\ task[r].inc \in Incs(proc[w].own))

\* A root keeps what it was promised: the three above.
RootsAreServed == CompletedKeepsProof /\ OwnersExist /\ NoSpuriousCancel

\* The registry tells the truth about the object it names: the two above.
RegistryIsTrue == ActiveIsReadable /\ RegisteredIsCurrent

Waiting(r) == task[r] # None /\ task[r].status = "Allocated"

\* A waiting root owns an intent without bytes.
BlobLost ==
    /\ outbox = None /\ pending # None
    /\ \E r \in Roots : Waiting(r) /\ task[r].inc \in pending.owners

\* An intent whose blob is missing gets one again, from the proof the queue kept or
\* from another run of the prover (checkpoint_pending_proof_publication's retry).
IntentRematerialized ==
    BlobLost ~> ~BlobLost

\* Nothing is left half done: no root waits, what was invalidated is reclaimed,
\* object and record, and the intent nobody references any more is gone, blob
\* included (finalize_pending_publication_retention).
Converged ==
    /\ \A r \in Roots \ Partial : ~Waiting(r)
    /\ artifact # None => artifact.life # "Invalidated"
    /\ pending # None => Referenced

=============================================================================
