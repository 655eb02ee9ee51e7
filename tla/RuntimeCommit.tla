--------------------------- MODULE RuntimeCommit ---------------------------
(***************************************************************************)
(* The authoritative commit path of RuntimeManager                         *)
(* (crates/runtime/src/lib.rs).  Every durable change of the runtime state *)
(* is one compare-and-swap of a single object: the caller clones the local *)
(* snapshot, applies its update, writes the result conditionally on the    *)
(* generation it knows, and installs the result locally only when the      *)
(* write is known to have happened.  The module models                     *)
(*                                                                         *)
(*  - mutate_authoritative with its three attempts, its ambiguous write    *)
(*    errors and their read-back, and the coherence it leaves behind;      *)
(*  - the readiness probe, which reloads a Recoverable snapshot and fails  *)
(*    the process closed when the generation moved by itself;              *)
(*  - draining: the namespace commit fence, the admission of provider      *)
(*    submissions, their checkpoint writes that bypass the fence, and the  *)
(*    deadline;                                                            *)
(*  - what the surroundings may do: a future dropped while its write is in *)
(*    flight, a request that takes effect after it was given up, another   *)
(*    process writing the object, a crash and a restart.                   *)
(*                                                                         *)
(* The runtime state is abstracted to how often each caller's update has   *)
(* been applied to it, together with the byte encoding it was written in   *)
(* (hash maps have no fixed serialization order).                          *)
(***************************************************************************)
EXTENDS Naturals, FiniteSets

CONSTANTS
    Mutators,     \* callers of mutate, and of the object store under the fence
    Submitters,   \* provider submissions, callers of mutate_checkpoint
    Foreign,      \* another process writing the same object
    Nobody,       \* no holder of the mutation lock
    Probe,        \* the readiness probe, as holder of the mutation lock
    Encodings,    \* byte orders in which one state may be serialized
    MaxAttempts,  \* MAX_ATTEMPTS of mutate_authoritative
    MaxLate,      \* bound: requests in flight after they were given up
    MaxForeign,   \* bound: writes by another process
    MaxRestarts,  \* bound: crashes
    Strays,       \* a given-up write may still take effect
    Deadlines     \* draining runs with a deadline

Callers == Mutators \cup Submitters

ASSUME RuntimeCommitAssumption ==
    /\ Mutators \cap Submitters = {}
    /\ Foreign \notin Callers
    /\ Nobody \notin Callers /\ Probe \notin Callers \cup {Nobody}
    /\ MaxAttempts \in Nat \ {0}
    /\ {MaxLate, MaxForeign, MaxRestarts} \subseteq Nat
    /\ {Strays, Deadlines} \subseteq BOOLEAN
    /\ Encodings # {}

VARIABLES
    remote,     \* the runtime-state object: generation (0 = absent), content
    local,      \* the installed snapshot and the generation it was read at
    coherence,  \* StateCoherence
    active, draining, accepting,
    permits,    \* submissions counted by SubmissionCheckpointAdmission
    readers,    \* holders of the commit fence for reading
    drain,      \* where begin_draining stands
    mutex,      \* holder of the mutation lock
    pc,         \* where each caller stands
    attempt,    \* attempt of the caller that holds the mutation lock
    write,      \* its request: expected generation and new content
    observed,   \* the object its conflicting write reported
    late,       \* requests nobody waits for any more
    acked,      \* callers whose update returned Ok (history)
    owed,       \* accepted submissions not given up since (history)
    strayed,    \* some write took effect behind the process's back (history)
    foreign,    \* writes by another process so far
    epoch       \* restarts so far

lifecycle == <<active, draining, accepting, drain>>
call == <<attempt, write, observed>>
requests == <<call, late>>
history == <<acked, owed, strayed>>
bounds == <<foreign, epoch>>
vars == <<remote, local, coherence, lifecycle, permits, readers, mutex, pc,
          requests, history, bounds>>

Contents == [val : [Callers \cup {Foreign} -> Nat], enc : Encodings]
Empty == [val |-> [c \in Callers \cup {Foreign} |-> 0],
          enc |-> CHOOSE e \in Encodings : TRUE]
NoWrite == [exp |-> 0, next |-> Empty]
Absent == [gen |-> 0, data |-> Empty]

Init ==
    /\ remote = Absent
    /\ local = Absent
    /\ coherence = "Coherent"
    /\ active = TRUE /\ draining = FALSE /\ accepting = TRUE
    /\ permits = {} /\ readers = {}
    /\ drain = "no"
    /\ mutex = Nobody
    /\ pc = [c \in Callers |-> "idle"]
    /\ attempt = 1 /\ write = NoWrite /\ observed = Absent
    /\ late = {}
    /\ acked = {} /\ owed = {}
    /\ strayed = FALSE
    /\ foreign = 0 /\ epoch = 0

-----------------------------------------------------------------------------
(* Guards the code evaluates.                                              *)

EnsureActive == active /\ ~draining /\ coherence = "Coherent"

CheckpointWriteAllowed == active /\ coherence # "Violated"

\* ensure_authoritative_write_allowed: a permit replaces the draining and
\* coherence checks by the weaker checkpoint check.
WriteAllowed(c) == IF c \in Submitters THEN CheckpointWriteAllowed
                                       ELSE EnsureActive

\* try_read succeeds unless a writer holds the fence or waits for it.
FenceOpen == drain \notin {"fence", "permits"}

\* A checkpoint never takes the fence.
FenceTaken(c) == IF c \in Submitters THEN readers ELSE readers \cup {c}
FenceAvailable(c) == c \in Submitters \/ FenceOpen

Apply(data, c) == [val |-> [data.val EXCEPT ![c] = @ + 1], enc |-> data.enc]
Applied(data, c) == data.val[c] > 0

At(c, p) == pc[c] = p
Goto(c, p) == pc' = [pc EXCEPT ![c] = p]

\* Leaving mutate_authoritative drops the fence guard and the lock guard.
Return(c, p) ==
    /\ Goto(c, p)
    /\ readers' = readers \ {c}
    /\ IF mutex = c
         THEN /\ mutex' = Nobody
              /\ attempt' = 1 /\ write' = NoWrite /\ observed' = Absent
         ELSE UNCHANGED <<mutex, call>>

\* A plain caller gets its error; a submission decides whether to retry.
ReturnErr(c) ==
    /\ Return(c, IF c \in Submitters THEN "unsynced" ELSE "idle")
    /\ UNCHANGED <<permits, acked, owed>>

ReturnOk(c) ==
    /\ Return(c, "idle")
    /\ acked' = acked \cup {c}
    /\ permits' = permits \ {c}
    /\ UNCHANGED owed

Install(data, gen) ==
    /\ local' = [gen |-> gen, data |-> data]
    /\ coherence' = "Coherent"

-----------------------------------------------------------------------------
(* Provider submissions: permit, acceptance, checkpoint (sp1, prover,      *)
(* engine observer).                                                       *)

\* acquire_submission_checkpoint_permit: ensure_active ...
PermitCheck(s) ==
    /\ At(s, "idle") /\ EnsureActive
    /\ Goto(s, "checking")
    /\ UNCHANGED <<remote, local, coherence, lifecycle, permits, readers,
                   mutex, requests, history, bounds>>

\* ... admission under its own lock, refused once it is closed ...
PermitAdmit(s) ==
    /\ At(s, "checking")
    /\ IF accepting
         THEN Goto(s, "admitted") /\ permits' = permits \cup {s}
         ELSE Goto(s, "idle") /\ UNCHANGED permits
    /\ UNCHANGED <<remote, local, coherence, lifecycle, readers, mutex,
                   requests, history, bounds>>

\* ... and ensure_active again, which drops the permit when it fails.
PermitRecheck(s) ==
    /\ At(s, "admitted")
    /\ IF EnsureActive
         THEN Goto(s, "submitting") /\ UNCHANGED permits
         ELSE Goto(s, "idle") /\ permits' = permits \ {s}
    /\ UNCHANGED <<remote, local, coherence, lifecycle, readers, mutex,
                   requests, history, bounds>>

\* request.request().await, or the resumption of a stored submission.
ProviderAccepts(s) ==
    /\ At(s, "submitting")
    /\ Goto(s, "checkpoint")
    /\ owed' = owed \cup {s}
    /\ UNCHANGED <<remote, local, coherence, lifecycle, permits, readers,
                   mutex, requests, acked, strayed, bounds>>

ProviderRefuses(s) ==
    /\ At(s, "submitting") /\ ~Applied(local.data, s)
    /\ Goto(s, "idle")
    /\ permits' = permits \ {s}
    /\ UNCHANGED <<remote, local, coherence, lifecycle, readers, mutex,
                   requests, history, bounds>>

\* persist_prover_progress after a failed on_progress: the failure is
\* retryable while checkpoint_failure_is_retryable, permanent otherwise.
CheckpointRetry(s) ==
    /\ At(s, "unsynced")
    /\ IF CheckpointWriteAllowed
         THEN Goto(s, "checkpoint") /\ UNCHANGED <<permits, owed>>
         ELSE /\ Goto(s, "idle")
              /\ permits' = permits \ {s}
              /\ owed' = owed \ {s}
    /\ UNCHANGED <<remote, local, coherence, lifecycle, readers, mutex,
                   requests, acked, strayed, bounds>>

-----------------------------------------------------------------------------
(* mutate_authoritative.                                                   *)

Entry(c) == IF c \in Submitters THEN "checkpoint" ELSE "idle"

\* ensure_authoritative_write_allowed, then the fence.
Enter(c) ==
    /\ At(c, Entry(c))
    /\ IF WriteAllowed(c) /\ FenceAvailable(c)
         THEN /\ Goto(c, "fenced")
              /\ readers' = FenceTaken(c)
         ELSE /\ c \in Submitters  \* a refused plain call changes nothing
              /\ Goto(c, "unsynced")
              /\ UNCHANGED readers
    /\ UNCHANGED <<remote, local, coherence, lifecycle, permits, mutex,
                   requests, history, bounds>>

\* ensure_authoritative_write_allowed once more, then wait for the lock.
Queue(c) ==
    /\ At(c, "fenced")
    /\ IF WriteAllowed(c)
         THEN Goto(c, "queued") /\ UNCHANGED <<readers, mutex, call, permits, acked, owed>>
         ELSE ReturnErr(c)
    /\ UNCHANGED <<remote, local, coherence, lifecycle, late, strayed, bounds>>

NeedsReload(c) == c \in Submitters /\ coherence = "Recoverable"

Lock(c) ==
    /\ At(c, "queued") /\ mutex = Nobody
    /\ mutex' = c
    /\ Goto(c, IF NeedsReload(c) THEN "reload" ELSE "ready")
    /\ UNCHANGED <<remote, local, coherence, lifecycle, permits, readers,
                   requests, history, bounds>>

\* reload_checkpoint_state_if_needed: a checkpoint recovers the snapshot an
\* earlier ambiguous write left behind; installing needs an active runtime.
Reload(c) ==
    /\ At(c, "reload")
    /\ \/ /\ active
          /\ Install(remote.data, remote.gen)
          /\ Goto(c, "ready")
          /\ UNCHANGED <<readers, mutex, call, permits, acked, owed>>
       \/ /\ ReturnErr(c)  \* unreadable store, or inactive
          /\ UNCHANGED <<local, coherence>>
    /\ UNCHANGED <<remote, lifecycle, late, strayed, bounds>>

\* One attempt: check, clone, update, and either return or issue the write.
Attempt(c) ==
    /\ At(c, "ready") /\ WriteAllowed(c) /\ ~Applied(local.data, c)
    /\ \E e \in Encodings :
          write' = [exp |-> local.gen,
                    next |-> [val |-> Apply(local.data, c).val, enc |-> e]]
    /\ Goto(c, "writing")
    /\ UNCHANGED <<remote, local, coherence, lifecycle, permits, readers,
                   mutex, attempt, observed, late, history, bounds>>

\* An update that changes nothing returns without a write.
NoOp(c) ==
    /\ At(c, "ready") /\ WriteAllowed(c) /\ Applied(local.data, c)
    /\ ReturnOk(c)
    /\ UNCHANGED <<remote, local, coherence, lifecycle, late, strayed, bounds>>

\* The lifecycle closed before anything was written.
Refused(c) ==
    /\ At(c, "ready") /\ ~WriteAllowed(c)
    /\ ReturnErr(c)
    /\ UNCHANGED <<remote, local, coherence, lifecycle, late, strayed, bounds>>

\* The update or validate_runtime_state rejects the change: a permanent
\* error, which also ends a submission (ProgressRejected).
Rejected(c) ==
    /\ At(c, "ready") /\ WriteAllowed(c) /\ ~Applied(local.data, c)
    /\ Return(c, "idle")
    /\ permits' = permits \ {c}
    /\ owed' = owed \ {c}
    /\ UNCHANGED <<remote, local, coherence, lifecycle, late, acked,
                   strayed, bounds>>

-----------------------------------------------------------------------------
(* The store: a conditional write applies, conflicts, or ends in an error  *)
(* that says nothing about whether it applied.                             *)

\* Mutant: the write carries no generation precondition.
MatchesAny(w) == TRUE

Matches(w) == w.exp = remote.gen
Commit(w) == remote' = [gen |-> remote.gen + 1, data |-> w.next]

StoreApplies(c) ==
    /\ At(c, "writing") /\ Matches(write)
    /\ Commit(write)
    /\ \E reply \in {"stored", "failed"} : Goto(c, reply)
    /\ UNCHANGED <<local, coherence, lifecycle, permits, readers, mutex,
                   requests, history, bounds>>

\* A conflict is reported with the object read after it; that read may fail.
StoreConflicts(c) ==
    /\ At(c, "writing") /\ ~Matches(write)
    /\ \/ Goto(c, "conflict") /\ observed' = remote
       \/ Goto(c, "failed") /\ UNCHANGED observed
    /\ UNCHANGED <<remote, local, coherence, lifecycle, permits, readers,
                   mutex, attempt, write, late, history, bounds>>

\* The request may still be under way when the caller gets its error.
MayStray == Strays /\ Cardinality(late) < MaxLate

StoreFails(c) ==
    /\ At(c, "writing")
    /\ Goto(c, "failed")
    /\ \/ UNCHANGED late
       \/ MayStray /\ late' = late \cup {write}
    /\ UNCHANGED <<remote, local, coherence, lifecycle, permits, readers,
                   mutex, attempt, write, observed, history, bounds>>

LateWrite ==
    /\ \E w \in late :
          /\ late' = late \ {w}
          /\ IF Matches(w) THEN Commit(w) /\ strayed' = TRUE
                           ELSE UNCHANGED <<remote, strayed>>
    /\ UNCHANGED <<local, coherence, lifecycle, permits, readers, mutex, pc,
                   attempt, write, observed, acked, owed, bounds>>

ForeignWrite ==
    /\ foreign < MaxForeign
    /\ foreign' = foreign + 1
    /\ Commit([exp |-> remote.gen, next |-> Apply(remote.data, Foreign)])
    /\ strayed' = TRUE
    /\ UNCHANGED <<local, coherence, lifecycle, permits, readers, mutex, pc,
                   requests, acked, owed, epoch>>

-----------------------------------------------------------------------------
(* mutate_authoritative after the store answered.                          *)

Answered == {"stored", "conflict", "failed"}

\* ensure_in_flight_write_allowed: whatever the answer, a lifecycle that
\* closed meanwhile leaves the snapshot Recoverable and the caller an error.
Closed(c) ==
    /\ pc[c] \in Answered /\ ~WriteAllowed(c)
    /\ coherence' = "Recoverable"
    /\ ReturnErr(c)
    /\ UNCHANGED <<remote, local, lifecycle, late, strayed, bounds>>

Stored(c) ==
    /\ At(c, "stored") /\ WriteAllowed(c)
    /\ Install(write.next, write.exp + 1)
    /\ ReturnOk(c)
    /\ UNCHANGED <<remote, lifecycle, late, strayed, bounds>>

\* install_recovered_runtime_state, or reject_foreign_runtime_state.
Conflict(c) ==
    /\ At(c, "conflict") /\ WriteAllowed(c)
    /\ IF observed.data = write.next
         THEN Install(write.next, observed.gen) /\ ReturnOk(c)
         ELSE coherence' = "Violated" /\ ReturnErr(c) /\ UNCHANGED local
    /\ UNCHANGED <<remote, lifecycle, late, strayed, bounds>>

\* Mutant: the error of the read-back is returned as it is.
ReadBackFailsQuietly(c) ==
    /\ At(c, "failed") /\ WriteAllowed(c)
    /\ ReturnErr(c)
    /\ UNCHANGED <<remote, local, coherence, lifecycle, late, strayed, bounds>>

ReadBackFails(c) ==
    /\ At(c, "failed") /\ WriteAllowed(c)
    /\ coherence' = "Recoverable"
    /\ ReturnErr(c)
    /\ UNCHANGED <<remote, local, lifecycle, late, strayed, bounds>>

\* Mutant: a generation that moved is taken for the write's success.
ReadBackMoved(c) ==
    /\ At(c, "failed") /\ WriteAllowed(c) /\ remote.gen # write.exp
    /\ Install(write.next, remote.gen)
    /\ ReturnOk(c)
    /\ UNCHANGED <<remote, lifecycle, late, strayed, bounds>>

\* The read-back shows the write, or an unchanged generation and another
\* attempt, or a state this process did not write.
ReadBackOwn(c) ==
    /\ At(c, "failed") /\ WriteAllowed(c) /\ remote.data = write.next
    /\ Install(write.next, remote.gen)
    /\ ReturnOk(c)
    /\ UNCHANGED <<remote, lifecycle, late, strayed, bounds>>

ReadBackUnchanged(c) ==
    /\ At(c, "failed") /\ WriteAllowed(c)
    /\ remote.data # write.next /\ remote.gen = write.exp
    /\ IF attempt < MaxAttempts
         THEN /\ attempt' = attempt + 1
              /\ Goto(c, "ready")
              /\ UNCHANGED <<coherence, readers, mutex, write, observed,
                             permits, acked, owed>>
         ELSE /\ coherence' = "Recoverable"
              /\ ReturnErr(c)
    /\ UNCHANGED <<remote, local, lifecycle, late, strayed, bounds>>

ReadBackForeign(c) ==
    /\ At(c, "failed") /\ WriteAllowed(c)
    /\ remote.data # write.next /\ remote.gen # write.exp
    /\ coherence' = "Violated"
    /\ ReturnErr(c)
    /\ UNCHANGED <<remote, local, lifecycle, late, strayed, bounds>>

-----------------------------------------------------------------------------
(* Objects of the proof store are written under the fence only.            *)

ObjectBegin(m) ==
    /\ At(m, "idle") /\ EnsureActive /\ FenceOpen
    /\ Goto(m, "object")
    /\ readers' = readers \cup {m}
    /\ UNCHANGED <<remote, local, coherence, lifecycle, permits, mutex,
                   requests, history, bounds>>

ObjectEnd(m) ==
    /\ At(m, "object")
    /\ Goto(m, "idle")
    /\ readers' = readers \ {m}
    /\ UNCHANGED <<remote, local, coherence, lifecycle, permits, mutex,
                   requests, history, bounds>>

-----------------------------------------------------------------------------
(* A dropped future: its guards and its permit are released wherever it    *)
(* was waiting; a request it had issued stays under way.  The engine drops *)
(* an execution whose lease was interrupted.                               *)

Suspended == {"submitting", "checkpoint", "unsynced", "queued", "reload",
              "writing", "stored", "failed"}

\* Its write happened, and nobody is left to install it.
Unseen(c) == pc[c] \in {"stored", "failed"} /\ remote.gen # local.gen

Abandon(c) ==
    /\ Strays /\ pc[c] \in Suspended
    /\ IF At(c, "writing")
         THEN \/ UNCHANGED late
              \/ MayStray /\ late' = late \cup {write}
         ELSE UNCHANGED late
    /\ strayed' = (strayed \/ Unseen(c))
    /\ Return(c, "idle")
    /\ permits' = permits \ {c}
    /\ owed' = owed \ {c}
    /\ UNCHANGED <<remote, local, coherence, lifecycle, acked, bounds>>

-----------------------------------------------------------------------------
(* check_readiness holds the mutation lock across its load.  Draining may  *)
(* begin meanwhile; the install only asks whether the runtime is active.   *)

ProbeBegin ==
    /\ active /\ ~draining /\ mutex = Nobody
    /\ mutex' = Probe
    /\ UNCHANGED <<remote, local, coherence, lifecycle, permits, readers, pc,
                   requests, history, bounds>>

ProbeEnd(becomes) ==
    /\ mutex = Probe /\ mutex' = Nobody
    /\ coherence' = becomes
    /\ UNCHANGED <<remote, lifecycle, permits, readers, pc, requests, history,
                   bounds>>

ProbeReloads ==
    /\ coherence = "Recoverable" /\ active
    /\ ProbeEnd("Coherent")
    /\ local' = remote

ProbeDetects ==
    /\ coherence = "Coherent" /\ remote.gen # local.gen
    /\ ProbeEnd("Violated")
    /\ UNCHANGED local

\* Nothing to report, nothing to be done, or an unreadable store.
ProbeQuiet == ProbeEnd(coherence) /\ UNCHANGED local

-----------------------------------------------------------------------------
(* Draining.                                                               *)

StartDraining ==
    /\ drain = "no"
    /\ draining' = TRUE
    /\ drain' = "closing"
    /\ UNCHANGED <<remote, local, coherence, active, accepting, permits,
                   readers, mutex, pc, requests, history, bounds>>

CloseAdmission ==
    /\ drain = "closing"
    /\ accepting' = FALSE
    /\ drain' = "closed"
    /\ UNCHANGED <<remote, local, coherence, active, draining, permits,
                   readers, mutex, pc, requests, history, bounds>>

\* The writer queues for the fence; from here on try_read fails.
AwaitFence ==
    /\ drain = "closed"
    /\ drain' = "fence"
    /\ UNCHANGED <<remote, local, coherence, active, draining, accepting,
                   permits, readers, mutex, pc, requests, history, bounds>>

TakeFence ==
    /\ drain = "fence" /\ readers = {}
    /\ drain' = "permits"
    /\ UNCHANGED <<remote, local, coherence, active, draining, accepting,
                   permits, readers, mutex, pc, requests, history, bounds>>

Deactivate(how) ==
    /\ active' = FALSE
    /\ drain' = how
    /\ UNCHANGED <<remote, local, coherence, draining, accepting, permits,
                   readers, mutex, pc, requests, history, bounds>>

\* Mutant: admitted submissions are not waited for.
DrainedEarly == drain = "permits" /\ Deactivate("clean")

Drained == drain = "permits" /\ permits = {} /\ Deactivate("clean")

DeadlineElapses ==
    Deadlines /\ drain \in {"fence", "permits"} /\ Deactivate("expired")

-----------------------------------------------------------------------------
(* A crash or the end of the process, and the next one's initialize.       *)

InFlight == {write : c \in {x \in Callers : At(x, "writing")}}

Restart ==
    /\ epoch < MaxRestarts
    /\ epoch' = epoch + 1
    /\ \/ UNCHANGED late
       \/ MayStray /\ late' = late \cup InFlight
    /\ local' = remote
    /\ coherence' = "Coherent"
    /\ active' = TRUE /\ draining' = FALSE /\ accepting' = TRUE
    /\ permits' = {} /\ readers' = {}
    /\ drain' = "no"
    /\ mutex' = Nobody
    /\ pc' = [c \in Callers |-> "idle"]
    /\ attempt' = 1 /\ write' = NoWrite /\ observed' = Absent
    /\ owed' = {}
    /\ strayed' = FALSE
    /\ UNCHANGED <<remote, acked, foreign>>

-----------------------------------------------------------------------------

Submission(s) ==
    \/ PermitCheck(s) \/ PermitAdmit(s) \/ PermitRecheck(s)
    \/ ProviderAccepts(s) \/ ProviderRefuses(s) \/ CheckpointRetry(s)

Mutation(c) ==
    \/ Enter(c) \/ Queue(c) \/ Lock(c) \/ Reload(c)
    \/ Attempt(c) \/ NoOp(c) \/ Refused(c) \/ Rejected(c)
    \/ Closed(c) \/ Stored(c) \/ Conflict(c)
    \/ ReadBackFails(c) \/ ReadBackOwn(c) \/ ReadBackUnchanged(c)
    \/ ReadBackForeign(c)

Store(c) == StoreApplies(c) \/ StoreConflicts(c) \/ StoreFails(c)

Draining ==
    \/ StartDraining \/ CloseAdmission \/ AwaitFence \/ TakeFence
    \/ Drained \/ DeadlineElapses

Next ==
    \/ \E s \in Submitters : Submission(s)
    \/ \E c \in Callers : Mutation(c) \/ Store(c) \/ Abandon(c)
    \/ \E m \in Mutators : ObjectBegin(m) \/ ObjectEnd(m)
    \/ ProbeBegin \/ ProbeReloads \/ ProbeDetects \/ ProbeQuiet
    \/ Draining
    \/ LateWrite \/ ForeignWrite \/ Restart

Spec == Init /\ [][Next]_vars

-----------------------------------------------------------------------------
(* Properties.                                                             *)

\* Type correctness.
TypeOK ==
    /\ remote \in [gen : Nat, data : Contents]
    /\ local \in [gen : Nat, data : Contents]
    /\ coherence \in {"Coherent", "Recoverable", "Violated"}
    /\ active \in BOOLEAN /\ draining \in BOOLEAN /\ accepting \in BOOLEAN /\ strayed \in BOOLEAN
    /\ permits \in SUBSET Submitters /\ readers \in SUBSET Mutators
    /\ drain \in {"no", "closing", "closed", "fence", "permits", "clean", "expired"}
    /\ mutex \in Callers \cup {Nobody, Probe}
    /\ pc \in [Callers -> {"idle", "checking", "admitted", "submitting",
                           "checkpoint", "unsynced", "fenced", "queued",
                           "reload", "ready", "writing", "stored", "conflict",
                           "failed", "object"}]
    /\ attempt \in 1 .. MaxAttempts
    /\ write \in [exp : Nat, next : Contents]
    /\ observed \in [gen : Nat, data : Contents]
    /\ late \in SUBSET [exp : Nat, next : Contents]
    /\ acked \in SUBSET Callers
    /\ owed \in SUBSET Submitters
    /\ foreign \in Nat /\ epoch \in Nat

\* An update whose caller got Ok is in the durable object for ever after,
\* and once: through the writes mutate_authoritative repeats after errors that
\* hide whether the first happened, through drains, crashes, other writers.
AckedDurable == \A c \in acked : remote.data.val[c] = 1

\* No write erases an update that is durable already, its own process's or
\* another's: each is made from the state it replaces.
KeepsUpdates ==
    \A c \in Callers \cup {Foreign} : remote.data.val[c] <= remote'.data.val[c]

\* While the snapshot counts as Coherent and no mutation runs, it is the
\* durable object - unless a write took effect behind the process's back.
CoherentIsCurrent ==
    coherence = "Coherent" /\ mutex = Nobody /\ ~strayed => local = remote

\* Refusing the namespace (Violated) needs such a write: none of the errors
\* mutate_authoritative meets on its own leads there.
ViolatedNeedsStray == coherence = "Violated" => strayed

\* What the process believes of its snapshot is so: the two above, for every
\* answer of the store that mutate_authoritative can meet.
CoherenceIsTrue == CoherentIsCurrent /\ ViolatedNeedsStray

\* Only another process makes this one refuse the namespace, as the messages
\* of check_readiness and reject_foreign_runtime_state say.
ViolatedMeansForeign == coherence = "Violated" => foreign > 0

\* A drain that ended cleanly left no accepted provider submission behind:
\* its checkpoint is durable, or the submission was given up before.
CleanDrainCheckpointed ==
    drain = "clean" => \A s \in owed : Applied(remote.data, s)

\* A Coherent snapshot moves only by the caller's own update: neither a
\* conflict nor a read-back ever adopts a state another writer produced.
OwnUpdateOnly ==
    coherence = "Coherent" /\ local' # local /\ epoch' = epoch
        => \E c \in Callers : local'.data.val = Apply(local.data, c).val

\* After a clean drain this process writes neither the state nor an object;
\* another process may, and a request given up before may still land.
QuietAfterDrain ==
    drain = "clean" /\ epoch' = epoch /\ foreign' = foreign /\ late' = late
        => remote' = remote /\ local' = local /\ readers' = {}

\* No step of a mutation, a probe, a drain or a restart erases a durable update,
\* adopts another writer's state as the process's own or writes after a clean
\* drain: the three above.
WritesAreSound == [][KeepsUpdates /\ OwnUpdateOnly /\ QuietAfterDrain]_vars
=============================================================================
