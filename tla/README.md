# Verification of raiko2

raiko2 turns proof requests into durable proofs. What makes that hard is less the proving than what surrounds it: one
process owns a namespace of durable state, runs proof stages that several requests share, pays remote provers for work
that must not be lost, publishes proofs to an object store, and may be cancelled, drained, killed and restarted at any
moment; and a guest has to accept exactly the inputs that are true. This directory holds TLA+ models of those parts, TLC
configurations that check them on small instances, and TLAPS proofs.

Paths are relative to the repository root. `PROJECT.json` lists for each definition the source lines it stands for, for
each property a small change of the model (a mutant) that violates it, and the hazards the properties are there for.

## 1. The system and its modules

A request reaches the API, is admitted, and registers or finds a *root* in the runtime state; its graph of tasks is
attached to the *execution projection*. A worker leases a ready stage (preflight, validation, proving, aggregation),
checkpoints its result, publishes the proof and completes the task; the root is Completed only when its proof is
registered and readable. Cancellation, failure and removal change the runtime state first and the projection second.
After a restart the projection is empty and is rebuilt when a client asks again.

| Part | Code | Module |
| --- | --- | --- |
| Task graph, owners, leases | `crates/queue` | `ExecutionProjection` |
| Single tasks, worker pool, clock | `crates/queue`, `crates/engine/src/worker.rs` | `Scheduler` |
| Runtime state: commit, drain, readiness, permits | `crates/runtime/src/lib.rs` | `RuntimeCommit` |
| Objects: what the store promises, and how the bucket adapter keeps it | `crates/runtime/src/artifact_store` | `ProofObjectStore`, `GcsProofArtifactStore` |
| Publication and reclamation of a proof | `crates/runtime`, `server/lifecycle.rs`, `server/state/runtime_observer.rs` | `ProofPublication` |
| Roots, engine and queue together; status answers | `crates/engine`, `server/proof_api.rs`, `server/lifecycle.rs` | `ProofRoots`, `ProofStatus` |
| A root's stored metadata and the request rebuilt from it | `server/state`, `server/proof_api.rs` | `ProofStages` |
| Cleanup loop | `server/task_cleanup.rs` | `Retention` |
| Start-up, readiness, shutdown | `bin/raiko2/src/server` | `ServerLifecycle` |
| Configuration, chain tables, admission | `crates/primitives`, `bin/raiko2/src` | `Configuration`, `Admission` |
| Paid SP1 requests, and the poller that watches them | `crates/prover/src/sp1`, `crates/remote-poller` | `Sp1Network`, `RemotePoller` |
| Preflight, its cache, derivation, guest checks | `crates/pipeline`, `crates/protocol`, guests | `ShastaPreflight`, `PreflightCache`, `ShastaGuest`, `ShastaPrimitives` |
| Providers, witness, stateless replay | `crates/provider`, `crates/stateless` | `ChainProvider`, `WitnessReplay`, `StatelessValidation`, `SparseTrie`, `MptMetrics` |
| Prover backends and aggregation | `crates/prover`, guests, SGX runtime | `Proving` |
| Tools | `xtask`, `bin/guest-launcher` | `GuestRelease`, `TeeRelease`, `LatestProposal`, `GuestBench` |

`MC*` modules choose small instances; `*Inv` and `*Proofs` modules hold proofs.

How the state and the actions of the central modules correspond to the code:

* **ExecutionProjection.** `status`, `def`, `owners`, `tasks_by_owner`, `dependents`, `remaining`, `attempt`, `token`,
  `payload`, `ready`, `scheduled`, and each worker's local lease. Every operation that holds the store's mutex is one
  action; `next_ready` holds it twice and is two. Time is left out: a lease may be found expired and a retry due at any
  moment, which includes every clock. Tokens are compared for equality only, so one that nobody holds may be reused.
* **RuntimeCommit.** The durable object (`remote`), the `local` snapshot and its `coherence`, `active`, `draining`, permits,
  fence readers, the mutation lock, requests in flight (`late`), and a program counter per caller. The state itself is
  abstracted to how often each caller's update was applied, plus an encoding, because the code decides by bytes and by
  generation. A write may succeed with a lost answer, fail, land after its caller gave up or be cut by a dropped
  future; another process may write; the process may crash and start again.
* **ProofPublication.** The roots' records, the artifact record, the publication intent, its blob, the canonical manifest,
  the keyed lock, and each process's program counter. Every await is a step boundary, and a crash or a failing call
  may follow any step. A canonical put that lands after a crash is left to `GcsProofArtifactStore`.
* **GcsProofArtifactStore.** The bucket (objects with generations and metadata), requests that were given up but may still
  be served, and each client's call with the request it is at. Put, read and exact delete of proofs, pending blobs and
  preflight entries are the sequences of conditional requests the adapter makes. Calls overlap freely: nothing keeps two
  clients from changing one proof at a time, because the deletes that finalize an invalidation take no lifecycle guard.
* **ProofRoots, ProofStatus.** A commit of the runtime state is one step here, an operation of the projection another, and
  so is each of the reads a status call puts together without a lock. The execution-lifecycle gate is a variable that a
  holder keeps over several steps.
* **Sp1Network, RemotePoller.** A run loads the newest checkpoint of all retained roots, resumes or submits, writes the
  identifier to every active owner, waits, and replaces a request that ended without a proof. The poller is an actor with
  a command channel, tracked submissions, polls in flight and waiters; deadlines pass at any moment.
* **Scheduler, Retention.** The two modules with a clock. `Scheduler` keeps what is left of each timer, and of each failed
  execution which policy decides about its retry: the task's own, or the coordination policy of a refused permit or an
  unrecorded output. `Retention` keeps timestamps, because its cursors order records by them. A registration gives a task
  id a new incarnation, so that a pass can meet the successor of the record it selected. That an orphan cannot be removed
  is a fault that ends: a failure that lasted would stop each pass at the same place (`task_cleanup.rs:332`) and starve the
  lanes behind it, and `NothingStarves` says nothing of it.
* **ServerLifecycle.** Engines with their supervised tasks, the execution-lifecycle gate, the phases of a graceful shutdown
  with their limits, and the probe of readiness. The gate records its holder: a request that writes the runtime state
  and attaches (`attach`, `replace`, `cancel`), a worker that stores a checkpoint, or the cleanup; each keeps it until the
  store answers, which it may never do.
* **GuestRelease.** The worktree, the output directories of both RISC0 toolchains, the layer cache, the registry and the
  verifier contract. The history variable `doubtful` holds the outcomes that a build recorded without having compiled
  the inputs it recorded, see section 5.
* **ShastaPreflight, WitnessReplay, Proving, Admission.** One step per answer received, with the ways an answer can be
  wrong as alternatives; the checks are operators over the answers. Hashes are injective constructors.

## 2. Runs

A run asks one question, often of several components: the variable `area` says which component a behaviour is about,
and the others stand still, so that no product of unrelated states is explored. Within an area `cast` (or `scene`)
chooses in `Init` who takes part and what may go wrong, and no step changes it. Numbers are distinct states.

| Run | Areas | States | Shows |
| --- | --- | --- | --- |
| `projection` | projection | 595k | `OwnershipSound`, `RunnableAfterDependencies`, `NothingForgotten`, `LeaseExclusive`, `DetachIsolated`: sharing leaks nothing from one root to another, nothing runnable is lost, one lease at a time can finish a task |
| `commit` | runtime state | 549k | `AckedDurable`, `CoherenceIsTrue`, `CleanDrainCheckpointed`, `WritesAreSound`: what was acknowledged is durable, once; a Coherent snapshot is current; a clean drain loses no submission; no write erases or adopts another's |
| `providers` | network, poller, publication | 1.05M | `OneRequest`, `AwaitedIsDurable`, `AnswersAreSound`, `PaymentsAreSound`, `RegistryIsTrue`, `RootsAreServed`: one pending request per stage, its identifier durable before anyone waits for it, limits kept, waiters told the truth; an active artifact is readable and current, a completed root keeps its proof, nobody who waits is cancelled |
| `requests` | roots and status, admission, stages | 232k | `RootsAreSound`, `HostMatchesGuest`, `AdmissionIsSound`, `RecordsSurvive`, `RecordsAdvance`, `AnswersAreTrue`: see the comments of `MCRequests` |
| `pipeline` | object store, preflight, release, TEE release, proposal search, bench | 292k | `RecordedIsReadable`, `RefinesStore`, `AcceptedIsTrue`, `HonestSucceeds`, `ToolsAreSound`: the adapter implements the store; preflight accepts what is true and refuses nothing that is; tools call nothing current, published or trusted that is not |
| `proofs` | witness, trie accounting, provers, providers | 205k | `ReplayIsTrue`, `HonestWorkPasses`, `AggregatesAreTrue`, `HashWorkIsCharged`, `AnswersLineUp`: a replay accepts one state root only, aggregates are what the contract accepts, every hash is charged, answers meet their questions |
| `process` | server, retention, roots, publication | 120k | `DrainSeals`, `ReadyIsServing`, `ShutdownEnds`, `NothingStarves`, `OnlyExpiredLeave`, under fairness: nothing enters a draining queue, a signal ends the process unless it waits for a store that never answers, and no record leaves before it, and not its predecessor, expired |
| `progress` | poller, cache, scheduler | 184k | `OnlyValidated`, `GoneAreForgotten`, `WorkIsKept`, `WaitersEnd`, under fairness: a submission nobody waits for any more is not kept, a good cache entry, a lease renewed on time and the delay of a retry are, and whoever waits is answered |
| `commit_own_stray`, `publication_lost_blob`, `sp1_overlap`, `guest_stale` | | | violations, section 5 |

**Bounds.** Two owners and a graph with an edge give the sharing patterns of two roots; two workers give a lease and a
stale one. One artifact key suffices for publication, since no invariant relates two keys; two roots give every relation
of a publisher to a co-owner. `mutate_authoritative` makes three attempts, and so does the model; the number of foreign
writes, late writes and restarts is bounded to what makes each of them meet each step of a commit. Incarnations and
generations only have to exceed what one instance can hold at once, since identities nobody refers to are reused. Three
paid requests give an original, a replacement and one beyond the limit. The clocks of `Scheduler` and `Retention` run over
two lease lengths and both retention limits. A cast of `Retention` says how often each task id is registered: once, and in
one cast again after its removal, with time enough for the successor to end and expire while a pass is at the older one. Numbers in the admission and derivation models are small, with the
constants of the code scaled so that each limit can be met, missed by one and exceeded; unsigned subtraction and 48-bit
fields keep their widths as the constants `MaxU64`, `MaxU48`. Casts bound the calls and faults of one behaviour, one
to four each; each fault is in some cast together with each call it can disturb.

**Symmetry** is used where the elements of a set are interchangeable and only invariants or action properties are
checked.

**Deadlock** is not checked where the system may rightly stop: after a drain or a shutdown, when every waiter was
answered, and where a bound on calls ends the requests.

**Fairness.** Weak fairness of the steps of processes that the code runs without waiting for a client: tokio polls a
ready task, intervals tick, timeouts fire, supervisors restart what died. In `process`, the worker and the handler of the
roots and of the publication saga get strong fairness: their steps are disabled now and then, by the gate, the keyed lock
or a fault, and the queue and the client's repeated request bring them back (README.md of the repository, invariant 12).
The shutdown of the server gets it too: it takes the gate that requests, workers and the cleanup pass on between them, a
Tokio mutex, which serves those who wait in their order. Not even that helps while the holder waits for the runtime
store, since no deadline bounds this wait (`run.rs:47` waits for the gate before its phases begin); so `ShutdownEnds` says
that the process exits after a signal unless from some moment on a holder of the gate waits for the store for ever.
That faults end is a bound of the casts. Calls of clients, faults, crashes and answers of providers get no fairness.

## 3. Proofs

Eight modules hold theorems; all hold for every value of the constants that satisfies the named assumptions, which TLC
evaluates in the runs.

**Execution projection** (`ExecutionProjectionInv`, `ExecutionProjectionProofs`): for any tasks, owners, workers and tokens, any
acyclic graphs and any retry limit, `TypeCorrect`, `OwnershipSafe`, `DependenciesFirst`, `NoTaskForgotten`,
`OneCurrentLease`, `ResetNeverPanics` (the `unreachable!` of `reset_attached_terminal_nodes` is one), and the action
properties `DetachIsIsolated`, `SuccessIsFinal`, `CheckpointIsKept`. The inductive invariant `IInv` has two halves. One is about
who owns what: the two ownership indexes are inverse to each other, the dependencies of an owned task have its owners, a
live task has an owner, an owned task is not Cancelled. It needs graphs to be closed and acyclic, which
`validate_graph` checks. The other is about pending work: the counter of a pending task is the number of its
dependencies that list it, a ready task has a queue entry or a worker between pop and take, the schedule holds exactly the retrying
tasks, no two workers hold the same token, and the holder of the current lease has the record's payload. It needs the first.

**Runtime state** (`RuntimeCommitInv`, `RuntimeCommitProofs`): for any callers, encodings, attempts, and any number of foreign
and late writes and restarts, `AcknowledgedIsDurable`, `CoherenceHolds`, `CleanDrainKeepsSubmissions` and `WritesSound`. None of
the properties is inductive: whether an acknowledgement is justified depends on what the caller knew when it sent its
write. The invariant `Inv` therefore relates each program counter to the write it prepared (`Prepared`: the write is the
snapshot with one update more, at the snapshot's generation), and each version anyone holds (the snapshot, a stored
answer, an observed object) to the durable object: `PastOf(x, remote)`, its generation is not newer, at equal generations it
is the same object, and no update in it is missing from the durable one. A write in flight `FitsOf` the object: if it still
matches, it adds one update that is not there yet. Both relations survive every change of the object (`PastStays`,
`FitsStays`). Around it are the lock and the fence (`Locked`, `Fenced`, `Permitted`, `Owing`), which give the drain, and `Current`,
which says what the snapshot can be while nobody wrote behind the process's back; from it `CoherenceIsTrue` follows.
`CalmStep` splits every step into the few actions that touch this state and those that do not.

**Object store** (`GcsProofArtifactStoreInv`, `GcsProofArtifactStoreProofs`): `AdapterRefinesStore`, that the adapter's requests implement the atomic
calls of `ProofObjectStore`, and `ContentBeforeManifest`, that no manifest names content that is missing, for any keys,
contents and clients and any number of failed and late requests, stops and sweeps, and whichever calls overlap. A call takes effect where its deciding
conditional request is served, which for a request given up may be after the call returned. The invariant says what each
point of a call has established: a call that publishes a manifest has its content in the bucket, a late creation too, and
a descriptor that a deletion names is of the object that is there whenever the generations agree.

**Preflight cache** (`PreflightCacheProofs`): `CacheHandsOutValidated` (no caller is handed a core that fails validation)
and `GoodEntriesStay` (the removal of an unusable entry spares the one that replaced it), for any callers, processes and
cores and any number of faults. A waiter copies the state of the flight it joined, so the invariant is about what a leader
may put there: a core it validated, or the one it built (`Kept`); and the entry a leader is about to delete is gone or
still the unusable one it read, since generations are given once (`Condemned`).

**Server** (`ServerLifecycleProofs`): `DrainSealsQueues` (once draining has begun no execution graph enters an engine's
queue) and `ReadyMeansServing` (readiness is answered "ok" only while the supervisors of every engine are alive, and never
to a probe that came after draining had begun), for any deployment and any requests, panics and flapping nodes. `Gated`
says that a request between its check of the drain and its attachment holds the gate, under its own name, and that
draining has not begun; `begin_shutdown` takes the gate, so it comes before the check or after the attachment. A
probe's checks and a request's steps are made one after the other while the shutdown goes on; the invariant says what
each of them has still to check.

**Only model-checked.** Liveness (`ShutdownEnds`, `NothingStarves`, `WaitersEnd`) is out of the prover's reach. So are
properties of recursive definitions: tries, derivation, batching, aggregation trees, cursors and retry delays
(`ReplayIsTrue`, `HashWorkIsCharged`, `AcceptedIsTrue`, `HonestSucceeds`, `AggregatesAreTrue`, `HonestWorkPasses`, `AnswersLineUp`,
`AdmissionIsSound`, `HostMatchesGuest`, `RecordsSurvive`, `RecordsAdvance`, `OnlyExpiredLeave`, `WorkIsKept`), whose modules use
folds and recursive operators over sequences. The invariants of `ProofPublication`, `ProofRoots`, `ProofStatus`, `Sp1Network` and
`RemotePoller` and of the tools have no theorem yet: `RegistryIsTrue`, `RootsAreServed`, `RootsAreSound`, `AnswersAreTrue`, `OneRequest`,
`AwaitedIsDurable`, `AnswersAreSound`, `PaymentsAreSound`, `GoneAreForgotten`, `ToolsAreSound`. `RecordedIsReadable` is about casts of
clients that keep the runtime's discipline (no deletion of a key the state records), so it is no property of the store
alone.

## 4. What the parts assume of each other

`ProofPublication`, `ProofRoots` and `Retention` take a commit of the runtime state to be atomic; `RuntimeCommit` proves
what that rests on. They take the object store to be that of `ProofObjectStore`; `AdapterRefinesStore` proves it of the
bucket adapter. `ProofRoots` takes an operation of the projection to be atomic, which is what `ExecutionProjection` models,
and the publication of a proof to be one step, which `ProofPublication` opens. `RuntimeCommit` starts from an object that
the process itself wrote or loaded: that nobody resets the namespace under a running process is assumed, as the comment
in `crates/runtime/src/lib.rs` (lines 881-882) and CONCEPTS.md:32 state it.

## 5. Findings

1. `commit_own_stray`: a lease that ends while a checkpoint write is in flight drops the future between the store's
   commit and the local install; the next readiness probe then refuses the namespace as if another process had written.
2. `publication_lost_blob`: after a crash between an intent and its blob, a rerun that produces other bytes is refused
   by the intent of its own root.
3. `sp1_overlap`: a checkpoint goes only to the owners active when it is written; with overlapping runs a cancelled root
   and its successor remember different requests for one attempt, and later runs are refused.
4. `guest_stale`: the export of the RISC0 guests takes the toolchain image's directory before that of cargo-risczero,
   whichever the build wrote; after a build in the image, an edit and a local build, the old programs are recorded with the
   new sources, and `build-guest --check` calls them current. `ToolsAreSound` therefore speaks of builds that are not
   `doubtful`, and the run of the violation of all.

Also seen, without a run: a wait for an SP1 request that was not a resume ends at its deadline without a last look at
the status, so that a request fulfilled at that moment is replaced; and
`reconcile_unowned_pending_proof_publications` is called by tests only.

## 6. Not modelled

EVM execution, RLP and wire formats, Keccak and the proof systems themselves, sealing and attestation, the crypto shims
of the guests: computation without shared state, external to the models. Telemetry, the RPC proxy (whose recording
database is that of `crates/provider`; the copies in its own directory are not compiled), the test harness, and the
reading of files, environment and flags. Of a proof made elsewhere, admission is
modelled in the fields it looks for and the chain it compares. The sorted acquisition of several lifecycle locks and the weak map that holds them are left out: each model
has one key. There is no liveness run for `RuntimeCommit`: that a drain ends and a recoverable snapshot is repaired rests
on a store that does not fail for ever, and is left to the code's deadlines. `PROJECT.json` lists each part with its
reason.
