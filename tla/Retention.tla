------------------------------ MODULE Retention ------------------------------
(***************************************************************************)
(* The cleanup loop of the server (task_cleanup.rs) over the runtime state *)
(* (raiko2-runtime): passes that warn about overdue work, cancel orphans,  *)
(* and drain three lanes of expired roots, unowned artifacts and unowned   *)
(* publication intents.  A lane reads fresh records page by page behind a  *)
(* cursor and shares each batch with a bounded queue of failed identities. *)
(* Requests register, recover, roll back and finish roots between any two  *)
(* steps of a pass.  What one deletion does to the object store is the     *)
(* subject of ProofPublication; here it succeeds, fails, or finds that its *)
(* record has changed.                                                     *)
(***************************************************************************)
EXTENDS Integers, Sequences, FiniteSets, SequencesExt

CONSTANTS Tasks,            \* task ids, numbered in their lexicographic order
          Keys,             \* artifact keys, numbered likewise
          KeyOf,            \* KeyOf[t]: the artifact that task t references
          Casts,            \* the situations a run starts from
          terminal_ttl_secs, orphan_ttl_secs,
          MaxTime,          \* bound on the clock
          MaxFaults         \* bound on the transient failures

VARIABLES cast,       \* the situation; constant
          now,        \* now_ts()
          tasks,      \* RuntimeState.tasks
          artifacts,  \* RuntimeState.artifacts: lifecycle and generation
          pending,    \* RuntimeState.pending_publications: owner incarnations
          lanes,      \* the three RetentionLaneState of the loop
          cursors,    \* orphan_cursor and overdue_active_cursor
          observed,   \* overdue_active_observations
          pass,       \* where the pass is, and what it holds
          born,       \* the lifetimes each id has had
          rollback,   \* the record a recovery in flight would restore
          faults,     \* transient failures so far
          moves       \* operations of requests so far

env == <<cast, now, born, rollback, moves>>
state == <<tasks, artifacts, pending>>
loop == <<lanes, cursors, observed, pass>>
vars == <<cast, now, tasks, artifacts, pending, lanes, cursors, observed, pass,
          born, rollback, faults, moves>>

NoTask == [inc |-> 0]
Terminal == {"Completed", "Failed", "Cancelled"}

is_terminal(status) == status \in Terminal
lifetime(t) == <<t, tasks[t].inc>>

\* The place of a record in the order of its listing; 0 is no cursor.
ExpiredTaskCursor(t) == 10 * (tasks[t].updated_at + 1) + t
KeyCursor(k) == k

----------------------------------------------------------------------------
\* The listings of the runtime repository.

\* The first n members of S in the order of Rank.
FirstPage(S, n, Rank(_)) ==
  LET Place(x) == Cardinality({y \in S : Rank(y) <= Rank(x)})
      size == IF n < Cardinality(S) THEN n ELSE Cardinality(S)
  IN  [i \in 1 .. size |-> CHOOSE x \in S : Place(x) = i]

PastTtl(t, ttl) == ttl > 0 /\ tasks[t] # NoTask /\ tasks[t].updated_at <= now - ttl

list_tasks_matching(ttl, after, limit, terminal) ==
  FirstPage({t \in Tasks : /\ PastTtl(t, ttl)
                           /\ is_terminal(tasks[t].status) = terminal
                           /\ ExpiredTaskCursor(t) > after},
            limit, ExpiredTaskCursor)

list_expired_terminal_tasks(ttl, after, limit) == list_tasks_matching(ttl, after, limit, TRUE)
list_stale_nonterminal_tasks(ttl, after, limit) == list_tasks_matching(ttl, after, limit, FALSE)

get_expired_terminal_task(life) ==
  /\ PastTtl(life[1], terminal_ttl_secs)
  /\ tasks[life[1]].inc = life[2]
  /\ is_terminal(tasks[life[1]].status)

has_artifact_owner(k) == \E t \in Tasks : tasks[t] # NoTask /\ KeyOf[t] = k

artifact_is_reclaimable_for_retention(k) ==
  artifacts[k].lifecycle = "Invalidated" \/ ~has_artifact_owner(k)

get_reclaimable_proof_artifact(k) ==
  artifacts[k].lifecycle # "None" /\ artifact_is_reclaimable_for_retention(k)

list_reclaimable_proof_artifacts(after, limit) ==
  FirstPage({k \in Keys : k > after /\ get_reclaimable_proof_artifact(k)}, limit, KeyCursor)

get_reclaimable_pending_publication(k) == pending[k].present /\ ~has_artifact_owner(k)

list_reclaimable_pending_publications(after, limit) ==
  FirstPage({k \in Keys : k > after /\ get_reclaimable_pending_publication(k)}, limit, KeyCursor)

----------------------------------------------------------------------------
\* The retry queue and the lane that shares its batch with it.

enqueue(queue, identity) ==
  IF identity \in Range(queue) \/ Len(queue) >= cast.retry_identities
  THEN queue ELSE Append(queue, identity)

acknowledge(queue, gone) == SelectSeq(queue, LAMBDA i : i \notin gone)

peek_excluding(queue, limit, excluded) ==
  LET open == SelectSeq(queue, LAMBDA i : i \notin excluded)
  IN  SubSeq(open, 1, IF limit < Len(open) THEN limit ELSE Len(open))

\* Mutant: retries are always served before anything fresh.
RetriesFirst(lane, total) ==
  LET retry == IF Len(lane.retries) < total THEN Len(lane.retries) ELSE total
  IN  [retry |-> retry, fresh |-> total - retry, prefer |-> lane.prefer_retry]

budgets(lane, total) ==
  CASE total = 0 \/ lane.retries = <<>> ->
         [retry |-> 0, fresh |-> total, prefer |-> lane.prefer_retry]
    [] total = 1 /\ lane.retries # <<>> ->
         [retry  |-> IF lane.prefer_retry THEN 1 ELSE 0,
          fresh  |-> IF lane.prefer_retry THEN 0 ELSE 1,
          prefer |-> ~lane.prefer_retry]
    [] OTHER ->
         [retry |-> total \div 2, fresh |-> total - total \div 2, prefer |-> lane.prefer_retry]

\* The retries that still name a reclaimable record, and the queue without the
\* ones that no longer do.
Loaded(queue, selected, Current(_)) ==
  [items |-> SelectSeq(selected, Current),
   queue |-> acknowledge(queue, {i \in Range(selected) : ~Current(i)})]

load_root_retries(queue, limit, excluded) ==
  Loaded(queue, peek_excluding(queue, limit, excluded), get_expired_terminal_task)
load_artifact_retries(queue, limit, excluded) ==
  Loaded(queue, peek_excluding(queue, limit, excluded), get_reclaimable_proof_artifact)
load_pending_retries(queue, limit, excluded) ==
  Loaded(queue, peek_excluding(queue, limit, excluded), get_reclaimable_pending_publication)

NextCursor(lane, page, capacity, Rank(_)) ==
  CASE page # <<>> -> Rank(page[Len(page)])
    [] page = <<>> /\ capacity > 0 -> 0
    [] OTHER -> lane.fresh_cursor

\* What is left of a batch once the first retries and the page are known.
Filled(lane, prefer, first, fresh, cursor, Load(_, _, _)) ==
  LET extra == Load(first.queue, cast.batch - Len(first.items) - Len(fresh), Range(first.items))
  IN  [batch |-> first.items \o extra.items \o fresh,
       lane  |-> [fresh_cursor |-> cursor, retries |-> extra.queue, prefer_retry |-> prefer]]

\* The page minus what the retry queue already holds.
Unqueued(page, first, Id(_)) ==
  SelectSeq([i \in 1 .. Len(page) |-> Id(page[i])],
            LAMBDA i : i \notin Range(first.items) /\ i \notin Range(first.queue))

Paged(lane, share, first, capacity, page, Id(_), Rank(_), Load(_, _, _)) ==
  Filled(lane, share.prefer, first, Unqueued(page, first, Id),
         NextCursor(lane, page, capacity, Rank), Load)

select_root_retention_batch(lane, share, first) ==
  LET capacity == share.fresh + share.retry - Len(first.items)
  IN  Paged(lane, share, first, capacity,
            list_expired_terminal_tasks(terminal_ttl_secs, lane.fresh_cursor, capacity),
            lifetime, ExpiredTaskCursor, load_root_retries)

select_artifact_retention_batch(lane, share, first) ==
  LET capacity == share.fresh + share.retry - Len(first.items)
  IN  Paged(lane, share, first, capacity,
            list_reclaimable_proof_artifacts(lane.fresh_cursor, capacity),
            KeyCursor, KeyCursor, load_artifact_retries)

select_pending_retention_batch(lane, share, first) ==
  LET capacity == share.fresh + share.retry - Len(first.items)
  IN  Paged(lane, share, first, capacity,
            list_reclaimable_pending_publications(lane.fresh_cursor, capacity),
            KeyCursor, KeyCursor, load_pending_retries)

----------------------------------------------------------------------------
\* The passes of the loop.

Idle == [at |-> "idle", held |-> <<>>, before |-> 0, done |-> {}, failed |-> {}]
At(step, held, before) ==
  [at |-> step, held |-> held, before |-> before, done |-> {}, failed |-> {}]

\* Snapshots of the selected records.
Snapshots(ids, record(_)) == [i \in 1 .. Len(ids) |-> [id |-> ids[i], rec |-> record(ids[i])]]
TaskRecord(life) == tasks[life[1]]
ArtifactRecord(k) == artifacts[k]
PendingRecord(k) == pending[k]

\* A step fails once: the pass returns the error, which the loop only logs.
Fault == faults < MaxFaults /\ faults' = faults + 1
Abort == pass' = Idle

observe(seen, t) ==
  IF Cardinality(seen) >= cast.observations THEN seen ELSE seen \cup {lifetime(t)}

\* interval.tick(): a pass begins by warning about overdue active tasks.
StartPass ==
  /\ pass.at = "idle"
  /\ cast.batch > 0
  /\ \E page \in {list_stale_nonterminal_tasks(terminal_ttl_secs, cursors.overdue, cast.batch)} :
       /\ observed' = FoldSeq(LAMBDA t, seen : observe(seen, t), observed, page)
       /\ cursors' = [cursors EXCEPT !.overdue =
                        IF page = <<>> THEN 0 ELSE ExpiredTaskCursor(page[Len(page)])]
  /\ pass' = At("orphans", <<>>, 0)
  /\ UNCHANGED <<env, state, lanes, faults>>

\* cancel_orphaned_runtime_tasks: the page it will walk.
ListOrphans ==
  /\ pass.at = "orphans"
  /\ \E page \in {list_stale_nonterminal_tasks(orphan_ttl_secs, cursors.orphan, cast.batch)} :
       IF page = <<>>
       THEN /\ cursors' = [cursors EXCEPT !.orphan = 0]
            /\ pass' = At("roots", <<>>, 0)
       ELSE /\ pass' = At("orphan", [i \in 1 .. Len(page) |->
                                        [id |-> lifetime(page[i]), rec |-> tasks[page[i]]]],
                          ExpiredTaskCursor(page[Len(page)]))
            /\ UNCHANGED cursors
  /\ UNCHANGED <<env, state, lanes, observed, faults>>

\* reconcile_runtime_task_from_artifacts: the root is completed by its proof.
Reconciled(t, rec) ==
  /\ artifacts[KeyOf[t]].lifecycle = "Active"
  /\ tasks[t].inc = rec.inc
  /\ ~is_terminal(tasks[t].status)

\* cancel_orphaned_if_unchanged applies: the exact record, with no execution attached.
Orphaned(t, rec) == tasks[t] = rec /\ t \notin cast.attached

Ended(t, status) == [tasks EXCEPT ![t].status = status, ![t].updated_at = now]

AfterOrphan ==
  IF Len(pass.held) > 1
  THEN /\ pass' = [pass EXCEPT !.held = Tail(pass.held)]
       /\ UNCHANGED cursors
  ELSE /\ pass' = At("roots", <<>>, 0)
       /\ cursors' = [cursors EXCEPT !.orphan = pass.before]

\* One record of the page: completed, left alone, or cancelled.
WalkOrphan ==
  /\ pass.at = "orphan"
  /\ \E t \in {Head(pass.held).id[1]}, rec \in {Head(pass.held).rec} :
       tasks' = IF t \in cast.undecodable THEN tasks
                ELSE IF Reconciled(t, rec) THEN Ended(t, "Completed")
                ELSE IF t \in cast.remote \/ ~Orphaned(t, rec) THEN tasks
                ELSE Ended(t, "Cancelled")
  /\ AfterOrphan
  /\ UNCHANGED <<env, artifacts, pending, lanes, observed, faults>>

\* Reconciling or cancelling fails: the cursor stays before the page.
BlockedOrphan ==
  /\ pass.at = "orphan"
  /\ Head(pass.held).id[1] \notin cast.undecodable
  /\ Fault /\ Abort
  /\ UNCHANGED <<env, state, lanes, cursors, observed>>

SelectRoots ==
  /\ pass.at = "roots"
  /\ \E share \in {budgets(lanes.roots, cast.batch)} :
     \E first \in {load_root_retries(lanes.roots.retries, share.retry, {})} :
     \E chosen \in {select_root_retention_batch(lanes.roots, share, first)} :
       /\ lanes' = [lanes EXCEPT !.roots = chosen.lane]
       /\ pass' = At("retire", Snapshots(chosen.batch, TaskRecord), lanes.roots.fresh_cursor)
  /\ UNCHANGED <<env, state, cursors, observed, faults>>

\* prepare_terminal_task_retention_batch: the exact terminal records are retired.
Prepared(held) ==
  SelectSeq(held, LAMBDA h : tasks[h.id[1]] = h.rec /\ is_terminal(h.rec.status))

RetireRoots ==
  /\ pass.at = "retire"
  /\ \E kept \in {Prepared(pass.held)} :
       /\ tasks' = [t \in Tasks |->
                      IF \E i \in 1 .. Len(kept) : kept[i].id[1] = t
                      THEN [tasks[t] EXCEPT !.retention = "Removing"] ELSE tasks[t]]
       /\ pass' = [pass EXCEPT !.at = "detach",
                     !.held = [i \in 1 .. Len(kept) |->
                                 [id  |-> kept[i].id,
                                  rec |-> [kept[i].rec EXCEPT !.retention = "Removing"]]],
                     !.done = {pass.held[i].id : i \in 1 .. Len(pass.held)}]
  /\ UNCHANGED <<env, artifacts, pending, lanes, cursors, observed, faults>>

\* Mutant: finalization looks the task up by its id alone.
SameTask(held, failed) ==
  {held[i].id[1] : i \in {j \in 1 .. Len(held) :
     held[j].id \notin failed /\ tasks[held[j].id[1]] # NoTask}}

\* finalize_terminal_task_retention_batch: only exact retired records leave.
Finalized(held, failed) ==
  {held[i].id[1] : i \in {j \in 1 .. Len(held) :
     held[j].id \notin failed /\ tasks[held[j].id[1]] = held[j].rec}}

\* The selected retries leave the queue; what failed joins it at the back.
Requeued(queue, selected, again) ==
  FoldSeq(LAMBDA i, q : enqueue(q, i), acknowledge(queue, selected), again)

Ids(held) == [i \in 1 .. Len(held) |-> held[i].id]

\* A failed deletion: always for a stubborn record, transiently for any other.
Fails(ids, stubborn) ==
  {F \in SUBSET ids : stubborn \subseteq F /\ (F = stubborn \/ faults < MaxFaults)}

\* Each retired root is detached from its engine, and the batch finalized.
DropRoots ==
  /\ pass.at = "detach"
  /\ \E F \in Fails(Range(Ids(pass.held)), {i \in Range(Ids(pass.held)) : i[1] \in cast.stuckRoots}) :
     \E gone \in {Finalized(pass.held, F)} :
       /\ tasks' = [t \in Tasks |-> IF t \in gone THEN NoTask ELSE tasks[t]]
       /\ pending' = [k \in Keys |-> [pending[k] EXCEPT !.owners =
                        @ \ {<<t, tasks[t].inc>> : t \in gone}]]
       /\ lanes' = [lanes EXCEPT !.roots.retries =
                      Requeued(@, pass.done,
                               SelectSeq(Ids(pass.held), LAMBDA i : i \in F)
                                 \o SelectSeq(Ids(pass.held),
                                              LAMBDA i : i \notin F /\ i[1] \notin gone))]
       /\ faults' = IF \A i \in F : i[1] \in cast.stuckRoots THEN faults ELSE faults + 1
  /\ pass' = At("artifacts", <<>>, 0)
  /\ UNCHANGED <<env, artifacts, cursors, observed>>

\* The root lane fails as a whole: its cursor goes back, its retries stay queued.
RootLaneFails ==
  /\ pass.at \in {"retire", "detach"}
  /\ pass.held # <<>>
  /\ Fault /\ Abort
  /\ lanes' = [lanes EXCEPT !.roots.fresh_cursor = pass.before]
  /\ UNCHANGED <<env, state, cursors, observed>>

SelectArtifacts ==
  /\ pass.at = "artifacts"
  /\ \E share \in {budgets(lanes.artifacts, cast.batch)} :
     \E first \in {load_artifact_retries(lanes.artifacts.retries, share.retry, {})} :
     \E chosen \in {select_artifact_retention_batch(lanes.artifacts, share, first)} :
       /\ lanes' = [lanes EXCEPT !.artifacts = chosen.lane]
       /\ pass' = At("invalidate", Snapshots(chosen.batch, ArtifactRecord),
                     lanes.artifacts.fresh_cursor)
  /\ UNCHANGED <<env, state, cursors, observed, faults>>

\* prepare_artifact_retention_batch: exact, still reclaimable records are
\* invalidated.  updated_at is not read again and is left out.
ArtifactPrepared(held) ==
  SelectSeq(held, LAMBDA h : artifacts[h.id] = h.rec /\ get_reclaimable_proof_artifact(h.id))

InvalidateArtifacts ==
  /\ pass.at = "invalidate"
  /\ \E kept \in {ArtifactPrepared(pass.held)} :
       /\ artifacts' = [k \in Keys |-> IF k \in Range(Ids(kept))
                                       THEN [artifacts[k] EXCEPT !.lifecycle = "Invalidated"]
                                       ELSE artifacts[k]]
       /\ pass' = [pass EXCEPT !.at = "erase",
                     !.held = [i \in 1 .. Len(kept) |->
                                 [id  |-> kept[i].id,
                                  rec |-> [kept[i].rec EXCEPT !.lifecycle = "Invalidated"]]],
                     !.done = Range(Ids(pass.held))]
  /\ UNCHANGED <<env, tasks, pending, lanes, cursors, observed, faults>>

\* finalize_terminal_retention_artifacts: the workers' exact deletions.  A
\* failure whose record has changed meanwhile is dropped, any other is retried.
Erase(step, forget, stuck, Changed(_)) ==
  /\ pass.at = step
  /\ \E F \in Fails(Range(Ids(pass.held)), stuck \cap Range(Ids(pass.held))) :
       /\ pass' = [pass EXCEPT !.at = forget,
                     !.held = SelectSeq(pass.held, LAMBDA h : h.id \notin F),
                     !.failed = {pass.held[i].id : i \in {j \in 1 .. Len(pass.held) :
                                   pass.held[j].id \in F /\ ~Changed(pass.held[j])}}]
       /\ faults' = IF F \subseteq stuck THEN faults ELSE faults + 1
  /\ UNCHANGED <<env, state, lanes, cursors, observed>>

proof_artifact_invalidation_is_stale(h) == artifacts[h.id] # h.rec

EraseArtifacts == Erase("erase", "forget", cast.stuckKeys, proof_artifact_invalidation_is_stale)

\* The order in which failed deletions report is the order the workers end in.
SetAsSeqs(S) == {s \in [1 .. Cardinality(S) -> S] : Range(s) = S}

\* finalize_terminal_task_retention_batch: the deleted artifacts' exact records leave.
ForgetArtifacts ==
  /\ pass.at = "forget"
  /\ artifacts' = [k \in Keys |->
       IF \E i \in 1 .. Len(pass.held) : pass.held[i].id = k /\ pass.held[i].rec = artifacts[k]
       THEN [artifacts[k] EXCEPT !.lifecycle = "None"] ELSE artifacts[k]]
  /\ \E again \in SetAsSeqs(pass.failed) :
       lanes' = [lanes EXCEPT !.artifacts.retries = Requeued(@, pass.done, again)]
  /\ pass' = At("pending", <<>>, 0)
  /\ UNCHANGED <<env, tasks, pending, cursors, observed, faults>>

ArtifactLaneFails ==
  /\ pass.at \in {"invalidate", "forget"}
  /\ pass.held # <<>>
  /\ Fault /\ Abort
  /\ lanes' = [lanes EXCEPT !.artifacts.fresh_cursor = pass.before]
  /\ UNCHANGED <<env, state, cursors, observed>>

SelectPending ==
  /\ pass.at = "pending"
  /\ \E share \in {budgets(lanes.pending, cast.batch)} :
     \E first \in {load_pending_retries(lanes.pending.retries, share.retry, {})} :
     \E chosen \in {select_pending_retention_batch(lanes.pending, share, first)} :
       /\ lanes' = [lanes EXCEPT !.pending = chosen.lane]
       /\ pass' = [At("drop", Snapshots(chosen.batch, PendingRecord), lanes.pending.fresh_cursor)
                     EXCEPT !.done = Range(chosen.batch)]
  /\ UNCHANGED <<env, state, cursors, observed, faults>>

\* finalize_pending_publication_retention fails for an intent that changed or
\* found an owner, and is retried in either case.
Unfit(h) == pending[h.id].present /\ (pending[h.id] # h.rec \/ has_artifact_owner(h.id))
NeverDropped(h) == FALSE

ErasePending ==
  Erase("drop", "finish",
        cast.stuckKeys \cup {pass.held[i].id : i \in {j \in 1 .. Len(pass.held) : Unfit(pass.held[j])}},
        NeverDropped)

\* finalize_terminal_pending_publications: exact intents still without an owner leave.
ForgetPending ==
  /\ pass.at = "finish"
  /\ pending' = [k \in Keys |->
       IF /\ \E i \in 1 .. Len(pass.held) : pass.held[i].id = k /\ pass.held[i].rec = pending[k]
          /\ ~has_artifact_owner(k)
       THEN [pending[k] EXCEPT !.present = FALSE, !.owners = {}] ELSE pending[k]]
  /\ \E again \in SetAsSeqs(pass.failed) :
       lanes' = [lanes EXCEPT !.pending.retries = Requeued(@, pass.done, again)]
  /\ Abort
  /\ UNCHANGED <<env, tasks, artifacts, cursors, observed, faults>>

PendingLaneFails ==
  /\ pass.at = "finish"
  /\ pass.held # <<>>
  /\ Fault /\ Abort
  /\ lanes' = [lanes EXCEPT !.pending.fresh_cursor = pass.before]
  /\ UNCHANGED <<env, state, cursors, observed>>

----------------------------------------------------------------------------
\* What requests and workers do meanwhile, cast.moves times.

Move == moves < cast.moves /\ moves' = moves + 1

Tick == now < MaxTime /\ now' = now + 1 /\ UNCHANGED <<cast, born, rollback, moves, state, loop, faults>>

\* build_task_record: a lifetime of its own, owned by nobody yet.
build_task_record(t) ==
  [inc |-> born[t] + 1, status |-> "Allocated", retention |-> "Retained", updated_at |-> now]

\* register_task_if_absent, or replacing an ended root by a new lifetime.
Register(t) ==
  /\ Move
  /\ born[t] < cast.lifetimes[t]  \* bound
  /\ tasks[t] # NoTask => tasks[t].status \in {"Failed", "Cancelled"}
  /\ tasks' = [tasks EXCEPT ![t] = build_task_record(t)]
  /\ born' = [born EXCEPT ![t] = @ + 1]
  /\ pending' = [k \in Keys |-> [pending[k] EXCEPT !.owners = @ \ {<<t, tasks[t].inc>>}]]
  /\ UNCHANGED <<cast, now, rollback, artifacts, loop, faults>>

\* prepare_task_for_recovery_if_unchanged.
Recover(t) ==
  /\ Move
  /\ tasks[t] # NoTask
  /\ tasks[t].status \notin {"Completed", "Cancelled"}
  /\ rollback[t] = NoTask
  /\ tasks' = [tasks EXCEPT ![t] =
                 [inc |-> @.inc, status |-> "Allocated", retention |-> "Retained",
                  updated_at |-> now]]
  /\ rollback' = [rollback EXCEPT ![t] =
                 [inc |-> tasks[t].inc, prepared |-> tasks'[t], original |-> tasks[t]]]
  /\ UNCHANGED <<cast, now, born, artifacts, pending, loop, faults>>

\* restore_task_after_recovery_if_unchanged, or the recovery went through.
EndRecovery(t) ==
  /\ rollback[t] # NoTask
  /\ UNCHANGED moves
  /\ rollback' = [rollback EXCEPT ![t] = NoTask]
  /\ tasks' \in {tasks, IF tasks[t] = rollback[t].prepared
                        THEN [tasks EXCEPT ![t] = rollback[t].original] ELSE tasks}
  /\ UNCHANGED <<cast, now, born, artifacts, pending, loop, faults>>

\* upsert_pending_proof_publication: the intent of the proof about to be stored.
Intend(t) ==
  /\ Move
  /\ tasks[t] # NoTask
  /\ ~is_terminal(tasks[t].status)
  /\ pending' = [pending EXCEPT ![KeyOf[t]] =
                   [present |-> TRUE,
                    owners  |-> IF @.present THEN @.owners \cup {lifetime(t)} ELSE {lifetime(t)}]]
  /\ UNCHANGED <<cast, now, born, rollback, tasks, artifacts, loop, faults>>

\* The intent is published, its key registered and its root completed.
Publish(t) ==
  /\ Move
  /\ tasks[t] # NoTask
  /\ ~is_terminal(tasks[t].status)
  /\ pending[KeyOf[t]].present
  /\ artifacts' = [artifacts EXCEPT ![KeyOf[t]] = [lifecycle |-> "Active", gen |-> @.gen + 1]]
  /\ pending' = [pending EXCEPT ![KeyOf[t]] = [present |-> FALSE, owners |-> {}]]
  /\ tasks' = Ended(t, "Completed")
  /\ UNCHANGED <<cast, now, born, rollback, loop, faults>>

\* fail_task_if_unchanged.
Fail(t) ==
  /\ Move
  /\ tasks[t] # NoTask
  /\ ~is_terminal(tasks[t].status)
  /\ tasks' = Ended(t, "Failed")
  /\ UNCHANGED <<cast, now, born, rollback, artifacts, pending, loop, faults>>

----------------------------------------------------------------------------
EmptyLane == [fresh_cursor |-> 0, retries |-> <<>>, prefer_retry |-> TRUE]

Init ==
  /\ cast \in Casts
  /\ now = 0
  /\ tasks = cast.tasks
  /\ born = [t \in Tasks |-> cast.tasks[t].inc]
  /\ artifacts = cast.artifacts
  /\ pending = cast.pending
  /\ lanes = [roots |-> EmptyLane, artifacts |-> EmptyLane, pending |-> EmptyLane]
  /\ cursors = [orphan |-> 0, overdue |-> 0]
  /\ observed = {}
  /\ pass = Idle
  /\ rollback = [t \in Tasks |-> NoTask]
  /\ faults = 0
  /\ moves = 0

Pass ==
  \/ StartPass \/ ListOrphans \/ WalkOrphan \/ SelectRoots \/ RetireRoots \/ DropRoots
  \/ SelectArtifacts \/ InvalidateArtifacts \/ EraseArtifacts \/ ForgetArtifacts
  \/ SelectPending \/ ErasePending \/ ForgetPending

Trouble == BlockedOrphan \/ RootLaneFails \/ ArtifactLaneFails \/ PendingLaneFails

Requests ==
  \E t \in Tasks : Register(t) \/ Recover(t) \/ EndRecovery(t) \/ Intend(t) \/ Publish(t) \/ Fail(t)

Next == Tick \/ Pass \/ Trouble \/ Requests

\* The interval keeps ticking and the awaits of a pass return.
Spec == Init /\ [][Next]_vars /\ WF_vars(Pass) /\ WF_vars(Tick)

----------------------------------------------------------------------------
\* An ended root whose time is over.
Expired(t) == PastTtl(t, terminal_ttl_secs) /\ is_terminal(tasks[t].status)

\* Nothing is left to delete but what the store will not delete.
Swept ==
  /\ \A t \in Tasks \ cast.stuckRoots : ~Expired(t)
  /\ \A k \in Keys \ cast.stuckKeys :
       ~get_reclaimable_proof_artifact(k) /\ ~get_reclaimable_pending_publication(k)

\* What leaves is the ended lifetime this pass selected, its time over: one that
\* was recovered, rolled back to work or registered again since is spared, also
\* when its successor has ended and expired by then.
ExpiredLeave ==
  \A t \in Tasks : tasks[t] # NoTask /\ tasks'[t] = NoTask =>
    /\ is_terminal(tasks[t].status)
    /\ tasks[t].updated_at <= now - terminal_ttl_secs
    /\ lifetime(t) \in Range(Ids(pass.held))
=============================================================================
