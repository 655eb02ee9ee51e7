---------------------------- MODULE ProofStages ----------------------------
(***************************************************************************)
(* What a root's persisted metadata says while its tasks run: the          *)
(* submission plan it is registered with, the stage events and provider    *)
(* checkpoints the runtime observer writes into it, what a restart decodes *)
(* from it, and the plan an identical request rebuilds from it.            *)
(*                                                                         *)
(* A reference is a keccak hash of a canonical encoding; here it is the    *)
(* encoded tuple itself (the hash is taken to be injective).  `pins'       *)
(* stands for the request fields no code here looks into (checkpoint, L1   *)
(* inclusion block, anchor block, graffiti, prover configuration).         *)
(***************************************************************************)
EXTENDS Integers, Sequences, FiniteSets, SequencesExt, TLC

CONSTANTS
  Casts,         \* which roots are requested and what each asks for; how often
                 \* tasks may be leased, and the process restart, in all
  Submissions,   \* provider submissions the prover may report
  None           \* an absent field

VARIABLES
  cast,      \* the requests of this run
  wants,     \* root -> the engine tasks of its plan
  records,   \* root -> its runtime record, or None
  handler,   \* roots registered by a request that has not attached them yet
  attached,  \* roots whose plan is in the execution projection
  done,      \* engine tasks whose node succeeded
  proofs,    \* engine tasks with a published proof
  lease,     \* engine task -> the worker's progress on it, or None
  tracked,   \* STARTED_STAGE_TASKS
  leases, restarts

vars == <<cast, wants, records, handler, attached, done, proofs, lease, tracked,
          leases, restarts>>

RootIds == DOMAIN cast.roots

-----------------------------------------------------------------------------
(* Identities *)

proposal_task_ref(key, request) == <<"task", "proposal", key, request>>

aggregate_task_ref(key, request) == <<"task", "aggregate", key, request>>

aggregate_input_proof_ref(fingerprint, index) ==
  <<"proof", "aggregate_input", fingerprint, index>>

stable_stage_ref(key, request, stage) == <<"stage", stage, key, request>>

ProposalId(key, request) ==
  [kind |-> "proposal", pipeline |-> key, request |-> request]

AggregateId(key, request) ==
  [kind |-> "aggregate", pipeline |-> key, request |-> request]

root_task_ref(t) ==
  IF t.kind = "proposal" THEN proposal_task_ref(t.pipeline, t.request)
                         ELSE aggregate_task_ref(t.pipeline, t.request)

stage_task_ref_for_stage(t, stage) ==
  IF t.kind = "proposal" THEN stable_stage_ref(t.pipeline, t.request, stage)
                         ELSE aggregate_task_ref(t.pipeline, t.request)

stage_task_ref(t) == stage_task_ref_for_stage(t, "prove")

\* The stage an event is filed under: one of the four stages of a proposal;
\* every other name counts as the last stage.
timing_key_for_stage_name(t, stage) ==
  IF stage \in {"preflight", "validation", "encode", "prove"}
  THEN stage_task_ref_for_stage(t, stage) ELSE stage_task_ref(t)

\* The range of a contiguous list of block numbers, None for any other list.
canonical_l2_block_range(blocks) ==
  IF blocks # <<>> /\ \A i \in 1..(Len(blocks) - 1) : blocks[i] + 1 = blocks[i + 1]
  THEN <<blocks[1], blocks[Len(blocks)]>> ELSE None

-----------------------------------------------------------------------------
(* The plan of a submission *)

proposal_task_request(p) ==
  [proposal_id |-> p.proposal_id, l2_block_range |-> canonical_l2_block_range(p.blocks),
   pins |-> p.pins]

proof_artifact_ref(pair, key, route, ref) ==
  [pair |-> pair, key |-> key, route |-> route, ref |-> ref]

PlannedProposal(key, p) ==
  LET request == proposal_task_request(p)
  IN  [request |-> request, task_ref |-> proposal_task_ref(key, request),
       task_id |-> ProposalId(key, request), proposal |-> p]

PlannedAggregate(key, request) ==
  [request |-> request, task_ref |-> aggregate_task_ref(key, request)]

planned_batch_aggregate(s) ==
  IF ~s.aggregate THEN None
  ELSE PlannedAggregate(s.key,
         [request_id |-> s.id,
          proposal_ids |-> [i \in DOMAIN s.proposals |-> s.proposals[i].proposal_id]])

\* The inputs of a batch aggregate: the artifact of each proposal, and the
\* task that must have produced it.
PendingInputs(pair, key, route, planned) ==
  [i \in DOMAIN planned |->
     [artifact |-> proof_artifact_ref(pair, key, route, planned[i].task_ref),
      dependency |-> planned[i].task_id]]

build_submission_plan(s) ==
  LET planned == [i \in DOMAIN s.proposals |-> PlannedProposal(s.key, s.proposals[i])]
  IN  [proposals |-> planned,
       aggregate |-> planned_batch_aggregate(s),
       inputs |-> IF s.aggregate THEN PendingInputs(s.pair, s.key, s.route, planned)
                                 ELSE <<>>]

prepare_external_aggregate_inputs(s) ==
  [i \in 1..s.inputs |-> aggregate_input_proof_ref(s.id, i)]

aggregate_inputs_from_artifacts(pair, key, route, artifacts) ==
  [i \in DOMAIN artifacts |->
     [artifact |-> proof_artifact_ref(pair, key, route, artifacts[i]),
      dependency |-> None]]

\* An aggregate of proofs the client sends: no proposals, one input per proof.
ExternalPlan(s) ==
  [proposals |-> <<>>,
   aggregate |-> PlannedAggregate(s.key, [request_id |-> s.id, proposal_ids |-> <<>>]),
   inputs |-> aggregate_inputs_from_artifacts(s.pair, s.key, s.route,
                                              prepare_external_aggregate_inputs(s))]

PlanOf(s) == IF s.inputs = 0 THEN build_submission_plan(s) ELSE ExternalPlan(s)

execution_plan(plan) ==
  [proposals |-> [i \in DOMAIN plan.proposals |-> plan.proposals[i].request],
   aggregate |-> IF plan.aggregate = None THEN None
                 ELSE [request |-> plan.aggregate.request, inputs |-> plan.inputs]]

-----------------------------------------------------------------------------
(* Provider checkpoints: TaskRuntimeMetadata *)

NoRuntime == [id |-> None, expires |-> None, submitted |-> None, attempt |-> None,
              limits |-> None, timeout |-> None]

has_remote_submission_progress(x) == \E f \in DOMAIN x : x[f] # None

has_sp1_network_submission_progress(x) ==
  (\A f \in DOMAIN x : x[f] # None) /\ x.attempt > 0

validate_sp1_submission(x) ==
  /\ has_sp1_network_submission_progress(x)
  /\ x.limits > 0 /\ x.timeout > 0
  /\ x.submitted + x.timeout = x.expires

\* "none", the kind of submission recorded, or "error".
validate_remote_submission(x) ==
  IF ~has_remote_submission_progress(x) THEN "none"
  ELSE IF /\ None \notin {x.id, x.submitted, x.expires, x.attempt}
          /\ x.submitted > 0 /\ x.submitted < x.expires /\ x.attempt > 0
          /\ validate_sp1_submission(x)
       THEN "sp1" ELSE "error"

validate_remote_submission_route(kind, route) ==
  kind = "none" \/ (kind = "sp1" /\ route = "sp1/network")

Candidate(q) ==
  [id |-> q.id, expires |-> q.submitted + q.timeout, submitted |-> q.submitted,
   attempt |-> q.attempt, limits |-> q.limits, timeout |-> q.timeout]

\* The checkpoint after progress `q', None when the report conflicts with it.
merge_sp1_network_submission(x, q) ==
  LET candidate == Candidate(q)
      current == validate_remote_submission(x)
  IN  IF validate_remote_submission(candidate) # "sp1" \/ current = "error" THEN None
      ELSE IF current = "none" THEN candidate
      ELSE IF q.attempt < x.attempt THEN None
      ELSE IF q.attempt > x.attempt \/ x = candidate THEN candidate
      ELSE None

-----------------------------------------------------------------------------
(* TaskMetadata *)

RuntimeMetadata == [active |-> None, timings |-> << >>, proposals |-> << >>,
                    aggregate |-> NoRuntime]

build_task_metadata(s, plan) ==
  [network |-> s.pair[1], l1_network |-> s.pair[2], network_pair |-> s.pair,
   proof_type |-> s.key, aggregate_requested |-> s.aggregate,
   proposals |-> [i \in DOMAIN plan.proposals |->
      LET p == plan.proposals[i]
      IN  [proposal_id |-> p.proposal.proposal_id, blocks |-> p.proposal.blocks,
           pins |-> p.proposal.pins, task_id |-> p.task_ref, request |-> p.request]],
   aggregate_task_id |-> IF plan.aggregate = None THEN None ELSE plan.aggregate.task_ref,
   aggregate_request |-> IF plan.aggregate = None THEN None ELSE plan.aggregate.request,
   inputs |-> <<>>, runtime |-> RuntimeMetadata]

\* The references whose artifacts prove the root: the aggregate, or the only
\* proposal of a root without one.
root_proof_artifact_refs(md, key) ==
  IF md.aggregate_request # None THEN <<aggregate_task_ref(key, md.aggregate_request)>>
  ELSE IF Len(md.proposals) = 1
       THEN <<proposal_task_ref(key, md.proposals[1].request)>> ELSE <<>>

publication_proof_artifact_refs(md, key) ==
  LET Push(refs, ref) == IF \E i \in DOMAIN refs : refs[i] = ref THEN refs ELSE Append(refs, ref)
      proposed == [i \in DOMAIN md.proposals |-> proposal_task_ref(key, md.proposals[i].request)]
  IN  FoldLeft(Push, root_proof_artifact_refs(md, key), proposed \o md.inputs)

proposal_matches_request(key, p) ==
  /\ p.proposal_id = p.request.proposal_id /\ p.pins = p.request.pins
  /\ canonical_l2_block_range(p.blocks) # None
  /\ p.request.l2_block_range = canonical_l2_block_range(p.blocks)
  /\ p.task_id = proposal_task_ref(key, p.request)

validate_execution_identity(md, key) ==
  /\ md.proposals # <<>> \/ md.aggregate_request # None
  /\ md.aggregate_requested <=> md.aggregate_request # None
  /\ \A i \in DOMAIN md.proposals : proposal_matches_request(key, md.proposals[i])
  /\ (md.aggregate_request # None) <=> (md.aggregate_task_id # None)
  /\ md.aggregate_request = None => md.inputs = <<>>
  /\ md.aggregate_request # None =>
       LET ids == md.aggregate_request.proposal_ids
       IN  /\ md.aggregate_task_id = aggregate_task_ref(key, md.aggregate_request)
           /\ IF md.proposals = <<>>
              THEN md.inputs # <<>> /\ (ids = <<>> \/ Len(ids) = Len(md.inputs))
              ELSE /\ ids = [i \in DOMAIN md.proposals |-> md.proposals[i].proposal_id]
                   /\ md.inputs = <<>>

validate_runtime_progress(md, route) ==
  /\ \A ref \in DOMAIN md.runtime.proposals :
       /\ \E i \in DOMAIN md.proposals : md.proposals[i].task_id = ref
       /\ validate_remote_submission_route(
            validate_remote_submission(md.runtime.proposals[ref]), route)
  /\ md.runtime.aggregate # NoRuntime =>
       /\ md.aggregate_request # None
       /\ validate_remote_submission_route(
            validate_remote_submission(md.runtime.aggregate), route)

decode_for_record(record) ==
  LET md == record.metadata
  IN  /\ md.network_pair = <<md.network, md.l1_network>>
      /\ md.network_pair = record.pair /\ md.proof_type = record.key
      /\ validate_execution_identity(md, record.key)
      /\ validate_runtime_progress(md, record.route)
      /\ publication_proof_artifact_refs(md, record.key) = record.artifact_refs

owns_engine_task(md, t) ==
  IF t.kind = "proposal"
  THEN \E i \in DOMAIN md.proposals : ProposalId(t.pipeline, md.proposals[i].request) = t
  ELSE md.aggregate_request # None /\ AggregateId(t.pipeline, md.aggregate_request) = t

MarkStageStarted(md, ref, stage) ==
  [md EXCEPT !.runtime.timings = (ref :> [stage |-> stage, status |-> None]) @@ @,
             !.runtime.active = stage]

mark_stage_terminal(md, ref, stage, status) ==
  [md EXCEPT !.runtime.timings = (ref :> [stage |-> stage, status |-> status]) @@ @]

-----------------------------------------------------------------------------
(* Registering a root, and the plan rebuilt from its record *)

NewRecord(s, md) ==
  [key |-> s.key, route |-> s.route, pair |-> s.pair, status |-> "allocated", proof_uri |-> None,
   artifact_refs |-> publication_proof_artifact_refs(md, s.key), metadata |-> md]

build_batch_task_registration(s) ==
  NewRecord(s, build_task_metadata(s, build_submission_plan(s)))

register_external_aggregate_task(s) ==
  NewRecord(s, [build_task_metadata(s, ExternalPlan(s))
                  EXCEPT !.inputs = prepare_external_aggregate_inputs(s)])

\* Mutant: the proposals' requests are rebuilt without their block range.
planned_recovery_proposals_rangeless(record) ==
  LET md == record.metadata
  IN  [i \in DOMAIN md.proposals |->
         PlannedProposal(record.key, [proposal_id |-> md.proposals[i].proposal_id,
                                      blocks |-> <<>>, pins |-> md.proposals[i].pins])]

planned_recovery_proposals(record) ==
  LET md == record.metadata
  IN  [i \in DOMAIN md.proposals |->
         LET p == md.proposals[i]
         IN  [request |-> p.request, task_ref |-> proposal_task_ref(record.key, p.request),
              task_id |-> ProposalId(record.key, p.request),
              proposal |-> [proposal_id |-> p.proposal_id, blocks |-> p.blocks,
                            pins |-> p.pins]]]

\* None when the record asks for an aggregate it holds no request for.
build_recovery_plan_from_metadata(record) ==
  LET md == record.metadata
      planned == planned_recovery_proposals(record)
  IN  IF md.aggregate_requested /\ md.aggregate_request = None THEN None
      ELSE [proposals |-> planned,
            aggregate |-> IF md.aggregate_request = None THEN None
                          ELSE PlannedAggregate(record.key, md.aggregate_request),
            inputs |-> IF md.aggregate_requested
                       THEN PendingInputs(record.pair, record.key, record.route, planned)
                       ELSE <<>>]

\* The inputs named in the record; a record without any takes those of the
\* request at hand.
external_aggregate_recovery_execution_plan(record, fallback) ==
  LET md == record.metadata
  IN  IF md.aggregate_request = None THEN None
      ELSE [proposals |-> <<>>,
            aggregate |->
              [request |-> md.aggregate_request,
               inputs |-> IF md.inputs = <<>> THEN fallback
                          ELSE aggregate_inputs_from_artifacts(
                                 record.pair, record.key, record.route, md.inputs)]]

RecoveryPlan(r) ==
  LET record == records[r]
      plan == build_recovery_plan_from_metadata(record)
  IN  IF cast.roots[r].inputs = 0
      THEN IF plan = None THEN None ELSE execution_plan(plan)
      ELSE external_aggregate_recovery_execution_plan(record, ExternalPlan(cast.roots[r]).inputs)

-----------------------------------------------------------------------------
(* Whether an identical request takes a failed root up again *)

stage_runtime_is_reenqueueable(x) ==
  ~has_remote_submission_progress(x) \/ has_sp1_network_submission_progress(x)

RuntimeOf(md, ref) ==
  IF ref \in DOMAIN md.runtime.proposals THEN md.runtime.proposals[ref] ELSE NoRuntime

proposal_stage_failed(md, key, p) ==
  LET ref == stage_task_ref(ProposalId(key, p.request))
  IN  /\ ref \in DOMAIN md.runtime.timings
      /\ md.runtime.timings[ref] = [stage |-> "prove", status |-> "failed"]

proposal_failed_before_remote_submission(md) ==
  /\ md.proposals # <<>>
  /\ \A ref \in DOMAIN md.runtime.proposals :
       ~has_remote_submission_progress(md.runtime.proposals[ref])

proposal_failed_stage_is_reenqueueable(md, key) ==
  LET i == SelectInSeq(md.proposals, LAMBDA p : proposal_stage_failed(md, key, p))
  IN  IF i # 0 THEN stage_runtime_is_reenqueueable(RuntimeOf(md, md.proposals[i].task_id))
      ELSE IF Len(md.proposals) = 1
           THEN stage_runtime_is_reenqueueable(RuntimeOf(md, md.proposals[1].task_id))
           ELSE proposal_failed_before_remote_submission(md)

MetadataHasRemote(md) ==
  \/ \E ref \in DOMAIN md.runtime.proposals :
       has_remote_submission_progress(md.runtime.proposals[ref])
  \/ has_remote_submission_progress(md.runtime.aggregate)

failed_stage_is_reenqueueable(record) ==
  LET md == record.metadata
      stage == md.runtime.active
  IN  /\ record.proof_uri = None
      /\ CASE stage \in {"preflight", "validation", "encode"} -> TRUE
           [] stage = "prove" -> proposal_failed_stage_is_reenqueueable(md, record.key)
           [] stage = "aggregate" -> stage_runtime_is_reenqueueable(md.runtime.aggregate)
           [] OTHER -> ~MetadataHasRemote(md)

should_reenqueue_existing_submission(record) ==
  \/ record.status = "failed" /\ failed_stage_is_reenqueueable(record)
  \/ record.status \in {"allocated", "running"}

-----------------------------------------------------------------------------
(* The observer *)

Terminal(status) == status \in {"completed", "failed", "cancelled"}

Active(r) == records[r] # None /\ ~Terminal(records[r].status)

record_matches_observer(t, record) ==
  /\ record.key = t.pipeline /\ record.route = cast.route /\ record.pair = cast.pair
  /\ decode_for_record(record) /\ owns_engine_task(record.metadata, t)

tasks_referencing(t) ==
  {r \in RootIds : records[r] # None /\ \E i \in DOMAIN records[r].artifact_refs :
                                        records[r].artifact_refs[i] = root_task_ref(t)}

current_execution_owners(t, include_completed) ==
  {r \in tasks_referencing(t) :
     /\ Active(r) \/ (include_completed /\ records[r].status = "completed")
     /\ record_matches_observer(t, records[r])}

\* The open roots among `owners' that own the task.
OpenOwners(t, owners) ==
  {r \in owners \cap tasks_referencing(t) : Active(r) /\ record_matches_observer(t, records[r])}

\* One transaction over these roots, given their updated records.  A root whose
\* update fails (None) leaves every record as it was.
update_root_records(updated) ==
  [ok |-> DOMAIN updated # {} /\ \A r \in DOMAIN updated : updated[r] # None,
   records |-> [r \in RootIds |-> IF r \in DOMAIN updated THEN updated[r] ELSE records[r]]]

Commit(update) == records' = IF update.ok THEN update.records ELSE records

\* A record with new metadata, refused when its checkpoints are not in order.
update_task_metadata(record, status, md) ==
  IF md # None /\ validate_runtime_progress(md, record.route)
  THEN [record EXCEPT !.metadata = md, !.status = status] ELSE None

tracking_key(t, stage) == <<cast.pair, cast.route, timing_key_for_stage_name(t, stage)>>

AllTracked(t) == {tracking_key(t, stage) : stage \in {"preflight", "validation", "encode", "prove"}}

-----------------------------------------------------------------------------
(* The projection, as far as these handlers depend on it *)

TasksOf(s) ==
  LET plan == PlanOf(s)
  IN  {plan.proposals[i].task_id : i \in DOMAIN plan.proposals}
        \cup IF plan.aggregate = None THEN {}
             ELSE {AggregateId(s.key, plan.aggregate.request)}

Tasks == UNION {wants[r] : r \in RootIds}

Wanted(t) == {r \in attached : t \in wants[r]}

Dependencies(t) ==
  UNION {IF t.kind = "aggregate" THEN wants[r] \ {t} ELSE {} : r \in Wanted(t)}

Ready(t) == Wanted(t) # {} /\ t \notin done /\ lease[t] = None /\ Dependencies(t) \subseteq done

\* Nodes nobody wants any more leave with the last root that wanted them.
Keep(left) == {t \in Tasks : \E r \in left : t \in wants[r]}

Detach(gone) ==
  /\ attached' = attached \ gone
  /\ done' = done \cap Keep(attached \ gone)

-----------------------------------------------------------------------------
(* Requests *)

Register(r) ==
  /\ records[r] = None
  /\ records' = [records EXCEPT ![r] =
       IF cast.roots[r].inputs = 0 THEN build_batch_task_registration(cast.roots[r])
                                   ELSE register_external_aggregate_task(cast.roots[r])]
  /\ handler' = handler \cup {r}
  /\ UNCHANGED <<cast, wants, attached, done, proofs, lease, tracked, leases, restarts>>

attach_submission_plan(r) ==
  /\ r \in handler
  /\ handler' = handler \ {r}
  /\ attached' = attached \cup {r}
  /\ UNCHANGED <<cast, wants, records, done, proofs, lease, tracked, leases, restarts>>

\* An identical request finds the root: unless it is active in the projection
\* it is reopened and its plan is attached again.
Resubmit(r) ==
  /\ r \notin attached \cup handler /\ records[r] # None
  /\ should_reenqueue_existing_submission(records[r])
  /\ RecoveryPlan(r) # None
  /\ records' = [records EXCEPT ![r].status = "allocated"]
  /\ attached' = attached \cup {r}
  /\ UNCHANGED <<cast, wants, handler, done, proofs, lease, tracked, leases, restarts>>

\* Cancelling a root stops the tasks only it wanted.
Cancel(r) ==
  /\ r \in attached /\ Active(r)
  /\ records' = [records EXCEPT ![r].status = "cancelled"]
  /\ Detach({r})
  /\ LET stopped == Tasks \ Keep(attached \ {r})
     IN  /\ lease' = [t \in Tasks |-> IF t \in stopped THEN None ELSE lease[t]]
         /\ tracked' = tracked \ UNION {AllTracked(t) : t \in stopped}
  /\ UNCHANGED <<cast, wants, handler, proofs, leases, restarts>>

-----------------------------------------------------------------------------
(* Workers *)

StageOrder == <<"preflight", "validation", "encode", "prove">>

FirstStage(t) == IF t.kind = "proposal" THEN 1 ELSE 5

StageName(i) == IF i <= 4 THEN StageOrder[i] ELSE "aggregate"

\* run_one: a ready task is leased for the roots that own it now.
LeaseTask(t) ==
  /\ Ready(t) /\ leases < cast.leases
  /\ current_execution_owners(t, FALSE) # {}
  /\ lease' = [lease EXCEPT ![t] = [owners |-> current_execution_owners(t, FALSE),
                                    stage |-> FirstStage(t), running |-> FALSE]]
  /\ leases' = leases + 1
  /\ UNCHANGED <<cast, wants, records, handler, attached, done, proofs, tracked, restarts>>

Step(t, i, running) == lease' = [lease EXCEPT ![t] = [@ EXCEPT !.stage = i, !.running = running]]

on_task_started(t) ==
  LET stage == StageName(lease[t].stage)
      key == timing_key_for_stage_name(t, stage)
      Mark(record) == update_task_metadata(record, "allocated",
                        MarkStageStarted(record.metadata, key, stage))
      update == update_root_records([r \in OpenOwners(t, lease[t].owners) |-> Mark(records[r])])
  IN  /\ ~lease[t].running /\ t \notin proofs
      /\ Commit(update)
      /\ tracked' = IF update.ok THEN tracked \cup {tracking_key(t, stage)} ELSE tracked
      /\ Step(t, lease[t].stage, TRUE)
      /\ UNCHANGED <<cast, wants, handler, attached, done, proofs, leases, restarts>>

\* A stage without a proof ended.  When no record took the news the task goes
\* back to the queue.
on_task_succeeded(t) ==
  LET stage == StageName(lease[t].stage)
      key == timing_key_for_stage_name(t, stage)
      Mark(record) == update_task_metadata(record, "allocated",
                        [mark_stage_terminal(record.metadata, key, stage, "completed")
                           EXCEPT !.runtime.active = stage])
      update == update_root_records([r \in OpenOwners(t, lease[t].owners) |-> Mark(records[r])])
  IN  /\ lease[t].running /\ lease[t].stage < 4
      /\ Commit(update)
      /\ tracked' = tracked \ {tracking_key(t, stage)}
      /\ IF update.ok THEN Step(t, lease[t].stage + 1, FALSE)
                      ELSE lease' = [lease EXCEPT ![t] = None]
      /\ UNCHANGED <<cast, wants, handler, attached, done, proofs, leases, restarts>>

upsert_sp1_network_runtime(md, t, q) ==
  IF t.kind = "proposal"
  THEN LET ref == root_task_ref(t)
           merged == merge_sp1_network_submission(RuntimeOf(md, ref), q)
       IN  IF merged = None THEN None
           ELSE [md EXCEPT !.runtime.proposals = (ref :> merged) @@ @]
  ELSE LET merged == merge_sp1_network_submission(md.runtime.aggregate, q)
       IN  IF merged = None THEN None ELSE [md EXCEPT !.runtime.aggregate = merged]

\* The prover reports a submission; it is recorded for every root that owns
\* the task now, or for none, and then the prover gives up.
on_task_progress(t, q) ==
  LET stage == StageName(lease[t].stage)
      Merge(record) ==
        LET md == upsert_sp1_network_runtime(record.metadata, t, q)
        IN  update_task_metadata(record, "allocated",
              IF md = None THEN None ELSE [md EXCEPT !.runtime.active = stage])
      update == update_root_records([r \in OpenOwners(t, current_execution_owners(t, FALSE)) |->
                                       Merge(records[r])])
  IN  /\ lease[t].running /\ lease[t].stage >= 4
      /\ Commit(update)
      /\ update.ok
      /\ UNCHANGED <<cast, wants, handler, attached, done, proofs, lease, tracked, leases, restarts>>

FailedStage(t) == StageName(lease[t].stage)

\* The last allowed attempt at a stage failed: every open root that owns the
\* task fails and leaves the projection, with the tasks only it wanted.
on_task_failed(t) ==
  LET stage == FailedStage(t)
      key == timing_key_for_stage_name(t, stage)
      active == current_execution_owners(t, FALSE)
      Mark(record) == update_task_metadata(record, "failed",
                        [mark_stage_terminal(record.metadata, key, stage, "failed")
                           EXCEPT !.runtime.active = stage])
      update == update_root_records([r \in OpenOwners(t, active) |-> Mark(records[r])])
      stopped == Tasks \ Keep(attached \ (lease[t].owners \cup active))
  IN  /\ lease[t].running /\ active # {} /\ update.ok
      /\ Commit(update)
      /\ Detach(lease[t].owners \cup active)
      /\ lease' = [u \in Tasks |-> IF u = t \/ u \in stopped THEN None ELSE lease[u]]
      /\ tracked' = (tracked \ {tracking_key(t, stage)})
                      \ UNION {AllTracked(u) : u \in stopped \ {t}}
      /\ UNCHANGED <<cast, wants, handler, proofs, leases, restarts>>

\* An earlier attempt failed, or the lease ran out: the task is queued again.
Requeue(t) ==
  /\ lease' = [lease EXCEPT ![t] = None]
  /\ UNCHANGED <<cast, wants, records, handler, attached, done, proofs, tracked, leases, restarts>>

\* A proposal completes a root without an aggregate once the proof stage of
\* every proposal of the root has completed.
root_completed_by_proof_success(t, md, key) ==
  t.kind = "aggregate" \/
    /\ ~md.aggregate_requested /\ md.aggregate_task_id = None /\ md.proposals # <<>>
    /\ \A i \in DOMAIN md.proposals :
         LET ref == stage_task_ref(ProposalId(key, md.proposals[i].request))
         IN  ref \in DOMAIN md.runtime.timings /\ md.runtime.timings[ref].status = "completed"

SyncedRecord(t, record) ==
  LET stage == StageName(IF t.kind = "proposal" THEN 4 ELSE 5)
      md == mark_stage_terminal(record.metadata, timing_key_for_stage_name(t, stage),
                                stage, "completed")
      completed == root_completed_by_proof_success(t, md, record.key)
  IN  [record EXCEPT !.metadata = [md EXCEPT !.runtime.active = stage],
                     !.status = IF completed THEN "completed" ELSE "allocated",
                     !.proof_uri = IF completed THEN root_task_ref(t) ELSE None]

\* The proof is there, made now or found published: the roots that own the
\* task record it.  A root that is already complete keeps its record.
sync_proof_success(t) ==
  LET owners == current_execution_owners(t, TRUE)
      stage == IF t.kind = "proposal" THEN "prove" ELSE "aggregate"
  IN  /\ t \in proofs \/ (lease[t].running /\ lease[t].stage >= 4)
      /\ records' = [r \in RootIds |-> IF r \in owners /\ records[r].status # "completed"
                                     THEN SyncedRecord(t, records[r]) ELSE records[r]]
      /\ proofs' = proofs \cup {t}
      /\ done' = done \cup {t}
      /\ lease' = [lease EXCEPT ![t] = None]
      /\ tracked' = tracked \ {tracking_key(t, stage)}
      /\ UNCHANGED <<cast, wants, handler, attached, leases, restarts>>

-----------------------------------------------------------------------------
\* The process stops; the next one starts only if every record decodes.
Restart ==
  /\ restarts < cast.restarts
  /\ \A r \in RootIds : records[r] # None => decode_for_record(records[r])
  /\ handler' = {} /\ attached' = {} /\ done' = {} /\ tracked' = {}
  /\ lease' = [t \in Tasks |-> None]
  /\ restarts' = restarts + 1
  /\ UNCHANGED <<cast, wants, records, proofs, leases>>

Init ==
  /\ cast \in Casts
  /\ wants = [r \in RootIds |-> TasksOf(cast.roots[r])]
  /\ records = [r \in RootIds |-> None]
  /\ handler = {} /\ attached = {} /\ done = {} /\ proofs = {} /\ tracked = {}
  /\ lease = [t \in Tasks |-> None]
  /\ leases = 0 /\ restarts = 0

Next ==
  \/ \E r \in RootIds : Register(r) \/ attach_submission_plan(r) \/ Resubmit(r) \/ Cancel(r)
  \/ \E t \in Tasks : LeaseTask(t)
  \/ \E t \in {u \in Tasks : lease[u] # None} :
       \/ on_task_started(t) \/ on_task_succeeded(t) \/ on_task_failed(t)
       \/ Requeue(t) \/ sync_proof_success(t)
       \/ \E q \in Submissions : on_task_progress(t, q)
  \/ Restart

Spec == Init /\ [][Next]_vars

-----------------------------------------------------------------------------
(* Properties *)

\* Whatever stage events, provider checkpoints, failures and cancellations the
\* observer wrote into a record, decode_for_record accepts it: no history of
\* work leaves a record that stops the service from starting.
PersistedDecodes == \A r \in RootIds : records[r] # None => decode_for_record(records[r])

\* The plan an identical request rebuilds from the record is the plan the root
\* was first attached with, so a recovered root meets the same engine tasks
\* and the same published proofs.
RecoveryKeepsPlan ==
  \A r \in RootIds : records[r] # None => RecoveryPlan(r) = execution_plan(PlanOf(cast.roots[r]))

\* A failed root is never stuck: whatever had been submitted to the provider
\* when it failed, the next identical request takes it up again.
FailedCanResume ==
  \A r \in RootIds : records[r] # None /\ records[r].status = "failed"
                     => should_reenqueue_existing_submission(records[r])

\* A checkpoint gives way to the one of a later attempt only.
LaterAttempt(old, new) ==
  new = old \/ (new.attempt # None /\ (old.attempt # None => new.attempt > old.attempt))

\* What a record says was submitted for a proposal, or for its aggregate, is
\* replaced only by a later attempt, and never forgotten: not by a failure, a
\* cancellation, a recovery, or a report that arrives late.
SubmissionsAdvance ==
  \A r \in RootIds : records[r] # None =>
    LET old == records[r].metadata.runtime
        new == records'[r].metadata.runtime
    IN  /\ \A ref \in DOMAIN old.proposals :
             ref \in DOMAIN new.proposals /\ LaterAttempt(old.proposals[ref], new.proposals[ref])
        /\ LaterAttempt(old.aggregate, new.aggregate)
=============================================================================
