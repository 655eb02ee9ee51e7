---------------------------- MODULE ProofStatus ----------------------------
(***************************************************************************)
(* What the API says of a root while the service works on it.              *)
(*                                                                         *)
(* A status call reads the root's record, completes it if its proofs are   *)
(* there, then asks the queue for each task of the plan and, depending on  *)
(* the answer, the store for the proof of that task.  Nothing holds these  *)
(* reads together: requests, workers and maintenance (ProofRoots) go on    *)
(* between any two of them.  The clear call of an operator lists the       *)
(* records first and cancels them one by one.                              *)
(***************************************************************************)
EXTENDS ProofRoots

VARIABLES
    reader,  \* where the status call stands
    begun,   \* what earlier calls had reported when it began
    seen,    \* what has been so at some moment since it began
    told,    \* the final states reported so far, of each root
    tally,   \* where the operator's backlog call stands
    rested   \* the roots that were settled at some moment of that call

statusVars == <<reader, begun, seen, told, tally, rested>>
allVars == <<vars, statusVars>>

NoRead == [pc |-> "idle", root |-> None, t |-> None, left |-> {}, node |-> None,
           present |-> {}, got |-> [n \in Nodes |-> None]]

NoTally == [pc |-> "idle", left |-> {}, nodes |-> {}, busy |-> FALSE]

StatusInit ==
    /\ Init
    /\ tally = NoTally /\ rested = {}
    /\ reader = NoRead
    /\ begun = {} /\ seen = {} /\ told = {}

-----------------------------------------------------------------------------
(* The pieces of an answer                                                 *)

\* TaskMetadata::has_runtime_progress
HasProgress(t) == t.stage # None \/ t.done # {} \/ t.remote

\* summarize_task, of a node the queue knows.
QueueStatus(n) ==
    CASE node[n].st \in {"Pending", "Ready", "Retrying"} -> "Pending"
      [] node[n].st = "Running"   -> "Proving"
      [] node[n].st = "Succeeded" -> "Completed"
      [] OTHER                    -> node[n].st

\* runner_status_to_proof_status
RecordStatus(t) ==
    IF t.status # "Allocated" THEN t.status
    ELSE IF HasProgress(t) THEN "Proving" ELSE "Pending"

\* summarize_proposal_task_state of the one task of a proposal, then
\* fallback_status_without_engine.
NodeStatus(n, t) ==
    IF node[n].st = "Absent" \/ QueueStatus(n) = "Pending" THEN RecordStatus(t)
    ELSE QueueStatus(n)

\* should_probe_proof_artifact
ShouldProbe(n, status) == node[n].st = "Absent" \/ status \notin {"Pending", "Proving"}

\* require_published_proof: completed without a proof to show is failed.
Published(found, status) ==
    IF found THEN "Completed" ELSE IF status = "Completed" THEN "Failed" ELSE status

\* summarize_root_status, of the states got for the nodes of ns.
RootSummary(ns, got) ==
    LET proposals == ns \ Aggregates
        aggregate == ns \cap Aggregates
        Any(s, of) == \E n \in of : got[n] = s
        OfAggregate(otherwise) ==
            IF aggregate = {} THEN otherwise ELSE got[CHOOSE n \in aggregate : TRUE]
    IN  IF proposals = {} THEN OfAggregate("Pending")
        ELSE IF Any("Failed", ns) THEN "Failed"
        ELSE IF Any("Proving", ns) THEN "Proving"
        ELSE IF \A n \in proposals : got[n] = "Completed" THEN OfAggregate("Completed")
        ELSE IF Any("Cancelled", proposals) THEN "Cancelled"
        ELSE "Pending"

\* resolve_root_task_state: the record decides on a cancellation, and where the
\* tasks say nothing yet.  `shown' are the nodes whose proof was found.
RootState(t, ns, got, shown) ==
    LET summary == RootSummary(ns, got)
        status == IF summary = "Pending" THEN RecordStatus(t) ELSE summary
        own == IF ns \cap Aggregates # {} THEN ns \cap Aggregates
               ELSE IF Cardinality(ns) = 1 THEN ns ELSE {}
    IN  IF t.status = "Cancelled" THEN "Cancelled"
        ELSE IF status = "Completed" /\ ~ own \subseteq shown THEN "Failed"
        ELSE status

-----------------------------------------------------------------------------
(* The status call                                                         *)

Reading(pc) == reader.pc = pc

\* load_task_lookup
Lookup(r) ==
    /\ Reading("idle") /\ r \in cast.roots /\ rec[r] # None
    /\ reader' = [NoRead EXCEPT !.pc = "reconcile", !.root = r, !.t = rec[r],
                                !.left = Plan[r]]
    /\ begun' = told
    /\ UNCHANGED <<told, tally, vars>>

\* reconcile_runtime_task_from_artifacts, on behalf of the record that was read; if
\* it is completed by now, so is the copy the answer is made from.
ReadReconcile ==
    LET r == reader.root
        t == reader.t
        now == IF t.status = "Allocated" THEN Reconciled(r, t.inc) ELSE rec
        done == /\ t.status = "Allocated" /\ Evidence(r) \subseteq proof
                /\ now[r] # None /\ now[r].inc = t.inc /\ now[r].status = "Completed"
    IN
    /\ Reading("reconcile")
    /\ rec' = now
    /\ reader' = [reader EXCEPT !.pc = "next",
                                !.t = IF done THEN [t EXCEPT !.status = "Completed"] ELSE t]
    /\ UNCHANGED <<begun, told, tally, proof, queue, gate, stored, worker, caller, moves, cast>>

\* The proposals in the order of the plan, then the aggregate.
NextNode ==
    LET proposals == reader.left \ Aggregates IN
    IF proposals # {} THEN CHOOSE n \in proposals : TRUE ELSE CHOOSE n \in reader.left : TRUE

\* Mutant: the store is asked before the queue.
AskQueueLate ==
    LET n == NextNode
        held == n \in proof
    IN
    /\ Reading("next") /\ reader.left # {}
    /\ \/ /\ reader.node = None
          /\ reader' = [reader EXCEPT !.node = n, !.got = [@ EXCEPT ![n] = IF held THEN "Completed" ELSE "Pending"]]
       \/ /\ reader.node # None
          /\ reader' = [reader EXCEPT !.node = None, !.left = @ \ {n},
                 !.present = IF reader.got[n] = "Completed" THEN @ \cup {n} ELSE @,
                 !.got = [@ EXCEPT ![n] =
                     IF ~ ShouldProbe(n, NodeStatus(n, reader.t)) THEN NodeStatus(n, reader.t)
                     ELSE IF @ = "Completed" THEN "Completed"
                     ELSE IF NodeStatus(n, reader.t) = "Completed" THEN "Failed"
                     ELSE NodeStatus(n, reader.t)]]
    /\ UNCHANGED <<begun, told, tally, vars>>

\* load_proposal_statuses and load_aggregate_status: ask the queue.
AskQueue ==
    LET n == NextNode
        status == NodeStatus(n, reader.t)
    IN
    /\ Reading("next") /\ reader.left # {}
    /\ reader' = [reader EXCEPT !.pc = IF ShouldProbe(n, status) THEN "probe" ELSE "next",
                                !.left = @ \ {n}, !.node = n,
                                !.got = [@ EXCEPT ![n] = status]]
    /\ UNCHANGED <<begun, told, tally, vars>>

\* What the store said of the node that was asked for.
Probed(found) ==
    LET n == reader.node IN
    reader' = [reader EXCEPT !.pc = "next",
                             !.present = IF found THEN @ \cup {n} ELSE @,
                             !.got = [@ EXCEPT ![n] = Published(found, @)]]

\* load_first_proof_artifact_material: the registration and the bytes are read ...
AskStore ==
    /\ Reading("probe")
    /\ IF reader.node \in proof THEN reader' = [reader EXCEPT !.pc = "recheck"] ELSE Probed(FALSE)
    /\ UNCHANGED <<begun, told, tally, vars>>

\* ... and load_proof_artifact_material shows them only if the registration is still
\* active.
Recheck ==
    /\ Reading("recheck")
    /\ Probed(reader.node \in proof)
    /\ UNCHANGED <<begun, told, tally, vars>>

Answer == RootState(reader.t, Plan[reader.root], reader.got, reader.present)

Final == {"Completed", "Failed", "Cancelled"}

Told(t, status) == [owner |-> Owner(reader.root, t.inc), status |-> status]

\* The rest of load_task_data_from_lookup.
Report ==
    /\ Reading("next") /\ reader.left = {}
    /\ reader' = NoRead
    /\ told' = IF Answer \in Final \ {"Failed"} THEN told \cup {Told(reader.t, Answer)} ELSE told
    /\ UNCHANGED <<begun, tally, vars>>

ReadStep ==
    \/ \E r \in Roots : Lookup(r)
    \/ ReadReconcile \/ AskQueue \/ AskStore \/ Recheck \/ Report

-----------------------------------------------------------------------------
(* The clear call                                                          *)

\* clear_prover_tasks looks at the record it listed: a root that has ended, or that
\* has a paid request, is skipped, any other is cancelled by ProofRoots!Cancel.
ClearCall(c, r) ==
    /\ Call(c, "clear") /\ rec[r] # None /\ ~ Terminal(rec[r]) /\ ~ rec[r].remote
    /\ GotoWith(c, "cancel", r, rec[r], FALSE)
    /\ UNCHANGED <<rec, proof, gate, cast, reader, begun, told, tally>> /\ QueueKept

-----------------------------------------------------------------------------
(* The backlog call                                                        *)

Tallying(pc) == tally.pc = pc

TallyKept == UNCHANGED <<reader, begun, told>>

Open(r) == rec[r] # None /\ ~ Terminal(rec[r])

\* collect_prover_status lists the records; those that have ended do not count, and
\* a paid request (count_network_inflight) makes the answer unclean.
TallyList ==
    /\ Tallying("idle") /\ "tally" \in cast.calls /\ Move
    /\ tally' = [pc |-> "inspect", left |-> {[root |-> r, t |-> rec[r]] : r \in {q \in Roots : Open(q)}},
                 nodes |-> {}, busy |-> \E r \in Roots : Open(r) /\ rec[r].remote]
    /\ UNCHANGED <<rec, proof, queue, gate, stored, worker, caller, cast>> /\ TallyKept

\* A root without live execution and without a paid request is orphaned.
TallyInspect(e) ==
    /\ Tallying("inspect") /\ e \in tally.left
    /\ tally' = [tally EXCEPT !.left = @ \ {e}, !.nodes = @ \cup Plan[e.root],
                     !.busy = @ \/ (~ HasActive(Owner(e.root, e.t.inc)) /\ ~ e.t.remote)]
    /\ UNCHANGED vars /\ TallyKept

\* count_matching_queue_tasks, one task at a time.
TallyCount(n) ==
    /\ Tallying("inspect") /\ tally.left = {} /\ n \in tally.nodes
    /\ tally' = [tally EXCEPT !.nodes = @ \ {n}, !.busy = @ \/ node[n].st \in Active]
    /\ UNCHANGED vars /\ TallyKept

\* get_prover_status: clean when nothing was counted.
TallyReport ==
    /\ Tallying("inspect") /\ tally.left = {} /\ tally.nodes = {}
    /\ tally' = NoTally
    /\ UNCHANGED vars /\ TallyKept

TallyStep ==
    \/ TallyList \/ TallyReport
    \/ \E e \in tally.left : TallyInspect(e)
    \/ \E n \in tally.nodes : TallyCount(n)

-----------------------------------------------------------------------------
(* What has been so since the call began.  "live": its owner was attached  *)
(* and its record open, all the time.                                      *)

Owns(r, t) == rec[r] # None /\ rec[r].inc = t.inc

Moments(r, t) ==
    {n \in Plan[r] : n \in proof}
      \cup {x \in {"ended"} : ~ (Owns(r, t) /\ rec[r].status = "Allocated"
                                  /\ Owner(r, t.inc) \in attached)}
      \cup {x \in {"lost"} : \E n \in Plan[r] \ proof :
                                \/ t.status = "Completed"
                                \/ Owns(r, t) /\ rec[r].status = "Completed"
                                \/ node[n].st = "Succeeded"}

Watch ==
    seen' = IF reader'.pc = "idle" THEN {}
            ELSE (IF Reading("idle") THEN {} ELSE seen) \cup Moments(reader.root, reader.t)'

\* Nothing is left to be done for r: it has ended, or its proofs are there.
Settled(r) == Open(r) => Evidence(r) \subseteq proof

WatchTally ==
    rested' = IF tally'.pc = "idle" THEN {}
              ELSE {r \in Roots : Settled(r)} \cup {r \in Roots : Settled(r)'} \cup rested

StatusNext ==
    /\ \/ Next /\ UNCHANGED <<reader, begun, told, tally>>
       \/ \E c \in Callers, r \in cast.roots : ClearCall(c, r)
       \/ "read" \in cast.calls /\ ReadStep
       \/ TallyStep
    /\ Watch /\ WatchTally

StatusSpec == StatusInit /\ [][StatusNext]_allVars

-----------------------------------------------------------------------------
(* A call that answers Completed has seen the proofs that make the root    *)
(* so: its own proof, or those of all its proposals, were readable at some *)
(* moment of the call.                                                     *)
CompletedWasReadable ==
    [][Report /\ Answer = "Completed" => Evidence(reader.root) \subseteq seen]_allVars

(* A root that is open and attached during the whole call is not reported  *)
(* Failed or Cancelled, however its tasks move between the reads, unless a *)
(* proof of one of its finished tasks cannot be read.                      *)
LiveIsNotEnded ==
    [][Report /\ Answer \in {"Failed", "Cancelled"} => seen \cap {"ended", "lost"} # {}]_allVars

(* A root once reported Cancelled is never reported otherwise by a later   *)
(* call.  One reported Completed is not reported Pending or Failed later,  *)
(* until it is retired or a proof of it is lost; it may be reported as     *)
(* Proving while the worker that proved it has not left the queue.         *)
ReportsStand ==
    [][Report => \A x \in begun : x.owner = Owner(reader.root, reader.t.inc) =>
          \/ Answer = x.status
          \/ x.status = "Completed" /\ (Answer \in {"Proving", "Cancelled"} \/ "lost" \in seen)]_allVars

(* A backlog call that answers clean has missed no work: no root was open  *)
(* without its proofs from the beginning of the call to its end.           *)
CleanWasIdle ==
    [][TallyReport /\ ~ tally.busy => rested \cup {r \in Roots : Settled(r)} = Roots]_allVars

(* What the status calls answer is so: the four above.                     *)
AnswersAreTrue == CompletedWasReadable /\ LiveIsNotEnded /\ ReportsStand /\ CleanWasIdle
=============================================================================
