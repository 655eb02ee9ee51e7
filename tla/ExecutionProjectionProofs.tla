--------------------- MODULE ExecutionProjectionProofs ---------------------
(***************************************************************************)
(* Leasing, completing and maintenance preserve the inductive invariant of *)
(* ExecutionProjection, and the safety properties it gives are theorems of *)
(* the specification, for every value of the constants.                    *)
(***************************************************************************)
EXTENDS ExecutionProjectionInv

LEMMA TakeReadyPreserves ==
  ASSUME IInv, NEW w \in Workers, TakeReady(w)
  PROVE  IInv'
<1> USE DEF IInv
<1> DEFINE t == hand[w]
           k == CHOOSE x \in Tokens : x \notin TokensInUse
<1>1. /\ t \in Tasks /\ status[t] = "Ready"
      /\ k \in Tokens /\ k \notin TokensInUse
  BY DEF TakeReady, TypeOK
<1>2. PICK n \in 1 .. MaxAttempt :
         /\ attempt' = [attempt EXCEPT ![t] = n]
         /\ lease' = [lease EXCEPT ![w] = [task |-> t, token |-> k, attempt |-> n,
                                           payload |-> payload[t], retry |-> RecordRetry(t)]]
  <2> DEFINE m == IF attempt[t] < MaxAttempt THEN attempt[t] + 1 ELSE MaxAttempt
  <2>1. m \in 1 .. MaxAttempt
    BY <1>1, ConstantsAssumption DEF TypeOK, ConstantsAssumption
  <2> QED BY <2>1, ZenonT(60) DEF TakeReady, NextAttempt
<1>3. /\ status' = [status EXCEPT ![t] = "Running"]
      /\ token' = [token EXCEPT ![t] = k]
      /\ hand' = [hand EXCEPT ![w] = None]
      /\ UNCHANGED <<def, remaining, dependents, payload, ownership, queues>>
  BY DEF TakeReady
<1>4. RecordRetry(t) \in RetryPolicies
  BY <1>1, ConstantsAssumption
  DEF RecordRetry, DurabilityRetry, RetryPolicies, EdgesDefined, Nodes, ConstantsAssumption
<1> HIDE DEF k
<1>5. TypeOK'
  BY <1>1, <1>2, <1>3, <1>4, ConstantsAssumption, SMTT(30)
  DEF TypeOK, States, Leases, ownership, queues, ConstantsAssumption
<1>6. /\ EdgesDefined' /\ IndexesAgree' /\ DependenciesOwned' /\ NoOrphanWork'
      /\ OwnedNotCancelled' /\ RunnableAfterDependencies' /\ PendingAccounted'
  <2>1. \A u \in Tasks : status'[u] # status[u] => status[u] = "Ready" /\ status'[u] = "Running"
    BY <1>1, <1>3 DEF TypeOK
  <2>2. status' \in [Tasks -> States]
    BY <1>5 DEF TypeOK
  <2> QED BY <1>3, <2>1, <2>2, RunnableStateChange
<1>7. ReadyReachable'
  <2> SUFFICES ASSUME NEW u \in Tasks, status'[u] = "Ready"
               PROVE  ready[u] > 0 \/ \E v \in Workers : hand'[v] = u
    BY <1>3 DEF ReadyReachable, queues
  <2>1. status[u] = "Ready" /\ u # t
    BY <1>1, <1>3 DEF TypeOK
  <2>2. \A v \in Workers : hand[v] = u => hand'[v] = u
    BY <1>3, <2>1 DEF TypeOK
  <2> QED BY <2>1, <2>2 DEF ReadyReachable
<1>8. RetriesScheduled'
  BY <1>1, <1>3 DEF RetriesScheduled, TypeOK, queues
<1>9. LeasesConsistent'
  <2>1. \A v \in Workers : v # w => lease'[v] = lease[v]
    BY <1>2 DEF TypeOK
  <2>2. /\ lease'[w].task = t /\ lease'[w].token = k /\ lease'[w].payload = payload[t]
    BY <1>2 DEF TypeOK
  <2>3. \A v \in Workers : v # w /\ lease'[v] # None => lease'[v].token # k
    BY <1>1, <2>1 DEF TokensInUse
  <2>4. \A u \in Tasks : u # t => token'[u] = token[u] /\ status'[u] = status[u]
    BY <1>3 DEF TypeOK
  <2>5. token'[t] = k
    BY <1>1, <1>3 DEF TypeOK
  <2>6. \A v \in Workers : lease[v] # None => lease[v].task \in Tasks
    BY LeaseFacts
  <2> QED BY <1>1, <1>3, <2>1, <2>2, <2>3, <2>4, <2>5, <2>6, SMTT(30) DEF LeasesConsistent
<1> QED BY <1>5, <1>6, <1>7, <1>8, <1>9

(* TakeNothing only lets go of an id whose task is not ready. *)
LEMMA TakeNothingPreserves ==
  ASSUME IInv, NEW w \in Workers, TakeNothing(w)
  PROVE  IInv'
<1> USE DEF IInv, TakeNothing
<1>1. TypeOK'
  BY DEF TypeOK, records, ownership, queues
<1>2. /\ EdgesDefined' /\ IndexesAgree' /\ DependenciesOwned' /\ NoOrphanWork'
      /\ OwnedNotCancelled' /\ RunnableAfterDependencies' /\ PendingAccounted'
  BY GraphInvariantsUnchanged DEF records
<1>3. ReadyReachable'
  <2> SUFFICES ASSUME NEW u \in Tasks, status[u] = "Ready"
               PROVE  ready[u] > 0 \/ \E v \in Workers : hand'[v] = u
    BY DEF ReadyReachable, queues, records
  <2>1. \A v \in Workers : hand[v] = u => hand'[v] = u
    BY DEF TypeOK
  <2> QED BY <2>1 DEF ReadyReachable
<1>4. RetriesScheduled' /\ LeasesConsistent'
  BY DEF RetriesScheduled, LeasesConsistent, records, queues
<1> QED BY <1>1, <1>2, <1>3, <1>4

LEMMA CheckpointPayloadPreserves ==
  ASSUME IInv, NEW w \in Workers, CheckpointPayload(w)
  PROVE  IInv'
<1> USE DEF IInv
<1> DEFINE t == lease[w].task
<1>1. /\ lease[w] # None /\ lease[w] \in Leases /\ t \in Tasks
      /\ token[t] = lease[w].token
  BY LeaseFacts DEF CheckpointPayload, Current
<1>2. /\ payload' = [payload EXCEPT ![t] = "Publish"]
      /\ lease' = [lease EXCEPT ![w] = [task |-> lease[w].task, token |-> lease[w].token,
                                         attempt |-> lease[w].attempt, payload |-> "Publish",
                                         retry |-> DurabilityRetry]]
      /\ UNCHANGED <<status, def, remaining, dependents, attempt, token>>
      /\ UNCHANGED <<ownership, queues, hand>>
  BY DEF CheckpointPayload
<1>3. DurabilityRetry \in RetryPolicies
  BY ConstantsAssumption DEF DurabilityRetry, RetryPolicies, ConstantsAssumption
<1>4. /\ lease'[w] \in Leases
      /\ lease'[w].task = t /\ lease'[w].token = lease[w].token
      /\ lease'[w].payload = "Publish"
      /\ \A v \in Workers : v # w => lease'[v] = lease[v]
      /\ lease' \in [Workers -> Leases \cup {None}]
  BY <1>1, <1>2, <1>3, ZenonT(60) DEF TypeOK, Leases
<1>5. TypeOK'
  BY <1>1, <1>2, <1>4 DEF TypeOK, ownership, queues
<1>6. /\ EdgesDefined' /\ IndexesAgree' /\ DependenciesOwned' /\ NoOrphanWork'
      /\ OwnedNotCancelled' /\ RunnableAfterDependencies' /\ PendingAccounted'
  BY <1>2, GraphInvariantsUnchanged
<1>7. ReadyReachable' /\ RetriesScheduled'
  BY <1>2 DEF ReadyReachable, RetriesScheduled, queues
<1>8. LeasesConsistent'
  <2>1. \A v \in Workers : lease'[v] # None => lease[v] # None /\ lease'[v].token = lease[v].token
                                                /\ lease'[v].task = lease[v].task
    BY <1>1, <1>4
  <2>2. \A v, x \in Workers :
           lease'[v] # None /\ lease'[x] # None /\ lease'[v].token = lease'[x].token => v = x
    BY <2>1 DEF LeasesConsistent
  <2>3. ASSUME NEW v \in Workers, lease'[v] # None, status[lease'[v].task] = "Running",
               token[lease'[v].task] = lease'[v].token
        PROVE  lease'[v].payload = payload'[lease'[v].task]
    <3>1. CASE v = w
      BY <1>1, <1>2, <1>4, <3>1 DEF TypeOK
    <3>2. CASE v # w
      <4>1. lease[v].task # t
        <5> SUFFICES ASSUME lease[v].task = t PROVE FALSE
          OBVIOUS
        <5>1. lease[v] # None /\ token[t] = lease[v].token
          BY <2>1, <2>3
        <5> QED BY <1>1, <3>2, <5>1, Zenon DEF LeasesConsistent
      <4>2. payload'[lease[v].task] = payload[lease[v].task]
        BY <1>2, <2>1, <2>3, <4>1, LeaseFacts DEF TypeOK
      <4> QED BY <1>4, <2>3, <3>2, <4>2 DEF LeasesConsistent
    <3> QED BY <3>1, <3>2
  <2> QED BY <1>2, <2>2, <2>3, ZenonT(60) DEF LeasesConsistent
<1> QED BY <1>5, <1>6, <1>7, <1>8

(* A worker that lets go of its lease leaves the others as they are. *)
LEMMA LeaseDropped ==
  ASSUME IInv, NEW w \in Workers, lease' = [lease EXCEPT ![w] = None],
         \A v \in Workers : lease[v] # None /\ v # w =>
             LET t == lease[v].task IN
             status'[t] = "Running" /\ token'[t] = lease[v].token =>
                 status[t] = "Running" /\ token[t] = lease[v].token /\ payload'[t] = payload[t]
  PROVE  lease' \in [Workers -> Leases \cup {None}] /\ LeasesConsistent'
<1>1. lease'[w] = None /\ \A v \in Workers : v # w => lease'[v] = lease[v]
  BY DEF IInv, TypeOK
<1>2. lease' \in [Workers -> Leases \cup {None}]
  BY DEF IInv, TypeOK
<1> QED BY <1>1, <1>2 DEF IInv, LeasesConsistent

LEMMA LeaseLostPreserves ==
  ASSUME IInv, NEW w \in Workers, CompleteStale(w) \/ LoseWorker(w)
  PROVE  IInv'
<1> USE DEF IInv
<1>1. lease' = [lease EXCEPT ![w] = None] /\ UNCHANGED <<records, ownership, queues, hand>>
  BY DEF CompleteStale, LoseWorker
<1>2. lease' \in [Workers -> Leases \cup {None}] /\ LeasesConsistent'
  BY <1>1, LeaseDropped, ZenonT(60) DEF records
<1>3. TypeOK'
  BY <1>1, <1>2 DEF TypeOK, records, ownership, queues
<1>4. /\ EdgesDefined' /\ IndexesAgree' /\ DependenciesOwned' /\ NoOrphanWork'
      /\ OwnedNotCancelled' /\ RunnableAfterDependencies' /\ PendingAccounted'
  BY <1>1, GraphInvariantsUnchanged DEF records
<1>5. ReadyReachable' /\ RetriesScheduled'
  BY <1>1 DEF ReadyReachable, RetriesScheduled, records, queues
<1> QED BY <1>2, <1>3, <1>4, <1>5

(* What a push onto the ready queues does to their counts. *)
LEMMA PushedFacts ==
  ASSUME IInv, NEW S,
         ready' = [t \in Tasks |-> IF t \in S THEN ready[t] + 1 ELSE ready[t]]
  PROVE  /\ ready' \in [Tasks -> Nat]
         /\ \A t \in Tasks : t \in S => ready'[t] > 0
         /\ \A t \in Tasks : t \notin S => ready'[t] = ready[t]
<1>1. \A t \in Tasks : ready[t] \in Nat
  BY Zenon DEF IInv, TypeOK
<1> QED BY <1>1

LEMMA PushedChanges ==
  ASSUME IInv, NEW t \in Tasks
  PROVE  Pushed({t}) # ready
<1>1. ready[t] \in Nat
  BY Zenon DEF IInv, TypeOK
<1>2. Pushed({t})[t] = ready[t] + 1
  BY DEF Pushed
<1> QED BY <1>1, <1>2

(* complete_retry returns the task to a queue or schedules it. *)
LEMMA CompleteRetryPreserves ==
  ASSUME IInv, NEW w \in Workers, NEW retry \in RetryPolicies, CompleteRetry(w, retry)
  PROVE  IInv'
<1> USE DEF IInv
<1> DEFINE t == lease[w].task
<1>1. /\ lease[w] # None /\ lease[w] \in Leases /\ t \in Tasks
      /\ status[t] = "Running" /\ token[t] = lease[w].token
  BY LeaseFacts DEF CompleteRetry, Current
<1>2. /\ payload' = [payload EXCEPT ![t] = lease[w].payload]
      /\ token' = [token EXCEPT ![t] = None]
      /\ lease' = [lease EXCEPT ![w] = None]
      /\ UNCHANGED <<def, remaining, dependents, attempt, ownership, hand>>
  BY DEF CompleteRetry
<1>3. \/ /\ status' = [status EXCEPT ![t] = "Ready"]
         /\ ready' = Pushed({t}) /\ scheduled' = scheduled
      \/ /\ status' = [status EXCEPT ![t] = "Retrying"]
         /\ scheduled' = scheduled \cup {t} /\ ready' = ready
  BY DEF CompleteRetry
<1>4. payload' = payload
  <2>1. lease[w].payload = payload[t]
    BY <1>1 DEF LeasesConsistent
  <2> QED BY <1>1, <1>2, <2>1 DEF TypeOK
<1>5. status' \in [Tasks -> States] /\ \A u \in Tasks : u # t => status'[u] = status[u]
  BY <1>3 DEF TypeOK, States
<1>6. lease' \in [Workers -> Leases \cup {None}] /\ LeasesConsistent'
  <2>1. \A u \in Tasks : u # t => token'[u] = token[u]
    BY <1>2 DEF TypeOK
  <2>2. token'[t] = None
    BY <1>1, <1>2 DEF TypeOK
  <2>3. ASSUME NEW v \in Workers, lease[v] # None, v # w,
               status'[lease[v].task] = "Running", token'[lease[v].task] = lease[v].token
        PROVE  /\ status[lease[v].task] = "Running" /\ token[lease[v].task] = lease[v].token
               /\ payload'[lease[v].task] = payload[lease[v].task]
    <3>1. lease[v].task \in Tasks /\ lease[v].token # None
      BY <2>3, LeaseFacts
    <3>2. lease[v].task # t
      BY <2>2, <2>3, <3>1
    <3> QED BY <1>4, <1>5, <2>1, <2>3, <3>1, <3>2
  <2>4. lease' = [lease EXCEPT ![w] = None]
    BY <1>2
  <2> QED BY <2>3, <2>4, LeaseDropped, ZenonT(60)
<1>7. TypeOK'
  <2>1. ready' \in [Tasks -> Nat]
    BY <1>3, PushedFacts, Zenon DEF TypeOK, Pushed
  <2>2. scheduled' \subseteq Tasks
    <3>1. scheduled \subseteq Tasks
      BY Zenon DEF TypeOK
    <3> QED BY <1>1, <1>3, <3>1
  <2> QED BY <1>2, <1>4, <1>5, <1>6, <2>1, <2>2, ZenonT(60) DEF TypeOK, ownership
<1>8. /\ EdgesDefined' /\ IndexesAgree' /\ DependenciesOwned' /\ NoOrphanWork'
      /\ OwnedNotCancelled' /\ RunnableAfterDependencies' /\ PendingAccounted'
  <2>1. status'[t] \in {"Ready", "Retrying"}
    BY <1>1, <1>3 DEF TypeOK
  <2> QED BY <1>1, <1>2, <1>5, <2>1, RunnableStateChange
<1>9. ReadyReachable' /\ RetriesScheduled'
  <2>1. hand' = hand
    BY <1>2
  <2>2. CASE ready' = Pushed({t})
    <3>1. status'[t] = "Ready" /\ scheduled' = scheduled
      BY <1>1, <1>3, <2>2, PushedChanges, Zenon DEF TypeOK
    <3>2. /\ ready'[t] > 0
          /\ \A u \in Tasks : u # t => ready'[u] = ready[u]
      <4>1. /\ \A u \in Tasks : u \in {t} => ready'[u] > 0
            /\ \A u \in Tasks : u \notin {t} => ready'[u] = ready[u]
        BY <2>2, PushedFacts, Zenon DEF Pushed
      <4> QED BY <1>1, <4>1
    <3>3. ReadyReachable'
      BY <1>5, <2>1, <3>2 DEF ReadyReachable
    <3>4. RetriesScheduled'
      BY <1>1, <1>5, <3>1 DEF RetriesScheduled
    <3> QED BY <3>3, <3>4
  <2>3. CASE ready' # Pushed({t})
    <3>1. status'[t] = "Retrying" /\ scheduled' = scheduled \cup {t} /\ ready' = ready
      BY <1>1, <1>3, <2>3, Zenon DEF TypeOK
    <3> QED BY <1>1, <1>5, <2>1, <3>1, Zenon DEF ReadyReachable, RetriesScheduled
  <2> QED BY <2>2, <2>3
<1> QED BY <1>6, <1>7, <1>8, <1>9

LEMMA MaintenancePreserves ==
  ASSUME IInv, NEW due \in SUBSET Tasks, PromoteScheduled(due) \/ RequeueExpired(due)
  PROVE  IInv'
<1> USE DEF IInv
<1>1. \A t \in due : status[t] \in {"Retrying", "Running"}
  BY DEF PromoteScheduled, RequeueExpired, RetriesScheduled
<1>2. /\ status' = Assign(status, due, "Ready")
      /\ ready' = [t \in Tasks |-> IF t \in due THEN ready[t] + 1 ELSE ready[t]]
      /\ scheduled' = {t \in scheduled : t \notin due}
      /\ UNCHANGED <<def, remaining, dependents, attempt, payload>>
      /\ UNCHANGED <<ownership, workers>>
  <2>1. CASE PromoteScheduled(due)
    <3>1. {t \in due : status[t] = "Retrying"} = due
      BY <2>1 DEF PromoteScheduled, RetriesScheduled
    <3> QED BY <2>1, <3>1 DEF PromoteScheduled, Pushed
  <2>2. CASE RequeueExpired(due)
    BY <2>2 DEF RequeueExpired, RetriesScheduled, Pushed
  <2> QED BY <2>1, <2>2
<1>3. token' = token \/ token' = Assign(token, due, None)
  BY DEF PromoteScheduled, RequeueExpired
<1>4. /\ status' \in [Tasks -> States]
      /\ \A t \in Tasks : status'[t] = IF t \in due THEN "Ready" ELSE status[t]
  BY <1>2 DEF TypeOK, States, Assign
<1>5. \A t \in Tasks \ due : token'[t] = token[t]
  BY <1>3 DEF Assign, TypeOK
<1>6. TypeOK'
  <2>1. token' \in [Tasks -> Tokens \cup {None}]
    BY <1>3 DEF Assign, TypeOK
  <2>2. ready' \in [Tasks -> Nat] /\ scheduled' \subseteq Tasks
    BY <1>2, PushedFacts, Zenon DEF TypeOK
  <2> QED BY <1>2, <1>4, <2>1, <2>2 DEF TypeOK, ownership, workers
<1>7. /\ EdgesDefined' /\ IndexesAgree' /\ DependenciesOwned' /\ NoOrphanWork'
      /\ OwnedNotCancelled' /\ RunnableAfterDependencies' /\ PendingAccounted'
  BY <1>1, <1>2, <1>4, RunnableStateChange
<1>8. ReadyReachable' /\ RetriesScheduled'
  <2>1. /\ \A t \in Tasks : t \in due => ready'[t] > 0
        /\ \A t \in Tasks : t \notin due => ready'[t] = ready[t]
    BY <1>2, PushedFacts, Zenon
  <2>2. hand' = hand
    BY <1>2 DEF workers
  <2> QED BY <1>2, <1>4, <2>1, <2>2, Zenon DEF ReadyReachable, RetriesScheduled
<1>9. LeasesConsistent'
  BY <1>2, <1>4, <1>5, LeaseFacts DEF LeasesConsistent, workers
<1> QED BY <1>6, <1>7, <1>8, <1>9

LEMMA CompleteFailedPreserves ==
  ASSUME IInv, NEW w \in Workers, NEW retry \in RetryPolicies, CompleteFailed(w, retry)
  PROVE  IInv'
<1> USE DEF IInv
<1> DEFINE t == lease[w].task
           failed == {t} \cup {u \in Reached({t}) : Live(u)}
<1>1. /\ t \in Tasks /\ status[t] = "Running" /\ Live(t)
      /\ failed \in SUBSET Tasks /\ \A u \in failed : Live(u)
  BY LeaseFacts DEF CompleteFailed, Current, Live, TerminalStates, FailedStates, Reached
<1>2. /\ status' = Assign(status, failed, "Failed")
      /\ token' = Assign(token, failed, None)
      /\ ready' = Assign(ready, failed, 0)
      /\ scheduled' = scheduled \ failed
      /\ lease' = [lease EXCEPT ![w] = None]
      /\ UNCHANGED <<def, remaining, dependents, attempt, payload, ownership, hand>>
  BY DEF CompleteFailed, RemoveQueueMemberships
<1>3. ASSUME NEW d \in failed, NEW u \in dependents[d], Live(u)
      PROVE  u \in failed
  <2>1. {t} \in SUBSET Tasks /\ d \in {t} \cup Reached({t})
    BY <1>1
  <2>2. dependents[d] \subseteq Reached({t})
    BY <2>1, ReachedClosed
  <2> QED BY <1>3, <2>2
<1> HIDE DEF failed
<1>4. \A u \in Tasks : status'[u] = (IF u \in failed THEN "Failed" ELSE status[u])
                     /\ token'[u] = (IF u \in failed THEN None ELSE token[u])
                     /\ ready'[u] = (IF u \in failed THEN 0 ELSE ready[u])
  BY <1>2 DEF Assign, TypeOK
<1>5. lease' \in [Workers -> Leases \cup {None}] /\ LeasesConsistent'
  BY <1>2, <1>4, LeaseFacts, LeaseDropped, ZenonT(60)
<1>6. TypeOK'
  BY <1>1, <1>2, <1>5 DEF TypeOK, Assign, States, ownership
<1>7. \A u \in Tasks : /\ status'[u] = "Absent" <=> status[u] = "Absent"
                       /\ status'[u] = "Succeeded" <=> status[u] = "Succeeded"
                       /\ Live(u)' <=> Live(u) /\ u \notin failed
  BY <1>1, <1>4 DEF Live, TerminalStates, FailedStates
<1>8. EdgesDefined' /\ IndexesAgree' /\ DependenciesOwned'
  BY <1>2, <1>7 DEF EdgesDefined, IndexesAgree, DependenciesOwned, ownership
<1>9. NoOrphanWork' /\ OwnedNotCancelled'
  BY <1>2, <1>4, <1>7 DEF NoOrphanWork, OwnedNotCancelled, ownership
<1>10. \A u \in Tasks : status[u] # "Absent" => def[u].deps \subseteq Tasks
  BY DEF EdgesDefined, Nodes
<1>11. RunnableAfterDependencies'
  BY <1>2, <1>4, <1>7, <1>10, ZenonT(60) DEF RunnableAfterDependencies
<1>12. PendingAccounted'
  <2> SUFFICES ASSUME NEW u \in Tasks, status'[u] = "Pending"
               PROVE  LET waits == Unresolved(def[u].deps, status') IN
                      /\ waits # {}
                      /\ remaining[u] = Cardinality(waits)
                      /\ \A d \in waits : Live(d)' /\ u \in dependents[d]
    BY <1>2, Zenon DEF PendingAccounted
  <2>1. status[u] = "Pending" /\ u \notin failed /\ Live(u)
    BY <1>4 DEF Live, TerminalStates, FailedStates
  <2>2. Unresolved(def[u].deps, status') = Unresolved(def[u].deps, status)
    BY <1>7, <1>10, <2>1 DEF Unresolved
  <2>3. \A d \in Unresolved(def[u].deps, status) :
           d \in Tasks /\ d \notin failed /\ Live(d) /\ u \in dependents[d]
    BY <1>3, <1>10, <2>1, ZenonT(60) DEF PendingAccounted, Unresolved
  <2> QED BY <1>7, <2>1, <2>2, <2>3 DEF PendingAccounted
<1>13. ReadyReachable' /\ RetriesScheduled'
  BY <1>2, <1>4 DEF ReadyReachable, RetriesScheduled
<1> QED BY <1>5, <1>6, <1>8, <1>9, <1>11, <1>12, <1>13

LEMMA CompleteSuccessPreserves ==
  ASSUME IInv, NEW w \in Workers, CompleteSuccess(w)
  PROVE  IInv'
<1> USE DEF IInv
<1> DEFINE t == lease[w].task
           pending  == {u \in dependents[t] : status[u] = "Pending"}
           released == {u \in pending : remaining[u] <= 1}
<1>1. /\ t \in Tasks /\ status[t] = "Running" /\ Live(t)
      /\ pending \in SUBSET Tasks /\ released \in SUBSET pending /\ t \notin pending
  BY LeaseFacts DEF CompleteSuccess, Current, Live, TerminalStates, FailedStates, TypeOK
<1>2. /\ status' = [u \in Tasks |-> IF u = t THEN "Succeeded"
                                  ELSE IF u \in released THEN "Ready" ELSE status[u]]
      /\ token' = [token EXCEPT ![t] = None]
      /\ remaining' = [u \in Tasks |-> IF u \in pending /\ remaining[u] > 0
                                     THEN remaining[u] - 1 ELSE remaining[u]]
      /\ ready' = [u \in Tasks |-> IF u = t THEN 0
                                 ELSE IF u \in released THEN ready[u] + 1 ELSE ready[u]]
      /\ scheduled' = scheduled \ {t}
      /\ lease' = [lease EXCEPT ![w] = None]
      /\ UNCHANGED <<def, dependents, attempt, payload, ownership, hand>>
  BY ZenonT(60) DEF CompleteSuccess, Pushed
<1>3. \A u \in pending : status[u] = "Pending" /\ u \in dependents[t]
  OBVIOUS
<1>4. \A u \in pending : u \in released <=> remaining[u] <= 1
  OBVIOUS
<1>5. \A u \in Tasks : status[u] = "Pending" /\ u \in dependents[t] => u \in pending
  OBVIOUS
<1> HIDE DEF pending, released
<1>6. \A u \in Tasks : u # t => token'[u] = token[u] /\ (status'[u] = "Running" => status[u] = "Running")
  BY <1>2 DEF TypeOK
<1>7. lease' \in [Workers -> Leases \cup {None}] /\ LeasesConsistent'
  BY <1>1, <1>2, <1>6, LeaseFacts, LeaseDropped, ZenonT(60)
<1>8. TypeOK'
  <2>1. status' \in [Tasks -> States] /\ token' \in [Tasks -> Tokens \cup {None}]
    BY <1>2, ZenonT(60) DEF TypeOK, States
  <2>2. \A u \in Tasks : remaining[u] \in Nat /\ ready[u] \in Nat
    BY Zenon DEF TypeOK
  <2>3. \A u \in Tasks : remaining'[u] \in Nat /\ ready'[u] \in Nat
    BY <1>2, <2>2
  <2>4. remaining' \in [Tasks -> Nat] /\ ready' \in [Tasks -> Nat] /\ scheduled' \subseteq Tasks
    BY <1>2, <2>3, Zenon DEF TypeOK
  <2> QED BY <1>2, <1>7, <2>1, <2>4 DEF TypeOK, ownership
<1>9. \A u \in Tasks : /\ status'[u] = "Absent" <=> status[u] = "Absent"
                       /\ status'[u] = "Succeeded" <=> status[u] = "Succeeded" \/ u = t
                       /\ Live(u)' <=> Live(u) /\ u # t
  BY <1>1, <1>2, <1>3 DEF Live, TerminalStates, FailedStates
<1>10. EdgesDefined' /\ IndexesAgree' /\ DependenciesOwned'
  BY <1>2, <1>9 DEF EdgesDefined, IndexesAgree, DependenciesOwned, ownership
<1>11. NoOrphanWork' /\ OwnedNotCancelled'
  BY <1>2, <1>9 DEF NoOrphanWork, OwnedNotCancelled, ownership
<1>12. \A u \in Tasks : status[u] # "Absent" => def[u].deps \subseteq Tasks
  BY DEF EdgesDefined, Nodes
<1>13. ASSUME NEW u \in Tasks, status[u] = "Pending"
       PROVE  LET waits == Unresolved(def[u].deps, status)
                  rest  == Unresolved(def[u].deps, status') IN
              /\ u \in pending => /\ rest = waits \ {t} /\ t \in waits
                                  /\ remaining[u] = Cardinality(rest) + 1
              /\ u \notin pending => rest = waits
  <2> DEFINE waits == Unresolved(def[u].deps, status)
             rest  == Unresolved(def[u].deps, status')
  <2>1. def[u].deps \subseteq Tasks
    BY <1>12, <1>13
  <2>2. rest = waits \ {t}
    BY <1>9, <2>1 DEF Unresolved
  <2>3. u \in pending <=> t \in waits
    BY <1>1, <1>3, <1>5, <1>13, ZenonT(60) DEF EdgesDefined, PendingAccounted, Unresolved
  <2>4. u \in pending => remaining[u] = Cardinality(rest) + 1
    <3> SUFFICES ASSUME t \in waits PROVE remaining[u] = Cardinality(waits \ {t}) + 1
      BY <2>2, <2>3
    <3>1. waits \in SUBSET Tasks
      BY <2>1 DEF Unresolved
    <3>2. IsFiniteSet(waits) /\ Cardinality(waits) \in Nat
      BY <3>1, FiniteDeps
    <3>3. Cardinality(waits \ {t}) = Cardinality(waits) - 1
      BY <3>2, FS_RemoveElement, ZenonT(60)
    <3>4. remaining[u] = Cardinality(waits)
      BY <1>13 DEF PendingAccounted
    <3> HIDE DEF waits
    <3> QED BY <3>2, <3>3, <3>4
  <2> QED BY <2>2, <2>3, <2>4
<1>14. ASSUME NEW u \in released
       PROVE  u \in Tasks /\ \A d \in def[u].deps : status'[d] = "Succeeded"
  <2> DEFINE rest == Unresolved(def[u].deps, status')
  <2>1. u \in Tasks /\ u \in pending /\ status[u] = "Pending" /\ remaining[u] <= 1
    BY <1>1, <1>3, <1>4
  <2>2. rest \in SUBSET Tasks
    BY <1>12, <2>1 DEF Unresolved
  <2>3. IsFiniteSet(rest) /\ Cardinality(rest) \in Nat
    BY <2>2, FiniteDeps
  <2>4. remaining[u] = Cardinality(rest) + 1
    BY <1>13, <2>1
  <2>5. Cardinality(rest) = 0
    BY <2>1, <2>3, <2>4, SMTT(30)
  <2>6. rest = {}
    BY <2>3, <2>5, FS_EmptySet
  <2> QED BY <2>1, <2>6 DEF Unresolved
<1>15. RunnableAfterDependencies'
  <2> SUFFICES ASSUME NEW u \in Tasks, status'[u] \in {"Ready", "Running", "Retrying"},
                      NEW d \in def[u].deps
               PROVE  status'[d] = "Succeeded"
    BY <1>2 DEF RunnableAfterDependencies
  <2>1. CASE u \in released
    BY <1>14, <2>1
  <2>2. CASE u \notin released
    <3>1. status[u] = status'[u]
      BY <1>2, <2>2
    <3> QED BY <1>9, <1>12, <3>1 DEF RunnableAfterDependencies
  <2> QED BY <2>1, <2>2
<1>16. PendingAccounted'
  <2> SUFFICES ASSUME NEW u \in Tasks, status'[u] = "Pending"
               PROVE  LET rest == Unresolved(def[u].deps, status') IN
                      /\ rest # {}
                      /\ remaining'[u] = Cardinality(rest)
                      /\ \A d \in rest : Live(d)' /\ u \in dependents[d]
    BY <1>2, ZenonT(60) DEF PendingAccounted
  <2> DEFINE waits == Unresolved(def[u].deps, status)
             rest  == Unresolved(def[u].deps, status')
  <2>1. status[u] = "Pending" /\ u # t /\ u \notin released
    BY <1>2
  <2>2. rest \in SUBSET Tasks /\ waits \in SUBSET Tasks
    BY <1>12, <2>1 DEF Unresolved
  <2>3. IsFiniteSet(rest) /\ Cardinality(rest) \in Nat
    BY <2>2, FiniteDeps
  <2>4. /\ waits # {}
        /\ remaining[u] = Cardinality(waits)
        /\ \A d \in waits : Live(d) /\ u \in dependents[d]
    BY <2>1 DEF PendingAccounted
  <2>5. rest \subseteq waits /\ t \notin rest
    BY <1>9, <2>2 DEF Unresolved
  <2>6. \A d \in rest : Live(d)' /\ u \in dependents[d]
    BY <1>9, <2>2, <2>4, <2>5
  <2>7. CASE u \in pending
    <3>1. remaining[u] = Cardinality(rest) + 1
      BY <1>13, <2>1, <2>7
    <3>2. ~(remaining[u] <= 1)
      BY <1>4, <2>1, <2>7
    <3> HIDE DEF rest, waits
    <3>3. Cardinality(rest) # 0 /\ remaining'[u] = Cardinality(rest)
      BY <1>2, <2>3, <2>7, <3>1, <3>2
    <3>4. rest # {}
      BY <3>3, FS_EmptySet
    <3> QED BY <2>6, <3>3, <3>4 DEF rest
  <2>8. CASE u \notin pending
    <3>1. rest = waits
      BY <1>13, <2>1, <2>8
    <3>2. remaining'[u] = remaining[u]
      BY <1>2, <2>8
    <3> QED BY <2>4, <2>6, <3>1, <3>2
  <2> QED BY <2>7, <2>8
<1>17. ReadyReachable'
  <2> SUFFICES ASSUME NEW u \in Tasks, status'[u] = "Ready"
               PROVE  ready'[u] > 0 \/ \E v \in Workers : hand[v] = u
    BY <1>2, Zenon DEF ReadyReachable
  <2>1. u # t
    BY <1>2
  <2>2. CASE u \in released
    <3>1. ready[u] \in Nat
      BY Zenon DEF TypeOK
    <3>2. ready'[u] = ready[u] + 1
      BY <1>2, <2>1, <2>2
    <3> QED BY <3>1, <3>2
  <2>3. CASE u \notin released
    <3>1. status[u] = "Ready" /\ ready'[u] = ready[u]
      BY <1>2, <2>1, <2>3
    <3> QED BY <3>1, Zenon DEF ReadyReachable
  <2> QED BY <2>2, <2>3
<1>18. RetriesScheduled'
  <2>1. \A u \in released : status[u] = "Pending"
    BY <1>1, <1>3
  <2> QED BY <1>1, <1>2, <2>1 DEF RetriesScheduled
<1> QED BY <1>7, <1>8, <1>10, <1>11, <1>15, <1>16, <1>17, <1>18

LEMMA InitIInv == Init => IInv
<1> SUFFICES ASSUME Init PROVE IInv
  OBVIOUS
<1> USE DEF Init
<1>1. TypeOK
  <2>1. 0 \in Nat /\ 0 \in 0 .. MaxAttempt
    BY ConstantsAssumption DEF ConstantsAssumption
  <2> QED BY <2>1, ZenonT(30) DEF TypeOK, States
<1>2. EdgesDefined /\ IndexesAgree /\ DependenciesOwned /\ NoOrphanWork /\ OwnedNotCancelled
  BY DEF EdgesDefined, IndexesAgree, DependenciesOwned, NoOrphanWork, OwnedNotCancelled, Live
<1>3. RunnableAfterDependencies /\ PendingAccounted /\ ReadyReachable /\ RetriesScheduled
  BY DEF RunnableAfterDependencies, PendingAccounted, ReadyReachable, RetriesScheduled
<1>4. LeasesConsistent
  BY DEF LeasesConsistent
<1> QED BY <1>1, <1>2, <1>3, <1>4 DEF IInv

LEMMA StutterPreserves == IInv /\ UNCHANGED vars => IInv'
<1> SUFFICES ASSUME IInv, UNCHANGED vars PROVE IInv'
  OBVIOUS
<1> USE DEF IInv, vars
<1>1. TypeOK' /\ LeasesConsistent'
  BY DEF TypeOK, LeasesConsistent
<1>2. /\ EdgesDefined' /\ IndexesAgree' /\ DependenciesOwned' /\ NoOrphanWork'
      /\ OwnedNotCancelled' /\ RunnableAfterDependencies' /\ PendingAccounted'
  BY GraphInvariantsUnchanged DEF ownership
<1>3. ReadyReachable' /\ RetriesScheduled'
  BY DEF ReadyReachable, RetriesScheduled
<1> QED BY <1>1, <1>2, <1>3

LEMMA NextPreserves == IInv /\ Next => IInv'
<1> SUFFICES ASSUME IInv, Next PROVE IInv'
  OBVIOUS
<1>1. CASE \E o \in Owners, g \in Graphs : AttachGraph(o, g)
  BY <1>1, AttachPreserves
<1>2. CASE \E o \in Owners : ReattachGraph(o) \/ DetachCancel(o) \/ DetachRemove(o)
  BY <1>2, ReattachPreserves, DetachCancelPreserves, DetachRemovePreserves
<1>3. ASSUME NEW w \in Workers, WorkerStep(w) PROVE IInv'
  <2>1. CASE \E t \in Tasks : PopReady(w, t)
    BY <2>1, PopReadyPreserves
  <2>2. CASE TakeReady(w) \/ TakeNothing(w) \/ CheckpointPayload(w)
    BY <2>2, TakeReadyPreserves, TakeNothingPreserves, CheckpointPayloadPreserves
  <2>3. CASE CompleteSuccess(w)
    BY <2>3, CompleteSuccessPreserves
  <2>4. CASE \E retry \in RetryPolicies : CompleteFailed(w, retry) \/ CompleteRetry(w, retry)
    BY <2>4, CompleteFailedPreserves, CompleteRetryPreserves
  <2>5. CASE CompleteStale(w) \/ LoseWorker(w)
    BY <2>5, LeaseLostPreserves
  <2> QED BY <1>3, <2>1, <2>2, <2>3, <2>4, <2>5 DEF WorkerStep
<1>4. CASE \E due \in SUBSET Tasks : PromoteScheduled(due) \/ RequeueExpired(due)
  BY <1>4, MaintenancePreserves
<1> QED BY <1>1, <1>2, <1>3, <1>4 DEF Next

(* The inductive invariant holds in every state MemoryStore can reach. *)
THEOREM Invariance == Spec => []IInv
<1>1. IInv /\ [Next]_vars => IInv'
  BY NextPreserves, StutterPreserves
<1> QED BY InitIInv, <1>1, PTL DEF Spec

(* Every variable keeps its type: no counter of the store leaves its range *)
(* and no lease names an unknown task.                                     *)
THEOREM TypeCorrect == Spec => []TypeOK
<1>1. IInv => TypeOK
  BY DEF IInv
<1> QED BY Invariance, <1>1, PTL

(* attach_graph and detach_owner keep the ownership indexes in agreement,  *)
(* and leave neither orphaned work nor an owned cancelled task behind.     *)
THEOREM OwnershipSafe == Spec => []OwnershipSound
<1>1. IInv => OwnershipSound
  BY DEF IInv, OwnershipSound
<1> QED BY Invariance, <1>1, PTL

(* A task runs only after its dependencies succeeded, whatever mix of      *)
(* owners shares them.                                                     *)
THEOREM DependenciesFirst == Spec => []RunnableAfterDependencies
<1>1. IInv => RunnableAfterDependencies
  BY DEF IInv
<1> QED BY Invariance, <1>1, PTL

(* The store never forgets a task: a pending one is counted and linked for *)
(* each dependency it waits for, a ready one can be popped, a retrying one *)
(* is scheduled.                                                           *)
THEOREM NoTaskForgotten == Spec => []NothingForgotten
<1>1. IInv => NothingForgotten
  BY DEF IInv, NothingForgotten
<1> QED BY Invariance, <1>1, PTL

(* running_lease_matches admits one worker at most. *)
THEOREM OneCurrentLease == Spec => []LeaseExclusive
<1>1. IInv => LeaseExclusive
  BY DEF IInv, LeasesConsistent, LeaseExclusive, Current
<1> QED BY Invariance, <1>1, PTL

(* The unreachable! of reset_attached_terminal_nodes is not reached. *)
THEOREM ResetNeverPanics == Spec => []ResetComplete
<1>1. IInv => ResetComplete
  <2> SUFFICES ASSUME IInv, NEW o \in Owners, ownerState[o] = "Attached",
                      NEW t \in graph[o], NEW d \in def[t].deps
               PROVE  d \in graph[o]
    BY DEF ResetComplete
  <2>1. t \in Tasks /\ o \in owners[t] /\ status[t] # "Absent"
    BY DEF IInv, TypeOK, IndexesAgree
  <2>2. d \in Tasks
    BY <2>1 DEF IInv, EdgesDefined, Nodes
  <2>3. o \in owners[d]
    BY <2>1 DEF IInv, DependenciesOwned
  <2> QED BY <2>2, <2>3 DEF IInv, IndexesAgree
<1> QED BY Invariance, <1>1, PTL

-----------------------------------------------------------------------------
(* What a step may never do                                                *)

LEMMA DetachLeavesOthers == IInv /\ [Next]_vars => [OthersUntouched]_vars
<1> SUFFICES ASSUME IInv, Next,
                    NEW o \in Owners, ownerState[o] = "Attached", ownerState'[o] # "Attached",
                    NEW t \in Tasks, owners'[t] # {}
             PROVE  status'[t] = status[t] /\ token'[t] = token[t] /\ payload'[t] = payload[t]
  BY DEF OthersUntouched
<1>1. ASSUME NEW p \in Owners, DetachCancel(p)
      PROVE  status'[t] = status[t] /\ token'[t] = token[t] /\ payload'[t] = payload[t]
  <2> DEFINE cancelled == {u \in RetiredBy(p) : Live(u)}
             failed    == {u \in Reached(cancelled) : Live(u)}
  <2>1. ownerState[p] = "Attached" /\ owners' = OwnersWithout(p)
    BY <1>1, Zenon DEF DetachCancel
  <2>2. \A u \in cancelled \cup Reached(cancelled) : OwnersWithout(p)[u] = {}
    <3>1. cancelled \in SUBSET RetiredBy(p) /\ ownerState[p] \in {"Attached", "Retired"}
      BY <2>1
    <3> HIDE DEF cancelled
    <3> QED BY <3>1, CancelReachesUnowned, Zenon
  <2>3. t \notin cancelled /\ t \notin failed
    BY <2>1, <2>2
  <2> QED BY <1>1, <2>3, Zenon DEF DetachCancel, Assign, IInv, TypeOK
<1>2. ASSUME NEW p \in Owners, DetachRemove(p)
      PROVE  status'[t] = status[t] /\ token'[t] = token[t] /\ payload'[t] = payload[t]
  <2>1. t \notin RetiredBy(p)
    BY <1>2, Zenon DEF DetachRemove, RetiredBy
  <2> QED BY <1>2, <2>1 DEF DetachRemove, Assign, IInv, TypeOK
<1>3. ASSUME NEW p \in Owners, NEW g \in Graphs, AttachGraph(p, g) PROVE FALSE
  BY <1>3, Zenon DEF AttachGraph, IInv, TypeOK
<1>4. ASSUME UNCHANGED ownerState PROVE FALSE
  BY <1>4
<1>5. ASSUME NEW p \in Owners, ReattachGraph(p) PROVE UNCHANGED ownerState
  BY <1>5, Zenon DEF ReattachGraph, ownership
<1>6. ASSUME NEW w \in Workers, WorkerStep(w) PROVE UNCHANGED ownerState
  BY <1>6, Zenon DEF WorkerStep, PopReady, TakeReady, TakeNothing, CheckpointPayload, CompleteSuccess,
              CompleteFailed, CompleteRetry, CompleteStale, LoseWorker, ownership
<1>7. ASSUME NEW due \in SUBSET Tasks, PromoteScheduled(due) \/ RequeueExpired(due)
      PROVE  UNCHANGED ownerState
  BY <1>7, Zenon DEF PromoteScheduled, RequeueExpired, ownership
<1> QED BY <1>1, <1>2, <1>3, <1>4, <1>5, <1>6, <1>7, Zenon DEF Next

(* detach_owner touches no task that another root owns. *)
THEOREM DetachIsIsolated == Spec => DetachIsolated
BY Invariance, DetachLeavesOthers, PTL DEF Spec, DetachIsolated

(* What the steps do to a task that has succeeded and to a stored proof. *)
LEMMA SuccessAndProofStay == IInv /\ [Next]_vars => [SucceededStays]_vars /\ [ProofStays]_vars
<1> SUFFICES ASSUME IInv, Next, NEW t \in Tasks
             PROVE  /\ status[t] = "Succeeded" => status'[t] \in {"Succeeded", "Absent"}
                    /\ payload[t] = "Publish" /\ Live(t) =>
                          payload'[t] = "Publish" \/ status'[t] \in TerminalStates \cup {"Absent"}
  BY DEF SucceededStays, ProofStays
<1> DEFINE Goal == /\ status[t] = "Succeeded" => status'[t] \in {"Succeeded", "Absent"}
                   /\ payload[t] = "Publish" /\ Live(t) =>
                          payload'[t] = "Publish" \/ status'[t] \in TerminalStates \cup {"Absent"}
<1>1. ASSUME NEW g, NEW ins, NEW new, InsertNodes(g, ins, new),
             \A u \in ins : status[u] \in {"Absent"} \cup FailedStates
      PROVE  Goal
  BY <1>1 DEF InsertNodes, Assign, IInv, TypeOK, FailedStates, TerminalStates, Live
<1>2. ASSUME NEW o \in Owners, NEW g \in Graphs, AttachGraph(o, g) PROVE Goal
  <2> DEFINE ins == {u \in DOMAIN g :
                       status[u] = "Absent" \/ (status[u] \in FailedStates /\ owners[u] = {})}
  <2>1. PICK new \in [ins -> {"Ready", "Pending", "Failed", "Cancelled"}] : InsertNodes(g, ins, new)
    BY <1>2, ZenonT(60) DEF AttachGraph, Inserted
  <2>2. \A u \in ins : status[u] \in {"Absent"} \cup FailedStates
    OBVIOUS
  <2> QED BY <1>1, <2>1, <2>2, Zenon
<1>3. ASSUME NEW o \in Owners, ReattachGraph(o) PROVE Goal
  <2> DEFINE reset == {u \in graph[o] : status[u] \in FailedStates}
  <2>1. PICK new \in [reset -> {"Ready", "Pending"}] : InsertNodes(def, reset, new)
    BY <1>3 DEF ReattachGraph
  <2>2. \A u \in reset : status[u] \in {"Absent"} \cup FailedStates
    OBVIOUS
  <2> QED BY <1>1, <2>1, <2>2
<1>4. ASSUME NEW o \in Owners, DetachCancel(o) \/ DetachRemove(o) PROVE Goal
  <2>1. CASE DetachCancel(o)
    <3>1. status[t] = "Succeeded" => ~Live(t)
      BY DEF Live, TerminalStates
    <3>2. status'[t] = status[t] \/ Live(t)
      BY <2>1 DEF DetachCancel
    <3>3. payload' = payload
      BY <2>1 DEF DetachCancel
    <3> QED BY <3>1, <3>2, <3>3
  <2>2. CASE DetachRemove(o)
    BY <2>2 DEF DetachRemove, Assign, IInv, TypeOK
  <2> QED BY <1>4, <2>1, <2>2
<1>5. ASSUME NEW w \in Workers, WorkerStep(w) PROVE Goal
  <2>1. CASE \E u \in Tasks : PopReady(w, u)
    BY <2>1, Zenon DEF PopReady, records
  <2>2. CASE TakeReady(w)
    BY <2>2, Zenon DEF TakeReady, IInv, TypeOK
  <2>3. CASE TakeNothing(w) \/ CompleteStale(w) \/ LoseWorker(w)
    BY <2>3, Zenon DEF TakeNothing, CompleteStale, LoseWorker, records
  <2>4. CASE CheckpointPayload(w)
    BY <2>4 DEF CheckpointPayload, IInv, TypeOK
  <2>5. CASE CompleteSuccess(w)
    BY <2>5, LeaseFacts, Zenon DEF CompleteSuccess, Current, IInv, TypeOK
  <2>6. CASE \E retry \in RetryPolicies : CompleteFailed(w, retry)
    BY <2>6, LeaseFacts, Zenon
    DEF CompleteFailed, Current, Assign, IInv, TypeOK, Live, TerminalStates, FailedStates
  <2>7. CASE \E retry \in RetryPolicies : CompleteRetry(w, retry)
    <3>1. PICK retry \in RetryPolicies : CompleteRetry(w, retry)
      BY <2>7
    <3> DEFINE u == lease[w].task
    <3>2. /\ lease[w] # None /\ u \in Tasks
          /\ status[u] = "Running" /\ token[u] = lease[w].token
      BY <3>1, LeaseFacts, Zenon DEF CompleteRetry, Current
    <3>3. lease[w].payload = payload[u]
      BY <3>2, Zenon DEF IInv, LeasesConsistent
    <3>4. payload' = [payload EXCEPT ![u] = lease[w].payload]
      BY <3>1 DEF CompleteRetry
    <3>5. payload' = payload
      BY <3>2, <3>3, <3>4 DEF IInv, TypeOK
    <3>6. \/ status' = [status EXCEPT ![u] = "Ready"]
          \/ status' = [status EXCEPT ![u] = "Retrying"]
      BY <3>1, Zenon DEF CompleteRetry
    <3>7. t # u => status'[t] = status[t]
      BY <3>6 DEF IInv, TypeOK
    <3>8. t = u => status[t] # "Succeeded"
      BY <3>2
    <3> QED BY <3>5, <3>7, <3>8
  <2> QED BY <1>5, <2>1, <2>2, <2>3, <2>4, <2>5, <2>6, <2>7, Zenon DEF WorkerStep
<1>6. ASSUME NEW due \in SUBSET Tasks, PromoteScheduled(due) \/ RequeueExpired(due) PROVE Goal
  BY <1>6 DEF PromoteScheduled, RequeueExpired, Assign, IInv, TypeOK
<1> HIDE DEF Goal
<1>7. Goal
  BY <1>2, <1>3, <1>4, <1>5, <1>6 DEF Next
<1> QED BY <1>7 DEF Goal

(* A success is final while the record exists. *)
THEOREM SuccessIsFinal == Spec => SuccessFinal
<1>1. IInv /\ [Next]_vars => [SucceededStays]_vars
  BY SuccessAndProofStay
<1> QED BY Invariance, <1>1, PTL DEF Spec, SuccessFinal

(* No retry, requeue or late worker overwrites a checkpointed proof. *)
THEOREM CheckpointIsKept == Spec => CheckpointKept
<1>1. IInv /\ [Next]_vars => [ProofStays]_vars
  BY SuccessAndProofStay
<1> QED BY Invariance, <1>1, PTL DEF Spec, CheckpointKept
=============================================================================
