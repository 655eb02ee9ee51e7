------------------------- MODULE RuntimeCommitInv --------------------------
(***************************************************************************)
(* The inductive invariant of RuntimeCommit, for any sets of callers, any  *)
(* encodings and any bounds, and the proof of what it says about control:  *)
(* types, the mutation lock, the fence, the permits, the drain.            *)
(*                                                                         *)
(* The argument.  Whatever a process holds of the runtime-state object -   *)
(* its snapshot, the object a conflict showed it, the write it knows       *)
(* applied - is a former value of the object (PastOf), and every write     *)
(* under way, also one nobody waits for, adds one update to the value of   *)
(* its expected generation (FitsOf).  A matching write therefore keeps     *)
(* what is durable and adds an update that was not, so an acknowledged     *)
(* update stays, and is there once.  The mutation lock makes everything    *)
(* between the clone of the snapshot and the installation a private matter *)
(* of its holder (Locked, Prepared), which leaves three ways for snapshot  *)
(* and object to part: a write behind the process's back, the holder       *)
(* between the store's answer and its own next step (Current), and an      *)
(* error that the code marks Recoverable.  Draining is a matter of who may *)
(* still have what: the fence and the permits account for every caller on  *)
(* the way (Fenced, Permitted), and what was accepted is durable or under  *)
(* a permit (Owing).                                                       *)
(***************************************************************************)
EXTENDS RuntimeCommit, TLAPS

Holding == {"reload", "ready", "writing", "stored", "conflict", "failed"}
Issued == {"writing", "stored", "conflict", "failed"}
OnTheWay == {"admitted", "submitting", "checkpoint", "unsynced", "fenced", "queued"} \cup Holding
Accepted == {"checkpoint", "unsynced", "fenced", "queued"} \cup Holding

\* The callers inside the mutation lock are its holder.
Locked == \A c \in Callers : pc[c] \in Holding <=> mutex = c

\* A plain caller between Enter and its return, or at an object, is a reader
\* of the fence.
Fenced == \A m \in Mutators : pc[m] \in {"fenced", "queued", "object"} \cup Holding => m \in readers

\* A submission that was admitted has its permit until it is over.
Permitted == \A s \in Submitters : pc[s] \in OnTheWay => s \in permits

\* What each phase of begin_draining has excluded.
Phases ==
    /\ draining <=> drain # "no"
    /\ active <=> drain \notin {"clean", "expired"}
    /\ accepting => drain \in {"no", "closing"}
    /\ drain \in {"permits", "clean"} => readers = {}
    /\ drain = "clean" => permits = {}

Objects == [gen : Nat, data : Contents]
Writes == [exp : Nat, next : Contents]

\* x is a former value of the object that is r now, or r itself.
PastOf(x, r) ==
    /\ x.gen <= r.gen
    /\ x.gen = r.gen => x = r
    /\ \A c \in Callers \cup {Foreign} : x.data.val[c] <= r.data.val[c]

\* Where it still matches r, the write adds one update that is not durable yet.
FitsOf(w, r) ==
    /\ w.exp <= r.gen
    /\ w.exp = r.gen =>
          \E c \in Callers : r.data.val[c] = 0 /\ w.next.val = Apply(r.data, c).val

\* What a step may make of the object r: nothing, or a generation with one
\* update more.
GrowsTo(r, r2) ==
    \/ r2 = r
    \/ /\ r2.gen = r.gen + 1
       /\ \E c \in Callers \cup {Foreign} :
             /\ c \in Callers => r.data.val[c] = 0
             /\ r2.data.val = Apply(r.data, c).val

\* The write of the holder was made from the snapshot.
Prepared ==
    \A c \in Callers : pc[c] \in Issued =>
        /\ coherence = "Coherent"
        /\ write.exp = local.gen
        /\ local.data.val[c] = 0
        /\ write.next.val = Apply(local.data, c).val

\* The value of the object a successful write left.
Written == [gen |-> write.exp + 1, data |-> write.next]

Sourced ==
    /\ PastOf(local, remote)
    /\ \A c \in Callers : pc[c] = "stored" => PastOf(Written, remote)
    /\ \A c \in Callers : pc[c] = "conflict" => PastOf(observed, remote)
    /\ \A w \in late : FitsOf(w, remote)

Once == \A c \in Callers : remote.data.val[c] <= 1

\* An accepted submission is durable, or its permit is still out.
Owing == \A s \in owed : Applied(remote.data, s) \/ (s \in permits /\ pc[s] \in Accepted)

\* Snapshot and object while nothing happened behind the process's back.
Current ==
    coherence = "Coherent" /\ ~strayed =>
        \/ local = remote /\ \A c \in Callers : pc[c] \notin {"stored", "conflict"}
        \/ remote = Written /\ \E c \in Callers : pc[c] \in {"stored", "failed"}

\* A reload finds the snapshot Recoverable, and a submission past it does not.
Recovering ==
    \A c \in Callers : /\ pc[c] = "reload" => coherence = "Recoverable"
                       /\ pc[c] = "ready" /\ c \in Submitters => coherence # "Recoverable"

Inv ==
    /\ TypeOK /\ Locked /\ Fenced /\ Permitted /\ Phases
    /\ Prepared /\ Sourced /\ Once /\ Owing /\ Current /\ Recovering
    /\ AckedDurable /\ ViolatedNeedsStray

-----------------------------------------------------------------------------
(* Type correctness.                                                       *)

LEMMA ApplyTyped ==
    ASSUME NEW d \in Contents, NEW c \in Callers \cup {Foreign}, NEW e \in Encodings
    PROVE  Apply(d, c) \in Contents /\ [val |-> Apply(d, c).val, enc |-> e] \in Contents
  BY DEF Apply, Contents

LEMMA EmptyTyped == NoWrite \in [exp : Nat, next : Contents] /\ Absent \in [gen : Nat, data : Contents]
<1>1. Empty \in Contents
  BY RuntimeCommitAssumption DEF Empty, Contents
<1>2. QED BY <1>1 DEF NoWrite, Absent

LEMMA InitTyped == Init => TypeOK
<1> SUFFICES ASSUME Init PROVE TypeOK
  OBVIOUS
<1>1. /\ remote \in [gen : Nat, data : Contents] /\ local \in [gen : Nat, data : Contents]
      /\ write \in [exp : Nat, next : Contents] /\ observed \in [gen : Nat, data : Contents]
  BY EmptyTyped DEF Init
<1>2. pc \in [Callers -> {"idle"}]
  BY DEF Init
<1>3. attempt \in 1 .. MaxAttempts
  BY RuntimeCommitAssumption DEF Init
<1> QED BY <1>1, <1>2, <1>3, Zenon DEF Init, TypeOK

LEMMA TypedStep == TypeOK /\ [Next]_vars => TypeOK'
<1> SUFFICES ASSUME TypeOK, [Next]_vars PROVE TypeOK'
  OBVIOUS
<1> USE RuntimeCommitAssumption, EmptyTyped DEF TypeOK, lifecycle, call, requests, history, bounds, At, Goto
<1> USE DEF Return, ReturnErr, ReturnOk, Install, Callers
<1>1. ASSUME NEW s \in Submitters, Submission(s) PROVE TypeOK'
  BY <1>1 DEF Submission, PermitCheck, PermitAdmit, PermitRecheck, ProviderAccepts,
     ProviderRefuses, CheckpointRetry
<1>2. ASSUME NEW c \in Callers, Mutation(c) PROVE TypeOK'
  <2>1. CASE Enter(c) BY <2>1 DEF Enter, Entry, FenceTaken
  <2>2. CASE Queue(c) BY <2>2 DEF Queue
  <2>3. CASE Lock(c) BY <2>3 DEF Lock
  <2>4. CASE Reload(c) BY <2>4 DEF Reload
  <2>5. CASE Attempt(c) BY <2>5, ApplyTyped DEF Attempt
  <2>6. CASE NoOp(c) BY <2>6 DEF NoOp
  <2>7. CASE Refused(c) BY <2>7 DEF Refused
  <2>8. CASE Rejected(c) BY <2>8 DEF Rejected
  <2>9. CASE Closed(c) BY <2>9 DEF Closed
  <2>10. CASE Stored(c) BY <2>10 DEF Stored
  <2>11. CASE Conflict(c) BY <2>11 DEF Conflict
  <2>12. CASE ReadBackFails(c) BY <2>12 DEF ReadBackFails
  <2>13. CASE ReadBackOwn(c) BY <2>13 DEF ReadBackOwn
  <2>14. CASE ReadBackUnchanged(c) BY <2>14 DEF ReadBackUnchanged
  <2>15. CASE ReadBackForeign(c) BY <2>15 DEF ReadBackForeign
  <2> QED BY <1>2, <2>1, <2>2, <2>3, <2>4, <2>5, <2>6, <2>7, <2>8, <2>9, <2>10, <2>11, <2>12,
             <2>13, <2>14, <2>15, Zenon DEF Mutation
<1>3. ASSUME NEW c \in Callers, Store(c) PROVE TypeOK'
  BY <1>3 DEF Store, StoreApplies, StoreConflicts, StoreFails, Commit
<1>4. ASSUME NEW c \in Callers, Abandon(c) PROVE TypeOK'
  BY <1>4 DEF Abandon
<1>5. ASSUME NEW m \in Mutators, ObjectBegin(m) \/ ObjectEnd(m) PROVE TypeOK'
  BY <1>5 DEF ObjectBegin, ObjectEnd
<1>6. CASE ProbeBegin \/ ProbeReloads \/ ProbeDetects \/ ProbeQuiet
  BY <1>6 DEF ProbeBegin, ProbeReloads, ProbeDetects, ProbeQuiet, ProbeEnd
<1>7. CASE Draining
  <2>1. CASE StartDraining BY <2>1 DEF StartDraining
  <2>2. CASE CloseAdmission BY <2>2, Zenon DEF CloseAdmission
  <2>3. CASE AwaitFence BY <2>3 DEF AwaitFence
  <2>4. CASE TakeFence BY <2>4 DEF TakeFence
  <2>5. CASE Drained BY <2>5, Zenon DEF Drained, Deactivate
  <2>6. CASE DeadlineElapses BY <2>6, Zenon DEF DeadlineElapses, Deactivate
  <2> QED BY <1>7, <2>1, <2>2, <2>3, <2>4, <2>5, <2>6 DEF Draining
<1>8. CASE LateWrite
  <2>1. PICK w \in late : /\ late' = late \ {w}
                         /\ IF Matches(w) THEN Commit(w) /\ strayed' = TRUE
                                          ELSE UNCHANGED <<remote, strayed>>
    BY <1>8 DEF LateWrite
  <2>2. remote' \in [gen : Nat, data : Contents]
    BY <2>1 DEF Commit
  <2>3. strayed' \in BOOLEAN
    BY <2>1, Zenon
  <2> QED BY <1>8, <2>1, <2>2, <2>3 DEF LateWrite
<1>9. CASE ForeignWrite
  <2>1. Apply(remote.data, Foreign) \in Contents
    BY ApplyTyped, Zenon
  <2>2. remote' \in [gen : Nat, data : Contents]
    BY <1>9, <2>1 DEF ForeignWrite, Commit
  <2> QED BY <1>9, <2>2 DEF ForeignWrite
<1>10. CASE Restart
  <2>1. late' \in SUBSET [exp : Nat, next : Contents]
    BY <1>10 DEF Restart, InFlight
  <2>2. pc' \in [Callers -> {"idle"}] /\ attempt' \in 1 .. MaxAttempts
    BY <1>10 DEF Restart
  <2>3. /\ remote' \in [gen : Nat, data : Contents] /\ local' \in [gen : Nat, data : Contents]
        /\ write' \in [exp : Nat, next : Contents] /\ observed' \in [gen : Nat, data : Contents]
    BY <1>10 DEF Restart
  <2>4. /\ active' \in BOOLEAN /\ draining' \in BOOLEAN /\ accepting' \in BOOLEAN
        /\ strayed' \in BOOLEAN
    BY <1>10, Zenon DEF Restart
  <2>5. /\ mutex' \in Callers \cup {Nobody, Probe} /\ owed' \in SUBSET Submitters
        /\ permits' \in SUBSET Submitters /\ readers' \in SUBSET Mutators
        /\ acked' \in SUBSET Callers /\ foreign' \in Nat /\ epoch' \in Nat
    BY <1>10 DEF Restart
  <2>6. coherence' = "Coherent" /\ drain' = "no"
    BY <1>10 DEF Restart
  <2> QED BY <2>1, <2>2, <2>3, <2>4, <2>5, <2>6 DEF Restart
<1>11. CASE UNCHANGED vars BY <1>11 DEF vars
<1> QED BY <1>1, <1>2, <1>3, <1>4, <1>5, <1>6, <1>7, <1>8, <1>9, <1>10, <1>11 DEF Next

-----------------------------------------------------------------------------
(* The mutation lock, the fence, the permits and the phases of draining.   *)

LEMMA Basics ==
    TypeOK => /\ DOMAIN pc = Callers
              /\ Submitters \subseteq Callers /\ Mutators \subseteq Callers
              /\ Submitters \cap Mutators = {}
              /\ Nobody \notin Callers /\ Probe \notin Callers
  BY RuntimeCommitAssumption DEF TypeOK, Callers

LEMMA LockedStep == TypeOK /\ Locked /\ [Next]_vars => Locked'
<1> SUFFICES ASSUME TypeOK, Locked, [Next]_vars PROVE Locked'
  OBVIOUS
<1>0. /\ DOMAIN pc = Callers
      /\ Submitters \subseteq Callers /\ Mutators \subseteq Callers
      /\ Submitters \cap Mutators = {}
      /\ Nobody \notin Callers /\ Probe \notin Callers
  BY Basics
<1> USE <1>0 DEF At, Goto, Return, ReturnErr, ReturnOk, Answered, Locked, Holding
<1>1. ASSUME NEW s \in Submitters, Submission(s) PROVE Locked'
  BY <1>1 DEF Submission, PermitCheck, PermitAdmit, PermitRecheck, ProviderAccepts, ProviderRefuses, CheckpointRetry
<1>2. ASSUME NEW c \in Callers, Enter(c) \/ Queue(c) \/ Lock(c) \/ Reload(c) PROVE Locked'
  BY <1>2 DEF Enter, Entry, FenceTaken, Queue, Lock, NeedsReload, Reload
<1>3. ASSUME NEW c \in Callers, Attempt(c) \/ NoOp(c) \/ Refused(c) \/ Rejected(c) PROVE Locked'
  BY <1>3 DEF Attempt, NoOp, Refused, Rejected
<1>4. ASSUME NEW c \in Callers, Closed(c) \/ Stored(c) \/ Conflict(c) PROVE Locked'
  BY <1>4 DEF Closed, Stored, Conflict
<1>5. ASSUME NEW c \in Callers, ReadBackFails(c) \/ ReadBackOwn(c) \/ ReadBackUnchanged(c) \/ ReadBackForeign(c)
      PROVE  Locked'
  BY <1>5 DEF ReadBackFails, ReadBackOwn, ReadBackUnchanged, ReadBackForeign
<1>6. ASSUME NEW c \in Callers, Store(c) PROVE Locked'
  BY <1>6 DEF Store, StoreApplies, StoreConflicts, StoreFails
<1>7. ASSUME NEW c \in Callers, Abandon(c) PROVE Locked'
  BY <1>7 DEF Abandon, Suspended
<1>8. ASSUME NEW m \in Mutators, ObjectBegin(m) \/ ObjectEnd(m) PROVE Locked'
  BY <1>8 DEF ObjectBegin, ObjectEnd
<1>9. CASE ProbeBegin \/ ProbeReloads \/ ProbeDetects \/ ProbeQuiet
  BY <1>9 DEF ProbeBegin, ProbeReloads, ProbeDetects, ProbeQuiet, ProbeEnd
<1>10. CASE Draining
  BY <1>10 DEF Draining, StartDraining, CloseAdmission, AwaitFence, TakeFence, Drained,
     DeadlineElapses, Deactivate
<1>11. CASE LateWrite \/ ForeignWrite \/ UNCHANGED vars
  BY <1>11 DEF LateWrite, ForeignWrite, vars
<1>12. CASE Restart BY <1>12 DEF Restart
<1> QED BY <1>1, <1>2, <1>3, <1>4, <1>5, <1>6, <1>7, <1>8, <1>9, <1>10, <1>11, <1>12 DEF Next, Mutation

LEMMA FencedStep == TypeOK /\ Fenced /\ [Next]_vars => Fenced'
<1> SUFFICES ASSUME TypeOK, Fenced, [Next]_vars PROVE Fenced'
  OBVIOUS
<1>0. /\ DOMAIN pc = Callers
      /\ Submitters \subseteq Callers /\ Mutators \subseteq Callers
      /\ Submitters \cap Mutators = {}
      /\ Nobody \notin Callers /\ Probe \notin Callers
  BY Basics
<1> USE <1>0 DEF At, Goto, Return, ReturnErr, ReturnOk, Answered, Fenced, Holding
<1>1. ASSUME NEW s \in Submitters, Submission(s) PROVE Fenced'
  BY <1>1 DEF Submission, PermitCheck, PermitAdmit, PermitRecheck, ProviderAccepts, ProviderRefuses, CheckpointRetry
<1>2. ASSUME NEW c \in Callers, Enter(c) \/ Queue(c) \/ Lock(c) \/ Reload(c) PROVE Fenced'
  BY <1>2 DEF Enter, Entry, FenceTaken, Queue, Lock, NeedsReload, Reload
<1>3. ASSUME NEW c \in Callers, Attempt(c) \/ NoOp(c) \/ Refused(c) \/ Rejected(c) PROVE Fenced'
  BY <1>3 DEF Attempt, NoOp, Refused, Rejected
<1>4. ASSUME NEW c \in Callers, Closed(c) \/ Stored(c) \/ Conflict(c) PROVE Fenced'
  BY <1>4 DEF Closed, Stored, Conflict
<1>5. ASSUME NEW c \in Callers, ReadBackFails(c) \/ ReadBackOwn(c) \/ ReadBackUnchanged(c) \/ ReadBackForeign(c)
      PROVE  Fenced'
  BY <1>5 DEF ReadBackFails, ReadBackOwn, ReadBackUnchanged, ReadBackForeign
<1>6. ASSUME NEW c \in Callers, Store(c) PROVE Fenced'
  BY <1>6 DEF Store, StoreApplies, StoreConflicts, StoreFails
<1>7. ASSUME NEW c \in Callers, Abandon(c) PROVE Fenced'
  BY <1>7 DEF Abandon, Suspended
<1>8. ASSUME NEW m \in Mutators, ObjectBegin(m) \/ ObjectEnd(m) PROVE Fenced'
  BY <1>8 DEF ObjectBegin, ObjectEnd
<1>9. CASE ProbeBegin \/ ProbeReloads \/ ProbeDetects \/ ProbeQuiet
  BY <1>9 DEF ProbeBegin, ProbeReloads, ProbeDetects, ProbeQuiet, ProbeEnd
<1>10. CASE Draining
  BY <1>10 DEF Draining, StartDraining, CloseAdmission, AwaitFence, TakeFence, Drained,
     DeadlineElapses, Deactivate
<1>11. CASE LateWrite \/ ForeignWrite \/ UNCHANGED vars
  BY <1>11 DEF LateWrite, ForeignWrite, vars
<1>12. CASE Restart BY <1>12 DEF Restart
<1> QED BY <1>1, <1>2, <1>3, <1>4, <1>5, <1>6, <1>7, <1>8, <1>9, <1>10, <1>11, <1>12, Zenon DEF Next, Mutation

LEMMA PermittedStep == TypeOK /\ Permitted /\ [Next]_vars => Permitted'
<1> SUFFICES ASSUME TypeOK, Permitted, [Next]_vars PROVE Permitted'
  OBVIOUS
<1>0. /\ DOMAIN pc = Callers
      /\ Submitters \subseteq Callers /\ Mutators \subseteq Callers
      /\ Submitters \cap Mutators = {}
      /\ Nobody \notin Callers /\ Probe \notin Callers
  BY Basics
<1> USE <1>0 DEF At, Goto, Return, ReturnErr, ReturnOk, Answered, Permitted, OnTheWay, Holding
<1>1. ASSUME NEW s \in Submitters, Submission(s) PROVE Permitted'
  BY <1>1 DEF Submission, PermitCheck, PermitAdmit, PermitRecheck, ProviderAccepts, ProviderRefuses, CheckpointRetry
<1>2. ASSUME NEW c \in Callers, Enter(c) \/ Queue(c) \/ Lock(c) \/ Reload(c) PROVE Permitted'
  BY <1>2 DEF Enter, Entry, FenceTaken, Queue, Lock, NeedsReload, Reload
<1>3. ASSUME NEW c \in Callers, Attempt(c) \/ NoOp(c) \/ Refused(c) \/ Rejected(c)
      PROVE  Permitted'
  BY <1>3 DEF Attempt, NoOp, Refused, Rejected
<1>4. ASSUME NEW c \in Callers, Closed(c) \/ Stored(c) \/ Conflict(c) PROVE Permitted'
  BY <1>4 DEF Closed, Stored, Conflict
<1>5. ASSUME NEW c \in Callers, ReadBackFails(c) \/ ReadBackOwn(c) \/ ReadBackUnchanged(c) \/ ReadBackForeign(c)
      PROVE  Permitted'
  BY <1>5 DEF ReadBackFails, ReadBackOwn, ReadBackUnchanged, ReadBackForeign
<1>6. ASSUME NEW c \in Callers, Store(c) PROVE Permitted'
  BY <1>6 DEF Store, StoreApplies, StoreConflicts, StoreFails
<1>7. ASSUME NEW c \in Callers, Abandon(c) PROVE Permitted'
  BY <1>7 DEF Abandon, Suspended
<1>8. ASSUME NEW m \in Mutators, ObjectBegin(m) \/ ObjectEnd(m) PROVE Permitted'
  BY <1>8 DEF ObjectBegin, ObjectEnd
<1>9. CASE ProbeBegin \/ ProbeReloads \/ ProbeDetects \/ ProbeQuiet
  BY <1>9 DEF ProbeBegin, ProbeReloads, ProbeDetects, ProbeQuiet, ProbeEnd
<1>10. CASE Draining
  BY <1>10 DEF Draining, StartDraining, CloseAdmission, AwaitFence, TakeFence, Drained,
     DeadlineElapses, Deactivate
<1>11. CASE LateWrite \/ ForeignWrite \/ UNCHANGED vars
  BY <1>11 DEF LateWrite, ForeignWrite, vars
<1>12. CASE Restart BY <1>12 DEF Restart
<1> QED BY <1>1, <1>2, <1>3, <1>4, <1>5, <1>6, <1>7, <1>8, <1>9, <1>10, <1>11, <1>12, Zenon DEF Next, Mutation

LEMMA PhasesStep == TypeOK /\ Phases /\ [Next]_vars => Phases'
<1> SUFFICES ASSUME TypeOK, Phases, [Next]_vars PROVE Phases'
  OBVIOUS
<1>0. active \in BOOLEAN /\ draining \in BOOLEAN /\ accepting \in BOOLEAN
  BY DEF TypeOK
<1> USE <1>0 DEF lifecycle, Return, ReturnErr, ReturnOk, Phases, EnsureActive, WriteAllowed
<1>1. ASSUME NEW s \in Submitters, Submission(s) PROVE Phases'
  BY <1>1 DEF Submission, PermitCheck, PermitAdmit, PermitRecheck, ProviderAccepts, ProviderRefuses, CheckpointRetry
<1>2. ASSUME NEW c \in Callers, Enter(c) \/ Queue(c) \/ Lock(c) \/ Reload(c) PROVE Phases'
  <2>1. CASE Enter(c) BY <2>1 DEF Enter, Entry, FenceTaken
  <2>2. CASE Queue(c) BY <2>2 DEF Queue
  <2>3. CASE Lock(c) BY <2>3 DEF Lock, NeedsReload
  <2>4. CASE Reload(c) BY <2>4 DEF Reload
  <2> QED BY <1>2, <2>1, <2>2, <2>3, <2>4
<1>3. ASSUME NEW c \in Callers, Attempt(c) \/ NoOp(c) \/ Refused(c) \/ Rejected(c) PROVE Phases'
  <2>1. CASE Attempt(c) BY <2>1 DEF Attempt
  <2>2. CASE NoOp(c) BY <2>2 DEF NoOp
  <2>3. CASE Refused(c) BY <2>3 DEF Refused
  <2>4. CASE Rejected(c) BY <2>4 DEF Rejected
  <2> QED BY <1>3, <2>1, <2>2, <2>3, <2>4
<1>4. ASSUME NEW c \in Callers, Closed(c) \/ Stored(c) \/ Conflict(c) PROVE Phases'
  <2>1. CASE Closed(c) BY <2>1 DEF Closed
  <2>2. CASE Stored(c) BY <2>2 DEF Stored
  <2>3. CASE Conflict(c) BY <2>3 DEF Conflict
  <2> QED BY <1>4, <2>1, <2>2, <2>3
<1>5. ASSUME NEW c \in Callers, ReadBackFails(c) \/ ReadBackOwn(c) \/ ReadBackUnchanged(c) \/ ReadBackForeign(c)
      PROVE  Phases'
  BY <1>5 DEF ReadBackFails, ReadBackOwn, ReadBackUnchanged, ReadBackForeign
<1>6. ASSUME NEW c \in Callers, Store(c) PROVE Phases'
  BY <1>6 DEF Store, StoreApplies, StoreConflicts, StoreFails
<1>7. ASSUME NEW c \in Callers, Abandon(c) PROVE Phases'
  BY <1>7 DEF Abandon, Suspended
<1>8. ASSUME NEW m \in Mutators, ObjectBegin(m) \/ ObjectEnd(m) PROVE Phases'
  BY <1>8 DEF ObjectBegin, ObjectEnd
<1>9. CASE ProbeBegin \/ ProbeReloads \/ ProbeDetects \/ ProbeQuiet
  BY <1>9 DEF ProbeBegin, ProbeReloads, ProbeDetects, ProbeQuiet, ProbeEnd
<1>10. CASE Draining
  BY <1>10 DEF Draining, StartDraining, CloseAdmission, AwaitFence, TakeFence, Drained,
     DeadlineElapses, Deactivate
<1>11. CASE LateWrite \/ ForeignWrite \/ UNCHANGED vars
  BY <1>11 DEF LateWrite, ForeignWrite, vars
<1>12. CASE Restart BY <1>12 DEF Restart
<1> QED BY <1>1, <1>2, <1>3, <1>4, <1>5, <1>6, <1>7, <1>8, <1>9, <1>10, <1>11, <1>12 DEF Next, Mutation

LEMMA QuietStep ==
    TypeOK /\ Fenced /\ Permitted /\ Phases /\ [Next]_vars => QuietAfterDrain
<1> SUFFICES ASSUME TypeOK, Fenced, Permitted, Phases, [Next]_vars,
                    drain = "clean", epoch' = epoch, foreign' = foreign, late' = late
             PROVE  remote' = remote /\ local' = local /\ readers' = {}
  BY DEF QuietAfterDrain
<1> DEFINE Goal == remote' = remote /\ local' = local /\ readers' = {}
<1>0. /\ ~active /\ readers = {}
      /\ \A c \in Callers : pc[c] \notin {"fenced", "queued"} \cup Holding
      /\ \A m \in Mutators : pc[m] # "object"
  BY DEF Phases, Fenced, Permitted, OnTheWay, Holding, Callers
<1>00. foreign \in Nat /\ epoch \in Nat
  BY DEF TypeOK
<1> USE <1>0 DEF At, Holding, Return, ReturnErr, ReturnOk, Answered, WriteAllowed,
    EnsureActive, CheckpointWriteAllowed
<1>1. ASSUME NEW s \in Submitters, Submission(s) PROVE Goal
  BY <1>1 DEF Submission, PermitCheck, PermitAdmit, PermitRecheck, ProviderAccepts, ProviderRefuses, CheckpointRetry
<1>2. ASSUME NEW c \in Callers, Enter(c) \/ Queue(c) \/ Lock(c) \/ Reload(c) PROVE Goal
  BY <1>2 DEF Enter, Entry, FenceTaken, Queue, Lock, NeedsReload, Reload
<1>3. ASSUME NEW c \in Callers, Attempt(c) \/ NoOp(c) \/ Refused(c) \/ Rejected(c) PROVE Goal
  BY <1>3 DEF Attempt, NoOp, Refused, Rejected
<1>4. ASSUME NEW c \in Callers, Closed(c) \/ Stored(c) \/ Conflict(c) PROVE Goal
  BY <1>4, Zenon DEF Closed, Stored, Conflict
<1>5. ASSUME NEW c \in Callers, ReadBackFails(c) \/ ReadBackOwn(c) \/ ReadBackUnchanged(c) \/ ReadBackForeign(c)
      PROVE  Goal
  BY <1>5, Zenon DEF ReadBackFails, ReadBackOwn, ReadBackUnchanged, ReadBackForeign
<1>6. ASSUME NEW c \in Callers, Store(c) PROVE Goal
  BY <1>6 DEF Store, StoreApplies, StoreConflicts, StoreFails
<1>7. ASSUME NEW c \in Callers, Abandon(c) PROVE Goal
  BY <1>7 DEF Abandon, Suspended
<1>8. ASSUME NEW m \in Mutators, ObjectBegin(m) \/ ObjectEnd(m) PROVE Goal
  BY <1>8 DEF ObjectBegin, ObjectEnd
<1>9. CASE ProbeBegin \/ ProbeReloads \/ ProbeDetects \/ ProbeQuiet
  BY <1>9 DEF ProbeBegin, ProbeReloads, ProbeDetects, ProbeQuiet, ProbeEnd
<1>10. CASE Draining
  BY <1>10 DEF Draining, StartDraining, CloseAdmission, AwaitFence, TakeFence, Drained,
     DeadlineElapses, Deactivate
<1>11. CASE LateWrite \/ ForeignWrite \/ UNCHANGED vars
  BY <1>11, <1>00 DEF LateWrite, ForeignWrite, vars
<1>12. CASE Restart BY <1>12 DEF Restart, TypeOK
<1> QED BY <1>1, <1>2, <1>3, <1>4, <1>5, <1>6, <1>7, <1>8, <1>9, <1>10, <1>11, <1>12 DEF Next, Mutation

\* A step that leaves object, snapshot and requests alone, and whoever issued
\* a write where it was.
Calm ==
    /\ UNCHANGED <<remote, local, coherence, write, observed, late, acked, strayed, epoch>>
    /\ \A x \in Callers : pc'[x] = pc[x] \/ (pc[x] \notin Issued /\ pc'[x] \notin Issued)

Mutates(c) ==
    \/ Queue(c) \/ Reload(c) \/ Attempt(c) \/ NoOp(c) \/ Refused(c) \/ Rejected(c)
    \/ Closed(c) \/ Stored(c) \/ Conflict(c)
    \/ ReadBackFails(c) \/ ReadBackOwn(c) \/ ReadBackUnchanged(c) \/ ReadBackForeign(c)

LEMMA CalmStep ==
    ASSUME TypeOK, [Next]_vars
    PROVE  \/ Calm
           \/ \E c \in Callers : Mutates(c) \/ Store(c) \/ Abandon(c)
           \/ ProbeReloads \/ ProbeDetects \/ LateWrite \/ ForeignWrite \/ Restart
<1>0. DOMAIN pc = Callers /\ Submitters \subseteq Callers /\ Mutators \subseteq Callers
  BY Basics
<1> USE <1>0 DEF Calm, Issued, At, Goto, requests, call, history, bounds
<1>1. ASSUME NEW s \in Submitters, Submission(s) PROVE Calm
  <2>1. CASE PermitCheck(s) BY <2>1 DEF PermitCheck
  <2>2. CASE PermitAdmit(s) BY <2>2 DEF PermitAdmit
  <2>3. CASE PermitRecheck(s) BY <2>3 DEF PermitRecheck
  <2>4. CASE ProviderAccepts(s) \/ ProviderRefuses(s) BY <2>4 DEF ProviderAccepts, ProviderRefuses
  <2>5. CASE CheckpointRetry(s) BY <2>5 DEF CheckpointRetry
  <2> QED BY <1>1, <2>1, <2>2, <2>3, <2>4, <2>5, Zenon DEF Submission
<1>2. ASSUME NEW c \in Callers, Enter(c) PROVE Calm
  BY <1>2 DEF Enter, Entry
<1>3. ASSUME NEW c \in Callers, Lock(c) PROVE Calm
  BY <1>3 DEF Lock
<1>4. ASSUME NEW m \in Mutators, ObjectBegin(m) \/ ObjectEnd(m) PROVE Calm
  BY <1>4 DEF ObjectBegin, ObjectEnd
<1>5. CASE ProbeBegin \/ ProbeQuiet BY <1>5 DEF ProbeBegin, ProbeQuiet, ProbeEnd
<1>6. CASE Draining
  BY <1>6 DEF Draining, StartDraining, CloseAdmission, AwaitFence, TakeFence, Drained,
     DeadlineElapses, Deactivate
<1>7. CASE UNCHANGED vars BY <1>7 DEF vars
<1> QED BY <1>1, <1>2, <1>3, <1>4, <1>5, <1>6, <1>7, Zenon DEF Next, Mutation, Mutates

LEMMA RecoveringStep == TypeOK /\ Locked /\ Prepared /\ Recovering /\ [Next]_vars => Recovering'
<1> SUFFICES ASSUME TypeOK, Locked, Prepared, Recovering, [Next]_vars PROVE Recovering'
  OBVIOUS
<1>0. /\ DOMAIN pc = Callers /\ Submitters \subseteq Callers /\ Mutators \subseteq Callers
      /\ Nobody \notin Callers /\ Probe \notin Callers
  BY Basics
<1>1. ASSUME NEW c \in Callers, pc[c] \in Holding, NEW p, p \notin {"reload", "ready"}, Goto(c, p)
      PROVE  Recovering'
  BY <1>0, <1>1 DEF Goto, Locked, Holding, Recovering
<1>2. ASSUME NEW c \in Callers, NEW p, p \notin {"reload", "ready"}, Goto(c, p), UNCHANGED coherence
      PROVE  Recovering'
  BY <1>0, <1>2 DEF Goto, Recovering
<1>3. CASE UNCHANGED <<pc, coherence>>
  BY <1>3 DEF Recovering
<1>4. ASSUME NEW s \in Submitters, Submission(s) PROVE Recovering'
  <2>1. UNCHANGED coherence /\ \E p : p \notin {"reload", "ready"} /\ Goto(s, p)
    BY <1>4 DEF Submission, PermitCheck, PermitAdmit, PermitRecheck, ProviderAccepts,
       ProviderRefuses, CheckpointRetry
  <2> QED BY <1>0, <1>2, <2>1
<1>5. ASSUME NEW c \in Callers, Enter(c) \/ Queue(c) PROVE Recovering'
  <2>1. UNCHANGED coherence /\ \E p : p \notin {"reload", "ready"} /\ Goto(c, p)
    BY <1>5 DEF Enter, Entry, Queue, Return, ReturnErr
  <2> QED BY <1>2, <2>1
<1>6. ASSUME NEW c \in Callers, Lock(c) PROVE Recovering'
  BY <1>0, <1>6 DEF Lock, NeedsReload, Goto, Locked, Holding, Recovering
<1>7. ASSUME NEW c \in Callers, Reload(c) PROVE Recovering'
  <2>1. pc[c] = "reload" /\ \/ coherence' = "Coherent" /\ Goto(c, "ready")
                            \/ \E p : p \notin {"reload", "ready"} /\ Goto(c, p)
    BY <1>7 DEF Reload, Install, At, Return, ReturnErr
  <2>2. CASE coherence' = "Coherent" /\ Goto(c, "ready")
    BY <1>0, <2>1, <2>2 DEF Goto, Locked, Holding, Recovering
  <2> QED BY <1>1, <2>1, <2>2 DEF Holding
<1>8. ASSUME NEW c \in Callers, Mutates(c), ~Queue(c), ~Reload(c) PROVE Recovering'
  <2> USE DEF Holding, At, Return, ReturnErr, ReturnOk
  <2>1. CASE Attempt(c) \/ NoOp(c) \/ Refused(c) \/ Rejected(c)
    BY <1>1, <2>1, Zenon DEF Attempt, NoOp, Refused, Rejected
  <2>2. CASE Closed(c) \/ Stored(c) \/ Conflict(c)
    BY <1>1, <2>2, Zenon DEF Closed, Stored, Conflict, Answered
  <2>3. CASE ReadBackFails(c) \/ ReadBackOwn(c) \/ ReadBackForeign(c)
    BY <1>1, <2>3, Zenon DEF ReadBackFails, ReadBackOwn, ReadBackForeign
  <2>4. CASE ReadBackUnchanged(c)
    <3>1. pc[c] = "failed" /\ \/ UNCHANGED coherence /\ Goto(c, "ready")
                              \/ \E p : p \notin {"reload", "ready"} /\ Goto(c, p)
      BY <2>4 DEF ReadBackUnchanged
    <3>2. CASE UNCHANGED coherence /\ Goto(c, "ready")
      BY <1>0, <3>1, <3>2 DEF Goto, Locked, Prepared, Issued, Recovering
    <3> QED BY <1>1, <3>1, <3>2
  <2> QED BY <1>8, <2>1, <2>2, <2>3, <2>4, Zenon DEF Mutates
<1>9. ASSUME NEW c \in Callers, Store(c) \/ Abandon(c) PROVE Recovering'
  <2>1. UNCHANGED coherence /\ \E p : p \notin {"reload", "ready"} /\ Goto(c, p)
    BY <1>9 DEF Store, StoreApplies, StoreConflicts, StoreFails, Abandon, Return
  <2> QED BY <1>2, <2>1
<1>10. ASSUME NEW m \in Mutators, ObjectBegin(m) \/ ObjectEnd(m) PROVE Recovering'
  BY <1>0, <1>2, <1>10 DEF ObjectBegin, ObjectEnd
<1>11. CASE ProbeBegin \/ ProbeReloads \/ ProbeDetects \/ ProbeQuiet
  BY <1>0, <1>3, <1>11 DEF ProbeBegin, ProbeReloads, ProbeDetects, ProbeQuiet, ProbeEnd, Locked,
     Holding, Recovering
<1>12. CASE Draining
  BY <1>3, <1>12 DEF Draining, StartDraining, CloseAdmission, AwaitFence, TakeFence, Drained,
     DeadlineElapses, Deactivate
<1>13. CASE LateWrite \/ ForeignWrite \/ UNCHANGED vars
  BY <1>3, <1>13 DEF LateWrite, ForeignWrite, vars
<1>14. CASE Restart BY <1>14 DEF Restart, Recovering
<1> QED BY <1>4, <1>5, <1>6, <1>7, <1>8, <1>9, <1>10, <1>11, <1>12, <1>13, <1>14, Zenon
        DEF Next, Mutation, Mutates

LEMMA PreparedStep == TypeOK /\ Locked /\ Recovering /\ Prepared /\ [Next]_vars => Prepared'
<1> SUFFICES ASSUME TypeOK, Locked, Recovering, Prepared, [Next]_vars PROVE Prepared'
  OBVIOUS
<1>0. DOMAIN pc = Callers /\ Nobody \notin Callers /\ Probe \notin Callers
  BY Basics
<1>1. ASSUME NEW c \in Callers, pc[c] \in Holding, NEW p, p \notin Issued, Goto(c, p)
      PROVE  Prepared'
  BY <1>0, <1>1 DEF Goto, Locked, Holding, Issued, Prepared
<1>2. ASSUME NEW c \in Callers, NEW p, p \notin Issued, Goto(c, p), UNCHANGED <<write, local, coherence>>
      PROVE  Prepared'
  BY <1>0, <1>2 DEF Goto, Issued, Prepared
<1>3. CASE Calm
  BY <1>3 DEF Calm, Prepared
<1>4. ASSUME NEW c \in Callers, Attempt(c) PROVE Prepared'
  <2>1. pc[c] = "ready" /\ coherence = "Coherent"
    BY <1>4, <1>0 DEF Attempt, At, WriteAllowed, CheckpointWriteAllowed, EnsureActive, Recovering, TypeOK
  <2>2. local.data.val[c] = 0
    BY <1>4 DEF Attempt, Applied, TypeOK, Contents
  <2>3. /\ UNCHANGED <<local, coherence>> /\ Goto(c, "writing")
        /\ write'.exp = local.gen /\ write'.next.val = Apply(local.data, c).val
    BY <1>4 DEF Attempt
  <2> QED BY <1>0, <2>1, <2>2, <2>3 DEF Goto, Locked, Holding, Issued, Prepared
<1>5. ASSUME NEW c \in Callers, Mutates(c), ~Attempt(c) PROVE Prepared'
  <2> USE DEF Issued, Holding, At, Return, ReturnErr, ReturnOk
  <2>1. CASE Queue(c)
    <3>1. pc[c] = "fenced" /\ mutex # c
      BY <2>1 DEF Queue, Locked
    <3>2. UNCHANGED <<write, local, coherence>> /\ \E p : p \notin Issued /\ Goto(c, p)
      BY <2>1, <3>1 DEF Queue, call
    <3> QED BY <1>2, <3>2, Zenon
  <2>2. CASE Reload(c)
    BY <1>1, <2>2, Zenon DEF Reload
  <2>3. CASE NoOp(c) \/ Refused(c) \/ Rejected(c)
    BY <1>1, <2>3, Zenon DEF NoOp, Refused, Rejected
  <2>4. CASE Closed(c) \/ Stored(c) \/ Conflict(c)
    BY <1>1, <2>4, Zenon DEF Closed, Stored, Conflict, Answered
  <2>5. CASE ReadBackFails(c) \/ ReadBackOwn(c) \/ ReadBackUnchanged(c) \/ ReadBackForeign(c)
    BY <1>1, <2>5, Zenon DEF ReadBackFails, ReadBackOwn, ReadBackUnchanged, ReadBackForeign
  <2> QED BY <1>5, <2>1, <2>2, <2>3, <2>4, <2>5, Zenon DEF Mutates
<1>6. ASSUME NEW c \in Callers, Store(c) PROVE Prepared'
  <2>1. UNCHANGED <<write, local, coherence>> /\ pc[c] = "writing" /\ \E p : Goto(c, p)
    BY <1>6 DEF Store, StoreApplies, StoreConflicts, StoreFails, At, requests, call
  <2> QED BY <1>0, <2>1 DEF Goto, Issued, Prepared
<1>7. ASSUME NEW c \in Callers, Abandon(c) PROVE Prepared'
  <2>1. Goto(c, "idle") /\ UNCHANGED <<local, coherence>> /\ (mutex # c => UNCHANGED write)
    BY <1>7 DEF Abandon, Return, call
  <2> QED BY <1>1, <1>2, <2>1 DEF Locked, Issued
<1>8. CASE ProbeReloads \/ ProbeDetects
  BY <1>0, <1>8 DEF ProbeReloads, ProbeDetects, ProbeEnd, Locked, Holding, Issued, Prepared
<1>9. CASE LateWrite \/ ForeignWrite
  BY <1>9 DEF LateWrite, ForeignWrite, requests, call, Prepared
<1>10. CASE Restart
  BY <1>10 DEF Restart, Issued, Prepared
<1> QED BY <1>3, <1>4, <1>5, <1>6, <1>7, <1>8, <1>9, <1>10, CalmStep, Zenon

-----------------------------------------------------------------------------
(* What a step may do to the snapshot.                                     *)

LEMMA OwnStep == TypeOK /\ Prepared /\ Recovering /\ [Next]_vars => OwnUpdateOnly
<1> SUFFICES ASSUME TypeOK, Prepared, Recovering, [Next]_vars, coherence = "Coherent",
                    local' # local, epoch' = epoch
             PROVE  \E c \in Callers : local'.data.val = Apply(local.data, c).val
  BY DEF OwnUpdateOnly
<1> DEFINE Goal == \E c \in Callers : local'.data.val = Apply(local.data, c).val
<1> USE DEF At
<1>1. CASE Calm BY <1>1, Zenon DEF Calm
<1>2. ASSUME NEW c \in Callers, Mutates(c) PROVE Goal
  <2>1. CASE Install(write.next, write.exp + 1) /\ pc[c] \in Issued
    BY <2>1 DEF Install, Prepared
  <2>2. CASE pc[c] \in Issued /\ \E g : Install(write.next, g)
    BY <2>2 DEF Install, Prepared
  <2>3. CASE Stored(c) BY <2>1, <2>3, Zenon DEF Stored, Issued
  <2>4. CASE Conflict(c) BY <2>2, <2>4, Zenon DEF Conflict, Issued
  <2>5. CASE ReadBackOwn(c) BY <2>2, <2>5, Zenon DEF ReadBackOwn, Issued
  <2>6. CASE Reload(c) BY <2>6, Zenon DEF Reload, Recovering
  <2>7. CASE UNCHANGED local BY <2>7
  <2>8. CASE Queue(c) \/ Attempt(c) \/ NoOp(c) \/ Refused(c) \/ Rejected(c) \/ Closed(c)
    BY <2>7, <2>8, Zenon DEF Queue, Attempt, NoOp, Refused, Rejected, Closed
  <2>9. CASE ReadBackFails(c) \/ ReadBackUnchanged(c) \/ ReadBackForeign(c)
    BY <2>7, <2>9 DEF ReadBackFails, ReadBackUnchanged, ReadBackForeign
  <2> QED BY <1>2, <2>3, <2>4, <2>5, <2>6, <2>8, <2>9, Zenon DEF Mutates
<1>3. ASSUME NEW c \in Callers, Store(c) \/ Abandon(c) PROVE Goal
  BY <1>3, Zenon DEF Store, StoreApplies, StoreConflicts, StoreFails, Abandon
<1>4. CASE ProbeReloads \/ ProbeDetects BY <1>4 DEF ProbeReloads, ProbeDetects
<1>5. CASE LateWrite \/ ForeignWrite BY <1>5 DEF LateWrite, ForeignWrite
<1>6. CASE Restart BY <1>6 DEF Restart, TypeOK
<1> QED BY <1>1, <1>2, <1>3, <1>4, <1>5, <1>6, CalmStep, Zenon
=============================================================================
