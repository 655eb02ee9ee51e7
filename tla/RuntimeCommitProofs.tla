------------------------ MODULE RuntimeCommitProofs ------------------------
(***************************************************************************)
(* What RuntimeCommitInv says of the object, the snapshot and the requests *)
(* in flight is inductive, and the properties of RuntimeCommit follow.     *)
(***************************************************************************)
EXTENDS RuntimeCommitInv

-----------------------------------------------------------------------------
(* The object and what is known of it.                                     *)

LEMMA PastStays ==
    ASSUME NEW r \in Objects, NEW r2 \in Objects, NEW x \in Objects, GrowsTo(r, r2), PastOf(x, r)
    PROVE  PastOf(x, r2)
<1>1. CASE r2 = r BY <1>1
<1>2. CASE r2 # r
  <2>1. PICK d \in Callers \cup {Foreign} : r2.data.val = Apply(r.data, d).val
    BY <1>2 DEF GrowsTo
  <2>2. r2.data.val = [r.data.val EXCEPT ![d] = @ + 1]
    BY <2>1 DEF Apply
  <2>3. r2.gen = r.gen + 1
    BY <1>2 DEF GrowsTo
  <2>4. \A c \in Callers \cup {Foreign} : x.data.val[c] <= r2.data.val[c]
    BY <2>2 DEF Objects, Contents, PastOf
  <2>5. x.gen <= r2.gen /\ x.gen # r2.gen
    BY <2>3 DEF Objects, PastOf
  <2> QED BY <2>4, <2>5 DEF PastOf
<1> QED BY <1>1, <1>2

LEMMA FitsStays ==
    ASSUME NEW r \in Objects, NEW r2 \in Objects, NEW w \in Writes, GrowsTo(r, r2), FitsOf(w, r)
    PROVE  FitsOf(w, r2)
  BY DEF Objects, Writes, GrowsTo, FitsOf

LEMMA PreparedFits ==
    ASSUME NEW r \in Objects, NEW x \in Objects, PastOf(x, r), NEW w \in Writes, NEW c \in Callers,
           w.exp = x.gen, x.data.val[c] = 0, w.next.val = Apply(x.data, c).val
    PROVE  FitsOf(w, r)
  BY DEF PastOf, FitsOf

LEMMA FittingGrows ==
    ASSUME NEW r \in Objects, NEW w \in Writes, FitsOf(w, r), w.exp = r.gen
    PROVE  GrowsTo(r, [gen |-> r.gen + 1, data |-> w.next])
  BY DEF FitsOf, GrowsTo

LEMMA PastSelf == \A r \in Objects : PastOf(r, r)
  BY DEF PastOf, Objects, Contents

LEMMA Grown ==
    ASSUME NEW r \in Objects, NEW r2 \in Objects, GrowsTo(r, r2), NEW c \in Callers \cup {Foreign}
    PROVE  /\ r.data.val[c] <= r2.data.val[c]
           /\ c \in Callers /\ r.data.val[c] <= 1 => r2.data.val[c] <= 1
<1>1. CASE r2 = r BY <1>1 DEF Objects, Contents
<1>2. CASE r2 # r
  <2>1. PICK d \in Callers \cup {Foreign} : /\ d \in Callers => r.data.val[d] = 0
                                           /\ r2.data.val = Apply(r.data, d).val
    BY <1>2 DEF GrowsTo
  <2>2. r2.data.val = [r.data.val EXCEPT ![d] = @ + 1]
    BY <2>1 DEF Apply
  <2> QED BY <2>1, <2>2 DEF Objects, Contents
<1> QED BY <1>1, <1>2

LEMMA RemoteStep ==
    TypeOK /\ Prepared /\ Sourced /\ [Next]_vars => GrowsTo(remote, remote')
<1> SUFFICES ASSUME TypeOK, Prepared, Sourced, [Next]_vars PROVE GrowsTo(remote, remote')
  OBVIOUS
<1>1. remote \in Objects /\ local \in Objects /\ write \in Writes /\ late \subseteq Writes
  BY DEF TypeOK, Objects, Writes
<1>2. ASSUME NEW c \in Callers, StoreApplies(c) PROVE GrowsTo(remote, remote')
  <2>1. FitsOf(write, remote)
    BY <1>1, <1>2, PreparedFits DEF StoreApplies, At, Prepared, Issued, Sourced
  <2> QED BY <1>1, <1>2, <2>1, FittingGrows DEF StoreApplies, Matches, Commit
<1>3. CASE LateWrite
  <2>1. PICK w \in late : IF Matches(w) THEN Commit(w) ELSE UNCHANGED remote
    BY <1>3 DEF LateWrite
  <2>2. CASE Matches(w)
    BY <1>1, <2>1, <2>2, FittingGrows DEF Sourced, Matches, Commit
  <2> QED BY <2>1, <2>2 DEF GrowsTo
<1>4. CASE ForeignWrite
  BY <1>4, RuntimeCommitAssumption DEF ForeignWrite, Commit, GrowsTo
<1>5. CASE UNCHANGED remote
  BY <1>5 DEF GrowsTo
<1>6. ASSUME NEW c \in Callers, Mutates(c) PROVE UNCHANGED remote
  BY <1>6 DEF Mutates, Queue, Reload, Attempt, NoOp, Refused, Rejected, Closed,
     Stored, Conflict, ReadBackFails, ReadBackOwn, ReadBackUnchanged, ReadBackForeign
<1>7. ASSUME NEW c \in Callers, StoreConflicts(c) \/ StoreFails(c) \/ Abandon(c)
      PROVE UNCHANGED remote
  BY <1>7 DEF StoreConflicts, StoreFails, Abandon
<1>8. ASSUME ProbeReloads \/ ProbeDetects \/ Restart \/ Calm PROVE UNCHANGED remote
  BY <1>8 DEF ProbeReloads, ProbeDetects, ProbeEnd, Restart, Calm
<1> QED BY <1>2, <1>3, <1>4, <1>5, <1>6, <1>7, <1>8, CalmStep DEF Store

\* What becomes of a store's answer in one step.
LEMMA AnswerStep ==
    ASSUME TypeOK, Locked, [Next]_vars, NEW x \in Callers, pc'[x] \in {"stored", "conflict"}
    PROVE  \/ pc[x] = pc'[x] /\ UNCHANGED <<write, observed>>
           \/ pc'[x] = "stored" /\ pc[x] = "writing" /\ StoreApplies(x)
           \/ pc'[x] = "conflict" /\ pc[x] = "writing" /\ StoreConflicts(x)
<1> DEFINE Goal == \/ pc[x] = pc'[x] /\ UNCHANGED <<write, observed>>
                   \/ pc'[x] = "stored" /\ pc[x] = "writing" /\ StoreApplies(x)
                   \/ pc'[x] = "conflict" /\ pc[x] = "writing" /\ StoreConflicts(x)
<1> SUFFICES Goal
  OBVIOUS
<1>0. /\ DOMAIN pc = Callers
      /\ Submitters \subseteq Callers /\ Mutators \subseteq Callers
      /\ Submitters \cap Mutators = {}
      /\ Nobody \notin Callers /\ Probe \notin Callers
  BY Basics
<1> USE <1>0 DEF At, Goto, Return, ReturnErr, ReturnOk, call, requests, Locked, Holding
<1>1. CASE Calm BY <1>1 DEF Calm, Issued
<1>2. ASSUME NEW c \in Callers, Mutates(c) PROVE Goal
  <2>1. CASE Queue(c) BY <2>1 DEF Queue
  <2>2. CASE Reload(c) BY <2>2 DEF Reload
  <2>3. CASE Attempt(c) BY <2>3 DEF Attempt
  <2>4. CASE NoOp(c) \/ Refused(c) \/ Rejected(c) BY <2>4 DEF NoOp, Refused, Rejected
  <2>5. CASE Closed(c) BY <2>5 DEF Closed, Answered
  <2>6. CASE Stored(c) BY <2>6 DEF Stored
  <2>7. CASE Conflict(c) BY <2>7 DEF Conflict
  <2>8. CASE ReadBackFails(c) \/ ReadBackOwn(c) \/ ReadBackForeign(c)
    BY <2>8 DEF ReadBackFails, ReadBackOwn, ReadBackForeign
  <2>9. CASE ReadBackUnchanged(c) BY <2>9 DEF ReadBackUnchanged
  <2> QED BY <1>2, <2>1, <2>2, <2>3, <2>4, <2>5, <2>6, <2>7, <2>8, <2>9 DEF Mutates
<1>3. ASSUME NEW c \in Callers, Store(c) PROVE Goal
  BY <1>3 DEF Store, StoreApplies, StoreConflicts, StoreFails
<1>4. ASSUME NEW c \in Callers, Abandon(c) PROVE Goal
  BY <1>4 DEF Abandon, Suspended
<1>5. CASE ProbeReloads \/ ProbeDetects
  BY <1>5 DEF ProbeReloads, ProbeDetects, ProbeEnd
<1>6. CASE LateWrite \/ ForeignWrite
  BY <1>6 DEF LateWrite, ForeignWrite
<1>7. CASE Restart BY <1>7 DEF Restart
<1> QED BY <1>1, <1>2, <1>3, <1>4, <1>5, <1>6, <1>7, CalmStep

\* Where mutate_authoritative returns Ok.
ReturnsOk(c) ==
    NoOp(c) \/ Stored(c) \/ ReadBackOwn(c) \/ (Conflict(c) /\ observed.data = write.next)

\* What becomes of the snapshot, of the requests nobody waits for and of the
\* acknowledged updates.
SnapshotMoves ==
    \/ local' = local
    \/ local' = remote'
    \/ remote' = remote /\ local' = Written /\ \E c \in Callers : pc[c] = "stored"
    \/ remote' = remote /\ local' = observed /\ \E c \in Callers : pc[c] = "conflict"

LateMoves ==
    \/ late' \subseteq late
    \/ remote' = remote /\ late' = late \cup {write} /\ \E c \in Callers : pc[c] = "writing"

AckedMoves == \A x \in acked' : x \in acked \/ ReturnsOk(x)

LEMMA DataStep ==
    ASSUME TypeOK, [Next]_vars
    PROVE  SnapshotMoves /\ LateMoves /\ AckedMoves
<1> DEFINE Goal == SnapshotMoves /\ LateMoves /\ AckedMoves
<1>0. remote \in Objects /\ observed \in Objects
  BY DEF TypeOK, Objects
<1> USE <1>0 DEF Objects, At, Install, Written, SnapshotMoves, LateMoves, AckedMoves
<1>1. CASE Calm BY <1>1 DEF Calm
<1>2. ASSUME NEW c \in Callers, Mutates(c) PROVE Goal
  <2>1. ASSUME NEW d \in Callers, ReturnOk(d) PROVE acked' = acked \cup {d}
    BY <2>1 DEF ReturnOk
  <2>2. ASSUME NEW d \in Callers, ReturnErr(d) PROVE acked' = acked
    BY <2>2 DEF ReturnErr
  <2> USE <2>1, <2>2
  <2>3. CASE Queue(c) BY <2>3 DEF Queue
  <2>4. CASE Reload(c) BY <2>4 DEF Reload
  <2>5. CASE Attempt(c) BY <2>5 DEF Attempt, history
  <2>6. CASE NoOp(c)
    <3>1. UNCHANGED <<local, late>> /\ ReturnOk(c) BY <2>6 DEF NoOp
    <3> QED BY <2>6, <3>1 DEF ReturnsOk
  <2>7. CASE Refused(c) BY <2>7 DEF Refused
  <2>8. CASE Rejected(c) BY <2>8 DEF Rejected
  <2>9. CASE Closed(c) BY <2>9 DEF Closed
  <2>10. CASE Stored(c)
    <3>1. /\ UNCHANGED <<remote, late>> /\ ReturnOk(c) /\ pc[c] = "stored"
          /\ local' = Written
      BY <2>10 DEF Stored
    <3> QED BY <2>10, <3>1 DEF ReturnsOk
  <2>11. CASE Conflict(c) /\ observed.data = write.next
    <3>1. /\ UNCHANGED <<remote, late>> /\ ReturnOk(c) /\ pc[c] = "conflict"
          /\ local' = observed
      BY <2>11 DEF Conflict
    <3> QED BY <2>11, <3>1 DEF ReturnsOk
  <2>12. CASE Conflict(c) /\ observed.data # write.next BY <2>12 DEF Conflict
  <2>13. CASE ReadBackFails(c) \/ ReadBackForeign(c) BY <2>13 DEF ReadBackFails, ReadBackForeign
  <2>14. CASE ReadBackOwn(c)
    <3>1. UNCHANGED <<remote, late>> /\ ReturnOk(c) /\ local' = remote'
      BY <2>14 DEF ReadBackOwn
    <3> QED BY <2>14, <3>1 DEF ReturnsOk
  <2>15. CASE ReadBackUnchanged(c) BY <2>15 DEF ReadBackUnchanged
  <2> QED BY <1>2, <2>3, <2>4, <2>5, <2>6, <2>7, <2>8, <2>9, <2>10, <2>11, <2>12, <2>13,
       <2>14, <2>15, Zenon DEF Mutates
<1>3. ASSUME NEW c \in Callers, Store(c) PROVE Goal
  BY <1>3 DEF Store, StoreApplies, StoreConflicts, StoreFails, requests, history
<1>4. ASSUME NEW c \in Callers, Abandon(c) PROVE Goal
  BY <1>4 DEF Abandon
<1>5. CASE ProbeReloads \/ ProbeDetects
  BY <1>5 DEF ProbeReloads, ProbeDetects, ProbeEnd, requests, history
<1>6. CASE LateWrite \/ ForeignWrite
  BY <1>6 DEF LateWrite, ForeignWrite, requests
<1>7. CASE Restart
  <2>1. InFlight = {} \/ (InFlight = {write} /\ \E c \in Callers : pc[c] = "writing")
    BY DEF InFlight
  <2> QED BY <1>7, <2>1 DEF Restart
<1> QED BY <1>1, <1>2, <1>3, <1>4, <1>5, <1>6, <1>7, CalmStep

LEMMA SourcedStep ==
    TypeOK /\ TypeOK' /\ Locked /\ Prepared /\ Sourced /\ [Next]_vars => Sourced'
<1> SUFFICES ASSUME TypeOK, TypeOK', Locked, Prepared, Sourced, [Next]_vars PROVE Sourced'
  OBVIOUS
<1>1. /\ remote \in Objects /\ local \in Objects /\ observed \in Objects /\ write \in Writes
      /\ late \subseteq Writes /\ Written \in Objects
      /\ remote' \in Objects /\ local' \in Objects
  BY DEF TypeOK, Objects, Writes, Written
<1>2. GrowsTo(remote, remote')
  BY RemoteStep
<1>3. PastOf(local', remote')
  <2>1. CASE local' = local BY <1>1, <1>2, <2>1, PastStays DEF Sourced
  <2>2. CASE local' = remote' BY <1>1, <2>2, PastSelf
  <2>3. CASE remote' = remote /\ local' = Written /\ \E c \in Callers : pc[c] = "stored"
    BY <2>3 DEF Sourced
  <2>4. CASE remote' = remote /\ local' = observed /\ \E c \in Callers : pc[c] = "conflict"
    BY <2>4 DEF Sourced
  <2> QED BY <2>1, <2>2, <2>3, <2>4, DataStep DEF SnapshotMoves
<1>4. ASSUME NEW c \in Callers, pc'[c] = "stored" PROVE PastOf(Written', remote')
  <2>1. CASE pc[c] = pc'[c] /\ UNCHANGED <<write, observed>>
    <3>1. Written' = Written /\ PastOf(Written, remote) BY <1>4, <2>1 DEF Written, Sourced
    <3> QED BY <1>1, <1>2, <3>1, PastStays
  <2>2. CASE StoreApplies(c)
    <3>1. Written' = remote' BY <2>2 DEF StoreApplies, Matches, Commit, requests, call, Written
    <3> QED BY <1>1, <3>1, PastSelf
  <2> QED BY <1>4, <2>1, <2>2, AnswerStep
<1>5. ASSUME NEW c \in Callers, pc'[c] = "conflict" PROVE PastOf(observed', remote')
  <2>1. CASE pc[c] = pc'[c] /\ UNCHANGED <<write, observed>>
    BY <1>1, <1>2, <1>5, <2>1, PastStays DEF Sourced
  <2>2. CASE StoreConflicts(c) /\ pc[c] = "writing"
    <3>1. observed' = remote'
      BY <1>5, <2>2 DEF StoreConflicts, Goto, At, TypeOK
    <3> QED BY <1>1, <3>1, PastSelf
  <2> QED BY <1>5, <2>1, <2>2, AnswerStep
<1>6. ASSUME NEW w \in late' PROVE FitsOf(w, remote')
  <2>1. CASE w \in late
    BY <1>1, <1>2, <2>1, FitsStays DEF Sourced
  <2>2. CASE w = write /\ remote' = remote /\ \E c \in Callers : pc[c] = "writing"
    <3>1. PICK c \in Callers : pc[c] = "writing" BY <2>2
    <3>2. FitsOf(write, remote)
      BY <1>1, <3>1, PreparedFits DEF Prepared, Issued, Sourced
    <3> QED BY <2>2, <3>2
  <2> QED BY <1>6, <2>1, <2>2, DataStep DEF LateMoves
<1> QED BY <1>3, <1>4, <1>5, <1>6 DEF Sourced

LEMMA OnceStep ==
    TypeOK /\ TypeOK' /\ Prepared /\ Sourced /\ Once /\ [Next]_vars => Once'
  BY RemoteStep, Grown DEF TypeOK, Objects, Once

-----------------------------------------------------------------------------
(* Acknowledged and accepted updates.                                      *)

\* Where mutate_authoritative returns Ok the update is durable.
LEMMA OkDurable ==
    ASSUME TypeOK, Prepared, Sourced, NEW c \in Callers, ReturnsOk(c)
    PROVE  remote.data.val[c] >= 1
<1>0. /\ remote.data.val \in [Callers \cup {Foreign} -> Nat]
      /\ local.data.val \in [Callers \cup {Foreign} -> Nat]
      /\ observed.data.val \in [Callers \cup {Foreign} -> Nat]
  BY DEF TypeOK, Contents
<1> USE <1>0 DEF At
<1>1. CASE NoOp(c)
  <2>1. local.data.val[c] > 0 BY <1>1 DEF NoOp, Applied
  <2>2. local.data.val[c] <= remote.data.val[c] BY DEF Sourced, PastOf
  <2> QED BY <2>1, <2>2
<1>2. CASE pc[c] \in Issued
  <2>1. write.next.val[c] = 1
    <3>1. local.data.val[c] = 0 /\ write.next.val = Apply(local.data, c).val
      BY <1>2 DEF Prepared
    <3>2. write.next.val = [local.data.val EXCEPT ![c] = @ + 1]
      BY <3>1 DEF Apply
    <3> QED BY <3>1, <3>2
  <2>2. CASE Stored(c) BY <2>1, <2>2, Zenon DEF Stored, Sourced, PastOf, Written
  <2>3. CASE ReadBackOwn(c) BY <2>1, <2>3 DEF ReadBackOwn
  <2>4. CASE Conflict(c) /\ observed.data = write.next
    BY <2>1, <2>4, Zenon DEF Conflict, Sourced, PastOf
  <2>5. CASE NoOp(c) BY <1>1, <2>5
  <2> QED BY <2>2, <2>3, <2>4, <2>5 DEF ReturnsOk
<1> QED BY <1>1, <1>2, Zenon DEF ReturnsOk, Issued, Stored, ReadBackOwn, Conflict

LEMMA AckedStep ==
    ASSUME TypeOK, TypeOK', Prepared, Sourced, Once, AckedDurable, [Next]_vars
    PROVE  AckedDurable'
<1>1. Once' BY OnceStep
<1>2. \A x \in Callers : remote.data.val[x] <= remote'.data.val[x]
  BY RemoteStep, Grown DEF TypeOK, Objects
<1>3. acked' \subseteq Callers /\ \A x \in Callers : remote.data.val[x] \in Nat /\ remote'.data.val[x] \in Nat
  BY DEF TypeOK, Contents
<1> SUFFICES ASSUME NEW x \in acked' PROVE remote'.data.val[x] = 1
  BY DEF AckedDurable
<1>4. remote.data.val[x] >= 1
  BY <1>3, DataStep, OkDurable DEF AckedMoves, AckedDurable
<1> QED BY <1>1, <1>2, <1>3, <1>4 DEF Once

LEMMA OwingStep ==
    ASSUME TypeOK, TypeOK', Permitted, Prepared, Sourced, Owing, [Next]_vars
    PROVE  Owing'
<1>0. /\ DOMAIN pc = Callers
      /\ Submitters \subseteq Callers /\ Mutators \subseteq Callers
      /\ Submitters \cap Mutators = {}
      /\ owed \subseteq Submitters
  BY Basics DEF TypeOK
<1>1. \A x \in Callers : Applied(remote.data, x) => Applied(remote.data, x)'
  <2>1. \A x \in Callers : remote.data.val[x] <= remote'.data.val[x]
    BY RemoteStep, Grown DEF TypeOK, Objects
  <2>2. \A x \in Callers : remote.data.val[x] \in Nat /\ remote'.data.val[x] \in Nat
    BY Zenon DEF TypeOK, Objects, Contents
  <2> QED BY <2>1, <2>2 DEF Applied
<1>2. ASSUME NEW c \in Callers, ReturnsOk(c) PROVE Applied(remote.data, c)
  <2>1. remote.data.val[c] >= 1 BY <1>2, OkDurable
  <2> QED BY <2>1 DEF TypeOK, Contents, Applied
\* Leaving with an error keeps the permit, leaving with Ok needs it no more.
<1>3. ASSUME NEW c \in Callers, pc[c] \in Accepted, ReturnErr(c) PROVE Owing'
  BY <1>0, <1>1, <1>3 DEF ReturnErr, Return, Goto, Owing, Accepted
<1>4. ASSUME NEW c \in Callers, ReturnsOk(c), ReturnOk(c) PROVE Owing'
  BY <1>0, <1>1, <1>2, <1>4 DEF ReturnOk, Return, Goto, Owing
<1>5. ASSUME NEW c \in Callers, NEW p \in Accepted, pc[c] \in Accepted \/ c \in permits \/ c \notin owed,
             Goto(c, p), UNCHANGED permits, owed' = owed
      PROVE  Owing'
  BY <1>0, <1>1, <1>5 DEF Goto, Owing
<1>6. ASSUME NEW c \in Callers, NEW p \in {"idle", "checking", "object"}, Goto(c, p),
             permits' \in {permits, permits \ {c}}, owed' \in {owed, owed \ {c}},
             pc[c] \in Accepted => owed' = owed \ {c}
      PROVE  Owing'
  BY <1>0, <1>1, <1>6 DEF Goto, Owing, Accepted, Holding
<1>7. ASSUME UNCHANGED <<pc, permits, owed>> PROVE Owing'
  BY <1>0, <1>1, <1>7 DEF Owing
<1> USE DEF At, Accepted, Holding, history
<1>8. ASSUME NEW s \in Submitters, Submission(s) PROVE Owing'
  <2>1. CASE PermitCheck(s) BY <1>0, <1>6, <2>1 DEF PermitCheck
  <2>2. CASE PermitAdmit(s)
    BY <1>0, <1>1, <2>2 DEF PermitAdmit, Goto, Owing
  <2>3. CASE PermitRecheck(s)
    BY <1>0, <1>1, <2>3 DEF PermitRecheck, Goto, Owing
  <2>4. CASE ProviderAccepts(s)
    BY <1>0, <1>1, <2>4 DEF ProviderAccepts, Goto, Owing, Permitted, OnTheWay
  <2>5. CASE ProviderRefuses(s) BY <1>0, <1>6, <2>5 DEF ProviderRefuses
  <2>6. CASE CheckpointRetry(s)
    BY <1>0, <1>5, <1>6, <2>6 DEF CheckpointRetry
  <2> QED BY <1>8, <2>1, <2>2, <2>3, <2>4, <2>5, <2>6 DEF Submission
<1>9. ASSUME NEW c \in Callers, Enter(c) PROVE Owing'
  BY <1>0, <1>5, <1>9 DEF Enter, Entry
<1>10. ASSUME NEW c \in Callers, Lock(c) PROVE Owing'
  BY <1>5, <1>10 DEF Lock
<1>11. ASSUME NEW c \in Callers, Mutates(c) PROVE Owing'
  <2>1. CASE Queue(c) BY <1>3, <1>5, <2>1 DEF Queue
  <2>2. CASE Reload(c) BY <1>3, <1>5, <2>2 DEF Reload
  <2>3. CASE Attempt(c) BY <1>5, <2>3 DEF Attempt
  <2>4. CASE NoOp(c) BY <1>4, <2>4, Zenon DEF NoOp, ReturnsOk
  <2>5. CASE Refused(c) BY <1>3, <2>5 DEF Refused
  <2>6. CASE Rejected(c) BY <1>6, <2>6 DEF Rejected, Return
  <2>7. CASE Closed(c) BY <1>3, <2>7 DEF Closed, Answered
  <2>8. CASE Stored(c) BY <1>4, <2>8 DEF Stored, ReturnsOk
  <2>9. CASE Conflict(c) BY <1>3, <1>4, <2>9 DEF Conflict, ReturnsOk
  <2>10. CASE ReadBackFails(c) \/ ReadBackForeign(c) BY <1>3, <2>10 DEF ReadBackFails, ReadBackForeign
  <2>11. CASE ReadBackOwn(c) BY <1>4, <2>11 DEF ReadBackOwn, ReturnsOk
  <2>12. CASE ReadBackUnchanged(c) BY <1>3, <1>5, <2>12 DEF ReadBackUnchanged
  <2> QED BY <1>11, <2>1, <2>2, <2>3, <2>4, <2>5, <2>6, <2>7, <2>8, <2>9, <2>10, <2>11, <2>12 DEF Mutates
<1>12. ASSUME NEW c \in Callers, Store(c) PROVE Owing'
  BY <1>5, <1>12 DEF Store, StoreApplies, StoreConflicts, StoreFails
<1>13. ASSUME NEW c \in Callers, Abandon(c) PROVE Owing'
  BY <1>6, <1>13 DEF Abandon, Return
<1>14. ASSUME NEW m \in Mutators, ObjectBegin(m) \/ ObjectEnd(m) PROVE Owing'
  BY <1>0, <1>6, <1>14 DEF ObjectBegin, ObjectEnd
<1>15. CASE ProbeBegin \/ ProbeReloads \/ ProbeDetects \/ ProbeQuiet
  BY <1>7, <1>15 DEF ProbeBegin, ProbeReloads, ProbeDetects, ProbeQuiet, ProbeEnd
<1>16. CASE Draining
  BY <1>7, <1>16 DEF Draining, StartDraining, CloseAdmission, AwaitFence, TakeFence, Drained,
     DeadlineElapses, Deactivate
<1>17. CASE LateWrite \/ ForeignWrite \/ UNCHANGED vars
  BY <1>7, <1>17 DEF LateWrite, ForeignWrite, vars
<1>18. CASE Restart BY <1>18 DEF Restart, Owing
<1> QED BY <1>8, <1>9, <1>10, <1>11, <1>12, <1>13, <1>14, <1>15, <1>16, <1>17, <1>18
     DEF Next, Mutation, Mutates

-----------------------------------------------------------------------------
(* Snapshot and object.                                                    *)

LEMMA CurrentStep == TypeOK /\ Locked /\ Prepared /\ Current /\ [Next]_vars => Current'
<1> SUFFICES ASSUME TypeOK, Locked, Prepared, Current, [Next]_vars PROVE Current'
  OBVIOUS
<1>0. DOMAIN pc = Callers /\ Nobody \notin Callers /\ Probe \notin Callers
  BY Basics
<1>00. remote \in Objects /\ local \in Objects /\ write \in Writes /\ strayed \in BOOLEAN
  BY DEF TypeOK, Objects, Writes
<1>1. CASE Calm BY <1>1 DEF Calm, Issued, Current, Written
\* A caller that leaves with an error, or goes on without a write.
<1>2. ASSUME NEW c \in Callers, UNCHANGED <<remote, local, strayed>>,
             coherence' # "Coherent"
      PROVE  Current'
  BY <1>2 DEF Current
<1>3. ASSUME NEW c \in Callers, NEW p \in {"idle", "unsynced"}, Return(c, p), pc[c] \notin Issued,
             UNCHANGED <<remote, local, coherence, strayed>>
      PROVE  Current'
  <2>1. \A d \in Callers : pc[d] \in Issued => mutex = d /\ d # c
    BY <1>3 DEF Locked, Holding, Issued
  <2>2. \A d \in Callers : pc'[d] \in Issued <=> pc[d] \in Issued
    BY <1>0, <1>3 DEF Return, Goto, Issued
  <2>3. \A d \in Callers : pc[d] \in Issued => pc'[d] = pc[d] /\ write' = write
    BY <1>0, <1>3, <2>1 DEF Return, Goto, call
  <2> QED BY <1>3, <2>2, <2>3 DEF Current, Issued, Written
<1>4. ASSUME NEW c \in Callers, local' = remote, remote' = remote, pc[c] \in Holding,
             \/ \E p \in {"idle", "ready"} : Goto(c, p)
             \/ \E p \in {"idle", "ready"} : Return(c, p)
      PROVE  Current'
  <2>1. \A d \in Callers : pc'[d] \notin {"stored", "conflict"}
    BY <1>0, <1>4 DEF Return, Goto, Locked, Holding
  <2> QED BY <1>4, <2>1 DEF Current
<1> USE DEF At
<1>5. ASSUME NEW c \in Callers, Mutates(c) PROVE Current'
  <2>1. CASE Queue(c)
    <3>1. CASE ReturnErr(c) BY <1>3, <2>1, <3>1 DEF Queue, ReturnErr, Issued
    <3>2. CASE Goto(c, "queued") /\ UNCHANGED call
      BY <1>0, <2>1, <3>2 DEF Queue, Goto, call, Current, Written
    <3> QED BY <2>1, <3>1, <3>2 DEF Queue
  <2>2. CASE Reload(c)
    <3>1. CASE ReturnErr(c) /\ UNCHANGED <<local, coherence>>
      BY <1>3, <2>2, <3>1 DEF Reload, ReturnErr, Issued
    <3>2. CASE Install(remote.data, remote.gen) /\ Goto(c, "ready")
      BY <1>00, <1>4, <2>2, <3>2 DEF Reload, Install, Objects, Holding
    <3> QED BY <2>2, <3>1, <3>2 DEF Reload
  <2>3. CASE Attempt(c)
    <3>1. \A d \in Callers : pc'[d] \notin {"stored", "conflict"} /\ pc[d] \notin {"stored", "conflict", "failed"}
      BY <1>0, <2>3 DEF Attempt, Goto, Locked, Holding
    <3> QED BY <2>3, <3>1 DEF Attempt, history, Current
  <2>4. CASE NoOp(c) BY <1>3, <2>4 DEF NoOp, ReturnOk, Issued
  <2>5. CASE Refused(c) BY <1>3, <2>5 DEF Refused, ReturnErr, Issued
  <2>6. CASE Rejected(c) BY <1>3, <2>6 DEF Rejected, Issued
  <2>7. CASE Closed(c) BY <1>2, <2>7 DEF Closed
  <2>8. CASE Stored(c)
    <3>1. local' = Written /\ UNCHANGED <<remote, strayed>> /\ Return(c, "idle")
      BY <2>8 DEF Stored, Install, ReturnOk, Written
    <3>2. coherence = "Coherent" BY <2>8 DEF Stored, Prepared, Issued
    <3>3. CASE ~strayed
      <4>1. remote = Written BY <2>8, <3>2, <3>3 DEF Stored, Current
      <4> QED BY <1>4, <2>8, <3>1, <4>1 DEF Stored, Holding
    <3> QED BY <3>1, <3>3 DEF Current
  <2>9. CASE Conflict(c)
    <3>1. strayed
      BY <1>00, <2>9 DEF Conflict, Prepared, Issued, Current, Locked, Holding
    <3> QED BY <2>9, <3>1 DEF Conflict, Current
  <2>10. CASE ReadBackFails(c) \/ ReadBackForeign(c)
    BY <1>2, <2>10 DEF ReadBackFails, ReadBackForeign
  <2>11. CASE ReadBackOwn(c)
    BY <1>00, <1>4, <2>11 DEF ReadBackOwn, Install, ReturnOk, Objects, Holding
  <2>12. CASE ReadBackUnchanged(c)
    <3>1. coherence' # "Coherent" \/ (Goto(c, "ready") /\ UNCHANGED <<coherence, write>>)
      BY <2>12, Zenon DEF ReadBackUnchanged
    <3>2. CASE Goto(c, "ready") /\ UNCHANGED <<coherence, write>>
      <4>1. \A d \in Callers : pc'[d] \notin {"stored", "conflict"}
        BY <1>0, <2>12, <3>2, Zenon DEF ReadBackUnchanged, Goto, Locked, Holding
      <4>2. remote # Written BY <1>00, <2>12 DEF ReadBackUnchanged, Written
      <4> QED BY <2>12, <3>2, <4>1, <4>2, Zenon DEF ReadBackUnchanged, Current
    <3> QED BY <1>2, <2>12, <3>1, <3>2, Zenon DEF ReadBackUnchanged
  <2> QED BY <1>5, <2>1, <2>2, <2>3, <2>4, <2>5, <2>6, <2>7, <2>8, <2>9, <2>10, <2>11, <2>12 DEF Mutates
<1>6. ASSUME NEW c \in Callers, Store(c) PROVE Current'
  <2>1. \A d \in Callers : pc[d] \notin {"stored", "conflict", "failed"}
    BY <1>6 DEF Store, StoreApplies, StoreConflicts, StoreFails, Locked, Holding
  <2>2. CASE StoreApplies(c)
    BY <1>0, <2>2 DEF StoreApplies, Commit, Matches, Goto, requests, call, Current, Written
  <2>3. CASE StoreConflicts(c)
    BY <1>00, <2>1, <2>3 DEF StoreConflicts, Matches, history, Prepared, Issued, Current
  <2>4. CASE StoreFails(c)
    BY <1>0, <2>1, <2>4 DEF StoreFails, Goto, history, Current
  <2> QED BY <1>6, <2>2, <2>3, <2>4 DEF Store
<1>7. ASSUME NEW c \in Callers, Abandon(c) PROVE Current'
  <2> SUFFICES ASSUME coherence = "Coherent", ~strayed, ~Unseen(c) PROVE Current'
    BY <1>7, Zenon DEF Abandon, Current
  <2>0. UNCHANGED <<remote, local, coherence>> /\ Return(c, "idle") BY <1>7 DEF Abandon
  <2>1. CASE local = remote /\ \A d \in Callers : pc[d] \notin {"stored", "conflict"}
    BY <1>0, <2>0, <2>1 DEF Return, Goto, Current
  <2>2. CASE remote = Written /\ \E d \in Callers : pc[d] \in {"stored", "failed"}
    <3>1. PICK d \in Callers : pc[d] \in {"stored", "failed"} BY <2>2
    <3>2. mutex = d /\ remote.gen # local.gen
      <4>1. mutex = d BY <3>1 DEF Locked, Holding
      <4>2. write.exp = local.gen BY <3>1 DEF Prepared, Issued
      <4>3. remote.gen = write.exp + 1 BY <2>2 DEF Written
      <4>4. local.gen \in Nat BY <1>00 DEF Objects
      <4> QED BY <4>1, <4>2, <4>3, <4>4
    <3>3. d # c BY <3>1, <3>2 DEF Unseen
    <3>4. write' = write /\ pc'[d] = pc[d] BY <1>0, <2>0, <3>2, <3>3 DEF Return, Goto, call
    <3> QED BY <2>0, <2>2, <3>1, <3>4, Zenon DEF Current, Written
  <2> QED BY <2>1, <2>2 DEF Current
<1>8. CASE ProbeReloads
  <2>1. \A d \in Callers : pc[d] \notin Holding BY <1>0, <1>8 DEF ProbeReloads, ProbeEnd, Locked
  <2> QED BY <1>8, <2>1 DEF ProbeReloads, ProbeEnd, Holding, Current
<1>9. CASE ProbeDetects \/ LateWrite \/ ForeignWrite
  BY <1>9 DEF ProbeDetects, ProbeEnd, LateWrite, ForeignWrite, requests, call, Current, Written
<1>10. CASE Restart BY <1>10 DEF Restart, Current
<1> QED BY <1>1, <1>5, <1>6, <1>7, <1>8, <1>9, <1>10, CalmStep

LEMMA ViolatedStep == TypeOK /\ Locked /\ Prepared /\ Current /\ ViolatedNeedsStray /\ [Next]_vars => ViolatedNeedsStray'
<1> SUFFICES ASSUME TypeOK, Locked, Prepared, Current, ViolatedNeedsStray, [Next]_vars PROVE ViolatedNeedsStray'
  OBVIOUS
<1>0. Nobody \notin Callers /\ Probe \notin Callers
  BY Basics
<1>00. remote \in Objects /\ local \in Objects /\ write \in Writes /\ strayed \in BOOLEAN
  BY DEF TypeOK, Objects, Writes
<1> USE DEF At, ViolatedNeedsStray
<1>1. CASE Calm BY <1>1 DEF Calm
<1>2. ASSUME NEW c \in Callers, Mutates(c) PROVE ViolatedNeedsStray'
  <2>1. CASE Queue(c) \/ Attempt(c) \/ NoOp(c) \/ Refused(c) \/ Rejected(c)
    BY <2>1 DEF Queue, Attempt, NoOp, Refused, Rejected, history
  <2>2. CASE Reload(c) \/ Closed(c) \/ Stored(c) BY <2>2, Zenon DEF Reload, Closed, Stored, Install
  <2>3. CASE Conflict(c)
    <3>1. strayed BY <1>00, <2>3 DEF Conflict, Prepared, Issued, Current, Locked, Holding
    <3> QED BY <2>3, <3>1 DEF Conflict, Install
  <2>4. CASE ReadBackFails(c) \/ ReadBackOwn(c) \/ ReadBackUnchanged(c)
    BY <2>4, Zenon DEF ReadBackFails, ReadBackOwn, ReadBackUnchanged, Install
  <2>5. CASE ReadBackForeign(c)
    <3>1. coherence = "Coherent" /\ write.exp = local.gen BY <2>5, Zenon DEF ReadBackForeign, Prepared, Issued
    <3>2. remote # local /\ remote # Written BY <2>5, <3>1 DEF ReadBackForeign, Written
    <3>3. strayed BY <1>00, <3>1, <3>2 DEF Current
    <3> QED BY <2>5, <3>3 DEF ReadBackForeign
  <2> QED BY <1>2, <2>1, <2>2, <2>3, <2>4, <2>5 DEF Mutates
<1>3. ASSUME NEW c \in Callers, Store(c) \/ Abandon(c) PROVE ViolatedNeedsStray'
  BY <1>3, Zenon DEF Store, StoreApplies, StoreConflicts, StoreFails, Abandon, history
<1>4. CASE ProbeDetects
  <2>1. \A d \in Callers : pc[d] \notin Holding BY <1>0, <1>4 DEF ProbeDetects, ProbeEnd, Locked
  <2> QED BY <1>00, <1>4, <2>1 DEF ProbeDetects, ProbeEnd, history, Holding, Current
<1>5. CASE ProbeReloads \/ LateWrite \/ ForeignWrite \/ Restart
  BY <1>5 DEF ProbeReloads, ProbeEnd, history, LateWrite, ForeignWrite, Restart
<1> QED BY <1>1, <1>2, <1>3, <1>4, <1>5, CalmStep

-----------------------------------------------------------------------------
(* The inductive invariant and what follows from it.                       *)

LEMMA InitInv == Init => Inv
<1> SUFFICES ASSUME Init PROVE Inv
  OBVIOUS
<1> USE RuntimeCommitAssumption DEF Init
<1>1. TypeOK BY InitTyped
<1>2. Locked /\ Fenced /\ Permitted /\ Prepared /\ Recovering
  BY Zenon DEF Locked, Fenced, Permitted, Prepared, Recovering, Holding, Issued, OnTheWay, Callers
<1>3. Phases BY DEF Phases
<1>4. Sourced
  <2>1. PastOf(local, remote) BY <1>1, PastSelf DEF TypeOK, Objects
  <2> QED BY <2>1 DEF Sourced
<1>5. Once /\ AckedDurable /\ Owing
  BY DEF Once, AckedDurable, Owing, Absent, Empty
<1>6. Current /\ ViolatedNeedsStray
  BY DEF Current, ViolatedNeedsStray
<1> QED BY <1>1, <1>2, <1>3, <1>4, <1>5, <1>6 DEF Inv

LEMMA StepInv == Inv /\ [Next]_vars => Inv'
<1> SUFFICES ASSUME Inv, [Next]_vars PROVE Inv'
  OBVIOUS
<1>1. TypeOK' BY TypedStep DEF Inv
<1>2. Locked' /\ Fenced' /\ Permitted' /\ Phases'
  BY LockedStep, FencedStep, PermittedStep, PhasesStep DEF Inv
<1>3. Prepared' /\ Recovering' BY PreparedStep, RecoveringStep DEF Inv
<1>4. Sourced' /\ Once' BY <1>1, SourcedStep, OnceStep DEF Inv
<1>5. AckedDurable' /\ Owing' BY <1>1, AckedStep, OwingStep DEF Inv
<1>6. Current' /\ ViolatedNeedsStray' BY CurrentStep, ViolatedStep DEF Inv
<1> QED BY <1>1, <1>2, <1>3, <1>4, <1>5, <1>6 DEF Inv

LEMMA Invariance == Spec => []Inv
  BY InitInv, StepInv, PTL DEF Spec

\* Every update mutate or mutate_checkpoint acknowledged is in the durable
\* object, and once, whatever the store answered and whoever crashed or wrote.
THEOREM AcknowledgedIsDurable == Spec => []AckedDurable
<1>1. Inv => AckedDurable BY DEF Inv
<1> QED BY <1>1, Invariance, PTL

\* A Coherent snapshot that no mutation holds is the durable object, and the
\* namespace is refused only after a write behind the process's back.
THEOREM CoherenceHolds == Spec => []CoherenceIsTrue
<1>1. Inv => CoherenceIsTrue
  BY RuntimeCommitAssumption
  DEF Inv, TypeOK, Current, Locked, Holding, CoherenceIsTrue, CoherentIsCurrent
<1> QED BY <1>1, Invariance, PTL

\* begin_draining returns cleanly only when the checkpoint of every accepted
\* submission is durable, unless the submission was given up.
THEOREM CleanDrainKeepsSubmissions == Spec => []CleanDrainCheckpointed
<1>1. Inv => CleanDrainCheckpointed
  BY DEF Inv, Phases, Owing, CleanDrainCheckpointed
<1> QED BY <1>1, Invariance, PTL

-----------------------------------------------------------------------------
(* What a step may do to object and snapshot.                              *)

LEMMA KeepsStep == Inv /\ [Next]_vars => KeepsUpdates
<1> SUFFICES ASSUME Inv, [Next]_vars PROVE KeepsUpdates
  OBVIOUS
<1>1. TypeOK' BY TypedStep DEF Inv
<1> QED BY <1>1, RemoteStep, Grown, Zenon DEF Inv, TypeOK, Objects, KeepsUpdates

\* No step erases a durable update, adopts another writer's state as its own
\* process's, or writes the state or an object after a clean drain.
THEOREM WritesSound == Spec => WritesAreSound
<1>1. Inv /\ [Next]_vars => KeepsUpdates /\ OwnUpdateOnly /\ QuietAfterDrain
  BY KeepsStep, OwnStep, QuietStep DEF Inv
<1> QED BY <1>1, Invariance, PTL DEF Spec, WritesAreSound
=============================================================================
