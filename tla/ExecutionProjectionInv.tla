---------------------- MODULE ExecutionProjectionInv ----------------------
(***************************************************************************)
(* The inductive invariant of ExecutionProjection, and the proof that      *)
(* attaching and detaching owners and popping a ready task preserve it,    *)
(* for every set of owners, tasks and workers, every set of valid graphs   *)
(* and every limit.                                                        *)
(***************************************************************************)
EXTENDS ExecutionProjection, FiniteSetTheorems, TLAPS

(* A record has a definition, and an edge of the store is a dependency in  *)
(* the definition of the task it leads to.                                 *)
EdgesDefined ==
    \A t \in Tasks :
        /\ status[t] # "Absent" => def[t] \in Nodes
        /\ \A d \in Tasks : t \in dependents[d] => status[t] # "Absent" /\ d \in def[t].deps

(* Two workers never hold the same token, and the holder of the current    *)
(* lease has the payload of the record.                                    *)
LeasesConsistent ==
    /\ \A v, w \in Workers :
           lease[v] # None /\ lease[w] # None /\ lease[v].token = lease[w].token => v = w
    /\ \A w \in Workers :
           lease[w] # None /\ status[lease[w].task] = "Running"
             /\ token[lease[w].task] = lease[w].token
           => lease[w].payload = payload[lease[w].task]

(* The inductive invariant. *)
IInv ==
    /\ TypeOK
    /\ EdgesDefined
    /\ IndexesAgree
    /\ DependenciesOwned
    /\ NoOrphanWork
    /\ OwnedNotCancelled
    /\ RunnableAfterDependencies
    /\ PendingAccounted
    /\ ReadyReachable
    /\ RetriesScheduled
    /\ LeasesConsistent

-----------------------------------------------------------------------------
(* Lemmas about the operators                                              *)

LEMMA TokenNotNone == None \notin Tokens /\ None \notin Tasks
  BY ConstantsAssumption DEF ConstantsAssumption

LEMMA FiniteDeps ==
  ASSUME NEW S \in SUBSET Tasks
  PROVE  IsFiniteSet(S) /\ Cardinality(S) \in Nat
  BY ConstantsAssumption, FS_Subset, FS_CardinalityType DEF ConstantsAssumption

(* What fail_dependents_locked reaches is closed under dependents ... *)
LEMMA ReachedClosed ==
  ASSUME TypeOK, NEW R \in SUBSET Tasks, NEW r \in R \cup Reached(R)
  PROVE  dependents[r] \subseteq Reached(R)
<1> SUFFICES ASSUME NEW t \in dependents[r], NEW S \in SUBSET Tasks,
                    \A q \in R \cup S : dependents[q] \subseteq S
             PROVE  t \in S
  BY DEF Reached, TypeOK
<1>1. r \in R \cup S
  BY DEF Reached
<1> QED BY <1>1

(* ... and contained in every set that is, and holds the dependents of R. *)
LEMMA ReachedLeast ==
  ASSUME NEW R, NEW S \in SUBSET Tasks, \A q \in R \cup S : dependents[q] \subseteq S
  PROVE  Reached(R) \subseteq S
  BY DEF Reached

-----------------------------------------------------------------------------
(* Inserting nodes, for a new owner or a reset of an attached one          *)

LEMMA InsertPreserves ==
  ASSUME IInv, NEW g, NEW ins \in SUBSET Tasks,
         \A t \in ins : g[t] \in Nodes /\ status[t] \in {"Absent"} \cup FailedStates,
         \A t \in ins : \A d \in g[t].deps : d \in ins \/ status[d] # "Absent",
         NEW new \in [ins -> {"Ready", "Pending", "Failed", "Cancelled"}],
         InsertNodes(g, ins, new), UNCHANGED workers
  PROVE  /\ status' \in [Tasks -> States]
         /\ def' \in [Tasks -> Nodes \cup {None}]
         /\ remaining' \in [Tasks -> Nat]
         /\ dependents' \in [Tasks -> SUBSET Tasks]
         /\ ready' \in [Tasks -> Nat]
         /\ scheduled' \subseteq Tasks
         /\ attempt' \in [Tasks -> 0 .. MaxAttempt]
         /\ token' \in [Tasks -> Tokens \cup {None}]
         /\ payload' \in [Tasks -> {"Execute", "Publish"}]
         /\ EdgesDefined'
         /\ RunnableAfterDependencies'
         /\ PendingAccounted'
         /\ ReadyReachable'
         /\ RetriesScheduled'
         /\ LeasesConsistent'
<1> DEFINE st == [t \in Tasks |-> IF t \in ins THEN new[t] ELSE status[t]]
<1> USE DEF IInv
<1>1. /\ status' = st
      /\ def' = [t \in Tasks |-> IF t \in ins THEN g[t] ELSE def[t]]
      /\ \A t \in ins : new[t] \in InsertStates(g[t].deps, st)
  BY DEF InsertNodes
<1>2. dependents' = [d \in Tasks |->
           (dependents[d] \ ins)
             \cup {t \in ins : new[t] = "Pending" /\ d \in Unresolved(g[t].deps, st)}]
  BY DEF InsertNodes
<1>3. \A t \in ins : Unresolved(g[t].deps, st) \in SUBSET Tasks
  BY DEF Unresolved, Nodes
<1>4. status' \in [Tasks -> States] /\ def' \in [Tasks -> Nodes \cup {None}]
  BY <1>1 DEF TypeOK, States
<1>5. remaining' \in [Tasks -> Nat]
  <2>1. \A t \in ins : Cardinality(Unresolved(g[t].deps, st)) \in Nat
    BY <1>3, FiniteDeps
  <2> QED BY <2>1 DEF TypeOK, InsertNodes
<1>6. dependents' \in [Tasks -> SUBSET Tasks]
  BY <1>2 DEF TypeOK
<1>7. ready' \in [Tasks -> Nat] /\ scheduled' \subseteq Tasks
  BY DEF TypeOK, InsertNodes
<1>8. /\ attempt' \in [Tasks -> 0 .. MaxAttempt]
      /\ token' \in [Tasks -> Tokens \cup {None}]
      /\ payload' \in [Tasks -> {"Execute", "Publish"}]
  BY ConstantsAssumption DEF TypeOK, InsertNodes, Assign, ConstantsAssumption
<1>9. EdgesDefined'
  <2>1. ASSUME NEW t \in Tasks, status'[t] # "Absent" PROVE def'[t] \in Nodes
    BY <1>1, <2>1 DEF EdgesDefined
  <2>2. ASSUME NEW t \in Tasks, NEW d \in Tasks, t \in dependents'[d]
        PROVE  status'[t] # "Absent" /\ d \in def'[t].deps
    <3>1. CASE t \in ins
      BY <1>1, <1>2, <2>2, <3>1 DEF Unresolved, TypeOK
    <3>2. CASE t \notin ins
      BY <1>1, <1>2, <2>2, <3>2 DEF EdgesDefined
    <3> QED BY <3>1, <3>2
  <2> QED BY <2>1, <2>2 DEF EdgesDefined
(* A live or runnable task that is not inserted depends on none that is. *)
<1>10. ASSUME NEW t \in Tasks, t \notin ins, status[t] \in {"Pending", "Ready", "Running", "Retrying"},
              NEW d \in def[t].deps
       PROVE  d \in Tasks /\ d \notin ins
  <2>1. def[t] \in Nodes
    BY <1>10 DEF EdgesDefined
  <2>2. d \in Tasks
    BY <2>1 DEF Nodes
  <2>3. status[d] \notin {"Absent"} \cup FailedStates
    <3>1. CASE status[t] = "Pending"
      BY <3>1, <2>2, ZenonT(60) DEF PendingAccounted, Unresolved, Live, TerminalStates, FailedStates
    <3>2. CASE status[t] # "Pending"
      BY <3>2, <1>10 DEF RunnableAfterDependencies, FailedStates
    <3> QED BY <3>1, <3>2
  <2> QED BY <2>2, <2>3
<1>11. ASSUME NEW t \in ins, NEW d \in g[t].deps
       PROVE  d \in Tasks /\ st[d] # "Absent"
  BY DEF Nodes
<1>12. RunnableAfterDependencies'
  <2> SUFFICES ASSUME NEW t \in Tasks, status'[t] \in {"Ready", "Running", "Retrying"},
                      NEW d \in def'[t].deps
               PROVE  status'[d] = "Succeeded"
    BY DEF RunnableAfterDependencies
  <2>1. CASE t \in ins
    BY <1>1, <2>1, ZenonT(60) DEF InsertStates, FailedStates
  <2>2. CASE t \notin ins
    BY <1>1, <1>10, <2>2 DEF RunnableAfterDependencies
  <2> QED BY <2>1, <2>2
<1>13. PendingAccounted'
  <2> SUFFICES ASSUME NEW t \in Tasks, status'[t] = "Pending"
               PROVE  LET waits == Unresolved(def'[t].deps, status') IN
                      /\ waits # {}
                      /\ remaining'[t] = Cardinality(waits)
                      /\ \A d \in waits : Live(d)' /\ t \in dependents'[d]
    BY DEF PendingAccounted
  <2>1. CASE t \in ins
    <3>1. new[t] = "Pending" /\ def'[t] = g[t]
      BY <1>1, <2>1
    <3>2. {st[d] : d \in g[t].deps} \cap FailedStates = {}
      BY <1>1, <2>1, <3>1, ZenonT(60) DEF InsertStates, FailedStates
    <3>3. Unresolved(g[t].deps, st) # {}
      BY <1>1, <2>1, <3>1, <3>2, ZenonT(60) DEF InsertStates, Unresolved
    <3>4. remaining'[t] = Cardinality(Unresolved(g[t].deps, st))
      BY <2>1, <3>1 DEF InsertNodes
    <3>5. ASSUME NEW d \in Unresolved(g[t].deps, st)
          PROVE  Live(d)' /\ t \in dependents'[d]
      BY <1>1, <1>2, <1>11, <2>1, <3>1, <3>2, <3>5, ZenonT(60)
      DEF Unresolved, Live, TerminalStates
    <3> QED BY <1>1, <3>1, <3>3, <3>4, <3>5
  <2>2. CASE t \notin ins
    <3>1. status[t] = "Pending" /\ def'[t] = def[t] /\ remaining'[t] = remaining[t]
      BY <1>1, <2>2 DEF InsertNodes
    <3>2. \A d \in def[t].deps : d \in Tasks /\ d \notin ins /\ status'[d] = status[d]
      BY <1>1, <1>10, <2>2, <3>1
    <3>3. Unresolved(def'[t].deps, status') = Unresolved(def[t].deps, status)
      BY <3>1, <3>2 DEF Unresolved
    <3>4. ASSUME NEW d \in Unresolved(def[t].deps, status)
          PROVE  Live(d)' /\ t \in dependents'[d]
      BY <1>2, <2>2, <3>1, <3>2, ZenonT(60) DEF PendingAccounted, Unresolved, Live
    <3> QED BY <3>1, <3>3, <3>4 DEF PendingAccounted
  <2> QED BY <2>1, <2>2
<1>14. ReadyReachable' /\ RetriesScheduled'
  <2>1. hand' = hand /\ scheduled' = scheduled \ ins
    BY DEF workers, InsertNodes
  <2>2. \A t \in Tasks : ready'[t] = IF t \notin ins THEN ready[t]
                                     ELSE IF new[t] = "Ready" THEN 1 ELSE 0
    BY DEF InsertNodes
  <2>3. ReadyReachable'
    BY <1>1, <2>1, <2>2 DEF ReadyReachable
  <2>4. RetriesScheduled'
    BY <1>1, <2>1 DEF RetriesScheduled
  <2> QED BY <2>3, <2>4
<1>15. LeasesConsistent'
  <2>1. lease' = lease
    BY DEF workers
  <2>2. \A w \in Workers : lease[w] # None => lease[w].task \in Tasks /\ lease[w].token # None
    BY TokenNotNone DEF TypeOK, Leases
  <2>3. \A t \in Tasks : IF t \in ins THEN token'[t] = None
                         ELSE token'[t] = token[t] /\ payload'[t] = payload[t] /\ status'[t] = status[t]
    BY <1>1 DEF InsertNodes, Assign, TypeOK
  <2> QED BY <2>1, <2>2, <2>3 DEF LeasesConsistent
<1> QED
  BY <1>4, <1>5, <1>6, <1>7, <1>8, <1>9, <1>12, <1>13, <1>14, <1>15

LEMMA AttachPreserves ==
  ASSUME IInv, NEW o \in Owners, NEW g \in Graphs, AttachGraph(o, g)
  PROVE  IInv'
<1> DEFINE ins == {t \in DOMAIN g :
                     status[t] = "Absent" \/ (status[t] \in FailedStates /\ owners[t] = {})}
<1>1. /\ DOMAIN g \in SUBSET Tasks
      /\ \A t \in DOMAIN g : g[t] \in Nodes /\ g[t].deps \subseteq DOMAIN g
      /\ \A S \in SUBSET DOMAIN g : S # {} => \E t \in S : g[t].deps \cap S = {}
  BY GraphsAssumption DEF GraphsAssumption, ValidGraph
<1>2. /\ ownerState[o] = "Unknown"
      /\ \A t \in DOMAIN g : status[t] # "Absent" => def[t] = g[t]
      /\ owners' = [t \in Tasks |-> IF t \in DOMAIN g THEN owners[t] \cup {o} ELSE owners[t]]
      /\ graph' = [graph EXCEPT ![o] = DOMAIN g]
      /\ ownerState' = [ownerState EXCEPT ![o] = "Attached"]
      /\ UNCHANGED workers
  BY DEF AttachGraph, Inserted, Compatible, OwnersWith
<1>3. PICK new \in [ins -> {"Ready", "Pending", "Failed", "Cancelled"}] : InsertNodes(g, ins, new)
  BY ZenonT(60) DEF AttachGraph, Inserted, Compatible, OwnersWith
<1>4. /\ status' = [t \in Tasks |-> IF t \in ins THEN new[t] ELSE status[t]]
      /\ def' = [t \in Tasks |-> IF t \in ins THEN g[t] ELSE def[t]]
      /\ \A t \in ins : new[t] \in InsertStates(g[t].deps, status')
  BY <1>3, ZenonT(60) DEF InsertNodes
<1>5. /\ status' \in [Tasks -> States]
      /\ def' \in [Tasks -> Nodes \cup {None}]
      /\ remaining' \in [Tasks -> Nat]
      /\ dependents' \in [Tasks -> SUBSET Tasks]
      /\ ready' \in [Tasks -> Nat]
      /\ scheduled' \subseteq Tasks
      /\ attempt' \in [Tasks -> 0 .. MaxAttempt]
      /\ token' \in [Tasks -> Tokens \cup {None}]
      /\ payload' \in [Tasks -> {"Execute", "Publish"}]
      /\ EdgesDefined'
      /\ RunnableAfterDependencies'
      /\ PendingAccounted'
      /\ ReadyReachable'
      /\ RetriesScheduled'
      /\ LeasesConsistent'
  <2>1. ins \in SUBSET Tasks
    BY <1>1
  <2>2. \A t \in ins : g[t] \in Nodes /\ status[t] \in {"Absent"} \cup FailedStates
    BY <1>1
  <2>3. \A t \in ins : \A d \in g[t].deps : d \in ins \/ status[d] # "Absent"
    BY <1>1
  <2> HIDE DEF ins
  <2> QED BY <1>2, <1>3, <2>1, <2>2, <2>3, InsertPreserves, ZenonT(60)
<1> USE DEF IInv
<1>6. TypeOK'
  <2>1. owners' \in [Tasks -> SUBSET Owners]
    BY <1>2, Zenon DEF TypeOK
  <2>2. graph' \in [Owners -> SUBSET Tasks]
    BY <1>1, <1>2, Zenon DEF TypeOK
  <2>3. ownerState' \in [Owners -> {"Unknown", "Attached", "Retired"}]
    BY <1>2, Zenon DEF TypeOK
  <2>4. hand' = hand /\ lease' = lease
    BY <1>2 DEF workers
  <2> QED BY <1>5, <2>1, <2>2, <2>3, <2>4, Zenon DEF TypeOK
<1>7. IndexesAgree'
  <2> SUFFICES ASSUME NEW t \in Tasks
               PROVE  /\ \A q \in Owners : q \in owners'[t] <=> ownerState'[q] = "Attached" /\ t \in graph'[q]
                      /\ owners'[t] # {} => status'[t] # "Absent"
    BY DEF IndexesAgree
  <2>1. ASSUME NEW q \in Owners
        PROVE  q \in owners'[t] <=> ownerState'[q] = "Attached" /\ t \in graph'[q]
    BY <1>2 DEF IndexesAgree, TypeOK
  <2>2. owners'[t] # {} => status'[t] # "Absent"
    BY <1>1, <1>2, <1>3, <1>4 DEF IndexesAgree
  <2> QED BY <2>1, <2>2
<1>8. DependenciesOwned'
  <2> SUFFICES ASSUME NEW t \in Tasks, status'[t] # "Absent", NEW d \in def'[t].deps
               PROVE  owners'[t] \subseteq owners'[d]
    BY DEF DependenciesOwned
  <2>1. d \in Tasks
    BY <1>5 DEF EdgesDefined, Nodes
  <2>2. CASE t \in DOMAIN g
    <3>1. def'[t] = g[t] /\ d \in DOMAIN g
      BY <1>1, <1>2, <1>4, <2>2
    <3>2. owners[t] \subseteq owners[d]
      <4>1. CASE status[t] = "Absent"
        BY <4>1 DEF IndexesAgree
      <4>2. CASE status[t] # "Absent"
        BY <1>2, <2>2, <3>1, <4>2 DEF DependenciesOwned
      <4> QED BY <4>1, <4>2
    <3> QED BY <1>2, <2>1, <2>2, <3>1, <3>2
  <2>3. CASE t \notin DOMAIN g
    BY <1>2, <1>4, <2>1, <2>3 DEF DependenciesOwned
  <2> QED BY <2>2, <2>3
<1>9. NoOrphanWork'
  BY <1>2, <1>4, ZenonT(60) DEF NoOrphanWork, Live
<1>10. OwnedNotCancelled'
  <2> DEFINE S == {t \in ins : new[t] = "Cancelled"}
  <2>1. S = {}
    <3> SUFFICES ASSUME S # {} PROVE FALSE
      OBVIOUS
    <3>1. PICK t \in S : g[t].deps \cap S = {}
      BY <1>1, ZenonT(60)
    <3>2. PICK d \in g[t].deps : status'[d] = "Cancelled"
      <4>1. "Cancelled" \in InsertStates(g[t].deps, status')
        BY <1>4, ZenonT(60)
      <4> QED BY <4>1 DEF InsertStates
    <3>3. d \in DOMAIN g /\ d \in Tasks
      BY <1>1, <3>1
    <3>4. d \notin ins
      BY <1>4, <3>1, <3>2, <3>3
    <3>5. status[d] = "Cancelled" /\ owners[d] # {}
      BY <1>4, <3>2, <3>3, <3>4 DEF FailedStates
    <3> QED BY <3>3, <3>5 DEF OwnedNotCancelled
  <2> SUFFICES ASSUME NEW t \in Tasks, owners'[t] # {} PROVE status'[t] # "Cancelled"
    BY DEF OwnedNotCancelled
  <2>2. CASE t \in ins
    BY <1>4, <2>1, <2>2
  <2>3. CASE t \notin ins
    BY <1>2, <1>4, <2>3 DEF OwnedNotCancelled, FailedStates
  <2> QED BY <2>2, <2>3
<1> QED
  BY <1>5, <1>6, <1>7, <1>8, <1>9, <1>10

LEMMA ReattachPreserves ==
  ASSUME IInv, NEW o \in Owners, ReattachGraph(o)
  PROVE  IInv'
<1> DEFINE reset == {t \in graph[o] : status[t] \in FailedStates}
<1>1. ownerState[o] = "Attached" /\ UNCHANGED ownership /\ UNCHANGED workers
  BY DEF ReattachGraph
<1>2. PICK new \in [reset -> {"Ready", "Pending"}] : InsertNodes(def, reset, new)
  BY DEF ReattachGraph
<1>3. /\ status' = [t \in Tasks |-> IF t \in reset THEN new[t] ELSE status[t]]
      /\ def' = [t \in Tasks |-> IF t \in reset THEN def[t] ELSE def[t]]
  BY <1>2 DEF InsertNodes
<1>4. \A t \in reset : t \in Tasks /\ o \in owners[t]
  BY <1>1 DEF IInv, TypeOK, IndexesAgree
<1>5. /\ status' \in [Tasks -> States]
      /\ def' \in [Tasks -> Nodes \cup {None}]
      /\ remaining' \in [Tasks -> Nat]
      /\ dependents' \in [Tasks -> SUBSET Tasks]
      /\ ready' \in [Tasks -> Nat]
      /\ scheduled' \subseteq Tasks
      /\ attempt' \in [Tasks -> 0 .. MaxAttempt]
      /\ token' \in [Tasks -> Tokens \cup {None}]
      /\ payload' \in [Tasks -> {"Execute", "Publish"}]
      /\ EdgesDefined'
      /\ RunnableAfterDependencies'
      /\ PendingAccounted'
      /\ ReadyReachable'
      /\ RetriesScheduled'
      /\ LeasesConsistent'
  <2>1. reset \in SUBSET Tasks
    BY <1>4
  <2>2. \A t \in reset : def[t] \in Nodes /\ status[t] \in {"Absent"} \cup FailedStates
    BY <1>4 DEF IInv, EdgesDefined, FailedStates
  <2>3. \A t \in reset : \A d \in def[t].deps : d \in reset \/ status[d] # "Absent"
    <3> SUFFICES ASSUME NEW t \in reset, NEW d \in def[t].deps PROVE status[d] # "Absent"
      OBVIOUS
    <3>1. d \in Tasks /\ status[t] # "Absent"
      BY <2>2 DEF Nodes, FailedStates
    <3>2. o \in owners[d]
      BY <1>4, <3>1 DEF IInv, DependenciesOwned
    <3> QED BY <3>1, <3>2 DEF IInv, IndexesAgree
  <2>4. new \in [reset -> {"Ready", "Pending", "Failed", "Cancelled"}]
    BY <1>2
  <2> HIDE DEF reset
  <2> QED BY <1>1, <1>2, <2>1, <2>2, <2>3, <2>4, InsertPreserves, ZenonT(60)
<1> USE DEF IInv
<1>6. TypeOK'
  BY <1>1, <1>5 DEF TypeOK, workers, ownership
<1>7. IndexesAgree' /\ OwnedNotCancelled'
  BY <1>1, <1>3 DEF IndexesAgree, OwnedNotCancelled, ownership
<1>8. DependenciesOwned'
  BY <1>1, <1>3 DEF DependenciesOwned, ownership, FailedStates
<1>9. NoOrphanWork'
  BY <1>1, <1>3, <1>4 DEF NoOrphanWork, ownership, Live
<1> QED
  BY <1>5, <1>6, <1>7, <1>8, <1>9

-----------------------------------------------------------------------------
(* Detaching an owner                                                      *)

(* Letting go of a graph takes exactly o away, and what nobody owns after  *)
(* that is closed under dependents: whoever owns a dependent owns the task *)
(* it depends on.                                                          *)
LEMMA OwnersWithoutFacts ==
  ASSUME IInv, NEW o \in Owners, ownerState[o] \in {"Attached", "Retired"}
  PROVE  /\ OwnersWithout(o) \in [Tasks -> SUBSET Owners]
         /\ \A t \in Tasks : OwnersWithout(o)[t] = owners[t] \ {o}
         /\ RetiredBy(o) \in SUBSET Tasks
         /\ \A r \in Tasks : \A t \in dependents[r] :
                t \in Tasks /\ OwnersWithout(o)[t] \subseteq OwnersWithout(o)[r]
<1> USE DEF IInv
<1>1. OwnersWithout(o) \in [Tasks -> SUBSET Owners]
  BY DEF OwnersWithout, TypeOK
<1>2. ASSUME NEW t \in Tasks PROVE OwnersWithout(o)[t] = owners[t] \ {o}
  BY DEF OwnersWithout, IndexesAgree, TypeOK
<1>3. RetiredBy(o) \in SUBSET Tasks
  BY DEF RetiredBy, TypeOK
<1>4. ASSUME NEW r \in Tasks, NEW t \in dependents[r]
      PROVE  t \in Tasks /\ OwnersWithout(o)[t] \subseteq OwnersWithout(o)[r]
  <2>1. t \in Tasks
    BY DEF TypeOK
  <2>2. owners[t] \subseteq owners[r]
    BY <2>1 DEF EdgesDefined, DependenciesOwned
  <2> QED BY <1>2, <2>1, <2>2
<1> QED BY <1>1, <1>2, <1>3, <1>4

(* Cancelling reaches no task that still has an owner. *)
LEMMA CancelReachesUnowned ==
  ASSUME IInv, NEW o \in Owners, ownerState[o] \in {"Attached", "Retired"},
         NEW R \in SUBSET RetiredBy(o)
  PROVE  \A t \in R \cup Reached(R) : t \in Tasks /\ OwnersWithout(o)[t] = {}
<1> DEFINE S == {t \in Tasks : OwnersWithout(o)[t] = {}}
<1>1. R \subseteq S
  BY OwnersWithoutFacts DEF RetiredBy
<1>2. \A q \in R \cup S : dependents[q] \subseteq S
  BY <1>1, OwnersWithoutFacts
<1>3. Reached(R) \subseteq S
  <2>1. S \in SUBSET Tasks
    OBVIOUS
  <2> HIDE DEF S
  <2> QED BY <1>2, <2>1, ReachedLeast
<1> QED BY <1>1, <1>3

LEMMA DetachCancelPreserves ==
  ASSUME IInv, NEW o \in Owners, DetachCancel(o)
  PROVE  IInv'
<1> DEFINE cancelled == {t \in RetiredBy(o) : Live(t)}
           failed    == {t \in Reached(cancelled) : Live(t)}
           hit       == cancelled \cup failed
<1>1. /\ ownerState[o] = "Attached"
      /\ status' = [t \in Tasks |-> IF t \in failed THEN "Failed"
                                    ELSE IF t \in cancelled THEN "Cancelled" ELSE status[t]]
      /\ token' = Assign(token, hit, None)
      /\ ready' = Assign(ready, hit, 0)
      /\ scheduled' = scheduled \ hit
      /\ owners' = OwnersWithout(o)
      /\ ownerState' = [ownerState EXCEPT ![o] = "Retired"]
      /\ UNCHANGED <<def, graph, remaining, dependents, attempt, payload>>
      /\ UNCHANGED workers
  BY DEF DetachCancel, RemoveQueueMemberships
<1>2. /\ owners' \in [Tasks -> SUBSET Owners]
      /\ \A t \in Tasks : owners'[t] = owners[t] \ {o}
  BY <1>1, OwnersWithoutFacts
<1>3. \A t \in hit : t \in Tasks /\ owners'[t] = {} /\ Live(t)
  BY <1>1, CancelReachesUnowned DEF Reached
<1>4. \A t \in Tasks : t \in hit => status'[t] \in FailedStates
  BY <1>1 DEF FailedStates
<1>5. \A t \in Tasks : t \notin hit => status'[t] = status[t]
  BY <1>1
<1>6. /\ \A t \in Tasks : token'[t] = IF t \in hit THEN None ELSE token[t]
      /\ \A t \in Tasks : ready'[t] = IF t \in hit THEN 0 ELSE ready[t]
  BY <1>1 DEF Assign, TypeOK, IInv
(* Every live task that has lost its last owner is hit. *)
<1>7. ASSUME NEW t \in Tasks, Live(t), owners'[t] = {} PROVE t \in hit
  <2>1. o \in owners[t]
    BY <1>2, <1>7 DEF IInv, NoOrphanWork
  <2>2. t \in graph[o]
    BY <2>1 DEF IInv, IndexesAgree
  <2> QED BY <1>1, <1>7, <2>2 DEF RetiredBy
<1> USE DEF IInv
<1>8. TypeOK'
  BY <1>1, <1>2 DEF TypeOK, States, Assign, workers
<1> HIDE DEF cancelled, failed, hit
<1>9. EdgesDefined'
  <2>1. \A t \in Tasks : status'[t] # "Absent" <=> status[t] # "Absent"
    BY <1>3, <1>4, <1>5 DEF Live, FailedStates
  <2>2. def' = def /\ dependents' = dependents
    BY <1>1
  <2> QED BY <2>1, <2>2 DEF EdgesDefined
<1>10. IndexesAgree'
  <2> SUFFICES ASSUME NEW t \in Tasks
               PROVE  /\ \A q \in Owners : q \in owners'[t] <=> ownerState'[q] = "Attached" /\ t \in graph'[q]
                      /\ owners'[t] # {} => status'[t] # "Absent"
    BY DEF IndexesAgree
  <2>1. ASSUME NEW q \in Owners
        PROVE  q \in owners'[t] <=> ownerState'[q] = "Attached" /\ t \in graph'[q]
    <3>1. ownerState'[q] = IF q = o THEN "Retired" ELSE ownerState[q]
      BY <1>1, Zenon DEF TypeOK
    <3>2. q \in owners'[t] <=> q \in owners[t] /\ q # o
      BY <1>2
    <3>3. graph' = graph
      BY <1>1
    <3> QED BY <3>1, <3>2, <3>3 DEF IndexesAgree
  <2>2. owners'[t] # {} => status'[t] # "Absent"
    BY <1>2, <1>4, <1>5 DEF IndexesAgree, FailedStates
  <2> QED BY <2>1, <2>2
<1>11. DependenciesOwned'
  <2> SUFFICES ASSUME NEW t \in Tasks, status'[t] # "Absent", NEW d \in def[t].deps
               PROVE  owners'[t] \subseteq owners'[d]
    BY <1>1 DEF DependenciesOwned
  <2>1. status[t] # "Absent"
    BY <1>3, <1>5 DEF Live
  <2>2. d \in Tasks
    BY <2>1 DEF EdgesDefined, Nodes
  <2> QED BY <1>2, <2>1, <2>2 DEF DependenciesOwned
<1>12. NoOrphanWork'
  BY <1>4, <1>5, <1>7 DEF NoOrphanWork, Live, TerminalStates
<1>13. OwnedNotCancelled'
  BY <1>2, <1>3, <1>5 DEF OwnedNotCancelled
(* A task that is not hit but live has an owner left, hence so have its    *)
(* dependencies, and they are not hit.                                     *)
<1>14. ASSUME NEW t \in Tasks, t \notin hit, Live(t), NEW d \in def[t].deps
       PROVE  d \in Tasks /\ d \notin hit
  <2>1. owners'[t] # {} /\ status'[t] # "Absent" /\ def'[t] = def[t]
    BY <1>1, <1>5, <1>7, <1>14 DEF Live
  <2>2. d \in Tasks
    BY <1>14 DEF EdgesDefined, Nodes, Live
  <2>3. owners'[d] # {}
    BY <1>11, <2>1, <1>14 DEF DependenciesOwned
  <2> QED BY <1>3, <2>2, <2>3
<1>15. RunnableAfterDependencies'
  <2> SUFFICES ASSUME NEW t \in Tasks, status'[t] \in {"Ready", "Running", "Retrying"},
                      NEW d \in def[t].deps
               PROVE  status'[d] = "Succeeded"
    BY <1>1 DEF RunnableAfterDependencies
  <2>1. t \notin hit /\ status[t] = status'[t] /\ Live(t)
    BY <1>4, <1>5 DEF Live, FailedStates, TerminalStates
  <2> QED BY <1>5, <1>14, <2>1 DEF RunnableAfterDependencies
<1>16. PendingAccounted'
  <2> SUFFICES ASSUME NEW t \in Tasks, status'[t] = "Pending"
               PROVE  LET waits == Unresolved(def[t].deps, status') IN
                      /\ waits # {}
                      /\ remaining[t] = Cardinality(waits)
                      /\ \A d \in waits : Live(d)' /\ t \in dependents[d]
    BY <1>1, ZenonT(60) DEF PendingAccounted
  <2>1. t \notin hit /\ status[t] = "Pending" /\ Live(t)
    BY <1>4, <1>5 DEF Live, FailedStates, TerminalStates
  <2>2. \A d \in def[t].deps : d \in Tasks /\ status'[d] = status[d]
    BY <1>5, <1>14, <2>1
  <2>3. Unresolved(def[t].deps, status') = Unresolved(def[t].deps, status)
    BY <2>2 DEF Unresolved
  <2>4. \A d \in Unresolved(def[t].deps, status) : Live(d)'
    BY <2>1, <2>2, ZenonT(60) DEF PendingAccounted, Unresolved, Live
  <2> QED BY <2>1, <2>3, <2>4 DEF PendingAccounted
<1>17. ReadyReachable'
  BY <1>1, <1>4, <1>5, <1>6 DEF ReadyReachable, FailedStates, workers
<1>18. RetriesScheduled'
  BY <1>1, <1>4, <1>5 DEF RetriesScheduled, FailedStates
<1>19. LeasesConsistent'
  <2>1. lease' = lease /\ payload' = payload
    BY <1>1 DEF workers
  <2>2. \A w \in Workers : lease[w] # None => lease[w].task \in Tasks
    BY DEF TypeOK, Leases
  <2> QED BY <1>4, <1>5, <1>6, <2>1, <2>2, ZenonT(60) DEF LeasesConsistent, FailedStates
<1> QED
  BY <1>8, <1>9, <1>10, <1>11, <1>12, <1>13, <1>15, <1>16, <1>17, <1>18, <1>19

LEMMA DetachRemovePreserves ==
  ASSUME IInv, NEW o \in Owners, DetachRemove(o)
  PROVE  IInv'
<1> DEFINE gone == RetiredBy(o)
<1>1. /\ ownerState[o] \in {"Attached", "Retired"}
      /\ status' = Assign(status, gone, "Absent")
      /\ def' = Assign(def, gone, None)
      /\ remaining' = Assign(remaining, gone, 0)
      /\ dependents' = [d \in Tasks |-> IF d \in gone THEN {} ELSE dependents[d] \ gone]
      /\ attempt' = Assign(attempt, gone, 0)
      /\ token' = Assign(token, gone, None)
      /\ payload' = Assign(payload, gone, "Execute")
      /\ ready' = Assign(ready, gone, 0)
      /\ scheduled' = scheduled \ gone
      /\ owners' = OwnersWithout(o)
      /\ graph' = [graph EXCEPT ![o] = {}]
      /\ ownerState' = [ownerState EXCEPT ![o] = "Unknown"]
      /\ UNCHANGED workers
  BY DEF DetachRemove, RemoveQueueMemberships
<1>2. /\ owners' \in [Tasks -> SUBSET Owners]
      /\ \A t \in Tasks : owners'[t] = owners[t] \ {o}
      /\ gone \in SUBSET Tasks
      /\ \A t \in gone : owners'[t] = {}
  BY <1>1, OwnersWithoutFacts DEF RetiredBy
<1>3. \A t \in Tasks :
         IF t \in gone
         THEN status'[t] = "Absent" /\ token'[t] = None /\ ready'[t] = 0
         ELSE /\ status'[t] = status[t] /\ def'[t] = def[t] /\ remaining'[t] = remaining[t]
              /\ token'[t] = token[t] /\ payload'[t] = payload[t] /\ ready'[t] = ready[t]
  BY <1>1 DEF Assign, IInv, TypeOK
<1>4. ASSUME NEW t \in Tasks, Live(t), owners'[t] = {} PROVE t \in gone
  <2>1. o \in owners[t]
    BY <1>2, <1>4 DEF IInv, NoOrphanWork
  <2>2. t \in graph[o]
    BY <2>1 DEF IInv, IndexesAgree
  <2> QED BY <1>1, <1>4, <2>2 DEF RetiredBy
<1> USE DEF IInv
<1>5. TypeOK'
  BY <1>1, <1>2, ConstantsAssumption DEF TypeOK, States, Assign, workers, ConstantsAssumption
<1> HIDE DEF gone
<1>6. EdgesDefined'
  BY <1>1, <1>3, ZenonT(60) DEF EdgesDefined
<1>7. IndexesAgree'
  <2> SUFFICES ASSUME NEW t \in Tasks
               PROVE  /\ \A q \in Owners : q \in owners'[t] <=> ownerState'[q] = "Attached" /\ t \in graph'[q]
                      /\ owners'[t] # {} => status'[t] # "Absent"
    BY DEF IndexesAgree
  <2>1. ASSUME NEW q \in Owners
        PROVE  q \in owners'[t] <=> ownerState'[q] = "Attached" /\ t \in graph'[q]
    <3>1. q \in owners'[t] <=> q \in owners[t] /\ q # o
      BY <1>2
    <3>2. q \in owners[t] <=> ownerState[q] = "Attached" /\ t \in graph[q]
      BY DEF IndexesAgree
    <3>3. CASE q = o
      BY <1>1, <3>1, <3>3, Zenon DEF TypeOK
    <3>4. CASE q # o
      BY <1>1, <3>1, <3>2, <3>4 DEF TypeOK
    <3> QED BY <3>3, <3>4
  <2>2. owners'[t] # {} => status'[t] # "Absent"
    BY <1>2, <1>3 DEF IndexesAgree
  <2> QED BY <2>1, <2>2
<1>8. DependenciesOwned'
  <2> SUFFICES ASSUME NEW t \in Tasks, status'[t] # "Absent", NEW d \in def'[t].deps
               PROVE  owners'[t] \subseteq owners'[d]
    BY DEF DependenciesOwned
  <2>1. status[t] # "Absent" /\ def'[t] = def[t]
    BY <1>3
  <2>2. d \in Tasks
    BY <2>1 DEF EdgesDefined, Nodes
  <2> QED BY <1>2, <2>1, <2>2 DEF DependenciesOwned
<1>9. NoOrphanWork'
  BY <1>3, <1>4 DEF NoOrphanWork, Live
<1>10. OwnedNotCancelled'
  BY <1>2, <1>3 DEF OwnedNotCancelled
<1>11. ASSUME NEW t \in Tasks, t \notin gone, Live(t), NEW d \in def[t].deps
       PROVE  d \in Tasks /\ d \notin gone
  <2>1. owners'[t] # {} /\ status'[t] # "Absent" /\ def'[t] = def[t]
    BY <1>3, <1>4, <1>11 DEF Live
  <2>2. d \in Tasks
    BY <1>11 DEF EdgesDefined, Nodes, Live
  <2>3. owners'[d] # {}
    BY <1>8, <2>1, <1>11 DEF DependenciesOwned
  <2> QED BY <1>2, <2>2, <2>3
<1>12. RunnableAfterDependencies'
  <2> SUFFICES ASSUME NEW t \in Tasks, status'[t] \in {"Ready", "Running", "Retrying"},
                      NEW d \in def'[t].deps
               PROVE  status'[d] = "Succeeded"
    BY DEF RunnableAfterDependencies
  <2>1. t \notin gone /\ status[t] = status'[t] /\ Live(t) /\ def'[t] = def[t]
    BY <1>3 DEF Live, FailedStates, TerminalStates
  <2> QED BY <1>3, <1>11, <2>1 DEF RunnableAfterDependencies
<1>13. PendingAccounted'
  <2> SUFFICES ASSUME NEW t \in Tasks, status'[t] = "Pending"
               PROVE  LET waits == Unresolved(def'[t].deps, status') IN
                      /\ waits # {}
                      /\ remaining'[t] = Cardinality(waits)
                      /\ \A d \in waits : Live(d)' /\ t \in dependents'[d]
    BY DEF PendingAccounted
  <2>1. t \notin gone /\ status[t] = "Pending" /\ Live(t) /\ def'[t] = def[t] /\ remaining'[t] = remaining[t]
    BY <1>3, ZenonT(60) DEF Live, FailedStates, TerminalStates
  <2>2. \A d \in def[t].deps : d \in Tasks /\ d \notin gone /\ status'[d] = status[d]
    BY <1>3, <1>11, <2>1
  <2>3. Unresolved(def'[t].deps, status') = Unresolved(def[t].deps, status)
    BY <2>1, <2>2 DEF Unresolved
  <2>4. \A d \in Unresolved(def[t].deps, status) : Live(d)' /\ t \in dependents'[d]
    BY <1>1, <2>1, <2>2, ZenonT(60) DEF PendingAccounted, Unresolved, Live
  <2> QED BY <2>1, <2>3, <2>4 DEF PendingAccounted
<1>14. ReadyReachable'
  BY <1>1, <1>3 DEF ReadyReachable, workers
<1>15. RetriesScheduled'
  BY <1>1, <1>3 DEF RetriesScheduled
<1>16. LeasesConsistent'
  <2>1. lease' = lease
    BY <1>1 DEF workers
  <2>2. \A w \in Workers : lease[w] # None => lease[w].task \in Tasks
    BY DEF TypeOK, Leases
  <2> QED BY <1>3, <2>1, <2>2, Zenon DEF LeasesConsistent
<1> QED
  BY <1>5, <1>6, <1>7, <1>8, <1>9, <1>10, <1>12, <1>13, <1>14, <1>15, <1>16

(* What the graph invariants say depends on these variables only. *)
LEMMA GraphInvariantsUnchanged ==
  ASSUME IInv, UNCHANGED <<status, def, remaining, dependents, ownership>>
  PROVE  /\ EdgesDefined' /\ IndexesAgree' /\ DependenciesOwned' /\ NoOrphanWork'
         /\ OwnedNotCancelled' /\ RunnableAfterDependencies' /\ PendingAccounted'
<1> USE DEF IInv, ownership
<1>1. EdgesDefined' /\ IndexesAgree' /\ DependenciesOwned'
  BY DEF EdgesDefined, IndexesAgree, DependenciesOwned
<1>2. NoOrphanWork' /\ OwnedNotCancelled' /\ RunnableAfterDependencies'
  BY DEF NoOrphanWork, OwnedNotCancelled, RunnableAfterDependencies, Live
<1>3. PendingAccounted'
  BY DEF PendingAccounted, Unresolved, Live
<1> QED BY <1>1, <1>2, <1>3

(* A step that moves tasks among the states ready, running and retrying,   *)
(* and nothing else of the graph, keeps the graph invariants.              *)
LEMMA RunnableStateChange ==
  ASSUME IInv, UNCHANGED <<def, remaining, dependents, ownership>>,
         status' \in [Tasks -> States],
         \A t \in Tasks : status'[t] # status[t] =>
             /\ status[t] \in {"Ready", "Running", "Retrying"}
             /\ status'[t] \in {"Ready", "Running", "Retrying"}
  PROVE  /\ EdgesDefined' /\ IndexesAgree' /\ DependenciesOwned' /\ NoOrphanWork'
         /\ OwnedNotCancelled' /\ RunnableAfterDependencies' /\ PendingAccounted'
<1> USE DEF IInv, ownership
<1>1. \A t \in Tasks : status'[t] = "Absent" <=> status[t] = "Absent"
  OBVIOUS
<1>2. EdgesDefined' /\ IndexesAgree' /\ DependenciesOwned'
  BY <1>1 DEF EdgesDefined, IndexesAgree, DependenciesOwned
<1>3. \A t \in Tasks : Live(t)' <=> Live(t)
  BY DEF Live, TerminalStates, FailedStates
<1>4. NoOrphanWork' /\ OwnedNotCancelled'
  BY <1>3 DEF NoOrphanWork, OwnedNotCancelled
<1>5. \A t \in Tasks : status'[t] = "Succeeded" <=> status[t] = "Succeeded"
  OBVIOUS
<1>6. \A t \in Tasks : status[t] # "Absent" => def[t].deps \subseteq Tasks
  BY DEF EdgesDefined, Nodes
<1>7. RunnableAfterDependencies'
  BY <1>5, <1>6 DEF RunnableAfterDependencies
<1>8. PendingAccounted'
  <2> SUFFICES ASSUME NEW t \in Tasks, status'[t] = "Pending"
               PROVE  LET waits == Unresolved(def[t].deps, status') IN
                      /\ waits # {}
                      /\ remaining[t] = Cardinality(waits)
                      /\ \A d \in waits : Live(d)' /\ t \in dependents[d]
    BY DEF PendingAccounted
  <2>1. status[t] = "Pending"
    OBVIOUS
  <2>2. Unresolved(def[t].deps, status') = Unresolved(def[t].deps, status)
    BY <1>5, <1>6, <2>1 DEF Unresolved
  <2>3. \A d \in Unresolved(def[t].deps, status) : d \in Tasks
    BY <1>6, <2>1 DEF Unresolved
  <2> QED BY <1>3, <2>1, <2>2, <2>3 DEF PendingAccounted
<1> QED BY <1>2, <1>4, <1>7, <1>8

LEMMA LeaseFacts ==
  ASSUME IInv, NEW w \in Workers, lease[w] # None
  PROVE  lease[w] \in Leases /\ lease[w].task \in Tasks /\ lease[w].token # None
  BY TokenNotNone DEF IInv, TypeOK, Leases

LEMMA PopReadyPreserves ==
  ASSUME IInv, NEW w \in Workers, NEW t \in Tasks, PopReady(w, t)
  PROVE  IInv'
<1> USE DEF IInv
<1>1. /\ ready[t] > 0 /\ ready' = [ready EXCEPT ![t] = @ - 1]
      /\ hand[w] = None /\ hand' = [hand EXCEPT ![w] = t]
      /\ UNCHANGED <<records, ownership, scheduled, lease>>
  BY DEF PopReady, Idle, FrontOfQueue
<1>2. TypeOK'
  BY <1>1 DEF TypeOK, records, ownership
<1>3. /\ EdgesDefined' /\ IndexesAgree' /\ DependenciesOwned' /\ NoOrphanWork'
      /\ OwnedNotCancelled' /\ RunnableAfterDependencies' /\ PendingAccounted'
  BY <1>1, GraphInvariantsUnchanged DEF records
<1>4. ReadyReachable'
  <2> SUFFICES ASSUME NEW u \in Tasks, status[u] = "Ready"
               PROVE  ready'[u] > 0 \/ \E v \in Workers : hand'[v] = u
    BY <1>1 DEF ReadyReachable, records
  <2>1. CASE u = t
    BY <1>1, <2>1 DEF TypeOK
  <2>2. CASE u # t
    <3>1. ready'[u] = ready[u]
      BY <1>1, <2>2 DEF TypeOK
    <3>2. \A v \in Workers : hand[v] = u => hand'[v] = u
      BY <1>1, TokenNotNone DEF TypeOK
    <3> QED BY <3>1, <3>2 DEF ReadyReachable
  <2> QED BY <2>1, <2>2
<1>5. RetriesScheduled' /\ LeasesConsistent'
  BY <1>1 DEF RetriesScheduled, LeasesConsistent, records
<1> QED BY <1>2, <1>3, <1>4, <1>5
=============================================================================
