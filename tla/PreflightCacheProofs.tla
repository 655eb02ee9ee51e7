------------------------ MODULE PreflightCacheProofs ------------------------
(***************************************************************************)
(* Proofs about PreflightCache, for any callers, processes, cores and any  *)
(* number of faults.                                                       *)
(*                                                                         *)
(* The argument.  A waiter copies the state of the flight it joined, so    *)
(* what matters is what a leader may put there: a core it validated, or    *)
(* the one it built, which it keeps through publication and conflict       *)
(* (Kept).  Entries are told apart by their generation, which the store    *)
(* never hands out twice; the one a leader is about to delete is therefore *)
(* gone or still the unusable one it read (Condemned).                     *)
(***************************************************************************)
EXTENDS PreflightCache, TLAPS

Steps == LeaderSteps \cup {"elect", "enable", "read", "asleep", "remove", "notify", "done"}
Outcomes == Good \cup {Err, "cancelled"}
Work == [core : Good \cup {None}, publish : BOOLEAN, seen : Nat]

Typed ==
    /\ pc \in [Callers -> Steps]
    /\ flight \in [Callers -> Callers \cup {None}]
    /\ state \in [Callers -> Outcomes \cup {"running"}]
    /\ table \in [Processes -> Callers \cup {None}]
    /\ mine \in [Callers -> Work]
    /\ result \in [Callers -> Outcomes \cup {None}]
    /\ store \in [core : Good \cup Bad, gen : Nat] \cup {None}
    /\ gen \in Nat /\ faults \in Nat

\* A waiter has a flight, a leader past its build has the core it built.
Kept ==
    \A c \in Callers :
        /\ pc[c] \in {"enable", "read", "asleep"} => flight[c] \in Callers
        /\ pc[c] \in {"put", "conflict", "deleteWinner"} => mine[c].core \in Good

\* What a leader is about to delete is not a core that validates.
Condemned ==
    /\ store # None => store.gen <= gen
    /\ \A c \in Callers : pc[c] \in {"delete", "deleteWinner"} =>
          /\ mine[c].seen <= gen
          /\ store # None /\ store.gen = mine[c].seen => ~Valid(store.core)

CacheInv == Typed /\ Kept /\ Condemned

LEMMA InitCache == CacheInit => CacheInv
<1> SUFFICES ASSUME CacheInit PROVE CacheInv
  OBVIOUS
<1> USE DEF CacheInit
<1>1. Typed BY DEF Typed, Steps, Outcomes, LeaderSteps, NoWork, Work
<1>2. Kept BY DEF Kept
<1>3. Condemned BY DEF Condemned
<1> QED BY <1>1, <1>2, <1>3 DEF CacheInv

LEMMA WorkTyped ==
    ASSUME Typed, NEW c \in Callers, NEW core \in Good \cup {None}, NEW publish \in BOOLEAN,
           NEW seen \in Nat, Keep(c, core, publish, seen)
    PROVE  mine' \in [Callers -> Work]
<1>1. [core |-> core, publish |-> publish, seen |-> seen] \in Work BY DEF Work
<1> QED BY <1>1 DEF Typed, Keep

LEMMA WorkFields ==
    Typed => \A c \in Callers : /\ mine[c].core \in Good \cup {None}
                                /\ mine[c].publish \in BOOLEAN /\ mine[c].seen \in Nat
<1> SUFFICES ASSUME Typed, NEW c \in Callers
             PROVE  /\ mine[c].core \in Good \cup {None}
                    /\ mine[c].publish \in BOOLEAN /\ mine[c].seen \in Nat
  OBVIOUS
<1>1. mine[c] \in Work BY DEF Typed
<1> QED BY <1>1 DEF Work

LEMMA WorkStep ==
    ASSUME Typed, NEW c \in Callers, LeaderStep(c)
    PROVE  mine' \in [Callers -> Work]
<1>1. ASSUME NEW publish \in BOOLEAN, Build(c, publish) PROVE mine' \in [Callers -> Work]
  BY <1>1, WorkTyped, WorkFields DEF Build
<1>2. ASSUME NEW step, NEW seen \in Nat, Step(c, step, seen) PROVE mine' \in [Callers -> Work]
  BY <1>2, WorkTyped, WorkFields DEF Step
<1>3. ASSUME NEW core, Finish(c, core) PROVE mine' \in [Callers -> Work]
  BY <1>3 DEF Typed, Finish
<1>4. store # None => store.gen \in Nat
  BY DEF Typed
<1>5. CASE remove_current(c) \/ notify_waiters(c)
  BY <1>5 DEF Typed, remove_current, notify_waiters
<1>6. CASE try_load_canonical(c)
  BY <1>1, <1>2, <1>3, <1>4, <1>6 DEF try_load_canonical
<1>7. CASE delete_unusable_and_resolve(c)
  BY <1>1, <1>2, <1>3, <1>7 DEF delete_unusable_and_resolve
<1>8. CASE load_or_build_canonical(c)
  BY <1>3, <1>8, WorkTyped, WorkFields DEF load_or_build_canonical
<1>9. CASE publish_canonical(c)
  BY <1>2, <1>3, <1>9 DEF publish_canonical
<1>10. CASE resolve_conflicting_winner(c)
  BY <1>2, <1>3, <1>4, <1>10 DEF resolve_conflicting_winner
<1>11. CASE delete_unusable(c)
  BY <1>3, <1>11 DEF delete_unusable
<1> QED BY <1>5, <1>6, <1>7, <1>8, <1>9, <1>10, <1>11 DEF LeaderStep

LEMMA ResultTyped ==
    ASSUME Typed, NEW c \in Callers, NEW outcome \in Outcomes,
           SetState(c, outcome) \/ UNCHANGED <<state, result>>
    PROVE  /\ state' \in [Callers -> Outcomes \cup {"running"}]
           /\ result' \in [Callers -> Outcomes \cup {None}]
  BY DEF Typed, SetState

LEMMA LeaderResult ==
    ASSUME Typed, NEW c \in Callers,
           \/ try_load_canonical(c) \/ delete_unusable_and_resolve(c)
           \/ load_or_build_canonical(c)
    PROVE  \E outcome \in Outcomes : SetState(c, outcome) \/ UNCHANGED <<state, result>>
<1>1. Err \in Outcomes /\ \A core \in Good : core \in Outcomes BY DEF Outcomes
<1>2. CASE try_load_canonical(c)
  BY <1>1, <1>2 DEF try_load_canonical, Build, Finish, Step, Valid
<1>3. CASE delete_unusable_and_resolve(c)
  BY <1>1, <1>3 DEF delete_unusable_and_resolve, Build, Finish, Step, Valid
<1>4. CASE load_or_build_canonical(c)
  BY <1>1, <1>4 DEF load_or_build_canonical, Finish
<1> QED BY <1>2, <1>3, <1>4

LEMMA TypedCache ==
    Typed /\ Kept /\ [CacheNext]_cacheVars => Typed'
<1> SUFFICES ASSUME Typed, Kept, [CacheNext]_cacheVars PROVE Typed'
  OBVIOUS
<1>0. ASSUME NEW c \in Callers, LeaderStep(c) PROVE mine' \in [Callers -> Work]
  BY <1>0, WorkStep
<1>00. ASSUME NEW c \in Callers,
              \/ try_load_canonical(c) \/ delete_unusable_and_resolve(c)
              \/ load_or_build_canonical(c)
       PROVE  /\ state' \in [Callers -> Outcomes \cup {"running"}]
              /\ result' \in [Callers -> Outcomes \cup {None}]
  BY <1>00, LeaderResult, ResultTyped
<1> USE PreflightCacheAssumption DEF Typed, Steps, LeaderSteps, Outcomes, Goto, Fault, Valid, Kept
<1>1. ASSUME NEW c \in Callers,
             elect(c) \/ WaitForFlight(c) \/ LeaderStep(c) \/ DropLeader(c) \/ DropWaiter(c)
      PROVE  Typed'
  <2>1. CASE elect(c)
    BY <2>1 DEF elect, Processes
  <2>2. CASE WaitForFlight(c)
    BY <2>2 DEF WaitForFlight, wait
  <2>3. CASE remove_current(c)
    BY <2>3 DEF remove_current
  <2>4. CASE notify_waiters(c)
    BY <2>4 DEF notify_waiters
  <2>5. CASE try_load_canonical(c)
    <3>1. mine' \in [Callers -> Work]
      BY <1>0, <2>5 DEF LeaderStep
    <3>2. pc' \in [Callers -> Steps]
      BY <2>5 DEF try_load_canonical, Build, Finish, SetState, Step
    <3>3. /\ state' \in [Callers -> Outcomes \cup {"running"}]
          /\ result' \in [Callers -> Outcomes \cup {None}]
      BY <1>00, <2>5
    <3>4. faults' = faults \/ faults' = faults + 1
      BY <2>5, Zenon DEF try_load_canonical
    <3>6. flight' = flight /\ table' = table /\ gen' = gen
      BY <2>5 DEF try_load_canonical, Build, Finish, SetState, Step
    <3>5. store' \in {store, None}
      BY <2>5 DEF try_load_canonical, Build, Finish, SetState, Step
    <3> QED BY <3>1, <3>2, <3>3, <3>4, <3>5, <3>6
  <2>6. CASE delete_unusable_and_resolve(c)
    <3>1. mine' \in [Callers -> Work]
      BY <1>0, <2>6 DEF LeaderStep
    <3>2. pc' \in [Callers -> Steps]
      BY <2>6 DEF delete_unusable_and_resolve, Build, Finish, SetState, Step, StoreAfterDelete,
       delete_canonical_preflight_exact
    <3>3. /\ state' \in [Callers -> Outcomes \cup {"running"}]
          /\ result' \in [Callers -> Outcomes \cup {None}]
      BY <1>00, <2>6
    <3>4. faults' = faults \/ faults' = faults + 1
      BY <2>6, Zenon DEF delete_unusable_and_resolve
    <3>6. flight' = flight /\ table' = table /\ gen' = gen
      BY <2>6 DEF delete_unusable_and_resolve, Build, Finish, SetState, Step, StoreAfterDelete,
       delete_canonical_preflight_exact
    <3>5. store' \in {store, None}
      BY <2>6 DEF delete_unusable_and_resolve, Build, Finish, SetState, Step, StoreAfterDelete,
       delete_canonical_preflight_exact
    <3> QED BY <3>1, <3>2, <3>3, <3>4, <3>5, <3>6
  <2>7. CASE load_or_build_canonical(c)
    <3>1. mine' \in [Callers -> Work]
      BY <1>0, <2>7 DEF LeaderStep
    <3>2. pc' \in [Callers -> Steps]
      BY <2>7 DEF load_or_build_canonical, Finish, SetState
    <3>3. /\ state' \in [Callers -> Outcomes \cup {"running"}]
          /\ result' \in [Callers -> Outcomes \cup {None}]
      BY <1>00, <2>7
    <3>4. faults' = faults \/ faults' = faults + 1
      BY <2>7, Zenon DEF load_or_build_canonical
    <3>6. flight' = flight /\ table' = table /\ gen' = gen
      BY <2>7 DEF load_or_build_canonical, Finish, SetState
    <3>5. store' \in {store, None}
      BY <2>7 DEF load_or_build_canonical, Finish, SetState
    <3> QED BY <3>1, <3>2, <3>3, <3>4, <3>5, <3>6
  <2>8. CASE publish_canonical(c)
    <3>1. mine' \in [Callers -> Work]
      BY <1>0, <2>8 DEF LeaderStep
    <3> QED
      BY <2>8, <3>1 DEF publish_canonical, Finish, SetState, Step
  <2>9. CASE resolve_conflicting_winner(c)
    <3>1. mine' \in [Callers -> Work]
      BY <1>0, <2>9 DEF LeaderStep
    <3> QED
      BY <2>9, <3>1 DEF resolve_conflicting_winner, Finish, SetState, Step
  <2>10. CASE delete_unusable(c)
    BY <2>10 DEF delete_unusable, Finish, SetState, StoreAfterDelete, delete_canonical_preflight_exact
  <2>11. CASE DropLeader(c)
    BY <2>11 DEF DropLeader, SetState
  <2>12. CASE DropWaiter(c)
    BY <2>12 DEF DropWaiter
  <2> QED BY <1>1, <2>1, <2>2, <2>3, <2>4, <2>5, <2>6, <2>7, <2>8, <2>9, <2>10, <2>11, <2>12
       DEF LeaderStep
<1>2. CASE ForeignWrite BY <1>2 DEF ForeignWrite
<1>3. CASE Expire BY <1>3 DEF Expire
<1>4. CASE UNCHANGED cacheVars BY <1>4 DEF cacheVars
<1> QED BY <1>1, <1>2, <1>3, <1>4 DEF CacheNext

LEMMA KeptCache ==
    Typed /\ Kept /\ [CacheNext]_cacheVars => Kept'
<1> SUFFICES ASSUME Typed, Kept, [CacheNext]_cacheVars PROVE Kept'
  OBVIOUS
<1> USE PreflightCacheAssumption DEF Typed, Work, Steps, LeaderSteps, Outcomes, Goto, Fault, Valid, Kept
<1>1. ASSUME NEW c \in Callers,
             elect(c) \/ WaitForFlight(c) \/ LeaderStep(c) \/ DropLeader(c) \/ DropWaiter(c)
      PROVE  Kept'
  <2>1. CASE elect(c)
    BY <2>1 DEF elect, Processes
  <2>2. CASE WaitForFlight(c)
    BY <2>2 DEF WaitForFlight, wait
  <2>3. CASE remove_current(c)
    BY <2>3 DEF remove_current
  <2>4. CASE notify_waiters(c)
    BY <2>4 DEF notify_waiters
  <2>5. CASE try_load_canonical(c)
    BY <2>5 DEF try_load_canonical, Build, Finish, SetState, Step, Keep
  <2>6. CASE delete_unusable_and_resolve(c)
    BY <2>6 DEF delete_unusable_and_resolve, Build, Finish, SetState, Step, Keep, StoreAfterDelete,
       delete_canonical_preflight_exact
  <2>7. CASE load_or_build_canonical(c)
    BY <2>7 DEF load_or_build_canonical, Finish, SetState, Keep
  <2>8. CASE publish_canonical(c)
    BY <2>8 DEF publish_canonical, Finish, SetState, Step, Keep
  <2>9. CASE resolve_conflicting_winner(c)
    BY <2>9 DEF resolve_conflicting_winner, Finish, SetState, Step, Keep
  <2>10. CASE delete_unusable(c)
    BY <2>10 DEF delete_unusable, Finish, SetState, StoreAfterDelete, delete_canonical_preflight_exact
  <2>11. CASE DropLeader(c)
    BY <2>11 DEF DropLeader, SetState
  <2>12. CASE DropWaiter(c)
    BY <2>12 DEF DropWaiter
  <2> QED BY <1>1, <2>1, <2>2, <2>3, <2>4, <2>5, <2>6, <2>7, <2>8, <2>9, <2>10, <2>11, <2>12
       DEF LeaderStep
<1>2. CASE ForeignWrite BY <1>2 DEF ForeignWrite
<1>3. CASE Expire BY <1>3 DEF Expire
<1>4. CASE UNCHANGED cacheVars BY <1>4 DEF cacheVars
<1> QED BY <1>1, <1>2, <1>3, <1>4 DEF CacheNext

LEMMA CondemnedCache ==
    Typed /\ Condemned /\ [CacheNext]_cacheVars => Condemned'
<1> SUFFICES ASSUME Typed, Condemned, [CacheNext]_cacheVars PROVE Condemned'
  OBVIOUS
<1> USE PreflightCacheAssumption DEF Typed, Work, Steps, LeaderSteps, Outcomes, Goto, Fault, Valid, Condemned
<1>1. ASSUME NEW c \in Callers,
             elect(c) \/ WaitForFlight(c) \/ LeaderStep(c) \/ DropLeader(c) \/ DropWaiter(c)
      PROVE  Condemned'
  <2>1. CASE elect(c)
    BY <2>1 DEF elect, Processes
  <2>2. CASE WaitForFlight(c)
    BY <2>2 DEF WaitForFlight, wait
  <2>3. CASE remove_current(c)
    BY <2>3 DEF remove_current
  <2>4. CASE notify_waiters(c)
    BY <2>4 DEF notify_waiters
  <2>5. CASE try_load_canonical(c)
    BY <2>5 DEF try_load_canonical, Build, Finish, SetState, Step, Keep
  <2>6. CASE delete_unusable_and_resolve(c)
    BY <2>6 DEF delete_unusable_and_resolve, Build, Finish, SetState, Step, Keep, StoreAfterDelete,
       delete_canonical_preflight_exact
  <2>7. CASE load_or_build_canonical(c)
    BY <2>7 DEF load_or_build_canonical, Finish, SetState, Keep
  <2>8. CASE publish_canonical(c)
    BY <2>8 DEF publish_canonical, Finish, SetState, Step, Keep
  <2>9. CASE resolve_conflicting_winner(c)
    BY <2>9 DEF resolve_conflicting_winner, Finish, SetState, Step, Keep
  <2>10. CASE delete_unusable(c)
    BY <2>10 DEF delete_unusable, Finish, SetState, StoreAfterDelete, delete_canonical_preflight_exact
  <2>11. CASE DropLeader(c)
    BY <2>11 DEF DropLeader, SetState
  <2>12. CASE DropWaiter(c)
    BY <2>12 DEF DropWaiter
  <2> QED BY <1>1, <2>1, <2>2, <2>3, <2>4, <2>5, <2>6, <2>7, <2>8, <2>9, <2>10, <2>11, <2>12
       DEF LeaderStep
<1>2. CASE ForeignWrite BY <1>2 DEF ForeignWrite
<1>3. CASE Expire BY <1>3 DEF Expire
<1>4. CASE UNCHANGED cacheVars BY <1>4 DEF cacheVars
<1> QED BY <1>1, <1>2, <1>3, <1>4 DEF CacheNext

LEMMA GoodStep ==
    Typed /\ Condemned /\ [CacheNext]_cacheVars => GoodEntryKept
<1> SUFFICES ASSUME Typed, Condemned, [CacheNext]_cacheVars PROVE GoodEntryKept
  OBVIOUS
<1> USE PreflightCacheAssumption DEF Typed, Work, Steps, LeaderSteps, Outcomes, Goto, Fault, Valid, Condemned, GoodEntryKept
<1>1. ASSUME NEW c \in Callers,
             elect(c) \/ WaitForFlight(c) \/ LeaderStep(c) \/ DropLeader(c) \/ DropWaiter(c)
      PROVE  GoodEntryKept
  <2>1. CASE elect(c)
    BY <2>1 DEF elect, Processes
  <2>2. CASE WaitForFlight(c)
    BY <2>2 DEF WaitForFlight, wait
  <2>3. CASE remove_current(c)
    BY <2>3 DEF remove_current
  <2>4. CASE notify_waiters(c)
    BY <2>4 DEF notify_waiters
  <2>5. CASE try_load_canonical(c)
    BY <2>5 DEF try_load_canonical, Build, Finish, SetState, Step, Keep
  <2>6. CASE delete_unusable_and_resolve(c)
    BY <2>6 DEF delete_unusable_and_resolve, Build, Finish, SetState, Step, Keep, StoreAfterDelete,
       delete_canonical_preflight_exact
  <2>7. CASE load_or_build_canonical(c)
    BY <2>7 DEF load_or_build_canonical, Finish, SetState, Keep
  <2>8. CASE publish_canonical(c)
    BY <2>8 DEF publish_canonical, Finish, SetState, Step, Keep
  <2>9. CASE resolve_conflicting_winner(c)
    BY <2>9 DEF resolve_conflicting_winner, Finish, SetState, Step, Keep
  <2>10. CASE delete_unusable(c)
    BY <2>10 DEF delete_unusable, Finish, SetState, StoreAfterDelete, delete_canonical_preflight_exact
  <2>11. CASE DropLeader(c)
    BY <2>11 DEF DropLeader, SetState
  <2>12. CASE DropWaiter(c)
    BY <2>12 DEF DropWaiter
  <2> QED BY <1>1, <2>1, <2>2, <2>3, <2>4, <2>5, <2>6, <2>7, <2>8, <2>9, <2>10, <2>11, <2>12
       DEF LeaderStep
<1>2. CASE ForeignWrite BY <1>2 DEF ForeignWrite
<1>3. CASE Expire BY <1>3 DEF Expire
<1>4. CASE UNCHANGED cacheVars BY <1>4 DEF cacheVars
<1> QED BY <1>1, <1>2, <1>3, <1>4 DEF CacheNext

LEMMA CacheInvariance == CacheSpec => []CacheInv
<1>1. CacheInv /\ [CacheNext]_cacheVars => CacheInv'
  BY TypedCache, KeptCache, CondemnedCache DEF CacheInv
<1> QED BY <1>1, InitCache, PTL DEF CacheSpec

\* However load_or_build_canonical and its waiters interleave with faults, other
\* processes and the lifecycle rule, every core handed out passed validation.
THEOREM CacheHandsOutValidated == CacheSpec => []OnlyValidated
<1>1. CacheInv => OnlyValidated BY DEF CacheInv, Typed, Outcomes, OnlyValidated
<1> QED BY <1>1, CacheInvariance, PTL

\* delete_canonical_preflight_exact never removes a core that validates.
THEOREM GoodEntriesStay == CacheSpec => [][GoodEntryKept]_cacheVars
<1>1. CacheInv /\ [CacheNext]_cacheVars => GoodEntryKept BY GoodStep DEF CacheInv
<1> QED BY <1>1, CacheInvariance, PTL DEF CacheSpec
=============================================================================
