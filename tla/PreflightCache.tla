--------------------------- MODULE PreflightCache ---------------------------
(***************************************************************************)
(* The canonical preflight cache: callers in several processes ask for the *)
(* same preflight.  In each process one of them leads and the others wait  *)
(* for its result; the processes share one object store, in which entries  *)
(* carry a generation.  Leaders are futures and may be dropped at any      *)
(* await; every store call may fail.                                       *)
(*                                                                         *)
(* A core in Good passes validate_canonical_preflight, a core in Bad does  *)
(* not (another schema, another key, corrupted bytes).                     *)
(***************************************************************************)
EXTENDS Naturals, FiniteSets

CONSTANTS
    Callers, Proc,       \* Proc[c]: the process of caller c
    HasStore,            \* HasStore[c]: whether its coordinator has a store
    Good, Bad,           \* cores that validate, cores that do not
    None, Err,
    MaxFaults            \* failed calls, dropped futures and foreign writes in all

ASSUME PreflightCacheAssumption ==
    /\ None \notin Callers
    /\ {None, Err, "running", "cancelled"} \cap (Good \cup Bad) = {}
    /\ Good \cap Bad = {}
    /\ MaxFaults \in Nat

VARIABLES
    pc,       \* where each caller is
    flight,   \* the flight a caller leads (its own name) or waits for
    state,    \* FlightState of the flight each caller leads
    table,    \* process -> the flight registered for the key, or None
    note,     \* a waiter's Notified: "off", "on" once enabled, "fired"
    mine,     \* a leader's core, publish flag and the descriptor it read
    result,   \* what a caller returned
    store,    \* the stored object [core, gen], or None
    gen,      \* generations handed out
    faults
cacheVars == << pc, flight, state, table, note, mine, result, store, gen, faults >>

Processes == { Proc[c] : c \in Callers }
Valid(core) == core \in Good
NoWork == [core |-> None, publish |-> FALSE, seen |-> 0]

CacheInit ==
    /\ pc = [c \in Callers |-> "elect"]
    /\ flight = [c \in Callers |-> None]
    /\ state = [c \in Callers |-> "running"]
    /\ table = [p \in Processes |-> None]
    /\ note = [c \in Callers |-> "off"]
    /\ mine = [c \in Callers |-> NoWork]
    /\ result = [c \in Callers |-> None]
    /\ store \in {None} \cup { [core |-> x, gen |-> 1] : x \in Bad }
    /\ gen = 1
    /\ faults = 0

Goto(c, step) == pc' = [pc EXCEPT ![c] = step]
Keep(c, core, publish, seen) ==
    mine' = [mine EXCEPT ![c] = [core |-> core, publish |-> publish, seen |-> seen]]
Fault == faults < MaxFaults /\ faults' = faults + 1

(***************************************************************************)
(* Single flight                                                           *)
(***************************************************************************)
elect(c) ==
    /\ pc[c] = "elect"
    /\ IF table[Proc[c]] = None
       THEN /\ table' = [table EXCEPT ![Proc[c]] = c]
            /\ flight' = [flight EXCEPT ![c] = c]
            /\ Goto(c, IF HasStore[c] THEN "load" ELSE "build")
       ELSE /\ flight' = [flight EXCEPT ![c] = table[Proc[c]]]
            /\ Goto(c, "enable") /\ UNCHANGED table
    /\ UNCHANGED << state, note, mine, result, store, gen, faults >>

\* Flight::wait: enable the notification, read the state, sleep if still running.
wait(c) ==
    \/ /\ pc[c] = "enable"
       /\ note' = [note EXCEPT ![c] = "on"]
       /\ Goto(c, "read") /\ UNCHANGED << result, flight >>
    \/ /\ pc[c] = "read"
       /\ CASE state[flight[c]] = "running" ->
                 Goto(c, "asleep") /\ UNCHANGED << note, result, flight >>
            [] state[flight[c]] = "cancelled" ->
                 /\ Goto(c, "elect")
                 /\ flight' = [flight EXCEPT ![c] = None]
                 /\ note' = [note EXCEPT ![c] = "off"] /\ UNCHANGED result
            [] OTHER ->
                 /\ Goto(c, "done")
                 /\ result' = [result EXCEPT ![c] = state[flight[c]]]
                 /\ note' = [note EXCEPT ![c] = "off"] /\ UNCHANGED flight
    \/ /\ pc[c] = "asleep" /\ note[c] = "fired"
       /\ note' = [note EXCEPT ![c] = "off"]
       /\ Goto(c, "enable") /\ UNCHANGED << result, flight >>

WaitForFlight(c) == wait(c) /\ UNCHANGED << state, table, mine, store, gen, faults >>

\* set_state, remove_current and notify_waiters, for a result or for a dropped
\* leader; other threads run in between.
SetState(c, outcome) ==
    /\ state' = [state EXCEPT ![c] = outcome]
    /\ result' = [result EXCEPT ![c] = outcome]
    /\ Goto(c, "remove")

remove_current(c) ==
    /\ pc[c] = "remove"
    /\ table' = [table EXCEPT ![Proc[c]] = IF @ = c THEN None ELSE @]
    /\ Goto(c, "notify")
    /\ UNCHANGED << flight, state, note, mine, result, store, gen, faults >>

notify_waiters(c) ==
    /\ pc[c] = "notify"
    /\ note' = [d \in Callers |-> IF flight[d] = c /\ note[d] = "on" THEN "fired" ELSE note[d]]
    /\ Goto(c, "done")
    /\ UNCHANGED << flight, state, table, mine, result, store, gen, faults >>

LeaderSteps == {"load", "delete", "reload", "build", "put", "conflict", "deleteWinner"}

\* The future of a leader is dropped while it awaits.
DropLeader(c) ==
    /\ pc[c] \in LeaderSteps
    /\ Fault
    /\ SetState(c, "cancelled")
    /\ UNCHANGED << flight, table, note, mine, store, gen >>

\* The future of a waiter is dropped.
DropWaiter(c) ==
    /\ pc[c] \in {"enable", "read", "asleep"}
    /\ Fault
    /\ Goto(c, "done")
    /\ note' = [note EXCEPT ![c] = "off"]
    /\ result' = [result EXCEPT ![c] = "cancelled"]
    /\ UNCHANGED << flight, state, table, mine, store, gen >>

(***************************************************************************)
(* The leader's work                                                       *)
(***************************************************************************)
Finish(c, core) == SetState(c, core) /\ UNCHANGED << flight, table, note, mine >>
Build(c, publish) ==
    /\ Goto(c, "build")
    /\ Keep(c, mine[c].core, publish, mine[c].seen)
    /\ UNCHANGED << flight, state, table, note, result >>
Step(c, step, seen) ==
    /\ Goto(c, step)
    /\ Keep(c, mine[c].core, mine[c].publish, seen)
    /\ UNCHANGED << flight, state, table, note, result >>

try_load_canonical(c) ==
    /\ pc[c] = "load"
    /\ \/ /\ faults' = faults
          /\ IF store = None THEN Build(c, TRUE)
             ELSE IF Valid(store.core) THEN Finish(c, store.core)
             ELSE Step(c, "delete", store.gen)
       \/ Fault /\ Build(c, FALSE)
    /\ UNCHANGED << store, gen >>

\* delete_canonical_preflight_exact: only the very object that was read.
delete_canonical_preflight_exact(seen) ==
    IF store = None THEN "Missing" ELSE IF store.gen = seen THEN "Removed" ELSE "Stale"

StoreAfterDelete(seen) ==
    IF delete_canonical_preflight_exact(seen) = "Removed" THEN None ELSE store

delete_unusable_and_resolve(c) ==
    /\ \/ /\ pc[c] = "delete"
          /\ \/ /\ faults' = faults
                /\ store' = StoreAfterDelete(mine[c].seen)
                /\ IF delete_canonical_preflight_exact(mine[c].seen) = "Stale"
                   THEN Step(c, "reload", 0) ELSE Build(c, TRUE)
             \/ Fault /\ Build(c, FALSE) /\ UNCHANGED store
       \/ /\ pc[c] = "reload"
          /\ \/ /\ faults' = faults
                /\ IF store = None THEN Build(c, TRUE)
                   ELSE IF Valid(store.core) THEN Finish(c, store.core)
                   ELSE Build(c, FALSE)
             \/ Fault /\ Build(c, FALSE)
          /\ UNCHANGED store
    /\ UNCHANGED gen

\* Build and validate; without a store, or when publishing is off, that is all.
load_or_build_canonical(c) ==
    /\ pc[c] = "build"
    /\ \/ \E core \in Good :
             /\ faults' = faults
             /\ IF HasStore[c] /\ mine[c].publish
                THEN /\ Goto(c, "put") /\ Keep(c, core, TRUE, mine[c].seen)
                     /\ UNCHANGED << flight, state, table, note, result >>
                ELSE Finish(c, core)
       \/ Fault /\ Finish(c, Err)
    /\ UNCHANGED << store, gen >>

\* Mutant: the stored winner is returned without validating it.
PublishTrustsWinner(c) ==
    /\ pc[c] = "put"
    /\ \/ /\ store = None
          /\ gen' = gen + 1 /\ store' = [core |-> mine[c].core, gen |-> gen + 1]
          /\ Finish(c, mine[c].core) /\ faults' = faults
       \/ /\ store # None /\ Finish(c, store.core) /\ UNCHANGED << store, gen, faults >>

\* Created; AlreadyExists with our bytes; Conflict with other bytes; or an error,
\* which may hide a write that took place.
publish_canonical(c) ==
    /\ pc[c] = "put"
    /\ \/ /\ store = None
          /\ gen' = gen + 1 /\ store' = [core |-> mine[c].core, gen |-> gen + 1]
          /\ Finish(c, mine[c].core) /\ (faults' = faults \/ Fault)
       \/ /\ store # None
          /\ IF store.core = mine[c].core
             THEN Finish(c, store.core) ELSE Step(c, "conflict", 0)
          /\ UNCHANGED << store, gen, faults >>
       \/ Fault /\ Finish(c, mine[c].core) /\ UNCHANGED << store, gen >>

resolve_conflicting_winner(c) ==
    /\ pc[c] = "conflict"
    /\ \/ /\ faults' = faults
          /\ IF store = None THEN Finish(c, mine[c].core)
             ELSE IF Valid(store.core) THEN Finish(c, store.core)
             ELSE Step(c, "deleteWinner", store.gen)
       \/ Fault /\ Finish(c, mine[c].core)
    /\ UNCHANGED << store, gen >>

delete_unusable(c) ==
    /\ pc[c] = "deleteWinner"
    /\ Finish(c, mine[c].core)
    /\ \/ faults' = faults /\ store' = StoreAfterDelete(mine[c].seen)
       \/ Fault /\ UNCHANGED store
    /\ UNCHANGED gen

(***************************************************************************)
(* Others that use the same store                                          *)
(***************************************************************************)
\* A process with other validation rules publishes what ours rejects.
ForeignWrite ==
    /\ store = None
    /\ Fault
    /\ gen' = gen + 1
    /\ \E x \in Bad : store' = [core |-> x, gen |-> gen + 1]
    /\ UNCHANGED << pc, flight, state, table, note, mine, result >>

\* The bucket's lifecycle rule removes an object.
Expire ==
    /\ store # None
    /\ Fault
    /\ store' = None
    /\ UNCHANGED << pc, flight, state, table, note, mine, result, gen >>

LeaderStep(c) ==
    \/ remove_current(c) \/ notify_waiters(c)
    \/ try_load_canonical(c) \/ delete_unusable_and_resolve(c) \/ load_or_build_canonical(c)
    \/ publish_canonical(c) \/ resolve_conflicting_winner(c) \/ delete_unusable(c)

CacheNext ==
    \/ \E c \in Callers :
          elect(c) \/ WaitForFlight(c) \/ LeaderStep(c) \/ DropLeader(c) \/ DropWaiter(c)
    \/ ForeignWrite
    \/ Expire

\* The runtime polls every woken future; nothing makes it drop one.
CacheFairness == \A c \in Callers : WF_cacheVars(elect(c) \/ WaitForFlight(c) \/ LeaderStep(c))
CacheSpec == CacheInit /\ [][CacheNext]_cacheVars /\ CacheFairness

(***************************************************************************)
(* Properties                                                              *)
(***************************************************************************)
\* Whatever load_or_build_canonical found in the store, a caller is handed a core
\* that passed validation, an error, or nothing because its future was dropped.
OnlyValidated ==
    \A c \in Callers : result[c] \in Good \cup {None, Err, "cancelled"}

\* Only the lifecycle rule removes a core that validates: the exact delete of an
\* unusable entry cannot hit the good one that replaced it in the meantime.
GoodEntryKept ==
    (store # None /\ store' = None) => (Valid(store.core) => UNCHANGED pc)
=============================================================================
