----------------------------- MODULE MCProcess -----------------------------
(***************************************************************************)
(* The server process and what it keeps going, in behaviours of their own: *)
(* the retention loop, the roots the engine executes and the saga that     *)
(* publishes a proof.  The parts are separate models, the last three on    *)
(* shared variables; `area' says which one a behaviour is about, and the   *)
(* process stands still in the others.                                     *)
(***************************************************************************)
EXTENDS ServerLifecycle, TLC

CONSTANT Areas  \* the parts this run is about

VARIABLES area, scene, u1, u2, u3, u4, u5, u6, u7, u8, u9, u10, u11, u12

shared == <<scene, u1, u2, u3, u4, u5, u6, u7, u8, u9, u10, u11, u12>>
free == <<u11, u12>>

-----------------------------------------------------------------------------
\* The server: one deployment and what goes wrong around it.
RpcPair(key, l2, witness) ==
    [key |-> key, l1 |-> "l1", l2 |-> l2, witness |-> witness, chains |-> TRUE, verifier |-> TRUE]

Sp1Lane == [prove |-> TRUE, verify |-> TRUE, verifier |-> FALSE, key |-> "valid", url |-> "none"]

\* A request to the SP1 engine; a cancellation is of request "a".
Asks(op, slow, hangs) ==
    [pair |-> "p", key |-> "sp1", slow |-> slow, hangs |-> hangs, op |-> op, of |-> "a"]

Plain ==
    [config |-> [pairs |-> <<RpcPair("p", "l2", "l2")>>, routes |-> {<<"sp1", "network">>},
                 scopes |-> <<>>, sp1 |-> Sp1Lane, interval |-> 200, valid |-> TRUE],
     nodes |-> ("l1" :> "right" @@ "l2" :> "right" @@ "store" :> "right"),
     broken |-> {},
     requests |-> ("a" :> Asks("attach", FALSE, FALSE)),
     panics |-> 1, flaps |-> 0, seconds |-> 0, probes |-> 0]

\* A pair's configuration differs in one respect from the plain one.
With(c) == [Plain EXCEPT !.config = c]

\* Two routes, the second a TEE lane, with a provider that never answers.
TwoEngines ==
    [Plain EXCEPT
        !.config = [@ EXCEPT !.routes = {<<"sp1", "network">>, <<"sgx", "remote">>}],
        !.nodes = @ @@ "sgx" :> "right",
        !.requests = "a" :> Asks("attach", FALSE, TRUE),
        !.panics = 0]

\* Their readiness, while they are stopped one after the other.
Probed == [TwoEngines EXCEPT !.requests = <<>>, !.probes = 1]

\* Two requests for one engine, the second from a client that never finishes.
SlowClient ==
    [Plain EXCEPT
        !.requests = @ @@ "b" :> Asks("attach", TRUE, FALSE)]

\* Two requests that race for the gate.
Racing ==
    [Plain EXCEPT
        !.requests = @ @@ "b" :> Asks("attach", FALSE, TRUE),
        !.panics = 0]

\* A root that is replaced and cancelled.
Writing ==
    [Plain EXCEPT
        !.requests = "a" :> Asks("replace", FALSE, FALSE) @@ "b" :> Asks("cancel", FALSE, FALSE),
        !.panics = 0]

\* Nodes that change their answers; a witness node of its own.
Flapping ==
    [Plain EXCEPT
        !.config = [@ EXCEPT !.pairs = <<RpcPair("p", "l2", "w")>>, !.scopes = <<"proof", "cache">>],
        !.nodes = @ @@ "w" :> "right",
        !.requests = <<>>, !.panics = 0, !.flaps = 1, !.probes = 1]

\* Maintenance that falls behind its limit.
Stalled == [Plain EXCEPT !.requests = <<>>, !.panics = 0, !.seconds = 2, !.probes = 1]

\* A worker that dies while the readiness is asked for.
Dying == [Plain EXCEPT !.requests = <<>>, !.probes = 1]

\* Deployments that do not start.
Faulty ==
    {[Plain EXCEPT !.broken = {step}, !.config = [@ EXCEPT !.scopes = <<"proof", "cache">>]] :
        step \in {"store", "cleanup", "initialize", "reconcile", "resources", "metadata",
                  "restore", "bind"}}
    \union {With([Plain.config EXCEPT !.valid = FALSE]),
            With([Plain.config EXCEPT !.sp1 = [@ EXCEPT !.key = "missing"]]),
            With([Plain.config EXCEPT !.sp1 = [@ EXCEPT !.url = "malformed"]]),
            With([Plain.config EXCEPT !.pairs =
                     <<[RpcPair("p", "l2", "l2") EXCEPT !.verifier = FALSE]>>]),
            With([Plain.config EXCEPT !.pairs =
                     <<[RpcPair("p", "l2", "l2") EXCEPT !.chains = FALSE]>>]),
            [Plain EXCEPT !.nodes = [@ EXCEPT !["l2"] = "wrong"]],
            [TwoEngines EXCEPT !.nodes = [@ EXCEPT !["sgx"] = "malformed"]]}

AllCasts ==
    {Plain, TwoEngines, Probed, SlowClient, Racing, Writing, Flapping, Stalled, Dying}
        \union Faulty

-----------------------------------------------------------------------------
\* Retention: three roots over two keys, the last two sharing one.
NoTask == [inc |-> 0]
Ended0(status) == [inc |-> 1, status |-> status, retention |-> "Retained", updated_at |-> 0]
Object(lifecycle) == [lifecycle |-> lifecycle, gen |-> 1]
NoIntent == [present |-> FALSE, owners |-> {}]
Intent == [present |-> TRUE, owners |-> {}]

RetentionCast(mv, batch, retries, tk, ar, pe, stuckRoots, stuckKeys, remote, undecodable, attached, lifetimes) ==
  [moves |-> mv, batch |-> batch, retry_identities |-> retries, observations |-> 1, tasks |-> tk,
   artifacts |-> ar, pending |-> pe, stuckRoots |-> stuckRoots, stuckKeys |-> stuckKeys,
   remote |-> remote, undecodable |-> undecodable, attached |-> attached,
   lifetimes |-> lifetimes]

\* Batches of one; the first root never detaches, the third may be registered.
StuckRoot ==
  RetentionCast(1, 1, 1, <<Ended0("Completed"), Ended0("Failed"), NoTask>>,
       <<Object("None"), Object("Active")>>, <<NoIntent, Intent>>, {1}, {}, {}, {}, {}, <<1, 1, 1>>)

\* Two stubborn roots and keys, a retry queue of one.
FullQueue ==
  RetentionCast(0, 2, 1, <<Ended0("Cancelled"), Ended0("Failed"), NoTask>>,
       <<Object("Active"), Object("Invalidated")>>, <<Intent, Intent>>, {1, 2}, {1}, {}, {}, {},
       <<1, 1, 1>>)

\* Orphans: one attached, one not.
Orphans ==
  RetentionCast(1, 2, 2, <<Ended0("Allocated"), Ended0("Allocated"), NoTask>>,
       <<Object("Active"), Object("None")>>, <<NoIntent, Intent>>, {}, {2}, {}, {}, {2}, <<1, 1, 1>>)

\* A root that is replaced while a pass holds its ended lifetime, and whose
\* successor ends as well.
Replaced ==
  RetentionCast(2, 1, 1, <<Ended0("Failed"), NoTask, NoTask>>,
       <<Object("None"), Object("None")>>, <<NoIntent, NoIntent>>, {}, {}, {}, {}, {}, <<2, 0, 0>>)

RetentionCasts == {StuckRoot, FullQueue, Orphans, Replaced}

Sweeper == INSTANCE Retention WITH
    Tasks <- 1 .. 3, Keys <- 1 .. 2, KeyOf <- <<1, 2, 2>>, Casts <- RetentionCasts,
    terminal_ttl_secs <- 1, orphan_ttl_secs <- 2, MaxTime <- 2, MaxFaults <- 1,
    cast <- scene, now <- u1, tasks <- u2, artifacts <- u3, pending <- u4,
    lanes <- u5, cursors <- u6, observed <- u7, pass <- u8, born <- u9, rollback <- u10,
    faults <- u11, moves <- u12

\* r1 proves the proposal p, r3 the batch of p and q.
RootCast(rs, faulty, n) ==
    [roots |-> rs, workers |-> {"w1"}, callers |-> {"c1"}, calls |-> {"submit", "sweep"},
     faults |-> faulty, moves |-> n]

Attached == INSTANCE ProofRoots WITH
    Roots <- {"r1", "r3"}, Nodes <- {"p", "q"}, Aggregates <- {},
    Plan <- [r1 |-> {"p"}, r3 |-> {"p", "q"}], Deps <- [p |-> {}, q |-> {}],
    Workers <- {"w1"}, Callers <- {"c1"}, MaxInc <- 4,
    Casts <- {RootCast({"r1", "r3"}, {"panic"}, 2), RootCast({"r1"}, {"fail", "restart"}, 3)},
    rec <- u1, proof <- u2, node <- u3, attached <- u4, retired <- u5, gate <- u6,
    stored <- u7, worker <- u8, caller <- u9, moves <- u10, cast <- scene

\* One root, and a prover whose runs all give the same bytes.
Publication == INSTANCE ProofPublication WITH
    Roots <- {"r1"}, Partial <- {}, Reopened <- {"r1"}, Workers <- {"w1"}, Handlers <- {"h1"},
    Hashes <- {"x"}, MaxInc <- 5, MaxGen <- 4,
    Casts <- {[roots |-> {"r1"}, workers |-> {"w1"}, handlers |-> {"h1"}, hashes |-> {"x"},
               external |-> FALSE, moves |-> 3]},
    task <- u1, artifact <- u2, pending <- u3, canonical <- u4, outbox <- u5, lock <- u6,
    node <- u7, proc <- u8, moves <- u9, cast <- scene

Unused(variable) == variable = None

\* The process of a behaviour about another part: it never starts.
StandStill == Init /\ cast = Plain

RunInit ==
    /\ area \in Areas
    /\ \/ /\ area = "server" /\ Init
          /\ Unused(scene) /\ Unused(u1) /\ Unused(u2) /\ Unused(u3) /\ Unused(u4) /\ Unused(u5)
          /\ Unused(u6) /\ Unused(u7) /\ Unused(u8) /\ Unused(u9) /\ Unused(u10) /\ Unused(u11)
          /\ Unused(u12)
       \/ area = "retention" /\ StandStill /\ Sweeper!Init
       \/ area = "roots" /\ StandStill /\ Attached!Init /\ Unused(u11) /\ Unused(u12)
       \/ /\ area = "publication" /\ StandStill /\ Publication!Init
          /\ Unused(u10) /\ Unused(u11) /\ Unused(u12)

RunNext ==
    \/ area = "server" /\ Next /\ UNCHANGED <<area, shared>>
    \/ area = "retention" /\ Sweeper!Next /\ UNCHANGED <<area, vars>>
    \/ area = "roots" /\ Attached!Next /\ UNCHANGED <<area, vars, free>>
    \/ area = "publication" /\ Publication!Next /\ UNCHANGED <<area, vars, u10, free>>

\* The fairness each module assumes of its own steps.  A behaviour is about one
\* part, so two parts may share a formula.
ServerIsFair ==
    /\ WF_vars(area = "server" /\ Start) /\ SF_vars(area = "server" /\ Shutdown)
    /\ WF_vars(area = "server" /\ \E r \in Requests : Handle(r))
    /\ WF_vars(area = "server" /\ \E e \in DOMAIN engines, t \in Tasks : Supervise(e, t))

\* The interval of the loop keeps ticking and the awaits of a pass return.
RetentionIsFair ==
    /\ WF_shared(area = "retention" /\ Sweeper!Pass)
    /\ WF_shared(area = "retention" /\ Sweeper!Tick)

RootsAndSagaAreFair ==
    /\ SF_shared(\/ area = "roots" /\ Attached!WorkerStep("w1") /\ UNCHANGED free
                 \/ /\ area = "publication" /\ Publication!WorkerStep("w1")
                    /\ UNCHANGED <<scene, u10, free>>)
    /\ SF_shared(\/ area = "roots" /\ Attached!CallerStep("c1") /\ UNCHANGED free
                 \/ /\ area = "publication" /\ Publication!HandlerStep("h1")
                    /\ UNCHANGED <<scene, u10, free>>)
    /\ SF_shared(\/ area = "roots" /\ Attached!SweepCall("c1", "r1") /\ UNCHANGED free
                 \/ /\ area = "publication" /\ Publication!GiveUp("w1")
                    /\ UNCHANGED <<scene, u10, free>>)
    /\ SF_shared(\/ area = "roots" /\ Attached!SweepCall("c1", "r3") /\ UNCHANGED free
                 \/ /\ area = "publication" /\ Publication!StartRetainArtifact("h1")
                    /\ UNCHANGED <<scene, u10, free>>)
    /\ WF_shared(\/ area = "roots" /\ Attached!Promote("p") /\ UNCHANGED free
                 \/ /\ area = "publication" /\ Publication!StartPublish("w1")
                    /\ UNCHANGED <<scene, u10, free>>)
    /\ WF_shared(\/ area = "roots" /\ Attached!Promote("q") /\ UNCHANGED free
                 \/ /\ area = "publication" /\ Publication!StartDetached("w1")
                    /\ UNCHANGED <<scene, u10, free>>)
    /\ WF_shared(\/ /\ area = "roots" /\ Attached!Expire("p") /\ ~Attached!Held("p")
                    /\ UNCHANGED free
                 \/ /\ area = "publication" /\ Publication!StartRetainPending("h1")
                    /\ UNCHANGED <<scene, u10, free>>)
    /\ WF_shared(/\ area = "roots" /\ Attached!Expire("q") /\ ~Attached!Held("q")
                 /\ UNCHANGED free)

RunSpec ==
    /\ RunInit /\ [][RunNext]_<<vars, area, shared>>
    /\ ServerIsFair /\ RetentionIsFair /\ RootsAndSagaAreFair

-----------------------------------------------------------------------------
\* What waits comes to its end.
\*   A record the store can delete does not wait behind the ones it cannot: time
\*   and again no expired root, unowned artifact and unowned intent is left but
\*   the stubborn ones, whatever keeps failing in the retry queues, however small
\*   the batch and however full the queue (budgets, NextCursor, enqueue).
\*   A root that no paid request protects is completed, failed, cancelled or gone
\*   at last, whatever dies on the way.
\*   So is a root whose proof is published, from every cut of the saga, and what
\*   was invalidated or is referenced no more is reclaimed.
NothingStarves ==
    []<>(/\ area = "retention" => Sweeper!Swept
         /\ area = "roots" => \A r \in {"r1", "r3"} : ~Attached!Unsettled(r)
         /\ area = "publication" => Publication!Converged)

\* Retention removes a root only as the ended lifetime it selected, also when the
\* id was registered again meanwhile and its new lifetime has ended and expired
\* (prepare and finalize compare the whole record).
OnlyExpiredLeave == [][area = "retention" => Sweeper!ExpiredLeave]_shared
=============================================================================
