---------------------------- MODULE MCProviders ----------------------------
(***************************************************************************)
(* A proof from its request to its publication, one part at a time: the    *)
(* requests to the network and their checkpoints, the poller that watches  *)
(* them, and the saga that publishes a proof.  The parts are separate      *)
(* models; `area' says which one a behaviour is about, and the others      *)
(* stand still.                                                            *)
(***************************************************************************)
EXTENDS Sp1Network, TLC

CONSTANTS r1, r2, w1, w2,
          Areas,  \* the parts this run is about
          s1, s2, \* the submissions the poller watches
          p1, p2, p3, h1, h2, x, y,  \* roots, handlers and contents of the saga
          SagaCasts

MCRoots == {r1, r2}
MCWorkers == {w1, w2}

With(ws, targets, operators, override, reqs, ms, fs) ==
    [workers |-> ws, targets |-> targets, operators |-> operators, override |-> override,
     requests |-> reqs, moves |-> ms, faults |-> fs]

\* Two roots share the stage through all their transitions.
Sharing == With({w1}, {1}, {2}, 0, 2, 3, 1)

\* The process restarts with another target or limit, and the request asks for
\* more than the operator allows.
Restarting == With({w1}, {1, 2}, {1, 2}, 3, 3, 1, 1)

\* The lease of the first run expired while it is still in progress.
Overtaken == With(MCWorkers, {1}, {2}, 0, 2, 2, 0)

AllCasts == {Sharing, Restarting, Overtaken}

OvertakenOnly == {With(MCWorkers, {1}, {2}, 0, 2, 3, 0)}

Symmetry == Permutations(Roots) \cup Permutations(Workers) \cup Permutations({h1, h2})
            \cup Permutations({x, y})

-----------------------------------------------------------------------------
VARIABLES area, commands, commands_open, running, handle, active, buckets, in_flight, waiter,
          terminal, outcome, registry, request, passed, scene

watched == <<commands, commands_open, running, handle, active, buckets, in_flight, waiter,
             terminal, outcome, registry, request, passed, scene>>

Surroundings(subs, types, faulty, ends, clocks) ==
    [subs |-> subs, proof_type |-> types, faulty |-> faulty, drops |-> FALSE, ends |-> ends,
     clocks |-> clocks]

AllSp1 == [s \in {s1, s2} |-> "Sp1"]

\* Two submissions in one poll, one of them with an auction timeout.
Shared == Surroundings({s1, s2}, AllSp1, FALSE, {"Fulfilled"}, {"auction"})

\* One submission with a source that may fail, and one without a source.
Mixed == Surroundings({s1, s2}, [s \in {s1, s2} |-> IF s = s1 THEN "Sp1" ELSE "Other"], TRUE,
                      {"Unexecutable"}, {"local"})

\* A single submission to which everything may happen.
Alone == Surroundings({s1}, AllSp1, TRUE, {"Fulfilled", "Unfulfillable", "Unexecutable"},
                      {"local", "provider", "auction"})

\* A submission of its own, and a prover that is dropped meanwhile.
Dropped == [Surroundings({s1}, AllSp1, TRUE, {"Fulfilled", "Unexecutable"}, {"local"})
              EXCEPT !.drops = TRUE]

Poller == INSTANCE RemotePoller WITH
    Subs <- {s1, s2}, ProofTypes <- {"Sp1", "Other"}, Sources <- {"Sp1"}, Auctioned <- {s1},
    Casts <- {Shared, Mixed, Alone, Dropped}, cast <- scene

-----------------------------------------------------------------------------
VARIABLES task, artifact, pending, canonical, outbox, lock, node, proc, turns, plot

saga == <<task, artifact, pending, canonical, outbox, lock, node, proc, turns, plot>>

OfRoots(rs, ws, hs, n) ==
    [roots |-> rs, workers |-> ws, handlers |-> {h1}, hashes |-> hs,
     external |-> FALSE, moves |-> n]

\* A root of its own, and a prover whose runs may differ.
Single == OfRoots({p1}, {w1}, {x, y}, 5)

\* A single proof and a batch that shares it.
Batched == OfRoots({p1, p2}, {w1}, {x}, 3)

\* The lease of the first worker expires while it publishes.
Expired == OfRoots({p3}, {w1, w2}, {x}, 2)

\* Two concurrent requests publish one input of an external aggregate.
Inputs == [roots |-> {p2}, workers |-> {}, handlers |-> {h1, h2}, hashes |-> {x},
           external |-> TRUE, moves |-> 5]

AllSagas == {Single, Batched, Expired, Inputs}

OtherBytes == {OfRoots({p1}, {w1}, {x, y}, 2)}

Publication == INSTANCE ProofPublication WITH
    Roots <- {p1, p2, p3}, Partial <- {p2}, Reopened <- {p1, p2}, Workers <- {w1, w2},
    Handlers <- {h1, h2}, Hashes <- {x, y}, MaxInc <- 7, MaxGen <- 6, Casts <- SagaCasts,
    moves <- turns, cast <- plot

-----------------------------------------------------------------------------
\* A part of a behaviour about another one: nobody uses it.
NetworkRests == Init /\ cast = Sharing
PollerRests == Poller!Init /\ scene = Dropped
SagaRests == Publication!Init /\ plot = CHOOSE c \in SagaCasts : TRUE

RunInit ==
    /\ area \in Areas
    /\ \/ area = "network" /\ Init /\ PollerRests /\ SagaRests
       \/ area = "poller" /\ NetworkRests /\ Poller!Init /\ SagaRests
       \/ area = "publication" /\ NetworkRests /\ PollerRests /\ Publication!Init

RunNext ==
    \/ area = "network" /\ Next /\ UNCHANGED <<area, watched, saga>>
    \/ area = "poller" /\ Poller!Next /\ UNCHANGED <<area, vars, saga>>
    \/ area = "publication" /\ Publication!Next /\ UNCHANGED <<area, vars, watched>>

RunSpec == RunInit /\ [][RunNext]_<<area, vars, watched, saga>>

\* The saga under the fairness its module states, for the worker and the handler
\* of OtherBytes.
FairSaga ==
    /\ RunSpec
    /\ SF_saga(Publication!WorkerStep(w1) /\ UNCHANGED plot)
    /\ SF_saga(Publication!GiveUp(w1) /\ UNCHANGED plot)
    /\ WF_saga(Publication!StartPublish(w1) /\ UNCHANGED plot)
    /\ WF_saga(Publication!StartDetached(w1) /\ UNCHANGED plot)
    /\ SF_saga(Publication!HandlerStep(h1) /\ UNCHANGED plot)
    /\ SF_saga(Publication!StartRetainArtifact(h1) /\ UNCHANGED plot)
    /\ WF_saga(Publication!StartRetainPending(h1) /\ UNCHANGED plot)

-----------------------------------------------------------------------------
\* What a waiter of the poller is told is so.  It is told to retry only when the
\* old request cannot run on; an auction timeout frees the way only after the
\* provider confirmed the cancellation; a failure has its cause in the registry;
\* and a waiter that goes on to fetch the proof has one to fetch, although the
\* answer was read an arbitrary time before it was delivered.
AnswersAreSound ==
    /\ Poller!RetryOnlyWhenOver /\ Poller!AuctionRetryIsCancelled
    /\ Poller!FailureHasCause /\ Poller!ProofExists

\* What is paid for is neither forgotten nor repeated too early: no step moves a
\* stored checkpoint back or submits beyond the operator's limit; and a poll that
\* ends badly fails only the submissions it was made for.
PaymentsAreSound ==
    [][/\ CheckpointsAdvance /\ WithinOperatorLimit
       /\ Poller!UnselectedSpared]_<<area, vars, watched, saga>>

\* What a reader resolves through an active record is there, generation and
\* content: no cleanup, however delayed, deletes the object of an active record,
\* and the canonical object never differs from the registered one
\* (invalidate_pending_proof_publication, finalize_proof_artifact_invalidation).
RegistryIsTrue == Publication!RegistryIsTrue

\* A root keeps what it was promised: its proof for as long as it is completed,
\* an intent whose owners exist, and no cancellation by a publication that was
\* given up while it still waits (invalidate_failed_publication).
RootsAreServed == Publication!RootsAreServed

\* An intent whose blob is missing gets one again, from the proof the queue kept
\* or from another run of the prover (checkpoint_pending_proof_publication).
IntentRematerialized == Publication!IntentRematerialized
=============================================================================
