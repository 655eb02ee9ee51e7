---------------------------- MODULE RemotePoller ----------------------------
(***************************************************************************)
(* The shared status poller of remote proof requests                       *)
(* (crates/remote-poller/src/lib.rs) together with its only source and its *)
(* only client, the SP1 network prover (crates/prover/src/sp1/mod.rs).     *)
(*                                                                         *)
(* A waiter enters its submission in the SP1 status registry, registers it *)
(* with the tracker over an unbounded channel and awaits one terminal      *)
(* answer.  The tracker is a single actor that serves three events: a      *)
(* command, a tick (drop closed and overdue submissions, then start at     *)
(* most one poll per proof type) and the completion of a poll.  A poll     *)
(* asks the provider for every selected submission concurrently, while     *)
(* submissions come and go, deadlines pass and waiters are dropped.        *)
(*                                                                         *)
(* A submission identifier is a fresh UUID, so one submission is           *)
(* registered once: the duplicate-identifier answer of register is left    *)
(* out, and so is an unparsable provider identifier (a request that the    *)
(* provider itself named).                                                 *)
(***************************************************************************)
EXTENDS Naturals, Sequences, FiniteSets

CONSTANTS
    Subs,         \* submissions, one per waiter
    ProofTypes,   \* keys of the buckets
    Sources,      \* proof types with a registered status source
    Auctioned,    \* submissions with an auction timeout
    Casts         \* surroundings a behaviour may have, see Cast

(* The submissions that are made, the proof type of each, whether a source *)
(* may answer for the wrong set of submissions and the prover be dropped   *)
(* while submissions are tracked, and two bounds: the ways in which the    *)
(* provider ends a request and the kinds of deadlines that may pass.       *)
Cast == [subs : SUBSET Subs, proof_type : [Subs -> ProofTypes],
         faulty : BOOLEAN, drops : BOOLEAN,
         ends : SUBSET {"Fulfilled", "Unfulfillable", "Unexecutable"},
         clocks : SUBSET {"local", "provider", "auction"}]

ASSUME RemotePollerAssumption ==
    /\ Sources \subseteq ProofTypes
    /\ Auctioned \subseteq Subs
    /\ Casts \subseteq Cast

VARIABLES
    commands,       \* the command channel, oldest first
    commands_open,  \* the actor has not seen the channel closed
    running,        \* the actor's loop has not ended
    handle,         \* the prover still holds its RemoteStatusTracker
    active,         \* tracked submissions
    buckets,        \* tracked submissions by proof type
    in_flight,      \* the poll in flight of each proof type
    waiter,         \* where each waiter stands
    terminal,       \* the answer each waiter was sent
    outcome,        \* what wait_sp1_network_proof returned
    registry,       \* the SP1 status registry
    request,        \* the provider's view of each request
    passed,         \* deadlines that have passed, by kind
    cast            \* the surroundings of this behaviour

actor == <<commands_open, running, active, buckets>>
client == <<handle, waiter, terminal, outcome>>
provider == <<request, passed>>
vars == <<commands, actor, in_flight, client, registry, provider, cast>>

\* terminal_outcome values, and the two states of an entry without one.
Sp1TerminalOutcome == {"Unfulfillable", "TimedOut", "AuctionTimedOut", "Unexecutable"}
Registry == Sp1TerminalOutcome \cup {"absent", "open"}

\* RemoteStatus as the SP1 source reports it; "queued", "asked" and
\* "cancelling" are the steps of status_for_submission before it returns.
RemoteStatus == {"Pending", "Locked", "Fulfilled", "Failed", "Unrecoverable"}
Progress == {"queued", "asked", "cancelling"}

RemoteTerminalResult == {"Fulfilled", "Failed", "TimedOut", "Unrecoverable"}
NoAnswer == "none"

Idle == [selected |-> {}, statuses |-> <<>>, result |-> "idle"]

\* What the provider may say of a request: still in auction, assigned to a
\* prover, proved, given up, or refused by its execution.
Requests == {"Requested", "Assigned", "Fulfilled", "Unfulfillable", "Unexecutable"}

Init ==
    /\ commands = <<>>
    /\ commands_open = TRUE /\ running = TRUE /\ handle = TRUE
    /\ active = {}
    /\ buckets = [t \in ProofTypes |-> {}]
    /\ in_flight = [t \in ProofTypes |-> Idle]
    /\ waiter = [s \in Subs |-> "new"]
    /\ terminal = [s \in Subs |-> NoAnswer]
    /\ outcome = [s \in Subs |-> NoAnswer]
    /\ registry = [s \in Subs |-> "absent"]
    /\ request = [s \in Subs |-> "Requested"]
    /\ passed = {}
    /\ cast \in Casts

-----------------------------------------------------------------------------
(* The waiter: wait_sp1_network_proof and its guard.                       *)

Register(s) == [kind |-> "Register", sub |-> s]
Untrack(s) == [kind |-> "Untrack", sub |-> s]

Wait(s) ==
    /\ s \in cast.subs
    /\ waiter[s] = "new" /\ handle
    /\ waiter' = [waiter EXCEPT ![s] = "waiting"]
    /\ registry' = [registry EXCEPT ![s] = "open"]
    /\ commands' = Append(commands, Register(s))
    /\ UNCHANGED <<actor, in_flight, handle, terminal, outcome, provider>>

\* Dropping the guard removes the registry entry and untracks.
DropGuard(s) ==
    /\ waiter' = [waiter EXCEPT ![s] = "gone"]
    /\ registry' = [registry EXCEPT ![s] = "absent"]
    /\ commands' = Append(commands, Untrack(s))

\* The stage is cancelled or loses its lease: the waiting future is dropped.
Abandon(s) ==
    /\ waiter[s] = "waiting"
    /\ DropGuard(s)
    /\ UNCHANGED <<actor, in_flight, handle, terminal, outcome, provider>>

Retryable == {"Unfulfillable", "TimedOut", "AuctionTimedOut"}

\* The value wait_sp1_network_proof computes from the answer, and for a failed
\* request from the outcome that the status source recorded.
WaitOutcome(s) ==
    CASE terminal[s] = "Fulfilled" -> "Fulfilled"
      [] terminal[s] = "TimedOut" -> "RetryRequest"
      [] terminal[s] = "Failed" /\ registry[s] \in Retryable -> "RetryRequest"
      [] OTHER -> "Error"

Conclude(s) ==
    /\ waiter[s] = "waiting" /\ terminal[s] # NoAnswer
    /\ outcome' = [outcome EXCEPT ![s] = WaitOutcome(s)]
    /\ DropGuard(s)
    /\ UNCHANGED <<actor, in_flight, handle, terminal, provider>>

\* The prover is dropped and with it its clone of the tracker.
DropTracker ==
    /\ handle /\ cast.drops
    /\ handle' = FALSE
    /\ UNCHANGED <<commands, actor, in_flight, waiter, terminal, outcome,
                   registry, provider>>

-----------------------------------------------------------------------------
(* The actor.                                                              *)

\* terminal_tx is closed once the waiter's receiver is gone.
IsClosed(s) == waiter[s] = "gone"

\* Removal from both indexes; an empty bucket is one that is not in the map.
Without(bs, gone) == [t \in ProofTypes |-> bs[t] \ gone]

\* send_terminal for several submissions: only what is still tracked is
\* answered, and only a waiter that still listens gets the answer.
Answered(s, answers) == s \in active \cap DOMAIN answers

SendTerminal(answers) ==
    /\ active' = active \ DOMAIN answers
    /\ buckets' = Without(buckets, active \cap DOMAIN answers)
    /\ terminal' = [s \in Subs |->
          IF Answered(s, answers) /\ ~IsClosed(s) THEN answers[s] ELSE terminal[s]]

HandleRegister ==
    /\ running /\ commands # <<>> /\ Head(commands).kind = "Register"
    /\ LET s == Head(commands).sub
           t == cast.proof_type[s]
       IN IF t \in Sources
          THEN /\ active' = active \cup {s}
               /\ buckets' = [buckets EXCEPT ![t] = @ \cup {s}]
               /\ UNCHANGED terminal
          ELSE /\ terminal' = [terminal EXCEPT
                      ![s] = IF IsClosed(s) THEN @ ELSE "Unrecoverable"]
               /\ UNCHANGED <<active, buckets>>
    /\ commands' = Tail(commands)
    /\ UNCHANGED <<commands_open, running, in_flight, handle, waiter, outcome,
                   registry, provider>>

HandleUntrack ==
    /\ running /\ commands # <<>> /\ Head(commands).kind = "Untrack"
    /\ active' = active \ {Head(commands).sub}
    /\ buckets' = Without(buckets, {Head(commands).sub})
    /\ commands' = Tail(commands)
    /\ UNCHANGED <<commands_open, running, in_flight, client, registry, provider>>

\* recv returns None once every sender is gone: the prover's and those of the
\* guards of current waiters.
CommandsClose ==
    /\ running /\ commands_open /\ commands = <<>> /\ ~handle
    /\ \A s \in Subs : waiter[s] # "waiting"
    /\ commands_open' = FALSE
    /\ UNCHANGED <<commands, running, active, buckets, in_flight, client,
                   registry, provider>>

Exit ==
    /\ running /\ ~commands_open /\ active = {}
    /\ \A t \in ProofTypes : in_flight[t] = Idle
    /\ running' = FALSE
    /\ UNCHANGED <<commands, commands_open, active, buckets, in_flight, client,
                   registry, provider>>

Overdue(s) == <<"local", s>> \in passed

\* prune_closed_and_timed_out followed by schedule_polls at the same instant:
\* closed submissions are dropped, overdue ones answered TimedOut, and every
\* proof type with something left and no poll in flight gets one.
Tick ==
    /\ running /\ active # {}
    /\ LET closed == {s \in active : IsClosed(s)}
           late == {s \in active \ closed : Overdue(s)}
           kept == Without(buckets, closed \cup late)
           due == {t \in ProofTypes : in_flight[t] = Idle /\ kept[t] # {}}
       IN /\ active' = active \ (closed \cup late)
          /\ buckets' = kept
          /\ terminal' = [s \in Subs |-> IF s \in late THEN "TimedOut" ELSE terminal[s]]
          /\ in_flight' = [t \in ProofTypes |->
                IF t \in due
                THEN [selected |-> kept[t],
                      statuses |-> [s \in kept[t] |-> "queued"],
                      result |-> "running"]
                ELSE in_flight[t]]
    /\ UNCHANGED <<commands, commands_open, running, handle, waiter, outcome,
                   registry, provider>>

Read(t) == \A s \in in_flight[t].selected : in_flight[t].statuses[s] \in RemoteStatus

\* A Pending or Locked status answers nobody (terminal_result).
Terminals(poll) ==
    LET ended == {s \in poll.selected : poll.statuses[s] \notin {"Pending", "Locked"}}
    IN [s \in ended |-> poll.statuses[s]]

FailAll(poll) == [s \in poll.selected |-> "Unrecoverable"]

\* handle_poll_completion: a transient error keeps the selected submissions, an
\* unavailable source and a mismatched status set fail them, and a complete
\* answer settles those that ended.
Complete(t) ==
    /\ running
    /\ LET poll == in_flight[t]
       IN \/ /\ poll.result = "running" /\ Read(t)
             /\ SendTerminal(Terminals(poll))
          \/ /\ poll.result = "Transient"
             /\ UNCHANGED <<active, buckets, terminal>>
          \/ /\ poll.result \in {"SourceUnavailable", "Mismatch"}
             /\ SendTerminal(FailAll(poll))
    /\ in_flight' = [in_flight EXCEPT ![t] = Idle]
    /\ UNCHANGED <<commands, commands_open, running, handle, waiter, outcome,
                   registry, provider>>

-----------------------------------------------------------------------------
(* The status source: Sp1StatusSource::poll, one task per submission.      *)

Unread(t) == in_flight[t].result = "running"

Report(t, s, status) ==
    in_flight' = [in_flight EXCEPT ![t].statuses[s] = status]

\* Mutant: the outcome is entered for a submission that has left.
RecordAlways(s, o) == registry' = [registry EXCEPT ![s] = o]

\* record_sp1_terminal_outcome does nothing once the guard removed the entry.
Record(s, o) ==
    registry' = [registry EXCEPT ![s] = IF @ = "absent" THEN @ ELSE o]

\* The task looks its metadata up before it asks the provider.
Ask(t, s) ==
    /\ Unread(t) /\ s \in in_flight[t].selected
    /\ in_flight[t].statuses[s] = "queued"
    /\ Report(t, s, IF registry[s] = "absent" THEN "Unrecoverable" ELSE "asked")
    /\ UNCHANGED <<commands, actor, client, registry, provider>>

AuctionOver(s) == s \in Auctioned /\ <<"auction", s>> \in passed

\* The status and the outcome that one answer of the provider stands for.
Classify(s) ==
    CASE request[s] = "Fulfilled" -> <<"Fulfilled", NoAnswer>>
      [] request[s] = "Unexecutable" -> <<"Unrecoverable", "Unexecutable">>
      [] request[s] = "Unfulfillable" -> <<"Failed", "Unfulfillable">>
      [] <<"provider", s>> \in passed -> <<"Failed", "TimedOut">>
      [] request[s] = "Assigned" -> <<"Locked", NoAnswer>>
      [] OTHER -> <<"Pending", NoAnswer>>

Answer(t, s) ==
    /\ Unread(t) /\ s \in in_flight[t].selected
    /\ in_flight[t].statuses[s] = "asked"
    /\ IF request[s] = "Requested" /\ AuctionOver(s)
       THEN Report(t, s, "cancelling") /\ UNCHANGED registry
       ELSE /\ Report(t, s, Classify(s)[1])
            /\ IF Classify(s)[2] = NoAnswer
               THEN UNCHANGED registry ELSE Record(s, Classify(s)[2])
    /\ UNCHANGED <<commands, actor, client, provider>>

\* Mutant: the outcome of the cancellation is not awaited.
CancelledUnseen(t, s) ==
    /\ Unread(t) /\ s \in in_flight[t].selected
    /\ in_flight[t].statuses[s] = "cancelling"
    /\ Record(s, "AuctionTimedOut")
    /\ Report(t, s, "Failed")
    /\ UNCHANGED <<commands, actor, client, provider>>

\* cancel_request succeeds, whatever the provider did with the request since
\* it was read: the provider gives up a request that is still in auction.
Cancelled(t, s) ==
    /\ Unread(t) /\ s \in in_flight[t].selected
    /\ in_flight[t].statuses[s] = "cancelling"
    /\ request[s] \in {"Requested", "Unfulfillable"}
    /\ request' = [request EXCEPT ![s] = "Unfulfillable"]
    /\ Record(s, "AuctionTimedOut")
    /\ Report(t, s, "Failed")
    /\ UNCHANGED <<commands, actor, client, passed>>

\* A failed status or cancel call is transient for this submission alone.
CallFails(t, s) ==
    /\ Unread(t) /\ s \in in_flight[t].selected
    /\ in_flight[t].statuses[s] \in {"asked", "cancelling"}
    /\ Report(t, s, "Pending")
    /\ UNCHANGED <<commands, actor, client, registry, provider>>

\* How the poll as a whole fails: its timeout, a panic in it, a status set
\* that is not the selected one.
PollErrors == {"Transient", "SourceUnavailable"} \cup (IF cast.faulty THEN {"Mismatch"} ELSE {})

PollFails(t, error) ==
    /\ Unread(t)
    /\ in_flight' = [in_flight EXCEPT ![t].result = error]
    /\ UNCHANGED <<commands, actor, client, registry, provider>>

-----------------------------------------------------------------------------
(* The provider and the clock, followed as long as somebody waits: what     *)
(* happens to a request afterwards is answered to nobody.                  *)

Provide(s) ==
    /\ waiter[s] = "waiting"
    /\ \/ request[s] = "Requested" /\ request' = [request EXCEPT ![s] = "Assigned"]
       \/ /\ request[s] \in {"Requested", "Assigned"}
          /\ \E r \in cast.ends : request' = [request EXCEPT ![s] = r]
    /\ UNCHANGED <<commands, actor, in_flight, client, registry, passed>>

Deadlines ==
    {d \in cast.clocks \X cast.subs : d[1] = "auction" => d[2] \in Auctioned}

Pass(d) ==
    /\ d \notin passed /\ waiter[d[2]] = "waiting"
    /\ passed' = passed \cup {d}
    /\ UNCHANGED <<commands, actor, in_flight, client, registry, request>>

-----------------------------------------------------------------------------
Actor ==
    \/ HandleRegister \/ HandleUntrack \/ CommandsClose \/ Exit \/ Tick
    \/ \E t \in ProofTypes : Complete(t)

Source ==
    \E t \in ProofTypes :
        \/ \E s \in Subs : Ask(t, s) \/ Answer(t, s) \/ Cancelled(t, s) \/ CallFails(t, s)
        \/ \E e \in PollErrors : PollFails(t, e)

Client ==
    \/ \E s \in Subs : Wait(s) \/ Abandon(s) \/ Conclude(s)
    \/ DropTracker

Environment ==
    \/ \E s \in cast.subs : Provide(s)
    \/ \E d \in Deadlines : Pass(d)

Next == (Actor \/ Source \/ Client \/ Environment) /\ UNCHANGED cast

Spec == Init /\ [][Next]_vars

\* The actor's loop never stops serving an arm that stays ready, the timeout
\* around a poll ends it, time passes, and a waiter that was answered runs on.
\* Nothing is assumed of the provider, of the calls to it, or of its answers.
Fairness ==
    /\ WF_vars(HandleRegister /\ UNCHANGED cast)
    /\ WF_vars(HandleUntrack /\ UNCHANGED cast)
    /\ WF_vars(CommandsClose /\ UNCHANGED cast)
    /\ WF_vars(Exit /\ UNCHANGED cast)
    /\ WF_vars(Tick /\ UNCHANGED cast)
    /\ \A t \in ProofTypes :
          /\ WF_vars(Complete(t) /\ UNCHANGED cast)
          /\ WF_vars(PollFails(t, "Transient") /\ UNCHANGED cast)
    /\ \A s \in Subs :
          /\ WF_vars(Pass(<<"local", s>>) /\ UNCHANGED cast)
          /\ WF_vars(Conclude(s) /\ UNCHANGED cast)

FairSpec == Spec /\ Fairness

-----------------------------------------------------------------------------
(* Properties.                                                             *)

Polls ==
    [selected : SUBSET Subs,
     statuses : UNION {[S -> Progress \cup RemoteStatus] : S \in SUBSET Subs},
     result : {"idle", "running", "Transient", "SourceUnavailable", "Mismatch"}]

\* The state keeps its shape: commands name submissions, a poll is idle or
\* carries one status per selected submission, and the two indexes of the actor
\* describe the same submissions: a bucket that kept an answered one would poll
\* it for ever, and one that lost a tracked submission would never poll it
\* (register, send_terminal, remove_submission, remove_from_bucket).
TypeOK ==
    /\ commands \in Seq([kind : {"Register", "Untrack"}, sub : Subs])
    /\ {commands_open, running, handle} \subseteq BOOLEAN
    /\ active \subseteq Subs
    /\ buckets = [t \in ProofTypes |-> {s \in active : cast.proof_type[s] = t}]
    /\ in_flight \in [ProofTypes -> Polls]
    /\ waiter \in [Subs -> {"new", "waiting", "gone"}]
    /\ terminal \in [Subs -> RemoteTerminalResult \cup {NoAnswer}]
    /\ outcome \in [Subs -> {NoAnswer, "Fulfilled", "RetryRequest", "Error"}]
    /\ registry \in [Subs -> Registry]
    /\ request \in [Subs -> Requests]
    /\ passed \subseteq Deadlines /\ cast \in Casts

\* A waiter told that its request failed finds the cause in the registry: the
\* source records it before it reports, and no guard removes it early.
\* Otherwise a retryable end would surface as a final error of the stage.
FailureHasCause ==
    \A s \in Subs :
        waiter[s] = "waiting" /\ terminal[s] = "Failed" => registry[s] \in Retryable

\* wait_sp1_network_proof asks for a replacement request only when the old one
\* cannot run on: the provider gave it up, or one of its deadlines has passed.
RetryOnlyWhenOver ==
    \A s \in Subs :
        outcome[s] = "RetryRequest" =>
            \/ request[s] = "Unfulfillable"
            \/ <<"local", s>> \in passed \/ <<"provider", s>> \in passed

\* An auction timeout frees the way for a replacement only after the provider
\* confirmed the cancellation: two paid requests never compete in one auction.
AuctionRetryIsCancelled ==
    \A s \in Subs : registry[s] = "AuctionTimedOut" => request[s] = "Unfulfillable"

\* A waiter that goes on to fetch the proof has one to fetch, although the
\* answer was read an arbitrary time before it was delivered.
ProofExists ==
    \A s \in Subs : terminal[s] = "Fulfilled" => request[s] = "Fulfilled"

\* A submission is told Unrecoverable only for a cause of its own: no source for
\* its proof type, an unexecutable program, or a failure of a poll it was
\* selected for.  In particular a poll that ends badly spares the submissions
\* that registered while it was in flight.
FailurePolls(s) ==
    {t \in ProofTypes : s \in in_flight[t].selected
                        /\ in_flight[t].result \in {"SourceUnavailable", "Mismatch"}}

UnselectedSpared ==
    \A s \in Subs :
        terminal'[s] = "Unrecoverable" /\ terminal[s] # "Unrecoverable" =>
            \/ cast.proof_type[s] \notin Sources
            \/ request[s] = "Unexecutable"
            \/ FailurePolls(s) # {}

\* A waiter that left leaves nothing behind, however its departure falls between
\* its registration, a poll in flight and the answers of the provider: the
\* registry has no entry of it, and once its Untrack was served the tracker does
\* not hold it (Sp1SubmissionGuard::drop, record_sp1_terminal_outcome).  What
\* stayed would stay as long as the process.
GoneAreForgotten ==
    \A s \in Subs : waiter[s] = "gone" =>
        /\ registry[s] = "absent"
        /\ s \in active => Untrack(s) \in {commands[i] : i \in DOMAIN commands}

\* The waiters that wait for an answer.
Unanswered == {s \in Subs : waiter[s] = "waiting"}
=============================================================================
