--------------------------- MODULE ChainProvider ---------------------------
(***************************************************************************)
(* The RPC providers, crates/provider/src/network and rpc.rs: calls that   *)
(* fetch blocks, headers, accounts, storage proofs, witnesses, the         *)
(* proposal's event and its blobs run side by side; each sends its         *)
(* requests in batches through clients with a concurrency limit, a timeout *)
(* and retries, and puts the answers together again by block.              *)
(***************************************************************************)
EXTENDS Integers, Sequences, FiniteSets, SequencesExt

CONSTANTS
  Calls,               \* calls running side by side
  Casts,               \* what they ask for, and of which node
  concurrency_limit,   \* requests a client has on the wire at a time
  max_attempts,        \* retries of a request refused for its rate
  batch_size,          \* requests in a batch, futures polled at a time
  genesis_time, seconds_per_slot,
  Blobs                \* blobs a beacon node may answer with

VARIABLES
  cast,      \* the calls, and what the node they ask can do
  call,      \* progress of each call
  pkt,       \* packets handed to a client
  permits    \* permits left to each client

vars == <<cast, call, pkt, permits>>

Clients == {"l1", "client", "witness_client"}
Via(method) ==
  CASE method \in {"chainId", "debug", "txDebug", "spot", "system", "systemSlots", "slots"} -> "witness_client"
    [] method \in {"logs", "inclusion", "origin", "l1Header"} -> "l1"
    [] method = "blobs" -> "beacon"
    [] OTHER -> "client"

Failed == [ok |-> FALSE, reqs |-> <<>>]
Asks(reqs) == [ok |-> TRUE, reqs |-> reqs]

\* A request: the place its answer belongs to, and what is asked.
Req(idx, method, block, who) == [idx |-> idx, method |-> method, block |-> block, who |-> who]

chunks(s, n) ==
  [k \in 1..((Len(s) + n - 1) \div n) |-> SubSeq(s, (k - 1) * n + 1, IF k * n < Len(s) THEN k * n ELSE Len(s))]

----------------------------------------------------------------------------
(* What each call asks for *)

dedup_addresses(addresses) == SetToSeq(ToSet(addresses))

PerBlock(s, Of(_)) == FlattenSeq([i \in 1..Len(s.blocks) |-> Of(i)])

\* One request per block.
ForEachBlock(s, method) == Asks([i \in 1..Len(s.blocks) |-> Req(i, method, s.blocks[i], "")])
fetch_blocks(s) == ForEachBlock(s, "block")
fetch_headers(s) == ForEachBlock(s, "header")
fetch_l1_headers(s) == ForEachBlock(s, "l1Header")
RethDebugRequests(s) == ForEachBlock(s, "debug")
GethDebugRequests(s) == ForEachBlock(s, "debug")
TxListRequests(s) == IF s.lists # Len(s.blocks) THEN Failed ELSE ForEachBlock(s, "txDebug")
fetch_on_the_spot_taiko_witnesses(s) == IF ~s.taiko THEN Failed ELSE ForEachBlock(s, "spot")

\* The state before a block is the one of its parent; genesis has none.
build_account_proof_requests(s) ==
  IF Len(s.blocks) # Len(s.who) \/ 0 \in ToSet(s.blocks) THEN Failed
  ELSE Asks(PerBlock(s, LAMBDA i :
         [k \in 1..Len(dedup_addresses(s.who[i])) |-> Req(i, "proofs", s.blocks[i] - 1, dedup_addresses(s.who[i])[k])]))

build_storage_proof_requests(s) ==
  IF Len(s.blocks) # Len(s.who) \/ 0 \in ToSet(s.blocks) THEN Failed
  ELSE Asks(PerBlock(s, LAMBDA i :
         [k \in 1..Len(s.who[i]) |-> Req(i, "slots", s.blocks[i] - 1, s.who[i][k])]))

witness_has_account_preimage(s, block, a) == a \in s.node.preimages[block]

missing_account_proof_block_indices(s, a) ==
  SelectSeq([i \in 1..Len(s.blocks) |-> i], LAMBDA i : ~witness_has_account_preimage(s, s.blocks[i], a))

build_system_proof_requests(s, indices, method, a) ==
  IF \E k \in 1..Len(indices) : s.blocks[indices[k]] = 0 THEN Failed
  ELSE Asks([k \in 1..Len(indices) |-> Req(indices[k], method, s.blocks[indices[k]] - 1, a)])

\* fetch_shasta_proposal_event: the first log that is the proposal's; one
\* that does not decode ends the search.
EventAt(s) ==
  LET hits == {i \in 1..Len(s.logs) : s.logs[i] \in {s.proposal, "garbled"}}
  IN  IF hits = {} THEN "missing" ELSE s.logs[CHOOSE i \in hits : \A j \in hits : i <= j]

\* timestamp_to_slot
HasSlot(ts) == seconds_per_slot # 0 /\ ts >= genesis_time
timestamp_to_slot(ts) == (ts - genesis_time) \div seconds_per_slot

SlotsOf(s) == {timestamp_to_slot(s.sources[i].ts) : i \in 1..Len(s.sources)}
requested_hashes(s, slot) ==
  UNION {ToSet(s.sources[i].hashes) : i \in {j \in 1..Len(s.sources) : timestamp_to_slot(s.sources[j].ts) = slot}}

BlobRequests(s) ==
  IF \E i \in 1..Len(s.sources) : s.sources[i].hashes = <<>> \/ ~HasSlot(s.sources[i].ts) THEN Failed
  ELSE Asks([k \in 1..Cardinality(SlotsOf(s)) |->
         Req(k, "blobs", SortSeq(SetToSeq(SlotsOf(s)), <)[k], requested_hashes(s, SortSeq(SetToSeq(SlotsOf(s)), <)[k]))])

\* fetch_shasta_proposal_event: the log, then the headers it is dated by.
LogRequests(s) == IF s.blocks[1] = 0 THEN Failed ELSE Asks(<<Req(1, "logs", s.blocks[1], "")>>)
InclusionRequest(s) == IF EventAt(s) # s.proposal THEN Failed ELSE Asks(<<Req(1, "inclusion", s.blocks[1], "")>>)
OriginRequest(s) == Asks(<<Req(1, "origin", s.blocks[1] - 1, "")>>)

\* An account that every witness already holds is not asked for.
AccountOnly(s, a) == build_system_proof_requests(s, missing_account_proof_block_indices(s, a), "system", a)
StorageBacked(s, a) == build_system_proof_requests(s, [i \in 1..Len(s.blocks) |-> i], "systemSlots", a)

Requests(s, stage) ==
  CASE stage = "block" -> fetch_blocks(s)
    [] stage = "header" -> fetch_headers(s)
    [] stage = "l1Header" -> fetch_l1_headers(s)
    [] stage = "debug" -> IF s.kind = "Reth" THEN RethDebugRequests(s) ELSE GethDebugRequests(s)
    [] stage = "txDebug" -> TxListRequests(s)
    [] stage = "spot" -> fetch_on_the_spot_taiko_witnesses(s)
    [] stage = "proofs" -> build_account_proof_requests(s)
    [] stage = "slots" -> build_storage_proof_requests(s)
    [] stage \in {"golden", "treasury"} -> AccountOnly(s, stage)
    [] stage = "l2_contract" -> StorageBacked(s, stage)
    [] stage = "chainId" -> Asks(<<Req(1, "chainId", 0, "")>>)
    [] stage = "logs" -> LogRequests(s)
    [] stage = "inclusion" -> InclusionRequest(s)
    [] stage = "origin" -> OriginRequest(s)
    [] stage = "blobs" -> BlobRequests(s)

taiko_system_proof_targets == <<"golden", "treasury", "l2_contract">>
SystemTargets(s) == IF s.taiko THEN taiko_system_proof_targets ELSE <<>>

\* fetch_witnesses of the three L2Providers; only Reth answers for
\* transaction lists.
RethWitnesses(s) == <<"chainId", "debug">> \o SystemTargets(s)
RethTxLists(s) == <<"chainId", "txDebug">> \o SystemTargets(s)
GethWitnesses(s) == <<"chainId", "debug">> \o SystemTargets(s)
GethLocalWitnesses(s) == <<"chainId", "spot">>

RethStages(s) ==
  CASE s.op = "witnesses" -> RethWitnesses(s) [] s.op = "txLists" -> RethTxLists(s) [] OTHER -> <<s.op>>
GethStages(s) == IF s.op = "witnesses" THEN GethWitnesses(s) ELSE <<s.op>>
GethLocalStages(s) == IF s.op = "witnesses" THEN GethLocalWitnesses(s) ELSE <<s.op>>

Stages(s) ==
  CASE s.op = "event" -> <<"logs", "inclusion", "origin">>
    [] s.op # "event" /\ s.kind = "Reth" -> RethStages(s)
    [] s.op # "event" /\ s.kind = "Geth" -> GethStages(s)
    [] s.op # "event" /\ s.kind = "GethLocalWitness" -> GethLocalStages(s)

Supported(s) == s.op = "txLists" => s.kind = "Reth"

\* Futures of a call that are polled side by side: buffered, buffer_unordered.
Buffered == {"spot", "l1Header"}
Batches(stage, reqs) == IF stage \in Buffered \cup {"blobs"} THEN chunks(reqs, 1) ELSE chunks(reqs, batch_size)
Width(stage) == IF stage \in Buffered THEN batch_size ELSE 1

----------------------------------------------------------------------------
(* Answers put together *)

Ordered(got) == SortSeq(got, LAMBDA x, y : x.idx < y.idx)

\* fetch_blocks, fetch_headers: in the order they are collected.
InOrder(s, got) == [i \in 1..Len(got) |-> {got[i]}]

\* An answer goes to the entry of its block.
ByIndex(s, got) == [i \in 1..Len(s.blocks) |-> {got[k] : k \in {j \in 1..Len(got) : got[j].idx = i}}]
fetch_account_proofs(s, got) == ByIndex(s, got)
fetch_storage_proof_witnesses(s, got) == ByIndex(s, got)

\* Mutant: the witnesses are taken in the order they came.
AsTheyCame(s, got) ==
  LET own == SelectSeq(got, LAMBDA x : x.method \in {"debug", "txDebug", "spot"})
      more == SelectSeq(got, LAMBDA x : x.method \in {"system", "systemSlots"})
  IN  [i \in 1..Len(own) |-> {own[i]} \cup {more[k] : k \in {j \in 1..Len(more) : more[j].idx = i}}]

\* The witnesses in the order of the blocks, extended by the proofs of the
\* system accounts.
supplement_taiko_system_account_proofs(s, got) ==
  LET own == Ordered(SelectSeq(got, LAMBDA x : x.method \in {"debug", "txDebug", "spot"}))
      more == SelectSeq(got, LAMBDA x : x.method \in {"system", "systemSlots"})
  IN  [i \in 1..Len(own) |-> {own[i]} \cup {more[k] : k \in {j \in 1..Len(more) : more[j].idx = i}}]

\* fetch_shasta_data_sources looks each hash of a source up under its slot.
Held(got, slot) == UNION {x.blobs : x \in {y \in ToSet(got) : y.block = slot}}
SourcesFound(s, got) ==
  \A i \in 1..Len(s.sources) : ToSet(s.sources[i].hashes) \subseteq Held(got, timestamp_to_slot(s.sources[i].ts))
DataSources(s) == [i \in 1..Len(s.sources) |-> s.sources[i].hashes]

Assembled(s, got) ==
  CASE s.op \in {"block", "header"} -> InOrder(s, got)
    [] s.op = "l1Header" -> InOrder(s, Ordered(got))
    [] s.op = "proofs" -> fetch_account_proofs(s, got)
    [] s.op = "slots" -> fetch_storage_proof_witnesses(s, got)
    [] s.op \in {"witnesses", "txLists"} -> supplement_taiko_system_account_proofs(s, got)
    [] s.op = "blobs" -> DataSources(s)
    [] s.op = "event" -> [i \in 1..1 |-> {x \in ToSet(got) : x.method \in {"inclusion", "origin"}}]

----------------------------------------------------------------------------
NewCall(s) ==
  [status |-> IF Supported(s) THEN "running" ELSE "error", stages |-> Stages(s), stage |-> "", todo |-> <<>>,
   next |-> 1, got |-> <<>>, bad |-> {}, result |-> <<>>]

Init ==
  /\ cast \in Casts
  /\ call = [c \in Calls |-> NewCall(cast[c])]
  /\ pkt = {}
  /\ permits = [v \in Clients |-> concurrency_limit]

Running(c) == call[c].status = "running"
Mine(c) == {p \in pkt : p.c = c}

\* Dropping a future gives its permit back.
Returned(gone) == [v \in Clients |-> permits[v] + Cardinality({p \in gone : p.st = "flying" /\ p.via = v})]

Drop(gone) == pkt' = pkt \ gone /\ permits' = Returned(gone)

EndWith(c, status, result) == [call[c] EXCEPT !.status = status, !.result = result, !.todo = <<>>, !.stages = <<>>]

\* The next stage; one with nothing to ask is passed over.
StartStage(c) ==
  /\ Running(c) /\ call[c].todo = <<>> /\ Mine(c) = {} /\ call[c].stages # <<>> /\ call[c].bad = {}
  /\ \E asked \in {Requests(cast[c], Head(call[c].stages))} :
       call' = [call EXCEPT ![c] =
         IF ~asked.ok THEN EndWith(c, "error", <<>>)
         ELSE [@ EXCEPT !.stage = Head(call[c].stages), !.stages = Tail(@), !.next = 1,
                        !.todo = Batches(Head(call[c].stages), asked.reqs)]]
  /\ UNCHANGED <<cast, pkt, permits>>

\* A buffered stream yields in order: an answer behind one that is awaited
\* still counts, and an error shows when its turn comes.
Yielded(c) == {i \in 1..Len(cast[c].blocks) : \A j \in 1..i : \E x \in ToSet(call[c].got) : x.idx = j}
InHand(c) == IF call[c].stage = "l1Header" THEN call[c].next - 1 - Cardinality(Yielded(c)) ELSE Cardinality(Mine(c))
Surfaced(c) == call[c].stage = "l1Header" /\ \E i \in call[c].bad : \A j \in 1..(i - 1) : j \in Yielded(c)

Send(c) ==
  /\ Running(c) /\ call[c].todo # <<>> /\ InHand(c) < Width(call[c].stage) /\ ~Surfaced(c)
  /\ \E via \in {Via(Head(call[c].todo)[1].method)} :
       pkt' = pkt \cup {[c |-> c, n |-> call[c].next, items |-> Head(call[c].todo), via |-> via,
                         st |-> IF via = "beacon" THEN "flying" ELSE "waiting", tries |-> 0]}
  /\ call' = [call EXCEPT ![c] = [@ EXCEPT !.todo = Tail(@), !.next = @ + 1]]
  /\ UNCHANGED <<cast, permits>>

\* ConcurrencyLimitTransport::call
Acquire(p) ==
  /\ p.st = "waiting" /\ permits[p.via] > 0
  /\ permits' = [permits EXCEPT ![p.via] = @ - 1]
  /\ pkt' = (pkt \ {p}) \cup {[p EXCEPT !.st = "flying"]}
  /\ UNCHANGED <<cast, call>>

should_fallback_to_on_the_spot(c, why) ==
  /\ why = "methodNotFound"
  /\ cast[c].op = "witnesses" /\ cast[c].kind = "Reth" /\ cast[c].taiko
  /\ call[c].stage \notin {"chainId", "spot"}

\* An error ends the call, except that the witnesses built on the spot are all
\* awaited first and a buffered error waits for its turn.
Fail(c, p, why) ==
  IF call[c].stage \in Buffered
  THEN Drop({p}) /\ call' = [call EXCEPT ![c].bad = @ \cup {p.items[1].idx}]
  ELSE /\ Drop(Mine(c))
       /\ call' = [call EXCEPT ![c] =
            IF should_fallback_to_on_the_spot(c, why)
            THEN [@ EXCEPT !.stages = <<"spot">>, !.todo = <<>>, !.got = <<>>]
            ELSE EndWith(c, "error", <<>>)]

\* A beacon node may answer with any blobs; what hashes to none of the hashes
\* asked for is left out.
fetch_beacon_blobs(hashes, blobs) == blobs \cap hashes
Answered(req, blobs) ==
  [idx |-> req.idx, method |-> req.method, block |-> req.block, who |-> req.who,
   blobs |-> IF req.method = "blobs" THEN fetch_beacon_blobs(req.who, blobs) ELSE {}]

Answer(p, blobs) ==
  /\ p.st = "flying"
  /\ p.via # "beacon" => blobs = {}
  /\ IF p.via = "beacon" /\ blobs = {}
     THEN Fail(p.c, p, "empty")
     ELSE /\ Drop({p})
          /\ call' = [call EXCEPT ![p.c].got = @ \o [k \in 1..Len(p.items) |-> Answered(p.items[k], blobs)]]
  /\ UNCHANGED cast

\* The batch or one of its requests fails, or the node has not the method.
Refuse(p, why) ==
  /\ p.st = "flying"
  /\ why = "methodNotFound" => p.via = "witness_client" /\ cast[p.c].node.lacks
  /\ Fail(p.c, p, why)
  /\ UNCHANGED cast

\* RetryBackoffLayer: a request refused for its rate is sent again.
RateLimited(p) ==
  /\ p.st = "flying" /\ p.via # "beacon"
  /\ IF p.tries < max_attempts
     THEN /\ pkt' = (pkt \ {p}) \cup {[p EXCEPT !.st = "backoff", !.tries = @ + 1]}
          /\ permits' = Returned({p})
          /\ UNCHANGED call
     ELSE Fail(p.c, p, "rate")
  /\ UNCHANGED cast

RetryAgain(p) ==
  /\ p.st = "backoff"
  /\ pkt' = (pkt \ {p}) \cup {[p EXCEPT !.st = "waiting"]}
  /\ UNCHANGED <<cast, call, permits>>

\* TimeoutTransport::call: the wait for a permit is part of the time.
Timeout(p) ==
  /\ p.st \in {"waiting", "flying"}
  /\ Fail(p.c, p, "timeout")
  /\ UNCHANGED cast

Finish(c) ==
  /\ Running(c)
  /\ \/ Surfaced(c)
     \/ call[c].todo = <<>> /\ Mine(c) = {} /\ (call[c].stages = <<>> \/ call[c].bad # {})
  /\ call' = [call EXCEPT ![c] =
       IF call[c].bad # {} \/ (cast[c].op = "blobs" /\ ~SourcesFound(cast[c], call[c].got))
       THEN EndWith(c, "error", <<>>)
       ELSE EndWith(c, "ok", Assembled(cast[c], call[c].got))]
  /\ Drop(Mine(c))
  /\ UNCHANGED cast

Next ==
  \/ \E c \in Calls : StartStage(c) \/ Send(c) \/ Finish(c)
  \/ \E p \in pkt : \/ Acquire(p) \/ RateLimited(p) \/ RetryAgain(p) \/ Timeout(p)
                    \/ \E blobs \in SUBSET Blobs : Answer(p, blobs)
                    \/ \E why \in {"error", "methodNotFound"} : Refuse(p, why)

\* The futures are polled and the timers fire; no node has to answer.
Fairness ==
  \A c \in Calls :
    /\ WF_vars(StartStage(c)) /\ WF_vars(Send(c)) /\ WF_vars(Finish(c))
    /\ WF_vars(\E p \in pkt : p.c = c /\ (Timeout(p) \/ RetryAgain(p)))

Spec == Init /\ [][Next]_vars /\ Fairness

----------------------------------------------------------------------------
\* What the i-th answer of a call has to be made of.
Promised(s, i, r) ==
  CASE s.op \in {"block", "header", "l1Header"} -> \A x \in r : x.block = s.blocks[i]
    [] s.op \in {"proofs", "slots"} -> {<<x.block, x.who>> : x \in r} = {<<s.blocks[i] - 1, a>> : a \in ToSet(s.who[i])}
    [] s.op \in {"witnesses", "txLists"} ->
         /\ \E x \in r : x.method \in {"debug", "txDebug", "spot"} /\ x.block = s.blocks[i]
         /\ \A x \in r : IF x.method \in {"debug", "txDebug", "spot"} THEN x.block = s.blocks[i] ELSE x.block = s.blocks[i] - 1
         /\ \/ \E x \in r : x.method = "spot"
            \/ \A a \in ToSet(SystemTargets(s)) : a \in s.node.preimages[s.blocks[i]] \/ \E x \in r : x.who = a
    [] s.op = "blobs" -> r = s.sources[i].hashes
    [] s.op = "event" -> {<<x.method, x.block>> : x \in r} = {<<"inclusion", s.blocks[1]>>, <<"origin", s.blocks[1] - 1>>}

\* A call that succeeds answers for every block asked for, each answer made of
\* what belongs to that block alone and of all of it, whatever order the
\* batches and the futures completed in, what was retried and what fell back
\* (fetch_* in network/*.rs); a call that fails answers nothing.
ResultsLineUp ==
  \A c \in Calls :
    call[c].status = "ok" =>
      /\ Len(call[c].result) = (IF cast[c].op = "blobs" THEN Len(cast[c].sources) ELSE Len(cast[c].blocks))
      /\ \A i \in 1..Len(call[c].result) : Promised(cast[c], i, call[c].result[i])
=============================================================================
