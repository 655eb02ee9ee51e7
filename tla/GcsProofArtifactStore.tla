----------------------- MODULE GcsProofArtifactStore -----------------------
(***************************************************************************)
(* GcsProofArtifactStore: the proof and preflight objects of one           *)
(* namespace in a GCS bucket.  A proof is two objects, a content object    *)
(* named by its hash and the manifest that names the hash; a preflight is  *)
(* one.  A call of the store is several requests to the bucket, each of    *)
(* which may fail, and a failed one may still be carried out later: it     *)
(* stays on the `wire'.                                                    *)
(*                                                                         *)
(* Calls overlap freely, also those that change one proof: publications    *)
(* hold the artifact's lifecycle guard, the deletes that finalize an       *)
(* invalidation do not.  A process that stopped is followed by one that    *)
(* may be told to clean up or to reset the namespace before it starts.     *)
(***************************************************************************)
EXTENDS Naturals, FiniteSets, Sequences

CONSTANTS Keys, Preflights, Bytes, Clients, None, Unavailable,
    Broken,     \* the answer that a manifest's content is missing
    MaxClock,   \* bound: the generations given
    Casts       \* who takes part in a behaviour, see Cast

(* One behaviour has one cast: the names the clients work on, the clients, *)
(* the objects the bucket starts with, and the bounds on the requests on   *)
(* the wire and on the stops of the process.                               *)
Cast == [names : SUBSET (Keys \cup Preflights), clients : SUBSET Clients,
         stock : SUBSET (Keys \cup Preflights), late : Nat, stops : Nat]

ASSUME CastsAssumption == Casts \subseteq Cast
ASSUME NamesAssumption ==
    Keys \cap Preflights = {} /\ IsFiniteSet(Keys) /\ IsFiniteSet(Preflights)
ASSUME AnswersAssumption == None # Unavailable /\ None # Broken /\ Unavailable # Broken

VARIABLES
    object,   \* manifest of a proof key, object of a preflight key: descriptor or None
    content,  \* the content objects: <<proof key, hash>>
    state,    \* the runtime state object: the names whose objects it records, or None
    clock,    \* the generation given last
    wire,     \* requests that failed and may still be carried out
    proc,     \* where each client stands
    phase,    \* "up", or what the start-up still has to sweep
    stops,
    cast

vars == <<object, content, state, clock, wire, proc, phase, stops, cast>>

Store == INSTANCE ProofObjectStore WITH
    current <- object,
    generation <- clock,
    calls <- [c \in Clients |-> IF proc[c].pc = "idle" THEN None
                                ELSE [request |-> proc[c].request, answer |-> proc[c].answer]],
    late <- wire

content_hash(bytes) == Store!content_hash(bytes)

Kinds == {"Created", "AlreadyExists", "Conflict", "Gone", "Stale", "Found"}

Answered == [kind : Kinds, object : Store!Descriptors \cup {None}]

\* The markers are no records.
ASSUME MarkersAssumption ==
    /\ None \notin Store!Descriptors \cup Store!Requests \cup Answered
    /\ None \notin [request : Store!Requests, answer : Answered \cup {None, Unavailable}]
    /\ Unavailable \notin Answered

Names == Keys \cup Preflights

Idle == [pc |-> "idle", request |-> None, answer |-> None]

At(c, pc) == proc[c].pc = pc

Req(c) == proc[c].request

Move(c, pc, answer) ==
    proc' = [proc EXCEPT ![c] = [pc |-> pc, request |-> Req(c), answer |-> answer]]

Goto(c, pc) == Move(c, pc, proc[c].answer)

\* The answer is known; the call goes on at pc.
AnswerAt(c, kind, found, pc) == Move(c, pc, Store!Answer(kind, found))

End(c, answer) == Move(c, "end", answer)

-----------------------------------------------------------------------------
(* The bucket.  A creation asks for generation 0, a deletion for the        *)
(* generation it names.                                                     *)

Create(n, hash) ==
    /\ object[n] = None
    /\ clock < MaxClock
    /\ object' = [object EXCEPT ![n] = [content_hash |-> hash, generation |-> clock + 1]]
    /\ clock' = clock + 1

Matches(n, generation) == object[n] # None /\ object[n].generation = generation

Remove(n) == object' = [object EXCEPT ![n] = None]

\* A request that fails leaves nothing behind, or is still under way.
FailedRequest(c) ==
    \/ wire' = wire
    \/ Cardinality(wire) < cast.late /\ wire' = wire \cup {Req(c)}

-----------------------------------------------------------------------------
(* Calls.  The descriptors that clients hold are ones the store handed out. *)

Known(n) ==
    {d \in [content_hash : Store!Hashes, generation : 1 .. clock] :
        Matches(n, d.generation) => d = object[n]}

Calls ==
    UNION {[op : {"put_if_absent"}, key : {n}, bytes : Bytes, descriptor : {None}]
             \cup [op : {"get", "get_descriptor"}, key : {n}, bytes : {None}, descriptor : {None}]
             \cup [op : {"delete_exact"}, key : {n}, bytes : {None}, descriptor : Known(n)]
           : n \in cast.names}

FirstStep(r) ==
    CASE r.op \in {"get", "get_descriptor"}                -> "get"
      [] r.op = "put_if_absent" /\ r.key \in Keys          -> "put"
      [] r.op = "put_if_absent" /\ r.key \in Preflights    -> "create"
      [] r.op = "delete_exact" /\ r.key \in Keys           -> "delete"
      [] r.op = "delete_exact" /\ r.key \in Preflights     -> "remove"

Begin(c) ==
    /\ phase.at = "up"
    /\ At(c, "idle")
    /\ \E r \in Calls :
          proc' = [proc EXCEPT ![c] = [pc |-> FirstStep(r), request |-> r, answer |-> None]]
    /\ UNCHANGED <<object, content, clock, wire, state, phase, stops, cast>>

Same(c) == object[Req(c).key].content_hash = content_hash(Req(c).bytes)

ContentName(c) == <<Req(c).key, content_hash(Req(c).bytes)>>

\* Mutant: the manifest is published before its content.
ManifestBeforeContent(c) ==
    /\ At(c, "put")
    /\ LET found == object[Req(c).key] IN
       \/ found = None /\ Goto(c, "publish")
       \/ found # None /\ Same(c) /\ Goto(c, "repair")
       \/ found # None /\ ~Same(c) /\ AnswerAt(c, "Conflict", found, "conflict")
    /\ UNCHANGED <<object, content, clock, wire, state, phase, stops, cast>>

\* put_if_absent: a manifest that is there already decides the call.
put_reads_manifest(c) ==
    /\ At(c, "put")
    /\ LET found == object[Req(c).key] IN
       \/ found = None /\ Goto(c, "content")
       \/ found # None /\ Same(c) /\ Goto(c, "repair")
       \/ found # None /\ ~Same(c) /\ AnswerAt(c, "Conflict", found, "conflict")
    /\ UNCHANGED <<object, content, clock, wire, state, phase, stops, cast>>

\* The content of the manifest found is written again, in case it is lost.
put_repairs_content(c) ==
    /\ At(c, "repair")
    /\ content' = content \cup {ContentName(c)}
    /\ Goto(c, "reread")
    /\ UNCHANGED <<object, clock, wire, state, phase, stops, cast>>

\* Content first; one that is there already is read and compared.
put_content(c) ==
    /\ At(c, "content")
    /\ content' = content \cup {ContentName(c)}
    /\ Goto(c, IF ContentName(c) \in content THEN "verify" ELSE "publish")
    /\ UNCHANGED <<object, clock, wire, state, phase, stops, cast>>

put_verifies_content(c) ==
    /\ At(c, "verify")
    /\ IF ContentName(c) \in content THEN Goto(c, "publish") ELSE End(c, Broken)
    /\ UNCHANGED <<object, content, clock, wire, state, phase, stops, cast>>

put_manifest(c) ==
    /\ At(c, "publish")
    /\ \/ /\ Create(Req(c).key, content_hash(Req(c).bytes))
          /\ AnswerAt(c, "Created", object'[Req(c).key], "end")
       \/ /\ object[Req(c).key] # None
          /\ Goto(c, "lost")
          /\ UNCHANGED <<object, clock>>
    /\ UNCHANGED <<content, wire, state, phase, stops, cast>>

\* A creation that came second reads the manifest that came first.
put_lost_race(c) ==
    /\ At(c, "lost")
    /\ LET found == object[Req(c).key] IN
       IF found = None THEN End(c, Unavailable)
       ELSE IF Same(c) THEN Goto(c, "reread")
       ELSE AnswerAt(c, "Conflict", found, "conflict")
    /\ UNCHANGED <<object, content, clock, wire, state, phase, stops, cast>>

\* read_manifest_object: the manifest, then the content it names.
put_reads_again(c) ==
    /\ At(c, "reread")
    /\ LET found == object[Req(c).key] IN
       \/ found = None /\ End(c, Unavailable)
       \/ found # None /\ AnswerAt(c, "AlreadyExists", found, "read")
    /\ UNCHANGED <<object, content, clock, wire, state, phase, stops, cast>>

read_content(c) ==
    /\ At(c, "read")
    /\ IF <<Req(c).key, proc[c].answer.object.content_hash>> \in content
       THEN Goto(c, "end") ELSE End(c, Broken)
    /\ UNCHANGED <<object, content, clock, wire, state, phase, stops, cast>>

\* conflict_result: the object is handed over when it can be read.
conflict_result(c) ==
    /\ At(c, "conflict")
    /\ Goto(c, "end")
    /\ UNCHANGED <<object, content, clock, wire, state, phase, stops, cast>>

get(c) ==
    /\ At(c, "get")
    /\ LET found == object[Req(c).key] IN
       AnswerAt(c, "Found", found,
                IF found # None /\ Req(c).op = "get" /\ Req(c).key \in Keys THEN "read" ELSE "end")
    /\ UNCHANGED <<object, content, clock, wire, state, phase, stops, cast>>

delete_reads_manifest(c) ==
    /\ At(c, "delete")
    /\ LET found == object[Req(c).key] IN
       \/ found = None /\ AnswerAt(c, "Gone", None, "end")
       \/ found = Req(c).descriptor /\ Goto(c, "remove")
       \/ found \notin {None, Req(c).descriptor} /\ AnswerAt(c, "Stale", None, "end")
    /\ UNCHANGED <<object, content, clock, wire, state, phase, stops, cast>>

\* delete_if_generation.  Another generation is a failed precondition, which
\* the call cannot tell from a failed request.
delete_object(c) ==
    /\ At(c, "remove")
    /\ LET n == Req(c).key IN
       \/ object[n] = None /\ AnswerAt(c, "Gone", None, "end") /\ UNCHANGED object
       \/ Matches(n, Req(c).descriptor.generation) /\ Remove(n) /\ AnswerAt(c, "Gone", None, "end")
       \/ /\ object[n] # None
          /\ ~Matches(n, Req(c).descriptor.generation)
          /\ Goto(c, "readback")
          /\ UNCHANGED object
    /\ UNCHANGED <<content, clock, wire, state, phase, stops, cast>>

delete_reads_back(c) ==
    /\ At(c, "readback")
    /\ LET found == object[Req(c).key] IN
       \/ found = None /\ AnswerAt(c, "Gone", None, "end")
       \/ found = Req(c).descriptor /\ End(c, Unavailable)
       \/ found \notin {None, Req(c).descriptor} /\ AnswerAt(c, "Stale", None, "end")
    /\ UNCHANGED <<object, content, clock, wire, state, phase, stops, cast>>

create_preflight(c) ==
    /\ At(c, "create")
    /\ \/ /\ Create(Req(c).key, content_hash(Req(c).bytes))
          /\ AnswerAt(c, "Created", object'[Req(c).key], "end")
       \/ /\ object[Req(c).key] # None
          /\ Goto(c, "observe")
          /\ UNCHANGED <<object, clock>>
    /\ UNCHANGED <<content, wire, state, phase, stops, cast>>

observe_preflight(c) ==
    /\ At(c, "observe")
    /\ LET found == object[Req(c).key] IN
       \/ found = None /\ End(c, Unavailable)
       \/ found # None /\ AnswerAt(c, IF Same(c) THEN "AlreadyExists" ELSE "Conflict", found, "end")
    /\ UNCHANGED <<object, content, clock, wire, state, phase, stops, cast>>

\* A request fails: the deletion looks again, every other call is over.
RequestFails(c) ==
    /\ proc[c].pc \notin {"idle", "end"}
    /\ \/ proc[c].pc = "remove" /\ Goto(c, "readback") /\ FailedRequest(c)
       \/ proc[c].pc \in {"publish", "create"} /\ End(c, Unavailable) /\ FailedRequest(c)
       \/ proc[c].pc \notin {"remove", "publish", "create"} /\ End(c, Unavailable) /\ wire' = wire
    /\ content' \in {content} \cup {content \cup {ContentName(c)} : pc \in {proc[c].pc} \cap {"repair", "content"}}
    /\ UNCHANGED <<object, clock, state, phase, stops, cast>>

Return(c) ==
    /\ At(c, "end")
    /\ proc' = [proc EXCEPT ![c] = Idle]
    /\ UNCHANGED <<object, content, clock, wire, state, phase, stops, cast>>

Land(r) ==
    /\ r \in wire
    /\ wire' = wire \ {r}
    /\ \/ r.op = "put_if_absent" /\ Create(r.key, content_hash(r.bytes))
       \/ r.op = "put_if_absent" /\ object[r.key] # None /\ UNCHANGED <<object, clock>>
       \/ /\ r.op = "delete_exact"
          /\ IF Matches(r.key, r.descriptor.generation) THEN Remove(r.key) ELSE UNCHANGED object
          /\ UNCHANGED clock
    /\ UNCHANGED <<content, state, proc, phase, stops, cast>>

Lose(r) ==
    /\ r \in wire
    /\ wire' = wire \ {r}
    /\ UNCHANGED <<object, content, clock, state, proc, phase, stops, cast>>

-----------------------------------------------------------------------------
(* Stop and start.  A namespace is used by one process at a time, so a      *)
(* clean-up or a reset meets no request of an earlier one.                  *)

Up == [at |-> "up", scope |-> {}, left |-> <<>>]

Down == [at |-> "down", scope |-> {}, left |-> <<>>]

InFlight(c) == proc[c].pc \in {"publish", "create", "remove"}

Stop ==
    /\ stops < cast.stops
    /\ phase.at = "up"
    /\ \E s \in SUBSET {c \in Clients : InFlight(c)} :
          /\ wire' = wire \cup {Req(c) : c \in s}
          /\ Cardinality(wire') <= cast.late
    /\ proc' = [c \in Clients |-> Idle]
    /\ phase' = Down
    /\ stops' = stops + 1
    /\ UNCHANGED <<object, content, clock, state, cast>>

\* ordered_scopes: proofs before preflights, the state before the manifests.
SweepsOf(scope) ==
    IF "proof" \notin scope THEN <<"preflights">>
    ELSE IF "preflight" \notin scope THEN <<"state", "manifests">>
    ELSE <<"state", "manifests", "preflights">>

\* Mutant: the proofs go before the state that records them.
ManifestsFirst == <<"manifests", "state", "everything">>

reset_namespace == <<"state", "manifests", "everything">>

Boot ==
    /\ phase.at = "down"
    /\ \/ phase' = Up
       \/ /\ wire = {}
          /\ \/ phase' = [at |-> "sweep", scope |-> {"reset"}, left |-> reset_namespace]
             \/ \E scope \in (SUBSET {"proof", "preflight"}) \ {{}} :
                   phase' = [at |-> "sweep", scope |-> scope, left |-> SweepsOf(scope)]
    /\ UNCHANGED <<object, content, clock, wire, state, proc, stops, cast>>

Sweeping(what) == phase.at = "sweep" /\ Head(phase.left) = what

\* The objects a sweep selects from the pages it lists.
Selected ==
    CASE Sweeping("manifests")  -> Keys
      [] Sweeping("preflights") -> Preflights
      [] Sweeping("everything") -> Names
      [] OTHER                  -> {}

SweepState ==
    /\ phase.at = "sweep"
    /\ Sweeping("state") \/ Sweeping("everything")
    /\ state # None
    /\ state' = None
    /\ UNCHANGED <<object, content, clock, wire, proc, phase, stops, cast>>

SweepObject(n) ==
    /\ phase.at = "sweep"
    /\ n \in Selected
    /\ object[n] # None
    /\ Remove(n)
    /\ UNCHANGED <<content, clock, wire, state, proc, phase, stops, cast>>

SweepContent(x) ==
    /\ phase.at = "sweep"
    /\ Sweeping("everything")
    /\ x \in content
    /\ content' = content \ {x}
    /\ UNCHANGED <<object, clock, wire, state, proc, phase, stops, cast>>

Swept ==
    /\ phase.at = "sweep"
    /\ Sweeping("state") \/ Sweeping("everything") => state = None
    /\ \A n \in Selected : object[n] = None
    /\ Sweeping("everything") => content = {}
    /\ phase' = IF Len(phase.left) = 1 THEN Up ELSE [phase EXCEPT !.left = Tail(phase.left)]
    /\ UNCHANGED <<object, content, clock, wire, state, proc, stops, cast>>

\* A deletion that fails ends the start-up; the next start begins anew.
SweepFails ==
    /\ phase.at = "sweep"
    /\ stops < cast.stops
    /\ stops' = stops + 1
    /\ phase' = Down
    /\ UNCHANGED <<object, content, clock, wire, state, proc, cast>>

-----------------------------------------------------------------------------
(* A bucket starts empty, or with a recorded proof or preflight per name of *)
(* the cast's stock, of which the runtime state records the proofs.         *)
Init ==
    /\ cast \in Casts
    /\ \E order \in [cast.stock -> 1 .. Cardinality(cast.stock)] :
          /\ \A m, n \in cast.stock : order[m] = order[n] => m = n
          /\ \E bytes \in [cast.stock -> Bytes] :
                /\ object = [n \in Names |->
                      IF n \in cast.stock
                      THEN [content_hash |-> content_hash(bytes[n]), generation |-> order[n]] ELSE None]
                /\ content = {<<k, content_hash(bytes[k])>> : k \in cast.stock \cap Keys}
    /\ clock = Cardinality(cast.stock)
    /\ state = IF cast.stock = {} THEN None ELSE cast.stock \cap Keys
    /\ wire = {}
    /\ proc = [c \in Clients |-> Idle]
    /\ phase = Up
    /\ stops = 0

CallStep(c) ==
    \/ Begin(c)
    \/ put_reads_manifest(c)
    \/ put_repairs_content(c)
    \/ put_content(c)
    \/ put_verifies_content(c)
    \/ put_manifest(c)
    \/ put_lost_race(c)
    \/ put_reads_again(c)
    \/ read_content(c)
    \/ conflict_result(c)
    \/ get(c)
    \/ delete_reads_manifest(c)
    \/ delete_object(c)
    \/ delete_reads_back(c)
    \/ create_preflight(c)
    \/ observe_preflight(c)
    \/ RequestFails(c)
    \/ Return(c)

Next ==
    \/ \E c \in cast.clients : CallStep(c)
    \/ \E r \in wire : Land(r) \/ Lose(r)
    \/ Stop
    \/ Boot
    \/ SweepState
    \/ \E n \in Names : SweepObject(n)
    \/ \E x \in content : SweepContent(x)
    \/ Swept
    \/ SweepFails

Spec == Init /\ [][Next]_vars

-----------------------------------------------------------------------------
\* The calls of the bucket's adapter, several requests each, with failures,
\* late requests and restarts, are the atomic calls the traits promise: what a
\* call answers was true at one moment of it, and no manifest ever names
\* content that is missing (put_if_absent, delete_exact, reset_namespace).
RefinesStore == Store!Spec

\* reset_namespace and cleanup_before_start remove "the authoritative state
\* before proof objects": wherever a start-up was cut short, what the runtime
\* state records can still be read.
RecordedIsReadable ==
    state # None =>
        \A k \in state : object[k] # None /\ <<k, object[k].content_hash>> \in content
=============================================================================
