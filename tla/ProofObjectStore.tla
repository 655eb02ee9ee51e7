-------------------------- MODULE ProofObjectStore --------------------------
(***************************************************************************)
(* What the traits ProofObjectStore and CanonicalPreflightStore promise:   *)
(* one object per key, created if absent, read, and deleted by its exact   *)
(* descriptor, every call taking effect at one moment between its start    *)
(* and its answer.  The effects are those of MemoryProofArtifactStore,     *)
(* which holds one mutex for the whole of a call.  A manifest's content    *)
(* is in the store with it, so it is no state of its own here.             *)
(*                                                                         *)
(* A call may fail, and a failed one may still take effect later: `late'   *)
(* holds the requests whose senders no longer wait for them.               *)
(***************************************************************************)
EXTENDS Naturals, FiniteSets

CONSTANTS
    Keys,         \* ProofArtifactKeys
    Preflights,   \* CanonicalPreflightKeys
    Bytes,        \* proofs and preflights that may be written
    Clients,      \* tasks of the process that call the store
    None,
    Unavailable   \* the answer of a call that failed

VARIABLES
    current,      \* key -> [content_hash, generation], or None
    generation,   \* the generation given last
    calls,        \* client -> [request, answer], or None
    late          \* requests still under way that nobody waits for

vars == <<current, generation, calls, late>>

Names == Keys \cup Preflights

\* A hexadecimal SHA-256, taken to be injective.
content_hash(bytes) == <<"sha256", bytes>>

Hashes == {content_hash(b) : b \in Bytes}

Descriptors == [content_hash : Hashes, generation : Nat \ {0}]

Mutating == {"put_if_absent", "delete_exact"}

Requests ==
    [op : {"put_if_absent"}, key : Names, bytes : Bytes, descriptor : {None}]
      \cup [op : {"get", "get_descriptor"}, key : Names, bytes : {None}, descriptor : {None}]
      \cup [op : {"delete_exact"}, key : Names, bytes : {None}, descriptor : Descriptors]

\* The object a creation makes when it is the g-th object of the store.
Object(r, g) == [content_hash |-> content_hash(r.bytes), generation |-> g]

Creates(r) == r.op = "put_if_absent" /\ current[r.key] = None

Removes(r) == r.op = "delete_exact" /\ current[r.key] = r.descriptor

Effect(r) ==
    /\ current' = IF Creates(r) THEN [current EXCEPT ![r.key] = Object(r, generation + 1)]
                  ELSE IF Removes(r) THEN [current EXCEPT ![r.key] = None]
                  ELSE current
    /\ generation' = IF Creates(r) THEN generation + 1 ELSE generation

Answer(kind, object) == [kind |-> kind, object |-> object]

\* ProofArtifactPutResult.  Of two bytes that differ the first stays, and the
\* answer names it.  AlreadyExists may name it too: a late request may have
\* replaced the object the call compared with before the one it read again.
PutAnswers(r) ==
    LET found == current[r.key] IN
    IF found = None THEN {Answer("Created", Object(r, generation + 1))}
    ELSE {Answer(kind, found) :
             kind \in IF found.content_hash = content_hash(r.bytes) THEN {"AlreadyExists"}
                      ELSE {"AlreadyExists", "Conflict"}}

\* ExactDeleteResult: Removed and Missing both say that nothing is there.
DeleteAnswers(r) ==
    LET found == current[r.key] IN
    {IF found \in {None, r.descriptor} THEN Answer("Gone", None) ELSE Answer("Stale", None)}

Answers(r) ==
    CASE r.op = "put_if_absent" -> PutAnswers(r)
      [] r.op = "delete_exact"  -> DeleteAnswers(r)
      [] OTHER                  -> {Answer("Found", current[r.key])}

-----------------------------------------------------------------------------
Init ==
    /\ current \in [Names -> Descriptors \cup {None}]
    /\ generation \in Nat
    /\ \A n \in Names : current[n] # None => current[n].generation \in 1 .. generation
    /\ calls = [c \in Clients |-> None]
    /\ late = {}

Call(c) ==
    /\ calls[c] = None
    /\ calls'[c] # None
    /\ calls'[c].request \in Requests
    /\ calls' = [calls EXCEPT ![c] = [request |-> calls'[c].request, answer |-> None]]
    /\ UNCHANGED <<current, generation, late>>

Settle(c, answer) ==
    calls' = [calls EXCEPT ![c] = [request |-> calls[c].request, answer |-> answer]]

\* The call takes effect.
Apply(c) ==
    /\ calls[c] # None
    /\ calls[c].answer = None
    /\ Effect(calls[c].request)
    /\ \E a \in Answers(calls[c].request) : Settle(c, a)
    /\ UNCHANGED late

\* A call that fails, having taken effect or not, or being about to.
Fail(c) ==
    /\ calls[c] # None
    /\ Settle(c, Unavailable)
    /\ late' \in {late} \cup
                 {late \cup {calls[c].request} : o \in {calls[c].request.op} \cap Mutating}
    /\ UNCHANGED <<current, generation>>

\* A deletion whose outcome is unknown looks again before it answers.
Straggle(c) ==
    /\ calls[c] # None
    /\ calls[c].answer = None
    /\ calls[c].request.op = "delete_exact"
    /\ late' = late \cup {calls[c].request}
    /\ UNCHANGED <<current, generation, calls>>

Return(c) ==
    /\ calls[c] # None
    /\ calls[c].answer # None
    /\ calls' = [calls EXCEPT ![c] = None]
    /\ UNCHANGED <<current, generation, late>>

Land(r) ==
    /\ r \in late
    /\ Effect(r)
    /\ late' = late \ {r}
    /\ UNCHANGED calls

Lose(r) ==
    /\ r \in late
    /\ late' = late \ {r}
    /\ UNCHANGED <<current, generation, calls>>

\* The process stops.  What it had under way may still arrive.
Stop ==
    /\ calls' = [c \in Clients |-> None]
    /\ \E s \in SUBSET {c \in Clients : calls[c] # None} :
          /\ \A c \in s : calls[c].answer = None /\ calls[c].request.op \in Mutating
          /\ late' = late \cup {calls[c].request : c \in s}
    /\ UNCHANGED <<current, generation>>

\* Clean-up and reset remove objects of a store that no process uses.
Purge(n) ==
    /\ \A c \in Clients : calls[c] = None
    /\ late = {}
    /\ current' = [current EXCEPT ![n] = None]
    /\ UNCHANGED <<generation, calls, late>>

Next ==
    \/ \E c \in Clients :
          \/ Call(c)
          \/ Apply(c)
          \/ Fail(c)
          \/ Straggle(c)
          \/ Return(c)
    \/ \E r \in late : Land(r) \/ Lose(r)
    \/ Stop
    \/ \E n \in Names : Purge(n)

Spec == Init /\ [][Next]_vars
=============================================================================
