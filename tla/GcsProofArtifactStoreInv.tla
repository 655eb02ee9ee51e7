--------------------- MODULE GcsProofArtifactStoreInv ----------------------
(***************************************************************************)
(* What holds of the GCS adapter at every moment, for any keys, clients    *)
(* and contents, any number of failures, late requests and restarts.       *)
(*                                                                         *)
(* The inductive invariant says what each point of a call has established: *)
(* a call that publishes a manifest has its content in the bucket, a late  *)
(* creation too, and a descriptor that a deletion names is of the object   *)
(* that is there whenever the generations agree.                           *)
(***************************************************************************)
EXTENDS GcsProofArtifactStore, FiniteSetTheorems, TLAPS

PutSteps == {"put", "repair", "content", "verify", "publish", "lost", "reread"}

DeleteSteps == {"delete", "remove", "readback"}

Steps == PutSteps \cup DeleteSteps
           \cup {"idle", "create", "observe", "get", "read", "conflict", "end"}

TypeInv ==
    /\ object \in [Names -> Store!Descriptors \cup {None}]
    /\ content \subseteq Keys \X Store!Hashes
    /\ clock \in Nat
    /\ wire \subseteq Store!Requests
    /\ proc \in [Clients -> [pc : Steps, request : Store!Requests \cup {None},
                             answer : Answered \cup {None, Unavailable}]]
    /\ cast \in Cast

\* What a client at p is doing.
Shape(p) ==
    /\ p.pc = "idle" => p = Idle
    /\ p.pc # "idle" => p.request \in Store!Requests
    /\ p.pc \in PutSteps => p.request.op = "put_if_absent" /\ p.request.key \in Keys /\ p.answer = None
    /\ p.pc \in {"create", "observe"} =>
          p.request.op = "put_if_absent" /\ p.request.key \in Preflights /\ p.answer = None
    /\ p.pc = "get" => p.request.op \in {"get", "get_descriptor"} /\ p.answer = None
    /\ p.pc \in DeleteSteps => p.request.op = "delete_exact" /\ p.answer = None
    /\ p.pc \in {"read", "conflict"} => p.request.key \in Keys /\ p.answer \in Answered
    /\ p.pc = "end" => p.answer \in Answered \cup {Unavailable}

ShapeInv == \A c \in Clients : Shape(proc[c])

\* Generations are given once, and every manifest's content is there.
ObjectInv ==
    \A n \in Names : object[n] # None =>
        /\ object[n].generation <= clock
        /\ n \in Keys => <<n, object[n].content_hash>> \in content

\* A request that may still be carried out.
Ready(r) ==
    /\ r.op \in Store!Mutating
    /\ r.op = "put_if_absent" /\ r.key \in Keys => <<r.key, content_hash(r.bytes)>> \in content
    /\ r.op = "delete_exact" =>
          /\ r.descriptor.generation <= clock
          /\ Matches(r.key, r.descriptor.generation) => r.descriptor = object[r.key]

WireInv == \A r \in wire : Ready(r)

\* What a client at p has made sure of.
Sure(p) ==
    /\ p.pc \in DeleteSteps \cup {"verify", "publish", "create"} => Ready(p.request)
    /\ p.pc = "read" => /\ p.answer.object \in Store!Descriptors
                        /\ <<p.request.key, p.answer.object.content_hash>> \in content

CallInv == \A c \in Clients : Sure(proc[c])

\* What a start-up may still have to sweep.
Plans ==
    {<<"state", "manifests", "everything">>, <<"manifests", "everything">>, <<"everything">>,
     <<"state", "manifests">>, <<"manifests">>, <<"preflights">>,
     <<"state", "manifests", "preflights">>, <<"manifests", "preflights">>}

\* Contents are swept once no manifest names one.
PhaseInv ==
    /\ phase.at \in {"up", "down", "sweep"}
    /\ phase.at # "up" => \A c \in Clients : At(c, "idle")
    /\ phase.at = "sweep" =>
          /\ wire = {}
          /\ phase.left \in Plans
          /\ phase = [at |-> "sweep", scope |-> phase.scope, left |-> phase.left]
          /\ Head(phase.left) = "everything" => \A k \in Keys : object[k] = None

IInv == TypeInv /\ ShapeInv /\ ObjectInv /\ WireInv /\ CallInv /\ PhaseInv

-----------------------------------------------------------------------------
\* The steps of a call that only read the bucket.
ReadStep(c) ==
    \/ put_reads_manifest(c)
    \/ put_verifies_content(c)
    \/ put_lost_race(c)
    \/ put_reads_again(c)
    \/ read_content(c)
    \/ conflict_result(c)
    \/ get(c)
    \/ delete_reads_manifest(c)
    \/ delete_reads_back(c)
    \/ observe_preflight(c)

\* A call of Begin is a request of the store.
LEMMA CallsAreRequests ==
    ASSUME TypeInv, NEW r \in Calls
    PROVE  r \in Store!Requests /\ (r.op = "delete_exact" => Ready(r))
<1>1. PICK n \in cast.names :
         r \in [op : {"put_if_absent"}, key : {n}, bytes : Bytes, descriptor : {None}]
               \cup [op : {"get", "get_descriptor"}, key : {n}, bytes : {None}, descriptor : {None}]
               \cup [op : {"delete_exact"}, key : {n}, bytes : {None}, descriptor : Known(n)]
  BY DEF Calls
<1>2. n \in Names
  BY DEF TypeInv, Cast, Names
<1>3. Known(n) \subseteq Store!Descriptors
  BY DEF Known, Store!Descriptors, TypeInv
<1>4. r \in Store!Requests
  BY <1>1, <1>2, <1>3 DEF Store!Requests, Store!Names, Names
<1>5. ASSUME r.op = "delete_exact" PROVE Ready(r)
  <2>1. r.key = n /\ r.descriptor \in Known(n)
    BY <1>1, <1>5
  <2>2. r.descriptor.generation <= clock
    BY <2>1 DEF Known, TypeInv
  <2>3. Matches(n, r.descriptor.generation) => r.descriptor = object[n]
    BY <2>1 DEF Known
  <2> QED BY <1>5, <2>1, <2>2, <2>3 DEF Ready, Store!Mutating
<1> QED BY <1>4, <1>5

\* The bucket starts with the objects of the stock and their contents.
LEMMA InitInv == Init => IInv
<1> SUFFICES ASSUME Init PROVE IInv
  OBVIOUS
<1> USE DEF Init
<1>1. cast \in Cast
  BY CastsAssumption
<1>2. IsFiniteSet(cast.stock) /\ Cardinality(cast.stock) \in Nat
  BY <1>1, NamesAssumption, FS_Union, FS_Subset, FS_CardinalityType, Zenon DEF Cast
<1>3. PICK order \in [cast.stock -> 1 .. Cardinality(cast.stock)], bytes \in [cast.stock -> Bytes] :
         /\ object = [n \in Names |->
               IF n \in cast.stock
               THEN [content_hash |-> content_hash(bytes[n]), generation |-> order[n]] ELSE None]
         /\ content = {<<k, content_hash(bytes[k])>> : k \in cast.stock \cap Keys}
  OBVIOUS
<1>4. \A n \in cast.stock : content_hash(bytes[n]) \in Store!Hashes
  BY <1>3 DEF content_hash, Store!Hashes
<1>5. TypeInv
  <2>1. object \in [Names -> Store!Descriptors \cup {None}]
    BY <1>2, <1>3, <1>4 DEF Store!Descriptors
  <2>2. content \subseteq Keys \X Store!Hashes
    BY <1>3, <1>4
  <2>3. proc \in [Clients -> [pc : Steps, request : Store!Requests \cup {None},
                              answer : Answered \cup {None, Unavailable}]]
    BY DEF Idle, Steps
  <2> QED BY <1>1, <1>2, <2>1, <2>2, <2>3 DEF TypeInv
<1>6. ObjectInv
  BY <1>2, <1>3 DEF ObjectInv
<1>7. ShapeInv /\ WireInv /\ CallInv /\ PhaseInv
  BY DEF ShapeInv, Shape, Idle, WireInv, CallInv, Sure, PhaseInv, At, Up, PutSteps, DeleteSteps
<1> QED BY <1>5, <1>6, <1>7 DEF IInv

Procs == [pc : Steps, request : Store!Requests \cup {None}, answer : Answered \cup {None, Unavailable}]

\* What one request does to the object of n.
BucketStep(n) ==
    \/ UNCHANGED <<object, clock>>
    \/ \E h \in Store!Hashes :
          /\ n \in Keys => <<n, h>> \in content
          /\ Create(n, h)
    \/ Remove(n) /\ UNCHANGED clock

\* A request keeps the manifests complete, and every other request ready.
LEMMA BucketInv ==
    ASSUME IInv, NEW n \in Names, BucketStep(n), content \subseteq content'
    PROVE  /\ object' \in [Names -> Store!Descriptors \cup {None}]
           /\ clock' \in Nat
           /\ ObjectInv'
           /\ \A r \in Store!Requests : Ready(r) => Ready(r)'
<1>0. TypeInv /\ ObjectInv
  BY DEF IInv
<1>1. CASE UNCHANGED <<object, clock>>
  BY <1>0, <1>1 DEF TypeInv, ObjectInv, Ready, Matches
<1>2. CASE Remove(n) /\ UNCHANGED clock
  <2>1. object' \in [Names -> Store!Descriptors \cup {None}] /\ clock' \in Nat
    BY <1>0, <1>2 DEF TypeInv, Remove
  <2>2. ObjectInv'
    BY <1>0, <1>2 DEF TypeInv, ObjectInv, Remove
  <2>3. \A m \in Names, g \in Nat : Matches(m, g)' => Matches(m, g) /\ object'[m] = object[m]
    BY <1>0, <1>2 DEF TypeInv, Remove, Matches
  <2>4. ASSUME NEW r \in Store!Requests, Ready(r) PROVE Ready(r)'
    <3>1. r.key \in Names
      BY DEF Store!Requests, Store!Names, Names
    <3>2. r.op = "delete_exact" => r.descriptor \in Store!Descriptors /\ r.descriptor.generation \in Nat
      BY DEF Store!Requests, Store!Descriptors
    <3> QED BY <1>2, <2>3, <2>4, <3>1, <3>2 DEF Ready
  <2> QED BY <2>1, <2>2, <2>4
<1>3. ASSUME NEW h \in Store!Hashes, n \in Keys => <<n, h>> \in content, Create(n, h)
      PROVE  /\ object' \in [Names -> Store!Descriptors \cup {None}]
             /\ clock' \in Nat
             /\ ObjectInv'
             /\ \A r \in Store!Requests : Ready(r) => Ready(r)'
  <2>0. /\ clock \in Nat /\ clock' = clock + 1
        /\ object' = [object EXCEPT ![n] = [content_hash |-> h, generation |-> clock + 1]]
    BY <1>0, <1>3 DEF TypeInv, Create
  <2>1. [content_hash |-> h, generation |-> clock + 1] \in Store!Descriptors
    BY <1>3, <2>0 DEF Store!Descriptors
  <2>2. object' \in [Names -> Store!Descriptors \cup {None}] /\ clock' \in Nat
    BY <1>0, <2>0, <2>1 DEF TypeInv
  <2>3. ObjectInv'
    <3> SUFFICES ASSUME NEW m \in Names, object'[m] # None
                 PROVE  /\ object'[m].generation <= clock'
                        /\ m \in Keys => <<m, object'[m].content_hash>> \in content'
      BY DEF ObjectInv
    <3>1. CASE m = n
      BY <1>0, <1>3, <2>0, <3>1 DEF TypeInv
    <3>2. CASE m # n
      <4>1. object'[m] = object[m] /\ object[m] \in Store!Descriptors
        BY <1>0, <2>0, <3>2 DEF TypeInv
      <4> QED BY <1>0, <2>0, <4>1 DEF ObjectInv, Store!Descriptors
    <3> QED BY <3>1, <3>2
  <2>4. ASSUME NEW r \in Store!Requests, Ready(r) PROVE Ready(r)'
    <3>1. r.key \in Names
      BY DEF Store!Requests, Store!Names, Names
    <3>2. r.op = "delete_exact" => r.descriptor \in Store!Descriptors /\ r.descriptor.generation \in Nat
      BY DEF Store!Requests, Store!Descriptors
    <3>3. r.op = "delete_exact" /\ Matches(r.key, r.descriptor.generation)' => r.key # n
      BY <1>0, <2>0, <2>4, <3>1, <3>2 DEF Ready, Matches, TypeInv
    <3>4. r.key # n => object'[r.key] = object[r.key]
      BY <1>0, <2>0, <3>1 DEF TypeInv
    <3> QED BY <2>0, <2>4, <3>2, <3>3, <3>4 DEF Ready, Matches
  <2> QED BY <2>2, <2>3, <2>4
<1> QED BY <1>1, <1>2, <1>3, Zenon DEF BucketStep

\* A step of one client, whose call goes on as q.
LEMMA MoveInv ==
    ASSUME IInv, NEW c \in Clients, NEW q \in Procs, NEW n \in Names,
           phase.at = "up", Shape(q), Sure(q)',
           proc' = [proc EXCEPT ![c] = q],
           BucketStep(n),
           content \subseteq content', content' \subseteq Keys \X Store!Hashes,
           \A r \in wire' : r \in wire \/ (r \in Store!Requests /\ Ready(r)),
           UNCHANGED <<phase, cast>>
    PROVE  IInv'
<1>0. /\ object' \in [Names -> Store!Descriptors \cup {None}]
      /\ clock' \in Nat
      /\ ObjectInv'
      /\ \A r \in Store!Requests : Ready(r) => Ready(r)'
  BY BucketInv
<1>1. TypeInv'
  BY <1>0 DEF IInv, TypeInv, Procs
<1>2. ShapeInv'
  BY DEF IInv, TypeInv, ShapeInv, Shape
<1>3. WireInv'
  BY <1>0 DEF IInv, TypeInv, WireInv
<1>4. CallInv'
  <2> SUFFICES ASSUME NEW d \in Clients PROVE Sure(proc[d])'
    BY DEF CallInv
  <2>1. CASE d = c
    BY <2>1 DEF IInv, TypeInv
  <2>2. CASE d # c
    <3>1. proc'[d] = proc[d] /\ Sure(proc[d]) /\ Shape(proc[d])
      BY <2>2 DEF IInv, TypeInv, CallInv, ShapeInv
    <3>2. proc[d].pc \in DeleteSteps \cup {"verify", "publish", "create"} => proc[d].request \in Store!Requests
      BY <3>1 DEF Shape, DeleteSteps
    <3> QED BY <1>0, <3>1, <3>2 DEF Sure
  <2> QED BY <2>1, <2>2
<1>5. PhaseInv'
  BY DEF IInv, PhaseInv
<1> QED BY <1>0, <1>1, <1>2, <1>3, <1>4, <1>5 DEF IInv

\* A client that is not idle runs in a process that is up.
LEMMA ActiveIsUp ==
    ASSUME IInv, NEW c \in Clients, proc[c].pc # "idle"
    PROVE  /\ phase.at = "up"
           /\ Req(c) \in Store!Requests
           /\ Req(c).key \in Names
           /\ proc[c] \in Procs
           /\ Shape(proc[c])
           /\ Sure(proc[c])
<1>1. phase.at = "up"
  BY DEF IInv, PhaseInv, At
<1>2. proc[c] \in Procs /\ Shape(proc[c]) /\ Sure(proc[c])
  BY DEF IInv, TypeInv, ShapeInv, CallInv, Procs
<1>3. Req(c) \in Store!Requests
  BY <1>2 DEF Shape, Req
<1>4. Req(c).key \in Names
  BY <1>3 DEF Store!Requests, Store!Names, Names
<1> QED BY <1>1, <1>2, <1>3, <1>4

\* What a call at pc has been asked and answered, and what it has made sure of.
Asked(pc, r, a) ==
    \/ pc = "end" /\ a \in Answered \cup {Unavailable}
    \/ pc \in PutSteps /\ r.op = "put_if_absent" /\ r.key \in Keys /\ a = None
    \/ pc = "observe" /\ r.op = "put_if_absent" /\ r.key \in Preflights /\ a = None
    \/ pc \in DeleteSteps /\ r.op = "delete_exact" /\ a = None
    \/ pc \in {"read", "conflict"} /\ r.key \in Keys /\ a \in Answered

Backed(pc, r, a) ==
    /\ pc \in DeleteSteps \cup {"verify", "publish"} => Ready(r)
    /\ pc = "read" => /\ a.object \in Store!Descriptors
                      /\ <<r.key, a.object.content_hash>> \in content

Called(pc, r, a) == [pc |-> pc, request |-> r, answer |-> a]

LEMMA AskedShape ==
    ASSUME NEW CONSTANT pc, NEW CONSTANT r \in Store!Requests, NEW CONSTANT a, Asked(pc, r, a)
    PROVE  Called(pc, r, a) \in Procs /\ Shape(Called(pc, r, a)) /\ pc \in Steps \ {"idle", "create", "get"}
<1>1. pc \in Steps \ {"idle", "create", "get"} /\ a \in Answered \cup {None, Unavailable}
  BY DEF Asked, Steps, PutSteps, DeleteSteps
<1>2. Called(pc, r, a) \in Procs
  BY <1>1 DEF Called, Procs
<1>3. Shape([pc |-> pc, request |-> r, answer |-> a])
  BY <1>1 DEF Asked, Shape, PutSteps, DeleteSteps
<1> QED BY <1>1, <1>2, <1>3 DEF Called

\* A step after which the call of c stands at pc, with what that takes.
LEMMA AskedInv ==
    ASSUME IInv, NEW c \in Clients, proc[c].pc # "idle", NEW pc, NEW a, Move(c, pc, a),
           Asked(pc, Req(c), a),
           NEW CONSTANT r, r = Req(c), Backed(pc, r, a)',
           BucketStep(Req(c).key),
           content \subseteq content', content' \subseteq Keys \X Store!Hashes,
           \A x \in wire' : x \in wire \/ (x \in Store!Requests /\ Ready(x)),
           UNCHANGED <<phase, cast>>
    PROVE  IInv'
<1>1. phase.at = "up" /\ r \in Store!Requests /\ r.key \in Names
  BY ActiveIsUp
<1>2. Called(pc, r, a) \in Procs /\ Shape(Called(pc, r, a)) /\ pc \in Steps \ {"idle", "create", "get"}
  BY <1>1, AskedShape
<1>3. PICK q \in Procs : q = Called(pc, r, a)
  BY <1>2
<1>4. Sure(q)'
  BY <1>2, <1>3 DEF Sure, Backed, Called
<1>5. proc' = [proc EXCEPT ![c] = q]
  BY <1>3 DEF Move, Called
<1> QED BY <1>1, <1>2, <1>3, <1>4, <1>5, MoveInv, Zenon

\* What a call under way has been asked, by where it stands.
LEMMA Standing ==
    ASSUME IInv, NEW c \in Clients, proc[c].pc # "idle"
    PROVE  /\ proc[c].pc \in PutSteps =>
                 Req(c).op = "put_if_absent" /\ Req(c).key \in Keys /\ proc[c].answer = None
           /\ proc[c].pc \in {"create", "observe"} =>
                 Req(c).op = "put_if_absent" /\ Req(c).key \in Preflights /\ proc[c].answer = None
           /\ proc[c].pc \in DeleteSteps => Req(c).op = "delete_exact" /\ proc[c].answer = None
           /\ proc[c].pc \in DeleteSteps \cup {"verify", "publish", "create"} => Ready(Req(c))
           /\ proc[c].pc \in {"read", "conflict"} => Req(c).key \in Keys /\ proc[c].answer \in Answered
           /\ proc[c].pc = "read" => <<Req(c).key, proc[c].answer.object.content_hash>> \in content
<1>1. Shape(proc[c]) /\ Sure(proc[c])
  BY ActiveIsUp
<1>2. \A x \in {"create", "observe", "read", "conflict"} : x \notin PutSteps
  BY DEF PutSteps
<1> QED BY <1>1 DEF Shape, Sure, Req

LEMMA ReadStepInv ==
    ASSUME IInv, NEW c \in Clients, ReadStep(c)
    PROVE  IInv'
<1> DEFINE p == proc[c]
           found == object[Req(c).key]
           Ok(pc, a) == Asked(pc, Req(c), a) /\ Backed(pc, Req(c), a)
<1>0. p.pc # "idle"
  BY DEF ReadStep, put_reads_manifest, put_verifies_content, put_lost_race, put_reads_again,
         read_content, conflict_result, get, delete_reads_manifest, delete_reads_back,
         observe_preflight, At
<1>1. /\ phase.at = "up" /\ Req(c) \in Store!Requests /\ Req(c).key \in Names
  BY <1>0, ActiveIsUp
<1>2. /\ found \in Store!Descriptors \cup {None}
      /\ found # None /\ Req(c).key \in Keys => <<Req(c).key, found.content_hash>> \in content
  BY <1>1 DEF IInv, TypeInv, ObjectInv
<1>3. UNCHANGED <<object, content, clock, wire, phase, cast>>
  BY DEF ReadStep, put_reads_manifest, put_verifies_content, put_lost_race, put_reads_again,
         read_content, conflict_result, get, delete_reads_manifest, delete_reads_back,
         observe_preflight
<1>4. \E pc, a : Move(c, pc, a) /\ Ok(pc, a)
  <2>1. \A kind \in Kinds : /\ Store!Answer(kind, None) \in Answered
                            /\ Store!Answer(kind, found) \in Answered
                            /\ Store!Answer(kind, found).object = found
    BY <1>2 DEF Store!Answer, Answered
  <2>2. \A kind \in {"AlreadyExists", "Found", "Conflict", "Gone", "Stale"} : kind \in Kinds
    BY DEF Kinds
  <2>3. \A a \in Answered \cup {Unavailable} : Ok("end", a)
    BY DEF Asked, Backed, DeleteSteps
  <2>0. /\ p.pc \in PutSteps => Req(c).op = "put_if_absent" /\ Req(c).key \in Keys /\ p.answer = None
        /\ p.pc \in DeleteSteps => Req(c).op = "delete_exact" /\ p.answer = None
        /\ p.pc \in DeleteSteps \cup {"verify"} => Ready(Req(c))
        /\ p.pc \in {"read", "conflict"} => p.answer \in Answered
        /\ p.pc = "read" => <<Req(c).key, p.answer.object.content_hash>> \in content
    BY <1>0, Standing, Zenon
  <2>4. /\ p.pc \in PutSteps => \A pc \in {"content", "repair", "reread"} : Ok(pc, None)
        /\ p.pc = "verify" => Ok("publish", None)
    BY <2>0 DEF Asked, Backed, PutSteps, DeleteSteps
  <2>5. p.pc = "delete" => Ok("remove", None)
    BY <2>0 DEF Asked, Backed, DeleteSteps
  <2>6. found # None /\ Req(c).key \in Keys =>
           /\ Ok("conflict", Store!Answer("Conflict", found))
           /\ \A kind \in {"AlreadyExists", "Found"} : Ok("read", Store!Answer(kind, found))
    BY <1>2, <2>1, <2>2 DEF Asked, Backed, DeleteSteps
  <2>7. p.pc = "verify" => ContentName(c) \in content
    BY <2>0 DEF Ready, ContentName, PutSteps
  <2> HIDE DEF Ok
  <2> USE DEF At, Goto, AnswerAt, End
  <2>8. CASE put_reads_manifest(c)
    BY <2>0, <2>4, <2>6, <2>8 DEF put_reads_manifest, PutSteps
  <2>9. CASE put_verifies_content(c)
    BY <2>0, <2>4, <2>7, <2>9 DEF put_verifies_content, PutSteps
  <2>10. CASE put_lost_race(c)
    BY <2>0, <2>3, <2>4, <2>6, <2>10 DEF put_lost_race, PutSteps
  <2>11. CASE put_reads_again(c)
    BY <2>0, <2>3, <2>6, <2>11 DEF put_reads_again, PutSteps
  <2>12. CASE read_content(c)
    BY <2>0, <2>3, <2>12 DEF read_content
  <2>13. CASE conflict_result(c)
    BY <2>0, <2>3, <2>13 DEF conflict_result
  <2>14. CASE get(c)
    BY <2>1, <2>2, <2>3, <2>6, <2>14 DEF get
  <2>15. CASE delete_reads_manifest(c)
    BY <2>0, <2>1, <2>2, <2>3, <2>5, <2>15 DEF delete_reads_manifest, DeleteSteps
  <2>16. CASE delete_reads_back(c)
    BY <2>1, <2>2, <2>3, <2>16 DEF delete_reads_back
  <2>17. CASE observe_preflight(c)
    BY <2>1, <2>2, <2>3, <2>17 DEF observe_preflight
  <2> QED BY <2>8, <2>9, <2>10, <2>11, <2>12, <2>13, <2>14, <2>15, <2>16, <2>17 DEF ReadStep
<1>5. PICK pc, a : Move(c, pc, a) /\ Asked(pc, Req(c), a) /\ Backed(pc, Req(c), a)
  BY <1>4
<1>6. PICK r : r = Req(c)
  OBVIOUS
<1>7. Backed(pc, r, a)'
  BY <1>3, <1>5, <1>6 DEF Backed, Ready, Matches
<1>8. content' \subseteq Keys \X Store!Hashes /\ BucketStep(Req(c).key)
  BY <1>3 DEF IInv, TypeInv, BucketStep
<1> QED BY <1>0, <1>3, <1>5, <1>6, <1>7, <1>8, AskedInv

\* The steps of a call that write to the bucket, and its start and its end.
WriteStep(c) ==
    \/ put_repairs_content(c)
    \/ put_content(c)
    \/ put_manifest(c)
    \/ delete_object(c)
    \/ create_preflight(c)
    \/ RequestFails(c)
    \/ Return(c)

LEMMA WriteStepInv ==
    ASSUME IInv, NEW c \in Clients, WriteStep(c)
    PROVE  IInv'
<1> DEFINE p == proc[c]
           n == Req(c).key
           h == content_hash(Req(c).bytes)
<1>0. p.pc # "idle"
  BY DEF WriteStep, put_repairs_content, put_content, put_manifest, delete_object,
         create_preflight, RequestFails, Return, At
<1>1. /\ phase.at = "up" /\ Req(c) \in Store!Requests /\ n \in Names
      /\ p \in Procs /\ Shape(p) /\ Sure(p)
  BY <1>0, ActiveIsUp
<1>2. /\ proc \in [Clients -> Procs]
      /\ object \in [Names -> Store!Descriptors \cup {None}]
      /\ content \subseteq Keys \X Store!Hashes
  BY DEF IInv, TypeInv, Procs
<1>3. Req(c).op = "put_if_absent" => h \in Store!Hashes
  BY <1>1 DEF Store!Requests, Store!Hashes, content_hash
<1>4. UNCHANGED <<phase, cast>>
  BY DEF WriteStep, put_repairs_content, put_content, put_manifest, delete_object,
         create_preflight, RequestFails, Return
<1>5. BucketStep(n)
  <2>1. CASE put_manifest(c)
    BY <1>1, <1>3, <2>1, Zenon DEF put_manifest, BucketStep, Shape, Sure, Ready, At, PutSteps, Req
  <2>2. CASE create_preflight(c)
    BY <1>1, <1>3, <2>2, NamesAssumption, Zenon DEF create_preflight, BucketStep, Shape, At, Req
  <2>3. CASE delete_object(c)
    BY <2>3, Zenon DEF delete_object, BucketStep
  <2>4. CASE put_repairs_content(c) \/ put_content(c) \/ RequestFails(c) \/ Return(c)
    BY <2>4 DEF put_repairs_content, put_content, RequestFails, Return, BucketStep
  <2> QED BY <2>1, <2>2, <2>3, <2>4 DEF WriteStep
<1>6. /\ content \subseteq content'
      /\ content' \subseteq Keys \X Store!Hashes
  <2>1. p.pc \in {"repair", "content"} => ContentName(c) \in Keys \X Store!Hashes
    BY <1>1, <1>3 DEF Shape, PutSteps, ContentName, Req
  <2>2. CASE put_repairs_content(c) \/ put_content(c)
    BY <1>2, <2>1, <2>2 DEF put_repairs_content, put_content, At
  <2>3. CASE RequestFails(c)
    <3>1. content' = content \/ (p.pc \in {"repair", "content"} /\ content' = content \cup {ContentName(c)})
      BY <2>3 DEF RequestFails
    <3> QED BY <1>2, <2>1, <3>1
  <2>4. CASE put_manifest(c) \/ delete_object(c) \/ create_preflight(c) \/ Return(c)
    BY <1>2, <2>4 DEF put_manifest, delete_object, create_preflight, Return, put_content, At
  <2> QED BY <2>2, <2>3, <2>4 DEF WriteStep
<1>7. \A r \in wire' : r \in wire \/ (r \in Store!Requests /\ Ready(r))
  <2>1. CASE RequestFails(c)
    <3>1. wire' = wire \/ (p.pc \in {"remove", "publish", "create"} /\ wire' = wire \cup {Req(c)})
      BY <2>1 DEF RequestFails, FailedRequest
    <3> QED BY <1>1, <3>1 DEF Sure, DeleteSteps, Req
  <2>2. CASE ~RequestFails(c)
    BY <2>2 DEF WriteStep, put_repairs_content, put_content, put_manifest, delete_object,
                create_preflight, Return
  <2> QED BY <2>1, <2>2
<1>8. PICK r \in Store!Requests : r = Req(c) /\ (Ready(r) => Ready(r)')
  BY <1>1, <1>5, <1>6, BucketInv
<1>9. CASE Return(c)
  <2>0. Idle \in Procs
    BY DEF Idle, Procs, Steps
  <2>1. PICK q \in Procs : q = Idle
    BY <2>0
  <2>2. Shape(q) /\ Sure(q)'
    BY <2>1 DEF Idle, Shape, Sure, PutSteps, DeleteSteps
  <2>3. proc' = [proc EXCEPT ![c] = q]
    BY <1>9, <2>1 DEF Return
  <2> QED BY <1>1, <1>4, <1>5, <1>6, <1>7, <2>2, <2>3, MoveInv, Zenon
<1>10. ASSUME ~Return(c) PROVE \E pc, a : Move(c, pc, a) /\ Asked(pc, r, a) /\ Backed(pc, r, a)'
  <2> DEFINE Ok(pc, a) == Asked(pc, r, a) /\ Backed(pc, r, a)'
  <2> SUFFICES \E pc, a : Move(c, pc, a) /\ Ok(pc, a)
    OBVIOUS
  <2>1. \A a \in Answered \cup {Unavailable} : Ok("end", a)
    BY DEF Asked, Backed, DeleteSteps
  <2>0. /\ p.pc \in PutSteps => r.op = "put_if_absent" /\ r.key \in Keys /\ p.answer = None
        /\ p.pc = "create" => r.op = "put_if_absent" /\ r.key \in Preflights /\ p.answer = None
        /\ p.pc \in DeleteSteps => r.op = "delete_exact" /\ p.answer = None /\ Ready(r)'
    BY <1>0, <1>8, Standing, Zenon
  <2>2. /\ p.pc \in PutSteps => Ok("reread", None) /\ Ok("lost", None)
        /\ p.pc = "create" => Ok("observe", None)
    BY <2>0 DEF Asked, Backed, PutSteps, DeleteSteps
  <2>3. p.pc \in PutSteps /\ Ready(r)' => Ok("verify", None) /\ Ok("publish", None)
    BY <2>0 DEF Asked, Backed, PutSteps
  <2>4. p.pc = "remove" => Ok("readback", None)
    BY <2>0 DEF Asked, Backed, DeleteSteps
  <2>5. /\ p.pc \in PutSteps \cup DeleteSteps \cup {"create"} => p.answer = None
        /\ p.pc \in PutSteps \cup {"create"} => r.op = "put_if_absent"
    BY <2>0
  <2>6. \A x \in {"repair", "content", "publish"} : x \in PutSteps
    BY DEF PutSteps
  <2>7. "remove" \in DeleteSteps
    BY DEF DeleteSteps
  <2> HIDE DEF Ok
  <2> USE DEF At, Goto, AnswerAt, End
  <2>8. CASE put_repairs_content(c)
    BY <2>2, <2>5, <2>6, <2>8 DEF put_repairs_content
  <2>9. CASE put_content(c)
    <3>1. Ready(r)'
      BY <1>8, <2>5, <2>6, <2>9 DEF put_content, Ready, ContentName, Store!Mutating
    <3> QED BY <2>3, <2>5, <2>6, <2>9, <3>1 DEF put_content
  <2>10. CASE put_manifest(c) \/ create_preflight(c)
    <3>1. CASE Create(n, h) /\ AnswerAt(c, "Created", object'[n], "end")
      <4>1. object'[n] \in Store!Descriptors
        <5>1. r.op = "put_if_absent" /\ h \in Store!Hashes
          BY <1>3, <1>8, <2>5, <2>6, <2>10 DEF put_manifest, create_preflight
        <5>2. clock \in Nat
          BY DEF IInv, TypeInv
        <5> QED BY <1>1, <1>2, <3>1, <5>1, <5>2 DEF Create, Store!Descriptors
      <4>2. Store!Answer("Created", object'[n]) \in Answered
        BY <4>1 DEF Store!Answer, Answered, Kinds
      <4> QED BY <2>1, <3>1, <4>2
    <3>2. CASE put_manifest(c) /\ Goto(c, "lost")
      BY <2>2, <2>5, <2>6, <3>2 DEF put_manifest
    <3>3. CASE create_preflight(c) /\ Goto(c, "observe")
      BY <2>2, <2>5, <3>3 DEF create_preflight
    <3> QED BY <2>10, <3>1, <3>2, <3>3 DEF put_manifest, create_preflight
  <2>11. CASE delete_object(c)
    <3>1. Store!Answer("Gone", None) \in Answered
      BY DEF Store!Answer, Answered, Kinds
    <3> QED BY <2>1, <2>4, <2>5, <2>7, <2>11, <3>1 DEF delete_object
  <2>12. CASE RequestFails(c)
    BY <2>1, <2>4, <2>5, <2>7, <2>12 DEF RequestFails
  <2> QED BY <1>10, <2>8, <2>9, <2>10, <2>11, <2>12 DEF WriteStep
<1>11. CASE ~Return(c)
  <2>1. PICK pc, a : Move(c, pc, a) /\ Asked(pc, r, a) /\ Backed(pc, r, a)'
    BY <1>10, <1>11
  <2> QED BY <1>0, <1>4, <1>5, <1>6, <1>7, <1>8, <2>1, AskedInv
<1> QED BY <1>9, <1>11

\* A call starts with a request of the store and nothing answered.
LEMMA BeginInv ==
    ASSUME IInv, NEW c \in Clients, Begin(c)
    PROVE  IInv'
<1>1. PICK r \in Calls :
         proc' = [proc EXCEPT ![c] = [pc |-> FirstStep(r), request |-> r, answer |-> None]]
  BY Zenon DEF Begin
<1>2. r \in Store!Requests /\ (r.op = "delete_exact" => Ready(r))
  BY CallsAreRequests DEF IInv
<1>3. r.key \in Names /\ r.op \in {"put_if_absent", "get", "get_descriptor", "delete_exact"}
  BY <1>2 DEF Store!Requests, Store!Names, Names
<1> DEFINE q == [pc |-> FirstStep(r), request |-> r, answer |-> None]
<1>4. /\ r.op \in {"get", "get_descriptor"} => FirstStep(r) = "get"
      /\ r.op = "put_if_absent" /\ r.key \in Keys => FirstStep(r) = "put"
      /\ r.op = "put_if_absent" /\ r.key \notin Keys => FirstStep(r) = "create"
      /\ r.op = "delete_exact" => FirstStep(r) \in {"delete", "remove"}
  BY <1>3, NamesAssumption DEF FirstStep, Names
<1>5. q \in Procs /\ Shape(q)
  BY <1>2, <1>3, <1>4 DEF Procs, Steps, PutSteps, DeleteSteps, Shape, Names
<1>6. Sure(q)
  BY <1>2, <1>3, <1>4 DEF Sure, Ready, DeleteSteps, Store!Mutating
<1>7. UNCHANGED <<object, content, clock, wire, phase, cast>> /\ phase.at = "up"
  BY DEF Begin
<1>8. Sure(q)'
  BY <1>6, <1>7 DEF Sure, Ready, Matches
<1>9. content' \subseteq Keys \X Store!Hashes /\ BucketStep(r.key)
  BY <1>7 DEF IInv, TypeInv, BucketStep
<1> QED BY <1>1, <1>3, <1>5, <1>7, <1>8, <1>9, MoveInv, Zenon

\* A request that arrives late, or never.
LEMMA LateInv ==
    ASSUME IInv, NEW r \in wire, Land(r) \/ Lose(r)
    PROVE  IInv'
<1>1. r \in Store!Requests /\ Ready(r) /\ TypeInv
  BY DEF IInv, TypeInv, WireInv
<1>2. r.key \in Names /\ (r.op = "put_if_absent" => content_hash(r.bytes) \in Store!Hashes)
  BY <1>1 DEF Store!Requests, Store!Names, Names, Store!Hashes, content_hash
<1>3. BucketStep(r.key)
  BY <1>1, <1>2 DEF Land, Lose, BucketStep, Ready
<1>4. UNCHANGED <<content, proc, phase, cast>> /\ wire' \subseteq wire
  BY DEF Land, Lose
<1>5. /\ object' \in [Names -> Store!Descriptors \cup {None}]
      /\ clock' \in Nat
      /\ ObjectInv'
      /\ \A s \in Store!Requests : Ready(s) => Ready(s)'
  BY <1>2, <1>3, <1>4, BucketInv
<1>6. TypeInv' /\ ShapeInv' /\ WireInv'
  BY <1>1, <1>4, <1>5 DEF IInv, TypeInv, ShapeInv, WireInv
<1>7. CallInv'
  <2> SUFFICES ASSUME NEW d \in Clients PROVE Sure(proc[d])'
    BY DEF CallInv
  <2>1. proc'[d] = proc[d] /\ Sure(proc[d]) /\ Shape(proc[d])
    BY <1>4 DEF IInv, CallInv, ShapeInv
  <2>2. proc[d].pc \in DeleteSteps \cup {"verify", "publish", "create"} => proc[d].request \in Store!Requests
    BY <2>1 DEF Shape, DeleteSteps
  <2> QED BY <1>4, <1>5, <2>1, <2>2 DEF Sure
<1>8. PhaseInv'
  <2>1. phase.at # "sweep"
    BY DEF IInv, PhaseInv
  <2> QED BY <1>4, <2>1 DEF IInv, PhaseInv, At
<1> QED BY <1>5, <1>6, <1>7, <1>8 DEF IInv

\* A process that stops leaves the requests it had sent.
LEMMA StopInv ==
    ASSUME IInv, Stop
    PROVE  IInv'
<1>1. UNCHANGED <<object, content, clock, cast>> /\ phase' = Down /\ proc' = [c \in Clients |-> Idle]
  BY DEF Stop
<1>2. \A r \in wire' : r \in Store!Requests /\ Ready(r)
  <2>1. PICK s \in SUBSET {c \in Clients : InFlight(c)} : wire' = wire \cup {Req(c) : c \in s}
    BY DEF Stop
  <2>2. \A c \in s : Req(c) \in Store!Requests /\ Ready(Req(c))
    BY <2>1, Zenon DEF IInv, InFlight, ShapeInv, Shape, CallInv, Sure, DeleteSteps, Req
  <2>3. \A r \in wire : r \in Store!Requests /\ Ready(r)
    BY DEF IInv, TypeInv, WireInv
  <2> QED BY <2>1, <2>2, <2>3
<1>3. TypeInv'
  BY <1>1, <1>2 DEF IInv, TypeInv, Idle, Steps
<1>4. ObjectInv' /\ WireInv'
  BY <1>1, <1>2 DEF IInv, ObjectInv, WireInv, Ready, Matches
<1>5. ShapeInv' /\ CallInv' /\ PhaseInv'
  BY <1>1 DEF ShapeInv, Shape, Idle, CallInv, Sure, PhaseInv, Down, At, PutSteps, DeleteSteps
<1> QED BY <1>3, <1>4, <1>5 DEF IInv

\* What is left of a plan is a plan, and contents come after manifests.
LEMMA PlansShrink ==
    /\ \A s \in Plans : Len(s) # 1 => Tail(s) \in Plans
    /\ \A s \in Plans : Len(s) # 1 /\ Head(Tail(s)) = "everything" => Head(s) = "manifests"
    /\ reset_namespace \in Plans /\ Head(reset_namespace) = "state"
    /\ \A scope \in (SUBSET {"proof", "preflight"}) \ {{}} :
          SweepsOf(scope) \in Plans /\ Head(SweepsOf(scope)) # "everything"
<1>1. \A s \in Plans : Len(s) # 1 => Tail(s) \in Plans
  <2>1. /\ Tail(<<"state", "manifests", "everything">>) = <<"manifests", "everything">>
        /\ Tail(<<"state", "manifests", "preflights">>) = <<"manifests", "preflights">>
    OBVIOUS
  <2>2. /\ Tail(<<"manifests", "everything">>) = <<"everything">>
        /\ Tail(<<"manifests", "preflights">>) = <<"preflights">>
        /\ Tail(<<"state", "manifests">>) = <<"manifests">>
    OBVIOUS
  <2>3. Len(<<"everything">>) = 1 /\ Len(<<"manifests">>) = 1 /\ Len(<<"preflights">>) = 1
    OBVIOUS
  <2> QED BY <2>1, <2>2, <2>3, Zenon DEF Plans
<1>2. \A s \in Plans : Len(s) # 1 /\ Head(Tail(s)) = "everything" => Head(s) = "manifests"
  BY DEF Plans
<1>3. reset_namespace \in Plans /\ Head(reset_namespace) = "state"
  BY DEF Plans, reset_namespace
<1>4. ASSUME NEW scope \in (SUBSET {"proof", "preflight"}) \ {{}}
      PROVE SweepsOf(scope) \in Plans /\ Head(SweepsOf(scope)) # "everything"
  <2>1. CASE "proof" \in scope /\ "preflight" \in scope
    <3>1. SweepsOf(scope) = <<"state", "manifests", "preflights">>
      BY <2>1 DEF SweepsOf
    <3> QED BY <3>1 DEF Plans
  <2>2. CASE "proof" \in scope /\ "preflight" \notin scope
    <3>1. SweepsOf(scope) = <<"state", "manifests">>
      BY <2>2 DEF SweepsOf
    <3> QED BY <3>1 DEF Plans
  <2>3. CASE "proof" \notin scope
    <3>1. SweepsOf(scope) = <<"preflights">>
      BY <2>3 DEF SweepsOf
    <3> QED BY <3>1 DEF Plans
  <2> QED BY <2>1, <2>2, <2>3
<1> QED BY <1>1, <1>2, <1>3, <1>4, Zenon

\* A process that is down may start, clean up or reset; each of its deletions.
StartStep ==
    \/ Boot
    \/ SweepState
    \/ \E n \in Names : SweepObject(n)
    \/ \E x \in content : SweepContent(x)
    \/ Swept
    \/ SweepFails

LEMMA StartStepInv ==
    ASSUME IInv, StartStep
    PROVE  IInv'
<1>1. /\ phase.at \in {"down", "sweep"}
      /\ UNCHANGED <<clock, wire, proc, cast>>
  BY DEF StartStep, Boot, SweepState, SweepObject, SweepContent, Swept, SweepFails
<1>2. \A c \in Clients : At(c, "idle")
  BY <1>1 DEF IInv, PhaseInv
<1>3. ShapeInv' /\ CallInv' /\ \A c \in Clients : At(c, "idle")'
  BY <1>1, <1>2 DEF IInv, ShapeInv, CallInv, Sure, At, PutSteps, DeleteSteps
<1>4. /\ object' \in [Names -> Store!Descriptors \cup {None}]
      /\ ObjectInv'
      /\ \A r \in wire : Ready(r)'
      /\ \A k \in Keys : object[k] = None => object'[k] = None
  <2>0. /\ TypeInv /\ ObjectInv /\ WireInv
        /\ phase.at = "sweep" => wire = {}
        /\ phase.at = "sweep" /\ Head(phase.left) = "everything" => \A k \in Keys : object[k] = None
        /\ Keys \subseteq Names
    BY DEF IInv, PhaseInv, Names
  <2>1. CASE UNCHANGED <<object, content>>
    BY <1>1, <2>0, <2>1 DEF TypeInv, ObjectInv, WireInv, Ready, Matches
  <2>2. CASE \E n \in Names : SweepObject(n)
    <3>1. PICK n \in Names : SweepObject(n)
      BY <2>2
    <3>2. BucketStep(n) /\ UNCHANGED content /\ object' = [object EXCEPT ![n] = None] /\ wire = {}
      BY <1>1, <2>0, <3>1 DEF SweepObject, BucketStep, Remove
    <3>3. object' \in [Names -> Store!Descriptors \cup {None}] /\ ObjectInv'
      BY <3>2, BucketInv
    <3> QED BY <2>0, <3>2, <3>3 DEF TypeInv
  <2>3. CASE \E x \in content : SweepContent(x)
    BY <1>1, <2>0, <2>3 DEF SweepContent, Sweeping, TypeInv, ObjectInv
  <2> QED BY <2>1, <2>2, <2>3 DEF StartStep, Boot, SweepState, Swept, SweepFails
<1>5. content' \subseteq content
  BY DEF StartStep, Boot, SweepState, SweepObject, SweepContent, Swept, SweepFails
<1>6. TypeInv' /\ WireInv'
  BY <1>1, <1>4, <1>5 DEF IInv, TypeInv, WireInv
<1>7. PhaseInv'
  <2>0. /\ phase.at = "sweep" =>
             /\ wire = {}
             /\ phase.left \in Plans
             /\ phase = [at |-> "sweep", scope |-> phase.scope, left |-> phase.left]
             /\ Head(phase.left) = "everything" => \A k \in Keys : object[k] = None
        /\ \A s \in Plans : Len(s) # 1 => Tail(s) \in Plans
        /\ \A s \in Plans : Len(s) # 1 /\ Head(Tail(s)) = "everything" => Head(s) = "manifests"
    BY PlansShrink, Zenon DEF IInv, PhaseInv
  <2>1. CASE Boot
    <3>1. phase' = Up \/ \E scope, left : /\ phase' = [at |-> "sweep", scope |-> scope, left |-> left]
                                          /\ left \in Plans /\ Head(left) # "everything" /\ wire = {}
      BY <2>1, PlansShrink DEF Boot
    <3>2. CASE phase' = Up
      BY <1>3, <3>2 DEF PhaseInv, Up
    <3>3. ASSUME NEW scope, NEW left,
                 phase' = [at |-> "sweep", scope |-> scope, left |-> left],
                 left \in Plans, Head(left) # "everything", wire = {}
          PROVE  PhaseInv'
      BY <1>1, <1>3, <3>3 DEF PhaseInv
    <3> QED BY <3>1, <3>2, <3>3
  <2>2. CASE Swept
    <3>1. CASE Len(phase.left) = 1
      BY <1>3, <2>2, <3>1 DEF Swept, PhaseInv, Up
    <3>2. CASE Len(phase.left) # 1
      <4>1. phase.at = "sweep" /\ phase' = [phase EXCEPT !.left = Tail(phase.left)]
        BY <2>2, <3>2 DEF Swept
      <4>2. phase' = [at |-> "sweep", scope |-> phase.scope, left |-> Tail(phase.left)]
        BY <2>0, <4>1, Zenon
      <4>3. Head(Tail(phase.left)) = "everything" => \A k \in Keys : object[k] = None
        BY <2>0, <2>2, <3>2, Zenon DEF Swept, Selected, Sweeping
      <4> QED BY <1>1, <1>3, <1>4, <2>0, <3>2, <4>1, <4>2, <4>3, Zenon DEF PhaseInv
    <3> QED BY <3>1, <3>2
  <2>3. CASE SweepFails
    BY <1>3, <2>3 DEF SweepFails, PhaseInv, Down
  <2>4. CASE UNCHANGED phase
    BY <1>1, <1>3, <1>4, <2>0, <2>4 DEF PhaseInv
  <2> QED BY <2>1, <2>2, <2>3, <2>4 DEF StartStep, SweepState, SweepObject, SweepContent
<1> QED BY <1>3, <1>4, <1>6, <1>7 DEF IInv

\* Every step keeps the invariant.
LEMMA NextInv == IInv /\ [Next]_vars => IInv'
<1> SUFFICES ASSUME IInv, [Next]_vars PROVE IInv'
  OBVIOUS
<1>1. CASE UNCHANGED vars
  BY <1>1 DEF vars, IInv, TypeInv, ShapeInv, ObjectInv, WireInv, Ready, Matches, CallInv, Sure,
              PhaseInv, At
<1>2. ASSUME NEW c \in cast.clients, CallStep(c) PROVE IInv'
  <2>1. c \in Clients
    BY <1>2 DEF IInv, TypeInv, Cast
  <2>2. Begin(c) \/ ReadStep(c) \/ WriteStep(c)
    BY <1>2 DEF CallStep, ReadStep, WriteStep
  <2> QED BY <2>1, <2>2, BeginInv, ReadStepInv, WriteStepInv
<1>3. ASSUME NEW r \in wire, Land(r) \/ Lose(r) PROVE IInv'
  BY <1>3, LateInv
<1>4. CASE Stop
  BY <1>4, StopInv
<1>5. CASE StartStep
  BY <1>5, StartStepInv
<1> QED BY <1>1, <1>2, <1>3, <1>4, <1>5 DEF Next, StartStep

\* No manifest in the bucket names content that is missing, whatever fails.
ManifestsComplete ==
    \A k \in Keys : object[k] # None => <<k, object[k].content_hash>> \in content

\* put_if_absent writes the content before the manifest and a sweep removes it
\* after, so a reader that finds a manifest finds its content.
THEOREM ContentBeforeManifest == Spec => []ManifestsComplete
<1>1. IInv => ManifestsComplete
  BY DEF IInv, ObjectInv, ManifestsComplete, Names
<1> QED BY <1>1, InitInv, NextInv, PTL DEF Spec
=============================================================================
