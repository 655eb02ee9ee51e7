-------------------- MODULE GcsProofArtifactStoreProofs --------------------
(***************************************************************************)
(* The GCS adapter implements the atomic store, for any keys, clients and  *)
(* contents, any number of failures, late requests and restarts.           *)
(***************************************************************************)
EXTENDS GcsProofArtifactStoreInv

-----------------------------------------------------------------------------
(* The refinement.  A call is, to the atomic store, its request and its     *)
(* answer; it takes effect at the step that fixes the answer.               *)

View(p) == IF p.pc = "idle" THEN None ELSE [request |-> p.request, answer |-> p.answer]

calls == [c \in Clients |-> IF proc[c].pc = "idle" THEN None
                            ELSE [request |-> proc[c].request, answer |-> proc[c].answer]]

LEMMA InitRefines == Init => Store!Init
<1> SUFFICES ASSUME Init PROVE Store!Init
  OBVIOUS
<1>1. IInv
  BY InitInv
<1>2. object \in [Store!Names -> Store!Descriptors \cup {None}] /\ clock \in Nat
  BY <1>1 DEF IInv, TypeInv, Names, Store!Names
<1>3. \A n \in Store!Names : object[n] # None => object[n].generation \in 1 .. clock
  <2>1. \A n \in Names : object[n] # None => object[n] \in Store!Descriptors /\ object[n].generation <= clock
    BY <1>1, Zenon DEF IInv, TypeInv, ObjectInv
  <2> QED BY <1>2, <2>1 DEF Names, Store!Names, Store!Descriptors
<1>4. calls = [c \in Clients |-> None] /\ wire = {}
  BY DEF Init, calls, Idle
<1> QED BY <1>2, <1>3, <1>4 DEF Store!Init, calls

\* One client of the mapped store moves, the others stay.
LEMMA ViewStep ==
    ASSUME IInv, NEW c \in Clients, NEW q, proc' = [proc EXCEPT ![c] = q]
    PROVE  /\ calls[c] = View(proc[c])
           /\ calls' = [calls EXCEPT ![c] = View(q)]
<1>1. proc \in [Clients -> Procs]
  BY DEF IInv, TypeInv, Procs
<1>2. calls' = [d \in Clients |-> View(proc'[d])] /\ calls = [d \in Clients |-> View(proc[d])]
  BY DEF calls, View
<1>3. \A d \in Clients : proc'[d] = IF d = c THEN q ELSE proc[d]
  BY <1>1
<1> QED BY <1>2, <1>3

\* A call under way is one of the mapped store, with its request and answer.
LEMMA ActiveView ==
    ASSUME IInv, NEW c \in Clients, proc[c].pc # "idle"
    PROVE  /\ calls[c] = [request |-> Req(c), answer |-> proc[c].answer]
           /\ calls[c] # None
<1>1. calls[c] = [request |-> Req(c), answer |-> proc[c].answer]
  BY DEF calls, Req
<1>2. Req(c) \in Store!Requests /\ proc[c].answer \in Answered \cup {None, Unavailable}
  BY ActiveIsUp DEF IInv, TypeInv
<1>3. [request |-> Req(c), answer |-> proc[c].answer]
        \in [request : Store!Requests, answer : Answered \cup {None, Unavailable}]
  BY <1>2
<1> QED BY <1>1, <1>3, MarkersAssumption

\* What a move of a call is to the mapped store.
LEMMA MoveView ==
    ASSUME IInv, NEW c \in Clients, proc[c].pc # "idle", NEW pc, pc # "idle", NEW a, Move(c, pc, a)
    PROVE  calls' = [calls EXCEPT ![c] = [request |-> Req(c), answer |-> a]]
<1>1. PICK q : q = [pc |-> pc, request |-> Req(c), answer |-> a]
  BY Zenon
<1>2. proc' = [proc EXCEPT ![c] = q]
  BY <1>1 DEF Move
<1>3. View(q) = [request |-> Req(c), answer |-> a]
  BY <1>1 DEF View
<1> QED BY <1>2, <1>3, ViewStep, Zenon

\* The ways in which a step of a client is one of the mapped store.
LEMMA Stutters ==
    ASSUME IInv, NEW c \in Clients, proc[c].pc # "idle", NEW pc, pc # "idle",
           Move(c, pc, proc[c].answer), UNCHANGED <<object, clock, wire>>
    PROVE  UNCHANGED Store!vars
<1>1. calls' = [calls EXCEPT ![c] = calls[c]]
  BY MoveView, ActiveView
<1>2. calls' = calls
  BY <1>1, Zenon DEF calls
<1> QED BY <1>2 DEF Store!vars, calls

LEMMA Applies ==
    ASSUME IInv, NEW c \in Clients, proc[c].pc # "idle", proc[c].answer = None,
           NEW a, NEW pc, pc # "idle", Move(c, pc, a), UNCHANGED wire,
           Store!Effect(Req(c)), a \in Store!Answers(Req(c))
    PROVE  Store!Apply(c)
<1>1. /\ calls[c] = [request |-> Req(c), answer |-> None] /\ calls[c] # None
      /\ calls' = [calls EXCEPT ![c] = [request |-> Req(c), answer |-> a]]
  BY MoveView, ActiveView
<1> QED BY <1>1, Zenon DEF Store!Apply, Store!Settle, calls

LEMMA Fails ==
    ASSUME IInv, NEW c \in Clients, proc[c].pc # "idle", End(c, Unavailable),
           UNCHANGED <<object, clock>>,
           wire' = wire \/ (Req(c).op \in Store!Mutating /\ wire' = wire \cup {Req(c)})
    PROVE  Store!Fail(c)
<1>0. Move(c, "end", Unavailable)
  BY DEF End
<1>1. calls[c] = [request |-> Req(c), answer |-> proc[c].answer] /\ calls[c] # None
  BY ActiveView
<1>2. calls' = [calls EXCEPT ![c] = [request |-> Req(c), answer |-> Unavailable]]
  BY <1>0, MoveView, Zenon
<1> QED BY <1>1, <1>2, Zenon DEF Store!Fail, Store!Settle, calls

\* The steps that only read: an answer was true when it was read.
LEMMA ReadStepRefines ==
    ASSUME IInv, NEW c \in Clients, ReadStep(c)
    PROVE  UNCHANGED Store!vars \/ Store!Apply(c) \/ Store!Fail(c)
<1> DEFINE p == proc[c]
           r == Req(c)
           found == object[r.key]
<1>0. p.pc # "idle"
  BY DEF ReadStep, put_reads_manifest, put_verifies_content, put_lost_race, put_reads_again,
         read_content, conflict_result, get, delete_reads_manifest, delete_reads_back,
         observe_preflight, At
<1>1. r \in Store!Requests /\ r.key \in Names /\ Shape(p) /\ Sure(p)
  BY <1>0, ActiveIsUp
<1>2. found \in Store!Descriptors \cup {None} /\ None \notin Store!Descriptors
  BY <1>1, MarkersAssumption DEF IInv, TypeInv
<1>3. UNCHANGED <<object, content, clock, wire>>
  BY DEF ReadStep, put_reads_manifest, put_verifies_content, put_lost_race, put_reads_again,
         read_content, conflict_result, get, delete_reads_manifest, delete_reads_back,
         observe_preflight
<1>4. ASSUME ~Store!Creates(r), ~Store!Removes(r) PROVE Store!Effect(r)
  BY <1>3, <1>4 DEF Store!Effect
<1>5. ASSUME NEW pc, pc # "idle", Goto(c, pc) PROVE UNCHANGED Store!vars
  BY <1>0, <1>3, <1>5, Stutters, Zenon DEF Goto
<1>6. ASSUME End(c, Unavailable) PROVE Store!Fail(c)
  BY <1>0, <1>3, <1>6, Fails
<1>7. ASSUME NEW kind, NEW d, NEW pc, pc # "idle", p.answer = None, AnswerAt(c, kind, d, pc),
             ~Store!Creates(r), ~Store!Removes(r), Store!Answer(kind, d) \in Store!Answers(r)
      PROVE  Store!Apply(c)
  BY <1>0, <1>3, <1>4, <1>7, Applies DEF AnswerAt
<1>8. ASSUME p.pc \in PutSteps \cup {"observe"}, found # None
      PROVE  /\ p.answer = None /\ ~Store!Creates(r) /\ ~Store!Removes(r)
             /\ Store!Answer("AlreadyExists", found) \in Store!Answers(r)
             /\ ~Same(c) => Store!Answer("Conflict", found) \in Store!Answers(r)
  <2>1. p.answer = None /\ r.op = "put_if_absent"
    BY <1>1, <1>8 DEF Shape, Req
  <2>2. Store!Answers(r) = Store!PutAnswers(r)
    BY <2>1 DEF Store!Answers
  <2> QED BY <1>8, <2>1, <2>2 DEF Store!Creates, Store!Removes, Store!PutAnswers, Same, content_hash
<1>9. ASSUME p.pc \in DeleteSteps
      PROVE  /\ p.answer = None /\ ~Store!Creates(r)
             /\ found = None => ~Store!Removes(r) /\ Store!Answer("Gone", None) \in Store!Answers(r)
             /\ found \notin {None, r.descriptor} =>
                   ~Store!Removes(r) /\ Store!Answer("Stale", None) \in Store!Answers(r)
  <2>1. p.answer = None /\ r.op = "delete_exact" /\ r.descriptor \in Store!Descriptors
    BY <1>1, <1>9 DEF Shape, Req, Store!Requests
  <2>2. Store!Answers(r) = Store!DeleteAnswers(r)
    BY <2>1 DEF Store!Answers
  <2> QED BY <1>2, <2>1, <2>2 DEF Store!Creates, Store!Removes, Store!DeleteAnswers
<1>10. CASE put_reads_manifest(c)
  BY <1>5, <1>7, <1>8, <1>10 DEF put_reads_manifest, At, PutSteps
<1>11. CASE put_verifies_content(c)
  <2>1. ContentName(c) \in content
    BY <1>1, <1>11 DEF put_verifies_content, At, Sure, Ready, ContentName, Shape, PutSteps, Req
  <2> QED BY <1>5, <1>11, <2>1 DEF put_verifies_content
<1>12. CASE put_lost_race(c)
  BY <1>5, <1>6, <1>7, <1>8, <1>12 DEF put_lost_race, At, PutSteps
<1>13. CASE put_reads_again(c)
  BY <1>6, <1>7, <1>8, <1>13 DEF put_reads_again, At, PutSteps
<1>14. CASE read_content(c)
  BY <1>1, <1>5, <1>14 DEF read_content, At, Sure, Req
<1>15. CASE conflict_result(c)
  BY <1>5, <1>15 DEF conflict_result
<1>16. CASE get(c)
  <2>1. p.answer = None /\ r.op \in {"get", "get_descriptor"}
    BY <1>1, <1>16 DEF get, At, Shape, Req
  <2>2. /\ ~Store!Creates(r) /\ ~Store!Removes(r)
        /\ Store!Answer("Found", found) \in Store!Answers(r)
    BY <2>1 DEF Store!Creates, Store!Removes, Store!Answers
  <2>3. PICK pc \in {"read", "end"} : AnswerAt(c, "Found", found, pc)
    BY <1>16 DEF get
  <2> QED BY <1>7, <2>1, <2>2, <2>3
<1>17. CASE delete_reads_manifest(c)
  BY <1>5, <1>7, <1>9, <1>17 DEF delete_reads_manifest, At, DeleteSteps
<1>18. CASE delete_reads_back(c)
  BY <1>6, <1>7, <1>9, <1>18 DEF delete_reads_back, At, DeleteSteps
<1>19. CASE observe_preflight(c)
  BY <1>6, <1>7, <1>8, <1>19 DEF observe_preflight, At
<1> QED BY <1>10, <1>11, <1>12, <1>13, <1>14, <1>15, <1>16, <1>17, <1>18, <1>19 DEF ReadStep

\* The steps that write: a creation or a deletion that the bucket carries out
\* is the moment at which its call takes effect.
LEMMA WriteStepRefines ==
    ASSUME IInv, NEW c \in Clients, WriteStep(c)
    PROVE  \/ UNCHANGED Store!vars
           \/ Store!Apply(c)
           \/ Store!Fail(c)
           \/ Store!Straggle(c)
           \/ Store!Return(c)
<1> DEFINE p == proc[c]
           r == Req(c)
           found == object[r.key]
<1>0. p.pc # "idle"
  BY DEF WriteStep, put_repairs_content, put_content, put_manifest, delete_object,
         create_preflight, RequestFails, Return, At
<1>1. /\ r \in Store!Requests /\ r.key \in Names /\ Shape(p) /\ Sure(p)
      /\ calls[c] = [request |-> r, answer |-> p.answer] /\ calls[c] # None
  BY <1>0, ActiveIsUp, ActiveView
<1>2. found \in Store!Descriptors \cup {None} /\ None \notin Store!Descriptors
  BY <1>1, MarkersAssumption DEF IInv, TypeInv
<1>3. ASSUME NEW pc, pc # "idle", Goto(c, pc), UNCHANGED <<object, clock, wire>>
      PROVE  UNCHANGED Store!vars
  BY <1>0, <1>3, Stutters DEF Goto
<1>4. CASE put_repairs_content(c)
  BY <1>3, <1>4 DEF put_repairs_content
<1>5. CASE put_content(c)
  BY <1>3, <1>5 DEF put_content
<1>6. CASE put_manifest(c) \/ create_preflight(c)
  <2>1. r.op = "put_if_absent" /\ p.answer = None /\ UNCHANGED wire
    BY <1>1, <1>6 DEF put_manifest, create_preflight, At, Shape, PutSteps, Req
  <2>2. CASE Create(r.key, content_hash(r.bytes)) /\ AnswerAt(c, "Created", object'[r.key], "end")
    <3>1. Store!Creates(r) /\ Store!Effect(r)
      BY <2>1, <2>2 DEF Create, Store!Creates, Store!Effect, Store!Object, content_hash
    <3>2. object'[r.key] = Store!Object(r, clock + 1)
      BY <1>1, <2>2 DEF Create, Store!Object, content_hash, IInv, TypeInv
    <3>3. Store!Answer("Created", object'[r.key]) \in Store!Answers(r)
      BY <2>1, <3>1, <3>2 DEF Store!Answers, Store!PutAnswers, Store!Creates
    <3> QED BY <1>0, <2>1, <2>2, <3>1, <3>3, Applies DEF AnswerAt
  <2>3. CASE \E pc \in {"lost", "observe"} : Goto(c, pc) /\ UNCHANGED <<object, clock>>
    BY <1>3, <2>1, <2>3
  <2> QED BY <1>6, <2>2, <2>3 DEF put_manifest, create_preflight
<1>7. CASE delete_object(c)
  <2>1. /\ p.answer = None /\ r.op = "delete_exact" /\ r.descriptor \in Store!Descriptors /\ Ready(r)
        /\ UNCHANGED <<clock, wire>>
    BY <1>1, <1>7 DEF delete_object, At, Shape, Sure, DeleteSteps, Req, Store!Requests
  <2>2. Store!Answers(r) = Store!DeleteAnswers(r) /\ ~Store!Creates(r)
    BY <2>1 DEF Store!Answers, Store!Creates
  <2>3. CASE found = None /\ AnswerAt(c, "Gone", None, "end") /\ UNCHANGED object
    <3>1. Store!Effect(r)
      BY <1>2, <2>1, <2>2, <2>3 DEF Store!Effect, Store!Removes
    <3>2. Store!Answer("Gone", None) \in Store!Answers(r)
      BY <2>2, <2>3 DEF Store!DeleteAnswers
    <3> QED BY <1>0, <2>1, <2>3, <3>1, <3>2, Applies DEF AnswerAt
  <2>4. CASE Matches(r.key, r.descriptor.generation) /\ Remove(r.key) /\ AnswerAt(c, "Gone", None, "end")
    <3>1. found = r.descriptor
      BY <2>1, <2>4 DEF Ready
    <3>2. Store!Effect(r)
      BY <2>1, <2>2, <2>4, <3>1 DEF Store!Effect, Store!Removes, Remove
    <3>3. Store!Answer("Gone", None) \in Store!Answers(r)
      BY <2>2, <3>1 DEF Store!DeleteAnswers
    <3> QED BY <1>0, <2>1, <2>4, <3>2, <3>3, Applies DEF AnswerAt
  <2>5. CASE Goto(c, "readback") /\ UNCHANGED object
    BY <1>3, <2>1, <2>5
  <2> QED BY <1>7, <2>3, <2>4, <2>5 DEF delete_object
<1>8. CASE RequestFails(c)
  <2>1. UNCHANGED <<object, clock>>
    BY <1>8 DEF RequestFails
  <2>2. CASE p.pc = "remove" /\ Goto(c, "readback") /\ FailedRequest(c)
    <3>1. p.answer = None /\ r.op = "delete_exact"
      BY <1>1, <2>2 DEF Shape, DeleteSteps, Req
    <3>2. CASE wire' = wire
      BY <1>3, <2>1, <2>2, <3>2
    <3>3. CASE wire' = wire \cup {r}
      <4>1. calls' = [calls EXCEPT ![c] = calls[c]]
        BY <1>0, <1>1, <2>2, MoveView DEF Goto
      <4>2. calls' = calls
        BY <4>1, Zenon DEF calls
      <4> QED BY <1>1, <2>1, <3>1, <3>3, <4>2 DEF Store!Straggle, calls
    <3> QED BY <2>2, <3>2, <3>3 DEF FailedRequest
  <2>3. CASE End(c, Unavailable) /\ (wire' = wire \/ (p.pc \in {"publish", "create"} /\ FailedRequest(c)))
    <3>1. p.pc \in {"publish", "create"} => r.op \in Store!Mutating
      BY <1>1 DEF Sure, Ready, Req
    <3> QED BY <1>0, <2>1, <2>3, <3>1, Fails DEF FailedRequest
  <2> QED BY <1>8, <2>2, <2>3 DEF RequestFails
<1>9. CASE Return(c)
  <2>1. p.answer # None
    BY <1>1, <1>9, MarkersAssumption, AnswersAssumption DEF Return, At, Shape
  <2>2. calls' = [calls EXCEPT ![c] = None]
    <3>1. PICK q : q = Idle
      OBVIOUS
    <3>2. proc' = [proc EXCEPT ![c] = q] /\ View(q) = None
      BY <1>9, <3>1 DEF Return, View, Idle
    <3> QED BY <3>2, ViewStep, Zenon
  <2> QED BY <1>1, <1>9, <2>1, <2>2 DEF Return, Store!Return, calls
<1> QED BY <1>4, <1>5, <1>6, <1>7, <1>8, <1>9 DEF WriteStep

LEMMA BeginRefines ==
    ASSUME IInv, NEW c \in Clients, Begin(c)
    PROVE  Store!Call(c)
<1>1. PICK r \in Calls :
         proc' = [proc EXCEPT ![c] = [pc |-> FirstStep(r), request |-> r, answer |-> None]]
  BY Zenon DEF Begin
<1>2. r \in Store!Requests /\ r.key \in Names
        /\ r.op \in {"put_if_absent", "get", "get_descriptor", "delete_exact"}
  BY CallsAreRequests DEF IInv, Store!Requests, Store!Names, Names
<1>3. FirstStep(r) # "idle"
  BY <1>2 DEF FirstStep, Names
<1>4. PICK q : q = [pc |-> FirstStep(r), request |-> r, answer |-> None]
  BY Zenon
<1>5. View(q) = [request |-> r, answer |-> None]
  BY <1>3, <1>4 DEF View
<1>6. calls' = [calls EXCEPT ![c] = [request |-> r, answer |-> None]] /\ calls[c] = View(proc[c])
  BY <1>1, <1>4, <1>5, ViewStep, Zenon
<1>7. calls[c] = None
  BY <1>6 DEF Begin, At, View
<1>8. calls'[c] = [request |-> r, answer |-> None]
  BY <1>6 DEF calls
<1>9. calls'[c] # None /\ calls'[c].request = r
  BY <1>2, <1>8, MarkersAssumption
<1> QED BY <1>2, <1>6, <1>7, <1>9, Zenon DEF Store!Call, Begin, calls

LEMMA LateRefines ==
    ASSUME IInv, NEW r \in wire, Land(r) \/ Lose(r)
    PROVE  Store!Land(r) \/ Store!Lose(r)
<1>1. /\ r \in Store!Requests /\ Ready(r)
      /\ object \in [Names -> Store!Descriptors \cup {None}] /\ None \notin Store!Descriptors
  BY MarkersAssumption DEF IInv, TypeInv, WireInv
<1>2. r.key \in Names /\ (r.op = "delete_exact" => r.descriptor \in Store!Descriptors)
  BY <1>1 DEF Store!Requests, Store!Names, Names
<1>3. calls' = calls /\ wire' = wire \ {r}
  BY DEF Land, Lose, calls
<1>4. CASE Lose(r)
  BY <1>3, <1>4 DEF Lose, Store!Lose, calls
<1>5. CASE Land(r)
  <2>1. Store!Effect(r)
    <3>1. CASE r.op = "put_if_absent"
      BY <1>5, <3>1 DEF Land, Create, Store!Effect, Store!Creates, Store!Removes, Store!Object, content_hash
    <3>2. CASE r.op = "delete_exact"
      <4>1. Matches(r.key, r.descriptor.generation) <=> object[r.key] = r.descriptor
        BY <1>1, <1>2, <3>2 DEF Ready, Matches
      <4> QED BY <1>5, <3>2, <4>1 DEF Land, Remove, Store!Effect, Store!Creates, Store!Removes
    <3> QED BY <1>5, <3>1, <3>2 DEF Land
  <2> QED BY <1>3, <2>1 DEF Store!Land, calls
<1> QED BY <1>4, <1>5

LEMMA StopRefines ==
    ASSUME IInv, Stop
    PROVE  Store!Stop
<1>1. calls' = [c \in Clients |-> None]
  BY DEF Stop, calls, Idle
<1>2. PICK s \in SUBSET {c \in Clients : InFlight(c)} : wire' = wire \cup {Req(c) : c \in s}
  BY DEF Stop
<1>3. \A c \in s : /\ c \in Clients
                   /\ calls[c].request = Req(c) /\ calls[c].answer = None /\ calls[c] # None
                   /\ Req(c).op \in Store!Mutating
  <2> SUFFICES ASSUME NEW c \in s
               PROVE  /\ c \in Clients
                      /\ calls[c].request = Req(c) /\ calls[c].answer = None /\ calls[c] # None
                      /\ Req(c).op \in Store!Mutating
    OBVIOUS
  <2>1. c \in Clients /\ proc[c].pc \in {"publish", "create", "remove"}
    BY <1>2 DEF InFlight
  <2>2. Shape(proc[c]) /\ Sure(proc[c])
    BY <2>1, ActiveIsUp
  <2>3. proc[c].answer = None /\ Ready(Req(c))
    BY <2>1, <2>2 DEF Shape, Sure, PutSteps, DeleteSteps, Req
  <2>4. calls[c] = [request |-> Req(c), answer |-> None] /\ calls[c] # None
    BY <2>1, <2>3, ActiveView
  <2> QED BY <2>1, <2>3, <2>4 DEF Ready
<1>4. s \in SUBSET {c \in Clients : calls[c] # None}
  BY <1>3
<1>5. {calls[c].request : c \in s} = {Req(c) : c \in s}
  BY <1>3
<1>6. \A c \in s : calls[c].answer = None /\ calls[c].request.op \in Store!Mutating
  BY <1>3
<1> QED BY <1>1, <1>2, <1>4, <1>5, <1>6, Zenon DEF Stop, Store!Stop, calls

LEMMA StartStepRefines ==
    ASSUME IInv, StartStep
    PROVE  UNCHANGED Store!vars \/ \E n \in Store!Names : Store!Purge(n)
<1>1. calls' = calls /\ UNCHANGED <<clock, wire>>
  BY DEF StartStep, Boot, SweepState, SweepObject, SweepContent, Swept, SweepFails, calls
<1>2. CASE UNCHANGED object
  BY <1>1, <1>2 DEF Store!vars, calls
<1>3. ASSUME NEW n \in Names, SweepObject(n) PROVE Store!Purge(n)
  <2>1. wire = {} /\ \A c \in Clients : calls[c] = None
    BY <1>3 DEF SweepObject, IInv, PhaseInv, At, calls
  <2> QED BY <1>1, <1>3, <2>1 DEF SweepObject, Remove, Store!Purge, calls
<1>4. Names = Store!Names
  BY DEF Names, Store!Names
<1> QED BY <1>2, <1>3, <1>4 DEF StartStep, Boot, SweepState, SweepContent, Swept, SweepFails

LEMMA NextRefines == IInv /\ [Next]_vars => [Store!Next]_(Store!vars)
<1> SUFFICES ASSUME IInv, [Next]_vars PROVE [Store!Next]_(Store!vars)
  OBVIOUS
<1>1. CASE UNCHANGED vars
  BY <1>1 DEF vars, Store!vars
<1>2. ASSUME NEW c \in cast.clients, CallStep(c) PROVE [Store!Next]_(Store!vars)
  <2>1. c \in Clients
    BY <1>2 DEF IInv, TypeInv, Cast
  <2>2. Begin(c) \/ ReadStep(c) \/ WriteStep(c)
    BY <1>2 DEF CallStep, ReadStep, WriteStep
  <2>3. \/ UNCHANGED Store!vars \/ Store!Call(c) \/ Store!Apply(c) \/ Store!Fail(c)
        \/ Store!Straggle(c) \/ Store!Return(c)
    BY <2>1, <2>2, BeginRefines, ReadStepRefines, WriteStepRefines
  <2> QED BY <2>1, <2>3 DEF Store!Next
<1>3. ASSUME NEW r \in wire, Land(r) \/ Lose(r) PROVE [Store!Next]_(Store!vars)
  BY <1>3, LateRefines DEF Store!Next
<1>4. CASE Stop
  BY <1>4, StopRefines DEF Store!Next
<1>5. CASE StartStep
  BY <1>5, StartStepRefines DEF Store!Next
<1> QED BY <1>1, <1>2, <1>3, <1>4, <1>5 DEF Next, StartStep

\* The calls of the GCS adapter are the atomic calls that ProofObjectStore and
\* CanonicalPreflightStore promise, however many clients, keys, failed and late
\* requests, stops, clean-ups and resets there are.
THEOREM AdapterRefinesStore == Spec => RefinesStore
<1>1. Spec => []IInv
  BY InitInv, NextInv, PTL DEF Spec
<1>2. Spec => Store!Spec
  BY <1>1, InitRefines, NextRefines, PTL DEF Spec, Store!Spec
<1> QED BY <1>2 DEF RefinesStore
=============================================================================
