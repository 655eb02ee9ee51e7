--------------------------- MODULE LatestProposal ---------------------------
(***************************************************************************)
(* latest-proposal-request: the L2 head is read, then the newest Proposed  *)
(* event is searched backwards from the L1 head page by page, then the L2  *)
(* blocks of that proposal backwards from the L2 head, while both chains   *)
(* grow.                                                                   *)
(***************************************************************************)
EXTENDS Integers, Sequences, FiniteSets

CONSTANTS PageSizes, Lookbacks, MaxL1, MaxL2, NotSet

VARIABLES l1,    \* the proposal ids in each L1 block, in log order
          l2,    \* the proposal id in each L2 block after genesis, 0 for none
          args,  \* [l1_page, l1_back, l2_page, l2_back]
          scan   \* the command: step, heads, page bound, finder, answer

vars == <<l1, l2, args, scan>>

Max2(a, b) == IF a >= b THEN a ELSE b
SatSub(a, b) == IF a >= b THEN a - b ELSE 0

Proposed == UNION {{l1[n][i] : i \in DOMAIN l1[n]} : n \in DOMAIN l1}
NewestProposed == Cardinality(Proposed)

\* Genesis carries no proposal id.
block_proposal_id(n) == IF n = 0 THEN 0 ELSE l2[n]

-----------------------------------------------------------------------------
(* The range of a proposal, from blocks seen in descending order. *)

NewFinder(id) == [target |-> id, start |-> NotSet, end |-> NotSet, closed |-> FALSE, bad |-> FALSE]

observe(f, n, id) ==
    IF f.closed \/ f.bad THEN f
    ELSE IF f.end = NotSet
    THEN IF id = f.target THEN [f EXCEPT !.start = n, !.end = n] ELSE f
    ELSE IF id = f.target
    THEN IF n + 1 /= f.start THEN [f EXCEPT !.bad = TRUE] ELSE [f EXCEPT !.start = n]
    ELSE [f EXCEPT !.closed = TRUE]

RECURSIVE ObservePage(_, _, _)
ObservePage(f, upper, lower) ==
    IF upper < lower THEN f
    ELSE ObservePage(observe(f, upper, block_proposal_id(upper)), upper - 1, lower)

-----------------------------------------------------------------------------

validate_args(a) == a.l1_page > 0 /\ a.l2_page > 0 /\ a.l1_back > 0 /\ a.l2_back > 0

At(step) == scan.at = step
Fail == scan' = [scan EXCEPT !.at = "failed"]

ReadL2Head ==
    /\ At("l2 head")
    /\ IF validate_args(args) THEN scan' = [scan EXCEPT !.at = "l1 head", !.l2_head = Len(l2)] ELSE Fail
    /\ UNCHANGED <<l1, l2, args>>

ReadL1Head ==
    /\ At("l1 head")
    /\ scan' = [scan EXCEPT !.at = "l1 page", !.upper = Len(l1),
                            !.earliest = SatSub(Len(l1), SatSub(args.l1_back, 1))]
    /\ UNCHANGED <<l1, l2, args>>

\* The last id of the newest block of the page that has a log.
select_latest_proposal_ref(lower, upper) ==
    LET blocks == {n \in lower..upper : n \in DOMAIN l1 /\ l1[n] /= <<>>}
        newest == CHOOSE n \in blocks : \A m \in blocks : m <= n
    IN  IF blocks = {} THEN NotSet ELSE [id |-> l1[newest][Len(l1[newest])], block |-> newest]

fetch_latest_proposal ==
    /\ At("l1 page")
    /\ \E lower \in {Max2(Max2(SatSub(scan.upper, SatSub(args.l1_page, 1)), scan.earliest), 1)} :
       \E found \in {select_latest_proposal_ref(lower, scan.upper)} :
         IF found /= NotSet
         THEN scan' = [scan EXCEPT !.at = "l2 page", !.proposal = found, !.upper = scan.l2_head,
                          !.finder = NewFinder(found.id),
                          !.earliest = SatSub(scan.l2_head, SatSub(args.l2_back, 1))]
         ELSE IF lower \in {scan.earliest, 1} THEN Fail
         ELSE scan' = [scan EXCEPT !.upper = lower - 1]
    /\ UNCHANGED <<l1, l2, args>>

\* The range is known when a block before it was seen, or it starts at genesis.
fetch_l2_proposal_range ==
    /\ At("l2 page")
    /\ \E lower \in {Max2(SatSub(scan.upper, SatSub(args.l2_page, 1)), scan.earliest)} :
       \E f \in {ObservePage(scan.finder, scan.upper, lower)} :
         IF f.bad THEN Fail
         ELSE IF f.closed THEN scan' = [scan EXCEPT !.at = "done", !.finder = f]
         ELSE IF lower /= scan.earliest
         THEN scan' = [scan EXCEPT !.upper = lower - 1, !.finder = f]
         ELSE IF scan.earliest = 0 /\ f.start = 0
         THEN scan' = [scan EXCEPT !.at = "done", !.finder = f] ELSE Fail
    /\ UNCHANGED <<l1, l2, args>>

\* A new L1 block with no, one or two proposals.
GrowL1 ==
    /\ Len(l1) < MaxL1
    /\ \E k \in 0..2 : l1' = Append(l1, [i \in 1..k |-> NewestProposed + i])
    /\ UNCHANGED <<l2, args, scan>>

\* A new L2 block of the current or of a later known proposal.
GrowL2 ==
    /\ Len(l2) < MaxL2
    /\ \E id \in Max2(1, block_proposal_id(Len(l2)))..NewestProposed : l2' = Append(l2, id)
    /\ UNCHANGED <<l1, args, scan>>

Init ==
    /\ l1 = <<<<>>>> /\ l2 = <<>>
    /\ args \in [l1_page : PageSizes, l1_back : Lookbacks, l2_page : PageSizes, l2_back : Lookbacks]
    /\ scan = [at |-> "l2 head", l2_head |-> 0, upper |-> 0, earliest |-> 0, proposal |-> NotSet,
               finder |-> NewFinder(0)]

Step == ReadL2Head \/ ReadL1Head \/ fetch_latest_proposal \/ fetch_l2_proposal_range

Next == Step \/ (scan.at \notin {"done", "failed"} /\ (GrowL1 \/ GrowL2))

Spec == Init /\ [][Next]_vars /\ WF_vars(Step)

-----------------------------------------------------------------------------

\* A request that is written holds every L2 block of its proposal up to the L2 head
\* the command started from, and no other, wherever the pages fall and however the
\* chains grow meanwhile (fetch_l2_proposal_range, DescendingRangeFinder::observe).
RangeIsWhole ==
    At("done") =>
       /\ {n \in 0..scan.l2_head : block_proposal_id(n) = scan.proposal.id}
             = scan.finder.start..scan.finder.end
       /\ scan.proposal.id \in {l1[scan.proposal.block][i] : i \in DOMAIN l1[scan.proposal.block]}
=============================================================================
