------------------------------ MODULE LogFeed ------------------------------
(***************************************************************************)
(* What an ingester of one EVM source promises, whatever its ticks, calls, *)
(* transactions and restarts: it hands on final logs only, and moves its   *)
(* mark over a block only when every log up to it has been handed on.      *)
(***************************************************************************)
EXTENDS Chain

CONSTANTS
    Malformed,  \* logs nobody has to hand on
    Marks       \* where it may begin: a block, or NoMark

VARIABLES
    delivered,  \* the logs it has handed on
    mark,       \* the block it has come to
    start,      \* the block its coverage starts at
    begun       \* it knows that its coverage has begun, so it never starts anew

NoMark == -1

feedVars == <<chainVars, delivered, mark, start, begun>>

FeedInit ==
    /\ ChainInit
    /\ delivered = {} /\ mark \in Marks
    /\ start = IF mark = NoMark THEN 0 ELSE mark + 1
    /\ begun = (mark # NoMark)

Final(l) == Canonical(l) /\ BlockOf[l] <= ConfirmedHead

Deliver ==
    /\ \E l \in Logs : Final(l) /\ delivered' = delivered \cup {l}
    /\ UNCHANGED <<chainVars, mark, start, begun>>

\* The blocks it comes to before it has begun decide where its coverage starts.
Advance ==
    /\ mark' \in Blocks /\ mark' >= mark /\ mark' <= ConfirmedHead
    /\ IF begun THEN UNCHANGED <<start, begun>>
                ELSE start' \in 0..mark' /\ begun' \in BOOLEAN
    /\ \A l \in Logs \ Malformed :
          Canonical(l) /\ start' <= BlockOf[l] /\ BlockOf[l] <= mark' => l \in delivered
    /\ UNCHANGED <<chainVars, delivered>>

\* It learns of a mark it did not know it had made.
Begin ==
    /\ mark # NoMark /\ begun' = TRUE
    /\ UNCHANGED <<chainVars, delivered, mark, start>>

FeedNext ==
    \/ Deliver \/ Advance \/ Begin
    \/ ChainNext /\ UNCHANGED <<delivered, mark, start, begun>>

FeedSpec == FeedInit /\ [][FeedNext]_feedVars
=============================================================================
