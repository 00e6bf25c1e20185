------------------------------ MODULE VoteTable ------------------------------
(***************************************************************************)
(* vote_events_projection (ADR-0021): append-only vote rows in ClickHouse, *)
(* the latest version of a row being what is read.  A vote is named by its *)
(* position in (cast_at, block_number, log_index) order.                   *)
(***************************************************************************)
EXTENDS FiniteSets, Naturals

CONSTANT Ballots   \* bound: the positions a vote may have

VARIABLE votes     \* the latest row of each vote

Unwritten == [status |-> "none"]
Current == [status |-> "current"]
SupersededAt(time, by) == [status |-> "superseded", at |-> time, by |-> by]

VoteTypeOK ==
    votes \in [Ballots -> {Unwritten, Current}
                  \cup [status : {"superseded"}, at : Ballots, by : Ballots]]

VotesInit == votes = [i \in Ballots |-> Unwritten]

Written == {i \in Ballots : votes[i] # Unwritten}
CurrentAmong(rivals) == {i \in rivals : votes[i] = Current}

\* findCurrentVote, the last of the current rows, or 0
CurrentVote(rivals) ==
    IF CurrentAmong(rivals) = {} THEN 0
    ELSE CHOOSE i \in CurrentAmong(rivals) : \A j \in CurrentAmong(rivals) : j <= i

\* isNewerVote
IsNewer(i, current) == current = 0 \/ i > current

\* Mutant: the row replaced is dated by its own cast.
VoteRowsBackdated(i, current) ==
    IF ~IsNewer(i, current) THEN [votes EXCEPT ![i] = SupersededAt(i, current)]
    ELSE [j \in Ballots |->
            IF j = i THEN Current ELSE IF j = current THEN SupersededAt(j, i) ELSE votes[j]]

\* buildVoteRows: a late vote is superseded from the start.
VoteRows(i, current) ==
    IF ~IsNewer(i, current) THEN [votes EXCEPT ![i] = SupersededAt(i, current)]
    ELSE [j \in Ballots |->
            IF j = i THEN Current ELSE IF j = current THEN SupersededAt(i, i) ELSE votes[j]]

\* One insertBatch.
InsertVote(i, rivals) == votes' = VoteRows(i, CurrentVote(rivals))

\* ADR-0021: the votes that count at a time.
CountAt(time, rivals) ==
    {i \in rivals : /\ i <= time /\ votes[i] # Unwritten
                    /\ votes[i] = Current \/ votes[i].at > time}
=============================================================================
