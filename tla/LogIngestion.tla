---------------------------- MODULE LogIngestion ----------------------------
(***************************************************************************)
(* How the indexer ingests one EVM source: the orchestrator starts the     *)
(* live poller, and once its first tick has a confirmed head runs boot     *)
(* catch-up beside it, from the contiguous floor to that head.  The two    *)
(* share dao_source.poll_cursor_block and die together.                    *)
(***************************************************************************)
EXTENDS EventPoller, BackfillDriver, TLC

VARIABLES
    caughtUp,  \* this process has called runBootCatchUp
    holed,     \* history: a tick of it lost its place before any was recorded
    anew       \* history: where live coverage starts anew after such a process

\* Backfill and poller read the same logs of one new source.
ASSUME IngestionAssumption == Scope = Logs \ Malformed /\ NoBlock \in InitCursors

pollerOnly == <<seen, sent, pc, mem, tickVars, firstHead, faults, origin>>
bootVars == <<caughtUp, holed, anew>>
vars == <<chainVars, cursor, pollerOnly, driverVars, bootVars>>

TypeOK ==
    /\ PollerTypeOK /\ DriverTypeOK
    /\ caughtUp \in BOOLEAN /\ holed \in BOOLEAN /\ anew \in Nat

Init == PollerInit /\ DriverInit /\ caughtUp = FALSE /\ holed = FALSE /\ anew = 0

-----------------------------------------------------------------------------
\* A step of the live poller.  One whose cursor write fails, or seems to, while it
\* knows of no cursor resumes from the next head's window.
LiveStep ==
    /\ \/ /\ Start \/ Tick \/ FetchFails \/ ProduceFails \/ Prune
          /\ UNCHANGED holed
       \/ AdvanceCursorFails /\ holed' = (holed \/ mem = -1)
    /\ UNCHANGED <<driverVars, caughtUp, anew>>

\* runParallelCatchUp: once per process, when the first tick has its head.
BootCatchUp ==
    /\ firstHead # -1 /\ ~caughtUp
    /\ caughtUp' = TRUE
    /\ \/ BeginCatchUp(firstHead)
       \/ GapStart > firstHead /\ UNCHANGED <<chainVars, cursor, driverVars>>
    /\ UNCHANGED <<pollerOnly, holed, anew>>

CatchUpStep ==
    /\ Work \/ Abandon
    /\ UNCHANGED <<pollerOnly, bootVars>>

\* The process stops: the poller and the run in flight go with it.
StopProcess ==
    /\ Stop
    /\ EndRun
    /\ caughtUp' = FALSE /\ holed' = FALSE
    /\ anew' = IF holed THEN cursor + 1 ELSE anew
    /\ UNCHANGED <<checkpointVars, archiveVars, failures, unsettled>>

ChainStep ==
    ChainNext /\ UNCHANGED <<cursor, pollerOnly, driverVars, bootVars>>

Next == LiveStep \/ BootCatchUp \/ CatchUpStep \/ StopProcess \/ ChainStep

Spec == Init /\ [][Next]_vars

\* The event loop serves the poller's timer and the catch-up task both.
FairSpec ==
    /\ Spec
    /\ WF_vars(Start /\ LiveStep) /\ WF_vars(Tick /\ LiveStep)
    /\ WF_vars(BootCatchUp) /\ WF_vars(Work /\ CatchUpStep)

-----------------------------------------------------------------------------
Ingested(l) == sent[l] > 0 \/ Handled(l)

\* The shared cursor covers what both wrote, whichever of them moved it and
\* wherever the process died: of the source's own blocks no final log between
\* the first live one and the cursor is missing, and once catch-up has brought
\* the floor to this process's first head none at all up to the cursor, so
\* nothing falls through where history meets the live window.  Only a process
\* that loses its first window leaves a hole, past which live coverage starts
\* anew, and the catch-up of a later one closes it.
CoveredBelowCursor ==
    ~holed => \A l \in Logs \ Malformed :
        /\ Canonical(l) /\ ActiveFrom <= BlockOf[l] /\ BlockOf[l] <= cursor
        /\ \/ origin <= BlockOf[l] /\ anew <= BlockOf[l]
           \/ firstHead # -1 /\ floor >= firstHead
        => Ingested(l)

\* A process that has its first head and lives on ingests the whole history of
\* the source and whatever the chain has confirmed, unless its one catch-up run
\* failed (nothing retries it before the next boot).
HistoryAndLiveIngested ==
    \A l \in Logs \ Malformed :
        (/\ firstHead # -1
         /\ Canonical(l) /\ BlockOf[l] \in ActiveFrom..ConfirmedHead)
        ~> (Ingested(l) \/ pc = "down" \/ failures > 0 \/ holed)
=============================================================================
