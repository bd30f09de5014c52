---------------------------- MODULE BlockerSync ----------------------------
(***************************************************************************)
(* scripts/bearbrowser-sync-blocker-receipts.py: what BearBlocker appends  *)
(* to bearblocker-receipts.jsonl is forwarded to events.jsonl, a process   *)
(* of bearbrowser-emit-event.py for each line.  A cursor file says how far *)
(* it has come.  It runs at each launch of the browser and may poll, so    *)
(* that two may run; each may be killed.                                   *)
(*                                                                         *)
(* Positions in the receipts file are counted in half lines: line n is the *)
(* halves 2n-1 and 2n, and a reader may come between them.                 *)
(***************************************************************************)
EXTENDS MemoryCandidates

CONSTANTS
    Syncer,
    Blocks,         \* the lines that tell of a network block
    MaxReceipts     \* bound: lines of the receipts file

ASSUME ReceiptsAssumption == MaxReceipts \in Nat

VARIABLES
    halves,         \* the length of the receipts file
    cursor,         \* the cursor file; 0 as well when it is missing or empty
    spc, start, end,  \* of each syncer: where it is, the part it has read,
    batch, forwarded, \* the lines of it left to emit, how many it has emitted
    failed, torn,   \* history: lines that an emit failed for, or read in part
    overlapped      \* history: a syncer ended before its time, or two overlapped

syncerVars == <<spc, start, end, batch, forwarded, overlapped>>
blockerVars == <<halves, cursor, failed, torn, syncerVars>>

-----------------------------------------------------------------------------
Lines == 1 .. MaxReceipts

\* The whole lines, and the lines of which only one half, between two positions.
WholeLines(from, to) == {n \in Lines : from < 2 * n - 1 /\ 2 * n <= to}
CutLines(from, to) ==
    {n \in Lines : \/ from < 2 * n - 1 /\ to = 2 * n - 1
                   \/ from = 2 * n - 1 /\ to > from}

BlockerInit ==
    /\ halves = 0
    /\ cursor = 0
    /\ spc = [s \in Syncer |-> "idle"]
    /\ start = [s \in Syncer |-> 0]
    /\ end = [s \in Syncer |-> 0]
    /\ batch = [s \in Syncer |-> {}]
    /\ forwarded = [s \in Syncer |-> 0]
    /\ failed = {}
    /\ torn = {}
    /\ overlapped = FALSE

GotoS(s, from, to) ==
    /\ spc[s] = from
    /\ spc' = [spc EXCEPT ![s] = to]

-----------------------------------------------------------------------------
\* BearBlockerPolicy appends a line; a half of it may be there first.
AppendReceipt ==
    /\ halves < 2 * MaxReceipts
    /\ \/ halves' = halves + 1
       \/ halves % 2 = 0 /\ halves' = halves + 2
    /\ UNCHANGED <<events, cursor, failed, torn, syncerVars, kills>>

ReadCursor(s) ==
    /\ GotoS(s, "idle", "read")
    /\ start' = [start EXCEPT ![s] = cursor]
    /\ overlapped' = (overlapped \/ \E r \in Syncer : spc[r] # "idle")
    /\ UNCHANGED <<events, halves, cursor, failed, torn, end, batch, forwarded, kills>>

\* Everything from the cursor on; what is no JSON is skipped, if it is text.
ReadReceipts(s) ==
    /\ GotoS(s, "read", "emit")
    /\ end' = [end EXCEPT ![s] = halves]
    /\ batch' = [batch EXCEPT ![s] = WholeLines(start[s], halves)]
    /\ torn' = torn \cup CutLines(start[s], halves)
    /\ UNCHANGED <<events, halves, cursor, failed, start, forwarded, overlapped, kills>>

\* The event of a line.
Forward(n) == Event("automation.observed", n, IF n \in Blocks THEN "deny" ELSE "observe")

\* emit_event, line after line: a process that appends an event and then prints
\* it.  When it fails the event may be there all the same.
Emit(s) ==
    /\ spc[s] = "emit"
    /\ \E n \in batch[s] :
          /\ \A m \in batch[s] : n <= m
          /\ batch' = [batch EXCEPT ![s] = @ \ {n}]
          /\ \/ /\ AppendEvent(Forward(n))
                /\ forwarded' = [forwarded EXCEPT ![s] = @ + 1]
                /\ UNCHANGED failed
             \/ /\ failed' = failed \cup {n}
                /\ AppendEvent(Forward(n)) \/ UNCHANGED events
                /\ UNCHANGED forwarded
    /\ UNCHANGED <<halves, cursor, torn, spc, start, end, overlapped, kills>>

\* Back to where a syncer begins.
Reset(s) ==
    /\ start' = [start EXCEPT ![s] = 0]
    /\ end' = [end EXCEPT ![s] = 0]
    /\ batch' = [batch EXCEPT ![s] = {}]
    /\ forwarded' = [forwarded EXCEPT ![s] = 0]

\* Mutant: the cursor stays when any emit has failed.
KeepCursorIfAny(s) ==
    /\ batch[s] = {}
    /\ forwarded[s] < Cardinality(WholeLines(start[s], end[s])) \/ forwarded[s] = 0
    /\ GotoS(s, "emit", "idle")
    /\ Reset(s)
    /\ UNCHANGED <<events, halves, cursor, failed, torn, overlapped, kills>>

\* Nothing was forwarded: the cursor stays.
KeepCursor(s) ==
    /\ batch[s] = {}
    /\ forwarded[s] = 0
    /\ GotoS(s, "emit", "idle")
    /\ Reset(s)
    /\ UNCHANGED <<events, halves, cursor, failed, torn, overlapped, kills>>

\* Mutant: the cursor is the length of the file now.
CursorToEnd(s) ==
    /\ GotoS(s, "write", "idle")
    /\ cursor' = halves
    /\ Reset(s)
    /\ UNCHANGED <<events, halves, failed, torn, overlapped, kills>>

\* write_text empties the cursor file, then writes it.
EmptyCursor(s) ==
    /\ batch[s] = {}
    /\ forwarded[s] > 0
    /\ GotoS(s, "emit", "write")
    /\ cursor' = 0
    /\ UNCHANGED <<events, halves, failed, torn, start, end, batch, forwarded, overlapped, kills>>

WriteCursor(s) ==
    /\ GotoS(s, "write", "idle")
    /\ cursor' = end[s]
    /\ Reset(s)
    /\ UNCHANGED <<events, halves, failed, torn, overlapped, kills>>

EndSyncer(s) ==
    /\ spc' = [spc EXCEPT ![s] = "idle"]
    /\ Reset(s)
    /\ overlapped' = TRUE
    /\ UNCHANGED <<events, halves, cursor, failed, torn>>

\* An exception that nobody catches: a line that was cut within a character, a
\* process that cannot be started, a cursor that cannot be written.
Abort(s) ==
    /\ spc[s] \in {"emit", "write"}
    /\ EndSyncer(s)
    /\ UNCHANGED kills

KillSyncer(s) ==
    /\ spc[s] # "idle"
    /\ kills < MaxKills
    /\ kills' = kills + 1
    /\ EndSyncer(s)

SyncerStep(s) ==
    \/ ReadCursor(s) \/ ReadReceipts(s) \/ Emit(s)
    \/ KeepCursor(s) \/ EmptyCursor(s) \/ WriteCursor(s) \/ Abort(s) \/ KillSyncer(s)

-----------------------------------------------------------------------------
(* Properties.                                                             *)

ForwardsOf(n) == {e \in DOMAIN events : events[e] = Forward(n)}

\* The cursor passes no line that was not emitted, except one whose emit has
\* failed or that was read in part: whoever is killed, whatever is appended
\* meanwhile, and although two syncers overwrite each other's cursor.
CursorPassesOnlyHandled ==
    \A n \in Lines : 2 * n <= cursor => ForwardsOf(n) # {} \/ n \in failed \cup torn

\* "re-runs are idempotent -- only unseen lines are forwarded": true of runs
\* one after the other that all come to their end, of every line for which no
\* emit has failed, whichever emits of other lines fail.
ForwardedOnceUndisturbed ==
    ~overlapped => \A n \in Lines \ failed : Cardinality(ForwardsOf(n)) <= 1
=============================================================================
