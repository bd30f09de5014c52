----------------------------- MODULE MeshBridge -----------------------------
(***************************************************************************)
(* scripts/bearbrowser-mesh-bridge.py: pushes events and page summaries to *)
(* the memory mesh (context.jsonl), pulls the notes of other programs from *)
(* it into candidates.jsonl, and keeps what it has synced in a database    *)
(* that it reads first and writes last.  A bridge may be killed, and two   *)
(* may run: one that watches, one from a command line.                     *)
(*                                                                         *)
(* Events are known by their position; summary k is known by MaxEvents + k.*)
(* A note is known by its key, its time and title.                         *)
(***************************************************************************)
EXTENDS MemoryCandidates

CONSTANTS
    Bridge,
    Mode,           \* of each bridge: "both", --"push" or --"pull"
    MeshLimit,      \* lines kept in the mesh (5000)
    Window,         \* lines of it a pull looks at (200)
    MaxSummaries,   \* bound: page summaries
    Notes           \* keys of the notes other programs write

ASSUME ModeAssumption == Mode \in [Bridge -> {"both", "push", "pull"}]
ASSUME LimitsAssumption == MeshLimit \in Nat \ {0} /\ Window \in 1 .. MeshLimit
ASSUME SummariesAssumption == MaxSummaries \in Nat

VARIABLES
    summaries,      \* page-summaries.jsonl: how many
    noted,          \* the notes written
    mesh,           \* context.jsonl
    syncDb,         \* .bearbrowser-sync.json
    bpc, local,     \* of each bridge: where it is, the database it has read,
    todo,           \* the lines it has read and not come to,
    snapshot,       \* and the lines it is going to keep
    pushes, pulls,  \* history: how often each was passed on, 2 for more
    disturbed       \* history: a bridge was killed or two have overlapped

bridgeVars == <<bpc, local, todo, snapshot, disturbed>>
fileVars == <<summaries, noted>>
meshVars == <<fileVars, mesh, syncDb, pushes, pulls, bridgeVars>>

-----------------------------------------------------------------------------
Source == 1 .. MaxEvents + MaxSummaries
EmptyDb == [pushed |-> {}, pulled |-> {}]

InterestingEvents == {"navigation.committed", "page.shared_with_agent", "memory.committed",
                      "memory.candidate_created", "browser.capture.create",
                      "capture.capture-export"}
PulledKinds == {"capture", "note", "shell-cmd", "ai-response"}

Interesting == {i \in DOMAIN events : events[i].type \in InterestingEvents}

\* "Skip denied policy decisions": the word is "denied".
Skipped == {i \in DOMAIN events : events[i].decision = "denied"}
Summarized == {MaxEvents + k : k \in 1 .. summaries}

\* A line of the mesh.
Line(source, kind, of) == [source |-> source, kind |-> kind, of |-> of]

\* load_jsonl: either file in its order, as the lines it makes in the mesh.
EventLines == [i \in DOMAIN events |-> Line("bearbrowser", "browse", i)]
SummaryLines == [k \in 1 .. summaries |-> Line("bearbrowser", "browse-summary", MaxEvents + k)]

\* The last n lines.
Recent(lines, n) == IF Len(lines) <= n THEN lines ELSE SubSeq(lines, Len(lines) - n + 1, Len(lines))

\* A line that a pull takes, and such lines among the last ones.
IsNote(l) == l.source # "bearbrowser" /\ l.kind \in PulledKinds
Notable(lines) == {l \in ToSet(Recent(lines, Window)) : IsNote(l)}

Once(count, x) == [count EXCEPT ![x] = IF @ = 0 THEN 1 ELSE 2]

MeshInit ==
    /\ summaries = 0
    /\ noted = {}
    /\ mesh = <<>>
    /\ syncDb = EmptyDb
    /\ bpc = [b \in Bridge |-> "idle"]
    /\ local = [b \in Bridge |-> EmptyDb]
    /\ todo = [b \in Bridge |-> <<>>]
    /\ snapshot = [b \in Bridge |-> <<>>]
    /\ pushes = [x \in Source |-> 0]
    /\ pulls = [k \in Notes |-> 0]
    /\ disturbed = FALSE

\* Whether the line a bridge has come to is to be passed on.
ToPush(b) ==
    Head(todo[b]).of \in ((Interesting \ Skipped) \cup Summarized) \ local[b].pushed
ToPull(b) == IsNote(Head(todo[b])) /\ Head(todo[b]).of \notin local[b].pulled

GotoB(b, from, to) ==
    /\ bpc[b] = from
    /\ bpc' = [bpc EXCEPT ![b] = to]

-----------------------------------------------------------------------------
(* sync_once.                                                              *)

\* load_sync_db; a database that is being written reads as an empty one.
BeginSync(b) ==
    /\ GotoB(b, "idle", IF Mode[b] = "pull" THEN "readMesh" ELSE "readEvents")
    /\ local' = [local EXCEPT ![b] = syncDb]
    /\ disturbed' = (disturbed \/ \E c \in Bridge : bpc[c] # "idle")
    /\ UNCHANGED <<memory, fileVars, mesh, syncDb, todo, snapshot, pushes, pulls, kills>>

\* Mutant: what is not pushed counts as synced.
SkippedIsSynced(b) ==
    /\ todo' = [todo EXCEPT ![b] = EventLines]
    /\ local' = [local EXCEPT ![b].pushed = @ \cup DOMAIN events]
    /\ GotoB(b, "readEvents", "pushEvents")
    /\ UNCHANGED <<memory, fileVars, mesh, syncDb, snapshot, disturbed, pushes, pulls, kills>>

\* bb_to_mesh reads the events, and the summaries when it has pushed the events.
ReadEvents(b) ==
    /\ todo' = [todo EXCEPT ![b] = EventLines]
    /\ GotoB(b, "readEvents", "pushEvents")
    /\ UNCHANGED <<memory, fileVars, mesh, syncDb, local, snapshot, disturbed, pushes, pulls, kills>>

\* Mutant: the events again.
ReadEventsTwice(b) ==
    /\ todo[b] = <<>> /\ snapshot[b] = <<>>
    /\ todo' = [todo EXCEPT ![b] = EventLines]
    /\ GotoB(b, "pushEvents", "pushSummaries")
    /\ UNCHANGED <<memory, fileVars, mesh, syncDb, local, snapshot, disturbed, pushes, pulls, kills>>

ReadSummaries(b) ==
    /\ todo[b] = <<>> /\ snapshot[b] = <<>>
    /\ todo' = [todo EXCEPT ![b] = SummaryLines]
    /\ GotoB(b, "pushEvents", "pushSummaries")
    /\ UNCHANGED <<memory, fileVars, mesh, syncDb, local, snapshot, disturbed, pushes, pulls, kills>>

\* One line for the mesh.  A mesh that is too long is read back to be cut.
PushNext(b) ==
    LET longer == Append(mesh, Head(todo[b]))
    IN  /\ bpc[b] \in {"pushEvents", "pushSummaries"}
        /\ todo[b] # <<>> /\ ToPush(b)
        /\ snapshot[b] = <<>>
        /\ mesh' = longer
        /\ snapshot' = [snapshot EXCEPT ![b] =
              IF Len(longer) > MeshLimit THEN Recent(longer, MeshLimit) ELSE <<>>]
        /\ local' = [local EXCEPT ![b].pushed = @ \cup {Head(todo[b]).of}]
        /\ todo' = [todo EXCEPT ![b] = Tail(@)]
        /\ pushes' = Once(pushes, Head(todo[b]).of)
        /\ UNCHANGED <<memory, fileVars, syncDb, bpc, disturbed, pulls, kills>>

\* write_text empties the mesh ...
EmptyMesh(b) ==
    /\ snapshot[b] # <<>>
    /\ GotoB(b, "pushEvents", "cutEvents") \/ GotoB(b, "pushSummaries", "cutSummaries")
    /\ mesh' = <<>>
    /\ UNCHANGED <<memory, fileVars, syncDb, local, todo, snapshot, disturbed, pushes, pulls, kills>>

\* ... and writes the lines that are kept over whatever it has become, or fails
\* to, which is ignored.
Trim(b) ==
    /\ GotoB(b, "cutEvents", "pushEvents") \/ GotoB(b, "cutSummaries", "pushSummaries")
    /\ \/ mesh' = snapshot[b] \o SubSeq(mesh, Len(snapshot[b]) + 1, Len(mesh))
       \/ mesh' = mesh
    /\ snapshot' = [snapshot EXCEPT ![b] = <<>>]
    /\ UNCHANGED <<memory, fileVars, syncDb, local, todo, disturbed, pushes, pulls, kills>>

EndPush(b) ==
    /\ todo[b] = <<>>
    /\ snapshot[b] = <<>>
    /\ GotoB(b, "pushSummaries", IF Mode[b] = "push" THEN "active" ELSE "readMesh")
    /\ UNCHANGED <<memory, fileVars, mesh, syncDb, local, todo, snapshot, disturbed, pushes, pulls,
                   kills>>

\* mesh_to_bb
ReadMesh(b) ==
    /\ todo' = [todo EXCEPT ![b] = Recent(mesh, Window)]
    /\ GotoB(b, "readMesh", "pull")
    /\ UNCHANGED <<memory, fileVars, mesh, syncDb, local, snapshot, disturbed, pushes, pulls, kills>>

\* In every loop: a line that is not wanted, or whose key is synced already.
SkipLine(b) ==
    /\ todo[b] # <<>>
    /\ \/ bpc[b] \in {"pushEvents", "pushSummaries"} /\ snapshot[b] = <<>> /\ ~ToPush(b)
       \/ bpc[b] = "pull" /\ ~ToPull(b)
    /\ todo' = [todo EXCEPT ![b] = Tail(@)]
    /\ UNCHANGED <<memory, fileVars, mesh, syncDb, bpc, local, snapshot, disturbed, pushes, pulls, kills>>

\* A candidate in a format of its own: candidateId, status and committed
\* where the memory tool has memoryId and state, and the text as it came.
PullNext(b) ==
    /\ bpc[b] = "pull"
    /\ todo[b] # <<>> /\ ToPull(b)
    /\ AppendMemory(Record("proposed", "none", "memory-mesh", 0, "plain", "plain", "mesh", 0))
    /\ local' = [local EXCEPT ![b].pulled = @ \cup {Head(todo[b]).of}]
    /\ todo' = [todo EXCEPT ![b] = Tail(@)]
    /\ pulls' = Once(pulls, Head(todo[b]).of)
    /\ UNCHANGED <<fileVars, mesh, syncDb, bpc, snapshot, disturbed, pushes, kills>>

EndPull(b) ==
    /\ todo[b] = <<>>
    /\ GotoB(b, "pull", "active")
    /\ UNCHANGED <<memory, fileVars, mesh, syncDb, local, todo, snapshot, disturbed, pushes, pulls,
                   kills>>

\* push_active_context copies active.json for the sidebar (nobody here reads the
\* copy).  One that is no object, or a copy that cannot be written, raises, and
\* the sync ends like one that is killed.
PushActiveContext(b) ==
    /\ bpc[b] = "active"
    /\ bpc' = [bpc EXCEPT ![b] = "save"]
    /\ UNCHANGED <<memory, fileVars, mesh, syncDb, local, todo, snapshot, disturbed, pushes, pulls,
                   kills>>

\* Mutant: only the half that was synced last is kept.
SavePulledOnly(b) ==
    /\ GotoB(b, "saving", "idle")
    /\ syncDb' = [EmptyDb EXCEPT !.pulled = local[b].pulled]
    /\ local' = [local EXCEPT ![b] = EmptyDb]
    /\ UNCHANGED <<memory, fileVars, mesh, todo, snapshot, disturbed, pushes, pulls, kills>>

\* save_sync_db: write_text empties the file, then writes it.
EmptySyncDb(b) ==
    /\ GotoB(b, "save", "saving")
    /\ syncDb' = EmptyDb
    /\ UNCHANGED <<memory, fileVars, mesh, local, todo, snapshot, disturbed, pushes, pulls, kills>>

SaveSyncDb(b) ==
    /\ GotoB(b, "saving", "idle")
    /\ syncDb' = local[b]
    /\ local' = [local EXCEPT ![b] = EmptyDb]
    /\ UNCHANGED <<memory, fileVars, mesh, todo, snapshot, disturbed, pushes, pulls, kills>>

\* Killed, or an exception that the watching bridge reports: until the
\* database is saved, it is as it was.
KillBridge(b) ==
    /\ bpc[b] # "idle"
    /\ kills < MaxKills
    /\ kills' = kills + 1
    /\ bpc' = [bpc EXCEPT ![b] = "idle"]
    /\ local' = [local EXCEPT ![b] = EmptyDb]
    /\ todo' = [todo EXCEPT ![b] = <<>>]
    /\ snapshot' = [snapshot EXCEPT ![b] = <<>>]
    /\ disturbed' = TRUE
    /\ UNCHANGED <<memory, fileVars, mesh, syncDb, pushes, pulls>>

Sync(b) ==
    \/ BeginSync(b)
    \/ ReadEvents(b) \/ ReadSummaries(b) \/ PushNext(b) \/ EmptyMesh(b) \/ Trim(b) \/ EndPush(b)
    \/ ReadMesh(b) \/ PullNext(b) \/ EndPull(b)
    \/ SkipLine(b)
    \/ PushActiveContext(b)
    \/ EmptySyncDb(b) \/ SaveSyncDb(b)

-----------------------------------------------------------------------------
(* The others who write: page-summary, and programs that share the mesh.   *)

AddSummary ==
    /\ summaries < MaxSummaries
    /\ summaries' = summaries + 1
    /\ UNCHANGED <<memory, noted, mesh, syncDb, pushes, pulls, bridgeVars, kills>>

AddNote(k, kind) ==
    /\ k \notin noted
    /\ noted' = noted \cup {k}
    /\ mesh' = Append(mesh, Line("terminal", kind, k))
    /\ UNCHANGED <<memory, summaries, syncDb, pushes, pulls, bridgeVars, kills>>

-----------------------------------------------------------------------------
(* Properties.                                                             *)

\* What the database calls synced was written to the other side: whoever is
\* killed, and however two bridges interleave, nothing is passed over.
SyncedWasPassedOn ==
    /\ \A x \in syncDb.pushed : pushes[x] > 0
    /\ \A k \in syncDb.pulled : pulls[k] > 0

\* Bridges that run one after the other, none of them killed, pass everything
\* on once, and between two syncs the database has exactly what was passed on.
SyncedOnceUndisturbed ==
    ~disturbed =>
        /\ \A x \in Source : pushes[x] <= 1
        /\ \A k \in Notes : pulls[k] <= 1
        /\ (\A b \in Bridge : bpc[b] = "idle") =>
              /\ syncDb.pushed = {x \in Source : pushes[x] = 1}
              /\ syncDb.pulled = {k \in Notes : pulls[k] = 1}
=============================================================================
