----------------------------- MODULE MemoryMesh -----------------------------
(***************************************************************************)
(* The programs that meet in candidates.jsonl and events.jsonl: the memory *)
(* tool writes both; the mesh bridge reads events and writes candidates;   *)
(* the BearBlocker syncer and the shell write events.  What runs together  *)
(* is a deployment: all of it would be too much for TLC at once.           *)
(***************************************************************************)
EXTENDS MeshBridge, BlockerSync

CONSTANTS
    Emissions,      \* what the shell emits: types, each with a decision
    Kinds,          \* what other programs write to the mesh
    Deployments     \* actors that may run together, and how much of each file
                    \* they may write (bounds)

CONSTANTS Shell, Summarizer, Others, Blocker, Sidecar   \* the other actors

Actors == Tool \cup Bridge \cup Syncer \cup {Shell, Summarizer, Others, Blocker, Sidecar}

ASSUME DeploymentsAssumption ==
    Deployments \subseteq [with : SUBSET Actors, records : 0 .. MaxRecords,
                           events : 0 .. MaxEvents, notes : SUBSET Notes]
ASSUME KindsAssumption == \A e \in Emissions : e.type \notin MemoryEvents

VARIABLES deployed

vars == <<deployed, memory, events, kills, toolVars, meshVars, blockerVars>>

-----------------------------------------------------------------------------
Init ==
    /\ deployed \in Deployments
    /\ MemoryInit
    /\ MeshInit
    /\ BlockerInit

Bounded == Len(memory') <= deployed.records /\ Len(events') <= deployed.events

MemoryActor ==
    /\ \/ \E t \in Tool \cap deployed.with : ToolStep(t)
       \/ Sidecar \in deployed.with /\ ShowPage
       \/ Shell \in deployed.with /\ \E e \in Emissions : EmitEvent(e.type, e.decision)
    /\ UNCHANGED <<deployed, meshVars, blockerVars>>
    /\ Bounded

BridgeStep(b) ==
    /\ b \in deployed.with
    /\ Sync(b)
    /\ UNCHANGED <<deployed, events, toolVars, blockerVars>>
    /\ Bounded

MeshActor ==
    /\ \/ \E b \in Bridge \cap deployed.with : KillBridge(b)
       \/ Summarizer \in deployed.with /\ AddSummary
       \/ Others \in deployed.with /\ \E k \in deployed.notes, kind \in Kinds : AddNote(k, kind)
    /\ UNCHANGED <<deployed, events, toolVars, blockerVars>>

BlockerActor ==
    /\ \/ \E s \in Syncer \cap deployed.with : SyncerStep(s)
       \/ Blocker \in deployed.with /\ AppendReceipt
    /\ UNCHANGED <<deployed, memory, toolVars, meshVars>>
    /\ Bounded

Next ==
    \/ MemoryActor
    \/ \E b \in Bridge : BridgeStep(b)
    \/ MeshActor
    \/ BlockerActor

Spec == Init /\ [][Next]_vars

\* A bridge that watches syncs every twenty seconds, and is started again.
FairSpec == Spec /\ \A b \in Bridge : WF_vars(BridgeStep(b))

-----------------------------------------------------------------------------
(* Properties.                                                             *)

TypeOK ==
    /\ deployed \in Deployments
    /\ \A i \in DOMAIN memory :
          /\ memory[i].state \in {"candidate", "committed", "rejected", "proposed"}
          /\ memory[i].of \in 0 .. i - 1
          /\ memory[i].seen \in 0 .. i - 1
    /\ Len(events) <= MaxEvents
    /\ \A t \in Tool : tpc[t] # "idle" => choice[t].of \in DOMAIN memory
    /\ page.shown \subseteq 1 .. page.at /\ page.at \in 0 .. Len(memory)
    /\ \A b \in Bridge :
          /\ local[b].pushed \subseteq Source
          /\ local[b].pulled \subseteq Notes
          /\ Len(snapshot[b]) \in {0, MeshLimit}
    /\ cursor \in 0 .. halves
    /\ \A s \in Syncer : start[s] <= halves /\ end[s] <= halves

Denied == {i \in DOMAIN events : events[i].decision \in {"deny", "denied"}}

\* With a bridge that pushes, every event of interest that is not of a denial,
\* and every summary, comes to the mesh; with one that pulls, every note that
\* stays among the last lines of the mesh comes to the candidates.  (Notes that
\* are buried or cut off before a pull are lost.)
EverythingIsPassedOn ==
    /\ \A x \in Source :
          (/\ x \in (Interesting \ Denied) \cup Summarized
           /\ \E b \in Bridge \cap deployed.with : Mode[b] # "pull")
              ~> pushes[x] > 0
    /\ \A k \in Notes :
          <>[](/\ k \in {l.of : l \in Notable(mesh)}
               /\ \E b \in Bridge \cap deployed.with : Mode[b] # "push")
              => <>(pulls[k] > 0)

\* "Skip denied policy decisions (don't pollute mesh with blocked attempts)".
DenialsStayOut == \A i \in Denied : pushes[i] = 0
=============================================================================
