--------------------------- MODULE PolicyActions ----------------------------
(***************************************************************************)
(* The log of policy actions (policy/actions.jsonl), the provenance log    *)
(* (provenance/events.jsonl) and everything that appends to them or        *)
(* offers their holds for a decision:                                      *)
(*   - bearbrowser-propose-action.py: one append;                          *)
(*   - bearbrowser-page-summary.py, bearbrowser-page-comparison.py: a page *)
(*     record, then an action, then an event;                              *)
(*   - bearbrowser-resolve-action.py: reads the log, picks the action,     *)
(*     appends a decision, then an event;                                  *)
(*   - bearbrowser-sidecar-server.py and BearBrowserPolicyQueue.swift,     *)
(*     which start the resolver for the holds they last read;              *)
(*   - bearbrowser-policy-engine.py, with a hold queue of its own.         *)
(* The logs are files shared by processes that take no lock.  A run is one *)
(* process; it may be killed, or fail to write, before each of its         *)
(* appends.  An append is one step, as it is for these tools; the native   *)
(* shell, which proposes too (BBProposeAction), writes in several, and     *)
(* SharedLog has what that does to the file.                               *)
(*                                                                         *)
(* Abstraction: action identifiers (128 random bits) are positions in the  *)
(* log; a decision identifier is the run that drew it, so a decision and   *)
(* its event are related by their run.                                     *)
(***************************************************************************)
EXTENDS Naturals, Sequences, FiniteSets

CONSTANTS
    Run,            \* processes, each started at most once
    Proposer,       \* any process of propose-action: it takes one step
    Proposals,      \* the <<action type, profile>> pairs proposed
    MaxProposals,   \* bound: records written by propose-action
    MaxActions,     \* bound: records in the action log
    MaxEngineHolds  \* bound: records in the policy engine's hold queue

ASSUME ProposerAssumption == Proposer \notin Run
ASSUME BoundsAssumption ==
    /\ MaxProposals \in Nat
    /\ MaxActions \in Nat
    /\ MaxEngineHolds \in Nat

VARIABLES
    actions,        \* policy/actions.jsonl
    events,         \* provenance/events.jsonl
    pageRecords,    \* runs whose summary or comparison record is written
    engineHolds,    \* records in policy/hold-queue.jsonl
    pc, request, parent,  \* of each run: where it is, its arguments, the
                          \* action it resolves
    replying,       \* sidecar requests whose page is not sent yet
    page,           \* the holds the sidecar page offers
    menu            \* the holds the status bar menu offers

vars == <<actions, events, pageRecords, engineHolds, pc, request, parent,
          replying, page, menu>>

-----------------------------------------------------------------------------
(* The tables of propose-action.                                           *)

HeldTypes == {"compare_tabs", "share_page_with_agent", "request_credential",
              "request_autofill", "download_file", "upload_file",
              "read_clipboard", "write_clipboard", "run_automation",
              "write_memory_candidate", "commit_memory"}
ActionTypes == HeldTypes \cup {"navigate", "summarize_page"}
Profiles == {"human-secure", "agent-runtime", "bootstrap", "unknown"}
Decisions == {"allow", "deny"}
States == Decisions \cup {"hold", "observe"}

ASSUME ProposalsAssumption == Proposals \subseteq ActionTypes \X Profiles

AgentRuntimeDenied == {"request_credential", "request_autofill"}

DefaultDecision(type) ==
    CASE type = "navigate"       -> "allow"
      [] type = "summarize_page" -> "observe"
      [] type \in HeldTypes      -> "hold"

Classify(type, profile) ==
    CASE profile = "agent-runtime" /\ type = "navigate"            -> "hold"
      [] profile = "agent-runtime" /\ type \in AgentRuntimeDenied  -> "deny"
      [] OTHER                                   -> DefaultDecision(type)

-----------------------------------------------------------------------------
(* Records, requests and the queries every reader makes.                   *)

ActionId == 1..MaxActions

\* from is the action a decision resolves, 0 in a proposal.
ActionRecord == [type : ActionTypes, state : States,
                 from : 0..MaxActions, run : Run \cup {Proposer}]
EventRecord == [action : 0..MaxActions, decision : States, run : Run]

\* How a run was started and, for a resolver, the action it was given.  No
\* record has the identifier 0: an unknown action, or a decision of the
\* policy engine, whose identifiers are not those of actions.
Resolvers == {"id", "latest", "sidecar", "statusBar", "holdQueue"}
Pages == {"summary", "comparison"}
Request == [via : Resolvers \cup Pages, id : 0..MaxActions, decision : States]
NoRequest == [via |-> "id", id |-> 0, decision |-> "deny"]

ResolvedIds(log) == {log[i].from : i \in DOMAIN log} \ {0}
UnresolvedActions(log) ==
    {i \in DOMAIN log : log[i].state = "hold"} \ ResolvedIds(log)

\* Mutant: whatever is not allowed.
IsLatestNotAllowed(log, i) ==
    /\ log[i].state # "allow"
    /\ \A j \in DOMAIN log : j > i => log[j].state = "allow"

\* The last record with a hold, whether a later record resolves it or not.
IsLatestHeld(log, i) ==
    /\ log[i].state = "hold"
    /\ \A j \in DOMAIN log : j > i => log[j].state # "hold"

\* The actions a resolver may pick (one or none).
FindAction(log, req) ==
    {i \in DOMAIN log : IF req.via = "latest" THEN IsLatestHeld(log, i)
                                              ELSE i = req.id}

-----------------------------------------------------------------------------
Init ==
    /\ actions = <<>>
    /\ events = <<>>
    /\ pageRecords = {}
    /\ engineHolds = 0
    /\ pc = [r \in Run |-> "unused"]
    /\ request = [r \in Run |-> NoRequest]
    /\ parent = [r \in Run |-> 0]
    /\ replying = {}
    /\ page = {}
    /\ menu = {}

runVars == <<pc, request, parent>>
views == <<replying, page, menu>>

Proposed == {i \in DOMAIN actions : actions[i].run = Proposer}

\* propose-action: classify, then one append.  The shell proposes holds of
\* these types as well.
Propose(type, profile) ==
    /\ Cardinality(Proposed) < MaxProposals
    /\ Len(actions) < MaxActions
    /\ actions' = Append(actions, [type |-> type,
                                   state |-> Classify(type, profile),
                                   from |-> 0, run |-> Proposer])
    /\ UNCHANGED <<events, pageRecords, engineHolds, runVars, views>>

\* policy-engine: a decision to hold goes to its own queue.
EngineHold ==
    /\ engineHolds < MaxEngineHolds
    /\ engineHolds' = engineHolds + 1
    /\ UNCHANGED <<actions, events, pageRecords, runVars, views>>

\* page-summary and page-comparison start by writing the page record.
StartPage(r, via) ==
    /\ pc[r] = "unused"
    /\ pageRecords' = pageRecords \cup {r}
    /\ request' = [request EXCEPT ![r] =
          [via |-> via, id |-> 0,
           decision |-> IF via = "summary" THEN "observe" ELSE "hold"]]
    /\ pc' = [pc EXCEPT ![r] = "found"]
    /\ UNCHANGED <<actions, events, engineHolds, parent, views>>

StartResolver(r, via, id, decision) ==
    /\ pc[r] = "unused"
    /\ pc' = [pc EXCEPT ![r] = "started"]
    /\ request' = [request EXCEPT ![r] =
          [via |-> via, id |-> id, decision |-> decision]]
    /\ UNCHANGED <<actions, events, pageRecords, engineHolds, parent, page, menu>>

\* resolve-action from a command line, or the shell's Resolve Held.
ResolveById(r, id, decision) ==
    /\ StartResolver(r, "id", id, decision)
    /\ UNCHANGED replying

ResolveLatestHeld(r, decision) ==
    /\ StartResolver(r, "latest", 0, decision)
    /\ UNCHANGED replying

\* POST /action/allow and /action/deny, for a hold on the page last sent.
PostAction(r, id, decision) ==
    /\ id \in page
    /\ StartResolver(r, "sidecar", id, decision)
    /\ replying' = replying \cup {r}

\* POST /resolve, for a record of the policy engine's queue.
PostHold(r, decision) ==
    /\ engineHolds > 0
    /\ StartResolver(r, "holdQueue", 0, decision)
    /\ replying' = replying \cup {r}

\* Allow, Deny and each hold of Allow all and Deny all in the status bar.
ClickMenu(r, id, decision) ==
    /\ id \in menu
    /\ StartResolver(r, "statusBar", id, decision)
    /\ UNCHANGED replying

-----------------------------------------------------------------------------
(* The steps of a resolver once it is started.                             *)

Goto(r, from, to) ==
    /\ pc[r] = from
    /\ pc' = [pc EXCEPT ![r] = to]

\* The status bar passes --note, an option the resolver does not have.
RejectArguments(r) ==
    /\ request[r].via = "statusBar"
    /\ Goto(r, "started", "failed")
    /\ UNCHANGED <<actions, events, pageRecords, engineHolds, request, parent,
                   views>>

PickAction(r) ==
    /\ request[r].via # "statusBar"
    /\ Goto(r, "started", "found")
    /\ \E i \in FindAction(actions, request[r]) :
          parent' = [parent EXCEPT ![r] = i]
    /\ UNCHANGED <<actions, events, pageRecords, engineHolds, request, views>>

ActionNotFound(r) ==
    /\ request[r].via # "statusBar"
    /\ FindAction(actions, request[r]) = {}
    /\ Goto(r, "started", "failed")
    /\ UNCHANGED <<actions, events, pageRecords, engineHolds, request, parent,
                   views>>

\* Mutant: the type of the last record.
TypeOfLatest(r) ==
    CASE request[r].via = "summary"    -> "summarize_page"
      [] request[r].via = "comparison" -> "compare_tabs"
      [] request[r].via \in Resolvers  -> actions[Len(actions)].type

\* A decision copies the type of the action it resolves.
RecordType(r) ==
    CASE request[r].via = "summary"    -> "summarize_page"
      [] request[r].via = "comparison" -> "compare_tabs"
      [] request[r].via \in Resolvers  -> actions[parent[r]].type

\* Mutant: the action is decided where it stands.
DecideInPlace(r) ==
    /\ Goto(r, "found", "logged")
    /\ actions' = [actions EXCEPT ![parent[r]].state = request[r].decision]
    /\ UNCHANGED <<events, pageRecords, engineHolds, request, parent, views>>

LogAction(r) ==
    /\ Len(actions) < MaxActions
    /\ Goto(r, "found", "logged")
    /\ actions' = Append(actions, [type |-> RecordType(r),
                                   state |-> request[r].decision,
                                   from |-> parent[r], run |-> r])
    /\ UNCHANGED <<events, pageRecords, engineHolds, request, parent, views>>

\* Mutant: the event is written first.
EventFirst(r) ==
    /\ Goto(r, "found", "done")
    /\ events' = Append(events, [action |-> parent[r],
                                 decision |-> request[r].decision, run |-> r])
    /\ UNCHANGED <<actions, pageRecords, engineHolds, request, parent, views>>

LogEvent(r) ==
    /\ Goto(r, "logged", "done")
    /\ events' = Append(events, [action |-> parent[r],
                                 decision |-> request[r].decision, run |-> r])
    /\ UNCHANGED <<actions, pageRecords, engineHolds, request, parent, views>>

\* The process is killed, or a write raises.
Crash(r) ==
    /\ pc[r] \in {"started", "found", "logged"}
    /\ pc' = [pc EXCEPT ![r] = "crashed"]
    /\ UNCHANGED <<actions, events, pageRecords, engineHolds, request, parent,
                   views>>

-----------------------------------------------------------------------------
(* What the two interfaces show.                                           *)

\* The sidecar answers a POST with a fresh page once its resolver has ended.
Reply(r) ==
    /\ r \in replying
    /\ pc[r] \in {"done", "failed", "crashed"}
    /\ replying' = replying \ {r}
    /\ page' = UnresolvedActions(actions)
    /\ UNCHANGED <<actions, events, pageRecords, engineHolds, runVars, menu>>

GetPage ==
    /\ page' = UnresolvedActions(actions)
    /\ UNCHANGED <<actions, events, pageRecords, engineHolds, runVars,
                   replying, menu>>

\* The three-second poll of the status bar, or the refresh after a click.
RefreshMenu ==
    /\ menu' = UnresolvedActions(actions)
    /\ UNCHANGED <<actions, events, pageRecords, engineHolds, runVars,
                   replying, page>>

-----------------------------------------------------------------------------
Step(r) ==
    \/ RejectArguments(r)
    \/ PickAction(r)
    \/ ActionNotFound(r)
    \/ LogAction(r)
    \/ LogEvent(r)

Start(r) ==
    \/ \E via \in Pages : StartPage(r, via)
    \/ \E d \in Decisions :
          \/ \E id \in {0} \cup DOMAIN actions : ResolveById(r, id, d)
          \/ ResolveLatestHeld(r, d)
          \/ \E id \in page : PostAction(r, id, d)
          \/ PostHold(r, d)
          \/ \E id \in menu : ClickMenu(r, id, d)

Next ==
    \/ \E p \in Proposals : Propose(p[1], p[2])
    \/ EngineHold
    \/ \E r \in Run : Start(r) \/ Step(r) \/ Crash(r) \/ Reply(r)
    \/ GetPage
    \/ RefreshMenu

Spec == Init /\ [][Next]_vars

\* The system schedules a process that has been started.
FairSpec == Spec /\ \A r \in Run : WF_vars(Step(r))

-----------------------------------------------------------------------------
(* Properties.                                                             *)

\* Every record has the shape its writer gives it; positions stay in bounds.
TypeOK ==
    /\ actions \in Seq(ActionRecord)
    /\ Len(actions) <= MaxActions
    /\ events \in Seq(EventRecord)
    /\ pageRecords \subseteq Run
    /\ engineHolds \in 0..MaxEngineHolds
    /\ pc \in [Run -> {"unused", "started", "found", "logged", "done",
                       "failed", "crashed"}]
    /\ request \in [Run -> Request]
    /\ parent \in [Run -> 0..MaxActions]
    /\ replying \subseteq Run
    /\ page \subseteq ActionId
    /\ menu \subseteq ActionId

\* A decision names an action recorded before it, and has its type: whatever
\* was appended between the resolver's reading and its writing, following the
\* chain of decisions ends at the proposal of the same kind of action.
DecisionsFollowTheirAction ==
    \A i \in DOMAIN actions : actions[i].from # 0 =>
        /\ actions[i].from < i
        /\ actions[actions[i].from].type = actions[i].type

\* The provenance log tells of decisions that are in the action log, once
\* each, and a process that ended well has told of its own.  A record
\* without an event was written by a process still under way or killed.
EventsMatchRecords ==
    /\ \A e \in DOMAIN events :
          /\ pc[events[e].run] = "done"
          /\ \E i \in DOMAIN actions :
                /\ actions[i].run = events[e].run
                /\ actions[i].from = events[e].action
                /\ actions[i].state = events[e].decision
          /\ \A f \in DOMAIN events : events[f].run = events[e].run => f = e
    /\ \A r \in Run : pc[r] = "done" =>
          \E e \in DOMAIN events : events[e].run = r
    /\ \A i \in DOMAIN actions : actions[i].run # Proposer =>
          pc[actions[i].run] \in {"logged", "done", "crashed"}

\* Resolve Held, the sidecar and the status bar decide only what was held,
\* however stale the page or the menu: what the policy denied (an agent's
\* request for a credential) is overturned only by an explicit --action-id.
QueuesDecideHoldsOnly ==
    \A i \in DOMAIN actions :
        (/\ actions[i].from # 0
         /\ request[actions[i].run].via # "id")
            => actions[actions[i].from].state = "hold"

\* The log implements the abstract ledger: an action that has left the queue
\* never comes back to it, whatever the writers interleave.
Ledger == INSTANCE HoldLedger WITH
    Id <- ActionId,
    pending <- UnresolvedActions(actions),
    settled <- ResolvedIds(actions),
    recorded <- DOMAIN actions \ (UnresolvedActions(actions)
                                    \cup ResolvedIds(actions))
LedgerSpec == Ledger!Spec

\* governance-queue recommends --latest-held for what it lists as unresolved:
\* with an unresolved hold in the log, --latest-held picks one of them.
LatestHeldIsUnresolved ==
    [][\A r \in Run :
          (/\ request[r].via = "latest"
           /\ pc[r] = "started" /\ pc'[r] = "found"
           /\ UnresolvedActions(actions) # {})
              => parent'[r] \in UnresolvedActions(actions)]_vars

\* A click in the status bar menu whose resolver ended by itself has left a
\* decision on the action clicked.
ClicksLeaveADecision ==
    \A r \in Run :
        (request[r].via = "statusBar" /\ pc[r] \in {"done", "failed"})
            => \E i \in DOMAIN actions :
                  actions[i].run = r /\ actions[i].from = request[r].id
=============================================================================
