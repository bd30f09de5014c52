-------------------------- MODULE MemoryCandidates --------------------------
(***************************************************************************)
(* memory/candidates.jsonl and scripts/bearbrowser-memory-candidate.py,    *)
(* the one tool that creates, commits and rejects candidates: from a       *)
(* command line, by --latest-candidate, or started by the sidecar's page.  *)
(* A run of the tool reads, appends its record, then appends an event to   *)
(* provenance/events.jsonl; other runs come between, and it may be killed. *)
(*                                                                         *)
(* A record or an event is named by its position in its file.  Files only  *)
(* grow, and an append is one step.                                        *)
(***************************************************************************)
EXTENDS Naturals, Sequences, FiniteSets, SequencesExt

CONSTANTS
    Tool,           \* runs of the tool
    Actor,          \* of each, whom it is told it acts for: "empty" when the
                    \* type or the id is ''
    MaxRecords,     \* bound: records in candidates.jsonl
    MaxEvents,      \* bound: events in events.jsonl
    MaxKills        \* bound: processes killed

ASSUME RecordBounds == MaxRecords \in Nat /\ MaxEvents \in Nat /\ MaxKills \in Nat

VARIABLES
    memory,         \* candidates.jsonl
    events,         \* events.jsonl
    tpc, choice,    \* of each tool: where it is, the record it is about
    page,           \* the candidates the sidecar's page shows, and the
                    \* length of the log when it was rendered
    kills

toolVars == <<tpc, choice, page>>

-----------------------------------------------------------------------------
Sensitive == {"plain", "secret"}

\* safe_text
SafeText(text) == IF text = "secret" THEN "blocked" ELSE text

\* of is the record a decision resolves; via and seen are history: how it was
\* chosen, and the length of the log that the choice was made from.
Record(state, decision, actor, of, class, text, via, seen) ==
    [state |-> state, decision |-> decision, actor |-> actor, of |-> of, class |-> class,
     text |-> text, via |-> via, seen |-> seen]

BuildMemory(text, actor) ==
    Record("candidate", "hold", actor, 0, text, SafeText(text), "create", 0)

\* The parent's classification and text are copied.  The sidecar starts the
\* tool for an actor of its own.
ResolveMemory(c, actor) ==
    Record(c.state, IF c.state = "committed" THEN "allow" ELSE "deny",
           IF c.via = "page" THEN "sidecar" ELSE actor, c.of,
           memory[c.of].class, memory[c.of].text, c.via, c.seen)

Event(type, of, decision) == [type |-> type, of |-> of, decision |-> decision]

EventFor(i) ==
    Event(IF memory[i].state = "candidate" THEN "memory.candidate_created"
          ELSE IF memory[i].state = "committed" THEN "memory.committed"
          ELSE "memory.rejected", i, memory[i].decision)

Resolved(log) == {log[i].of : i \in DOMAIN log}

\* pending_memory, in the sidecar and in the governance queue.
PendingMemory(log) ==
    {i \in DOMAIN log : log[i].state = "candidate"} \ Resolved(log)

\* Mutant: a record is the latest although it is resolved.
LatestOfAny(log) ==
    {i \in DOMAIN log : /\ log[i].state = "candidate"
                        /\ \A j \in DOMAIN log : log[j].state = "candidate" => j <= i}

\* latest_candidate: one, or none and the tool exits.
LatestCandidate(log) ==
    {i \in PendingMemory(log) : \A j \in PendingMemory(log) : j <= i}

\* find_memory finds any record with a memoryId, decisions among them.
WithMemoryId(log) == {i \in DOMAIN log : log[i].state # "proposed"}

-----------------------------------------------------------------------------
NoChoice == [of |-> 0, state |-> "none", via |-> "none", seen |-> 0]

MemoryInit ==
    /\ memory = <<>>
    /\ events = <<>>
    /\ tpc = [t \in Tool |-> "idle"]
    /\ choice = [t \in Tool |-> NoChoice]
    /\ page = [shown |-> {}, at |-> 0]
    /\ kills = 0

AppendMemory(r) ==
    /\ Len(memory) < MaxRecords
    /\ memory' = Append(memory, r)

AppendEvent(e) ==
    /\ Len(events) < MaxEvents
    /\ events' = Append(events, e)

\* create: the record first.
Create(t, text) ==
    /\ tpc[t] = "idle"
    /\ AppendMemory(BuildMemory(text, Actor[t]))
    /\ choice' = [choice EXCEPT ![t] = [NoChoice EXCEPT !.of = Len(memory) + 1]]
    /\ tpc' = [tpc EXCEPT ![t] = "logged"]
    /\ UNCHANGED <<events, page, kills>>

Choose(t, state, via, of, seen) ==
    /\ tpc[t] = "idle"
    /\ choice' = [choice EXCEPT ![t] =
          [of |-> of, state |-> state, via |-> via, seen |-> seen]]
    /\ tpc' = [tpc EXCEPT ![t] = "chosen"]
    /\ UNCHANGED <<memory, events, page, kills>>

\* resolve --latest-candidate
ChooseLatest(t, state) ==
    \E i \in LatestCandidate(memory) : Choose(t, state, "latest", i, Len(memory))

\* resolve --memory-id
ChooseById(t, state) ==
    \E i \in WithMemoryId(memory) : Choose(t, state, "id", i, Len(memory))

\* POST /memory/commit and /memory/reject, of what the page last showed.
ChooseOnPage(t, state) ==
    \E i \in page.shown : Choose(t, state, "page", i, page.at)

\* Mutant: the candidate is decided where it stands.
DecideInPlace(t) ==
    /\ tpc[t] = "chosen"
    /\ memory' = [memory EXCEPT ![choice[t].of].state = choice[t].state]
    /\ tpc' = [tpc EXCEPT ![t] = "logged"]
    /\ UNCHANGED <<events, choice, page, kills>>

\* The decision is appended ...
LogDecision(t) ==
    /\ tpc[t] = "chosen"
    /\ AppendMemory(ResolveMemory(choice[t], Actor[t]))
    /\ choice' = [choice EXCEPT ![t].of = Len(memory) + 1]
    /\ tpc' = [tpc EXCEPT ![t] = "logged"]
    /\ UNCHANGED <<events, page, kills>>

\* Mutant: the event tells of the record that was resolved.
LogEventOfParent(t) ==
    /\ tpc[t] = "logged"
    /\ AppendEvent(EventFor(IF memory[choice[t].of].of # 0 THEN memory[choice[t].of].of
                            ELSE choice[t].of))
    /\ tpc' = [tpc EXCEPT ![t] = "idle"]
    /\ choice' = [choice EXCEPT ![t] = NoChoice]
    /\ UNCHANGED <<memory, page, kills>>

\* ... and then the event of the record just written.
LogEvent(t) ==
    /\ tpc[t] = "logged"
    /\ AppendEvent(EventFor(choice[t].of))
    /\ tpc' = [tpc EXCEPT ![t] = "idle"]
    /\ choice' = [choice EXCEPT ![t] = NoChoice]
    /\ UNCHANGED <<memory, page, kills>>

KillTool(t) ==
    /\ tpc[t] # "idle"
    /\ kills < MaxKills
    /\ kills' = kills + 1
    /\ tpc' = [tpc EXCEPT ![t] = "idle"]
    /\ choice' = [choice EXCEPT ![t] = NoChoice]
    /\ UNCHANGED <<memory, events, page>>

\* The sidecar renders the page: on a GET, and at the end of every POST.
ShowPage ==
    /\ page' = [shown |-> PendingMemory(memory), at |-> Len(memory)]
    /\ UNCHANGED <<memory, events, tpc, choice, kills>>

KnownEventTypes ==
    {"app.launch", "app.close", "navigation.requested", "navigation.committed", "tab.created",
     "tab.closed", "page.shared_with_agent", "credential.requested", "credential.granted",
     "credential.denied", "autofill.requested", "download.requested", "upload.requested",
     "clipboard.read_requested", "clipboard.write_requested", "extension.capability_used",
     "automation.observed", "automation.action_requested", "automation.action_approved",
     "automation.action_denied", "memory.candidate_created", "memory.committed",
     "memory.rejected", "policy.decision", "runtime.health", "browser.session.start",
     "browser.capture.create", "browser.download.create", "browser.upload.create",
     "browser.automation.run", "browser.diagnostics.export_redacted", "capture.capture-start",
     "capture.capture-stop", "capture.capture-export", "capture.capture-enable",
     "capture.whois", "capture.osint", "capture.capture-status", "capture.list-connections",
     "capture.list-firewall", "capture.firewall-set", "capture.policy.violation"}

KnownDecisions == {"allow", "deny", "hold", "observe", "not_applicable"}

\* The native shell and the other tools: scripts/bearbrowser-emit-event.py,
\* which exits when it does not know the type or the decision.
EmitEvent(type, decision) ==
    /\ type \in KnownEventTypes
    /\ decision \in KnownDecisions
    /\ AppendEvent(Event(type, 0, decision))
    /\ UNCHANGED <<memory, toolVars, kills>>

ToolStep(t) ==
    \/ \E text \in Sensitive : Create(t, text)
    \/ \E state \in {"committed", "rejected"} :
          ChooseLatest(t, state) \/ ChooseById(t, state) \/ ChooseOnPage(t, state)
    \/ LogDecision(t)
    \/ LogEvent(t)
    \/ KillTool(t)

-----------------------------------------------------------------------------
(* Properties.                                                             *)

\* scripts/bearbrowser-verify-memory.py, of one record: what it is, and whose.
Consistent(r) ==
    /\ r.state \in {"candidate", "committed", "rejected"}
    /\ r.class = "secret" => r.text = "blocked"
    /\ r.state = "candidate" => r.decision = "hold"
    /\ r.state = "committed" => r.decision = "allow"
    /\ r.state = "rejected" => r.decision = "deny"
    /\ r.state # "candidate" => r.of # 0

Verify(r) == Consistent(r) /\ r.actor # "empty"

\* What the tool writes passes the verifier, a decision on a decision too, if
\* the tool was given an actor: the only records it rejects are those of the
\* mesh bridge, in another format, and those of an actor whose type or id is
\* the empty string, which the tool lets through.
VerifierRejectsMeshOrNoActor ==
    \A i \in DOMAIN memory :
        ~Verify(memory[i]) <=> memory[i].state = "proposed" \/ memory[i].actor = "empty"

\* Resolve by --latest-candidate or from the page decides candidates, and one
\* that is decided already only from a view older than that decision.
SecondDecisionNeedsAStaleView ==
    \A j \in DOMAIN memory :
        memory[j].via \in {"latest", "page"} =>
            /\ memory[memory[j].of].state = "candidate"
            /\ \A i \in 1 .. j - 1 : memory[i].of = memory[j].of => memory[j].seen < i

MemoryEvents == {"memory.candidate_created", "memory.committed", "memory.rejected"}

\* Each record of the tool has at most one event, which tells its state; one
\* that has none was written by a tool under way or killed.
EventsTellTheRecords ==
    LET told == {e \in DOMAIN events : events[e].type \in MemoryEvents}
        untold == WithMemoryId(memory) \ {events[e].of : e \in told}
        underWay == {t \in Tool : tpc[t] = "logged"}
    IN  /\ \A e \in told :
              /\ events[e].of \in DOMAIN memory
              /\ events[e] = EventFor(events[e].of)
              /\ \A f \in told : events[f].of = events[e].of => f = e
        /\ Cardinality(untold) <= Cardinality(underWay) + kills

\* The log implements the ledger of policy actions: a decided candidate never
\* comes back to the queue.
Ledger == INSTANCE HoldLedger WITH
    Id <- 1 .. MaxRecords,
    pending <- PendingMemory(memory),
    settled <- Resolved(memory) \ {0},
    recorded <- DOMAIN memory \ (PendingMemory(memory) \cup Resolved(memory))
LedgerSpec == Ledger!Spec
=============================================================================
