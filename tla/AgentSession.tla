---------------------------- MODULE AgentSession ----------------------------
(***************************************************************************)
(* The agents' way to an effect: a ControlBridge that decides, attests and *)
(* drives the browser over BiDi (scripts/agent-control-bridge.py), and the *)
(* gate in front of the agent machine                                      *)
(* (scripts/bearbrowser-agent-machine-gate.py), which makes a bridge for   *)
(* each request and forwards what it permits.  They write one evidence     *)
(* stream.                                                                 *)
(*                                                                         *)
(* A run is a bridge's ReasoningRun.  Its events are numbered in the order *)
(* it attests them; the decision that let a command through is named by    *)
(* its number ("of").                                                      *)
(***************************************************************************)
EXTENDS ActionContract, EvidenceStream, BidiTransport, TLC

CONSTANTS
    Bridge,             \* the run that has the browser
    Requests,           \* the runs of requests to the agent machine's gate
    BridgeCommands,     \* what the bridge is asked
    GateRequests,       \* what the gate is asked
    Endpoints,          \* the control URLs the bridge may be given
    Browser,            \* a browser with an open BiDi port
    Deployments         \* what may run beside the bridge, and a bound: the
                        \* number of actions the bridge is asked

Runs == {Bridge} \cup Requests

ASSUME BridgeAssumption == Bridge \notin Requests
ASSUME DeploymentsAssumption ==
    Deployments \subseteq [with : SUBSET ({Browser} \cup Requests \cup Followers),
                           dispatches : Nat]

VARIABLES
    deployed,       \* the deployment
    pc,             \* where each run is
    effective,      \* the action and class it decided on last
    attesting,      \* the event it is writing, or NoEvent
    refs,           \* run.eventRefs, with what they refer to
    bidiUrl,
    weakest,        \* _weakest_replay of the bridge
    client,         \* the bridge has a live BidiClient
    receipt,        \* the run's receipt.json, or NoEvent
    dispatches,
    upstream        \* what the agent machine has of each request

bridgeVars == <<bidiUrl, weakest, client, receipt, dispatches>>
vars == <<deployed, pc, effective, attesting, refs, bridgeVars, upstream, evidenceVars, wireVars>>

-----------------------------------------------------------------------------
Undecided == [action |-> "none", class |-> "none"]

Init ==
    /\ EvidenceInit
    /\ WireInit
    /\ deployed \in Deployments
    /\ library => Browser \in deployed.with
    /\ pc = [r \in Runs |-> "new"]
    /\ effective = [r \in Runs |-> Undecided]
    /\ attesting = [r \in Runs |-> NoEvent]
    /\ refs = [r \in Runs |-> <<>>]
    /\ bidiUrl = "none"
    /\ weakest = 0
    /\ client = FALSE
    /\ receipt = NoEvent
    /\ dispatches = 0
    /\ upstream = [r \in Requests |-> "none"]

Goto(r, to) == pc' = [pc EXCEPT ![r] = to]

-----------------------------------------------------------------------------
(* _attest.                                                                *)

\* load_policy: a run's surface names its events.
EventPrefix(r) == IF r = Bridge THEN "browser" ELSE "agent"

Attest(r, e, type, decision, command) ==
    /\ attesting' = [attesting EXCEPT ![r] =
          [run |-> r, surface |-> EventPrefix(r), number |-> Len(refs[r]) + 1,
           action |-> e.action, class |-> e.class,
           type |-> type, decision |-> decision, command |-> command]]
    /\ Goto(r, "attest")

\* Where a run goes on after an event.
After(r, e) ==
    CASE e.type \in {"dispatched", "error"} -> "ready"
      [] e.decision = "permit"              -> "permitted"
      [] r = Bridge                         -> "ready"
      [] OTHER                              -> "blocked"

\* The event is referred to whether its line was written or not.
Attested(r) ==
    /\ pc[r] = "attest"
    /\ \/ /\ BeginLine(attesting[r])
          /\ UNCHANGED <<pc, attesting, refs>>
       \/ /\ WriteLine(attesting[r]) \/ EndLine(attesting[r]) \/ FailLine(attesting[r])
          /\ refs' = [refs EXCEPT ![r] = Append(@, attesting[r])]
          /\ attesting' = [attesting EXCEPT ![r] = NoEvent]
          /\ Goto(r, After(r, attesting[r]))
    /\ UNCHANGED <<effective, bridgeVars, upstream, followerVars, wireVars>>

\* evaluate_action
Evaluate(r, c) ==
    /\ effective' = [effective EXCEPT ![r] = Classify(c)]
    /\ Attest(r, Classify(c),
              IF Classify(c).class = "prohibited" THEN "violation" ELSE "action",
              Decision(c), 0)

-----------------------------------------------------------------------------
(* The bridge and the browser.                                             *)

\* connect: a URL that is not loopback is refused and no socket is opened;
\* nothing may listen, or not take the upgrade, or the transport be missing.
\* (A URL is given only where there is a browser: without one it is as if
\* nothing listened.)
Connect(url) ==
    /\ pc[Bridge] = "new" /\ Browser \in deployed.with
    /\ bidiUrl' = url
    /\ \/ OpenSocket(url) /\ Goto(Bridge, "opened")
       \/ Goto(Bridge, "ready") /\ UNCHANGED wireVars
    /\ UNCHANGED <<effective, attesting, refs, weakest, client, receipt, dispatches,
                   upstream, evidenceVars>>

\* _handshake_session
AskSession ==
    /\ pc[Bridge] = "opened"
    /\ \/ SendFrame("session.new", 0) /\ Goto(Bridge, "handshake")
       \/ SendFails /\ Goto(Bridge, "dropping")
    /\ UNCHANGED <<effective, attesting, refs, bridgeVars, upstream, evidenceVars>>

\* No URL is given.
EnforceOnly ==
    /\ pc[Bridge] = "new"
    /\ Goto(Bridge, "ready")
    /\ UNCHANGED <<effective, attesting, refs, bridgeVars, upstream, evidenceVars, wireVars>>

\* dispatch begins with the decision.
Dispatch(c) ==
    /\ pc[Bridge] = "ready"
    /\ dispatches < deployed.dispatches
    /\ dispatches' = dispatches + 1
    /\ Evaluate(Bridge, c)
    /\ weakest' = Max({weakest, ReplayRank(Classify(c).action)})
    /\ UNCHANGED <<refs, bidiUrl, client, receipt, upstream, evidenceVars, wireVars>>

\* A permit without a live client or a command for the action, or with
\* parameters that are no numbers (an exception before the try).
SkipCommand ==
    /\ pc[Bridge] = "permitted"
    /\ \/ ~client
       \/ Method(effective[Bridge].action) = NoMethod
       \/ effective[Bridge].action \in NumericActions
    /\ Goto(Bridge, "ready")
    /\ UNCHANGED <<effective, attesting, refs, bridgeVars, upstream, evidenceVars, wireVars>>

SendCommand ==
    /\ pc[Bridge] = "permitted"
    /\ client
    /\ Method(effective[Bridge].action) # NoMethod
    /\ \/ /\ SendFrame(Method(effective[Bridge].action), Len(refs[Bridge]))
          /\ Goto(Bridge, "wait")
          /\ UNCHANGED attesting
       \/ /\ SendFails
          /\ Attest(Bridge, effective[Bridge], "error", "permit", lastId + 1)
    /\ UNCHANGED <<effective, refs, bridgeVars, upstream, evidenceVars>>

\* close: the session is ended first.
Close ==
    /\ pc[Bridge] = "ready"
    /\ client
    /\ \/ SendFrame("session.end", 0) /\ Goto(Bridge, "ending")
       \/ SendFails /\ Goto(Bridge, "closing")
    /\ UNCHANGED <<effective, attesting, refs, bridgeVars, upstream, evidenceVars>>

CloseWithoutClient ==
    /\ pc[Bridge] = "ready"
    /\ ~client
    /\ Goto(Bridge, "closing")
    /\ UNCHANGED <<effective, attesting, refs, bridgeVars, upstream, evidenceVars, wireVars>>

\* Mutant: the client stays.
KeepClient ==
    /\ pc[Bridge] = "closing"
    /\ receipt' \in {receipt, [trace |-> Len(refs[Bridge]), replay |-> weakest]}
    /\ Goto(Bridge, "ready")
    /\ UNCHANGED <<effective, attesting, refs, bidiUrl, weakest, client, dispatches,
                   upstream, evidenceVars, wireVars>>

\* The client is dropped and the receipt written, or not: errors are swallowed.
WriteReceipt ==
    /\ pc[Bridge] = "closing"
    /\ Hangup
    /\ client' = FALSE
    /\ receipt' \in {receipt, [trace |-> Len(refs[Bridge]), replay |-> weakest]}
    /\ Goto(Bridge, "ready")
    /\ UNCHANGED <<effective, attesting, refs, bidiUrl, weakest, dispatches, upstream,
                   evidenceVars>>

\* The read loop of send_command, and what its caller does with the outcome.
SkipFrame ==
    /\ pc[Bridge] \in {"handshake", "wait", "ending"}
    /\ Skip
    /\ UNCHANGED <<pc, effective, attesting, refs, bridgeVars, upstream, evidenceVars>>

Connected ==
    /\ pc[Bridge] = "handshake"
    /\ \/ Answer(TRUE) /\ client' = TRUE /\ Goto(Bridge, "ready")
       \/ Raise /\ UNCHANGED client /\ Goto(Bridge, "dropping")
    /\ UNCHANGED <<effective, attesting, refs, bidiUrl, weakest, receipt, dispatches,
                   upstream, evidenceVars>>

\* connect swallows the exception; the half-made client is collected.
DropClient ==
    /\ pc[Bridge] = "dropping"
    /\ Hangup
    /\ Goto(Bridge, "ready")
    /\ UNCHANGED <<effective, attesting, refs, bridgeVars, upstream, evidenceVars>>

\* Mutant: a time-out is not attested.
DispatchedOrLost ==
    /\ pc[Bridge] = "wait"
    /\ \/ Answer(TRUE) /\ Attest(Bridge, effective[Bridge], "dispatched", "permit", lastId)
       \/ Raise /\ Goto(Bridge, "ready") /\ UNCHANGED attesting
    /\ UNCHANGED <<effective, refs, bridgeVars, upstream, evidenceVars>>

Dispatched ==
    /\ pc[Bridge] = "wait"
    /\ LET Outcome(type) ==
               Attest(Bridge, effective[Bridge], type, "permit", lastId)
       IN  \/ Answer(TRUE) /\ Outcome("dispatched")
           \/ Raise /\ Outcome("error")
    /\ UNCHANGED <<effective, refs, bridgeVars, upstream, evidenceVars>>

SessionEnded ==
    /\ pc[Bridge] = "ending"
    /\ Answer(TRUE) \/ Raise
    /\ Goto(Bridge, "closing")
    /\ UNCHANGED <<effective, attesting, refs, bridgeVars, upstream, evidenceVars>>

Receive == SkipFrame \/ Connected \/ Dispatched \/ SessionEnded

-----------------------------------------------------------------------------
(* The gate of the agent machine.  A path is the set of the rules' needles *)
(* it contains; a rule also looks at whether the method is GET.            *)

Rule(needles, get, other, action) ==
    [needles |-> needles, get |-> get, other |-> other, action |-> action]

Rules == <<
    Rule({"/shell", "/exec", "/terminal", "/command"}, TRUE, TRUE, "execute-shell"),
    Rule({"/fs/read"}, TRUE, TRUE, "read-host-filesystem"),
    Rule({"/fs/write", "/file/write"}, TRUE, TRUE, "write-host-filesystem"),
    Rule({"/credential", "/secret"}, TRUE, TRUE, "read-credentials"),
    Rule({"/egress", "/offline"}, TRUE, TRUE, "disable-egress-guard"),
    Rule({"/governance"}, TRUE, TRUE, "disable-governance"),
    Rule({"/pipeline", "/run"}, FALSE, TRUE, "run-pipeline"),
    Rule({"/devspace"}, FALSE, TRUE, "devspace-command"),
    Rule({"/install"}, FALSE, TRUE, "install-package"),
    Rule({"/fetch", "/proxy"}, FALSE, TRUE, "network-fetch"),
    Rule({"/knowledge"}, FALSE, TRUE, "write-knowledge"),
    Rule({"/graph"}, FALSE, TRUE, "mutate-graph"),
    Rule({"/chat", "/completion"}, TRUE, TRUE, "chat-completion"),
    Rule({"/status", "/health"}, TRUE, TRUE, "query-status"),
    Rule({"/models"}, TRUE, TRUE, "list-models"),
    Rule({"/knowledge"}, TRUE, FALSE, "read-knowledge"),
    Rule({"/graph"}, TRUE, FALSE, "read-graph") >>

\* classify_action: the first rule that matches.
ActionOf(get, path) ==
    LET matching == {i \in DOMAIN Rules : /\ Rules[i].needles \cap path # {}
                                          /\ IF get THEN Rules[i].get ELSE Rules[i].other}
    IN  IF matching # {} THEN Rules[Min(matching)].action
        ELSE IF get THEN "query-status" ELSE "execute-shell"

\* _params_from_headers: only a gesture of the user is a parameter.
Param(q) == IF q.actor = "user" /\ q.gesture THEN "userGesture" ELSE "none"

CommandOf(q) ==
    [action |-> ActionOf(q.get, q.path), param |-> Param(q), token |-> q.token]

HandleRequest(r, q) ==
    /\ pc[r] = "new" /\ r \in deployed.with
    /\ Evaluate(r, CommandOf(q))
    /\ UNCHANGED <<refs, bridgeVars, upstream, evidenceVars, wireVars>>

\* 403
Block(r) ==
    /\ pc[r] = "blocked"
    /\ Goto(r, "denied")
    /\ UNCHANGED <<effective, attesting, refs, bridgeVars, upstream, evidenceVars, wireVars>>

\* _forward: the agent machine has the request, or does not answer.
Forward(r) ==
    /\ r \in Requests /\ pc[r] = "permitted"
    /\ \/ /\ upstream' = [upstream EXCEPT ![r] = "received"]
          /\ Goto(r, "forwarded")
       \/ Goto(r, "unreachable") /\ UNCHANGED upstream
    /\ UNCHANGED <<effective, attesting, refs, bridgeVars, evidenceVars, wireVars>>

\* Its answer comes back, or 300 seconds go by; then it may act all the same.
Respond(r) ==
    /\ pc[r] = "forwarded"
    /\ \/ upstream[r] = "done" /\ Goto(r, "replied")
       \/ Goto(r, "unreachable")
    /\ UNCHANGED <<effective, attesting, refs, bridgeVars, upstream, evidenceVars, wireVars>>

Act(r) ==
    /\ upstream[r] = "received"
    /\ upstream' = [upstream EXCEPT ![r] = "done"]
    /\ UNCHANGED <<pc, effective, attesting, refs, bridgeVars, evidenceVars, wireVars>>

-----------------------------------------------------------------------------
BridgeStep ==
    \/ \E url \in Endpoints : Connect(url)
    \/ AskSession \/ EnforceOnly
    \/ \E c \in BridgeCommands : Dispatch(c)
    \/ SendCommand \/ SkipCommand
    \/ Receive \/ DropClient
    \/ Close \/ CloseWithoutClient \/ WriteReceipt

GateStep(r) ==
    \/ \E q \in GateRequests : HandleRequest(r, q)
    \/ Block(r) \/ Forward(r) \/ Respond(r) \/ Act(r)

FollowerStep(f) ==
    /\ f \in deployed.with
    /\ Follow(f) \/ Poll(f) \/ Leave(f)
    /\ UNCHANGED <<pc, effective, attesting, refs, bridgeVars, upstream, streamVars, wireVars>>

BrowserStep ==
    /\ Execute \/ Push \/ Lose
    /\ UNCHANGED <<pc, effective, attesting, refs, bridgeVars, upstream, evidenceVars>>

Next ==
    /\ \/ BridgeStep
       \/ \E r \in Runs : Attested(r)
       \/ \E r \in Requests : GateStep(r)
       \/ \E f \in Followers : FollowerStep(f)
       \/ BrowserStep
    /\ UNCHANGED deployed

Spec == Init /\ [][Next]_vars

\* A read ends: with a frame, or by its time-out.
FairSpec == Spec /\ WF_vars(Receive /\ UNCHANGED deployed)

-----------------------------------------------------------------------------
(* Properties.                                                             *)

Asked == BridgeCommands \cup {CommandOf(q) : q \in GateRequests}

EventType ==
    [run : Runs, surface : {"browser", "agent"}, number : Nat,
     type : {"action", "violation", "dispatched", "error"},
     decision : {"permit", "deny"}, action : {Classify(c).action : c \in Asked},
     class : {"allowed", "gated", "prohibited"}, command : Nat]

ASSUME NoEventAssumption == NoEvent \notin EventType

TypeOK ==
    /\ \A r \in Runs : attesting[r] \in EventType \cup {NoEvent}
    /\ \A r \in Runs : \A i \in DOMAIN refs[r] :
          refs[r][i] \in EventType /\ refs[r][i].run = r /\ refs[r][i].number = i
    /\ pc \in [Runs -> {"new", "opened", "handshake", "dropping", "ready", "attest", "permitted", "wait", "ending",
                        "closing", "blocked", "denied", "forwarded", "unreachable", "replied"}]
    /\ bidiUrl \in Endpoints \cup {"none"}
    /\ weakest \in 0 .. 3
    /\ client \in BOOLEAN
    /\ upstream \in [Requests -> {"none", "received", "done"}]

Commands == ToSet(outbox) \cup {x.command : x \in ToSet(executed)}

\* "A denied/injected action can NEVER put a frame on the wire": every command
\* is of the action a permit of an allowed class was attested for, before, no
\* two are of the same permit, and a socket is only opened to this machine; the
\* agent machine has only requests that a permit was attested for, and none
\* that was answered with a denial.
ActsOnlyAsPermitted ==
    /\ socket # "none" => bidiUrl = "loopback"
    /\ \A c \in Commands : c.method \notin SessionMethods =>
          /\ c.of \in DOMAIN refs[Bridge]
          /\ refs[Bridge][c.of].type = "action"
          /\ refs[Bridge][c.of].decision = "permit"
          /\ refs[Bridge][c.of].class = "allowed"
          /\ c.method = Method(refs[Bridge][c.of].action)
          /\ \A d \in Commands : c.of = d.of => c.id = d.id
    /\ \A r \in Requests : upstream[r] # "none" =>
          /\ Len(refs[r]) = 1 /\ refs[r][1].decision = "permit"
          /\ pc[r] # "denied"

\* An event says "dispatched" only of a command that the browser did, and did
\* without an error: never of another's late answer, a push, or the bytes
\* read after a frame was lost.
DispatchedWasDone ==
    \A i \in DOMAIN refs[Bridge] : refs[Bridge][i].type = "dispatched" =>
        \E x \in ToSet(executed) :
            x.ok /\ x.command.id = refs[Bridge][i].command /\ x.command.of = i - 1

\* Every command that left is accounted for: between two actions, the event
\* after its permit says that it was dispatched or that it failed.
CommandsAreAccountedFor ==
    pc[Bridge] \in {"ready", "closing", "ending"} =>
        \A c \in Commands : c.method \notin SessionMethods =>
            /\ c.of + 1 \in DOMAIN refs[Bridge]
            /\ refs[Bridge][c.of + 1].type \in {"dispatched", "error"}
            /\ refs[Bridge][c.of + 1].command = c.id

\* Unless a write failed, and while the file has no more receipts than the
\* limit, /receipts has every event of every run, newest first and none twice,
\* also when it is asked for one surface only; the summary counts them.
ReceiptsAreComplete ==
    faults = 0 =>
        /\ Len(ReadEvents(stream)) <= Everything.limit => \A r \in Runs :
              LET shown == EventsOf(Receipts([Everything EXCEPT !.surface = EventPrefix(r)]))
              IN  /\ {e \in ToSet(shown) : e.run = r} = ToSet(refs[r])
                  /\ \A i, j \in DOMAIN shown :
                        i < j /\ shown[i].run = r /\ shown[j].run = r =>
                            shown[i].number > shown[j].number
        /\ Summary = SummaryOf({ToReceipt(e) : e \in UNION {ToSet(refs[r]) : r \in Runs}})

\* The receipt's trace has the permit and the outcome of every command that
\* ever left, also when actions are asked after the session is closed, and its
\* replay class is no stronger than theirs.
ReceiptCoversTheWire ==
    receipt # NoEvent =>
        \A c \in Commands : c.method \notin SessionMethods =>
            /\ c.of + 1 <= receipt.trace
            /\ ReplayRank(refs[Bridge][c.of].action) <= receipt.replay

\* A follower gets the events of a run in the order the run attested them,
\* none twice.
FollowersSeeRunsInOrder ==
    \A f \in Followers :
        \A i, j \in DOMAIN sent[f] :
            i < j /\ sent[f][i].event.run = sent[f][j].event.run =>
                sent[f][i].event.number < sent[f][j].event.number

\* A dispatch, a connect and a close return, however the browser answers, stalls
\* or ends, if only it comes to stop pushing: each read has a time-out, but the
\* loop that skips what is not the answer has none.
CallsReturn ==
    <>[][~Push]_vars =>
        (pc[Bridge] \in {"handshake", "wait", "ending"} ~>
            pc[Bridge] \notin {"handshake", "wait", "ending"})
=============================================================================
