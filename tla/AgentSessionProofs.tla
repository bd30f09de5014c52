------------------------- MODULE AgentSessionProofs -------------------------
(***************************************************************************)
(* That agents act only as permitted, that what they do is attested, and   *)
(* that the stream's readers get it: for any commands, requests and        *)
(* control URLs, any browser, any followers and any faults of the stream.  *)
(***************************************************************************)
EXTENDS AgentSession, FiniteSetTheorems, WellFoundedInduction, TLAPS

-----------------------------------------------------------------------------
(* The contract.                                                           *)

Classes == {"allowed", "gated", "prohibited"}
Methods == {"browsingContext.navigate", "script.evaluate", "input.performActions",
            "browsingContext.captureScreenshot"}

Commandable == {"navigate", "read-dom", "extract-text", "query-selector", "scroll", "wait",
                "click", "fill-form-field", "screenshot"}

\* A set of numbers has a least one, if it has any.
LEMMA LeastOf ==
    ASSUME NEW S \in SUBSET Nat, S # {}
    PROVE  \E x \in S : \A y \in S : x <= y
<1> DEFINE R == {p \in Nat \X Nat : p[1] < p[2]}
<1>1. IsWellFoundedOn(R, Nat)
  BY NatLessThanWellFounded DEF OpToRel
<1>2. PICK x \in S : \A y \in S : <<y, x>> \notin R
  <2> HIDE DEF R
  <2> QED  BY <1>1, WFMin
<1>3. ASSUME NEW y \in S
      PROVE  x <= y
  <2>1. x \in Nat /\ y \in Nat
    OBVIOUS
  <2>2. ~ (y < x)
    BY <1>2, <2>1
  <2> QED  BY <2>1, <2>2
<1> QED  BY <1>3

LEMMA LeastIsIn ==
    ASSUME NEW S \in SUBSET Nat, S # {}
    PROVE  Min(S) \in S
BY LeastOf DEF Min

LEMMA NoCommand ==
    ASSUME NEW a, a \notin Commandable
    PROVE  Method(a) = NoMethod
<1>1. CASE a \in NeverACommand
  <2>1. /\ a # "navigate" /\ a # "screenshot"
        /\ a \notin {"read-dom", "extract-text", "query-selector", "scroll", "wait"}
        /\ a \notin {"click", "fill-form-field"}
    BY DEF Commandable
  <2> QED  BY <1>1, <2>1 DEF Method
<1>2. CASE a \notin NeverACommand
  BY <1>2 DEF Method, Commandable
<1> QED  BY <1>1, <1>2

LEMMA ConditionsOfContract ==
    ASSUME NEW i \in DOMAIN PolicyConditions
    PROVE  /\ PolicyConditions[i].class \in {"gated", "prohibited"}
           /\ Method(PolicyConditions[i].as) = NoMethod
<1>1. i \in 1 .. 7
  BY DEF PolicyConditions
<1>2. PolicyConditions[i].as \in {"submit-form", "execute-trade-or-transfer", "enter-credentials",
        "enter-payment-details", "enter-government-id", "execute-shell", "write-host-filesystem"}
  BY <1>1 DEF PolicyConditions, Condition
<1>3. PolicyConditions[i].class \in {"gated", "prohibited"}
  BY <1>1 DEF PolicyConditions, Condition
<1>4. ASSUME NEW a \in {"submit-form", "execute-trade-or-transfer", "enter-credentials",
        "enter-payment-details", "enter-government-id", "execute-shell", "write-host-filesystem"}
      PROVE  Method(a) = NoMethod
  <2>1. a \notin Commandable
    BY DEF Commandable
  <2> QED  BY <2>1, NoCommand
<1> QED  BY <1>2, <1>3, <1>4

LEMMA CommandsHaveMethods ==
    ASSUME NEW a, Method(a) # NoMethod
    PROVE  /\ Method(a) \in Methods
           /\ BaseClass(a) = "allowed"
<1>1. a \notin NeverACommand
  <2> SUFFICES ASSUME a \in NeverACommand
               PROVE  Method(a) = NoMethod
    OBVIOUS
  <2>1. /\ a # "navigate" /\ a # "screenshot"
        /\ a \notin {"read-dom", "extract-text", "query-selector", "scroll", "wait"}
        /\ a \notin {"click", "fill-form-field"}
    BY DEF NeverACommand
  <2> QED  BY <2>1 DEF Method
<1>2. a \in Commandable
  BY NoCommand
<1>3. Method(a) \in Methods
  BY <1>1, <1>2 DEF Method, Methods, Commandable
<1>4. BaseClass(a) = "allowed"
  <2>1. a \in Allowed /\ a \notin Gated
    BY <1>2 DEF Allowed, Gated, Commandable
  <2> QED  BY <2>1 DEF BaseClass
<1> QED  BY <1>3, <1>4

\* What is decided of a command: an action that has a command for the browser
\* is permitted because it is allowed, and a permit is never a violation.
LEMMA DecisionFacts ==
    ASSUME NEW c
    PROVE  /\ Classify(c).class \in Classes
           /\ Method(Classify(c).action) # NoMethod => Classify(c).class = "allowed"
           /\ Decision(c) \in {"permit", "deny"}
           /\ Decision(c) = "permit" => Classify(c).class # "prohibited"
<1> DEFINE matching == {i \in DOMAIN PolicyConditions : Holds(PolicyConditions[i], c)}
<1>1. CASE matching = {}
  <2>1. Classify(c) = [action |-> c.action, class |-> BaseClass(c.action)]
    BY <1>1 DEF Classify
  <2>2. BaseClass(c.action) \in Classes
    BY DEF BaseClass, Classes, Allowed, Gated
  <2> QED  BY <2>1, <2>2, CommandsHaveMethods DEF Decision
<1>2. CASE matching # {}
  <2>1. Min(matching) \in matching
    <3>1. matching \in SUBSET Nat
      BY DEF PolicyConditions
    <3> QED  BY <1>2, <3>1, LeastIsIn
  <2>2. Classify(c) = [action |-> PolicyConditions[Min(matching)].as,
                       class |-> PolicyConditions[Min(matching)].class]
    BY <1>2 DEF Classify
  <2>3. Min(matching) \in DOMAIN PolicyConditions
    BY <2>1
  <2> QED  BY <2>2, <2>3, ConditionsOfContract DEF Decision, Classes
<1> QED  BY <1>1, <1>2

LEMMA ReplayRanks ==
    ASSUME NEW a, NEW w \in 0 .. 3
    PROVE  /\ ReplayRank(a) \in 0 .. 3
           /\ Max({w, ReplayRank(a)}) \in 0 .. 3
           /\ w <= Max({w, ReplayRank(a)})
           /\ ReplayRank(a) <= Max({w, ReplayRank(a)})
<1>1. ReplayRank(a) \in 0 .. 3
  <2>1. CASE a \in {"screenshot", "click", "fill-form-field"}
    BY <2>1 DEF ReplayRank, Allowed
  <2>2. CASE a \in {"geolocation", "camera-mic", "chat-completion"}
    BY <2>2 DEF ReplayRank, Allowed
  <2>3. CASE a \notin {"screenshot", "click", "fill-form-field"} /\
             a \notin {"geolocation", "camera-mic", "chat-completion"}
    BY <2>3 DEF ReplayRank
  <2> QED  BY <2>1, <2>2, <2>3
<1>2. \E x \in {w, ReplayRank(a)} : \A y \in {w, ReplayRank(a)} : x >= y
  BY <1>1
<1>3. /\ Max({w, ReplayRank(a)}) \in {w, ReplayRank(a)}
      /\ \A y \in {w, ReplayRank(a)} : Max({w, ReplayRank(a)}) >= y
  BY <1>2 DEF Max
<1> QED  BY <1>1, <1>3

-----------------------------------------------------------------------------
(* Sequences.                                                              *)

LEMMA AppendedElement ==
    ASSUME NEW S, NEW seq \in Seq(S), NEW e \in S
    PROVE  /\ Append(seq, e) \in Seq(S)
           /\ Len(Append(seq, e)) = Len(seq) + 1
           /\ DOMAIN seq = 1 .. Len(seq) /\ Len(seq) \in Nat
           /\ DOMAIN Append(seq, e) = 1 .. Len(seq) + 1
           /\ Append(seq, e)[Len(seq) + 1] = e
           /\ \A i \in 1 .. Len(seq) : Append(seq, e)[i] = seq[i]
OBVIOUS

LEMMA AppendedToSet ==
    ASSUME NEW S, NEW seq \in Seq(S), NEW e \in S
    PROVE  ToSet(Append(seq, e)) = ToSet(seq) \cup {e}
<1>1. DOMAIN Append(seq, e) = DOMAIN seq \cup {Len(seq) + 1}
  BY AppendedElement
<1>2. \A i \in DOMAIN seq : Append(seq, e)[i] = seq[i]
  BY AppendedElement
<1>3. Append(seq, e)[Len(seq) + 1] = e
  BY AppendedElement
<1> QED  BY <1>1, <1>2, <1>3 DEF ToSet

LEMMA TakenFromSet ==
    ASSUME NEW S, NEW seq \in Seq(S), seq # <<>>
    PROVE  /\ Tail(seq) \in Seq(S)
           /\ ToSet(Tail(seq)) \subseteq ToSet(seq)
           /\ Head(seq) \in ToSet(seq)
           /\ Head(seq) \in S
<1>1. /\ Len(seq) \in Nat \ {0} /\ DOMAIN seq = 1 .. Len(seq)
      /\ DOMAIN Tail(seq) = 1 .. Len(seq) - 1
      /\ \A i \in 1 .. Len(seq) - 1 : Tail(seq)[i] = seq[i + 1]
      /\ Head(seq) = seq[1] /\ Tail(seq) \in Seq(S) /\ seq[1] \in S
  OBVIOUS
<1>2. ASSUME NEW i \in DOMAIN Tail(seq)
      PROVE  Tail(seq)[i] \in ToSet(seq)
  <2>1. i + 1 \in DOMAIN seq /\ Tail(seq)[i] = seq[i + 1]
    BY <1>1
  <2> QED  BY <2>1 DEF ToSet
<1>3. Head(seq) \in ToSet(seq)
  BY <1>1 DEF ToSet
<1> QED  BY <1>1, <1>2, <1>3 DEF ToSet

-----------------------------------------------------------------------------
(* The inductive invariant.                                                *)

Wire == [id : Nat, method : Methods \cup SessionMethods, of : Nat]
Done == [command : Wire, ok : BOOLEAN]
Decided == [action : {Classify(c).action : c \in Asked} \cup {"none"},
            class : Classes \cup {"none"}]

Places == {"new", "opened", "handshake", "dropping", "ready", "attest", "permitted", "wait",
           "ending", "closing", "blocked", "denied", "forwarded", "unreachable", "replied"}

WireTyped ==
    /\ lastId \in Nat
    /\ outbox \in Seq(Wire)
    /\ executed \in Seq(Done)

RunsTyped ==
    /\ refs \in [Runs -> Seq(EventType)]
    /\ attesting \in [Runs -> EventType \cup {NoEvent}]
    /\ effective \in [Runs -> Decided]

\* What a command is sent for is allowed, not only permitted.
CommandsAreAllowed ==
    /\ \A r \in Runs : Method(effective[r].action) # NoMethod => effective[r].class = "allowed"
    /\ pc[Bridge] = "wait" => Method(effective[Bridge].action) # NoMethod

\* A run attests what it decided on, or the outcome of a command of the bridge.
IsPermit(e, r) ==
    /\ e.type = "action" /\ e.decision = "permit"
    /\ e.action = effective[r].action /\ e.class = effective[r].class

AttestsDecision ==
    \A r \in Runs : pc[r] = "attest" =>
        /\ attesting[r] \in EventType
        /\ attesting[r].run = r
        /\ attesting[r].number = Len(refs[r]) + 1
        /\ attesting[r].type \in {"dispatched", "error"} => r = Bridge
        /\ attesting[r].type \notin {"dispatched", "error"}
               /\ attesting[r].decision = "permit" => IsPermit(attesting[r], r)

\* The bridge sends for its last event, a permit, of which nothing was sent.
PermitIsLast ==
    pc[Bridge] = "permitted" =>
        /\ refs[Bridge] # <<>>
        /\ IsPermit(refs[Bridge][Len(refs[Bridge])], Bridge)
        /\ \A c \in Commands : c.of < Len(refs[Bridge])

SentAsPermitted ==
    \A c \in Commands :
        /\ c.of <= Len(refs[Bridge])
        /\ c.of = 0 <=> c.method \in SessionMethods
        /\ c.of # 0 =>
              /\ refs[Bridge][c.of].type = "action"
              /\ refs[Bridge][c.of].decision = "permit"
              /\ refs[Bridge][c.of].class = "allowed"
              /\ c.method = Method(refs[Bridge][c.of].action)
              /\ \A d \in Commands : c.of = d.of => c.id = d.id

\* A request is attested once, and only a permitted one goes on.
RequestLife ==
    \A r \in Requests :
        /\ pc[r] \in {"new", "attest", "permitted", "blocked", "denied",
                      "forwarded", "unreachable", "replied"}
        /\ pc[r] \in {"new", "attest"} => refs[r] = <<>>
        /\ pc[r] \in {"permitted", "forwarded", "unreachable", "replied"} =>
              Len(refs[r]) = 1 /\ refs[r][1].decision = "permit"
        /\ pc[r] \in {"new", "attest", "permitted", "blocked", "denied"} =>
              upstream[r] = "none"

SocketIsLocal ==
    /\ socket # "none" => bidiUrl = "loopback"
    /\ pc[Bridge] = "new" => socket = "none"

IInv ==
    /\ TypeOK
    /\ WireTyped
    /\ RunsTyped
    /\ CommandsAreAllowed
    /\ AttestsDecision
    /\ PermitIsLast
    /\ SentAsPermitted
    /\ RequestLife
    /\ SocketIsLocal

-----------------------------------------------------------------------------
LEMMA InitInv == Init => IInv
<1> SUFFICES ASSUME Init PROVE IInv
  OBVIOUS
<1>1. outbox = <<>> /\ executed = <<>> /\ lastId = 0 /\ socket = "none"
  BY DEF Init, WireInit
<1>2. Commands = {}
  BY <1>1 DEF Commands, ToSet
<1>3. Bridge \in Runs /\ Requests \subseteq Runs
  BY DEF Runs
<1>4. TypeOK
  <2>1. \A r \in Runs : refs[r] = <<>> /\ attesting[r] = NoEvent
    BY DEF Init
  <2>2. \A r \in Runs : DOMAIN refs[r] = {}
    BY <2>1
  <2>3. /\ pc = [r \in Runs |-> "new"] /\ upstream = [r \in Requests |-> "none"]
        /\ bidiUrl = "none" /\ weakest = 0 /\ client = FALSE
    BY DEF Init
  <2>4. pc \in [Runs -> Places]
    BY <2>3 DEF Places
  <2>5. upstream \in [Requests -> {"none", "received", "done"}]
    BY <2>3
  <2>6. weakest \in 0 .. 3 /\ bidiUrl \in Endpoints \cup {"none"}
    BY <2>3
  <2>7. client \in BOOLEAN
    BY <2>3, Zenon
  <2> QED  BY <2>1, <2>2, <2>4, <2>5, <2>6, <2>7 DEF TypeOK, Places
<1>5. WireTyped /\ RunsTyped
  <2>1. Undecided \in Decided
    BY DEF Undecided, Decided
  <2> QED  BY <1>1, <2>1 DEF Init, WireTyped, RunsTyped
<1>6. CommandsAreAllowed
  <2>1. "none" \notin Commandable
    BY DEF Commandable
  <2> QED  BY <1>3, <2>1, NoCommand DEF Init, CommandsAreAllowed, Undecided
<1>7. AttestsDecision /\ PermitIsLast /\ SentAsPermitted
  BY <1>2, <1>3 DEF Init, AttestsDecision, PermitIsLast, SentAsPermitted
<1>8. RequestLife /\ SocketIsLocal
  BY <1>1, <1>3 DEF Init, RequestLife, SocketIsLocal
<1> QED  BY <1>4, <1>5, <1>6, <1>7, <1>8 DEF IInv

-----------------------------------------------------------------------------
(* The wire.                                                               *)

LEMMA CommandsAreTyped ==
    ASSUME IInv, NEW c \in Commands
    PROVE  c \in Wire
<1>1. CASE c \in ToSet(outbox)
  <2>1. PICK i \in DOMAIN outbox : c = outbox[i]
    BY <1>1 DEF ToSet
  <2>2. outbox \in Seq(Wire)
    BY DEF IInv, WireTyped
  <2> HIDE DEF Wire
  <2> QED  BY <2>1, <2>2
<1>2. CASE c \notin ToSet(outbox)
  <2>1. PICK i \in DOMAIN executed : c = executed[i].command
    BY <1>2 DEF Commands, ToSet
  <2>2. executed \in Seq(Done)
    BY DEF IInv, WireTyped
  <2>3. executed[i] \in Done
    BY <2>1, <2>2
  <2> QED  BY <2>1, <2>3 DEF Done
<1> QED  BY <1>1, <1>2

\* The client reads, fails or hangs up: the commands are those there were.
LEMMA QuietWire ==
    ASSUME IInv, UNCHANGED <<outbox, executed>>, lastId' \in {lastId, lastId + 1}
    PROVE  WireTyped' /\ Commands' = Commands
BY DEF IInv, WireTyped, Commands

\* A command more.
LEMMA SentCommand ==
    ASSUME IInv, NEW m \in Methods \cup SessionMethods, NEW n \in Nat, SendFrame(m, n)
    PROVE  /\ WireTyped'
           /\ [id |-> lastId + 1, method |-> m, of |-> n] \in Wire
           /\ Commands' = Commands \cup {[id |-> lastId + 1, method |-> m, of |-> n]}
<1> DEFINE c == [id |-> lastId + 1, method |-> m, of |-> n]
<1>1. outbox \in Seq(Wire) /\ lastId \in Nat /\ executed \in Seq(Done)
  BY DEF IInv, WireTyped
<1>2. c \in Wire
  BY <1>1 DEF Wire
<1>3. lastId' = lastId + 1 /\ outbox' = Append(outbox, c) /\ executed' = executed
  BY DEF SendFrame
<1> HIDE DEF c
<1>4. Append(outbox, c) \in Seq(Wire) /\ ToSet(Append(outbox, c)) = ToSet(outbox) \cup {c}
  BY <1>1, <1>2, AppendedElement, AppendedToSet
<1>5. WireTyped'
  BY <1>1, <1>3, <1>4 DEF WireTyped
<1>6. Commands' = Commands \cup {c}
  BY <1>3, <1>4 DEF Commands
<1> QED  BY <1>2, <1>5, <1>6 DEF c

\* What the browser does with the commands makes no new ones.
LEMMA BrowserSendsNothing ==
    ASSUME IInv, Execute \/ Push \/ Lose
    PROVE  WireTyped' /\ Commands' \subseteq Commands
<1>1. outbox \in Seq(Wire) /\ lastId \in Nat /\ executed \in Seq(Done)
  BY DEF IInv, WireTyped
<1>2. CASE Push
  BY <1>2, QuietWire DEF Push
<1>3. CASE Lose
  <2>1. outbox' = <<>> /\ executed' = executed /\ lastId' = lastId
    BY <1>3 DEF Lose
  <2>2. ToSet(outbox') = {}
    BY <2>1 DEF ToSet
  <2> QED  BY <1>1, <2>1, <2>2 DEF WireTyped, Commands
<1>4. CASE Execute
  <2>1. PICK ok \in BOOLEAN : executed' = Append(executed, [command |-> Head(outbox), ok |-> ok])
    BY <1>4 DEF Execute
  <2>2. outbox # <<>> /\ outbox' = Tail(outbox) /\ lastId' = lastId
    BY <1>4 DEF Execute
  <2> DEFINE x == [command |-> Head(outbox), ok |-> ok]
  <2>3. /\ Tail(outbox) \in Seq(Wire) /\ ToSet(Tail(outbox)) \subseteq ToSet(outbox)
        /\ Head(outbox) \in ToSet(outbox) /\ Head(outbox) \in Wire
    BY <1>1, <2>2, TakenFromSet
  <2>4. x \in Done /\ x.command = Head(outbox)
    BY <2>3 DEF Done
  <2>5. executed' = Append(executed, x)
    BY <2>1
  <2> HIDE DEF x
  <2>6. executed' \in Seq(Done) /\ ToSet(executed') = ToSet(executed) \cup {x}
    BY <1>1, <2>4, <2>5, AppendedElement, AppendedToSet
  <2> QED  BY <1>1, <2>2, <2>3, <2>4, <2>6 DEF WireTyped, Commands
<1> QED  BY <1>2, <1>3, <1>4

-----------------------------------------------------------------------------
(* The steps, by what they disturb.                                        *)

BridgePlaces == {"opened", "handshake", "dropping", "ready", "ending", "closing"}
NoDecision == UNCHANGED <<effective, attesting, refs, upstream, weakest>>

\* The commands there are, and more of the session.
SessionOnly ==
    \A c \in Commands' : \/ c \in Commands
                         \/ c.of = 0 /\ c.method \in SessionMethods

\* The bridge goes on, or only the browser or a follower moves.
LEMMA BridgeGoesOn ==
    ASSUME IInv, NoDecision, WireTyped', SessionOnly,
           pc' = pc \/ \E to \in BridgePlaces : pc' = [pc EXCEPT ![Bridge] = to],
           bidiUrl' \in Endpoints \cup {"none"},
           client' \in BOOLEAN,
           SocketIsLocal'
    PROVE  IInv'
<1>1. Bridge \in Runs /\ Requests \subseteq Runs /\ Bridge \notin Requests
  BY BridgeAssumption DEF Runs
<1>2. UNCHANGED <<effective, attesting, refs, upstream, weakest>>
  BY DEF NoDecision
<1>3. pc \in [Runs -> Places]
  BY DEF IInv, TypeOK, Places
<1>4. /\ pc' \in [Runs -> Places]
      /\ \A r \in Requests : pc'[r] = pc[r]
      /\ pc'[Bridge] = pc[Bridge] \/ pc'[Bridge] \in BridgePlaces
  BY <1>1, <1>3 DEF BridgePlaces, Places
<1>5. TypeOK'
  BY <1>2, <1>4 DEF IInv, TypeOK, Places
<1>6. RunsTyped' /\ CommandsAreAllowed'
  BY <1>2, <1>4 DEF IInv, RunsTyped, CommandsAreAllowed, BridgePlaces
<1>7. AttestsDecision'
  <2> SUFFICES ASSUME NEW r \in Runs, pc'[r] = "attest"
               PROVE  pc[r] = "attest"
    BY <1>2 DEF IInv, AttestsDecision, IsPermit
  <2> QED  BY <1>4 DEF BridgePlaces, Runs
<1>8. SentAsPermitted'
  <2>1. refs' = refs
    BY <1>2
  <2> SUFFICES ASSUME NEW c \in Commands'
               PROVE  /\ c.of <= Len(refs[Bridge])
                      /\ c.of = 0 <=> c.method \in SessionMethods
                      /\ c.of # 0 =>
                            /\ refs[Bridge][c.of].type = "action"
                            /\ refs[Bridge][c.of].decision = "permit"
                            /\ refs[Bridge][c.of].class = "allowed"
                            /\ c.method = Method(refs[Bridge][c.of].action)
                            /\ \A d \in Commands' : c.of = d.of => c.id = d.id
    BY <2>1 DEF SentAsPermitted
  <2>2. CASE c.of = 0 /\ c.method \in SessionMethods
    <3>1. Len(refs[Bridge]) \in Nat
      BY <1>1 DEF IInv, RunsTyped
    <3> QED  BY <2>2, <3>1
  <2>3. CASE c \in Commands
    <3>1. \A d \in Commands' : c.of # 0 /\ c.of = d.of => d \in Commands
      BY DEF SessionOnly
    <3> QED  BY <2>3, <3>1 DEF IInv, SentAsPermitted
  <2> QED  BY <2>2, <2>3 DEF SessionOnly
<1>9. PermitIsLast'
  <2> SUFFICES ASSUME pc'[Bridge] = "permitted"
               PROVE  PermitIsLast'
    BY DEF PermitIsLast
  <2>1. pc[Bridge] = "permitted"
    BY <1>4 DEF BridgePlaces
  <2>2. \A c \in Commands' : c.of < Len(refs[Bridge])
    <3>1. Len(refs[Bridge]) \in Nat \ {0}
      BY <1>1, <2>1 DEF IInv, RunsTyped, PermitIsLast
    <3> QED  BY <2>1, <3>1 DEF IInv, PermitIsLast, SessionOnly
  <2> QED  BY <1>2, <2>1, <2>2 DEF IInv, PermitIsLast, IsPermit
<1>10. RequestLife'
  BY <1>2, <1>4 DEF IInv, RequestLife
<1> QED  BY <1>5, <1>6, <1>7, <1>8, <1>9, <1>10 DEF IInv

\* A run begins to attest an event.
LEMMA BeginsToAttest ==
    ASSUME IInv, NEW r \in Runs, NEW e \in EventType, NEW d \in Decided,
           UNCHANGED <<refs, bidiUrl, client, upstream>>, weakest' \in 0 .. 3,
           WireTyped', Commands' = Commands, socket' # "none" => socket # "none",
           pc' = [pc EXCEPT ![r] = "attest"],
           pc[r] = "new" \/ r = Bridge,
           attesting' = [attesting EXCEPT ![r] = e],
           effective' = [effective EXCEPT ![r] = d],
           e.run = r, e.number = Len(refs[r]) + 1,
           e.type \in {"dispatched", "error"} => r = Bridge,
           e.type \notin {"dispatched", "error"} /\ e.decision = "permit" =>
               e.type = "action" /\ e.action = d.action /\ e.class = d.class,
           Method(d.action) # NoMethod => d.class = "allowed"
    PROVE  IInv'
<1>1. Bridge \in Runs /\ Requests \subseteq Runs /\ Bridge \notin Requests
  BY BridgeAssumption DEF Runs
<1>2. /\ pc \in [Runs -> Places]
      /\ attesting \in [Runs -> EventType \cup {NoEvent}]
      /\ effective \in [Runs -> Decided]
  BY DEF IInv, TypeOK, RunsTyped, Places
<1>3. /\ pc' \in [Runs -> Places]
      /\ attesting' \in [Runs -> EventType \cup {NoEvent}]
      /\ effective' \in [Runs -> Decided]
  BY <1>2 DEF Places
<1>4. /\ pc'[r] = "attest" /\ attesting'[r] = e /\ effective'[r] = d
      /\ \A q \in Runs \ {r} : pc'[q] = pc[q] /\ attesting'[q] = attesting[q]
                                /\ effective'[q] = effective[q]
  BY <1>2
<1>5. TypeOK'
  BY <1>3 DEF IInv, TypeOK, Places
<1>6. RunsTyped' /\ CommandsAreAllowed'
  BY <1>1, <1>3, <1>4 DEF IInv, RunsTyped, CommandsAreAllowed
<1>7. AttestsDecision'
  <2> SUFFICES ASSUME NEW q \in Runs, pc'[q] = "attest"
               PROVE  /\ attesting'[q] \in EventType
                      /\ attesting'[q].run = q
                      /\ attesting'[q].number = Len(refs[q]) + 1
                      /\ attesting'[q].type \in {"dispatched", "error"} => q = Bridge
                      /\ attesting'[q].type \notin {"dispatched", "error"}
                             /\ attesting'[q].decision = "permit" => IsPermit(attesting[q], q)'
    BY DEF AttestsDecision
  <2>1. CASE q = r
    BY <1>4, <2>1 DEF IsPermit
  <2>2. CASE q # r
    BY <1>4, <2>2 DEF IInv, AttestsDecision, IsPermit
  <2> QED  BY <2>1, <2>2
<1>8. SentAsPermitted'
  BY DEF IInv, SentAsPermitted
<1>9. PermitIsLast'
  <2>1. CASE r = Bridge
    BY <1>4, <2>1 DEF PermitIsLast
  <2>2. CASE r # Bridge
    BY <1>1, <1>4, <2>2 DEF IInv, PermitIsLast, IsPermit
  <2> QED  BY <2>1, <2>2
<1>10. RequestLife'
  <2> SUFFICES ASSUME NEW q \in Requests, q = r
               PROVE  refs[q] = <<>> /\ upstream[q] = "none" /\ pc'[q] = "attest"
    BY <1>1, <1>4 DEF IInv, RequestLife
  <2> QED  BY <1>1, <1>4 DEF IInv, RequestLife
<1>11. SocketIsLocal'
  BY <1>1, <1>4 DEF IInv, SocketIsLocal
<1> QED  BY <1>5, <1>6, <1>7, <1>8, <1>9, <1>10, <1>11 DEF IInv

\* A decision is attested, of a command of the bridge or of the gate.
LEMMA EvaluateInv ==
    ASSUME IInv, NEW r \in Runs, NEW c \in Asked, Evaluate(r, c),
           pc[r] = "new" \/ r = Bridge,
           UNCHANGED <<refs, bidiUrl, client, upstream, wireVars>>, weakest' \in 0 .. 3
    PROVE  IInv'
<1> DEFINE type == IF Classify(c).class = "prohibited" THEN "violation" ELSE "action"
           e == [run |-> r, surface |-> EventPrefix(r), number |-> Len(refs[r]) + 1,
                 action |-> Classify(c).action, class |-> Classify(c).class,
                 type |-> type, decision |-> Decision(c), command |-> 0]
           d == Classify(c)
<1>1. /\ d.class \in Classes
      /\ Method(d.action) # NoMethod => d.class = "allowed"
      /\ Decision(c) \in {"permit", "deny"}
      /\ Decision(c) = "permit" => d.class # "prohibited"
  BY DecisionFacts
<1>2. d = [action |-> d.action, class |-> d.class]
  BY DEF Classify
<1>3. Len(refs[r]) \in Nat
  BY DEF IInv, RunsTyped
<1> HIDE DEF d
<1>4. d \in Decided
  BY <1>1, <1>2 DEF Decided, d
<1>5. /\ attesting' = [attesting EXCEPT ![r] = e]
      /\ effective' = [effective EXCEPT ![r] = d]
      /\ pc' = [pc EXCEPT ![r] = "attest"]
  BY DEF Evaluate, Attest, Goto, d
<1>6. e \in EventType
  <2>1. EventPrefix(r) \in {"browser", "agent"}
    BY DEF EventPrefix
  <2>2. d.action \in {Classify(a).action : a \in Asked}
    BY DEF d
  <2> QED  BY <1>1, <1>3, <2>1, <2>2 DEF EventType, Classes, d
<1>7. /\ e.run = r /\ e.number = Len(refs[r]) + 1
      /\ e.type \notin {"dispatched", "error"}
      /\ e.decision = "permit" => e.type = "action"
      /\ e.action = d.action /\ e.class = d.class
  BY <1>1 DEF d
<1>8. WireTyped' /\ Commands' = Commands /\ socket' = socket
  BY QuietWire DEF wireVars
<1> HIDE DEF e
<1> QED  BY <1>1, <1>4, <1>5, <1>6, <1>7, <1>8, BeginsToAttest

\* The outcome of a command is attested.
LEMMA OutcomeInv ==
    ASSUME IInv, NEW r \in Runs, r = Bridge, NEW type \in {"dispatched", "error"}, NEW n \in Nat,
           Attest(Bridge, effective[Bridge], type, "permit", n),
           pc[Bridge] \in {"permitted", "wait"},
           Method(effective[Bridge].action) # NoMethod,
           UNCHANGED <<effective, refs, bridgeVars, upstream>>,
           UNCHANGED <<socket, outbox, executed>>, lastId' \in {lastId, lastId + 1}
    PROVE  IInv'
<1> DEFINE d == effective[r]
           e == [run |-> r, surface |-> EventPrefix(r),
                 number |-> Len(refs[r]) + 1,
                 action |-> d.action, class |-> d.class,
                 type |-> type, decision |-> "permit", command |-> n]
<1>1. d \in Decided /\ Len(refs[r]) \in Nat /\ effective \in [Runs -> Decided]
  BY DEF IInv, RunsTyped
<1>2. d.action # "none" /\ d.class = "allowed"
  <2>1. "none" \notin Commandable
    BY DEF Commandable
  <2> QED  BY <2>1, NoCommand DEF IInv, CommandsAreAllowed
<1>3. e \in EventType
  <2>1. EventPrefix(r) \in {"browser", "agent"}
    BY DEF EventPrefix
  <2>2. d.action \in {Classify(c).action : c \in Asked}
    BY <1>1, <1>2 DEF Decided
  <2> QED  BY <1>1, <1>2, <2>1, <2>2 DEF EventType
<1>4. /\ attesting' = [attesting EXCEPT ![r] = e]
      /\ effective' = [effective EXCEPT ![r] = d]
      /\ pc' = [pc EXCEPT ![r] = "attest"]
  BY <1>1 DEF Attest, Goto
<1>5. e.run = r /\ e.number = Len(refs[r]) + 1 /\ e.type \in {"dispatched", "error"}
  OBVIOUS
<1>6. weakest' \in 0 .. 3 /\ UNCHANGED <<bidiUrl, client, refs, upstream>>
  BY DEF IInv, TypeOK, bridgeVars
<1>7. WireTyped' /\ Commands' = Commands /\ socket' = socket
  BY QuietWire
<1> HIDE DEF d, e
<1>8. Method(d.action) # NoMethod => d.class = "allowed"
  BY <1>2
<1>9. e.type \notin {"dispatched", "error"} /\ e.decision = "permit" =>
          e.type = "action" /\ e.action = d.action /\ e.class = d.class
  BY <1>5
<1>10. UNCHANGED <<refs, bidiUrl, client, upstream>>
  BY <1>6
<1> QED
  BY <1>1, <1>3, <1>4, <1>5, <1>6, <1>7, <1>8, <1>9, <1>10, BeginsToAttest, ZenonT(60)

\* The command of a permit is sent: nothing was sent of that permit before.
LEMMA SendInv ==
    ASSUME IInv, pc[Bridge] = "permitted", Method(effective[Bridge].action) # NoMethod,
           SendFrame(Method(effective[Bridge].action), Len(refs[Bridge])),
           pc' = [pc EXCEPT ![Bridge] = "wait"],
           UNCHANGED <<attesting, effective, refs, bridgeVars, upstream>>
    PROVE  IInv'
<1> DEFINE n == Len(refs[Bridge])
           m == Method(effective[Bridge].action)
           new == [id |-> lastId + 1, method |-> m, of |-> n]
<1>1. Bridge \in Runs /\ Requests \subseteq Runs /\ Bridge \notin Requests
  BY BridgeAssumption DEF Runs
<1>2. n \in Nat \ {0}
  BY <1>1 DEF IInv, RunsTyped, PermitIsLast
<1>3. m \in Methods /\ m \notin SessionMethods
  BY CommandsHaveMethods DEF Methods, SessionMethods
<1>4. WireTyped' /\ Commands' = Commands \cup {new}
  BY <1>2, <1>3, SentCommand
<1>5. /\ refs[Bridge][n].type = "action" /\ refs[Bridge][n].decision = "permit"
      /\ refs[Bridge][n].class = "allowed" /\ m = Method(refs[Bridge][n].action)
      /\ \A c \in Commands : c.of < n
  BY <1>1 DEF IInv, PermitIsLast, IsPermit, CommandsAreAllowed
<1>6. /\ UNCHANGED <<attesting, effective, refs, bidiUrl, weakest, client, upstream>>
      /\ socket' = socket
  BY DEF bridgeVars, SendFrame
<1>7. pc' \in [Runs -> Places] /\ pc'[Bridge] = "wait" /\ \A r \in Requests : pc'[r] = pc[r]
  BY <1>1 DEF IInv, TypeOK, Places
<1>8. TypeOK'
  BY <1>6, <1>7 DEF IInv, TypeOK, Places
<1>9. RunsTyped' /\ CommandsAreAllowed' /\ AttestsDecision'
  BY <1>6, <1>7 DEF IInv, RunsTyped, CommandsAreAllowed, AttestsDecision, IsPermit, Runs
<1>10. SentAsPermitted'
  <2>1. new.of = n /\ new.method = m
    OBVIOUS
  <2> HIDE DEF new, m, n
  <2>2. \A c \in Commands : c.of <= n /\ c.of # n
    <3>1. \A c \in Commands : c.of \in Nat
      BY CommandsAreTyped DEF Wire
    <3> QED  BY <1>2, <1>5, <3>1
  <2> SUFFICES ASSUME NEW c \in Commands'
               PROVE  /\ c.of <= n
                      /\ c.of = 0 <=> c.method \in SessionMethods
                      /\ c.of # 0 =>
                            /\ refs[Bridge][c.of].type = "action"
                            /\ refs[Bridge][c.of].decision = "permit"
                            /\ refs[Bridge][c.of].class = "allowed"
                            /\ c.method = Method(refs[Bridge][c.of].action)
                            /\ \A d \in Commands' : c.of = d.of => c.id = d.id
    BY <1>6 DEF SentAsPermitted, n
  <2>3. CASE c = new
    BY <1>2, <1>3, <1>4, <1>5, <2>1, <2>2, <2>3
  <2>4. CASE c \in Commands
    BY <1>4, <2>1, <2>2, <2>4 DEF IInv, SentAsPermitted
  <2> QED  BY <1>4, <2>3, <2>4
<1>11. PermitIsLast' /\ SocketIsLocal'
  BY <1>6, <1>7 DEF IInv, PermitIsLast, SocketIsLocal
<1>12. RequestLife'
  BY <1>6, <1>7 DEF IInv, RequestLife
<1> QED  BY <1>4, <1>8, <1>9, <1>10, <1>11, <1>12 DEF IInv

\* An event is referred to.
LEMMA ReferredInv ==
    ASSUME IInv, NEW r \in Runs, pc[r] = "attest",
           refs' = [refs EXCEPT ![r] = Append(@, attesting[r])],
           attesting' = [attesting EXCEPT ![r] = NoEvent],
           pc' = [pc EXCEPT ![r] = After(r, attesting[r])],
           UNCHANGED <<effective, bridgeVars, upstream, wireVars>>
    PROVE  IInv'
<1> DEFINE e == attesting[r]
<1>1. Bridge \in Runs /\ Requests \subseteq Runs /\ Bridge \notin Requests
  BY BridgeAssumption DEF Runs
<1>2. /\ e \in EventType /\ e.run = r /\ e.number = Len(refs[r]) + 1
      /\ e.type \in {"dispatched", "error"} => r = Bridge
      /\ e.type \notin {"dispatched", "error"} /\ e.decision = "permit" => IsPermit(e, r)
  BY DEF IInv, AttestsDecision
<1>3. /\ refs \in [Runs -> Seq(EventType)] /\ attesting \in [Runs -> EventType \cup {NoEvent}]
      /\ pc \in [Runs -> Places]
  BY DEF IInv, RunsTyped, TypeOK, Places
<1>4. After(r, e) \in {"ready", "permitted", "blocked"}
  BY DEF After
<1>5. /\ After(r, e) = "permitted" => IsPermit(e, r)
      /\ r # Bridge => After(r, e) \in {"permitted", "blocked"}
      /\ r # Bridge /\ After(r, e) = "permitted" => e.decision = "permit"
  BY <1>2 DEF After
<1> HIDE DEF e
<1>6. /\ refs' \in [Runs -> Seq(EventType)] /\ refs'[r] = Append(refs[r], e)
      /\ \A q \in Runs \ {r} : refs'[q] = refs[q]
  <2>1. Append(refs[r], e) \in Seq(EventType)
    BY <1>2, <1>3
  <2>2. refs' = [refs EXCEPT ![r] = Append(refs[r], e)]
    BY DEF e
  <2> HIDE DEF EventType
  <2> QED  BY <1>3, <2>1, <2>2
<1>7. /\ Len(refs[r]) \in Nat /\ Len(refs'[r]) = Len(refs[r]) + 1
      /\ DOMAIN refs[r] = 1 .. Len(refs[r]) /\ DOMAIN refs'[r] = 1 .. Len(refs[r]) + 1
      /\ refs'[r][Len(refs[r]) + 1] = e
      /\ \A i \in 1 .. Len(refs[r]) : refs'[r][i] = refs[r][i]
  BY <1>2, <1>3, <1>6, AppendedElement
<1>8. /\ pc' \in [Runs -> Places] /\ pc'[r] = After(r, e)
      /\ \A q \in Runs \ {r} : pc'[q] = pc[q]
      /\ attesting' \in [Runs -> EventType \cup {NoEvent}]
      /\ \A q \in Runs \ {r} : attesting'[q] = attesting[q]
  BY <1>3, <1>4 DEF Places, e
<1>9. /\ UNCHANGED <<effective, bidiUrl, weakest, client, upstream, socket, lastId>>
      /\ UNCHANGED <<outbox, executed>>
  BY DEF bridgeVars, wireVars
<1>10. TypeOK'
  <2>1. ASSUME NEW q \in Runs, NEW i \in DOMAIN refs'[q]
        PROVE  refs'[q][i] \in EventType /\ refs'[q][i].run = q /\ refs'[q][i].number = i
    <3>1. CASE q # r
      BY <1>6, <3>1 DEF IInv, TypeOK
    <3>2. CASE q = r /\ i = Len(refs[r]) + 1
      BY <1>2, <1>7, <3>2
    <3>3. CASE q = r /\ i # Len(refs[r]) + 1
      <4>1. i \in 1 .. Len(refs[r])
        BY <1>7, <3>3
      <4> QED  BY <1>7, <3>3, <4>1 DEF IInv, TypeOK
    <3> QED  BY <3>1, <3>2, <3>3
  <2> QED  BY <1>8, <1>9, <2>1 DEF IInv, TypeOK, Places
<1>11. WireTyped' /\ Commands' = Commands
  BY <1>9, QuietWire
<1>12. RunsTyped' /\ CommandsAreAllowed'
  BY <1>1, <1>4, <1>6, <1>8, <1>9 DEF IInv, RunsTyped, CommandsAreAllowed
<1>13. AttestsDecision'
  <2> SUFFICES ASSUME NEW q \in Runs, pc'[q] = "attest"
               PROVE  q # r
    BY <1>6, <1>8, <1>9 DEF IInv, AttestsDecision, IsPermit
  <2> QED  BY <1>4, <1>8
<1>14. \A c \in Commands : c.of \in Nat
  BY CommandsAreTyped DEF Wire
<1>15. SentAsPermitted'
  <2>1. \A i \in 1 .. Len(refs[Bridge]) : refs'[Bridge][i] = refs[Bridge][i]
    BY <1>1, <1>6, <1>7
  <2>2. Len(refs[Bridge]) \in Nat /\ Len(refs'[Bridge]) \in {Len(refs[Bridge]), Len(refs[Bridge]) + 1}
    BY <1>1, <1>3, <1>6, <1>7
  <2>3. \A c \in Commands : c.of # 0 => c.of \in 1 .. Len(refs[Bridge])
    BY <1>14, <2>2 DEF IInv, SentAsPermitted
  <2> QED  BY <1>11, <1>14, <2>1, <2>2, <2>3 DEF IInv, SentAsPermitted
<1>16. PermitIsLast'
  <2>1. CASE r = Bridge
    <3> SUFFICES ASSUME After(r, e) = "permitted"
                 PROVE  PermitIsLast'
      BY <1>8, <2>1 DEF PermitIsLast
    <3>1. /\ e.type = "action" /\ e.decision = "permit"
          /\ e.action = effective'[Bridge].action /\ e.class = effective'[Bridge].class
      BY <1>5, <1>9, <2>1 DEF IsPermit
    <3>2. \A c \in Commands : c.of < Len(refs'[Bridge])
      BY <1>7, <1>14, <2>1 DEF IInv, SentAsPermitted
    <3>3. refs'[Bridge] # <<>> /\ refs'[Bridge][Len(refs'[Bridge])] = e
      BY <1>7, <2>1
    <3> QED  BY <1>11, <3>1, <3>2, <3>3 DEF PermitIsLast, IsPermit
  <2>2. CASE r # Bridge
    BY <1>1, <1>6, <1>8, <1>9, <1>11, <2>2 DEF IInv, PermitIsLast, IsPermit
  <2> QED  BY <2>1, <2>2
<1>17. RequestLife'
  <2> SUFFICES ASSUME NEW q \in Requests, q = r
               PROVE  /\ pc'[q] \in {"permitted", "blocked"}
                      /\ pc'[q] = "permitted" =>
                            Len(refs'[q]) = 1 /\ refs'[q][1].decision = "permit"
                      /\ upstream[q] = "none"
    BY <1>1, <1>6, <1>8, <1>9 DEF IInv, RequestLife
  <2>1. refs[q] = <<>> /\ upstream[q] = "none"
    BY DEF IInv, RequestLife
  <2>2. Len(refs[q]) = 0
    BY <2>1
  <2> QED  BY <1>1, <1>5, <1>7, <1>8, <2>1, <2>2
<1>18. SocketIsLocal'
  BY <1>1, <1>4, <1>8, <1>9 DEF IInv, SocketIsLocal
<1> QED
  BY <1>10, <1>11, <1>12, <1>13, <1>15, <1>16, <1>17, <1>18 DEF IInv

-----------------------------------------------------------------------------
LEMMA BridgeInv == IInv /\ BridgeStep => IInv'
<1> SUFFICES ASSUME IInv, BridgeStep PROVE IInv'
  OBVIOUS
<1>1. Bridge \in Runs
  BY DEF Runs
<1>2. bidiUrl \in Endpoints \cup {"none"} /\ client \in BOOLEAN /\ weakest \in 0 .. 3
  BY DEF IInv, TypeOK
<1>3. lastId \in Nat
  BY DEF IInv, WireTyped
<1>4. ASSUME NEW url \in Endpoints, Connect(url)
      PROVE  IInv'
  <2>1. UNCHANGED <<outbox, executed, lastId>>
    BY <1>4 DEF Connect, OpenSocket, wireVars
  <2>2. WireTyped' /\ Commands' = Commands
    BY <2>1, QuietWire
  <2>3. NoDecision /\ bidiUrl' = url /\ UNCHANGED client
    BY <1>4 DEF Connect, NoDecision
  <2>4. pc[Bridge] = "new" /\ socket = "none"
    BY <1>4 DEF Connect, IInv, SocketIsLocal
  <2>5. \E to \in {"opened", "ready"} : pc' = [pc EXCEPT ![Bridge] = to]
    BY <1>4 DEF Connect, Goto
  <2>6. SocketIsLocal'
    <3>1. pc'[Bridge] # "new"
      BY <1>1, <2>5 DEF IInv, TypeOK
    <3>2. socket' # "none" => url = "loopback"
      BY <1>4, <2>4 DEF Connect, OpenSocket, IsLoopback, wireVars
    <3> QED  BY <2>3, <3>1, <3>2 DEF SocketIsLocal
  <2>7. \E to \in BridgePlaces : pc' = [pc EXCEPT ![Bridge] = to]
    BY <2>5 DEF BridgePlaces
  <2>8. SessionOnly
    BY <2>2 DEF SessionOnly
  <2> QED  BY <1>2, <2>2, <2>3, <2>6, <2>7, <2>8, BridgeGoesOn
\* The steps after which the client, its URL and its socket are as local as before.
<1>5. ASSUME NoDecision, WireTyped', SessionOnly, bidiUrl' = bidiUrl, client' \in BOOLEAN,
             socket' # "none" => socket # "none",
             NEW to \in BridgePlaces, pc' = [pc EXCEPT ![Bridge] = to]
      PROVE  IInv'
  <2>1. pc'[Bridge] # "new"
    BY <1>1, <1>5 DEF IInv, TypeOK, BridgePlaces
  <2>2. SocketIsLocal'
    BY <1>5, <2>1 DEF IInv, SocketIsLocal
  <2> QED  BY <1>2, <1>5, <2>2, BridgeGoesOn
<1>6. CASE AskSession \/ Close
  <2>1. PICK to \in {"handshake", "dropping", "ending", "closing"} : pc' = [pc EXCEPT ![Bridge] = to]
    BY <1>6 DEF AskSession, Close, Goto
  <2>2. WireTyped' /\ SessionOnly /\ socket' = socket
    <3>1. CASE \E m \in SessionMethods : SendFrame(m, 0)
      <4>1. PICK m \in SessionMethods : SendFrame(m, 0)
        BY <3>1
      <4>2. /\ WireTyped'
            /\ Commands' = Commands \cup {[id |-> lastId + 1, method |-> m, of |-> 0]}
        BY <4>1, SentCommand
      <4> QED  BY <4>1, <4>2 DEF SessionOnly, SendFrame
    <3>2. CASE SendFails
      BY <3>2, QuietWire DEF SendFails, SessionOnly
    <3> QED  BY <1>6, <3>1, <3>2 DEF AskSession, Close, SessionMethods
  <2>3. NoDecision /\ bidiUrl' = bidiUrl /\ client' = client
    BY <1>6 DEF AskSession, Close, NoDecision, bridgeVars
  <2>4. to \in BridgePlaces
    BY DEF BridgePlaces
  <2>5. client' \in BOOLEAN
    BY <1>2, <2>3
  <2> QED  BY <1>5, <2>1, <2>2, <2>3, <2>4, <2>5
<1>7. CASE EnforceOnly \/ SkipCommand \/ CloseWithoutClient
  <2>1. \E to \in BridgePlaces : pc' = [pc EXCEPT ![Bridge] = to]
    BY <1>7 DEF EnforceOnly, SkipCommand, CloseWithoutClient, Goto, BridgePlaces
  <2>2. UNCHANGED wireVars
    BY <1>7 DEF EnforceOnly, SkipCommand, CloseWithoutClient
  <2>3. WireTyped' /\ SessionOnly
    BY <2>2, QuietWire DEF wireVars, SessionOnly
  <2>4. NoDecision /\ UNCHANGED <<bidiUrl, client, socket>>
    BY <1>7, <2>2 DEF EnforceOnly, SkipCommand, CloseWithoutClient, NoDecision, bridgeVars, wireVars
  <2>5. client' \in BOOLEAN
    BY <1>2, <2>4
  <2> QED  BY <1>5, <2>1, <2>3, <2>4, <2>5
<1>8. CASE WriteReceipt \/ DropClient
  <2>1. \E to \in BridgePlaces : pc' = [pc EXCEPT ![Bridge] = to]
    BY <1>8 DEF WriteReceipt, DropClient, Goto, BridgePlaces
  <2>2. Hangup
    BY <1>8 DEF WriteReceipt, DropClient
  <2>3. WireTyped' /\ SessionOnly /\ (socket' # "none" => socket # "none")
    BY <2>2, QuietWire DEF Hangup, SessionOnly
  <2>4. NoDecision /\ bidiUrl' = bidiUrl
    BY <1>8 DEF WriteReceipt, DropClient, NoDecision, bridgeVars
  <2>5. client' \in BOOLEAN
    BY <1>2, <1>8, Zenon DEF WriteReceipt, DropClient, bridgeVars
  <2> QED  BY <1>5, <2>1, <2>3, <2>4, <2>5
<1>9. ASSUME NEW c \in BridgeCommands, Dispatch(c)
      PROVE  IInv'
  <2>1. weakest' \in 0 .. 3
    BY <1>2, <1>9, ReplayRanks DEF Dispatch
  <2>2. c \in Asked
    BY DEF Asked
  <2>3. Evaluate(Bridge, c) /\ UNCHANGED <<refs, bidiUrl, client, upstream, wireVars>>
    BY <1>9 DEF Dispatch
  <2> QED  BY <1>1, <2>1, <2>2, <2>3, EvaluateInv
<1>10. CASE SendCommand
  <2>1. pc[Bridge] = "permitted" /\ Method(effective[Bridge].action) # NoMethod
        /\ UNCHANGED <<effective, refs, bridgeVars, upstream>>
    BY <1>10 DEF SendCommand
  <2>2. CASE SendFrame(Method(effective[Bridge].action), Len(refs[Bridge]))
             /\ Goto(Bridge, "wait") /\ UNCHANGED attesting
    BY <2>1, <2>2, SendInv DEF Goto
  <2>3. CASE SendFails /\ Attest(Bridge, effective[Bridge], "error", "permit", lastId + 1)
    <3>1. UNCHANGED <<socket, outbox, executed>> /\ lastId' \in {lastId, lastId + 1}
          /\ lastId + 1 \in Nat
      BY <1>3, <2>3 DEF SendFails
    <3> QED  BY <1>1, <2>1, <2>3, <3>1, OutcomeInv
  <2> QED  BY <1>10, <2>2, <2>3 DEF SendCommand
<1>11. CASE Receive
  <2>1. UNCHANGED <<socket, outbox, executed, lastId>>
    BY <1>11 DEF Receive, SkipFrame, Connected, Dispatched, SessionEnded, Skip, Consume,
                 Answer, Raise, TimeOut, StallInFrame, ReadGarbage, wireVars
  <2>2. WireTyped' /\ SessionOnly
    BY <2>1, QuietWire DEF SessionOnly
  <2>3. CASE SkipFrame
    <3>1. NoDecision /\ UNCHANGED <<pc, bidiUrl, client>>
      BY <2>3 DEF SkipFrame, NoDecision, bridgeVars
    <3>2. SocketIsLocal'
      BY <2>1, <3>1 DEF IInv, SocketIsLocal
    <3>3. client' \in BOOLEAN
      BY <1>2, <3>1
    <3> QED  BY <1>2, <2>2, <3>1, <3>2, <3>3, BridgeGoesOn
  <2>4. CASE Connected \/ SessionEnded
    <3>1. \E to \in BridgePlaces : pc' = [pc EXCEPT ![Bridge] = to]
      BY <2>4 DEF Connected, SessionEnded, Goto, BridgePlaces
    <3>2. NoDecision /\ bidiUrl' = bidiUrl
      BY <2>4 DEF Connected, SessionEnded, NoDecision, bridgeVars
    <3>3. client' \in BOOLEAN
      BY <1>2, <2>4, Zenon DEF Connected, SessionEnded, bridgeVars
    <3> QED  BY <1>5, <2>1, <2>2, <3>1, <3>2, <3>3
  <2>5. CASE Dispatched
    <3>1. PICK type \in {"dispatched", "error"} :
              Attest(Bridge, effective[Bridge], type, "permit", lastId)
      BY <2>5 DEF Dispatched
    <3>2. pc[Bridge] = "wait" /\ UNCHANGED <<effective, refs, bridgeVars, upstream>>
      BY <2>5 DEF Dispatched
    <3>3. Method(effective[Bridge].action) # NoMethod
      BY <3>2 DEF IInv, CommandsAreAllowed
    <3>4. UNCHANGED <<socket, outbox, executed>> /\ lastId' \in {lastId, lastId + 1}
      BY <2>1
    <3> QED  BY <1>1, <1>3, <3>1, <3>2, <3>3, <3>4, OutcomeInv
  <2> QED  BY <1>11, <2>3, <2>4, <2>5 DEF Receive
<1> QED
  BY <1>4, <1>6, <1>7, <1>8, <1>9, <1>10, <1>11 DEF BridgeStep

\* What the gate does with a request it has decided.
LEMMA RequestInv ==
    ASSUME IInv, NEW r \in Requests,
           Block(r) \/ Forward(r) \/ Respond(r) \/ Act(r)
    PROVE  IInv'
<1>1. /\ Bridge \in Runs /\ Requests \subseteq Runs /\ r # Bridge /\ r \in Runs
      /\ \A q \in Runs \ Requests : q = Bridge
  BY BridgeAssumption DEF Runs
<1>2. /\ UNCHANGED <<effective, attesting, refs, bidiUrl, weakest, client, wireVars>>
  BY DEF Block, Forward, Respond, Act, bridgeVars
<1>3. pc \in [Runs -> Places] /\ upstream \in [Requests -> {"none", "received", "done"}]
  BY DEF IInv, TypeOK, Places
<1>4. \/ pc' = pc
      \/ \E to \in {"denied", "forwarded", "unreachable", "replied"} :
             pc' = [pc EXCEPT ![r] = to]
  BY DEF Block, Forward, Respond, Act, Goto
<1>5. /\ pc' \in [Runs -> Places] /\ \A q \in Runs \ {r} : pc'[q] = pc[q]
      /\ pc'[r] = "attest" => pc[r] = "attest"
  BY <1>1, <1>3, <1>4 DEF Places
<1>6. /\ upstream' \in [Requests -> {"none", "received", "done"}]
      /\ \A q \in Requests \ {r} : upstream'[q] = upstream[q]
  BY <1>3 DEF Block, Forward, Respond, Act
<1>7. WireTyped' /\ Commands' = Commands /\ socket' = socket
  BY <1>2, QuietWire DEF wireVars
<1>8. TypeOK' /\ RunsTyped' /\ CommandsAreAllowed'
  BY <1>1, <1>2, <1>5, <1>6 DEF IInv, TypeOK, Places, RunsTyped, CommandsAreAllowed
<1>9. AttestsDecision' /\ PermitIsLast' /\ SentAsPermitted' /\ SocketIsLocal'
  BY <1>1, <1>2, <1>5, <1>7
     DEF IInv, AttestsDecision, PermitIsLast, IsPermit, SentAsPermitted, SocketIsLocal
<1>10. RequestLife'
  <2>1. ASSUME NEW q \in Requests, q # r
        PROVE  pc'[q] = pc[q] /\ refs'[q] = refs[q] /\ upstream'[q] = upstream[q]
    BY <1>1, <1>2, <1>5, <1>6, <2>1
  <2>2. /\ pc'[r] \in {"new", "attest", "permitted", "blocked", "denied",
                       "forwarded", "unreachable", "replied"}
        /\ pc'[r] \in {"new", "attest"} => refs'[r] = <<>>
        /\ pc'[r] \in {"permitted", "forwarded", "unreachable", "replied"} =>
              Len(refs'[r]) = 1 /\ refs'[r][1].decision = "permit"
        /\ pc'[r] \in {"new", "attest", "permitted", "blocked", "denied"} =>
              upstream'[r] = "none"
    <3>1. CASE Block(r)
      BY <1>1, <1>2, <1>3, <3>1 DEF Block, Goto, IInv, RequestLife
    <3>2. CASE Forward(r)
      BY <1>1, <1>2, <1>3, <3>2 DEF Forward, Goto, IInv, RequestLife
    <3>3. CASE Respond(r)
      BY <1>1, <1>2, <1>3, <3>3 DEF Respond, Goto, IInv, RequestLife
    <3>4. CASE Act(r)
      BY <1>1, <1>2, <1>3, <3>4 DEF Act, IInv, RequestLife
    <3> QED  BY <3>1, <3>2, <3>3, <3>4
  <2> QED  BY <2>1, <2>2 DEF IInv, RequestLife
<1> QED  BY <1>7, <1>8, <1>9, <1>10 DEF IInv

LEMMA StepInv == IInv /\ [Next]_vars => IInv'
<1> SUFFICES ASSUME IInv, [Next]_vars PROVE IInv'
  OBVIOUS
<1>1. bidiUrl \in Endpoints \cup {"none"} /\ client \in BOOLEAN /\ weakest \in 0 .. 3
  BY DEF IInv, TypeOK
<1>2. CASE BridgeStep
  BY <1>2, BridgeInv
<1>3. ASSUME NEW r \in Runs, Attested(r)
      PROVE  IInv'
  <2>1. CASE BeginLine(attesting[r]) /\ UNCHANGED <<pc, attesting, refs>>
    <3>1. NoDecision /\ UNCHANGED <<pc, bidiUrl, client, wireVars>>
      BY <1>3, <2>1 DEF Attested, NoDecision, bridgeVars
    <3>2. WireTyped' /\ SessionOnly
      BY <3>1, QuietWire DEF wireVars, SessionOnly
    <3>3. SocketIsLocal'
      BY <3>1 DEF IInv, SocketIsLocal, wireVars
    <3>4. client' \in BOOLEAN
      BY <1>1, <3>1
    <3> QED  BY <1>1, <3>1, <3>2, <3>3, <3>4, BridgeGoesOn
  <2>2. CASE /\ refs' = [refs EXCEPT ![r] = Append(@, attesting[r])]
             /\ attesting' = [attesting EXCEPT ![r] = NoEvent]
             /\ pc' = [pc EXCEPT ![r] = After(r, attesting[r])]
    <3>1. pc[r] = "attest" /\ UNCHANGED <<effective, bridgeVars, upstream, wireVars>>
      BY <1>3 DEF Attested
    <3> QED  BY <2>2, <3>1, ReferredInv
  <2> QED  BY <1>3, <2>1, <2>2 DEF Attested, Goto
<1>4. ASSUME NEW r \in Requests, GateStep(r)
      PROVE  IInv'
  <2>1. ASSUME NEW q \in GateRequests, HandleRequest(r, q)
        PROVE  IInv'
    <3>1. CommandOf(q) \in Asked /\ r \in Runs
      BY DEF Asked, Runs
    <3>2. /\ Evaluate(r, CommandOf(q)) /\ pc[r] = "new"
          /\ UNCHANGED <<refs, bidiUrl, weakest, client, upstream, wireVars>>
      BY <2>1 DEF HandleRequest, bridgeVars
    <3>3. weakest' \in 0 .. 3
      BY <1>1, <3>2
    <3> QED  BY <3>1, <3>2, <3>3, EvaluateInv
  <2> QED  BY <1>4, <2>1, RequestInv DEF GateStep
<1>5. CASE BrowserStep
  <2>1. Execute \/ Push \/ Lose
    BY <1>5 DEF BrowserStep
  <2>2. WireTyped' /\ SessionOnly
    BY <2>1, BrowserSendsNothing DEF SessionOnly
  <2>3. NoDecision /\ UNCHANGED <<pc, bidiUrl, client>>
    BY <1>5 DEF BrowserStep, NoDecision, bridgeVars
  <2>4. SocketIsLocal'
    BY <2>1, <2>3 DEF IInv, SocketIsLocal, Execute, Push, Lose
  <2>5. client' \in BOOLEAN
    BY <1>1, <2>3
  <2> QED  BY <1>1, <2>2, <2>3, <2>4, <2>5, BridgeGoesOn
<1>6. CASE UNCHANGED vars \/ \E f \in Followers : FollowerStep(f)
  <2>1. NoDecision /\ UNCHANGED <<pc, bidiUrl, client, wireVars>>
    BY <1>6 DEF vars, FollowerStep, NoDecision, bridgeVars
  <2>2. WireTyped' /\ SessionOnly
    BY <2>1, QuietWire DEF wireVars, SessionOnly
  <2>3. SocketIsLocal'
    BY <2>1 DEF IInv, SocketIsLocal, wireVars
  <2>4. client' \in BOOLEAN
    BY <1>1, <2>1
  <2> QED  BY <1>1, <2>1, <2>2, <2>3, <2>4, BridgeGoesOn
<1> QED  BY <1>2, <1>3, <1>4, <1>5, <1>6 DEF Next

LEMMA InvHolds == Spec => []IInv
BY InitInv, StepInv, PTL DEF Spec

-----------------------------------------------------------------------------
(* What becomes of a command.                                              *)

Outcomes == {"dispatched", "error"}
Frame == [id : Nat, ok : BOOLEAN]

\* Every command has an id of its own.
IdsAreUnique ==
    \A c \in Commands :
        /\ c.id \in 1 .. lastId
        /\ \A d \in Commands : c.id = d.id => c = d

\* An answer is of a command that the browser did, or that failed in it.
AnswersAreTrue ==
    /\ inbox \in Seq(Frame)
    /\ \A f \in ToSet(inbox) : f.id # 0 =>
          \E x \in ToSet(executed) : x.command.id = f.id /\ x.ok = f.ok

\* The bridge waits for the command of its last event.
WaitsForLast ==
    pc[Bridge] = "wait" =>
        /\ lastId > 0
        /\ \A c \in Commands : c.id = lastId => c.of = Len(refs[Bridge])

\* The browser has done what the bridge is writing of.
OutcomeIsDone ==
    pc[Bridge] = "attest" /\ attesting[Bridge].type = "dispatched" =>
        \E x \in ToSet(executed) :
            /\ x.ok /\ x.command.id = attesting[Bridge].command
            /\ x.command.of = Len(refs[Bridge])

\* A command has its outcome, or the bridge waits for it, or is writing it.
HasOutcome(c) ==
    /\ c.of + 1 <= Len(refs[Bridge])
    /\ refs[Bridge][c.of + 1].type \in Outcomes
    /\ refs[Bridge][c.of + 1].command = c.id

AwaitsOutcome(c) ==
    /\ c.of = Len(refs[Bridge])
    /\ \/ pc[Bridge] = "wait" /\ c.id = lastId
       \/ /\ pc[Bridge] = "attest" /\ attesting[Bridge].type \in Outcomes
          /\ attesting[Bridge].command = c.id

OutcomesFollow == \A c \in Commands : c.of # 0 => HasOutcome(c) \/ AwaitsOutcome(c)

\* The run's replay class is no stronger than that of any of its actions.
WeakestCovers ==
    /\ \A i \in DOMAIN refs[Bridge] : ReplayRank(refs[Bridge][i].action) <= weakest
    /\ pc[Bridge] \in {"permitted", "wait", "attest"} =>
          ReplayRank(effective[Bridge].action) <= weakest
    /\ pc[Bridge] = "attest" => ReplayRank(attesting[Bridge].action) <= weakest

\* The receipt is written after the last command, for the client is gone.
ReceiptIsLast ==
    receipt # NoEvent =>
        /\ ~client
        /\ pc[Bridge] \notin {"new", "opened", "handshake"}
        /\ \A c \in Commands : c.of # 0 =>
              /\ c.of + 1 <= receipt.trace
              /\ ReplayRank(refs[Bridge][c.of].action) <= receipt.replay

OutcomesInv ==
    /\ IdsAreUnique
    /\ AnswersAreTrue
    /\ WaitsForLast
    /\ DispatchedWasDone
    /\ OutcomeIsDone
    /\ OutcomesFollow
    /\ WeakestCovers
    /\ ReceiptIsLast

LEMMA OutcomeFacts ==
    ASSUME IInv
    PROVE  /\ Bridge \in Runs /\ pc \in [Runs -> Places]
           /\ refs[Bridge] \in Seq(EventType)
           /\ Len(refs[Bridge]) \in Nat /\ DOMAIN refs[Bridge] = 1 .. Len(refs[Bridge])
           /\ lastId \in Nat /\ weakest \in 0 .. 3
           /\ \A c \in Commands : c.id \in Nat /\ c.of \in 0 .. Len(refs[Bridge])
<1>1. Bridge \in Runs /\ refs \in [Runs -> Seq(EventType)]
  BY DEF Runs, IInv, RunsTyped
<1>2. refs[Bridge] \in Seq(EventType)
  <2> HIDE DEF EventType
  <2> QED  BY <1>1
<1>3. Len(refs[Bridge]) \in Nat /\ DOMAIN refs[Bridge] = 1 .. Len(refs[Bridge])
  <2> HIDE DEF EventType
  <2> QED  BY <1>2
<1>4. pc \in [Runs -> Places] /\ lastId \in Nat /\ weakest \in 0 .. 3
  BY DEF IInv, TypeOK, WireTyped, Places
<1>5. ASSUME NEW c \in Commands
      PROVE  c.id \in Nat /\ c.of \in 0 .. Len(refs[Bridge])
  <2>1. c \in Wire
    BY CommandsAreTyped
  <2>2. c.of <= Len(refs[Bridge])
    BY DEF IInv, SentAsPermitted
  <2> QED  BY <1>3, <2>1, <2>2 DEF Wire
<1> QED  BY <1>1, <1>2, <1>3, <1>4, <1>5

\* The commands there are, or one more that has the next id.
LEMMA IdsStay ==
    ASSUME IInv, IdsAreUnique, lastId' \in {lastId, lastId + 1},
           \/ Commands' \subseteq Commands
           \/ /\ lastId' = lastId + 1
              /\ \E n : n.id = lastId + 1 /\ Commands' \subseteq Commands \cup {n}
    PROVE  IdsAreUnique'
<1>1. lastId \in Nat /\ \A c \in Commands : c.id \in 1 .. lastId
  BY OutcomeFacts DEF IdsAreUnique
<1>2. CASE Commands' \subseteq Commands
  BY <1>1, <1>2 DEF IdsAreUnique
<1>3. CASE lastId' = lastId + 1 /\ \E n : n.id = lastId + 1 /\ Commands' \subseteq Commands \cup {n}
  <2>1. PICK n : n.id = lastId + 1 /\ Commands' \subseteq Commands \cup {n}
    BY <1>3
  <2>2. ASSUME NEW c \in Commands', NEW d \in Commands'
        PROVE  c.id \in 1 .. lastId' /\ (c.id = d.id => c = d)
    BY <1>1, <1>3, <2>1 DEF IdsAreUnique
  <2> QED  BY <2>2 DEF IdsAreUnique
<1> QED  BY <1>2, <1>3

LEMMA AnswersStay ==
    ASSUME AnswersAreTrue, inbox' \in Seq(Frame),
           ToSet(inbox') \subseteq ToSet(inbox), ToSet(executed) \subseteq ToSet(executed')
    PROVE  AnswersAreTrue'
BY DEF AnswersAreTrue

\* What the client does with the frames it reads.
Reads ==
    \/ inbox' \in {inbox, <<>>}
    \/ inbox # <<>> /\ inbox' = Tail(inbox)
    \/ \E k \in 1 .. Len(inbox) : inbox' = SubSeq(inbox, k + 1, Len(inbox))

LEMMA ReadingIsTrue ==
    ASSUME AnswersAreTrue, executed' = executed, Reads
    PROVE  AnswersAreTrue'
<1>1. inbox \in Seq(Frame)
  BY DEF AnswersAreTrue
<1>2. inbox' \in Seq(Frame) /\ ToSet(inbox') \subseteq ToSet(inbox)
  <2> HIDE DEF Frame
  <2>1. CASE inbox # <<>> /\ inbox' = Tail(inbox)
    BY <1>1, <2>1, TakenFromSet
  <2>2. ASSUME NEW k \in 1 .. Len(inbox), inbox' = SubSeq(inbox, k + 1, Len(inbox))
        PROVE  inbox' \in Seq(Frame) /\ ToSet(inbox') \subseteq ToSet(inbox)
    <3> DEFINE s == SubSeq(inbox, k + 1, Len(inbox))
    <3>1. /\ Len(inbox) \in Nat /\ DOMAIN inbox = 1 .. Len(inbox)
          /\ s \in Seq(Frame) /\ DOMAIN s = 1 .. Len(inbox) - k
          /\ \A i \in 1 .. Len(inbox) - k : s[i] = inbox[k + i]
      BY <1>1
    <3> HIDE DEF s
    <3>2. \A i \in DOMAIN s : k + i \in DOMAIN inbox /\ s[i] = inbox[k + i]
      BY <3>1
    <3>3. ToSet(s) \subseteq ToSet(inbox)
      BY <3>2 DEF ToSet
    <3> QED  BY <2>2, <3>1, <3>3 DEF s
  <2>3. CASE inbox' = <<>>
    BY <2>3 DEF ToSet
  <2> QED  BY <1>1, <2>1, <2>2, <2>3 DEF Reads
<1> QED  BY <1>2, AnswersStay

\* What the browser does.
LEMMA BrowserIsTrue ==
    ASSUME IInv, AnswersAreTrue, Execute \/ Push \/ Lose
    PROVE  AnswersAreTrue' /\ ToSet(executed) \subseteq ToSet(executed')
<1>1. inbox \in Seq(Frame) /\ executed \in Seq(Done) /\ outbox \in Seq(Wire)
  BY DEF AnswersAreTrue, IInv, WireTyped
<1>2. CASE Push
  <2> DEFINE f == [id |-> 0, ok |-> TRUE]
  <2>1. f \in Frame /\ f.id = 0
    BY DEF Frame
  <2>2. inbox' = Append(inbox, f) /\ executed' = executed
    BY <1>2 DEF Push
  <2> HIDE DEF f
  <2>3. inbox' \in Seq(Frame) /\ ToSet(inbox') = ToSet(inbox) \cup {f}
    BY <1>1, <2>1, <2>2, AppendedElement, AppendedToSet
  <2> QED  BY <2>1, <2>2, <2>3 DEF AnswersAreTrue
<1>3. CASE Lose
  BY <1>3, ReadingIsTrue DEF Lose, Reads
<1>4. CASE Execute
  <2>1. PICK ok \in BOOLEAN :
            /\ executed' = Append(executed, [command |-> Head(outbox), ok |-> ok])
            /\ inbox' = IF socket = "open"
                        THEN Append(inbox, [id |-> Head(outbox).id, ok |-> ok]) ELSE inbox
    BY <1>4 DEF Execute
  <2> DEFINE x == [command |-> Head(outbox), ok |-> ok]
             f == [id |-> Head(outbox).id, ok |-> ok]
  <2>2. Head(outbox) \in Wire
    BY <1>1, <1>4, TakenFromSet DEF Execute
  <2>3. /\ x \in Done /\ f \in Frame
        /\ x.command.id = f.id /\ x.ok = f.ok
    BY <2>2 DEF Done, Frame, Wire
  <2>4. executed' = Append(executed, x) /\ (inbox' = inbox \/ inbox' = Append(inbox, f))
    BY <2>1
  <2> HIDE DEF x, f
  <2>5. ToSet(executed') = ToSet(executed) \cup {x}
    BY <1>1, <2>3, <2>4, AppendedToSet
  <2>6. inbox' \in Seq(Frame) /\ ToSet(inbox') \subseteq ToSet(inbox) \cup {f}
    <3> HIDE DEF Frame
    <3>1. Append(inbox, f) \in Seq(Frame)
      BY <1>1, <2>3
    <3>2. ToSet(Append(inbox, f)) = ToSet(inbox) \cup {f}
      BY <1>1, <2>3, AppendedToSet
    <3>3. CASE inbox' = inbox
      BY <1>1, <3>3
    <3>4. CASE inbox' = Append(inbox, f)
      BY <3>1, <3>2, <3>4
    <3> QED  BY <2>4, <3>3, <3>4
  <2>7. ASSUME NEW g \in ToSet(inbox'), g.id # 0
        PROVE  \E y \in ToSet(executed') : y.command.id = g.id /\ y.ok = g.ok
    <3>1. CASE g = f
      BY <2>3, <2>5, <3>1
    <3>2. CASE g \in ToSet(inbox)
      BY <2>5, <2>7, <3>2 DEF AnswersAreTrue
    <3> QED  BY <2>6, <3>1, <3>2
  <2> QED  BY <2>5, <2>6, <2>7 DEF AnswersAreTrue
<1> QED  BY <1>2, <1>3, <1>4

\* A receipt stays as long as the client does not come back.
LEMMA ReceiptStays ==
    ASSUME IInv, OutcomesInv, receipt' = receipt,
           \A c \in Commands' : c.of # 0 => c \in Commands,
           \A i \in 1 .. Len(refs[Bridge]) : refs'[Bridge][i] = refs[Bridge][i],
           receipt # NoEvent =>
               /\ client' = client
               /\ pc'[Bridge] \in {"new", "opened", "handshake"} => pc'[Bridge] = pc[Bridge]
    PROVE  ReceiptIsLast'
<1>1. \A c \in Commands : c.of # 0 => c.of \in 1 .. Len(refs[Bridge])
  BY OutcomeFacts
<1> SUFFICES ASSUME receipt # NoEvent
             PROVE  /\ ~client'
                    /\ pc'[Bridge] \notin {"new", "opened", "handshake"}
                    /\ \A c \in Commands' : c.of # 0 =>
                          /\ c.of + 1 <= receipt.trace
                          /\ ReplayRank(refs'[Bridge][c.of].action) <= receipt.replay
  BY DEF ReceiptIsLast
<1>2. /\ ~client /\ pc[Bridge] \notin {"new", "opened", "handshake"}
      /\ \A c \in Commands : c.of # 0 =>
            /\ c.of + 1 <= receipt.trace
            /\ ReplayRank(refs[Bridge][c.of].action) <= receipt.replay
  BY DEF OutcomesInv, ReceiptIsLast
<1>3. \A c \in Commands' : c.of # 0 =>
          /\ c.of + 1 <= receipt.trace
          /\ ReplayRank(refs'[Bridge][c.of].action) <= receipt.replay
  BY <1>1, <1>2
<1>4. client' = client
  OBVIOUS
<1>5. ~client'
  BY <1>2, <1>4, Zenon
<1> QED  BY <1>2, <1>3, <1>5

\* Whatever attests nothing of the bridge and asks the browser nothing but
\* what concerns its session.
LEMMA OutcomesStay ==
    ASSUME IInv, OutcomesInv, IInv',
           refs'[Bridge] = refs[Bridge], attesting'[Bridge] = attesting[Bridge],
           effective'[Bridge] = effective[Bridge], weakest' = weakest,
           lastId' \in {lastId, lastId + 1},
           \/ Commands' \subseteq Commands
           \/ /\ lastId' = lastId + 1
              /\ \E n : n.id = lastId + 1 /\ n.of = 0 /\ Commands' \subseteq Commands \cup {n},
           AnswersAreTrue', ToSet(executed) \subseteq ToSet(executed'),
           \/ pc'[Bridge] = pc[Bridge] /\ lastId' = lastId
           \/ pc'[Bridge] \in BridgePlaces /\ pc[Bridge] \notin {"wait", "attest"},
           ReceiptIsLast'
    PROVE  OutcomesInv'
<1>1. IdsAreUnique'
  BY IdsStay DEF OutcomesInv
<1>2. \A c \in Commands' : c.of # 0 => c \in Commands
  OBVIOUS
<1>3. lastId \in Nat /\ \A c \in Commands : c.id \in Nat
  BY OutcomeFacts
<1>4. WaitsForLast'
  <2> SUFFICES ASSUME pc'[Bridge] = "wait"
               PROVE  /\ lastId' > 0
                      /\ \A c \in Commands' : c.id = lastId' => c.of = Len(refs'[Bridge])
    BY DEF WaitsForLast
  <2>1. pc[Bridge] = "wait" /\ lastId' = lastId
    BY DEF BridgePlaces
  <2>2. Commands' \subseteq Commands
    BY <1>3, <2>1
  <2> QED  BY <2>1, <2>2 DEF OutcomesInv, WaitsForLast
<1>5. DispatchedWasDone'
  BY DEF OutcomesInv, DispatchedWasDone
<1>6. OutcomeIsDone'
  BY DEF OutcomesInv, OutcomeIsDone, BridgePlaces
<1>7. OutcomesFollow'
  <2> SUFFICES ASSUME NEW c \in Commands', c.of # 0
               PROVE  HasOutcome(c)' \/ AwaitsOutcome(c)'
    BY DEF OutcomesFollow
  <2>1. HasOutcome(c) \/ AwaitsOutcome(c)
    BY <1>2 DEF OutcomesInv, OutcomesFollow
  <2>2. HasOutcome(c) => HasOutcome(c)'
    BY DEF HasOutcome
  <2>3. AwaitsOutcome(c) => AwaitsOutcome(c)'
    BY DEF AwaitsOutcome
  <2> QED  BY <2>1, <2>2, <2>3
<1>8. WeakestCovers'
  BY DEF OutcomesInv, WeakestCovers, BridgePlaces
<1> QED  BY <1>1, <1>4, <1>5, <1>6, <1>7, <1>8 DEF OutcomesInv

LEMMA OutcomesInit == Init => OutcomesInv
<1> SUFFICES ASSUME Init PROVE OutcomesInv
  OBVIOUS
<1>1. /\ outbox = <<>> /\ executed = <<>> /\ inbox = <<>>
      /\ refs[Bridge] = <<>> /\ pc[Bridge] = "new" /\ receipt = NoEvent
  BY DEF Init, WireInit, Runs
<1>2. Commands = {} /\ ToSet(inbox) = {} /\ DOMAIN refs[Bridge] = {}
  BY <1>1 DEF Commands, ToSet
<1>3. inbox \in Seq(Frame)
  BY <1>1
<1> QED
  BY <1>1, <1>2, <1>3 DEF OutcomesInv, IdsAreUnique, AnswersAreTrue, WaitsForLast,
     DispatchedWasDone, OutcomeIsDone, OutcomesFollow, WeakestCovers, ReceiptIsLast

\* The bridge begins to attest a decision: every command has its outcome.
LEMMA OutcomesOfDispatch ==
    ASSUME IInv, OutcomesInv, IInv', NEW c \in BridgeCommands, Dispatch(c)
    PROVE  OutcomesInv'
<1>1. /\ pc[Bridge] = "ready" /\ UNCHANGED <<refs, client, receipt, wireVars>>
      /\ weakest' = Max({weakest, ReplayRank(Classify(c).action)})
      /\ Evaluate(Bridge, c)
  BY DEF Dispatch
<1>2. UNCHANGED <<outbox, inbox, executed, lastId>>
  BY <1>1 DEF wireVars
<1>3. Commands' = Commands
  BY <1>2 DEF Commands
<1>4. /\ pc'[Bridge] = "attest"
      /\ effective'[Bridge] = Classify(c)
      /\ attesting'[Bridge].action = Classify(c).action
      /\ attesting'[Bridge].type \in {"violation", "action"}
  BY <1>1, OutcomeFacts DEF Evaluate, Attest, Goto, IInv, RunsTyped
<1>5. AnswersAreTrue'
  BY <1>2, ReadingIsTrue DEF OutcomesInv, Reads
<1>6. IdsAreUnique'
  BY <1>2, <1>3, IdsStay DEF OutcomesInv
<1>7. WaitsForLast' /\ OutcomeIsDone'
  BY <1>4 DEF WaitsForLast, OutcomeIsDone
<1>8. DispatchedWasDone'
  BY <1>1, <1>2 DEF OutcomesInv, DispatchedWasDone
<1>9. OutcomesFollow'
  BY <1>1, <1>3 DEF OutcomesInv, OutcomesFollow, HasOutcome, AwaitsOutcome
<1>10. WeakestCovers'
  <2> DEFINE a == Classify(c).action
  <2>1. /\ weakest' \in 0 .. 3 /\ weakest \in 0 .. 3 /\ ReplayRank(a) \in 0 .. 3
        /\ weakest <= weakest' /\ ReplayRank(a) <= weakest'
    BY <1>1, OutcomeFacts, ReplayRanks
  <2> HIDE DEF a
  <2>2. \A i \in DOMAIN refs[Bridge] :
            /\ ReplayRank(refs[Bridge][i].action) <= weakest
            /\ ReplayRank(refs[Bridge][i].action) \in 0 .. 3
    BY <2>1, ReplayRanks DEF OutcomesInv, WeakestCovers
  <2>3. \A i \in DOMAIN refs[Bridge] : ReplayRank(refs[Bridge][i].action) <= weakest'
    BY <2>1, <2>2
  <2> QED  BY <1>1, <1>4, <2>1, <2>3 DEF WeakestCovers, a
<1>11. ReceiptIsLast'
  BY <1>1, <1>3, <1>4, ReceiptStays
<1> QED  BY <1>5, <1>6, <1>7, <1>8, <1>9, <1>10, <1>11 DEF OutcomesInv

\* A command leaves: the bridge has a client, so there is no receipt yet.
LEMMA OutcomesOfSend ==
    ASSUME IInv, OutcomesInv, IInv',
           pc[Bridge] = "permitted", client, Method(effective[Bridge].action) # NoMethod,
           SendFrame(Method(effective[Bridge].action), Len(refs[Bridge])),
           pc' = [pc EXCEPT ![Bridge] = "wait"],
           UNCHANGED <<attesting, effective, refs, bridgeVars>>
    PROVE  OutcomesInv'
<1> DEFINE m == Method(effective[Bridge].action)
           k == Len(refs[Bridge])
           new == [id |-> lastId + 1, method |-> m, of |-> k]
<1>1. k \in Nat /\ m \in Methods
  BY OutcomeFacts, CommandsHaveMethods
<1>2. Commands' = Commands \cup {new}
  BY <1>1, SentCommand
<1>3. new.id = lastId + 1 /\ new.of = k
  OBVIOUS
<1>4. /\ lastId' = lastId + 1 /\ lastId \in Nat /\ executed' = executed /\ inbox' = inbox
      /\ refs' = refs /\ weakest' = weakest /\ receipt' = receipt
  BY OutcomeFacts DEF SendFrame, bridgeVars
<1>5. pc'[Bridge] = "wait"
  BY OutcomeFacts
<1>6. receipt = NoEvent
  BY DEF OutcomesInv, ReceiptIsLast
<1> HIDE DEF new
<1>7. \A c \in Commands : c.id \in 1 .. lastId
  BY DEF OutcomesInv, IdsAreUnique
<1>8. IdsAreUnique'
  BY <1>2, <1>3, <1>4, IdsStay DEF OutcomesInv
<1>9. AnswersAreTrue'
  BY <1>4, ReadingIsTrue DEF OutcomesInv, Reads
<1>10. WaitsForLast'
  BY <1>2, <1>3, <1>4, <1>5, <1>7 DEF WaitsForLast
<1>11. DispatchedWasDone' /\ OutcomeIsDone'
  BY <1>4, <1>5 DEF OutcomesInv, DispatchedWasDone, OutcomeIsDone
<1>12. OutcomesFollow'
  <2> SUFFICES ASSUME NEW c \in Commands', c.of # 0
               PROVE  HasOutcome(c)' \/ AwaitsOutcome(c)'
    BY DEF OutcomesFollow
  <2>1. CASE c = new
    BY <1>3, <1>4, <1>5, <2>1 DEF AwaitsOutcome
  <2>2. CASE c \in Commands
    BY <1>4, <2>2 DEF OutcomesInv, OutcomesFollow, HasOutcome, AwaitsOutcome
  <2> QED  BY <1>2, <2>1, <2>2
<1>13. WeakestCovers'
  BY <1>4, <1>5 DEF OutcomesInv, WeakestCovers
<1>14. ReceiptIsLast'
  BY <1>4, <1>6 DEF ReceiptIsLast
<1> QED  BY <1>8, <1>9, <1>10, <1>11, <1>12, <1>13, <1>14 DEF OutcomesInv

\* The outcome of a command is attested: that of the last one, or that none left.
LEMMA OutcomesOfOutcome ==
    ASSUME IInv, OutcomesInv, IInv', NEW type \in Outcomes, NEW n,
           Attest(Bridge, effective[Bridge], type, "permit", n),
           UNCHANGED <<effective, refs, bridgeVars, outbox, executed>>,
           AnswersAreTrue', lastId' \in {lastId, lastId + 1},
           \/ pc[Bridge] = "permitted" /\ type = "error"
           \/ pc[Bridge] = "wait" /\ n = lastId,
           type = "dispatched" =>
               \E x \in ToSet(executed) :
                   x.ok /\ x.command.id = n /\ x.command.of = Len(refs[Bridge])
    PROVE  OutcomesInv'
<1>1. /\ UNCHANGED <<refs, effective, client, receipt, weakest>> /\ Commands' = Commands
      /\ executed' = executed
  BY DEF bridgeVars, Commands
<1>2. /\ pc'[Bridge] = "attest"
      /\ attesting'[Bridge].type = type /\ attesting'[Bridge].command = n
      /\ attesting'[Bridge].action = effective[Bridge].action
  BY OutcomeFacts DEF Attest, Goto, IInv, RunsTyped
<1>3. IdsAreUnique'
  BY <1>1, IdsStay DEF OutcomesInv
<1>4. WaitsForLast' /\ OutcomeIsDone'
  BY <1>1, <1>2 DEF WaitsForLast, OutcomeIsDone
<1>5. DispatchedWasDone'
  BY <1>1 DEF OutcomesInv, DispatchedWasDone
<1>6. OutcomesFollow'
  <2> SUFFICES ASSUME NEW c \in Commands, c.of # 0
               PROVE  HasOutcome(c)' \/ AwaitsOutcome(c)'
    BY <1>1 DEF OutcomesFollow
  <2>1. HasOutcome(c) \/ AwaitsOutcome(c)
    BY DEF OutcomesInv, OutcomesFollow
  <2>2. CASE HasOutcome(c)
    BY <1>1, <2>2 DEF HasOutcome
  <2>3. CASE AwaitsOutcome(c)
    <3>1. pc[Bridge] = "wait" /\ n = lastId /\ c.id = lastId /\ c.of = Len(refs[Bridge])
      BY <2>3 DEF AwaitsOutcome
    <3> QED  BY <1>1, <1>2, <3>1 DEF AwaitsOutcome
  <2> QED  BY <2>1, <2>2, <2>3
<1>7. WeakestCovers'
  BY <1>1, <1>2 DEF OutcomesInv, WeakestCovers
<1>8. ReceiptIsLast'
  BY <1>1, <1>2, ReceiptStays
<1> QED  BY <1>3, <1>4, <1>5, <1>6, <1>7, <1>8 DEF OutcomesInv

\* What the bridge was writing is its last event.
LEMMA OutcomesOfEvent ==
    ASSUME IInv, OutcomesInv, IInv', pc[Bridge] = "attest",
           refs' = [refs EXCEPT ![Bridge] = Append(@, attesting[Bridge])],
           pc' = [pc EXCEPT ![Bridge] = After(Bridge, attesting[Bridge])],
           UNCHANGED <<effective, bridgeVars, wireVars>>
    PROVE  OutcomesInv'
<1> DEFINE e == attesting[Bridge]
           k == Len(refs[Bridge])
<1>1. e \in EventType /\ Bridge \in Runs
  BY OutcomeFacts DEF IInv, AttestsDecision
<1>2. /\ UNCHANGED <<effective, client, receipt, weakest, inbox, outbox, executed, lastId>>
      /\ Commands' = Commands
  BY DEF bridgeVars, wireVars, Commands
<1>3. pc'[Bridge] = After(Bridge, e) /\ After(Bridge, e) \in {"ready", "permitted"}
  BY OutcomeFacts DEF After
<1>4. refs'[Bridge] = Append(refs[Bridge], e)
  BY <1>1 DEF IInv, RunsTyped
<1> HIDE DEF e
<1>5. /\ k \in Nat /\ Len(refs'[Bridge]) = k + 1
      /\ DOMAIN refs[Bridge] = 1 .. k /\ DOMAIN refs'[Bridge] = 1 .. k + 1
      /\ refs'[Bridge][k + 1] = e
      /\ \A i \in 1 .. k : refs'[Bridge][i] = refs[Bridge][i]
  BY <1>1, <1>4, OutcomeFacts, AppendedElement
<1>6. IdsAreUnique' /\ AnswersAreTrue'
  BY <1>2, IdsStay, ReadingIsTrue DEF OutcomesInv, Reads
<1>7. WaitsForLast' /\ OutcomeIsDone'
  BY <1>3 DEF WaitsForLast, OutcomeIsDone
<1>8. DispatchedWasDone'
  <2> SUFFICES ASSUME NEW i \in 1 .. k + 1, refs'[Bridge][i].type = "dispatched"
               PROVE  \E x \in ToSet(executed) :
                          /\ x.ok /\ x.command.id = refs'[Bridge][i].command
                          /\ x.command.of = i - 1
    BY <1>2, <1>5 DEF DispatchedWasDone
  <2>1. CASE i \in 1 .. k
    BY <1>5, <2>1 DEF OutcomesInv, DispatchedWasDone
  <2>2. CASE i = k + 1
    <3>1. PICK x \in ToSet(executed) : x.ok /\ x.command.id = e.command /\ x.command.of = k
      BY <1>5, <2>2 DEF OutcomesInv, OutcomeIsDone, e
    <3>2. i - 1 = k
      BY <1>5, <2>2
    <3> QED  BY <1>5, <2>2, <3>1, <3>2
  <2> QED  BY <1>5, <2>1, <2>2
<1>9. OutcomesFollow'
  <2> SUFFICES ASSUME NEW c \in Commands, c.of # 0
               PROVE  HasOutcome(c)'
    BY <1>2 DEF OutcomesFollow
  <2>1. c.of \in 0 .. k
    BY OutcomeFacts
  <2>2. CASE HasOutcome(c)
    BY <1>5, <2>1, <2>2 DEF HasOutcome
  <2>3. CASE AwaitsOutcome(c)
    <3>1. c.of = k /\ e.type \in Outcomes /\ e.command = c.id
      BY <2>3 DEF AwaitsOutcome, e
    <3> QED  BY <1>5, <3>1 DEF HasOutcome
  <2> QED  BY <2>2, <2>3 DEF OutcomesInv, OutcomesFollow
<1>10. WeakestCovers'
  <2>1. /\ ReplayRank(e.action) <= weakest /\ ReplayRank(effective[Bridge].action) <= weakest
        /\ \A i \in 1 .. k : ReplayRank(refs[Bridge][i].action) <= weakest
    BY <1>5 DEF OutcomesInv, WeakestCovers, e
  <2>2. \A i \in 1 .. k + 1 : ReplayRank(refs'[Bridge][i].action) <= weakest
    BY <1>5, <2>1
  <2> QED  BY <1>2, <1>3, <1>5, <2>1, <2>2 DEF WeakestCovers
<1>11. ReceiptIsLast'
  BY <1>2, <1>3, <1>5, ReceiptStays
<1> QED  BY <1>6, <1>7, <1>8, <1>9, <1>10, <1>11 DEF OutcomesInv

\* The session is closed: every command has its outcome, and the class of the
\* run is no stronger than theirs.
LEMMA OutcomesOfReceipt ==
    ASSUME IInv, OutcomesInv, IInv', WriteReceipt
    PROVE  OutcomesInv'
<1>1. /\ pc[Bridge] = "closing" /\ UNCHANGED <<effective, attesting, refs, weakest>>
      /\ UNCHANGED <<outbox, executed, lastId>> /\ inbox' = <<>> /\ client' = FALSE
      /\ receipt' \in {receipt, [trace |-> Len(refs[Bridge]), replay |-> weakest]}
  BY DEF WriteReceipt, Hangup
<1>2. pc'[Bridge] = "ready"
  BY OutcomeFacts DEF WriteReceipt, Goto
<1>3. Commands' = Commands
  BY <1>1 DEF Commands
<1>4. AnswersAreTrue'
  BY <1>1, ReadingIsTrue DEF OutcomesInv, Reads
<1>5. \A c \in Commands : c.of # 0 =>
          /\ c.of \in DOMAIN refs[Bridge] /\ c.of + 1 <= Len(refs[Bridge])
          /\ ReplayRank(refs[Bridge][c.of].action) <= weakest
  BY <1>1, OutcomeFacts DEF OutcomesInv, OutcomesFollow, HasOutcome, AwaitsOutcome, WeakestCovers
<1>6. ReceiptIsLast'
  <2>1. ~client'
    BY <1>1, Zenon
  <2>2. CASE receipt' = receipt
    BY <1>1, <1>2, <1>3, <2>1, <2>2 DEF OutcomesInv, ReceiptIsLast
  <2>3. CASE receipt' = [trace |-> Len(refs[Bridge]), replay |-> weakest]
    <3>1. receipt'.trace = Len(refs[Bridge]) /\ receipt'.replay = weakest
      BY <2>3
    <3> QED  BY <1>1, <1>2, <1>3, <1>5, <2>1, <3>1 DEF ReceiptIsLast
  <2> QED  BY <1>1, <2>2, <2>3
<1> QED  BY <1>1, <1>2, <1>3, <1>4, <1>6, OutcomesStay DEF BridgePlaces

LEMMA OutcomesOfBridge ==
    ASSUME IInv, OutcomesInv, IInv', BridgeStep
    PROVE  OutcomesInv'
<1>1. Bridge \in Runs /\ pc \in [Runs -> Places] /\ lastId \in Nat
  BY OutcomeFacts
\* The steps of connect and close.
<1>2. ASSUME UNCHANGED <<effective, attesting, refs, weakest, executed>>,
             receipt' = receipt, receipt # NoEvent => client' = client,
             Reads, lastId' \in {lastId, lastId + 1},
             \/ outbox' = outbox
             \/ lastId' = lastId + 1 /\ \E m \in SessionMethods : SendFrame(m, 0),
             NEW to \in BridgePlaces, pc' = [pc EXCEPT ![Bridge] = to],
             pc[Bridge] \notin {"wait", "attest"},
             to \in {"opened", "handshake"} => pc[Bridge] \in {"new", "opened"}
      PROVE  OutcomesInv'
  <2>1. pc'[Bridge] = to /\ to # "new"
    BY <1>1, <1>2 DEF BridgePlaces
  <2>2. \/ Commands' \subseteq Commands
        \/ /\ lastId' = lastId + 1
           /\ \E n : n.id = lastId + 1 /\ n.of = 0 /\ Commands' \subseteq Commands \cup {n}
    <3>1. CASE outbox' = outbox
      BY <1>2, <3>1 DEF Commands
    <3>2. ASSUME NEW m \in SessionMethods, SendFrame(m, 0), lastId' = lastId + 1
          PROVE  \E n : n.id = lastId + 1 /\ n.of = 0 /\ Commands' \subseteq Commands \cup {n}
      <4> DEFINE n == [id |-> lastId + 1, method |-> m, of |-> 0]
      <4>1. Commands' = Commands \cup {n} /\ n.id = lastId + 1 /\ n.of = 0
        BY <3>2, SentCommand
      <4> QED  BY <4>1
    <3> QED  BY <1>2, <3>1, <3>2
  <2>3. AnswersAreTrue'
    BY <1>2, ReadingIsTrue DEF OutcomesInv, Reads
  <2>4. ReceiptIsLast'
    <3>1. receipt # NoEvent => pc[Bridge] \notin {"new", "opened", "handshake"}
      BY DEF OutcomesInv, ReceiptIsLast
    <3>2. \A c \in Commands' : c.of # 0 => c \in Commands
      BY <2>2
    <3> QED  BY <1>2, <2>1, <3>1, <3>2, ReceiptStays
  <2> QED  BY <1>2, <2>1, <2>2, <2>3, <2>4, OutcomesStay
<1>3. ASSUME NEW url \in Endpoints, Connect(url)
      PROVE  OutcomesInv'
  <2>1. /\ UNCHANGED <<effective, attesting, refs, weakest, executed, client, receipt, inbox>>
        /\ UNCHANGED <<lastId, outbox>> /\ pc[Bridge] = "new"
    BY <1>3 DEF Connect, OpenSocket, wireVars
  <2>2. PICK to \in {"opened", "ready"} : pc' = [pc EXCEPT ![Bridge] = to]
    BY <1>3 DEF Connect, Goto
  <2>3. to \in BridgePlaces /\ Reads
    BY <2>1 DEF BridgePlaces, Reads
  <2> QED  BY <1>2, <2>1, <2>2, <2>3
<1>4. CASE AskSession \/ Close
  <2>1. /\ UNCHANGED <<effective, attesting, refs, weakest, executed, client, receipt, inbox>>
        /\ lastId' = lastId + 1
        /\ outbox' = outbox \/ \E m \in SessionMethods : SendFrame(m, 0)
    BY <1>4 DEF AskSession, Close, SendFrame, SendFails, bridgeVars, SessionMethods
  <2>2. PICK to \in {"handshake", "dropping", "ending", "closing"} :
            /\ pc' = [pc EXCEPT ![Bridge] = to]
            /\ pc[Bridge] \in {"opened", "ready"}
            /\ to = "handshake" => pc[Bridge] = "opened"
    BY <1>4 DEF AskSession, Close, Goto
  <2>3. to \in BridgePlaces /\ Reads
    BY <2>1 DEF BridgePlaces, Reads
  <2>4. \/ outbox' = outbox
        \/ lastId' = lastId + 1 /\ \E m \in SessionMethods : SendFrame(m, 0)
    BY <2>1
  <2>5. /\ to \in {"opened", "handshake"} => pc[Bridge] \in {"new", "opened"}
        /\ pc[Bridge] \notin {"wait", "attest"}
    BY <2>2
  <2> QED  BY <1>2, <2>1, <2>2, <2>3, <2>4, <2>5
<1>5. CASE EnforceOnly \/ SkipCommand \/ CloseWithoutClient
  <2>1. /\ UNCHANGED <<effective, attesting, refs, weakest, executed, client, receipt, inbox>>
        /\ UNCHANGED <<lastId, outbox>> /\ pc[Bridge] \in {"new", "permitted", "ready"}
    BY <1>5 DEF EnforceOnly, SkipCommand, CloseWithoutClient, bridgeVars, wireVars
  <2>2. PICK to \in {"ready", "closing"} : pc' = [pc EXCEPT ![Bridge] = to]
    BY <1>5 DEF EnforceOnly, SkipCommand, CloseWithoutClient, Goto
  <2>3. to \in BridgePlaces /\ Reads
    BY <2>1 DEF BridgePlaces, Reads
  <2> QED  BY <1>2, <2>1, <2>2, <2>3
<1>6. CASE DropClient
  <2>1. /\ UNCHANGED <<effective, attesting, refs, weakest, executed, client, receipt>>
        /\ UNCHANGED <<lastId, outbox>> /\ inbox' = <<>> /\ pc[Bridge] = "dropping"
        /\ pc' = [pc EXCEPT ![Bridge] = "ready"]
    BY <1>6 DEF DropClient, Hangup, bridgeVars, Goto
  <2> QED  BY <1>2, <2>1 DEF BridgePlaces, Reads
<1>7. ASSUME Skip \/ Answer(TRUE) \/ Raise
      PROVE  /\ UNCHANGED <<executed, lastId, outbox>>
             /\ Reads
  BY <1>7 DEF Reads, Skip, Consume, Answer, Raise, TimeOut, StallInFrame, ReadGarbage, wireVars
<1>8. CASE Connected \/ SessionEnded
  <2>1. /\ UNCHANGED <<effective, attesting, refs, weakest, receipt>>
        /\ pc[Bridge] \in {"handshake", "ending"}
        /\ client' = client \/ pc[Bridge] = "handshake"
        /\ Answer(TRUE) \/ Raise
    BY <1>8 DEF Connected, SessionEnded, bridgeVars
  <2>2. PICK to \in {"ready", "dropping", "closing"} : pc' = [pc EXCEPT ![Bridge] = to]
    BY <1>8 DEF Connected, SessionEnded, Goto
  <2>3. receipt # NoEvent => client' = client
    BY <2>1 DEF OutcomesInv, ReceiptIsLast
  <2> QED  BY <1>2, <1>7, <2>1, <2>2, <2>3 DEF BridgePlaces
<1>9. CASE SkipFrame
  <2>1. UNCHANGED <<pc, effective, attesting, refs, weakest, client, receipt>> /\ Skip
    BY <1>9 DEF SkipFrame, bridgeVars
  <2>2. UNCHANGED <<executed, lastId, outbox>> /\ AnswersAreTrue'
    BY <1>7, <2>1, ReadingIsTrue DEF OutcomesInv, Reads
  <2>3. Commands' = Commands
    BY <2>2 DEF Commands
  <2>4. ReceiptIsLast'
    BY <2>1, <2>3, ReceiptStays
  <2> QED  BY <2>1, <2>2, <2>3, <2>4, OutcomesStay
<1>10. CASE SendCommand
  <2>1. /\ pc[Bridge] = "permitted" /\ client /\ Method(effective[Bridge].action) # NoMethod
        /\ UNCHANGED <<effective, refs, bridgeVars>>
    BY <1>10 DEF SendCommand
  <2>2. CASE /\ SendFrame(Method(effective[Bridge].action), Len(refs[Bridge]))
             /\ Goto(Bridge, "wait") /\ UNCHANGED attesting
    BY <2>1, <2>2, OutcomesOfSend DEF Goto
  <2>3. CASE SendFails /\ Attest(Bridge, effective[Bridge], "error", "permit", lastId + 1)
    <3>1. UNCHANGED <<inbox, outbox, executed>> /\ lastId' = lastId + 1
      BY <2>3 DEF SendFails
    <3>2. AnswersAreTrue' /\ "error" \in Outcomes
      BY <3>1, ReadingIsTrue DEF OutcomesInv, Reads, Outcomes
    <3> QED  BY <2>1, <2>3, <3>1, <3>2, OutcomesOfOutcome
  <2> QED  BY <1>10, <2>2, <2>3 DEF SendCommand
<1>11. CASE Dispatched
  <2>1. /\ pc[Bridge] = "wait" /\ UNCHANGED <<effective, refs, bridgeVars>>
        /\ Answer(TRUE) \/ Raise
    BY <1>11 DEF Dispatched
  <2>2. UNCHANGED <<executed, lastId, outbox>> /\ AnswersAreTrue'
    BY <1>7, <2>1, ReadingIsTrue DEF OutcomesInv, Reads
  <2>3. CASE Answer(TRUE) /\ Attest(Bridge, effective[Bridge], "dispatched", "permit", lastId)
    <3>1. inbox \in Seq(Frame) /\ inbox # <<>> /\ Head(inbox).id = lastId /\ Head(inbox).ok = TRUE
      BY <2>3 DEF Answer, OutcomesInv, AnswersAreTrue
    <3>2. Head(inbox) \in ToSet(inbox)
      BY <3>1, TakenFromSet
    <3>3. lastId > 0 /\ \A c \in Commands : c.id = lastId => c.of = Len(refs[Bridge])
      BY <2>1 DEF OutcomesInv, WaitsForLast
    <3>4. PICK x \in ToSet(executed) : x.command.id = lastId /\ x.ok = TRUE
      <4>1. Head(inbox).id # 0
        BY <1>1, <3>1, <3>3
      <4>2. PICK x \in ToSet(executed) :
                x.command.id = Head(inbox).id /\ x.ok = Head(inbox).ok
        BY <3>2, <4>1 DEF OutcomesInv, AnswersAreTrue
      <4> QED  BY <3>1, <4>2
    <3>5. x.command.of = Len(refs[Bridge])
      BY <3>3, <3>4 DEF Commands
    <3>6. "dispatched" \in Outcomes
      BY DEF Outcomes
    <3> QED  BY <2>1, <2>2, <2>3, <3>4, <3>5, <3>6, OutcomesOfOutcome
  <2>4. CASE Raise /\ Attest(Bridge, effective[Bridge], "error", "permit", lastId)
    <3>1. "error" \in Outcomes
      BY DEF Outcomes
    <3> QED  BY <2>1, <2>2, <2>4, <3>1, OutcomesOfOutcome
  <2> QED  BY <1>11, <2>3, <2>4 DEF Dispatched
<1> QED
  BY <1>3, <1>4, <1>5, <1>6, <1>8, <1>9, <1>10, <1>11, OutcomesOfDispatch, OutcomesOfReceipt
     DEF BridgeStep, Receive

LEMMA OutcomesStep == IInv /\ OutcomesInv /\ IInv' /\ [Next]_vars => OutcomesInv'
<1> SUFFICES ASSUME IInv, OutcomesInv, IInv', [Next]_vars PROVE OutcomesInv'
  OBVIOUS
<1>1. Bridge \in Runs /\ pc \in [Runs -> Places] /\ Bridge \notin Requests
  BY OutcomeFacts, BridgeAssumption
\* Nothing of the bridge moves.
<1>2. ASSUME UNCHANGED <<bridgeVars, wireVars>>, pc'[Bridge] = pc[Bridge],
             refs'[Bridge] = refs[Bridge], attesting'[Bridge] = attesting[Bridge],
             effective'[Bridge] = effective[Bridge]
      PROVE  OutcomesInv'
  <2>1. UNCHANGED <<weakest, client, receipt, executed, inbox, outbox, lastId>>
    BY <1>2 DEF bridgeVars, wireVars
  <2>2. Commands' = Commands /\ AnswersAreTrue'
    BY <2>1, ReadingIsTrue DEF Commands, OutcomesInv, Reads
  <2>3. ReceiptIsLast'
    BY <1>2, <2>1, <2>2, ReceiptStays
  <2> QED  BY <1>2, <2>1, <2>2, <2>3, OutcomesStay
<1>3. ASSUME NEW r \in Runs, Attested(r)
      PROVE  OutcomesInv'
  <2>1. CASE BeginLine(attesting[r]) /\ UNCHANGED <<pc, attesting, refs>>
    BY <1>2, <1>3, <2>1 DEF Attested
  <2>2. CASE /\ refs' = [refs EXCEPT ![r] = Append(@, attesting[r])]
             /\ attesting' = [attesting EXCEPT ![r] = NoEvent]
             /\ pc' = [pc EXCEPT ![r] = After(r, attesting[r])]
    <3>1. pc[r] = "attest" /\ UNCHANGED <<effective, bridgeVars, wireVars>>
      BY <1>3 DEF Attested
    <3>2. CASE r = Bridge
      BY <2>2, <3>1, <3>2, OutcomesOfEvent
    <3>3. CASE r # Bridge
      BY <1>1, <1>2, <2>2, <3>1, <3>3 DEF IInv, RunsTyped
    <3> QED  BY <3>2, <3>3
  <2> QED  BY <1>3, <2>1, <2>2 DEF Attested, Goto
<1>4. ASSUME NEW r \in Requests, GateStep(r)
      PROVE  OutcomesInv'
  <2>1. r # Bridge /\ r \in Runs
    BY <1>1 DEF Runs
  <2>2. UNCHANGED <<refs, bridgeVars, wireVars>>
    BY <1>4 DEF GateStep, HandleRequest, Block, Forward, Respond, Act
  <2>3. /\ pc'[Bridge] = pc[Bridge] /\ attesting'[Bridge] = attesting[Bridge]
        /\ effective'[Bridge] = effective[Bridge]
    BY <1>1, <1>4, <2>1 DEF GateStep, HandleRequest, Evaluate, Attest, Block, Forward, Respond,
                            Act, Goto, IInv, RunsTyped
  <2> QED  BY <1>2, <2>2, <2>3
<1>5. CASE BrowserStep
  <2>1. /\ Execute \/ Push \/ Lose
        /\ UNCHANGED <<pc, effective, attesting, refs, weakest, client, receipt>>
    BY <1>5 DEF BrowserStep, bridgeVars
  <2>2. Commands' \subseteq Commands /\ lastId' = lastId
    BY <2>1, BrowserSendsNothing DEF Execute, Push, Lose
  <2>3. AnswersAreTrue' /\ ToSet(executed) \subseteq ToSet(executed')
    BY <2>1, BrowserIsTrue DEF OutcomesInv
  <2>4. ReceiptIsLast'
    BY <2>1, <2>2, ReceiptStays
  <2> QED  BY <2>1, <2>2, <2>3, <2>4, OutcomesStay
<1>6. CASE UNCHANGED vars \/ \E f \in Followers : FollowerStep(f)
  BY <1>2, <1>6 DEF vars, FollowerStep
<1> QED  BY <1>3, <1>4, <1>5, <1>6, OutcomesOfBridge DEF Next

LEMMA OutcomesHold == Spec => [](IInv /\ OutcomesInv)
<1>1. Init => IInv /\ OutcomesInv
  BY InitInv, OutcomesInit
<1>2. IInv /\ OutcomesInv /\ [Next]_vars => (IInv /\ OutcomesInv)'
  BY StepInv, OutcomesStep
<1> QED  BY <1>1, <1>2, PTL DEF Spec

-----------------------------------------------------------------------------
(* Elements of a sequence in its order.                                    *)

LEMMA GreatestOf ==
    ASSUME NEW n \in Nat, NEW S \in SUBSET (1 .. n), S # {}
    PROVE  \E x \in S : \A y \in S : y <= x
<1> DEFINE D == {n - i : i \in S}
<1>1. D \in SUBSET Nat /\ D # {}
  <2>1. \A i \in S : i \in 1 .. n /\ n - i \in Nat
    OBVIOUS
  <2>2. D \in SUBSET Nat
    BY <2>1
  <2>3. PICK i \in S : TRUE
    OBVIOUS
  <2>4. n - i \in D
    BY <2>3
  <2> QED  BY <2>2, <2>4
<1> HIDE DEF D
<1>2. PICK d \in D : \A e \in D : d <= e
  BY <1>1, LeastOf
<1>3. PICK x \in S : d = n - x
  BY DEF D
<1>4. ASSUME NEW y \in S
      PROVE  y <= x
  <2>1. n - y \in D
    BY DEF D
  <2> QED  BY <1>2, <1>3, <2>1
<1> QED  BY <1>4

\* Nth counts the elements of a set of numbers, all of them and in order.
LEMMA NthOf ==
    ASSUME NEW n \in Nat, NEW S \in SUBSET (1 .. n)
    PROVE  /\ Cardinality(S) \in Nat /\ Cardinality(S) <= n
           /\ \A k \in 1 .. Cardinality(S) : Nth(S, k) \in S
           /\ \A k, l \in 1 .. Cardinality(S) : k < l => Nth(S, k) < Nth(S, l)
           /\ \A i \in S : \E k \in 1 .. Cardinality(S) : Nth(S, k) = i
<1> DEFINE Up(i) == {j \in S : j <= i}
           c(i) == Cardinality(Up(i))
<1>0. \A i \in S : i \in Nat /\ i \in 1 .. n
  OBVIOUS
<1>1. IsFiniteSet(1 .. n) /\ Cardinality(1 .. n) = n
  BY FS_Interval
<1>2. IsFiniteSet(S) /\ Cardinality(S) <= n
  BY <1>1, FS_Subset
<1>3. ASSUME NEW T \in SUBSET S
      PROVE  IsFiniteSet(T) /\ Cardinality(T) \in Nat /\ Cardinality(T) <= Cardinality(S)
  BY <1>2, FS_Subset, FS_CardinalityType
<1>4. ASSUME NEW i \in S
      PROVE  Up(i) \in SUBSET S /\ i \in Up(i) /\ IsFiniteSet(Up(i)) /\ c(i) \in 1 .. Cardinality(S)
  <2>1. Up(i) \in SUBSET S /\ i \in Up(i)
    OBVIOUS
  <2>2. Cardinality(Up(i)) # 0
    BY <1>3, <2>1, FS_EmptySet
  <2>3. Cardinality(S) \in Nat
    BY <1>3
  <2> QED  BY <1>3, <2>1, <2>2, <2>3
<1>5. ASSUME NEW i \in S, NEW j \in S, i < j
      PROVE  c(i) < c(j)
  <2>1. Up(i) \in SUBSET Up(j) /\ j \in Up(j) /\ j \notin Up(i)
    <3>1. i \in Nat /\ j \in Nat
      BY <1>0
    <3>2. \A x \in S : x <= i => x <= j
      BY <1>0, <1>5, <3>1
    <3>3. Up(i) \in SUBSET Up(j)
      BY <3>2
    <3>4. j \in Up(j) /\ j \notin Up(i)
      BY <1>5, <3>1
    <3> QED  BY <3>3, <3>4
  <2>2. Cardinality(Up(i)) <= Cardinality(Up(j)) /\ Cardinality(Up(i)) # Cardinality(Up(j))
    BY <1>4, <2>1, FS_Subset
  <2>3. Cardinality(Up(i)) \in Nat /\ Cardinality(Up(j)) \in Nat
    BY <1>3, <1>4
  <2> QED  BY <2>2, <2>3
<1>6. ASSUME NEW k \in 1 .. Cardinality(S)
      PROVE  \E i \in S : c(i) = k
  <2> DEFINE High == {i \in S : c(i) >= k}
  <2>1. Cardinality(S) \in Nat /\ Cardinality(S) >= k /\ k \in Nat \ {0}
    BY <1>3
  <2>2. High # {}
    <3>1. S # {}
      BY <2>1, FS_EmptySet
    <3>2. PICK g \in S : \A y \in S : y <= g
      BY <3>1, GreatestOf
    <3>3. Up(g) = S
      BY <3>2
    <3> QED  BY <2>1, <3>3
  <2>3. PICK m \in High : \A i \in High : m <= i
    <3>1. High \in SUBSET Nat
      <4>1. High \subseteq S
        OBVIOUS
      <4> HIDE DEF High
      <4> QED  BY <1>0, <4>1
    <3> HIDE DEF High
    <3> QED  BY <2>2, <3>1, LeastOf
  <2>4. m \in S /\ c(m) >= k /\ c(m) \in Nat
    BY <1>4, <2>3
  <2> DEFINE Below == Up(m) \ {m}
  <2>5. IsFiniteSet(Below) /\ Cardinality(Below) = c(m) - 1
    BY <1>4, <2>4, FS_RemoveElement
  <2>6. CASE Below = {}
    <3>1. Cardinality(Below) = 0
      BY <2>6, FS_EmptySet
    <3>2. c(m) = k
      <4> HIDE DEF c, Below
      <4> QED  BY <2>1, <2>4, <2>5, <3>1
    <3> QED  BY <2>4, <3>2
  <2>7. CASE Below # {}
    <3>1. Below \in SUBSET (1 .. n)
      OBVIOUS
    <3>2. PICK p \in Below : \A y \in Below : y <= p
      <4> HIDE DEF Below
      <4> QED  BY <2>7, <3>1, GreatestOf
    <3>3. p \in S /\ p < m /\ Up(p) = Below
      <4>1. /\ p \in S /\ m \in S /\ p <= m /\ p # m
            /\ p \in Nat /\ m \in Nat
        BY <1>0, <2>4
      <4>2. ASSUME NEW x \in S
            PROVE  x <= p <=> x <= m /\ x # m
        <5>1. x \in Nat
          BY <1>0
        <5>2. x <= m /\ x # m => x <= p
          BY <3>2, <4>2
        <5> QED  BY <4>1, <5>1, <5>2
      <4>3. Up(p) = Below
        BY <4>2
      <4>4. p < m
        BY <4>1
      <4> QED  BY <4>1, <4>3, <4>4
    <3>4. p \notin High
      BY <2>3, <3>3
    <3>5. c(p) < k /\ c(p) = c(m) - 1
      BY <1>4, <2>1, <2>5, <3>3, <3>4
    <3>6. c(m) = k
      <4> HIDE DEF c
      <4> QED  BY <2>1, <2>4, <3>5
    <3> QED  BY <2>4, <3>6
  <2> QED  BY <2>6, <2>7
<1>7. \A k \in 1 .. Cardinality(S) : Nth(S, k) \in S /\ c(Nth(S, k)) = k
  BY <1>6 DEF Nth
<1> HIDE DEF c
<1>8. ASSUME NEW k \in 1 .. Cardinality(S), NEW l \in 1 .. Cardinality(S), k < l
      PROVE  Nth(S, k) < Nth(S, l)
  <2> DEFINE i == Nth(S, k)
             j == Nth(S, l)
  <2>1. i \in S /\ j \in S /\ c(i) = k /\ c(j) = l
    BY <1>7
  <2>2. i \in Nat /\ j \in Nat /\ k \in Nat /\ l \in Nat
    <3> HIDE DEF i, j
    <3>1. i \in Nat /\ j \in Nat
      BY <1>0, <2>1
    <3>2. k \in Nat /\ l \in Nat
      OBVIOUS
    <3> QED  BY <3>1, <3>2
  <2> HIDE DEF i, j
  <2>3. ~ (j < i) /\ j # i
    <3>1. CASE j < i
      <4>1. c(j) < c(i)
        BY <1>5, <2>1, <3>1
      <4> QED  BY <1>8, <2>1, <2>2, <4>1
    <3> QED  BY <1>8, <2>1, <2>2, <3>1
  <2> QED  BY <2>2, <2>3 DEF i, j
<1>9. ASSUME NEW i \in S
      PROVE  Nth(S, c(i)) = i /\ c(i) \in 1 .. Cardinality(S)
  <2>1. c(i) \in 1 .. Cardinality(S)
    BY <1>4 DEF c
  <2> DEFINE j == Nth(S, c(i))
  <2>2. j \in S /\ c(j) = c(i)
    BY <1>7, <2>1
  <2>3. i \in Nat /\ j \in Nat /\ c(i) \in Nat
    <3> HIDE DEF j
    <3>1. i \in Nat /\ j \in Nat
      BY <1>0, <2>2
    <3>2. c(i) \in Nat
      BY <2>1
    <3> QED  BY <3>1, <3>2
  <2> HIDE DEF j
  <2>4. ~ (i < j) /\ ~ (j < i)
    <3>1. CASE i < j
      <4>1. c(i) < c(j)
        BY <1>5, <2>2, <3>1
      <4> QED  BY <2>2, <2>3, <4>1
    <3>2. CASE j < i
      <4>1. c(j) < c(i)
        BY <1>5, <2>2, <3>2
      <4> QED  BY <2>2, <2>3, <4>1
    <3> QED  BY <3>1, <3>2
  <2> QED  BY <2>1, <2>3, <2>4 DEF j
<1>10. Cardinality(S) \in Nat
  BY <1>3
<1> QED  BY <1>2, <1>7, <1>8, <1>9, <1>10

\* What is chosen of a sequence.
LEMMA ChosenOf ==
    ASSUME NEW n \in Nat, NEW S \in SUBSET (1 .. n), NEW seq
    PROVE  /\ Cardinality(S) \in Nat /\ Cardinality(S) <= n
           /\ DOMAIN Chosen(seq, S) = 1 .. Cardinality(S)
           /\ Len(Chosen(seq, S)) = Cardinality(S)
           /\ \A k \in 1 .. Cardinality(S) : \E i \in S : Chosen(seq, S)[k] = seq[i]
           /\ \A i \in S : \E k \in 1 .. Cardinality(S) : Chosen(seq, S)[k] = seq[i]
           /\ \A k, l \in 1 .. Cardinality(S) : k < l =>
                 \E i, j \in S : i < j /\ Chosen(seq, S)[k] = seq[i] /\ Chosen(seq, S)[l] = seq[j]
<1> DEFINE m == Cardinality(S)
           chosen == Chosen(seq, S)
<1>1. m \in Nat /\ m <= n
  BY NthOf
<1>2. DOMAIN chosen = 1 .. m /\ \A k \in 1 .. m : chosen[k] = seq[Nth(S, k)]
  BY DEF Chosen
<1>3. Len(chosen) = m
  <2>1. chosen = [k \in 1 .. m |-> seq[Nth(S, k)]]
    BY DEF Chosen
  <2> HIDE DEF m, chosen
  <2> QED  BY <1>1, <2>1
<1>4. /\ \A k \in 1 .. m : Nth(S, k) \in S
      /\ \A k, l \in 1 .. m : k < l => Nth(S, k) < Nth(S, l)
      /\ \A i \in S : \E k \in 1 .. m : Nth(S, k) = i
  BY NthOf
<1> HIDE DEF chosen
<1> QED  BY <1>1, <1>2, <1>3, <1>4 DEF chosen
-----------------------------------------------------------------------------
(* The evidence stream and its readers.                                    *)

Cell == [event : EventType, part : {"head", "tail"}]
Receipt == {ToReceipt(e) : e \in EventType}

StreamTyped ==
    /\ stream \in Seq(Cell)
    /\ faults \in Nat
    /\ from \in [Followers -> Nat] /\ pos \in [Followers -> Nat]
    /\ sent \in [Followers -> Seq(Receipt)]
    /\ cut \in [Followers -> SUBSET EventType]
    /\ \A f \in Followers : from[f] <= pos[f] /\ pos[f] <= Len(stream)

\* A run attests events of its own surface.
SurfaceOfRun ==
    \A r \in Runs :
        /\ pc[r] = "attest" => attesting[r].surface = EventPrefix(r)
        /\ \A n \in DOMAIN refs[r] : refs[r][n].surface = EventPrefix(r)

IsHead(i) == i \in DOMAIN stream /\ stream[i].part = "head"

IsAttested(e) == e.number \in DOMAIN refs[e.run] /\ refs[e.run][e.number] = e

\* A line is of an event that its run refers to, or it is being written, and
\* the lines of a run are in its order.
HeadsAreAttested ==
    \A i \in DOMAIN stream : IsHead(i) =>
        \/ IsAttested(stream[i].event)
        \/ writing # NoEvent /\ stream[i].event = writing

HeadsInOrder ==
    \A i, j \in DOMAIN stream :
        IsHead(i) /\ IsHead(j) /\ i < j /\ stream[i].event.run = stream[j].event.run =>
            stream[i].event.number < stream[j].event.number

WritingIsLast ==
    writing # NoEvent => IsHead(Len(stream)) /\ stream[Len(stream)].event = writing

\* Without a fault lines are whole, but for the last while it is written, and
\* every event that a run refers to has one.
LinesAreWhole ==
    faults = 0 =>
        \A i \in DOMAIN stream : IsHead(i) =>
            /\ i = 1 \/ stream[i - 1].part = "tail"
            /\ i < Len(stream) => stream[i + 1].part = "tail"
            /\ i = Len(stream) => writing # NoEvent

EventsHaveLines ==
    faults = 0 =>
        \A r \in Runs : \A n \in DOMAIN refs[r] :
            \E i \in LinesAt(stream) : stream[i].event = refs[r][n]

\* A follower was sent what it read, and knows of a line it cut.
SentWasRead ==
    \A f \in Followers : \A k \in DOMAIN sent[f] :
        \E i \in 1 .. pos[f] : IsHead(i) /\ sent[f][k] = ToReceipt(stream[i].event)

CutIsKnown ==
    \A f \in Followers :
        from[f] < pos[f] /\ IsHead(pos[f]) => stream[pos[f]].event \in cut[f]

EvidenceInv ==
    /\ StreamTyped
    /\ SurfaceOfRun
    /\ HeadsAreAttested
    /\ HeadsInOrder
    /\ WritingIsLast
    /\ LinesAreWhole
    /\ EventsHaveLines
    /\ SentWasRead
    /\ CutIsKnown
    /\ FollowersSeeRunsInOrder
    /\ MissedOnlyWhatWasCut

\* Reading gives the lines in the order of the file, each once.
LEMMA ReadOf ==
    ASSUME NEW C, NEW cells \in Seq(C)
    PROVE  LET read == ReadEvents(cells) IN
           /\ Len(read) \in Nat /\ DOMAIN read = 1 .. Len(read)
           /\ \A k \in DOMAIN read : \E i \in LinesAt(cells) :
                 read[k] = ToReceipt(cells[i].event)
           /\ \A i \in LinesAt(cells) : \E k \in DOMAIN read :
                 read[k] = ToReceipt(cells[i].event)
           /\ \A k, l \in DOMAIN read : k < l =>
                 \E i, j \in LinesAt(cells) :
                    /\ i < j
                    /\ read[k] = ToReceipt(cells[i].event)
                    /\ read[l] = ToReceipt(cells[j].event)
<1> DEFINE at == LinesAt(cells)
           lines == Chosen(cells, at)
           m == Cardinality(at)
           read == ReadEvents(cells)
<1>1. Len(cells) \in Nat /\ at \in SUBSET (1 .. Len(cells))
  BY DEF LinesAt
<1> HIDE DEF at
<1>2. m \in Nat /\ DOMAIN lines = 1 .. m
  BY <1>1, ChosenOf
<1>3. /\ DOMAIN read = 1 .. m /\ Len(read) = m
      /\ \A k \in 1 .. m : read[k] = ToReceipt(lines[k].event)
  <2>1. read = [k \in DOMAIN lines |-> ToReceipt(lines[k].event)]
    BY DEF ReadEvents, at
  <2> HIDE DEF lines, m, read
  <2> QED  BY <1>2, <2>1
<1>4. ASSUME NEW k \in 1 .. m
      PROVE  \E i \in at : read[k] = ToReceipt(cells[i].event)
  <2>1. PICK i \in at : lines[k] = cells[i]
    BY <1>1, ChosenOf
  <2> HIDE DEF lines, m, read
  <2> QED  BY <1>3, <2>1
<1>5. ASSUME NEW i \in at
      PROVE  \E k \in 1 .. m : read[k] = ToReceipt(cells[i].event)
  <2>1. \A j \in at : \E k \in 1 .. m : lines[k] = cells[j]
    BY <1>1, ChosenOf
  <2> HIDE DEF lines, m, read
  <2>2. PICK k \in 1 .. m : lines[k] = cells[i]
    BY <2>1
  <2> QED  BY <1>3, <2>2
<1>6. ASSUME NEW k \in 1 .. m, NEW l \in 1 .. m, k < l
      PROVE  \E i, j \in at : /\ i < j
                              /\ read[k] = ToReceipt(cells[i].event)
                              /\ read[l] = ToReceipt(cells[j].event)
  <2>1. PICK i \in at, j \in at : i < j /\ lines[k] = cells[i] /\ lines[l] = cells[j]
    BY <1>1, <1>6, ChosenOf
  <2> HIDE DEF lines, m, read
  <2> QED  BY <1>3, <2>1
<1> HIDE DEF m, read
<1>7. Len(read) \in Nat /\ DOMAIN read = 1 .. Len(read) /\ m = Len(read)
  BY <1>2, <1>3
<1>8. /\ \A k \in DOMAIN read : \E i \in at : read[k] = ToReceipt(cells[i].event)
      /\ \A i \in at : \E k \in DOMAIN read : read[k] = ToReceipt(cells[i].event)
  BY <1>4, <1>5, <1>7
<1>9. \A k, l \in DOMAIN read : k < l =>
          \E i, j \in at : /\ i < j
                          /\ read[k] = ToReceipt(cells[i].event)
                          /\ read[l] = ToReceipt(cells[j].event)
  BY <1>6, <1>7
<1> QED  BY <1>7, <1>8, <1>9, Zenon DEF at, read

LEMMA ReadTyped ==
    ASSUME NEW cells \in Seq(Cell)
    PROVE  ReadEvents(cells) \in Seq(Receipt)
<1> DEFINE read == ReadEvents(cells)
<1>1. /\ Len(read) \in Nat /\ DOMAIN read = 1 .. Len(read)
      /\ \A k \in DOMAIN read : \E i \in LinesAt(cells) : read[k] = ToReceipt(cells[i].event)
  <2> HIDE DEF Cell
  <2> QED  BY ReadOf
<1>2. \A i \in LinesAt(cells) : i \in DOMAIN cells
  BY DEF LinesAt
<1>3. \A i \in DOMAIN cells : cells[i].event \in EventType
  <2>1. ASSUME NEW i \in DOMAIN cells PROVE cells[i] \in Cell
    <3> HIDE DEF Cell
    <3> QED  OBVIOUS
  <2> QED  BY <2>1 DEF Cell
<1>4. read = [k \in 1 .. Len(read) |-> read[k]]
  <2>1. read = [k \in DOMAIN Chosen(cells, LinesAt(cells)) |->
                   ToReceipt(Chosen(cells, LinesAt(cells))[k].event)]
    BY DEF ReadEvents
  <2>2. read = [k \in DOMAIN read |-> read[k]]
    <3> HIDE DEF read
    <3> QED  BY <2>1
  <2> QED  BY <1>1, <2>2
<1> HIDE DEF read
<1>5. \A k \in 1 .. Len(read) : read[k] \in Receipt
  BY <1>1, <1>2, <1>3 DEF Receipt
<1> QED  BY <1>1, <1>4, <1>5 DEF read

\* What is read of the end of a file: its lines, and those that were not begun before.
LEMMA ReadFrom ==
    ASSUME StreamTyped, NEW p \in 0 .. Len(stream)
    PROVE  LET new == SubSeq(stream, p + 1, Len(stream)) IN
           /\ new \in Seq(Cell)
           /\ Len(new) = Len(stream) - p
           /\ \A k \in LinesAt(new) : k \in 1 .. Len(stream) - p
           /\ \A k \in 1 .. Len(stream) - p : new[k] = stream[p + k]
           /\ \A k \in LinesAt(new) : IsHead(p + k)
           /\ \A i \in LinesAt(stream) : p < i => i - p \in LinesAt(new)
<1> DEFINE n == Len(stream)
           new == SubSeq(stream, p + 1, n)
<1>1. stream \in Seq(Cell) /\ n \in Nat /\ DOMAIN stream = 1 .. n
  <2> HIDE DEF Cell
  <2> QED  BY DEF StreamTyped
<1>2. /\ new \in Seq(Cell) /\ Len(new) = n - p
      /\ \A k \in 1 .. n - p : new[k] = stream[p + k]
  <2> HIDE DEF Cell
  <2> QED  BY <1>1
<1> HIDE DEF new
<1>3. ASSUME NEW k \in LinesAt(new)
      PROVE  k \in 1 .. n - p /\ IsHead(p + k)
  <2>1. k \in 1 .. n - p /\ new[k].part = "head"
    BY <1>1, <1>2 DEF LinesAt
  <2> QED  BY <1>1, <1>2, <2>1 DEF IsHead
<1>4. ASSUME NEW i \in LinesAt(stream), p < i
      PROVE  i - p \in LinesAt(new)
  <2>1. /\ i \in 1 .. n - 1 /\ stream[i].part = "head" /\ stream[i + 1].part = "tail"
        /\ i = 1 \/ stream[i - 1].part = "tail"
    BY DEF LinesAt
  <2>2. i - p \in 1 .. n - p - 1 /\ i - p + 1 \in 1 .. n - p
    BY <1>1, <1>4, <2>1
  <2>3. new[i - p] = stream[i] /\ new[i - p + 1] = stream[i + 1]
    <3>1. p + (i - p) = i /\ p + (i - p + 1) = i + 1
      BY <1>1, <2>1
    <3>2. i - p \in 1 .. n - p /\ i - p + 1 \in 1 .. n - p
      BY <1>1, <2>2
    <3>3. new[i - p] = stream[p + (i - p)] /\ new[i - p + 1] = stream[p + (i - p + 1)]
      BY <1>2, <3>2
    <3> QED  BY <3>1, <3>3
  <2>4. i - p = 1 \/ new[i - p - 1].part = "tail"
    <3>1. CASE i - p # 1
      <4>1. i - p - 1 \in 1 .. n - p /\ i # 1
        BY <1>1, <2>1, <2>2, <3>1
      <4>2. new[i - p - 1] = stream[i - 1]
        BY <1>2, <2>1, <4>1
      <4> QED  BY <2>1, <4>1, <4>2
    <3> QED  BY <3>1
  <2> QED  BY <1>2, <2>1, <2>2, <2>3, <2>4 DEF LinesAt
<1> QED  BY <1>2, <1>3, <1>4 DEF new

LEMMA EvidenceInitially == Init => EvidenceInv
<1> SUFFICES ASSUME Init PROVE EvidenceInv
  OBVIOUS
<1>1. /\ stream = <<>> /\ writing = NoEvent /\ faults = 0
      /\ from = [f \in Followers |-> 0] /\ pos = [f \in Followers |-> 0]
      /\ sent = [f \in Followers |-> <<>>] /\ cut = [f \in Followers |-> {}]
      /\ pc = [r \in Runs |-> "new"] /\ refs = [r \in Runs |-> <<>>]
  BY DEF Init, EvidenceInit
<1>2. DOMAIN stream = {} /\ Len(stream) = 0 /\ stream \in Seq(Cell)
  BY <1>1
<1>3. \A f \in Followers : DOMAIN sent[f] = {} /\ from[f] = 0 /\ pos[f] = 0
  BY <1>1
<1>4. \A r \in Runs : DOMAIN refs[r] = {} /\ pc[r] # "attest"
  BY <1>1
<1>5. StreamTyped
  <2>1. sent \in [Followers -> Seq(Receipt)] /\ cut \in [Followers -> SUBSET EventType]
    BY <1>1
  <2>2. from \in [Followers -> Nat] /\ pos \in [Followers -> Nat] /\ faults \in Nat
    BY <1>1
  <2> QED  BY <1>2, <1>3, <2>1, <2>2 DEF StreamTyped
<1>6. HeadsAreAttested /\ HeadsInOrder /\ WritingIsLast /\ LinesAreWhole /\ EventsHaveLines
  BY <1>1, <1>2, <1>4 DEF HeadsAreAttested, HeadsInOrder, WritingIsLast, LinesAreWhole,
                          EventsHaveLines
<1>7. SentWasRead /\ CutIsKnown /\ FollowersSeeRunsInOrder
  BY <1>3 DEF SentWasRead, CutIsKnown, FollowersSeeRunsInOrder
<1>8. MissedOnlyWhatWasCut
  <2>1. LinesAt(stream) = {}
    BY <1>2 DEF LinesAt
  <2> QED  BY <2>1 DEF MissedOnlyWhatWasCut
<1> QED  BY <1>4, <1>5, <1>6, <1>7, <1>8 DEF EvidenceInv, SurfaceOfRun

\* Nothing is written and nobody reads.
LEMMA EvidenceStays ==
    ASSUME EvidenceInv, UNCHANGED <<evidenceVars, refs>>, SurfaceOfRun'
    PROVE  EvidenceInv'
<1>1. UNCHANGED <<stream, writing, faults, from, pos, sent, cut, refs>>
  BY DEF evidenceVars, streamVars, followerVars
<1>2. \A i : IsHead(i)' <=> IsHead(i)
  BY <1>1 DEF IsHead
<1>3. \A e : IsAttested(e)' <=> IsAttested(e)
  BY <1>1 DEF IsAttested
<1>4. StreamTyped' /\ WritingIsLast' /\ LinesAreWhole' /\ EventsHaveLines' /\ HeadsInOrder'
  BY <1>1, <1>2 DEF EvidenceInv, StreamTyped, WritingIsLast, LinesAreWhole, EventsHaveLines,
                    HeadsInOrder
<1>5. HeadsAreAttested'
  BY <1>1, <1>2, <1>3 DEF EvidenceInv, HeadsAreAttested
<1>6. SentWasRead' /\ CutIsKnown' /\ FollowersSeeRunsInOrder' /\ MissedOnlyWhatWasCut'
  BY <1>1, <1>2 DEF EvidenceInv, SentWasRead, CutIsKnown, FollowersSeeRunsInOrder,
                    MissedOnlyWhatWasCut
<1> QED  BY <1>4, <1>5, <1>6 DEF EvidenceInv

-----------------------------------------------------------------------------
(* A line is written.                                                      *)

\* What there is stays, and the followers have what they had.
LEMMA StreamGrows ==
    ASSUME EvidenceInv, NEW new \in Seq(Cell), stream' = stream \o new,
           UNCHANGED followerVars, faults' \in Nat
    PROVE  /\ StreamTyped'
           /\ Len(stream') = Len(stream) + Len(new)
           /\ DOMAIN stream = 1 .. Len(stream) /\ DOMAIN stream' = 1 .. Len(stream) + Len(new)
           /\ \A i \in DOMAIN stream : i \in DOMAIN stream' /\ stream'[i] = stream[i]
           /\ \A i \in 1 .. Len(new) : stream'[Len(stream) + i] = new[i]
           /\ LinesAt(stream) \subseteq LinesAt(stream')
           /\ SentWasRead' /\ CutIsKnown' /\ FollowersSeeRunsInOrder' /\ MissedOnlyWhatWasCut'
<1> DEFINE n == Len(stream)
<1>1. UNCHANGED <<from, pos, sent, cut>>
  BY DEF followerVars
<1>2. /\ stream \in Seq(Cell) /\ from \in [Followers -> Nat] /\ pos \in [Followers -> Nat]
      /\ \A f \in Followers : from[f] <= pos[f] /\ pos[f] <= n
  BY DEF EvidenceInv, StreamTyped
<1>3. /\ n \in Nat /\ DOMAIN stream = 1 .. n /\ Len(new) \in Nat
      /\ stream' \in Seq(Cell) /\ Len(stream') = n + Len(new) /\ DOMAIN stream' = 1 .. n + Len(new)
      /\ \A i \in 1 .. n : stream'[i] = stream[i]
      /\ \A i \in 1 .. Len(new) : stream'[n + i] = new[i]
  <2> HIDE DEF Cell
  <2> QED  BY <1>2
<1>4. StreamTyped'
  <2>1. \A f \in Followers : from[f] <= pos[f] /\ pos[f] <= n + Len(new)
    BY <1>2, <1>3
  <2> QED  BY <1>1, <1>3, <2>1 DEF EvidenceInv, StreamTyped
<1>5. \A i \in DOMAIN stream : i \in DOMAIN stream' /\ stream'[i] = stream[i]
  BY <1>3
<1>6. ASSUME NEW i \in 1 .. n - 1
      PROVE  i \in LinesAt(stream) <=> i \in LinesAt(stream')
  <2>1. i \in 1 .. n /\ i + 1 \in 1 .. n /\ i \in 1 .. n + Len(new) - 1
    BY <1>3
  <2>2. i # 1 => i - 1 \in 1 .. n
    BY <1>3
  <2>3. stream'[i] = stream[i] /\ stream'[i + 1] = stream[i + 1]
        /\ (i # 1 => stream'[i - 1] = stream[i - 1])
    BY <1>3, <2>1, <2>2
  <2> QED  BY <1>3, <2>1, <2>3 DEF LinesAt
<1>7. LinesAt(stream) \subseteq LinesAt(stream')
  <2>1. \A i \in LinesAt(stream) : i \in 1 .. n - 1
    BY DEF LinesAt
  <2> QED  BY <1>6, <2>1
<1>8. SentWasRead'
  <2> SUFFICES ASSUME NEW f \in Followers, NEW k \in DOMAIN sent[f]
               PROVE  \E i \in 1 .. pos[f] : IsHead(i)' /\ sent[f][k] = ToReceipt(stream'[i].event)
    BY <1>1 DEF SentWasRead
  <2>1. PICK i \in 1 .. pos[f] : IsHead(i) /\ sent[f][k] = ToReceipt(stream[i].event)
    BY DEF EvidenceInv, SentWasRead
  <2>2. IsHead(i)' /\ stream'[i] = stream[i]
    BY <1>5, <2>1 DEF IsHead
  <2> QED  BY <2>1, <2>2
<1>9. CutIsKnown'
  <2> SUFFICES ASSUME NEW f \in Followers, from[f] < pos[f], IsHead(pos[f])'
               PROVE  stream'[pos[f]].event \in cut[f]
    BY <1>1 DEF CutIsKnown
  <2>1. pos[f] \in DOMAIN stream
    <3>1. from[f] \in Nat /\ pos[f] \in Nat /\ pos[f] <= n
      BY <1>2
    <3> QED  BY <1>3, <3>1
  <2>2. stream'[pos[f]] = stream[pos[f]] /\ IsHead(pos[f])
    BY <1>1, <1>5, <2>1 DEF IsHead
  <2> QED  BY <2>2 DEF EvidenceInv, CutIsKnown
<1>10. FollowersSeeRunsInOrder'
  BY <1>1 DEF EvidenceInv, FollowersSeeRunsInOrder
<1>11. MissedOnlyWhatWasCut'
  <2> SUFFICES ASSUME NEW f \in Followers, NEW i \in LinesAt(stream'), from[f] < i, i < pos[f]
               PROVE  \/ ToReceipt(stream'[i].event) \in ToSet(sent[f])
                      \/ stream'[i].event \in cut[f]
    BY <1>1 DEF MissedOnlyWhatWasCut
  <2>1. i \in 1 .. n - 1
    <3>1. i \in 1 .. n + Len(new) - 1
      BY <1>3 DEF LinesAt
    <3>2. pos[f] \in Nat /\ pos[f] <= n
      BY <1>2
    <3> QED  BY <1>3, <3>1, <3>2
  <2>2. i \in LinesAt(stream) /\ stream'[i] = stream[i]
    BY <1>3, <1>6, <2>1
  <2> QED  BY <2>2 DEF EvidenceInv, MissedOnlyWhatWasCut
<1> QED  BY <1>3, <1>4, <1>5, <1>7, <1>8, <1>9, <1>10, <1>11

\* Who attests writes an event that is none of those before.
LEMMA AttestingFacts ==
    ASSUME IInv, EvidenceInv, NEW r \in Runs, pc[r] = "attest"
    PROVE  LET e == attesting[r] IN
           /\ e \in EventType /\ e # NoEvent
           /\ e.run = r /\ e.surface = EventPrefix(r)
           /\ refs[r] \in Seq(EventType) /\ Len(refs[r]) \in Nat
           /\ DOMAIN refs[r] = 1 .. Len(refs[r])
           /\ e.number = Len(refs[r]) + 1
           /\ writing = NoEvent => \A i \in DOMAIN stream :
                 IsHead(i) /\ stream[i].event.run = r => stream[i].event.number < e.number
<1> DEFINE e == attesting[r]
<1>1. /\ e \in EventType /\ e.run = r /\ e.surface = EventPrefix(r)
      /\ e.number = Len(refs[r]) + 1
  BY DEF IInv, AttestsDecision, EvidenceInv, SurfaceOfRun
<1>2. /\ refs[r] \in Seq(EventType) /\ Len(refs[r]) \in Nat
      /\ DOMAIN refs[r] = 1 .. Len(refs[r])
  <2>1. refs[r] \in Seq(EventType)
    BY DEF IInv, RunsTyped
  <2> HIDE DEF EventType
  <2> QED  BY <2>1
<1>3. e # NoEvent
  BY <1>1, NoEventAssumption
<1>4. ASSUME writing = NoEvent, NEW i \in DOMAIN stream, IsHead(i), stream[i].event.run = r
      PROVE  stream[i].event.number < e.number
  <2>1. stream[i].event.number \in DOMAIN refs[r]
    BY <1>4 DEF EvidenceInv, HeadsAreAttested, IsAttested
  <2> QED  BY <1>1, <1>2, <2>1
<1> QED  BY <1>1, <1>2, <1>3, <1>4

\* A run refers to one event more.
LEMMA ReferredMore ==
    ASSUME IInv, EvidenceInv, NEW r \in Runs, pc[r] = "attest",
           refs' = [refs EXCEPT ![r] = Append(@, attesting[r])],
           pc' = [pc EXCEPT ![r] = After(r, attesting[r])],
           attesting' = [attesting EXCEPT ![r] = NoEvent]
    PROVE  /\ \A x : x.run \in Runs /\ IsAttested(x) => IsAttested(x)'
           /\ attesting[r].number \in DOMAIN refs'[r]
           /\ refs'[r][attesting[r].number] = attesting[r]
           /\ \A q \in Runs : \A n \in DOMAIN refs'[q] :
                 \/ n \in DOMAIN refs[q] /\ refs'[q][n] = refs[q][n]
                 \/ q = r /\ refs'[q][n] = attesting[r]
           /\ SurfaceOfRun'
<1> DEFINE e == attesting[r]
<1>1. /\ e \in EventType /\ e.run = r /\ e.surface = EventPrefix(r)
      /\ refs[r] \in Seq(EventType) /\ Len(refs[r]) \in Nat
      /\ DOMAIN refs[r] = 1 .. Len(refs[r]) /\ e.number = Len(refs[r]) + 1
  BY AttestingFacts
<1>2. refs \in [Runs -> Seq(EventType)] /\ pc \in [Runs -> Places]
      /\ attesting \in [Runs -> EventType \cup {NoEvent}]
  BY DEF IInv, RunsTyped, TypeOK, Places
<1> HIDE DEF e
<1>3. refs'[r] = Append(refs[r], e) /\ \A q \in Runs \ {r} : refs'[q] = refs[q]
  <2> HIDE DEF EventType
  <2> QED  BY <1>2 DEF e
<1>4. /\ DOMAIN refs'[r] = 1 .. Len(refs[r]) + 1 /\ refs'[r][Len(refs[r]) + 1] = e
      /\ \A n \in DOMAIN refs[r] : n \in DOMAIN refs'[r] /\ refs'[r][n] = refs[r][n]
  <2> HIDE DEF EventType
  <2> QED  BY <1>1, <1>3, AppendedElement
<1>5. ASSUME NEW x, x.run \in Runs, IsAttested(x)
      PROVE  IsAttested(x)'
  <2>1. CASE x.run = r
    BY <1>4, <1>5, <2>1 DEF IsAttested
  <2>2. CASE x.run # r
    BY <1>3, <1>5, <2>2 DEF IsAttested
  <2> QED  BY <2>1, <2>2
<1>6. e.number \in DOMAIN refs'[r] /\ refs'[r][e.number] = e
  BY <1>1, <1>4
<1>7. ASSUME NEW q \in Runs, NEW n \in DOMAIN refs'[q]
      PROVE  \/ n \in DOMAIN refs[q] /\ refs'[q][n] = refs[q][n]
             \/ q = r /\ refs'[q][n] = e
  <2>1. CASE q = r
    BY <1>1, <1>4, <1>7, <2>1
  <2>2. CASE q # r
    BY <1>3, <1>7, <2>2
  <2> QED  BY <2>1, <2>2
<1>8. SurfaceOfRun'
  <2> SUFFICES ASSUME NEW q \in Runs
               PROVE  /\ pc'[q] = "attest" => attesting'[q].surface = EventPrefix(q)
                      /\ \A n \in DOMAIN refs'[q] : refs'[q][n].surface = EventPrefix(q)
    BY DEF SurfaceOfRun
  <2>1. \A n \in DOMAIN refs'[q] : refs'[q][n].surface = EventPrefix(q)
    BY <1>1, <1>7 DEF EvidenceInv, SurfaceOfRun
  <2>2. pc'[q] = "attest" => attesting'[q].surface = EventPrefix(q)
    <3>1. CASE q = r
      BY <1>2, <3>1 DEF After
    <3>2. CASE q # r
      <4>1. pc'[q] = pc[q] /\ attesting'[q] = attesting[q]
        BY <1>2, <3>2
      <4> QED  BY <4>1 DEF EvidenceInv, SurfaceOfRun
    <3> QED  BY <3>1, <3>2
  <2> QED  BY <2>1, <2>2
<1> QED  BY <1>5, <1>6, <1>7, <1>8 DEF e

\* A line is begun, or written whole, when no other is being written.
LEMMA HeadIsAdded ==
    ASSUME IInv, EvidenceInv, NEW r \in Runs, pc[r] = "attest", writing = NoEvent,
           NEW new \in Seq(Cell), stream' = stream \o new,
           UNCHANGED followerVars, faults' \in Nat,
           Len(new) \in {1, 2}, new[1].event = attesting[r], new[1].part = "head",
           Len(new) = 2 => new[2].part = "tail",
           \A x : x.run \in Runs /\ IsAttested(x) => IsAttested(x)',
           \/ writing' # NoEvent /\ writing' = attesting[r]
           \/ /\ attesting[r].number \in DOMAIN refs'[r]
              /\ refs'[r][attesting[r].number] = attesting[r],
           faults' = 0 => faults = 0 /\ (Len(new) = 2 \/ writing' # NoEvent)
    PROVE  /\ HeadsAreAttested' /\ HeadsInOrder' /\ LinesAreWhole'
           /\ faults' = 0 /\ Len(new) = 2 => Len(stream) + 1 \in LinesAt(stream')
<1> DEFINE n == Len(stream)
           e == attesting[r]
<1>1. /\ n \in Nat /\ DOMAIN stream = 1 .. n /\ DOMAIN stream' = 1 .. n + Len(new)
      /\ \A i \in 1 .. n : stream'[i] = stream[i]
      /\ \A i \in 1 .. Len(new) : stream'[n + i] = new[i]
  <2>1. stream \in Seq(Cell)
    BY DEF EvidenceInv, StreamTyped
  <2>2. n \in Nat
    <3> HIDE DEF Cell
    <3> QED  BY <2>1
  <2> QED  BY <2>2, StreamGrows
<1>2. /\ e \in EventType /\ e.run = r
      /\ \A i \in 1 .. n : IsHead(i) /\ stream[i].event.run = r =>
            stream[i].event.number < e.number
  BY <1>1, AttestingFacts
<1>3. \A i \in 1 .. n : stream[i] \in Cell
  <2>1. stream \in Seq(Cell)
    BY DEF EvidenceInv, StreamTyped
  <2> HIDE DEF Cell
  <2> QED  BY <2>1
<1>4. \A i \in 1 .. n : stream[i].event \in EventType /\ stream[i].event.run \in Runs
  BY <1>3 DEF Cell, EventType
<1>5. e.number \in Nat /\ \A i \in 1 .. n : stream[i].event.number \in Nat
  BY <1>2, <1>4 DEF EventType
<1> HIDE DEF n, e
<1>6. ASSUME NEW i \in DOMAIN stream', IsHead(i)'
      PROVE  \/ i \in 1 .. n /\ IsHead(i) /\ stream'[i] = stream[i]
             \/ i = n + 1 /\ stream'[i].event = e
  <2>1. CASE i \in 1 .. n
    BY <1>1, <1>6, <2>1 DEF IsHead
  <2>2. CASE i = n + 1
    <3>1. stream'[n + 1] = new[1]
      BY <1>1
    <3> QED  BY <2>2, <3>1 DEF e
  <2>3. CASE i = n + 2 /\ Len(new) = 2
    <3>1. stream'[n + 2] = new[2]
      BY <1>1, <2>3
    <3> QED  BY <1>6, <2>3, <3>1 DEF IsHead
  <2>4. i \in 1 .. n \/ i = n + 1 \/ (i = n + 2 /\ Len(new) = 2)
    <3>1. CASE Len(new) = 1
      <4>1. i \in 1 .. n + 1
        BY <1>1, <3>1
      <4> QED  BY <1>1, <4>1
    <3>2. CASE Len(new) = 2
      <4>1. i \in 1 .. n + 2
        BY <1>1, <3>2
      <4> QED  BY <1>1, <3>2, <4>1
    <3> QED  BY <3>1, <3>2
  <2> QED  BY <2>1, <2>2, <2>3, <2>4
<1>7. HeadsAreAttested'
  <2> SUFFICES ASSUME NEW i \in DOMAIN stream', IsHead(i)'
               PROVE  \/ IsAttested(stream[i].event)'
                      \/ writing' # NoEvent /\ stream'[i].event = writing'
    BY DEF HeadsAreAttested
  <2>1. CASE i \in 1 .. n /\ IsHead(i) /\ stream'[i] = stream[i]
    <3>1. IsAttested(stream[i].event)
      BY <1>1, <2>1 DEF EvidenceInv, HeadsAreAttested
    <3>2. /\ stream[i].event.number \in DOMAIN refs'[stream[i].event.run]
          /\ refs'[stream[i].event.run][stream[i].event.number] = stream[i].event
      BY <1>4, <2>1, <3>1 DEF IsAttested
    <3> QED  BY <2>1, <3>2 DEF IsAttested
  <2>2. CASE stream'[i].event = e
    <3>1. CASE writing' # NoEvent /\ writing' = e
      BY <2>2, <3>1
    <3>2. CASE e.number \in DOMAIN refs'[r] /\ refs'[r][e.number] = e
      BY <1>2, <2>2, <3>2 DEF IsAttested
    <3> QED  BY <3>1, <3>2 DEF e
  <2> QED  BY <1>6, <2>1, <2>2
<1>8. HeadsInOrder'
  <2> SUFFICES ASSUME NEW i \in DOMAIN stream', NEW j \in DOMAIN stream', IsHead(i)', IsHead(j)',
                      i < j, stream'[i].event.run = stream'[j].event.run
               PROVE  stream'[i].event.number < stream'[j].event.number
    BY DEF HeadsInOrder
  <2>1. i \in 1 .. n /\ IsHead(i) /\ stream'[i] = stream[i]
    <3>1. j \in 1 .. n + 2 /\ j <= n + 1
      BY <1>1, <1>6
    <3> QED  BY <1>1, <1>6, <3>1
  <2>2. CASE j \in 1 .. n /\ IsHead(j) /\ stream'[j] = stream[j]
    BY <1>1, <2>1, <2>2 DEF EvidenceInv, HeadsInOrder
  <2>3. CASE stream'[j].event = e
    BY <1>2, <2>1, <2>3
  <2> QED  BY <1>6, <2>2, <2>3
\* The line before is whole.
<1>9. faults = 0 /\ n # 0 => stream[n].part = "tail"
  <2>1. ASSUME n # 0
        PROVE  n \in DOMAIN stream /\ stream[n].part \in {"head", "tail"}
    <3>1. n \in 1 .. n
      BY <1>1, <2>1
    <3> QED  BY <1>1, <1>3, <3>1 DEF Cell
  <2> QED  BY <2>1 DEF EvidenceInv, LinesAreWhole, IsHead, n
<1>10. /\ stream'[n + 1] = new[1]
       /\ Len(new) = 2 => stream'[n + 2] = new[2]
       /\ n # 0 => stream'[n] = stream[n]
  BY <1>1
<1>11. Len(stream') = n + Len(new)
  BY StreamGrows DEF n
<1>12. LinesAreWhole'
  <2> SUFFICES ASSUME faults' = 0, NEW i \in DOMAIN stream', IsHead(i)'
               PROVE  /\ i = 1 \/ stream'[i - 1].part = "tail"
                      /\ i < Len(stream') => stream'[i + 1].part = "tail"
                      /\ i = Len(stream') => writing' # NoEvent
    BY DEF LinesAreWhole
  <2>1. CASE i \in 1 .. n /\ IsHead(i)
    <3>1. i # n
      BY <1>9, <2>1 DEF IsHead
    <3>2. i < n /\ i + 1 \in 1 .. n /\ (i # 1 => i - 1 \in 1 .. n) /\ i # n + Len(new)
      BY <1>1, <2>1, <3>1
    <3>3. (i = 1 \/ stream[i - 1].part = "tail") /\ stream[i + 1].part = "tail"
      BY <1>1, <2>1, <3>2 DEF EvidenceInv, LinesAreWhole, n
    <3> QED  BY <1>1, <1>11, <3>2, <3>3
  <2>2. CASE i = n + 1
    <3>1. i - 1 = n /\ i + 1 = n + 2 /\ (i < n + Len(new) => Len(new) = 2)
          /\ (i = n + Len(new) => Len(new) # 2)
      BY <1>1, <2>2
    <3> QED  BY <1>1, <1>9, <1>10, <1>11, <2>2, <3>1
  <2> QED  BY <1>6, <2>1, <2>2
<1>13. ASSUME faults' = 0, Len(new) = 2
       PROVE  n + 1 \in LinesAt(stream')
  <2>1. n + 1 \in 1 .. Len(stream') - 1 /\ n + 1 - 1 = n /\ n + 1 + 1 = n + 2
    BY <1>1, <1>11, <1>13
  <2>2. n + 1 = 1 \/ stream'[n].part = "tail"
    BY <1>1, <1>9, <1>10, <1>13
  <2>3. stream'[n + 1].part = "head" /\ stream'[n + 2].part = "tail"
    BY <1>10, <1>13
  <2>4. ASSUME NEW i \in Nat, i = n + 1
        PROVE  i \in LinesAt(stream')
    <3>1. i - 1 = n /\ i + 1 = n + 2 /\ i \in 1 .. Len(stream') - 1
      BY <1>1, <2>1, <2>4
    <3>2. i = 1 \/ stream'[i - 1].part = "tail"
      BY <2>2, <2>4, <3>1
    <3>3. stream'[i].part = "head" /\ stream'[i + 1].part = "tail"
      BY <2>3, <2>4, <3>1
    <3> QED  BY <3>1, <3>2, <3>3 DEF LinesAt
  <2> QED  BY <1>1, <2>4
<1> QED  BY <1>7, <1>8, <1>12, <1>13 DEF n

\* An event is attested, in one or two steps, or the writing of it fails.
LEMMA EvidenceOfAttested ==
    ASSUME IInv, EvidenceInv, NEW r \in Runs, Attested(r)
    PROVE  EvidenceInv'
<1> DEFINE e == attesting[r]
           h == [event |-> e, part |-> "head"]
           t == [event |-> e, part |-> "tail"]
           n == Len(stream)
<1>1. pc[r] = "attest" /\ UNCHANGED followerVars
  BY DEF Attested
<1>2. e \in EventType /\ e # NoEvent /\ e.run = r
  BY <1>1, AttestingFacts
<1>3. /\ h \in Cell /\ t \in Cell
      /\ h.event = e /\ h.part = "head" /\ t.event = e /\ t.part = "tail"
  BY <1>2 DEF Cell
<1>4. HeadCell(e) = h /\ TailCell(e) = t
  BY DEF HeadCell, TailCell
<1> HIDE DEF h, t
<1>5. /\ <<h>> \in Seq(Cell) /\ Len(<<h>>) = 1 /\ <<h>>[1] = h
      /\ <<t>> \in Seq(Cell) /\ Len(<<t>>) = 1 /\ <<t>>[1] = t
      /\ <<h, t>> \in Seq(Cell) /\ Len(<<h, t>>) = 2 /\ <<h, t>>[1] = h /\ <<h, t>>[2] = t
  <2> HIDE DEF Cell
  <2> QED  BY <1>3
<1>6. /\ stream \in Seq(Cell) /\ n \in Nat /\ faults \in Nat /\ DOMAIN stream = 1 .. n
  <2>1. stream \in Seq(Cell) /\ faults \in Nat
    BY DEF EvidenceInv, StreamTyped
  <2> HIDE DEF Cell
  <2>2. n \in Nat /\ DOMAIN stream = 1 .. n
    BY <2>1
  <2> QED  BY <2>1, <2>2
<1> HIDE DEF n, e
\* Lines and their events are still there.
<1>7. ASSUME NEW new \in Seq(Cell), stream' = stream \o new, faults' = 0 => faults = 0,
             faults' \in Nat,
             \A q \in Runs : \A k \in DOMAIN refs'[q] :
                 \/ k \in DOMAIN refs[q] /\ refs'[q][k] = refs[q][k]
                 \/ q = r /\ refs'[q][k] = e,
             \/ refs' = refs
             \/ faults' = 0 => \E i \in LinesAt(stream') : stream'[i].event = e
      PROVE  EventsHaveLines'
  <2>1. \A i \in LinesAt(stream) : i \in LinesAt(stream') /\ stream'[i] = stream[i]
    <3>1. \A i \in LinesAt(stream) : i \in DOMAIN stream
      BY <1>6 DEF LinesAt, n
    <3> QED  BY <1>1, <1>7, <3>1, StreamGrows
  <2> SUFFICES ASSUME faults' = 0, NEW q \in Runs, NEW k \in DOMAIN refs'[q]
               PROVE  \E i \in LinesAt(stream') : stream'[i].event = refs'[q][k]
    BY DEF EventsHaveLines
  <2>2. CASE k \in DOMAIN refs[q] /\ refs'[q][k] = refs[q][k]
    <3>1. PICK i \in LinesAt(stream) : stream[i].event = refs[q][k]
      BY <1>7, <2>2 DEF EvidenceInv, EventsHaveLines
    <3> QED  BY <2>1, <2>2, <3>1
  <2>3. CASE refs' # refs /\ refs'[q][k] = e
    BY <1>7, <2>3
  <2> QED  BY <1>7, <2>2, <2>3
\* BeginLine
<1>8. CASE BeginLine(e) /\ UNCHANGED <<pc, attesting, refs>>
  <2>1. /\ writing = NoEvent /\ stream' = stream \o <<h>> /\ writing' = e /\ faults' = faults
        /\ UNCHANGED <<pc, attesting, refs>>
    BY <1>4, <1>8 DEF BeginLine
  <2>2. faults' \in Nat
    BY <1>6, <2>1
  <2>3. /\ StreamTyped' /\ Len(stream') = n + 1 /\ DOMAIN stream' = 1 .. n + 1
        /\ stream'[n + 1] = h
        /\ SentWasRead' /\ CutIsKnown' /\ FollowersSeeRunsInOrder' /\ MissedOnlyWhatWasCut'
    <3>1. 1 \in 1 .. Len(<<h>>)
      BY <1>5
    <3> QED  BY <1>1, <1>5, <2>1, <2>2, <3>1, StreamGrows DEF n
  <2>4. HeadsAreAttested' /\ HeadsInOrder' /\ LinesAreWhole'
    <3>1. \A x : IsAttested(x) => IsAttested(x)'
      BY <2>1 DEF IsAttested
    <3> QED  BY <1>1, <1>2, <1>3, <1>5, <2>1, <2>2, <3>1, HeadIsAdded DEF e
  <2>5. WritingIsLast'
    BY <1>3, <1>6, <2>1, <2>3 DEF WritingIsLast, IsHead
  <2>6. EventsHaveLines'
    BY <1>5, <1>7, <2>1, <2>2
  <2>7. SurfaceOfRun'
    BY <2>1 DEF EvidenceInv, SurfaceOfRun
  <2> QED  BY <2>3, <2>4, <2>5, <2>6, <2>7 DEF EvidenceInv
\* The event is referred to.
<1>9. CASE /\ WriteLine(e) \/ EndLine(e) \/ FailLine(e)
           /\ refs' = [refs EXCEPT ![r] = Append(@, e)]
           /\ attesting' = [attesting EXCEPT ![r] = NoEvent]
           /\ Goto(r, After(r, e))
  <2>1. /\ \A x : x.run \in Runs /\ IsAttested(x) => IsAttested(x)'
        /\ e.number \in DOMAIN refs'[r] /\ refs'[r][e.number] = e
        /\ \A q \in Runs : \A k \in DOMAIN refs'[q] :
              \/ k \in DOMAIN refs[q] /\ refs'[q][k] = refs[q][k]
              \/ q = r /\ refs'[q][k] = e
        /\ SurfaceOfRun'
    BY <1>1, <1>9, ReferredMore DEF Goto, e
  <2>2. CASE WriteLine(e)
    <3>1. /\ writing = NoEvent /\ stream' = stream \o <<h, t>> /\ writing' = writing
          /\ faults' = faults /\ faults' \in Nat
      BY <1>4, <1>6, <2>2 DEF WriteLine
    <3>2. /\ StreamTyped' /\ stream'[n + 1] = h
          /\ SentWasRead' /\ CutIsKnown' /\ FollowersSeeRunsInOrder' /\ MissedOnlyWhatWasCut'
      <4>1. 1 \in 1 .. Len(<<h, t>>)
        BY <1>5
      <4> QED  BY <1>1, <1>5, <3>1, <4>1, StreamGrows DEF n
    <3>3. /\ HeadsAreAttested' /\ HeadsInOrder' /\ LinesAreWhole'
          /\ faults' = 0 => n + 1 \in LinesAt(stream')
      BY <1>1, <1>2, <1>3, <1>5, <2>1, <3>1, HeadIsAdded DEF e, n
    <3>4. EventsHaveLines'
      BY <1>3, <1>5, <1>7, <2>1, <3>1, <3>2, <3>3
    <3>5. WritingIsLast'
      BY <3>1 DEF WritingIsLast
    <3> QED  BY <2>1, <3>2, <3>3, <3>4, <3>5 DEF EvidenceInv
  <2>3. CASE EndLine(e)
    <3>1. /\ writing = e /\ stream' = stream \o <<t>> /\ writing' = NoEvent
          /\ faults' = faults /\ faults' \in Nat
      BY <1>4, <1>6, <2>3 DEF EndLine
    <3>2. /\ StreamTyped' /\ DOMAIN stream' = 1 .. n + 1 /\ Len(stream') = n + 1
          /\ \A i \in 1 .. n : stream'[i] = stream[i]
          /\ stream'[n + 1] = t
          /\ SentWasRead' /\ CutIsKnown' /\ FollowersSeeRunsInOrder' /\ MissedOnlyWhatWasCut'
      <4>1. 1 \in 1 .. Len(<<t>>)
        BY <1>5
      <4> QED  BY <1>1, <1>5, <1>6, <3>1, <4>1, StreamGrows DEF n
    <3>3. n \in 1 .. n /\ IsHead(n) /\ stream[n].event = e
      <4>1. IsHead(n) /\ stream[n].event = e
        BY <1>2, <3>1 DEF EvidenceInv, WritingIsLast, n
      <4> QED  BY <1>6, <4>1 DEF IsHead
    <3>4. \A i \in DOMAIN stream' : IsHead(i)' => i \in 1 .. n /\ IsHead(i)
      <4>1. ASSUME NEW i \in DOMAIN stream', IsHead(i)'
            PROVE  i \in 1 .. n /\ IsHead(i)
        <5>1. i # n + 1
          BY <1>3, <3>2, <4>1 DEF IsHead
        <5>2. i \in 1 .. n
          BY <1>6, <3>2, <5>1
        <5> QED  BY <1>6, <3>2, <4>1, <5>2 DEF IsHead
      <4> QED  BY <4>1
    <3>5. HeadsAreAttested'
      <4> SUFFICES ASSUME NEW i \in DOMAIN stream', IsHead(i)'
                   PROVE  /\ stream'[i].event.number \in DOMAIN refs'[stream'[i].event.run]
                          /\ refs'[stream'[i].event.run][stream'[i].event.number]
                                = stream'[i].event
        BY DEF HeadsAreAttested, IsAttested
      <4>1. i \in 1 .. n /\ IsHead(i) /\ stream'[i] = stream[i]
        BY <3>2, <3>4
      <4>2. stream[i].event.run \in Runs
        <5>1. stream[i] \in Cell
          <6> HIDE DEF Cell
          <6> QED  BY <1>6, <4>1
        <5> QED  BY <5>1 DEF Cell, EventType
      <4>3. CASE stream[i].event = e
        BY <1>2, <2>1, <4>1, <4>3
      <4>4. CASE IsAttested(stream[i].event)
        BY <2>1, <4>1, <4>2, <4>4 DEF IsAttested
      <4> QED  BY <1>6, <3>1, <4>1, <4>3, <4>4 DEF EvidenceInv, HeadsAreAttested
    <3>6. HeadsInOrder'
      BY <1>6, <3>2, <3>4 DEF EvidenceInv, HeadsInOrder
    <3>7. LinesAreWhole'
      <4> SUFFICES ASSUME faults = 0, NEW i \in DOMAIN stream', IsHead(i)'
                   PROVE  /\ i = 1 \/ stream'[i - 1].part = "tail"
                          /\ i < n + 1 => stream'[i + 1].part = "tail"
                          /\ i # n + 1
        BY <3>1, <3>2 DEF LinesAreWhole
      <4>1. i \in 1 .. n /\ IsHead(i) /\ (i # 1 => i - 1 \in 1 .. n)
        BY <1>6, <3>4
      <4>2. i = 1 \/ stream'[i - 1].part = "tail"
        BY <1>6, <3>2, <4>1 DEF EvidenceInv, LinesAreWhole
      <4>3. CASE i = n
        BY <1>3, <1>6, <3>2, <4>2, <4>3
      <4>4. CASE i # n
        <5>1. i < n /\ i + 1 \in 1 .. n
          BY <1>6, <4>1, <4>4
        <5>2. stream[i + 1].part = "tail"
          BY <1>6, <4>1, <5>1 DEF EvidenceInv, LinesAreWhole, n
        <5> QED  BY <1>6, <3>2, <4>2, <5>1, <5>2
      <4> QED  BY <4>3, <4>4
    <3>8. faults' = 0 => n \in LinesAt(stream')
      <4> SUFFICES ASSUME faults = 0 PROVE n \in LinesAt(stream')
        BY <3>1
      <4>1. n = 1 \/ stream[n - 1].part = "tail"
        BY <1>6, <3>3 DEF EvidenceInv, LinesAreWhole
      <4>2. n \in 1 .. Len(stream') - 1 /\ (n # 1 => n - 1 \in 1 .. n)
        BY <1>6, <3>2, <3>3
      <4>3. stream'[n].part = "head" /\ stream'[n + 1].part = "tail"
        BY <1>3, <3>2, <3>3 DEF IsHead
      <4>4. n = 1 \/ stream'[n - 1].part = "tail"
        BY <3>2, <4>1, <4>2
      <4> QED  BY <4>2, <4>3, <4>4 DEF LinesAt
    <3>9. EventsHaveLines'
      BY <1>5, <1>7, <2>1, <3>1, <3>2, <3>3, <3>8
    <3>10. WritingIsLast'
      BY <3>1 DEF WritingIsLast
    <3> QED  BY <2>1, <3>2, <3>5, <3>6, <3>7, <3>9, <3>10 DEF EvidenceInv
  <2>4. CASE FailLine(e)
    <3>1. writing = NoEvent /\ writing' = NoEvent /\ faults' \in Nat /\ faults' # 0
      BY <1>6, <2>4 DEF FailLine
    <3>2. LinesAreWhole' /\ EventsHaveLines' /\ WritingIsLast'
      BY <3>1 DEF LinesAreWhole, EventsHaveLines, WritingIsLast
    <3>3. CASE stream' = stream \o <<h>>
      <4>1. /\ StreamTyped' /\ SentWasRead' /\ CutIsKnown'
            /\ FollowersSeeRunsInOrder' /\ MissedOnlyWhatWasCut'
        BY <1>1, <1>5, <3>1, <3>3, StreamGrows
      <4>2. HeadsAreAttested' /\ HeadsInOrder'
        BY <1>1, <1>2, <1>3, <1>5, <2>1, <3>1, <3>3, HeadIsAdded DEF e
      <4> QED  BY <2>1, <3>2, <4>1, <4>2 DEF EvidenceInv
    <3>4. CASE stream' = stream
      <4>1. UNCHANGED <<stream, from, pos, sent, cut>>
        BY <1>1, <3>4 DEF followerVars
      <4>2. \A i : IsHead(i)' <=> IsHead(i)
        BY <4>1 DEF IsHead
      <4>3. StreamTyped' /\ HeadsInOrder'
        BY <3>1, <4>1, <4>2 DEF EvidenceInv, StreamTyped, HeadsInOrder
      <4>4. SentWasRead' /\ CutIsKnown' /\ FollowersSeeRunsInOrder' /\ MissedOnlyWhatWasCut'
        BY <4>1, <4>2 DEF EvidenceInv, SentWasRead, CutIsKnown, FollowersSeeRunsInOrder,
                          MissedOnlyWhatWasCut
      <4>5. HeadsAreAttested'
        <5> SUFFICES ASSUME NEW i \in DOMAIN stream, IsHead(i)
                     PROVE  IsAttested(stream[i].event)'
          BY <4>1, <4>2 DEF HeadsAreAttested
        <5>1. stream[i].event.run \in Runs
          <6>1. stream[i] \in Cell
            <7> HIDE DEF Cell
            <7> QED  BY <1>6
          <6> QED  BY <6>1 DEF Cell, EventType
        <5>2. IsAttested(stream[i].event)
          BY <3>1 DEF EvidenceInv, HeadsAreAttested
        <5>3. /\ stream[i].event.number \in DOMAIN refs'[stream[i].event.run]
              /\ refs'[stream[i].event.run][stream[i].event.number] = stream[i].event
          BY <2>1, <5>1, <5>2 DEF IsAttested
        <5> QED  BY <4>1, <5>3 DEF IsAttested
      <4> QED  BY <2>1, <3>2, <4>3, <4>4, <4>5 DEF EvidenceInv
    <3>5. stream' = stream \/ stream' = stream \o <<h>>
      BY <1>4, <2>4 DEF FailLine
    <3> QED  BY <3>3, <3>4, <3>5
  <2> QED  BY <1>9, <2>2, <2>3, <2>4
<1> QED  BY <1>8, <1>9 DEF Attested, Goto, e

-----------------------------------------------------------------------------
(* A follower moves.                                                       *)

\* What it polls are the lines since it last did, and it knows what it cut.
LEMMA EvidenceOfPoll ==
    ASSUME EvidenceInv, NEW f \in Followers, Poll(f), UNCHANGED <<stream, writing, faults, refs>>,
           SurfaceOfRun'
    PROVE  EvidenceInv'
<1> DEFINE n == Len(stream)
           p == pos[f]
           new == SubSeq(stream, p + 1, n)
           read == ReadEvents(new)
           s == sent[f]
<1>1. /\ StreamTyped /\ stream \in Seq(Cell) /\ n \in Nat /\ DOMAIN stream = 1 .. n
      /\ p \in 0 .. n /\ from[f] \in Nat /\ from[f] <= p
  <2>1. stream \in Seq(Cell) /\ StreamTyped
    BY DEF EvidenceInv, StreamTyped
  <2>2. n \in Nat /\ DOMAIN stream = 1 .. n
    <3> HIDE DEF Cell
    <3> QED  BY <2>1
  <2>3. pos[f] \in Nat /\ pos[f] <= n /\ from[f] \in Nat /\ from[f] <= pos[f]
    BY <2>1 DEF StreamTyped
  <2> QED  BY <2>1, <2>2, <2>3
<1>2. /\ from' = from /\ pos' = [pos EXCEPT ![f] = n]
      /\ sent' = [sent EXCEPT ![f] = s \o read]
      /\ cut' = [cut EXCEPT ![f] = @ \cup
                    {c.event : c \in {d \in {Last(stream)} : d.part = "head"}}]
      /\ new # <<>>
  BY DEF Poll
<1>3. /\ new \in Seq(Cell) /\ Len(new) = n - p
      /\ \A k \in LinesAt(new) : k \in 1 .. n - p
      /\ \A k \in 1 .. n - p : new[k] = stream[p + k]
      /\ \A k \in LinesAt(new) : IsHead(p + k)
      /\ \A i \in LinesAt(stream) : p < i => i - p \in LinesAt(new)
  BY <1>1, ReadFrom
<1>4. n # 0
  <2>1. Len(new) # 0
    <3> HIDE DEF new, Cell
    <3> QED  BY <1>2, <1>3
  <2> QED  BY <1>1, <1>3, <2>1
<1> HIDE DEF new
<1>5. /\ read \in Seq(Receipt) /\ Len(read) \in Nat /\ DOMAIN read = 1 .. Len(read)
      /\ \A k \in DOMAIN read : \E i \in LinesAt(new) : read[k] = ToReceipt(new[i].event)
      /\ \A i \in LinesAt(new) : \E k \in DOMAIN read : read[k] = ToReceipt(new[i].event)
      /\ \A k, l \in DOMAIN read : k < l =>
            \E i, j \in LinesAt(new) : /\ i < j
                                       /\ read[k] = ToReceipt(new[i].event)
                                       /\ read[l] = ToReceipt(new[j].event)
  BY <1>3, ReadOf, ReadTyped, Zenon
<1>6. /\ sent \in [Followers -> Seq(Receipt)] /\ pos \in [Followers -> Nat]
      /\ from \in [Followers -> Nat] /\ cut \in [Followers -> SUBSET EventType]
      /\ faults \in Nat /\ \A g \in Followers : from[g] <= pos[g] /\ pos[g] <= n
  BY DEF EvidenceInv, StreamTyped
<1> HIDE DEF read
<1>7. /\ s \in Seq(Receipt) /\ Len(s) \in Nat /\ DOMAIN s = 1 .. Len(s)
      /\ s \o read \in Seq(Receipt) /\ DOMAIN (s \o read) = 1 .. Len(s) + Len(read)
      /\ \A k \in 1 .. Len(s) : (s \o read)[k] = s[k]
      /\ \A k \in 1 .. Len(read) : (s \o read)[Len(s) + k] = read[k]
  <2> HIDE DEF Receipt
  <2>1. s \in Seq(Receipt)
    BY <1>6
  <2> HIDE DEF s
  <2> QED  BY <1>5, <2>1
<1>8. /\ sent'[f] = s \o read /\ pos'[f] = n
      /\ cut'[f] = cut[f] \cup {c.event : c \in {d \in {stream[n]} : d.part = "head"}}
      /\ \A g \in Followers \ {f} : sent'[g] = sent[g] /\ pos'[g] = pos[g] /\ cut'[g] = cut[g]
  <2> HIDE DEF s
  <2> QED  BY <1>2, <1>6 DEF Last
<1>9. cut[f] \subseteq cut'[f] /\ (IsHead(n) => stream[n].event \in cut'[f])
  BY <1>8 DEF IsHead
<1>10. \A e : ToReceipt(e).event = e
  BY DEF ToReceipt
<1>11. \A i : IsHead(i)' <=> IsHead(i)
  BY DEF IsHead
<1>12. StreamTyped'
  <2>1. sent' \in [Followers -> Seq(Receipt)]
    <3> HIDE DEF Receipt, s
    <3> QED  BY <1>2, <1>6, <1>7
  <2>2. cut' \in [Followers -> SUBSET EventType]
    <3>1. stream[n] \in Cell
      <4> HIDE DEF Cell
      <4> QED  BY <1>1, <1>4
    <3>2. cut'[f] \subseteq EventType
      BY <1>6, <1>8, <3>1 DEF Cell
    <3>3. DOMAIN cut' = Followers /\ \A g \in Followers : cut'[g] \subseteq EventType
      BY <1>2, <1>6, <1>8, <3>2
    <3>4. cut' = [g \in Followers |-> cut'[g]]
      BY <1>2, <1>6
    <3> QED  BY <3>3, <3>4
  <2>3. pos' \in [Followers -> Nat] /\ \A g \in Followers : from[g] <= pos'[g] /\ pos'[g] <= n
    BY <1>1, <1>2, <1>6
  <2> QED  BY <1>1, <1>2, <1>6, <2>1, <2>2, <2>3 DEF StreamTyped
\* What is sent now was read now.
<1>13. ASSUME NEW k \in DOMAIN read
       PROVE  \E h \in p + 1 .. n : IsHead(h) /\ read[k] = ToReceipt(stream[h].event)
  <2>1. PICK i \in LinesAt(new) : read[k] = ToReceipt(new[i].event)
    BY <1>5
  <2>2. i \in 1 .. n - p /\ new[i] = stream[p + i] /\ IsHead(p + i)
    BY <1>3
  <2>3. p + i \in p + 1 .. n
    BY <1>1, <2>2
  <2> QED  BY <2>1, <2>2, <2>3
<1>14. ASSUME NEW k \in DOMAIN s
       PROVE  \E h \in 1 .. p : IsHead(h) /\ s[k] = ToReceipt(stream[h].event)
  BY DEF EvidenceInv, SentWasRead
<1> HIDE DEF s, n, p
<1>15. ASSUME NEW k \in DOMAIN sent'[f]
       PROVE  \/ k \in DOMAIN s /\ sent'[f][k] = s[k]
              \/ k > Len(s) /\ k - Len(s) \in DOMAIN read /\ sent'[f][k] = read[k - Len(s)]
  <2>1. k \in 1 .. Len(s) + Len(read)
    BY <1>7, <1>8
  <2>2. CASE k <= Len(s)
    BY <1>7, <1>8, <2>1, <2>2
  <2>3. CASE k > Len(s)
    <3>1. k - Len(s) \in 1 .. Len(read) /\ Len(s) + (k - Len(s)) = k
      BY <1>5, <1>7, <2>1, <2>3
    <3> QED  BY <1>5, <1>7, <1>8, <2>3, <3>1
  <2> QED  BY <1>7, <2>1, <2>2, <2>3
<1>16. SentWasRead'
  <2> SUFFICES ASSUME NEW g \in Followers, NEW k \in DOMAIN sent'[g]
               PROVE  \E i \in 1 .. pos'[g] :
                         IsHead(i) /\ sent'[g][k] = ToReceipt(stream[i].event)
    BY <1>11 DEF SentWasRead
  <2>1. CASE g # f
    BY <1>8, <2>1 DEF EvidenceInv, SentWasRead
  <2>2. CASE g = f
    <3>1. CASE k \in DOMAIN s /\ sent'[f][k] = s[k]
      <4>1. PICK h \in 1 .. p : IsHead(h) /\ s[k] = ToReceipt(stream[h].event)
        BY <1>14, <3>1
      <4>2. h \in 1 .. n
        BY <1>1
      <4> QED  BY <1>8, <2>2, <3>1, <4>1, <4>2
    <3>2. CASE k - Len(s) \in DOMAIN read /\ sent'[f][k] = read[k - Len(s)]
      <4>1. PICK h \in p + 1 .. n :
                IsHead(h) /\ read[k - Len(s)] = ToReceipt(stream[h].event)
        BY <1>13, <3>2
      <4>2. h \in 1 .. n
        BY <1>1
      <4> QED  BY <1>8, <2>2, <3>2, <4>1, <4>2
    <3> QED  BY <1>15, <2>2, <3>1, <3>2
  <2> QED  BY <2>1, <2>2
<1>17. CutIsKnown'
  <2> SUFFICES ASSUME NEW g \in Followers, from[g] < pos'[g], IsHead(pos'[g])
               PROVE  stream[pos'[g]].event \in cut'[g]
    BY <1>2, <1>11 DEF CutIsKnown
  <2>1. CASE g # f
    BY <1>8, <2>1 DEF EvidenceInv, CutIsKnown
  <2>2. CASE g = f
    BY <1>8, <1>9, <2>2
  <2> QED  BY <2>1, <2>2
<1>18. ASSUME NEW i \in 1 .. n, NEW j \in 1 .. n, IsHead(i), IsHead(j), i < j,
              stream[i].event.run = stream[j].event.run
       PROVE  stream[i].event.number < stream[j].event.number
  BY <1>1, <1>18 DEF EvidenceInv, HeadsInOrder
<1>19. FollowersSeeRunsInOrder'
  <2> SUFFICES ASSUME NEW g \in Followers, NEW i \in DOMAIN sent'[g], NEW j \in DOMAIN sent'[g],
                      i < j, sent'[g][i].event.run = sent'[g][j].event.run
               PROVE  sent'[g][i].event.number < sent'[g][j].event.number
    BY DEF FollowersSeeRunsInOrder
  <2>1. CASE g # f
    BY <1>8, <2>1 DEF EvidenceInv, FollowersSeeRunsInOrder
  <2>2. CASE g = f
    <3>1. CASE j \in DOMAIN s /\ sent'[f][j] = s[j]
      <4>1. i \in DOMAIN s /\ sent'[f][i] = s[i]
        <5>1. i \in 1 .. Len(s) + Len(read) /\ j \in 1 .. Len(s)
          BY <1>7, <1>8, <2>2, <3>1
        <5>2. i \in 1 .. Len(s)
          BY <1>7, <5>1
        <5> QED  BY <1>7, <1>8, <5>2
      <4> QED  BY <2>2, <3>1, <4>1 DEF EvidenceInv, FollowersSeeRunsInOrder, s
    <3>2. CASE j > Len(s) /\ j - Len(s) \in DOMAIN read /\ sent'[f][j] = read[j - Len(s)]
      <4>1. CASE i \in DOMAIN s /\ sent'[f][i] = s[i]
        <5>1. PICK h \in 1 .. p : IsHead(h) /\ s[i] = ToReceipt(stream[h].event)
          BY <1>14, <4>1
        <5>2. PICK m \in p + 1 .. n :
                  IsHead(m) /\ read[j - Len(s)] = ToReceipt(stream[m].event)
          BY <1>13, <3>2
        <5>3. h \in 1 .. n /\ m \in 1 .. n /\ h < m
          BY <1>1
        <5>4. sent'[f][i].event = stream[h].event /\ sent'[f][j].event = stream[m].event
          BY <1>10, <3>2, <4>1, <5>1, <5>2
        <5> QED  BY <1>18, <2>2, <5>1, <5>2, <5>3, <5>4
      <4>2. CASE i > Len(s) /\ i - Len(s) \in DOMAIN read /\ sent'[f][i] = read[i - Len(s)]
        <5>1. i - Len(s) < j - Len(s)
          <6>1. i \in 1 .. Len(s) + Len(read) /\ j \in 1 .. Len(s) + Len(read)
            BY <1>7, <1>8, <2>2
          <6> QED  BY <1>5, <1>7, <6>1
        <5>2. PICK a \in LinesAt(new), b \in LinesAt(new) :
                  /\ a < b
                  /\ read[i - Len(s)] = ToReceipt(new[a].event)
                  /\ read[j - Len(s)] = ToReceipt(new[b].event)
          BY <1>5, <3>2, <4>2, <5>1
        <5>3. /\ a \in 1 .. n - p /\ new[a] = stream[p + a] /\ IsHead(p + a)
              /\ b \in 1 .. n - p /\ new[b] = stream[p + b] /\ IsHead(p + b)
          BY <1>3 DEF n, p
        <5>4. p + a \in 1 .. n /\ p + b \in 1 .. n /\ p + a < p + b
          BY <1>1, <5>2, <5>3
        <5>5. sent'[f][i].event = stream[p + a].event /\ sent'[f][j].event = stream[p + b].event
          BY <1>10, <3>2, <4>2, <5>2, <5>3
        <5> QED  BY <1>18, <2>2, <5>3, <5>4, <5>5
      <4> QED  BY <1>15, <2>2, <4>1, <4>2
    <3> QED  BY <1>15, <2>2, <3>1, <3>2
  <2> QED  BY <2>1, <2>2
<1>20. MissedOnlyWhatWasCut'
  <2> SUFFICES ASSUME NEW g \in Followers, NEW i \in LinesAt(stream), from[g] < i, i < pos'[g]
               PROVE  \/ ToReceipt(stream[i].event) \in ToSet(sent'[g])
                      \/ stream[i].event \in cut'[g]
    BY <1>2 DEF MissedOnlyWhatWasCut
  <2>1. CASE g # f
    BY <1>8, <2>1 DEF EvidenceInv, MissedOnlyWhatWasCut
  <2>2. CASE g = f
    <3>1. i \in 1 .. n /\ IsHead(i)
      BY <1>1 DEF LinesAt, IsHead, n
    <3>2. CASE i < p
      <4>1. ToReceipt(stream[i].event) \in ToSet(s) \/ stream[i].event \in cut[f]
        BY <2>2, <3>2 DEF EvidenceInv, MissedOnlyWhatWasCut, s, p
      <4>2. ToSet(s) \subseteq ToSet(sent'[f])
        <5>1. \A k \in DOMAIN s : k \in DOMAIN (s \o read) /\ (s \o read)[k] = s[k]
          BY <1>5, <1>7
        <5> QED  BY <1>8, <5>1 DEF ToSet
      <4> QED  BY <1>9, <2>2, <4>1, <4>2
    <3>3. CASE i = p
      BY <1>9, <2>2, <3>1, <3>3 DEF EvidenceInv, CutIsKnown, p
    <3>4. CASE p < i
      <4>1. i - p \in LinesAt(new)
        BY <1>3, <3>4 DEF n, p
      <4>2. PICK k \in DOMAIN read : read[k] = ToReceipt(new[i - p].event)
        BY <1>5, <4>1
      <4>3. new[i - p] = stream[i]
        <5>1. i - p \in 1 .. n - p /\ p + (i - p) = i
          BY <1>1, <3>1, <3>4
        <5> QED  BY <1>3, <5>1 DEF n, p
      <4>4. Len(s) + k \in DOMAIN (s \o read) /\ (s \o read)[Len(s) + k] = read[k]
        BY <1>5, <1>7
      <4> QED  BY <1>8, <2>2, <4>2, <4>3, <4>4 DEF ToSet
    <3> QED  BY <1>1, <3>1, <3>2, <3>3, <3>4
  <2> QED  BY <2>1, <2>2
<1>21. HeadsAreAttested' /\ HeadsInOrder' /\ WritingIsLast' /\ LinesAreWhole' /\ EventsHaveLines'
  <2>1. \A e : IsAttested(e)' <=> IsAttested(e)
    BY DEF IsAttested
  <2> QED  BY <1>11, <2>1 DEF EvidenceInv, HeadsAreAttested, HeadsInOrder, WritingIsLast,
                              LinesAreWhole, EventsHaveLines
<1> QED  BY <1>12, <1>16, <1>17, <1>19, <1>20, <1>21 DEF EvidenceInv

\* A follower begins at the end of the file, or goes.
LEMMA EvidenceOfFollower ==
    ASSUME EvidenceInv, NEW f \in Followers, FollowerStep(f)
    PROVE  EvidenceInv'
<1>1. UNCHANGED <<pc, attesting, refs, stream, writing, faults>>
  BY DEF FollowerStep, streamVars
<1>2. SurfaceOfRun'
  BY <1>1 DEF EvidenceInv, SurfaceOfRun
<1>3. CASE Poll(f)
  BY <1>1, <1>2, <1>3, EvidenceOfPoll
<1>4. CASE Leave(f)
  <2>1. UNCHANGED <<from, pos, sent, cut>>
    BY <1>4 DEF Leave
  <2>2. /\ \A i : IsHead(i)' <=> IsHead(i)
        /\ \A e : IsAttested(e)' <=> IsAttested(e)
    BY <1>1 DEF IsHead, IsAttested
  <2>3. /\ StreamTyped' /\ HeadsInOrder' /\ HeadsAreAttested' /\ WritingIsLast'
        /\ LinesAreWhole' /\ EventsHaveLines'
    BY <1>1, <2>1, <2>2 DEF EvidenceInv, StreamTyped, HeadsInOrder, HeadsAreAttested,
                            WritingIsLast, LinesAreWhole, EventsHaveLines
  <2>4. SentWasRead' /\ CutIsKnown' /\ FollowersSeeRunsInOrder' /\ MissedOnlyWhatWasCut'
    BY <1>1, <2>1, <2>2 DEF EvidenceInv, SentWasRead, CutIsKnown, FollowersSeeRunsInOrder,
                            MissedOnlyWhatWasCut
  <2> QED  BY <1>2, <2>3, <2>4 DEF EvidenceInv
<1>5. CASE Follow(f)
  <2> DEFINE n == Len(stream)
  <2>1. /\ from' = [from EXCEPT ![f] = n] /\ pos' = [pos EXCEPT ![f] = n]
        /\ sent' = sent /\ cut' = cut
    BY <1>5 DEF Follow
  <2>2. /\ stream \in Seq(Cell) /\ from \in [Followers -> Nat] /\ pos \in [Followers -> Nat]
        /\ \A g \in Followers : from[g] <= pos[g] /\ pos[g] <= n
    BY DEF EvidenceInv, StreamTyped
  <2>3. n \in Nat /\ DOMAIN stream = 1 .. n
    <3> HIDE DEF Cell
    <3> QED  BY <2>2
  <2> HIDE DEF n
  <2>4. /\ from'[f] = n /\ pos'[f] = n
        /\ \A g \in Followers \ {f} : from'[g] = from[g] /\ pos'[g] = pos[g]
        /\ from' \in [Followers -> Nat] /\ pos' \in [Followers -> Nat]
    BY <2>1, <2>2, <2>3
  <2>5. /\ \A i : IsHead(i)' <=> IsHead(i)
        /\ \A e : IsAttested(e)' <=> IsAttested(e)
    BY <1>1 DEF IsHead, IsAttested
  <2>6. StreamTyped'
    <3>1. \A g \in Followers : from'[g] <= pos'[g] /\ pos'[g] <= n
      <4> SUFFICES ASSUME NEW g \in Followers PROVE from'[g] <= pos'[g] /\ pos'[g] <= n
        OBVIOUS
      <4>1. CASE g = f
        BY <2>3, <2>4, <4>1
      <4>2. CASE g # f
        BY <2>2, <2>4, <4>2
      <4> QED  BY <4>1, <4>2
    <3> QED  BY <1>1, <2>1, <2>4, <3>1 DEF EvidenceInv, StreamTyped, n
  <2>7. /\ HeadsInOrder' /\ HeadsAreAttested' /\ WritingIsLast'
        /\ LinesAreWhole' /\ EventsHaveLines'
    BY <1>1, <2>5 DEF EvidenceInv, HeadsInOrder, HeadsAreAttested, WritingIsLast,
                      LinesAreWhole, EventsHaveLines
  <2>8. SentWasRead'
    <3> SUFFICES ASSUME NEW g \in Followers, NEW k \in DOMAIN sent[g]
                 PROVE  \E i \in 1 .. pos'[g] :
                           IsHead(i) /\ sent[g][k] = ToReceipt(stream[i].event)
      BY <1>1, <2>1, <2>5 DEF SentWasRead
    <3>1. PICK i \in 1 .. pos[g] : IsHead(i) /\ sent[g][k] = ToReceipt(stream[i].event)
      BY DEF EvidenceInv, SentWasRead
    <3>2. i \in 1 .. pos'[g]
      <4>1. pos[g] \in Nat /\ pos'[g] \in Nat
        BY <2>2, <2>4
      <4>2. pos[g] <= pos'[g]
        <5>1. CASE g = f
          BY <2>2, <2>4, <5>1
        <5>2. CASE g # f
          BY <2>4, <4>1, <5>2
        <5> QED  BY <5>1, <5>2
      <4> QED  BY <4>1, <4>2
    <3> QED  BY <3>1, <3>2
  <2>9. CutIsKnown'
    <3> SUFFICES ASSUME NEW g \in Followers, from'[g] < pos'[g], IsHead(pos'[g])
                 PROVE  stream[pos'[g]].event \in cut[g]
      BY <1>1, <2>1, <2>5 DEF CutIsKnown
    <3>1. g # f
      BY <2>3, <2>4
    <3> QED  BY <2>4, <3>1 DEF EvidenceInv, CutIsKnown
  <2>10. MissedOnlyWhatWasCut'
    <3> SUFFICES ASSUME NEW g \in Followers, NEW i \in LinesAt(stream), from'[g] < i, i < pos'[g]
                 PROVE  \/ ToReceipt(stream[i].event) \in ToSet(sent[g])
                        \/ stream[i].event \in cut[g]
      BY <1>1, <2>1 DEF MissedOnlyWhatWasCut
    <3>1. g # f
      <4>1. i \in Nat
        BY DEF LinesAt
      <4> QED  BY <2>3, <2>4, <4>1
    <3> QED  BY <2>4, <3>1 DEF EvidenceInv, MissedOnlyWhatWasCut
  <2>11. FollowersSeeRunsInOrder'
    BY <2>1 DEF EvidenceInv, FollowersSeeRunsInOrder
  <2> QED  BY <1>2, <2>6, <2>7, <2>8, <2>9, <2>10, <2>11 DEF EvidenceInv
<1> QED  BY <1>3, <1>4, <1>5 DEF FollowerStep

-----------------------------------------------------------------------------
(* A run begins to attest, or goes on.                                     *)

LEMMA GoingOnKeepsSurfaces ==
    ASSUME IInv, SurfaceOfRun, NEW r \in Runs, NEW to, to # "attest", Goto(r, to),
           UNCHANGED <<attesting, refs>>
    PROVE  SurfaceOfRun'
<1>1. pc \in [Runs -> Places]
  BY DEF IInv, TypeOK, Places
<1>2. \A q \in Runs : pc'[q] = "attest" => pc[q] = "attest"
  BY <1>1 DEF Goto
<1> QED  BY <1>2 DEF SurfaceOfRun

LEMMA AttestingKeepsSurfaces ==
    ASSUME IInv, SurfaceOfRun, NEW r \in Runs, NEW e, NEW type, NEW decision, NEW command,
           Attest(r, e, type, decision, command), UNCHANGED refs
    PROVE  SurfaceOfRun'
<1>1. pc \in [Runs -> Places] /\ attesting \in [Runs -> EventType \cup {NoEvent}]
  BY DEF IInv, TypeOK, RunsTyped, Places
<1>2. attesting'[r].surface = EventPrefix(r)
  <2> HIDE DEF EventType
  <2> QED  BY <1>1 DEF Attest
<1>3. \A q \in Runs \ {r} : pc'[q] = pc[q] /\ attesting'[q] = attesting[q]
  <2> HIDE DEF EventType
  <2> QED  BY <1>1 DEF Attest, Goto
<1> QED  BY <1>2, <1>3 DEF SurfaceOfRun

LEMMA EvidenceOfBridge ==
    ASSUME IInv, EvidenceInv, BridgeStep
    PROVE  EvidenceInv'
<1>1. Bridge \in Runs /\ SurfaceOfRun
  BY DEF Runs, EvidenceInv
<1>2. UNCHANGED <<evidenceVars, refs>>
  BY DEF BridgeStep, Connect, AskSession, EnforceOnly, Dispatch, SendCommand, SkipCommand,
         Receive, SkipFrame, Connected, Dispatched, SessionEnded, DropClient, Close,
         CloseWithoutClient, WriteReceipt
<1>3. SurfaceOfRun'
  <2>1. ASSUME NEW c \in BridgeCommands, Dispatch(c) PROVE SurfaceOfRun'
    BY <1>1, <1>2, <2>1, AttestingKeepsSurfaces DEF Dispatch, Evaluate
  <2>2. CASE SendCommand
    <3>1. CASE Goto(Bridge, "wait") /\ UNCHANGED attesting
      BY <1>1, <1>2, <3>1, GoingOnKeepsSurfaces
    <3>2. CASE Attest(Bridge, effective[Bridge], "error", "permit", lastId + 1)
      BY <1>1, <1>2, <3>2, AttestingKeepsSurfaces
    <3> QED  BY <2>2, <3>1, <3>2 DEF SendCommand
  <2>3. CASE Dispatched
    BY <1>1, <1>2, <2>3, AttestingKeepsSurfaces DEF Dispatched
  <2>4. CASE SkipFrame
    BY <1>1, <2>4 DEF SkipFrame, SurfaceOfRun
  <2>5. ASSUME NEW to \in {"opened", "handshake", "dropping", "ready", "ending", "closing"},
               Goto(Bridge, to), UNCHANGED attesting
        PROVE  SurfaceOfRun'
    BY <1>1, <1>2, <2>5, GoingOnKeepsSurfaces
  <2>6. ASSUME \/ \E url \in Endpoints : Connect(url)
               \/ AskSession \/ EnforceOnly \/ SkipCommand \/ Connected \/ SessionEnded
               \/ DropClient \/ Close \/ CloseWithoutClient \/ WriteReceipt
        PROVE  SurfaceOfRun'
    BY <2>5, <2>6 DEF Connect, AskSession, EnforceOnly, SkipCommand, Connected, SessionEnded,
                      DropClient, Close, CloseWithoutClient, WriteReceipt
  <2> QED  BY <2>1, <2>2, <2>3, <2>4, <2>6 DEF BridgeStep, Receive
<1> QED  BY <1>2, <1>3, EvidenceStays

LEMMA EvidenceOfRequest ==
    ASSUME IInv, EvidenceInv, NEW r \in Requests, GateStep(r)
    PROVE  EvidenceInv'
<1>1. r \in Runs /\ SurfaceOfRun
  BY DEF Runs, EvidenceInv
<1>2. UNCHANGED <<evidenceVars, refs>>
  BY DEF GateStep, HandleRequest, Block, Forward, Respond, Act
<1>3. SurfaceOfRun'
  <2>1. ASSUME NEW q \in GateRequests, HandleRequest(r, q) PROVE SurfaceOfRun'
    BY <1>1, <1>2, <2>1, AttestingKeepsSurfaces DEF HandleRequest, Evaluate
  <2>2. ASSUME NEW to \in {"denied", "forwarded", "unreachable", "replied"},
               Goto(r, to), UNCHANGED attesting
        PROVE  SurfaceOfRun'
    BY <1>1, <1>2, <2>2, GoingOnKeepsSurfaces
  <2>3. CASE Block(r) \/ Forward(r) \/ Respond(r)
    BY <2>2, <2>3 DEF Block, Forward, Respond
  <2>4. CASE Act(r)
    BY <1>1, <1>2, <2>4 DEF Act, SurfaceOfRun
  <2> QED  BY <2>1, <2>3, <2>4 DEF GateStep
<1> QED  BY <1>2, <1>3, EvidenceStays

LEMMA EvidenceStep == IInv /\ EvidenceInv /\ [Next]_vars => EvidenceInv'
<1> SUFFICES ASSUME IInv, EvidenceInv, [Next]_vars PROVE EvidenceInv'
  OBVIOUS
<1>1. CASE UNCHANGED vars \/ BrowserStep
  <2>1. UNCHANGED <<pc, attesting, refs, evidenceVars>>
    BY <1>1 DEF vars, BrowserStep
  <2>2. SurfaceOfRun'
    BY <2>1 DEF EvidenceInv, SurfaceOfRun
  <2> QED  BY <2>1, <2>2, EvidenceStays
<1> QED
  BY <1>1, EvidenceOfBridge, EvidenceOfRequest, EvidenceOfAttested, EvidenceOfFollower DEF Next

LEMMA EvidenceHolds == Spec => [](IInv /\ EvidenceInv)
<1>1. Init => IInv /\ EvidenceInv
  BY InitInv, EvidenceInitially
<1>2. IInv /\ EvidenceInv /\ [Next]_vars => (IInv /\ EvidenceInv)'
  BY StepInv, EvidenceStep
<1> QED  BY <1>1, <1>2, PTL DEF Spec

-----------------------------------------------------------------------------
(* What /receipts shows.                                                   *)

\* While there are no more receipts than the limit, those that match, the
\* newest first.
LEMMA ReceiptsOf ==
    ASSUME NEW C, stream \in Seq(C), NEW query, query.limit \in Nat,
           Len(ReadEvents(stream)) <= query.limit
    PROVE  LET shown == Receipts(query) IN
           /\ Len(shown) \in Nat /\ DOMAIN shown = 1 .. Len(shown)
           /\ \A k \in DOMAIN shown : \E i \in LinesAt(stream) :
                 shown[k] = ToReceipt(stream[i].event)
           /\ \A i \in LinesAt(stream) : Matches(ToReceipt(stream[i].event), query) =>
                 \E k \in DOMAIN shown : shown[k] = ToReceipt(stream[i].event)
           /\ \A k, l \in DOMAIN shown : k < l =>
                 \E i, j \in LinesAt(stream) :
                    /\ j < i
                    /\ shown[k] = ToReceipt(stream[i].event)
                    /\ shown[l] = ToReceipt(stream[j].event)
<1> DEFINE read == ReadEvents(stream)
           at == {k \in DOMAIN read : Matches(read[k], query)}
           matching == Matching(read, query)
           m == Len(matching)
           newest == Reverse(matching)
           shown == Receipts(query)
<1>1. /\ Len(read) \in Nat /\ DOMAIN read = 1 .. Len(read)
      /\ \A k \in DOMAIN read : \E i \in LinesAt(stream) : read[k] = ToReceipt(stream[i].event)
      /\ \A i \in LinesAt(stream) : \E k \in DOMAIN read : read[k] = ToReceipt(stream[i].event)
      /\ \A k, l \in DOMAIN read : k < l =>
            \E i, j \in LinesAt(stream) :
               /\ i < j
               /\ read[k] = ToReceipt(stream[i].event)
               /\ read[l] = ToReceipt(stream[j].event)
  BY ReadOf
<1> HIDE DEF read
<1>2. /\ m \in Nat /\ m <= Len(read) /\ DOMAIN matching = 1 .. m
      /\ \A k \in 1 .. m : \E i \in at : matching[k] = read[i]
      /\ \A i \in at : \E k \in 1 .. m : matching[k] = read[i]
      /\ \A k, l \in 1 .. m : k < l =>
            \E i, j \in at : i < j /\ matching[k] = read[i] /\ matching[l] = read[j]
  <2>1. at \in SUBSET (1 .. Len(read))
    BY <1>1
  <2>2. matching = Chosen(read, at)
    BY DEF Matching
  <2> DEFINE c == Cardinality(at)
  <2> HIDE DEF at, matching
  <2>3. /\ c \in Nat /\ c <= Len(read)
        /\ DOMAIN matching = 1 .. c /\ Len(matching) = c
        /\ \A k \in 1 .. c : \E i \in at : matching[k] = read[i]
        /\ \A i \in at : \E k \in 1 .. c : matching[k] = read[i]
        /\ \A k, l \in 1 .. c : k < l =>
              \E i, j \in at : i < j /\ matching[k] = read[i] /\ matching[l] = read[j]
    <3> DEFINE chosen == Chosen(read, at)
    <3>1. Len(read) \in Nat
      BY <1>1
    <3>2. /\ Cardinality(at) \in Nat /\ Cardinality(at) <= Len(read)
          /\ DOMAIN chosen = 1 .. Cardinality(at)
          /\ Len(chosen) = Cardinality(at)
      BY <2>1, <3>1, ChosenOf
    <3>3. \A k \in 1 .. Cardinality(at) : \E i \in at : chosen[k] = read[i]
      BY <2>1, <3>1, ChosenOf
    <3>4. ASSUME NEW i \in at
          PROVE  \E k \in 1 .. Cardinality(at) : chosen[k] = read[i]
      <4>1. PICK k \in 1 .. Cardinality(at) : chosen[k] = read[i]
        BY <2>1, <3>1, ChosenOf
      <4> QED  BY <4>1
    <3>5. ASSUME NEW k \in 1 .. Cardinality(at), NEW l \in 1 .. Cardinality(at), k < l
          PROVE  \E i, j \in at : i < j /\ chosen[k] = read[i] /\ chosen[l] = read[j]
      <4>1. Nth(at, k) \in at /\ Nth(at, l) \in at /\ Nth(at, k) < Nth(at, l)
        BY <2>1, <3>1, <3>5, NthOf
      <4>2. chosen[k] = read[Nth(at, k)] /\ chosen[l] = read[Nth(at, l)]
        BY DEF Chosen
      <4> HIDE DEF chosen
      <4> QED  BY <4>1, <4>2
    <3> HIDE DEF chosen
    <3>6. matching = chosen
      BY <2>2 DEF chosen
    <3> QED  BY <3>2, <3>3, <3>4, <3>5, <3>6
  <2> HIDE DEF c
  <2> QED  BY <2>3
<1> HIDE DEF matching
<1>3. /\ newest = [k \in 1 .. m |-> matching[m - k + 1]]
      /\ Len(newest) = m
      /\ shown = SubSeq(newest, 1, Min({query.limit, Len(newest)}))
  <2>1. newest = [k \in 1 .. m |-> matching[m - k + 1]]
    BY DEF Reverse
  <2>2. Len(newest) = m
    <3> HIDE DEF newest, m
    <3> QED  BY <1>2, <2>1
  <2>3. shown = SubSeq(newest, 1, Min({query.limit, Len(newest)}))
    BY DEF Receipts, matching, read
  <2> QED  BY <2>1, <2>2, <2>3
<1> HIDE DEF m, newest, shown
<1>4. Min({query.limit, m}) = m
  <2>1. m <= query.limit
    BY <1>1, <1>2 DEF read
  <2>2. PICK x \in {query.limit, m} : x = Min({query.limit, m}) /\ \A y \in {query.limit, m} : x <= y
    <3>1. \E x \in {query.limit, m} : \A y \in {query.limit, m} : x <= y
      BY <1>2, LeastOf
    <3> QED  BY <3>1 DEF Min
  <2> QED  BY <1>2, <2>1, <2>2
<1>5. Len(shown) = m /\ DOMAIN shown = 1 .. m /\ \A k \in 1 .. m : shown[k] = matching[m - k + 1]
  <2> DEFINE T == {matching[k] : k \in 1 .. m}
  <2>1. newest \in Seq(T)
    <3>1. m \in Nat /\ \A k \in 1 .. m : m - k + 1 \in 1 .. m
      <4>1. m \in Nat
        BY <1>2
      <4> QED  BY <4>1
    <3>2. \A k \in 1 .. m : matching[m - k + 1] \in T
      BY <3>1
    <3> HIDE DEF T
    <3> QED  BY <1>3, <3>1, <3>2
  <2> HIDE DEF T
  <2>2. shown = SubSeq(newest, 1, m)
    BY <1>3, <1>4
  <2>3. /\ DOMAIN newest = 1 .. m
        /\ \A k \in 1 .. m : newest[k] = matching[m - k + 1]
    BY <1>3
  <2>4. /\ Len(shown) = m /\ DOMAIN shown = 1 .. m
        /\ \A k \in 1 .. m : shown[k] = newest[k]
    <3>1. m \in Nat /\ Len(newest) = m
      BY <1>2, <1>3
    <3> QED  BY <2>1, <2>2, <3>1
  <2> QED  BY <2>3, <2>4
<1>6. ASSUME NEW k \in 1 .. m
      PROVE  \E i \in LinesAt(stream) : shown[k] = ToReceipt(stream[i].event)
  <2>1. m - k + 1 \in 1 .. m
    BY <1>2
  <2>2. PICK i \in at : matching[m - k + 1] = read[i]
    BY <1>2, <2>1
  <2> QED  BY <1>1, <1>5, <2>2
<1>7. ASSUME NEW i \in LinesAt(stream), Matches(ToReceipt(stream[i].event), query)
      PROVE  \E k \in 1 .. m : shown[k] = ToReceipt(stream[i].event)
  <2>1. PICK j \in DOMAIN read : read[j] = ToReceipt(stream[i].event)
    BY <1>1
  <2>2. PICK l \in 1 .. m : matching[l] = read[j]
    BY <1>2, <1>7, <2>1
  <2>3. m - l + 1 \in 1 .. m /\ m - (m - l + 1) + 1 = l
    BY <1>2
  <2> QED  BY <1>5, <2>1, <2>2, <2>3
<1>8. ASSUME NEW k \in 1 .. m, NEW l \in 1 .. m, k < l
      PROVE  \E i, j \in LinesAt(stream) :
                /\ j < i
                /\ shown[k] = ToReceipt(stream[i].event)
                /\ shown[l] = ToReceipt(stream[j].event)
  <2>1. m - k + 1 \in 1 .. m /\ m - l + 1 \in 1 .. m /\ m - l + 1 < m - k + 1
    <3>1. m \in Nat
      BY <1>2
    <3> QED  BY <1>8, <3>1
  <2>2. PICK a \in at, b \in at : a < b /\ matching[m - l + 1] = read[a] /\ matching[m - k + 1] = read[b]
    BY <1>2, <2>1
  <2>3. PICK i \in LinesAt(stream), j \in LinesAt(stream) :
           /\ i < j
           /\ read[a] = ToReceipt(stream[i].event)
           /\ read[b] = ToReceipt(stream[j].event)
    BY <1>1, <2>2
  <2> QED  BY <1>5, <2>2, <2>3
<1>9. /\ Len(shown) \in Nat /\ DOMAIN shown = 1 .. Len(shown) /\ m = Len(shown)
      /\ \A k \in DOMAIN shown : \E i \in LinesAt(stream) :
            shown[k] = ToReceipt(stream[i].event)
  BY <1>2, <1>5, <1>6
<1>10. \A i \in LinesAt(stream) : Matches(ToReceipt(stream[i].event), query) =>
          \E k \in DOMAIN shown : shown[k] = ToReceipt(stream[i].event)
  BY <1>5, <1>7
<1>11. \A k, l \in DOMAIN shown : k < l =>
          \E i, j \in LinesAt(stream) :
             /\ j < i
             /\ shown[k] = ToReceipt(stream[i].event)
             /\ shown[l] = ToReceipt(stream[j].event)
  BY <1>5, <1>8
<1> QED  BY <1>9, <1>10, <1>11, Zenon DEF shown

\* Without a fault the lines are those of the events that are referred to.
LEMMA LinesAreAttested ==
    ASSUME IInv, EvidenceInv, faults = 0
    PROVE  /\ stream \in Seq(Cell)
           /\ \A i \in LinesAt(stream) :
                 /\ IsHead(i) /\ i \in Nat
                 /\ stream[i].event.run \in Runs
                 /\ stream[i].event \in ToSet(refs[stream[i].event.run])
           /\ \A r \in Runs : \A e \in ToSet(refs[r]) :
                 \E i \in LinesAt(stream) : stream[i].event = e
<1> DEFINE n == Len(stream)
<1>1. stream \in Seq(Cell)
  BY DEF EvidenceInv, StreamTyped
<1>2. n \in Nat /\ DOMAIN stream = 1 .. n
  <2> HIDE DEF Cell
  <2> QED  BY <1>1
<1>3. \A i \in DOMAIN stream : stream[i].event \in EventType
  <2>1. ASSUME NEW i \in DOMAIN stream PROVE stream[i] \in Cell
    <3> HIDE DEF Cell
    <3> QED  BY <1>1
  <2> QED  BY <2>1 DEF Cell
<1>4. \A e \in EventType : e.run \in Runs /\ e.number \in Nat
  BY DEF EventType
<1>5. ASSUME NEW i \in LinesAt(stream)
      PROVE  /\ IsHead(i) /\ i \in Nat
             /\ stream[i].event.run \in Runs
             /\ stream[i].event \in ToSet(refs[stream[i].event.run])
  <2> DEFINE e == stream[i].event
  <2>1. i \in 1 .. n - 1 /\ IsHead(i)
    BY <1>2 DEF LinesAt, IsHead
  <2>2. i \in DOMAIN stream /\ i \in Nat /\ i < n /\ n \in DOMAIN stream
    BY <1>2, <2>1
  <2>3. e \in EventType /\ e.run \in Runs /\ e.number \in Nat
    BY <1>3, <1>4, <2>2
  <2>4. IsAttested(e)
    <3>1. ASSUME writing # NoEvent, e = writing
          PROVE  FALSE
      <4>1. IsHead(n) /\ stream[n].event = e
        BY <3>1 DEF EvidenceInv, WritingIsLast
      <4>2. stream[i].event.number < stream[n].event.number
        BY <2>1, <2>2, <4>1 DEF EvidenceInv, HeadsInOrder
      <4> HIDE DEF n
      <4> QED  BY <2>3, <4>1, <4>2
    <3> QED  BY <2>1, <2>2, <3>1 DEF EvidenceInv, HeadsAreAttested
  <2> QED  BY <2>1, <2>2, <2>3, <2>4 DEF IsAttested, ToSet
<1>6. ASSUME NEW r \in Runs, NEW e \in ToSet(refs[r])
      PROVE  \E i \in LinesAt(stream) : stream[i].event = e
  BY DEF EvidenceInv, EventsHaveLines, ToSet
<1> QED  BY <1>1, <1>5, <1>6

LEMMA AllIsShown == IInv /\ EvidenceInv => ReceiptsAreComplete
<1> SUFFICES ASSUME IInv, EvidenceInv, faults = 0
             PROVE  /\ Len(ReadEvents(stream)) <= Everything.limit => \A r \in Runs :
                          LET shown == EventsOf(Receipts([Everything EXCEPT !.surface = EventPrefix(r)]))
                          IN  /\ {e \in ToSet(shown) : e.run = r} = ToSet(refs[r])
                              /\ \A i, j \in DOMAIN shown :
                                    i < j /\ shown[i].run = r /\ shown[j].run = r =>
                                        shown[i].number > shown[j].number
                    /\ Summary = SummaryOf({ToReceipt(e) : e \in UNION {ToSet(refs[r]) : r \in Runs}})
  BY DEF ReceiptsAreComplete
<1>1. /\ stream \in Seq(Cell)
      /\ \A i \in LinesAt(stream) :
            /\ IsHead(i) /\ i \in Nat
            /\ stream[i].event.run \in Runs
            /\ stream[i].event \in ToSet(refs[stream[i].event.run])
      /\ \A r \in Runs : \A e \in ToSet(refs[r]) :
            \E i \in LinesAt(stream) : stream[i].event = e
  BY LinesAreAttested
<1>2. \A r \in Runs : \A e \in ToSet(refs[r]) :
         e.run = r /\ e.number \in Nat /\ e.surface = EventPrefix(r)
  <2>1. \A r \in Runs : \A n \in DOMAIN refs[r] :
           refs[r][n] \in EventType /\ refs[r][n].run = r /\ refs[r][n].surface = EventPrefix(r)
    BY DEF IInv, TypeOK, EvidenceInv, SurfaceOfRun
  <2>2. \A e \in EventType : e.number \in Nat
    BY DEF EventType
  <2> QED  BY <2>1, <2>2 DEF ToSet
<1>3. ASSUME Len(ReadEvents(stream)) <= Everything.limit, NEW r \in Runs
      PROVE  LET shown == EventsOf(Receipts([Everything EXCEPT !.surface = EventPrefix(r)]))
             IN  /\ {e \in ToSet(shown) : e.run = r} = ToSet(refs[r])
                 /\ \A i, j \in DOMAIN shown :
                       i < j /\ shown[i].run = r /\ shown[j].run = r =>
                           shown[i].number > shown[j].number
  <2> DEFINE query == [Everything EXCEPT !.surface = EventPrefix(r)]
             receipts == Receipts(query)
             shown == EventsOf(receipts)
  <2>1. /\ query.limit \in Nat /\ query.limit = Everything.limit
        /\ query.surface = EventPrefix(r) /\ query.decision = "any" /\ ~ query.violations
    BY DEF Everything
  <2> HIDE DEF query
  <2>2. /\ DOMAIN receipts = 1 .. Len(receipts)
        /\ \A k \in DOMAIN receipts : \E i \in LinesAt(stream) :
              receipts[k] = ToReceipt(stream[i].event)
        /\ \A i \in LinesAt(stream) : Matches(ToReceipt(stream[i].event), query) =>
              \E k \in DOMAIN receipts : receipts[k] = ToReceipt(stream[i].event)
        /\ \A k, l \in DOMAIN receipts : k < l =>
              \E i, j \in LinesAt(stream) :
                 /\ j < i
                 /\ receipts[k] = ToReceipt(stream[i].event)
                 /\ receipts[l] = ToReceipt(stream[j].event)
    <3> HIDE DEF Cell
    <3> QED  BY <1>1, <1>3, <2>1, ReceiptsOf
  <2> HIDE DEF receipts
  <2>3. DOMAIN shown = DOMAIN receipts /\ \A k \in DOMAIN shown : shown[k] = receipts[k].event
    BY DEF EventsOf
  <2> HIDE DEF shown
  <2>4. \A e : ToReceipt(e).event = e
    BY DEF ToReceipt
  <2>5. \A e \in ToSet(refs[r]) : Matches(ToReceipt(e), query)
    <3> SUFFICES ASSUME NEW e \in ToSet(refs[r]) PROVE Matches(ToReceipt(e), query)
      OBVIOUS
    <3>1. e.surface = EventPrefix(r) /\ EventPrefix(r) \in {"browser", "agent"}
      BY <1>2 DEF EventPrefix
    <3>2. ToReceipt(e).surface = EventPrefix(r)
      BY <3>1 DEF ToReceipt
    <3> QED  BY <2>1, <3>2 DEF Matches
  <2>6. ASSUME NEW k \in DOMAIN shown
        PROVE  \E i \in LinesAt(stream) : shown[k] = stream[i].event
    <3>1. PICK i \in LinesAt(stream) : receipts[k] = ToReceipt(stream[i].event)
      BY <2>2, <2>3
    <3> QED  BY <2>3, <2>4, <3>1
  <2>7. ASSUME NEW e \in ToSet(refs[r])
        PROVE  e \in ToSet(shown) /\ e.run = r
    <3>1. PICK i \in LinesAt(stream) : stream[i].event = e
      BY <1>1
    <3>2. PICK k \in DOMAIN receipts : receipts[k] = ToReceipt(stream[i].event)
      BY <2>2, <2>5, <3>1
    <3>3. k \in DOMAIN shown /\ shown[k] = e
      BY <2>3, <2>4, <3>1, <3>2
    <3> QED  BY <1>2, <3>3 DEF ToSet
  <2>8. ASSUME NEW e \in ToSet(shown), e.run = r
        PROVE  e \in ToSet(refs[r])
    <3>1. PICK k \in DOMAIN shown : shown[k] = e
      BY DEF ToSet
    <3>2. PICK i \in LinesAt(stream) : shown[k] = stream[i].event
      BY <2>6
    <3> QED  BY <1>1, <2>8, <3>1, <3>2
  <2>9. ASSUME NEW k \in DOMAIN shown, NEW l \in DOMAIN shown, k < l,
               shown[k].run = r, shown[l].run = r
        PROVE  shown[k].number > shown[l].number
    <3>1. PICK i \in LinesAt(stream), j \in LinesAt(stream) :
             /\ j < i
             /\ receipts[k] = ToReceipt(stream[i].event)
             /\ receipts[l] = ToReceipt(stream[j].event)
      BY <2>2, <2>3, <2>9
    <3>2. shown[k] = stream[i].event /\ shown[l] = stream[j].event
      BY <2>3, <2>4, <3>1
    <3>3. stream[j].event.number < stream[i].event.number
      BY <1>1, <2>9, <3>1, <3>2 DEF EvidenceInv, HeadsInOrder, IsHead
    <3>4. shown[k].number \in Nat /\ shown[l].number \in Nat
      BY <1>1, <1>2, <2>9, <3>2
    <3> QED  BY <3>2, <3>3, <3>4
  <2>10. {e \in ToSet(shown) : e.run = r} = ToSet(refs[r])
    BY <2>7, <2>8
  <2> QED  BY <2>9, <2>10 DEF shown, receipts, query
<1>4. ToSet(ReadEvents(stream)) = {ToReceipt(e) : e \in UNION {ToSet(refs[r]) : r \in Runs}}
  <2> DEFINE read == ReadEvents(stream)
             events == UNION {ToSet(refs[r]) : r \in Runs}
  <2>1. /\ \A k \in DOMAIN read : \E i \in LinesAt(stream) : read[k] = ToReceipt(stream[i].event)
        /\ \A i \in LinesAt(stream) : \E k \in DOMAIN read : read[k] = ToReceipt(stream[i].event)
    <3> HIDE DEF Cell
    <3> QED  BY <1>1, ReadOf
  <2> HIDE DEF read
  <2>2. ASSUME NEW x \in ToSet(read)
        PROVE  x \in {ToReceipt(e) : e \in events}
    <3>1. PICK k \in DOMAIN read : x = read[k]
      BY DEF ToSet
    <3>2. PICK i \in LinesAt(stream) : read[k] = ToReceipt(stream[i].event)
      BY <2>1
    <3>3. stream[i].event \in events
      BY <1>1
    <3> QED  BY <3>1, <3>2, <3>3
  <2>3. ASSUME NEW e \in events
        PROVE  ToReceipt(e) \in ToSet(read)
    <3>1. PICK i \in LinesAt(stream) : stream[i].event = e
      BY <1>1
    <3>2. PICK k \in DOMAIN read : read[k] = ToReceipt(stream[i].event)
      BY <2>1
    <3> QED  BY <3>1, <3>2 DEF ToSet
  <2> QED  BY <2>2, <2>3 DEF read
<1> QED  BY <1>3, <1>4 DEF Summary

-----------------------------------------------------------------------------
\* Type correctness, with the numbers of each run's events.
THEOREM Typed == Spec => []TypeOK
<1>1. IInv => TypeOK
  BY DEF IInv
<1> QED  BY <1>1, InvHolds, PTL

\* "A denied/injected action can NEVER put a frame on the wire": whatever is
\* asked, however the browser and the stream fail, a command is of a permit of
\* an allowed action, one at most of each; a socket goes to this machine only;
\* and the agent machine has only requests that were permitted.
THEOREM NothingDeniedActs == Spec => []ActsOnlyAsPermitted
<1>1. IInv => ActsOnlyAsPermitted
  <2> SUFFICES ASSUME IInv PROVE ActsOnlyAsPermitted
    OBVIOUS
  <2>1. socket # "none" => bidiUrl = "loopback"
    BY DEF IInv, SocketIsLocal
  <2>2. ASSUME NEW c \in Commands, c.method \notin SessionMethods
        PROVE  /\ c.of \in DOMAIN refs[Bridge]
               /\ refs[Bridge][c.of].type = "action"
               /\ refs[Bridge][c.of].decision = "permit"
               /\ refs[Bridge][c.of].class = "allowed"
               /\ c.method = Method(refs[Bridge][c.of].action)
               /\ \A d \in Commands : c.of = d.of => c.id = d.id
    <3>1. c.of \in Nat \ {0} /\ c.of <= Len(refs[Bridge])
      BY <2>2, CommandsAreTyped DEF Wire, IInv, SentAsPermitted
    <3>2. refs[Bridge] \in Seq(EventType)
      BY DEF IInv, RunsTyped, Runs
    <3>3. c.of \in DOMAIN refs[Bridge]
      BY <3>1, <3>2
    <3> QED  BY <3>1, <3>3 DEF IInv, SentAsPermitted
  <2>3. ASSUME NEW r \in Requests, upstream[r] # "none"
        PROVE  Len(refs[r]) = 1 /\ refs[r][1].decision = "permit" /\ pc[r] # "denied"
    BY <2>3 DEF IInv, RequestLife
  <2> QED  BY <2>1, <2>2, <2>3 DEF ActsOnlyAsPermitted
<1> QED  BY <1>1, InvHolds, PTL

\* An event says "dispatched" only of the command of the permit before it,
\* and only when the browser did it without an error: however answers are
\* late, pushed or lost in the middle of a frame.
THEOREM DispatchedIsDone == Spec => []DispatchedWasDone
<1>1. OutcomesInv => DispatchedWasDone
  BY DEF OutcomesInv
<1> QED  BY <1>1, OutcomesHold, PTL

\* Whenever the bridge is between two actions, or closing, each command that
\* left has its outcome in the event after its permit, also one that timed out
\* and one that could not be sent.
THEOREM CommandsHaveOutcomes == Spec => []CommandsAreAccountedFor
<1>1. IInv /\ OutcomesInv => CommandsAreAccountedFor
  <2> SUFFICES ASSUME IInv, OutcomesInv, pc[Bridge] \in {"ready", "closing", "ending"},
                      NEW c \in Commands, c.method \notin SessionMethods
               PROVE  /\ c.of + 1 \in DOMAIN refs[Bridge]
                      /\ refs[Bridge][c.of + 1].type \in {"dispatched", "error"}
                      /\ refs[Bridge][c.of + 1].command = c.id
    BY DEF CommandsAreAccountedFor
  <2>1. c.of # 0
    BY DEF IInv, SentAsPermitted
  <2>2. HasOutcome(c)
    BY <2>1 DEF OutcomesInv, OutcomesFollow, AwaitsOutcome
  <2> QED  BY <2>2, OutcomeFacts DEF HasOutcome, Outcomes
<1> QED  BY <1>1, OutcomesHold, PTL

\* The receipt of a run has the outcome of every command that ever left, and a
\* replay class no stronger than theirs, also after further actions: close
\* drops the client, so nothing leaves once a receipt is written.
THEOREM ReceiptIsComplete == Spec => []ReceiptCoversTheWire
<1>1. IInv /\ OutcomesInv => ReceiptCoversTheWire
  BY DEF ReceiptCoversTheWire, IInv, SentAsPermitted, OutcomesInv, ReceiptIsLast
<1> QED  BY <1>1, OutcomesHold, PTL

\* A follower gets what each run attests in the run's order and nothing
\* twice, whoever else writes, fails half way or follows.
THEOREM FollowersAreInOrder == Spec => []FollowersSeeRunsInOrder
<1>1. EvidenceInv => FollowersSeeRunsInOrder
  BY DEF EvidenceInv
<1> QED  BY <1>1, EvidenceHolds, PTL

\* What a follower misses of the receipts since it began are lines of which it
\* had read the first half.
THEOREM FollowersMissCutLines == Spec => []MissedOnlyWhatWasCut
<1>1. EvidenceInv => MissedOnlyWhatWasCut
  BY DEF EvidenceInv
<1> QED  BY <1>1, EvidenceHolds, PTL

\* Unless a write failed, and while the file has no more receipts than the
\* limit, /receipts has every event of every run, newest first and none twice,
\* also when it is asked for one surface only; the summary counts them all.
THEOREM ReceiptsShowEverything == Spec => []ReceiptsAreComplete
<1> QED  BY AllIsShown, EvidenceHolds, PTL
=============================================================================
