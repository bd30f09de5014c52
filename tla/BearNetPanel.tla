---------------------------- MODULE BearNetPanel ----------------------------
(***************************************************************************)
(* The BearNet panel (bearnet.html) with the connection monitor: it reads  *)
(* the map once, when it is opened, and from then on follows the events of *)
(* a WebSocket (ws_loop in server.rs), which it connects again when it is  *)
(* lost.  Its own scope button empties it before it asks for the scope.    *)
(*                                                                         *)
(* queue stands for the channel of the subscriber and for what is on its   *)
(* way in the socket, so what is skipped when the channel is full may be   *)
(* anywhere in it.                                                         *)
(***************************************************************************)
EXTENDS ConnectionMonitor, Sequences, SequencesExt

CONSTANT Capacity       \* events a subscriber may be behind (1024)

ASSUME CapacityAssumption == Capacity \in Nat \ {0}

VARIABLES
    shown,      \* conns of the panel, by key
    reply,      \* GET /map: none, asked, or on its way with the keys it read
    socket,     \* the WebSocket is up
    queue,      \* events on their way to the panel
    untold      \* history: keys that left the map and whose end the panel is not told

panelVars == <<shown, reply, socket, queue, untold>>
allVars == <<vars, panelVars>>

Events == [kind : {"connection", "closed"}, key : Keys]
Open(k) == [kind |-> "connection", key |-> k]
Closed(k) == [kind |-> "closed", key |-> k]

NoReply == [at |-> "none", keys |-> {}]

PanelInit ==
    /\ MonitorInit
    /\ shown = {} /\ reply = NoReply
    /\ socket = FALSE /\ queue = <<>> /\ untold = {}

Told(q) == {k \in Keys : \E i \in DOMAIN q : q[i] = Closed(k)}

-----------------------------------------------------------------------------
(* What the monitor does, and what reaches the panel of it.                *)

\* Nothing is sent: what leaves the map is untold, what enters it starts afresh.
Unheard ==
    /\ untold' = (untold \cup Held) \ Held'
    /\ UNCHANGED <<shown, reply, socket, queue>>

QuietStep == (RuleAction \/ MachineStep \/ QuietCallStep) /\ Unheard

PollQuietly ==
    /\ BeginPoll \/ List \/ Record \/ Snapshot \/ Sleep \/ \E s \in Sockets : LookUp(s)
    /\ Unheard

\* Removed by the poll, which tells it next.
ReapStep ==
    /\ \E s \in Sockets : Reap(s)
    /\ UNCHANGED panelVars

\* events.send: a full channel forgets one event, no subscriber forgets all.
Skip(e) == untold' = untold \cup (Told(<<e>>) \ Held)

Send(e) ==
    /\ UNCHANGED <<shown, reply, socket>>
    /\ \/ /\ ~socket
          /\ Skip(e)
          /\ UNCHANGED queue
       \/ /\ socket /\ Len(queue) < Capacity
          /\ queue' = Append(queue, e)
          /\ UNCHANGED untold
       \/ /\ socket /\ Len(queue) = Capacity
          /\ \E i \in DOMAIN queue :
                /\ queue' = Append(RemoveAt(queue, i), e)
                /\ Skip(queue[i])

AnnounceStep == Announce /\ Send(Open(poll.key))
CloseStep == AnnounceClosed /\ Send(Closed(poll.key))
PollInPanel == PollQuietly \/ ReapStep \/ AnnounceStep \/ CloseStep

HostStep == \E c \in MapClients : SendHost(c) /\ Send(Open(mapCall[c].label))

\* The sockets end with the sidecar; a reply already sent may still come.
RestartStep ==
    /\ Restart
    /\ socket' = FALSE /\ queue' = <<>>
    /\ reply' = IF reply.at = "asked" THEN NoReply ELSE reply
    /\ untold' = untold \cup Held \cup Told(queue)
                    \cup IF poll.at = "close" THEN {poll.key} ELSE {}
    /\ UNCHANGED shown

-----------------------------------------------------------------------------
(* The panel.                                                              *)

\* What a poll or a handler has recorded and not sent yet.
Unsent == {k \in Keys : \/ poll.at = "send" /\ poll.key = k
                        \/ \E c \in MapClients : mapCall[c].at = "send" /\ mapCall[c].label = k}

\* The panel is opened, or loaded again; a link may ask for the system scope.
OpenPanel ==
    /\ shown' = {} /\ socket' = FALSE /\ queue' = <<>>
    /\ reply' = [at |-> "asked", keys |-> {}]
    /\ untold' = untold \cap Unsent
    /\ UNCHANGED vars \/ \E c \in MapClients : AskScope(c, "system")

ReadMap ==
    /\ reply.at = "asked"
    /\ reply' = [at |-> "sent", keys |-> Held]
    /\ UNCHANGED <<vars, shown, socket, queue, untold>>

ReplyFails ==
    /\ reply.at # "none"
    /\ reply' = NoReply
    /\ UNCHANGED <<vars, shown, socket, queue, untold>>

ShowMap ==
    /\ reply.at = "sent"
    /\ shown' = shown \cup reply.keys
    /\ reply' = NoReply
    /\ UNCHANGED <<vars, socket, queue, untold>>

Connect ==
    /\ ~socket
    /\ socket' = TRUE
    /\ UNCHANGED <<vars, shown, reply, queue, untold>>

Disconnect ==
    /\ socket
    /\ socket' = FALSE /\ queue' = <<>>
    /\ untold' = untold \cup (Told(queue) \ Held)
    /\ UNCHANGED <<vars, shown, reply>>

\* addConn, closeConn.  A reply that was read before the end shows it again.
Receive ==
    /\ queue # <<>>
    /\ queue' = Tail(queue)
    /\ LET k == Head(queue).key IN
        IF Head(queue).kind = "connection"
        THEN shown' = shown \cup {k} /\ UNCHANGED untold
        ELSE /\ shown' = shown \ {k}
             /\ untold' = untold \cup ((reply.keys \cap {k}) \ Held)
    /\ UNCHANGED <<vars, reply, socket>>

\* A click on a scope empties the panel, then posts.
ClickScope ==
    /\ \E c \in MapClients, s \in Scopes : AskScope(c, s)
    /\ shown' = {}
    /\ UNCHANGED <<reply, socket, queue, untold>>

PanelNext ==
    \/ QuietStep \/ PollInPanel \/ HostStep \/ RestartStep
    \/ OpenPanel \/ ReadMap \/ ReplyFails \/ ShowMap \/ Connect \/ Disconnect \/ Receive
    \/ ClickScope

PanelSpec == PanelInit /\ [][PanelNext]_allVars

\* As for the monitor; what is sent to the panel arrives.
FairPanelSpec ==
    /\ PanelSpec
    /\ SF_allVars(PollInPanel) /\ WF_allVars(Tick /\ Unheard)
    /\ WF_allVars(Connect) /\ WF_allVars(Receive) /\ WF_allVars(ShowMap)

-----------------------------------------------------------------------------
PanelTypeOK ==
    /\ shown \subseteq Keys
    /\ reply \in [at : {"none", "asked", "sent"}, keys : SUBSET Keys]
    /\ socket \in BOOLEAN
    /\ queue \in Seq(Events) /\ Len(queue) <= Capacity
    /\ untold \subseteq Keys

\* The last thing on its way about k is its end.
EndIsComing(k) ==
    \/ poll.at = "close" /\ poll.key = k
    \/ \E i \in DOMAIN queue :
        queue[i] = Closed(k) /\ \A j \in DOMAIN queue : queue[j] = Open(k) => j < i

\* A connection the panel shows and the monitor has forgotten is about to be
\* closed, unless its end could not be told: it was evicted or cleared, or the
\* event was skipped, lost with its socket or overtaken by an older reply.
\* In particular the poll itself never leaves one (netmon.rs, bearnet.html).
GhostsHaveACause == \A k \in (shown \ Held) \ untold : EndIsComing(k)

\* A connection that has ended for good fades from the panel (netmon.rs, the
\* comment on the grace period; model.rs, ConnectionClosed).  Violated: the
\* panel that connects after its map was read, or connects again, does not read
\* the map again, so it keeps what ended meanwhile.
PanelFades ==
    \A k \in Sockets : <>[](k \notin open) /\ <>[]socket => <>[](k \notin shown)
=============================================================================
