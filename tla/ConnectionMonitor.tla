-------------------------- MODULE ConnectionMonitor --------------------------
(***************************************************************************)
(* The connection monitor of the capture sidecar (netmon.rs, netmap.rs)    *)
(* and the handlers that share its map and its scope (server.rs).  A poll  *)
(* lists the system's connections, looks each one up, records it and sends *)
(* it, then reaps those it has not seen for a while; between any two of    *)
(* those steps handlers run.                                               *)
(*                                                                         *)
(* Time is the age of a record, up to one more than the grace period; past *)
(* it, which of two records is older is arbitrary.  Sending is a step here *)
(* and reaches nobody; BearNetPanel adds the subscriber.                   *)
(***************************************************************************)
EXTENDS Firewall

CONSTANTS
    Sockets,        \* connections by process and remote endpoint, loopback left out
    OfBrowser,      \* those of browser processes
    AddressOf,      \* the remote address of each
    Addresses,
    Names,          \* for each address, the labels dig may give: its owner, or itself
    Hosts,          \* the hosts the browser's hook reports
    MapClients,     \* /map and /scope requests that are handled at a time
    Cap,            \* records the map holds (2048)
    Grace,          \* age after which an unseen connection is reaped (25 s)
    NoLabel,
    NoRecord

Keys == Sockets \cup Labels     \* conn|... and host|...
Scopes == {"browser", "system"}
Ages == 0..(Grace + 1)
Records == [label : Labels, blocked : BOOLEAN, age : Ages]

ASSUME SocketAssumption ==
    /\ IsFiniteSet(Sockets) /\ IsFiniteSet(Labels) /\ Sockets \cap Labels = {}
    /\ OfBrowser \subseteq Sockets
    /\ AddressOf \in [Sockets -> Addresses]
    /\ Names \in [Addresses -> SUBSET Labels]
    /\ Hosts \subseteq Labels
ASSUME BoundAssumption == Cap \in Nat \ {0} /\ Grace \in Nat
ASSUME NoneAssumption == NoLabel \notin Keys /\ NoRecord \notin Records

VARIABLES
    open,       \* the established connections of the machine
    scope,      \* SharedScope
    conns,      \* NetworkMonitor.conns
    cache,      \* dns_cache of the poll
    poll,       \* the poll: where it is, and what it holds
    mapCall     \* each request: where it is, and its arguments

monitorVars == <<open, scope, conns, cache, poll, mapCall>>

\* want: the scope it read; rows: still to look up; seen: live_keys;
\* found: the record made for key; gone: keys to reap.
Asleep == [at |-> "asleep", want |-> "browser", rows |-> {}, seen |-> {},
           key |-> NoLabel, found |-> NoRecord, gone |-> {}]

Idle == [at |-> "none", scope |-> "browser", label |-> NoLabel, blocked |-> FALSE]

NoConns == [k \in Keys |-> NoRecord]
NoCache == [a \in Addresses |-> NoLabel]
NoCalls == [c \in MapClients |-> Idle]

MonitorInit ==
    /\ FirewallInit
    /\ open \in SUBSET Sockets
    /\ scope = "browser" /\ conns = NoConns /\ cache = NoCache
    /\ poll = Asleep /\ mapCall = NoCalls

Held == {k \in Keys : conns[k] # NoRecord}
HeldSockets == Held \cap Sockets

-----------------------------------------------------------------------------
(* The map.                                                                *)

Oldest == {k \in Held : \A j \in Held : conns[j].age <= conns[k].age}

\* Mutant: a key that is known is left as it is.
UpsertNew(k, r) ==
    IF k \in Held THEN UNCHANGED conns
    ELSE IF Cardinality(Held) >= Cap
         THEN \E v \in Oldest : conns' = [conns EXCEPT ![v] = NoRecord, ![k] = r]
         ELSE conns' = [conns EXCEPT ![k] = r]

\* At the cap a new key takes the place of one of the oldest.
Upsert(k, r) ==
    IF Cardinality(Held) >= Cap /\ k \notin Held
    THEN \E v \in Oldest : conns' = [conns EXCEPT ![v] = NoRecord, ![k] = r]
    ELSE conns' = [conns EXCEPT ![k] = r]

New(l, blocked) == [label |-> l, blocked |-> blocked, age |-> 0]
Blocks(l) == DecisionFor(l) = "block"

Tick ==
    /\ \E k \in Held : conns[k].age <= Grace
    /\ conns' = [k \in Keys |-> IF k \in Held /\ conns[k].age <= Grace
                                THEN [conns[k] EXCEPT !.age = @ + 1] ELSE conns[k]]
    /\ UNCHANGED <<firewallVars, open, scope, cache, poll, mapCall>>

\* A connection of the machine opens or ends.
SocketChanges(s) ==
    /\ open' = IF s \in open THEN open \ {s} ELSE open \cup {s}
    /\ UNCHANGED <<firewallVars, scope, conns, cache, poll, mapCall>>

-----------------------------------------------------------------------------
(* The poll.                                                               *)

PollOnly == UNCHANGED <<firewallVars, open, scope, conns, cache, mapCall>>

BeginPoll ==
    /\ poll.at = "asleep"
    /\ poll' = [poll EXCEPT !.at = "list", !.want = scope]
    /\ PollOnly

Wanted == IF poll.want = "browser" THEN open \cap OfBrowser ELSE open

\* Mutant: the scope is not looked at.
ListAll ==
    /\ poll.at = "list"
    /\ \E rows \in {open, {}} :
        poll' = [Asleep EXCEPT !.at = "walk", !.rows = rows, !.seen = rows]
    /\ PollOnly

\* lsof answers, or fails, which is an empty answer.
List ==
    /\ poll.at = "list"
    /\ \E rows \in {Wanted, {}} :
        poll' = [Asleep EXCEPT !.at = "walk", !.rows = rows, !.seen = rows]
    /\ PollOnly

\* dig, once for an address, then the rule for the label it gave.
LookUp(s) ==
    /\ poll.at = "walk" /\ s \in poll.rows
    /\ LockFree
    /\ \E l \in Names[AddressOf[s]] :
        /\ cache[AddressOf[s]] \in {NoLabel, l}
        /\ cache' = [cache EXCEPT ![AddressOf[s]] = l]
        /\ poll' = [poll EXCEPT !.at = "record", !.rows = @ \ {s}, !.key = s,
                                !.found = New(l, Blocks(l))]
    /\ UNCHANGED <<firewallVars, open, scope, conns, mapCall>>

Record ==
    /\ poll.at = "record"
    /\ Upsert(poll.key, poll.found)
    /\ poll' = [poll EXCEPT !.at = "send", !.found = NoRecord]
    /\ UNCHANGED <<firewallVars, open, scope, cache, mapCall>>

Announce ==
    /\ poll.at = "send"
    /\ poll' = [poll EXCEPT !.at = "walk", !.key = NoLabel]
    /\ PollOnly

\* Mutant: the age of a record is not looked at.
SnapshotUnseen ==
    /\ poll.at = "walk" /\ poll.rows = {}
    /\ poll' = [poll EXCEPT !.at = "reap", !.gone = HeldSockets \ poll.seen]
    /\ PollOnly

Snapshot ==
    /\ poll.at = "walk" /\ poll.rows = {}
    /\ poll' = [poll EXCEPT !.at = "reap",
                    !.gone = {k \in HeldSockets \ poll.seen : conns[k].age > Grace}]
    /\ PollOnly

\* Mutant: what is removed is not told.
ReapUntold(k) ==
    /\ poll.at = "reap" /\ k \in poll.gone
    /\ conns' = [conns EXCEPT ![k] = NoRecord]
    /\ poll' = [poll EXCEPT !.gone = @ \ {k}]
    /\ UNCHANGED <<firewallVars, open, scope, cache, mapCall>>

\* What has left the map meanwhile is not told.
Reap(k) ==
    /\ poll.at = "reap" /\ k \in poll.gone
    /\ conns' = [conns EXCEPT ![k] = NoRecord]
    /\ poll' = [poll EXCEPT !.gone = @ \ {k},
                            !.at = IF k \in Held THEN "close" ELSE "reap",
                            !.key = IF k \in Held THEN k ELSE NoLabel]
    /\ UNCHANGED <<firewallVars, open, scope, cache, mapCall>>

AnnounceClosed ==
    /\ poll.at = "close"
    /\ poll' = [poll EXCEPT !.at = "reap", !.key = NoLabel]
    /\ PollOnly

Sleep ==
    /\ poll.at = "reap" /\ poll.gone = {}
    /\ poll' = Asleep
    /\ PollOnly

-----------------------------------------------------------------------------
(* The handlers.                                                           *)

Call(c, call) == mapCall[c] = Idle /\ mapCall' = [mapCall EXCEPT ![c] = call]
Return(c) == mapCall' = [mapCall EXCEPT ![c] = Idle]
CallOnly == UNCHANGED <<firewallVars, open, scope, conns, cache, poll>>

AskScope(c, s) == Call(c, [Idle EXCEPT !.at = "scope", !.scope = s]) /\ CallOnly

SetScope(c) ==
    /\ mapCall[c].at = "scope"
    /\ scope' = mapCall[c].scope
    /\ mapCall' = [mapCall EXCEPT ![c] = [Idle EXCEPT !.at = "clear"]]
    /\ UNCHANGED <<firewallVars, open, conns, cache, poll>>

AskClear(c) == Call(c, [Idle EXCEPT !.at = "clear"]) /\ CallOnly

\* The end of scope_set, and map_clear.
ClearMap(c) ==
    /\ mapCall[c].at = "clear"
    /\ conns' = NoConns
    /\ Return(c)
    /\ UNCHANGED <<firewallVars, open, scope, cache, poll>>

\* The browser's hook reports a request it made.
ReportHost(c, h) == Call(c, [Idle EXCEPT !.at = "decide", !.label = Etld[h]]) /\ CallOnly

DecideHost(c) ==
    /\ mapCall[c].at = "decide"
    /\ LockFree
    /\ mapCall' = [mapCall EXCEPT ![c].at = "record", ![c].blocked = Blocks(mapCall[c].label)]
    /\ CallOnly

RecordHost(c) ==
    /\ mapCall[c].at = "record"
    /\ Upsert(mapCall[c].label, New(mapCall[c].label, mapCall[c].blocked))
    /\ mapCall' = [mapCall EXCEPT ![c].at = "send", ![c].blocked = FALSE]
    /\ UNCHANGED <<firewallVars, open, scope, cache, poll>>

SendHost(c) ==
    /\ mapCall[c].at = "send"
    /\ Return(c)
    /\ CallOnly

\* The sidecar is killed and started again.
Restart ==
    /\ ReloadRules
    /\ scope' = "browser" /\ conns' = NoConns /\ cache' = NoCache
    /\ poll' = Asleep /\ mapCall' = NoCalls
    /\ UNCHANGED open

-----------------------------------------------------------------------------
RuleAction == (\E c \in RuleClients : RuleStep(c)) /\ UNCHANGED monitorVars

\* The steps that say nothing to a subscriber.
QuietPollStep ==
    BeginPoll \/ List \/ Record \/ Snapshot \/ Sleep \/ \E s \in Sockets : LookUp(s) \/ Reap(s)

QuietCallStep ==
    \E c \in MapClients :
        \/ SetScope(c) \/ AskClear(c) \/ ClearMap(c) \/ DecideHost(c) \/ RecordHost(c)
        \/ \E h \in Hosts : ReportHost(c, h)

MachineStep == Tick \/ \E s \in Sockets : SocketChanges(s)

MonitorNext ==
    \/ RuleAction \/ QuietPollStep \/ QuietCallStep \/ MachineStep
    \/ Announce \/ AnnounceClosed \/ Restart
    \/ \E c \in MapClients : SendHost(c) \/ \E s \in Scopes : AskScope(c, s)

vars == <<firewallVars, monitorVars>>

PollStep == QuietPollStep \/ Announce \/ AnnounceClosed
Save == (\E c \in RuleClients : SaveStep(c)) /\ UNCHANGED monitorVars

\* The poll runs on: lsof and dig return, although lsof has no time limit.  It
\* may have to wait for the rules' lock more than once.
\* A save ends, and time passes.
Fairness == SF_vars(PollStep) /\ WF_vars(Save) /\ WF_vars(Tick)

MonitorSpec == MonitorInit /\ [][MonitorNext]_vars
FairMonitorSpec == MonitorSpec /\ Fairness

-----------------------------------------------------------------------------
Polls == [at : {"asleep", "list", "walk", "record", "send", "reap", "close"},
          want : Scopes, rows : SUBSET Sockets, seen : SUBSET Sockets,
          key : Sockets \cup {NoLabel}, found : Records \cup {NoRecord},
          gone : SUBSET Sockets]

MapCalls == [at : {"none", "scope", "clear", "decide", "record", "send"},
             scope : Scopes, label : Labels \cup {NoLabel}, blocked : BOOLEAN]

\* The types, and the bound of the map.
MonitorTypeOK ==
    /\ open \subseteq Sockets
    /\ scope \in Scopes
    /\ conns \in [Keys -> Records \cup {NoRecord}]
    /\ cache \in [Addresses -> Labels \cup {NoLabel}]
    /\ poll \in Polls
    /\ mapCall \in [MapClients -> MapCalls]
    /\ Cardinality(Held) <= Cap

\* What the poll reaps was not listed by this poll and has not been recorded for
\* longer than the grace period, also at the moment it is removed and not only
\* when the snapshot was taken (netmon.rs, the reaping loop).  What is live is
\* what lsof lists: when it fails for longer than that, everything is reaped.
NothingLiveIsReaped ==
    [][ \A k \in Sockets : poll.at = "reap" /\ poll'.at = "close" /\ poll'.key = k =>
            conns[k].age > Grace /\ k \notin poll.seen ]_vars

\* A connection that has ended for good leaves the map for good, and so does,
\* once the scope stays with the browser, another program's, although polls of
\* the old scope may still be under way (netmon.rs: "then it fades").
ClosedConnectionsFade ==
    \A k \in Sockets :
        (<>[](k \notin open) \/ (k \notin OfBrowser /\ <>[](scope = "browser")))
            => <>[](k \notin Held)

\* When the rules no longer change, what the map says of every connection that
\* the poll reports agrees with them, in the end (netmon.rs, blocked).
FlagsFollowTheRules ==
    <>[][FALSE]_rules => <>[](\A k \in HeldSockets : conns[k].blocked = Blocks(conns[k].label))

\* After a change of scope the map has connections of the new scope only
\* (server.rs, the comment of scope_set).  Violated: a poll that began under
\* the old scope records what it has listed after the map was cleared.
GraphRepopulatesCleanly ==
    scope = "browser" /\ (\A c \in MapClients : mapCall[c].at # "clear")
        => HeldSockets \subseteq OfBrowser

\* A rule on the label a connection is shown by matches that connection
\* (server.rs, the comment of fw_set).  Violated: the label may be an address,
\* of which the rule keeps the last two parts.
RulesReachTheirConnections ==
    LockFree => \A k \in HeldSockets :
        meant[Etld[conns[k].label]] = "block" => Blocks(conns[k].label)
=============================================================================
