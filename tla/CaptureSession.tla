--------------------------- MODULE CaptureSession ---------------------------
(***************************************************************************)
(* The packet capture of capture-sidecar (server.rs, capture.rs): one slot *)
(* behind a mutex holds the running session; handlers of concurrent        *)
(* requests pass the gate, then start, stop or save it; the events bus     *)
(* tells the panel.                                                        *)
(*                                                                         *)
(* A handler is a future that waits for the gate, and a stop also for the  *)
(* engine's exit.  When its client disconnects the future is dropped where *)
(* it waits, with what it owns: a dropped session kills its engine         *)
(* (kill_on_drop).  A session is named by the request that started it.     *)
(***************************************************************************)
EXTENDS PolicyGate, Sequences, FiniteSets

CONSTANTS
    Req,            \* requests, each sent once
    NoReq,
    Asked,          \* the commands requests carry
    MaxCrashes      \* bound: times the sidecar ends and is started again

ASSUME NoReqAssumption == NoReq \notin Req
ASSUME AskedAssumption == Asked \subseteq Commands /\ MaxCrashes \in Nat

VARIABLES
    pc,         \* where each request is
    command,    \* what it asks
    ending,     \* the session a stop has taken out of the slot
    session,    \* the slot: the running session
    engine,     \* the capture engine of each session
    saved,      \* for each save, the session it wrote to disk
    events,     \* CaptureState events sent on the bus
    orphans,    \* sessions of a sidecar that was killed
    crashes

vars == <<pc, command, ending, session, engine, saved, events, orphans, crashes>>

-----------------------------------------------------------------------------
NoCommand == [action |-> "capture-stop", actor |-> "agent", gesture |-> FALSE, token |-> "none"]

Init ==
    /\ pc = [r \in Req |-> "unsent"]
    /\ command = [r \in Req |-> NoCommand]
    /\ ending = [r \in Req |-> NoReq]
    /\ session = NoReq
    /\ engine = [r \in Req |-> "none"]
    /\ saved = [r \in Req |-> NoReq]
    /\ events = <<>>
    /\ orphans = {}
    /\ crashes = 0

Send(r, c) ==
    /\ pc[r] = "unsent"
    /\ pc' = [pc EXCEPT ![r] = "gate"]
    /\ command' = [command EXCEPT ![r] = c]
    /\ UNCHANGED <<ending, session, engine, saved, events, orphans, crashes>>

-----------------------------------------------------------------------------
(* The gate answers, and the handler goes on with the slot locked.         *)

Answer(r, to) ==
    /\ pc[r] = "gate"
    /\ pc' = [pc EXCEPT ![r] = to]
    /\ UNCHANGED <<command, orphans, crashes>>

Permit(r, action) ==
    /\ command[r].action = action
    /\ \E reply \in Replies(command[r]) : Permitted(reply)

Deny(r) ==
    /\ \E reply \in Replies(command[r]) : ~Permitted(reply)
    /\ Answer(r, "denied")
    /\ UNCHANGED <<ending, session, engine, saved, events>>

\* 409, 503 and 500: a capture is running, no engine, the engine does not start.
StartFails(r) ==
    /\ Permit(r, "capture-start")
    /\ Answer(r, "failed")
    /\ UNCHANGED <<ending, session, engine, saved, events>>

StartSession(r) ==
    /\ Permit(r, "capture-start")
    /\ session = NoReq
    /\ Answer(r, "replied")
    /\ session' = r
    /\ engine' = [engine EXCEPT ![r] = "capturing"]
    /\ events' = Append(events, [of |-> r, running |-> TRUE])
    /\ UNCHANGED <<ending, saved>>

\* start_kill; the lock is released before the exit is waited for.
Kill(s) == engine' = [engine EXCEPT ![s] = IF @ = "capturing" THEN "killed" ELSE @]

\* Mutant: the engine is not killed.
StopWithoutKill(r) ==
    /\ Permit(r, "capture-stop")
    /\ session # NoReq
    /\ Answer(r, "stopping")
    /\ session' = NoReq
    /\ ending' = [ending EXCEPT ![r] = session]
    /\ UNCHANGED <<engine, saved, events>>

StopSession(r) ==
    /\ Permit(r, "capture-stop")
    /\ session # NoReq
    /\ Answer(r, "stopping")
    /\ session' = NoReq
    /\ ending' = [ending EXCEPT ![r] = session]
    /\ Kill(session)
    /\ UNCHANGED <<saved, events>>

StopNothing(r) ==
    /\ Permit(r, "capture-stop")
    /\ session = NoReq
    /\ Answer(r, "replied")
    /\ UNCHANGED <<ending, session, engine, saved, events>>

SaveSession(r) ==
    /\ Permit(r, "capture-export")
    /\ session # NoReq
    /\ Answer(r, "replied")
    /\ saved' = [saved EXCEPT ![r] = session]
    /\ UNCHANGED <<ending, session, engine, events>>

\* 400 and 500: no capture to save, the file cannot be written.
SaveFails(r) ==
    /\ Permit(r, "capture-export")
    /\ Answer(r, "failed")
    /\ UNCHANGED <<ending, session, engine, saved, events>>

\* Mutant: the end is told before the engine has exited.
StoppedEarly(r) ==
    /\ pc[r] = "stopping"
    /\ pc' = [pc EXCEPT ![r] = "replied"]
    /\ events' = Append(events, [of |-> ending[r], running |-> FALSE])
    /\ UNCHANGED <<command, ending, session, engine, saved, orphans, crashes>>

\* The engine has exited: the end of Session::stop.
Stopped(r) ==
    /\ pc[r] = "stopping"
    /\ engine[ending[r]] = "exited"
    /\ pc' = [pc EXCEPT ![r] = "replied"]
    /\ events' = Append(events, [of |-> ending[r], running |-> FALSE])
    /\ UNCHANGED <<command, ending, session, engine, saved, orphans, crashes>>

\* The client disconnects while its handler waits.
Disconnect(r) ==
    /\ pc[r] \in {"gate", "stopping"}
    /\ pc' = [pc EXCEPT ![r] = "dropped"]
    /\ UNCHANGED <<command, ending, session, engine, saved, events, orphans, crashes>>

-----------------------------------------------------------------------------
(* The engine's process, and the sidecar's.                                *)

\* An engine ends by itself, or because it was killed.
EngineExits(s) ==
    /\ engine[s] \in {"capturing", "killed"}
    /\ engine' = [engine EXCEPT ![s] = "exited"]
    /\ UNCHANGED <<pc, command, ending, session, saved, events, orphans, crashes>>

DropHandlers ==
    pc' = [r \in Req |-> IF pc[r] \in {"gate", "stopping"} THEN "dropped" ELSE pc[r]]

\* Ctrl-C: main returns and drops the slot, with its session.
ShutDown ==
    /\ crashes < MaxCrashes
    /\ crashes' = crashes + 1
    /\ DropHandlers
    /\ session' = NoReq
    /\ engine' = [s \in Req |-> IF engine[s] = "capturing" /\ s \notin orphans
                                THEN "killed" ELSE engine[s]]
    /\ events' = <<>>
    /\ UNCHANGED <<command, ending, saved, orphans>>

\* Killed: nothing is dropped, and the engine goes on.
Crash ==
    /\ crashes < MaxCrashes
    /\ crashes' = crashes + 1
    /\ DropHandlers
    /\ session' = NoReq
    /\ orphans' = orphans \cup ({session} \ {NoReq})
    /\ events' = <<>>
    /\ UNCHANGED <<command, ending, engine, saved>>

-----------------------------------------------------------------------------
Handle(r) ==
    \/ Deny(r)
    \/ StartSession(r) \/ StartFails(r)
    \/ StopSession(r) \/ StopNothing(r) \/ Stopped(r)
    \/ SaveSession(r) \/ SaveFails(r)

Next ==
    \/ \E r \in Req : \/ \E c \in Asked : Send(r, c)
                      \/ Handle(r)
                      \/ Disconnect(r)
                      \/ EngineExits(r)
    \/ ShutDown
    \/ Crash

Spec == Init /\ [][Next]_vars

\* A killed process exits, and a handler that can go on does.
FairSpec ==
    /\ Spec
    /\ \A r \in Req : /\ WF_vars(Handle(r))
                      /\ WF_vars(engine[r] = "killed" /\ EngineExits(r))

-----------------------------------------------------------------------------
(* Properties.                                                             *)

TypeOK ==
    /\ pc \in [Req -> {"unsent", "gate", "stopping", "replied", "denied",
                       "failed", "dropped"}]
    /\ command \in [Req -> Commands]
    /\ ending \in [Req -> Req \cup {NoReq}]
    /\ session \in Req \cup {NoReq}
    /\ engine \in [Req -> {"none", "capturing", "killed", "exited"}]
    /\ saved \in [Req -> Req \cup {NoReq}]
    /\ events \in Seq([of : Req, running : BOOLEAN])
    /\ orphans \subseteq Req
    /\ crashes \in 0..MaxCrashes

\* "The single active capture session": a capture this sidecar started and
\* has not ended is the one in the slot, where a stop finds it, whatever
\* requests race, are denied or lose their client.
CaptureIsInTheSlot ==
    \A s \in Req : engine[s] = "capturing" /\ s \notin orphans => session = s

\* Starting, stopping and saving a capture were permitted: a start and an
\* export by a gesture and a token, a stop by a token.
EffectsArePermitted ==
    \A r \in Req :
        (engine[r] # "none" \/ ending[r] # NoReq \/ saved[r] # NoReq)
            => BridgePermits(command[r])

\* The bus tells of a session's end once, after its start, and only when its
\* engine has exited; a session that was started has been told of.
EventsTellTheLife ==
    /\ \A i \in DOMAIN events :
          \A j \in DOMAIN events :
              events[i].of = events[j].of /\ i < j
                  => events[i].running /\ ~events[j].running
    /\ \A i \in DOMAIN events : ~events[i].running =>
          /\ engine[events[i].of] = "exited"
          /\ events[i].of # session
    /\ session # NoReq => \E i \in DOMAIN events : events[i].of = session

\* A stop that has taken a session out of the slot ends its capture, even
\* when its client goes away or the sidecar does.
StopEndsTheCapture ==
    \A r, s \in Req : ending[r] = s ~> engine[s] = "exited"

\* The CaptureState events are "lifecycle transitions, so the panel can update
\* its controls": when every request has had its reply, the last one says
\* whether there is a capture.
PanelFollowsTheCapture ==
    (/\ events # <<>>
     /\ \A r \in Req : pc[r] \notin {"gate", "stopping", "dropped"})
        => (events[Len(events)].running <=> session # NoReq)
=============================================================================
