------------------------ MODULE CaptureSessionProofs ------------------------
(***************************************************************************)
(* The safety of the capture sidecar, for any number of requests and of    *)
(* ends of the sidecar: that there is one capture and it can be stopped,   *)
(* that nothing happens without a permit, and what the events tell.        *)
(***************************************************************************)
EXTENDS CaptureSession, TLAPS

-----------------------------------------------------------------------------
(* The inductive invariant.                                                *)

Started(s) == pc[s] \notin {"unsent", "gate"}

\* A request that is not sent has done nothing.
UnsentDidNothing ==
    \A r \in Req : pc[r] = "unsent" =>
        engine[r] = "none" /\ ending[r] = NoReq /\ saved[r] = NoReq

\* What is in the slot, taken out of it or told of was started.
OnlyStarted ==
    /\ session # NoReq => Started(session)
    /\ \A r \in Req : ending[r] # NoReq => Started(ending[r])
    /\ \A i \in DOMAIN events : Started(events[i].of)

\* A session is taken out of the slot once, and does not come back.
EndedByOne ==
    /\ \A r \in Req : ending[r] # NoReq => ending[r] # session
    /\ \A r, q \in Req : ending[r] = ending[q] /\ ending[r] # NoReq => r = q

\* A session that is being ended has not been told to have ended.
EndIsUntold ==
    \A r \in Req : pc[r] = "stopping" =>
        /\ ending[r] # NoReq
        /\ \A i \in DOMAIN events : events[i].of = ending[r] => events[i].running

IInv ==
    /\ TypeOK
    /\ CaptureIsInTheSlot
    /\ EffectsArePermitted
    /\ EventsTellTheLife
    /\ UnsentDidNothing
    /\ OnlyStarted
    /\ EndedByOne
    /\ EndIsUntold

-----------------------------------------------------------------------------
\* What the gate believes is a permit of the bridge: nothing that can go wrong
\* with the subprocess permits.
LEMMA PermittedIsDecided ==
    ASSUME NEW c \in Commands, NEW reply \in Replies(c), Permitted(reply)
    PROVE  BridgePermits(c)
<1>1. reply \in {AnswerOf(c), Reply(1, "nothing"), Reply(1, AnswerOf(c).says)}
  BY DEF Replies, MainReplies
<1>2. reply = AnswerOf(c)
  BY <1>1 DEF Permitted, Reply
<1> QED  BY <1>2 DEF AnswerOf, Permitted, Reply

\* An event more.
LEMMA AppendedEvent ==
    ASSUME NEW S, NEW seq \in Seq(S), NEW e \in S
    PROVE  /\ Append(seq, e) \in Seq(S)
           /\ DOMAIN Append(seq, e) = DOMAIN seq \cup {Len(seq) + 1}
           /\ DOMAIN seq = 1 .. Len(seq) /\ Len(seq) \in Nat
           /\ Append(seq, e)[Len(seq) + 1] = e
           /\ \A i \in DOMAIN seq : Append(seq, e)[i] = seq[i]
OBVIOUS

LEMMA ElementOfSequence ==
    ASSUME NEW S, NEW seq \in Seq(S), NEW i \in DOMAIN seq
    PROVE  seq[i] \in S
OBVIOUS

LEMMA EventsOfRequests ==
    ASSUME IInv
    PROVE  \A i \in DOMAIN events : events[i].of \in Req /\ events[i].running \in BOOLEAN
<1>1. events \in Seq([of : Req, running : BOOLEAN])
  BY DEF IInv, TypeOK
<1>2. ASSUME NEW i \in DOMAIN events
      PROVE  events[i] \in [of : Req, running : BOOLEAN]
  BY <1>1, ElementOfSequence
<1> QED  BY <1>2

LEMMA InitIInv == Init => IInv
BY NoReqAssumption, AskedAssumption
   DEF Init, IInv, TypeOK, CaptureIsInTheSlot, EffectsArePermitted, EventsTellTheLife,
       UnsentDidNothing, OnlyStarted, EndedByOne, EndIsUntold, NoCommand, Commands,
       CaptureActions, Scopes

-----------------------------------------------------------------------------
(* A step that leaves the slot, the engines, the stops and the events: only *)
(* a request moves on, or sends its command, or saves.                     *)
LEMMA QuietStep ==
    ASSUME IInv, TypeOK', UNCHANGED <<session, engine, ending, events, orphans>>,
           \A s \in Req : Started(s) => Started(s)',
           \A s \in Req : pc'[s] = "stopping" => pc[s] = "stopping",
           \A s \in Req : pc'[s] = "unsent" => pc[s] = "unsent" /\ saved'[s] = saved[s],
           EffectsArePermitted'
    PROVE  IInv'
<1>1. CaptureIsInTheSlot'
  BY DEF IInv, CaptureIsInTheSlot
<1>2. EventsTellTheLife'
  BY DEF IInv, EventsTellTheLife
<1>3. UnsentDidNothing'
  BY DEF IInv, UnsentDidNothing
<1>4. OnlyStarted'
  <2>1. session # NoReq => session \in Req
    BY DEF IInv, TypeOK
  <2>2. \A r \in Req : ending[r] # NoReq => ending[r] \in Req
    BY DEF IInv, TypeOK
  <2>3. \A i \in DOMAIN events : events[i].of \in Req
    BY EventsOfRequests
  <2> QED  BY <2>1, <2>2, <2>3 DEF IInv, OnlyStarted
<1>5. EndedByOne'
  BY DEF IInv, EndedByOne
<1>6. EndIsUntold'
  BY DEF IInv, EndIsUntold
<1> QED  BY <1>1, <1>2, <1>3, <1>4, <1>5, <1>6 DEF IInv

LEMMA SendStep ==
    ASSUME IInv, NEW r \in Req, NEW c \in Asked, Send(r, c)
    PROVE  IInv'
<1>1. TypeOK'
  BY AskedAssumption DEF IInv, TypeOK, Send
<1>2. EffectsArePermitted'
  BY DEF IInv, TypeOK, Send, EffectsArePermitted, UnsentDidNothing
<1> QED  BY <1>1, <1>2, QuietStep DEF IInv, TypeOK, Send, Started

LEMMA FailedRequest ==
    ASSUME IInv, NEW r \in Req,
           \/ Deny(r) \/ StartFails(r) \/ SaveFails(r) \/ StopNothing(r) \/ Disconnect(r)
    PROVE  IInv'
<1>1. TypeOK'
  BY DEF IInv, TypeOK, Deny, StartFails, SaveFails, StopNothing, Disconnect, Answer
<1>2. EffectsArePermitted'
  BY DEF IInv, TypeOK, Deny, StartFails, SaveFails, StopNothing, Disconnect, Answer,
         EffectsArePermitted
<1> QED  BY <1>1, <1>2, QuietStep
         DEF IInv, TypeOK, Deny, StartFails, SaveFails, StopNothing, Disconnect, Answer, Started

LEMMA SaveStep ==
    ASSUME IInv, NEW r \in Req, SaveSession(r)
    PROVE  IInv'
<1>1. TypeOK'
  BY DEF IInv, TypeOK, SaveSession, Answer
<1>2. BridgePermits(command[r])
  BY PermittedIsDecided DEF IInv, TypeOK, SaveSession, Permit
<1>3. EffectsArePermitted'
  BY <1>2 DEF IInv, TypeOK, SaveSession, Answer, EffectsArePermitted
<1> QED  BY <1>1, <1>3, QuietStep DEF IInv, TypeOK, SaveSession, Answer, Started

-----------------------------------------------------------------------------
(* A capture begins.                                                       *)
LEMMA StartStep ==
    ASSUME IInv, NEW r \in Req, StartSession(r)
    PROVE  IInv'
<1> DEFINE e == [of |-> r, running |-> TRUE]
<1>1. events \in Seq([of : Req, running : BOOLEAN]) /\ e \in [of : Req, running : BOOLEAN]
  BY DEF IInv, TypeOK
<1>2. /\ events' \in Seq([of : Req, running : BOOLEAN])
      /\ DOMAIN events' = DOMAIN events \cup {Len(events) + 1}
      /\ DOMAIN events = 1 .. Len(events) /\ Len(events) \in Nat
      /\ events'[Len(events) + 1] = e
      /\ \A i \in DOMAIN events : events'[i] = events[i]
  BY <1>1, AppendedEvent DEF StartSession
<1>3. /\ pc[r] = "gate" /\ pc' = [pc EXCEPT ![r] = "replied"]
      /\ session = NoReq /\ session' = r
      /\ engine' = [engine EXCEPT ![r] = "capturing"]
      /\ UNCHANGED <<command, ending, saved, orphans, crashes>>
  BY DEF StartSession, Answer
<1>4. TypeOK'
  BY <1>2, <1>3 DEF IInv, TypeOK
<1>5. \A i \in DOMAIN events : events[i].of # r
  BY <1>3 DEF IInv, OnlyStarted, Started
<1>6. \A q \in Req : ending[q] # r
  BY <1>3, NoReqAssumption DEF IInv, OnlyStarted, Started
<1>7. CaptureIsInTheSlot'
  BY <1>3, NoReqAssumption DEF IInv, TypeOK, CaptureIsInTheSlot
<1>8. EffectsArePermitted'
  <2>1. BridgePermits(command[r])
    BY PermittedIsDecided DEF IInv, TypeOK, StartSession, Permit
  <2> QED  BY <2>1, <1>3 DEF IInv, TypeOK, EffectsArePermitted
<1>9. EventsTellTheLife'
  <2>1. \A i, j \in DOMAIN events' : events'[i].of = events'[j].of /\ i < j =>
           events'[i].running /\ ~events'[j].running
    BY <1>2, <1>5 DEF IInv, EventsTellTheLife
  <2>2. \A i \in DOMAIN events' : ~events'[i].running =>
           engine'[events'[i].of] = "exited" /\ events'[i].of # session'
    BY <1>2, <1>3, <1>5 DEF IInv, TypeOK, EventsTellTheLife
  <2>3. \E i \in DOMAIN events' : events'[i].of = session'
    BY <1>2, <1>3
  <2> QED  BY <2>1, <2>2, <2>3 DEF EventsTellTheLife
<1>10. UnsentDidNothing'
  BY <1>3 DEF IInv, TypeOK, UnsentDidNothing
<1>11. OnlyStarted'
  BY <1>2, <1>3, <1>6, NoReqAssumption DEF IInv, TypeOK, OnlyStarted, Started
<1>12. EndedByOne'
  BY <1>3, <1>6 DEF IInv, EndedByOne
<1>13. EndIsUntold'
  BY <1>2, <1>3, <1>6 DEF IInv, TypeOK, EndIsUntold
<1> QED  BY <1>4, <1>7, <1>8, <1>9, <1>10, <1>11, <1>12, <1>13 DEF IInv

-----------------------------------------------------------------------------
(* A capture ends: taken out of the slot and killed, then told of when its *)
(* engine has exited.                                                      *)
LEMMA StopStep ==
    ASSUME IInv, NEW r \in Req, StopSession(r)
    PROVE  IInv'
<1>1. /\ pc[r] = "gate" /\ pc' = [pc EXCEPT ![r] = "stopping"]
      /\ session \in Req /\ session # NoReq /\ session' = NoReq
      /\ ending' = [ending EXCEPT ![r] = session]
      /\ engine' = [engine EXCEPT ![session] = IF @ = "capturing" THEN "killed" ELSE @]
      /\ UNCHANGED <<command, saved, events, orphans, crashes>>
  BY DEF IInv, TypeOK, StopSession, Answer, Kill
<1>2. TypeOK'
  BY <1>1 DEF IInv, TypeOK
<1>3. CaptureIsInTheSlot'
  BY <1>1 DEF IInv, TypeOK, CaptureIsInTheSlot
<1>4. EffectsArePermitted'
  <2>1. BridgePermits(command[r])
    BY PermittedIsDecided DEF IInv, TypeOK, StopSession, Permit
  <2> QED  BY <2>1, <1>1 DEF IInv, TypeOK, EffectsArePermitted
<1>5. EventsTellTheLife'
  BY <1>1, EventsOfRequests, NoReqAssumption DEF IInv, TypeOK, EventsTellTheLife
<1>6. UnsentDidNothing'
  BY <1>1 DEF IInv, TypeOK, UnsentDidNothing, OnlyStarted, Started
<1>7. OnlyStarted'
  BY <1>1, EventsOfRequests DEF IInv, TypeOK, OnlyStarted, Started
<1>8. EndedByOne'
  BY <1>1 DEF IInv, TypeOK, EndedByOne
<1>9. EndIsUntold'
  BY <1>1, EventsOfRequests DEF IInv, TypeOK, EndIsUntold, EventsTellTheLife
<1> QED  BY <1>2, <1>3, <1>4, <1>5, <1>6, <1>7, <1>8, <1>9 DEF IInv

LEMMA StoppedStep ==
    ASSUME IInv, NEW r \in Req, Stopped(r)
    PROVE  IInv'
<1> DEFINE e == [of |-> ending[r], running |-> FALSE]
<1>1. ending[r] \in Req /\ ending[r] # NoReq
  BY DEF IInv, TypeOK, Stopped, EndIsUntold
<1>2. events \in Seq([of : Req, running : BOOLEAN]) /\ e \in [of : Req, running : BOOLEAN]
  BY <1>1 DEF IInv, TypeOK
<1>3. /\ events' \in Seq([of : Req, running : BOOLEAN])
      /\ DOMAIN events' = DOMAIN events \cup {Len(events) + 1}
      /\ DOMAIN events = 1 .. Len(events) /\ Len(events) \in Nat
      /\ events'[Len(events) + 1] = e
      /\ \A i \in DOMAIN events : events'[i] = events[i]
  BY <1>2, AppendedEvent DEF Stopped
<1>4. /\ pc[r] = "stopping" /\ pc' = [pc EXCEPT ![r] = "replied"]
      /\ engine[ending[r]] = "exited"
      /\ UNCHANGED <<command, ending, session, engine, saved, orphans, crashes>>
  BY DEF Stopped
<1>5. ending[r] # session /\ \A i \in DOMAIN events : events[i].of = ending[r] => events[i].running
  BY <1>1, <1>4 DEF IInv, EndedByOne, EndIsUntold
<1>6. TypeOK'
  BY <1>3, <1>4 DEF IInv, TypeOK
<1>7. CaptureIsInTheSlot' /\ EffectsArePermitted' /\ EndedByOne'
  BY <1>4 DEF IInv, CaptureIsInTheSlot, EffectsArePermitted, EndedByOne
<1>8. EventsTellTheLife'
  <2>1. \A i, j \in DOMAIN events' : events'[i].of = events'[j].of /\ i < j =>
           events'[i].running /\ ~events'[j].running
    BY <1>3, <1>5 DEF IInv, EventsTellTheLife
  <2>2. \A i \in DOMAIN events' : ~events'[i].running =>
           engine'[events'[i].of] = "exited" /\ events'[i].of # session'
    BY <1>3, <1>4, <1>5 DEF IInv, EventsTellTheLife
  <2>3. session' # NoReq => \E i \in DOMAIN events' : events'[i].of = session'
    BY <1>3, <1>4 DEF IInv, EventsTellTheLife
  <2> QED  BY <2>1, <2>2, <2>3 DEF EventsTellTheLife
<1>9. UnsentDidNothing'
  BY <1>4 DEF IInv, TypeOK, UnsentDidNothing
<1>10. OnlyStarted'
  BY <1>1, <1>3, <1>4, EventsOfRequests DEF IInv, TypeOK, OnlyStarted, Started
<1>11. EndIsUntold'
  BY <1>1, <1>3, <1>4 DEF IInv, TypeOK, EndIsUntold, EndedByOne
<1> QED  BY <1>6, <1>7, <1>8, <1>9, <1>10, <1>11 DEF IInv

-----------------------------------------------------------------------------
(* The engine's process, and the sidecar's.                                *)
LEMMA EngineStep ==
    ASSUME IInv, NEW s \in Req, EngineExits(s)
    PROVE  IInv'
<1>1. /\ engine[s] # "none"
      /\ engine' = [engine EXCEPT ![s] = "exited"]
      /\ UNCHANGED <<pc, command, ending, session, saved, events, orphans, crashes>>
  BY DEF EngineExits
<1>2. TypeOK' /\ CaptureIsInTheSlot' /\ EffectsArePermitted' /\ UnsentDidNothing'
  BY <1>1 DEF IInv, TypeOK, CaptureIsInTheSlot, EffectsArePermitted, UnsentDidNothing
<1>3. EventsTellTheLife'
  BY <1>1, EventsOfRequests DEF IInv, TypeOK, EventsTellTheLife
<1>4. OnlyStarted' /\ EndedByOne' /\ EndIsUntold'
  BY <1>1 DEF IInv, OnlyStarted, Started, EndedByOne, EndIsUntold
<1> QED  BY <1>2, <1>3, <1>4 DEF IInv

LEMMA EndOfSidecar ==
    ASSUME IInv, ShutDown \/ Crash
    PROVE  IInv'
<1>1. /\ session' = NoReq /\ events' = <<>>
      /\ pc' = [r \in Req |-> IF pc[r] \in {"gate", "stopping"} THEN "dropped" ELSE pc[r]]
      /\ UNCHANGED <<command, ending, saved>>
  BY DEF ShutDown, Crash, DropHandlers
<1>2. \A s \in Req : engine'[s] = "none" <=> engine[s] = "none"
  BY DEF IInv, TypeOK, ShutDown, Crash
<1>3. TypeOK'
  BY <1>1, AskedAssumption DEF IInv, TypeOK, ShutDown, Crash
<1>4. CaptureIsInTheSlot'
  BY DEF IInv, TypeOK, CaptureIsInTheSlot, ShutDown, Crash
<1>5. EffectsArePermitted'
  BY <1>1, <1>2 DEF IInv, EffectsArePermitted
<1>6. EventsTellTheLife'
  BY <1>1 DEF EventsTellTheLife
<1>7. UnsentDidNothing'
  BY <1>1, <1>2 DEF IInv, TypeOK, UnsentDidNothing
<1>8. OnlyStarted'
  BY <1>1 DEF IInv, TypeOK, OnlyStarted, Started
<1>9. EndedByOne' /\ EndIsUntold'
  BY <1>1 DEF IInv, TypeOK, EndedByOne, EndIsUntold
<1> QED  BY <1>3, <1>4, <1>5, <1>6, <1>7, <1>8, <1>9 DEF IInv

LEMMA NextIInv == IInv /\ [Next]_vars => IInv'
<1> SUFFICES ASSUME IInv, [Next]_vars PROVE IInv'
  OBVIOUS
<1>1. ASSUME NEW r \in Req, NEW c \in Asked, Send(r, c) PROVE IInv'
  BY <1>1, SendStep
<1>2. ASSUME NEW r \in Req, Handle(r) PROVE IInv'
  BY <1>2, FailedRequest, StartStep, StopStep, StoppedStep, SaveStep DEF Handle
<1>3. ASSUME NEW r \in Req, Disconnect(r) PROVE IInv'
  BY <1>3, FailedRequest
<1>4. ASSUME NEW r \in Req, EngineExits(r) PROVE IInv'
  BY <1>4, EngineStep
<1>5. CASE ShutDown \/ Crash
  BY <1>5, EndOfSidecar
<1>6. CASE UNCHANGED vars
  BY <1>6 DEF vars, IInv, TypeOK, CaptureIsInTheSlot, EffectsArePermitted, EventsTellTheLife,
              UnsentDidNothing, OnlyStarted, Started, EndedByOne, EndIsUntold
<1> QED  BY <1>1, <1>2, <1>3, <1>4, <1>5, <1>6 DEF Next

-----------------------------------------------------------------------------
(* The results.                                                            *)

LEMMA SpecIInv == Spec => []IInv
  BY InitIInv, NextIInv, PTL DEF Spec

\* The state of the sidecar is what its types say.
THEOREM Typed == Spec => []TypeOK
<1>1. IInv => TypeOK
  BY DEF IInv
<1> QED  BY <1>1, SpecIInv, PTL

\* However many requests race, are denied or lose their client: a capture that
\* this sidecar started and has not ended is in the slot, so a stop finds it
\* (Session::start and stop, and the drop of a session).
THEOREM OneCapture == Spec => []CaptureIsInTheSlot
<1>1. IInv => CaptureIsInTheSlot
  BY DEF IInv
<1> QED  BY <1>1, SpecIInv, PTL

\* No start, stop or save without a permit of the bridge, whatever goes wrong
\* with its subprocess: gate.rs fails closed.
THEOREM NothingUnpermitted == Spec => []EffectsArePermitted
<1>1. IInv => EffectsArePermitted
  BY DEF IInv
<1> QED  BY <1>1, SpecIInv, PTL

\* What the CaptureState events tell of one session is its life: its start,
\* then its end when the engine has exited, each once.
THEOREM EventsAreTrue == Spec => []EventsTellTheLife
<1>1. IInv => EventsTellTheLife
  BY DEF IInv
<1> QED  BY <1>1, SpecIInv, PTL
=============================================================================
