------------------------ MODULE PolicyActionsProofs -------------------------
(***************************************************************************)
(* Proofs about PolicyActions, for any set of processes and any bounds:    *)
(* types, the safety invariants, and the refinement of HoldLedger.         *)
(***************************************************************************)
EXTENDS PolicyActions, TLAPS

(***************************************************************************)
(* What an append does to a log.                                           *)
(***************************************************************************)
LEMMA AppendFacts ==
    ASSUME NEW S, NEW s \in Seq(S), NEW e \in S
    PROVE  /\ Append(s, e) \in Seq(S)
           /\ Len(Append(s, e)) = Len(s) + 1
           /\ DOMAIN s = 1..Len(s)
           /\ DOMAIN Append(s, e) = 1..(Len(s) + 1)
           /\ \A i \in 1..Len(s) : Append(s, e)[i] = s[i]
           /\ Append(s, e)[Len(s) + 1] = e
  OBVIOUS

LEMMA ClassifyType ==
    ASSUME NEW p \in Proposals
    PROVE  p[1] \in ActionTypes /\ Classify(p[1], p[2]) \in States
  <1>1. p[1] \in ActionTypes
    BY ProposalsAssumption
  <1>2. DefaultDecision(p[1]) \in States
    BY <1>1 DEF DefaultDecision, ActionTypes, HeldTypes, States, Decisions
  <1>. QED
    BY <1>1, <1>2 DEF Classify, AgentRuntimeDenied, States, Decisions

-----------------------------------------------------------------------------
(***************************************************************************)
(* Type correctness.  The record a process writes is well typed because    *)
(* the action it resolves was in the log when it was picked.               *)
(***************************************************************************)
ParentsExist ==
    \A r \in Run : pc[r] = "found" /\ request[r].via \in Resolvers =>
        parent[r] \in DOMAIN actions

TypeInv == TypeOK /\ ParentsExist

LEMMA UnresolvedInLog ==
    ASSUME TypeOK
    PROVE  /\ UnresolvedActions(actions) \subseteq ActionId
           /\ DOMAIN actions = 1..Len(actions)
           /\ DOMAIN actions \subseteq ActionId
  BY BoundsAssumption DEF UnresolvedActions, TypeOK, ActionId

\* The step of a process that starts a resolver, whatever starts it.
LEMMA StartResolverType ==
    ASSUME TypeInv, NEW r \in Run, NEW via \in Resolvers,
           NEW id \in 0..MaxActions, NEW d \in Decisions,
           StartResolver(r, via, id, d), replying' \subseteq Run
    PROVE  TypeInv'
  <1>1. [via |-> via, id |-> id, decision |-> d] \in Request
    BY DEF Request, States
  <1>2. TypeOK'
    BY <1>1 DEF TypeInv, TypeOK, StartResolver
  <1>3. ParentsExist'
    BY DEF TypeInv, TypeOK, ParentsExist, StartResolver
  <1>. QED  BY <1>2, <1>3 DEF TypeInv

LEMMA LogActionType ==
    ASSUME TypeInv, NEW r \in Run, LogAction(r)
    PROVE  /\ TypeInv'
           /\ Len(actions) < MaxActions
           /\ \E rec \in ActionRecord :
                 /\ actions' = Append(actions, rec)
                 /\ rec = [type |-> RecordType(r),
                           state |-> request[r].decision,
                           from |-> parent[r], run |-> r]
  <1> DEFINE rec == [type |-> RecordType(r), state |-> request[r].decision,
                     from |-> parent[r], run |-> r]
  <1>1. RecordType(r) \in ActionTypes
    <2>1. request[r].via \in Resolvers \cup Pages
      BY DEF TypeInv, TypeOK, Request
    <2>2. CASE request[r].via \in Pages
      <3>1. CASE request[r].via = "summary"
        BY <3>1 DEF RecordType, Resolvers, ActionTypes
      <3>2. CASE request[r].via = "comparison"
        BY <3>2 DEF RecordType, Resolvers, ActionTypes, HeldTypes
      <3>. QED  BY <2>2, <3>1, <3>2 DEF Pages
    <2>3. CASE request[r].via \in Resolvers
      <3>1. parent[r] \in DOMAIN actions
        BY <2>3 DEF TypeInv, ParentsExist, LogAction, Goto
      <3>2. actions[parent[r]] \in ActionRecord
        BY <3>1 DEF TypeInv, TypeOK
      <3>3. RecordType(r) = actions[parent[r]].type
        BY <2>3 DEF RecordType, Resolvers
      <3>. QED  BY <3>2, <3>3 DEF ActionRecord
    <2>. QED  BY <2>1, <2>2, <2>3
  <1>2. rec \in ActionRecord
    <2>1. request[r] \in Request /\ parent[r] \in 0..MaxActions
      BY DEF TypeInv, TypeOK
    <2>2. request[r].decision \in States
      BY <2>1 DEF Request
    <2>. QED  BY <1>1, <2>1, <2>2 DEF ActionRecord
  <1>3. actions' = Append(actions, rec) /\ Len(actions) < MaxActions
    BY DEF LogAction
  <1>4. TypeOK'
    BY <1>2, <1>3, BoundsAssumption
    DEF TypeInv, TypeOK, LogAction, Goto, views
  <1>5. ParentsExist'
    BY <1>2, <1>3 DEF TypeInv, TypeOK, ParentsExist, LogAction, Goto
  <1>. QED  BY <1>2, <1>3, <1>4, <1>5 DEF TypeInv

LEMMA NextType == TypeInv /\ [Next]_vars => TypeInv'
  <1>. SUFFICES ASSUME TypeInv, [Next]_vars PROVE TypeInv'
    OBVIOUS
  <1>1. ASSUME NEW p \in Proposals, Propose(p[1], p[2]) PROVE TypeInv'
    <2> DEFINE rec == [type |-> p[1], state |-> Classify(p[1], p[2]),
                       from |-> 0, run |-> Proposer]
    <2>1. rec \in ActionRecord
      BY ClassifyType, BoundsAssumption DEF ActionRecord
    <2>2. actions' = Append(actions, rec) /\ Len(actions) < MaxActions
      BY <1>1 DEF Propose
    <2>3. TypeOK'
      BY <1>1, <2>1, <2>2, BoundsAssumption
      DEF TypeInv, TypeOK, Propose, runVars, views
    <2>4. ParentsExist'
      BY <1>1, <2>1, <2>2
      DEF TypeInv, TypeOK, ParentsExist, Propose, runVars
    <2>. QED  BY <2>3, <2>4 DEF TypeInv
  <1>2. CASE EngineHold
    BY <1>2, BoundsAssumption
    DEF TypeInv, TypeOK, ParentsExist, EngineHold, runVars, views
  <1>3. ASSUME NEW r \in Run, NEW via \in Pages, StartPage(r, via)
        PROVE  TypeInv'
    <2>1. [via |-> via, id |-> 0,
           decision |-> IF via = "summary" THEN "observe" ELSE "hold"]
              \in Request
      BY BoundsAssumption DEF Request, States
    <2>2. TypeOK'
      BY <1>3, <2>1 DEF TypeInv, TypeOK, StartPage, views
    <2>3. ParentsExist'
      BY <1>3, <2>1 DEF TypeInv, TypeOK, ParentsExist, StartPage, Pages, Resolvers
    <2>. QED  BY <2>2, <2>3 DEF TypeInv
  <1>4. ASSUME NEW r \in Run, NEW d \in Decisions,
               NEW id \in {0} \cup DOMAIN actions, ResolveById(r, id, d)
        PROVE  TypeInv'
    <2>1. id \in 0..MaxActions
      BY BoundsAssumption, UnresolvedInLog DEF TypeInv, ActionId
    <2>. QED
      BY <1>4, <2>1, StartResolverType
      DEF ResolveById, Resolvers, TypeInv, TypeOK
  <1>5. ASSUME NEW r \in Run, NEW d \in Decisions, ResolveLatestHeld(r, d)
        PROVE  TypeInv'
    BY <1>5, StartResolverType, BoundsAssumption
    DEF ResolveLatestHeld, Resolvers, TypeInv, TypeOK
  <1>6. ASSUME NEW r \in Run, NEW d \in Decisions, NEW id \in page,
               PostAction(r, id, d)
        PROVE  TypeInv'
    <2>1. id \in 0..MaxActions
      BY BoundsAssumption DEF TypeInv, TypeOK, ActionId
    <2>. QED
      BY <1>6, <2>1, StartResolverType
      DEF PostAction, Resolvers, TypeInv, TypeOK
  <1>7. ASSUME NEW r \in Run, NEW d \in Decisions, PostHold(r, d)
        PROVE  TypeInv'
    BY <1>7, StartResolverType, BoundsAssumption
    DEF PostHold, Resolvers, TypeInv, TypeOK
  <1>8. ASSUME NEW r \in Run, NEW d \in Decisions, NEW id \in menu,
               ClickMenu(r, id, d)
        PROVE  TypeInv'
    <2>1. id \in 0..MaxActions
      BY BoundsAssumption DEF TypeInv, TypeOK, ActionId
    <2>. QED
      BY <1>8, <2>1, StartResolverType
      DEF ClickMenu, Resolvers, TypeInv, TypeOK
  <1>9. ASSUME NEW r \in Run, RejectArguments(r) \/ ActionNotFound(r) \/ Crash(r)
        PROVE  TypeInv'
    BY <1>9
    DEF TypeInv, TypeOK, ParentsExist, RejectArguments, ActionNotFound, Crash,
        Goto, views
  <1>10. ASSUME NEW r \in Run, PickAction(r) PROVE TypeInv'
    <2>1. PICK i \in FindAction(actions, request[r]) :
              parent' = [parent EXCEPT ![r] = i]
      BY <1>10 DEF PickAction
    <2>2. i \in DOMAIN actions /\ i \in 0..MaxActions
      BY BoundsAssumption, UnresolvedInLog
      DEF FindAction, TypeInv, ActionId
    <2>. QED
      BY <1>10, <2>1, <2>2
      DEF TypeInv, TypeOK, ParentsExist, PickAction, Goto, views
  <1>11. ASSUME NEW r \in Run, LogAction(r) PROVE TypeInv'
    BY <1>11, LogActionType
  <1>12. ASSUME NEW r \in Run, LogEvent(r) PROVE TypeInv'
    <2>1. [action |-> parent[r], decision |-> request[r].decision, run |-> r]
              \in EventRecord
      BY DEF TypeInv, TypeOK, Request, EventRecord
    <2>. QED
      BY <1>12, <2>1
      DEF TypeInv, TypeOK, ParentsExist, LogEvent, Goto, views
  <1>13. ASSUME NEW r \in Run, Reply(r) PROVE TypeInv'
    BY <1>13, UnresolvedInLog
    DEF TypeInv, TypeOK, ParentsExist, Reply, runVars
  <1>14. CASE GetPage \/ RefreshMenu
    BY <1>14, UnresolvedInLog
    DEF TypeInv, TypeOK, ParentsExist, GetPage, RefreshMenu, runVars
  <1>15. CASE UNCHANGED vars
    BY <1>15 DEF TypeInv, TypeOK, ParentsExist, vars
  <1>. QED
    BY <1>1, <1>2, <1>3, <1>4, <1>5, <1>6, <1>7, <1>8, <1>9, <1>10, <1>11,
       <1>12, <1>13, <1>14, <1>15
    DEF Next, Start, Step

LEMMA InitType == Init => TypeInv
  BY BoundsAssumption
  DEF Init, TypeInv, TypeOK, ParentsExist, Request, NoRequest, Resolvers,
      States, Decisions

\* Every record of every log is well formed, in every reachable state.
THEOREM TypeCorrect == Spec => []TypeOK
  <1>1. Init => TypeInv
    BY InitType
  <1>2. TypeInv /\ [Next]_vars => TypeInv'
    BY NextType
  <1>3. TypeInv => TypeOK
    BY DEF TypeInv
  <1>. QED  BY <1>1, <1>2, <1>3, PTL DEF Spec

-----------------------------------------------------------------------------
(***************************************************************************)
(* The inductive invariant.                                                *)
(***************************************************************************)
Held(i) == i \in DOMAIN actions /\ actions[i].state = "hold"

\* A process that was started is a resolver with a decision; its parent is an
\* action of the log, except for a page, which resolves nothing.
RunsInv ==
    \A r \in Run :
        /\ pc[r] = "started" => request[r].via \in Resolvers
        /\ pc[r] \in {"unused", "started"} \/ request[r].via \in Pages
              => parent[r] = 0
        /\ request[r].via \in Resolvers => request[r].decision \in Decisions
        /\ request[r].via \in Pages => request[r].decision \in {"observe", "hold"}

\* A record is its writer's: it has the writer's parent and decision, and the
\* writer does not start again.
RecordsInv ==
    \A i \in DOMAIN actions :
        IF actions[i].run = Proposer
        THEN actions[i].from = 0
        ELSE /\ actions[i].run \in Run
             /\ pc[actions[i].run] \in {"logged", "done", "crashed"}
             /\ actions[i].from = parent[actions[i].run]
             /\ actions[i].state = request[actions[i].run].decision

\* A process that has logged has a record.
LoggedInv ==
    \A r \in Run : pc[r] \in {"logged", "done"} =>
        \E i \in DOMAIN actions : actions[i].run = r

\* What the views offer, and so what a process started from one picks, is held:
\* a record never changes its state.
ViewsInv ==
    /\ \A i \in page \cup menu : Held(i)
    /\ \A r \in Run :
          /\ pc[r] # "unused" /\ request[r].via \in {"sidecar", "statusBar"}
                => Held(request[r].id)
          /\ pc[r] # "unused" /\ request[r].via = "holdQueue"
                => request[r].id = 0
          /\ pc[r] = "found" /\ request[r].via \in Resolvers \ {"id"}
                => Held(parent[r])

SafetyInv ==
    /\ TypeInv
    /\ RunsInv
    /\ RecordsInv
    /\ LoggedInv
    /\ ViewsInv
    /\ DecisionsFollowTheirAction
    /\ EventsMatchRecords
    /\ QueuesDecideHoldsOnly

LogInv ==
    /\ RecordsInv
    /\ LoggedInv
    /\ DecisionsFollowTheirAction
    /\ EventsMatchRecords
    /\ QueuesDecideHoldsOnly

LEMMA InitSafety == Init => SafetyInv
  <1>. SUFFICES ASSUME Init PROVE SafetyInv
    OBVIOUS
  <1>1. TypeInv
    BY InitType
  <1>2. RunsInv /\ ViewsInv
    BY DEF Init, RunsInv, ViewsInv, NoRequest, Resolvers, Pages, Decisions
  <1>3. RecordsInv /\ LoggedInv /\ DecisionsFollowTheirAction
        /\ EventsMatchRecords /\ QueuesDecideHoldsOnly
    BY DEF Init, RecordsInv, LoggedInv, DecisionsFollowTheirAction,
           EventsMatchRecords, QueuesDecideHoldsOnly
  <1>. QED  BY <1>1, <1>2, <1>3 DEF SafetyInv

-----------------------------------------------------------------------------
(***************************************************************************)
(* Steps that write neither log.                                           *)
(***************************************************************************)
\* What the logs say stays true as long as the processes that have logged
\* keep their arguments and do not start again.
LEMMA LogsKept ==
    ASSUME SafetyInv, actions' = actions, events' = events,
           \A r \in Run :
              /\ pc[r] \notin {"unused", "started"} =>
                    request'[r] = request[r] /\ parent'[r] = parent[r]
              /\ pc'[r] = "done" <=> pc[r] = "done"
              /\ pc'[r] = "logged" => pc[r] = "logged"
              /\ pc[r] \in {"logged", "crashed"} => pc'[r] \in {"logged", "crashed"}
    PROVE  LogInv'
  <1>. USE DEF SafetyInv
  <1>1. ASSUME NEW i \in DOMAIN actions, actions[i].run # Proposer
        PROVE  /\ actions[i].run \in Run
               /\ pc'[actions[i].run] \in {"logged", "done", "crashed"}
               /\ request'[actions[i].run] = request[actions[i].run]
               /\ parent'[actions[i].run] = parent[actions[i].run]
    BY <1>1 DEF RecordsInv
  <1>2. RecordsInv'
    BY <1>1 DEF RecordsInv
  <1>3. LoggedInv'
    BY DEF LoggedInv
  <1>4. DecisionsFollowTheirAction'
    BY DEF DecisionsFollowTheirAction
  <1>5. EventsMatchRecords'
    <2>1. \A e \in DOMAIN events : events[e].run \in Run
      <3>. SUFFICES ASSUME NEW e \in DOMAIN events PROVE events[e].run \in Run
        OBVIOUS
      <3>1. events[e] \in EventRecord
        BY DEF TypeInv, TypeOK
      <3>. QED  BY <3>1 DEF EventRecord
    <2>. QED  BY <1>1, <2>1 DEF EventsMatchRecords
  <1>6. QueuesDecideHoldsOnly'
    <2>1. \A i \in DOMAIN actions : actions[i].from # 0 => actions[i].run # Proposer
      BY DEF RecordsInv
    <2>. QED  BY <1>1, <2>1 DEF QueuesDecideHoldsOnly
  <1>. QED  BY <1>2, <1>3, <1>4, <1>5, <1>6 DEF LogInv

LEMMA StartResolverSafety ==
    ASSUME SafetyInv, TypeInv', NEW r \in Run, NEW via \in Resolvers, NEW id,
           NEW d \in Decisions, StartResolver(r, via, id, d),
           via \in {"sidecar", "statusBar"} => Held(id),
           via = "holdQueue" => id = 0
    PROVE  SafetyInv'
  <1>. USE DEF SafetyInv
  <1>1. /\ actions' = actions /\ events' = events /\ parent' = parent
        /\ page' = page /\ menu' = menu
        /\ pc[r] = "unused" /\ pc' = [pc EXCEPT ![r] = "started"]
        /\ request' = [request EXCEPT ![r] = [via |-> via, id |-> id, decision |-> d]]
    BY DEF StartResolver
  <1>2. pc \in [Run -> {"unused", "started", "found", "logged", "done", "failed",
                        "crashed"}]
        /\ DOMAIN request = Run
    BY DEF TypeInv, TypeOK
  <1>3. LogInv'
    BY <1>1, <1>2, LogsKept
  <1>4. RunsInv'
    BY <1>1, <1>2 DEF RunsInv, Resolvers, Pages
  <1>5. ViewsInv'
    BY <1>1, <1>2 DEF ViewsInv, Held, Resolvers
  <1>. QED  BY <1>3, <1>4, <1>5 DEF LogInv

LEMMA StartPageSafety ==
    ASSUME SafetyInv, TypeInv', NEW r \in Run, NEW via \in Pages, StartPage(r, via)
    PROVE  SafetyInv'
  <1>. USE DEF SafetyInv
  <1>1. /\ actions' = actions /\ events' = events /\ parent' = parent
        /\ page' = page /\ menu' = menu
        /\ pc[r] = "unused" /\ pc' = [pc EXCEPT ![r] = "found"]
        /\ request' = [request EXCEPT ![r] =
              [via |-> via, id |-> 0,
               decision |-> IF via = "summary" THEN "observe" ELSE "hold"]]
    BY DEF StartPage, views
  <1>2. pc \in [Run -> {"unused", "started", "found", "logged", "done", "failed",
                        "crashed"}]
        /\ DOMAIN request = Run
    BY DEF TypeInv, TypeOK
  <1>3. LogInv'
    BY <1>1, <1>2, LogsKept
  <1>4. RunsInv'
    BY <1>1, <1>2 DEF RunsInv, Resolvers, Pages
  <1>5. ViewsInv'
    BY <1>1, <1>2 DEF ViewsInv, Held, Resolvers, Pages
  <1>. QED  BY <1>3, <1>4, <1>5 DEF LogInv

\* What a resolver picks from the latest records, a page or the menu is held.
LEMMA PickSafety ==
    ASSUME SafetyInv, TypeInv', NEW r \in Run, PickAction(r)
    PROVE  SafetyInv'
  <1>. USE DEF SafetyInv
  <1>1. PICK i \in FindAction(actions, request[r]) :
            parent' = [parent EXCEPT ![r] = i]
    BY DEF PickAction
  <1>2. /\ actions' = actions /\ events' = events /\ request' = request
        /\ page' = page /\ menu' = menu
        /\ pc[r] = "started" /\ pc' = [pc EXCEPT ![r] = "found"]
    BY DEF PickAction, Goto, views
  <1>3. pc \in [Run -> {"unused", "started", "found", "logged", "done", "failed",
                        "crashed"}]
        /\ DOMAIN parent = Run
    BY DEF TypeInv, TypeOK
  <1>4. LogInv'
    BY <1>1, <1>2, <1>3, LogsKept
  <1>5. request[r].via \in Resolvers /\ request[r].via \notin Pages
    BY <1>2 DEF RunsInv, Resolvers, Pages
  <1>6. RunsInv'
    BY <1>1, <1>2, <1>3, <1>5 DEF RunsInv
  <1>7. request[r].via # "id" => Held(i)
    <2>1. CASE request[r].via = "latest"
      BY <2>1 DEF FindAction, IsLatestHeld, Held
    <2>2. CASE request[r].via \in {"sidecar", "statusBar"}
      BY <1>2, <2>2 DEF FindAction, ViewsInv
    <2>3. CASE request[r].via = "holdQueue"
      <3>1. i = 0 /\ i \in DOMAIN actions
        BY <1>2, <2>3 DEF FindAction, ViewsInv
      <3>2. 0 \notin DOMAIN actions
        BY UnresolvedInLog DEF TypeInv, ActionId
      <3>. QED  BY <3>1, <3>2
    <2>. QED  BY <1>5, <2>1, <2>2, <2>3 DEF Resolvers
  <1>8. ViewsInv'
    BY <1>1, <1>2, <1>3, <1>7 DEF ViewsInv, Held
  <1>. QED  BY <1>4, <1>6, <1>8 DEF LogInv

LEMMA EndSafety ==
    ASSUME SafetyInv, TypeInv', NEW r \in Run,
           RejectArguments(r) \/ ActionNotFound(r) \/ Crash(r)
    PROVE  SafetyInv'
  <1>. USE DEF SafetyInv
  <1>1. /\ actions' = actions /\ events' = events /\ request' = request
        /\ parent' = parent /\ page' = page /\ menu' = menu
        /\ \/ pc[r] = "started" /\ pc' = [pc EXCEPT ![r] = "failed"]
           \/ /\ pc[r] \in {"started", "found", "logged"}
              /\ pc' = [pc EXCEPT ![r] = "crashed"]
    BY DEF RejectArguments, ActionNotFound, Crash, Goto, views
  <1>2. pc \in [Run -> {"unused", "started", "found", "logged", "done", "failed",
                        "crashed"}]
    BY DEF TypeInv, TypeOK
  <1>3. LogInv'
    BY <1>1, <1>2, LogsKept
  <1>4. RunsInv'
    BY <1>1, <1>2 DEF RunsInv
  <1>5. ViewsInv'
    BY <1>1, <1>2 DEF ViewsInv, Held
  <1>. QED  BY <1>3, <1>4, <1>5 DEF LogInv

\* The page and the menu are read from the log; the rest changes nothing here.
LEMMA ViewSafety ==
    ASSUME SafetyInv, TypeInv', actions' = actions, events' = events,
           UNCHANGED runVars,
           page' \in {page, UnresolvedActions(actions)},
           menu' \in {menu, UnresolvedActions(actions)}
    PROVE  SafetyInv'
  <1>. USE DEF SafetyInv, runVars
  <1>1. LogInv'
    <2>1. \A r \in Run : pc'[r] = pc[r]
      OBVIOUS
    <2>. QED  BY <2>1, LogsKept
  <1>2. RunsInv'
    BY DEF RunsInv
  <1>3. \A i \in UnresolvedActions(actions) : Held(i)
    BY DEF UnresolvedActions, Held
  <1>4. ViewsInv'
    BY <1>3 DEF ViewsInv, Held
  <1>. QED  BY <1>1, <1>2, <1>4 DEF LogInv

-----------------------------------------------------------------------------
(***************************************************************************)
(* Steps that write a log.                                                 *)
(***************************************************************************)
LEMMA LogGrows ==
    ASSUME TypeOK, NEW rec \in ActionRecord, actions' = Append(actions, rec)
    PROVE  /\ Len(actions) \in Nat
           /\ DOMAIN actions = 1..Len(actions)
           /\ DOMAIN actions' = DOMAIN actions \cup {Len(actions) + 1}
           /\ Len(actions) + 1 \notin DOMAIN actions
           /\ \A i \in DOMAIN actions : actions'[i] = actions[i]
           /\ actions'[Len(actions) + 1] = rec
  <1>1. actions \in Seq(ActionRecord) /\ Len(actions) \in Nat
    BY DEF TypeOK
  <1>. QED  BY <1>1, AppendFacts

LEMMA ParentInLog ==
    ASSUME TypeOK, DecisionsFollowTheirAction,
           NEW i \in DOMAIN actions, actions[i].from # 0
    PROVE  actions[i].from \in DOMAIN actions
  <1>1. actions \in Seq(ActionRecord) /\ Len(actions) \in Nat
        /\ DOMAIN actions = 1..Len(actions)
    BY DEF TypeOK
  <1>2. actions[i] \in ActionRecord
    BY <1>1
  <1>3. actions[i].from \in Nat
    BY <1>2, BoundsAssumption DEF ActionRecord
  <1>4. actions[i].from < i
    BY DEF DecisionsFollowTheirAction
  <1>. QED  BY <1>1, <1>3, <1>4

LEMMA ProposeSafety ==
    ASSUME SafetyInv, TypeInv', NEW p \in Proposals, Propose(p[1], p[2])
    PROVE  SafetyInv'
  <1>. USE DEF SafetyInv
  <1> DEFINE rec == [type |-> p[1], state |-> Classify(p[1], p[2]),
                     from |-> 0, run |-> Proposer]
             n == Len(actions) + 1
  <1>1. rec \in ActionRecord
    BY ClassifyType, BoundsAssumption DEF ActionRecord
  <1>2. rec.from = 0 /\ rec.run = Proposer /\ actions' = Append(actions, rec)
    BY DEF Propose
  <1>3. /\ events' = events /\ pc' = pc /\ request' = request /\ parent' = parent
        /\ page' = page /\ menu' = menu
    BY DEF Propose, runVars, views
  <1>. HIDE DEF rec
  <1>4. /\ DOMAIN actions' = DOMAIN actions \cup {n} /\ n \notin DOMAIN actions
        /\ \A i \in DOMAIN actions : actions'[i] = actions[i]
        /\ actions'[n] = rec
    BY <1>1, <1>2, LogGrows DEF TypeInv
  <1>. HIDE DEF n
  <1>5. RunsInv'
    BY <1>3 DEF RunsInv
  <1>6. RecordsInv'
    BY <1>2, <1>3, <1>4 DEF RecordsInv
  <1>7. LoggedInv'
    BY <1>3, <1>4 DEF LoggedInv
  <1>8. ViewsInv'
    BY <1>3, <1>4 DEF ViewsInv, Held
  <1>9. DecisionsFollowTheirAction'
    <2>1. ASSUME NEW i \in DOMAIN actions, actions[i].from # 0
          PROVE  actions[i].from \in DOMAIN actions
      BY <2>1, ParentInLog DEF TypeInv
    <2>. QED  BY <1>2, <1>4, <2>1 DEF DecisionsFollowTheirAction
  <1>10. EventsMatchRecords'
    BY <1>2, <1>3, <1>4 DEF EventsMatchRecords
  <1>11. QueuesDecideHoldsOnly'
    <2>1. ASSUME NEW i \in DOMAIN actions, actions[i].from # 0
          PROVE  actions[i].from \in DOMAIN actions
      BY <2>1, ParentInLog DEF TypeInv
    <2>. QED  BY <1>2, <1>3, <1>4, <2>1 DEF QueuesDecideHoldsOnly
  <1>. QED
    BY <1>5, <1>6, <1>7, <1>8, <1>9, <1>10, <1>11

\* The decision of a resolver, or the action of a page.
LEMMA LogActionSafety ==
    ASSUME SafetyInv, TypeInv', NEW r \in Run, LogAction(r)
    PROVE  SafetyInv'
  <1>. USE DEF SafetyInv
  <1> DEFINE n == Len(actions) + 1
  <1>1. PICK rec \in ActionRecord :
            /\ actions' = Append(actions, rec)
            /\ rec = [type |-> RecordType(r), state |-> request[r].decision,
                      from |-> parent[r], run |-> r]
    BY LogActionType
  <1>2. /\ rec.type = RecordType(r) /\ rec.state = request[r].decision
        /\ rec.from = parent[r] /\ rec.run = r
    BY <1>1
  <1>3. /\ events' = events /\ request' = request /\ parent' = parent
        /\ page' = page /\ menu' = menu
        /\ pc[r] = "found" /\ pc' = [pc EXCEPT ![r] = "logged"]
    BY DEF LogAction, Goto, views
  <1>4. /\ DOMAIN actions' = DOMAIN actions \cup {n} /\ n \notin DOMAIN actions
        /\ \A i \in DOMAIN actions : actions'[i] = actions[i] /\ i < n
        /\ actions'[n] = rec
    BY <1>1, LogGrows DEF TypeInv
  <1>5. /\ pc \in [Run -> {"unused", "started", "found", "logged", "done", "failed",
                           "crashed"}]
        /\ r # Proposer
    BY ProposerAssumption DEF TypeInv, TypeOK
  <1>. HIDE DEF n
  <1>6. parent[r] # 0 => /\ request[r].via \in Resolvers
                         /\ parent[r] \in DOMAIN actions
                         /\ RecordType(r) = actions[parent[r]].type
                         /\ request[r].via # "id" => Held(parent[r])
    <2>. SUFFICES ASSUME parent[r] # 0
                  PROVE  /\ request[r].via \in Resolvers
                         /\ parent[r] \in DOMAIN actions
                         /\ RecordType(r) = actions[parent[r]].type
                         /\ request[r].via # "id" => Held(parent[r])
      OBVIOUS
    <2>1. request[r].via \in Resolvers
      BY DEF RunsInv, TypeInv, TypeOK, Request
    <2>2. parent[r] \in DOMAIN actions
      BY <1>3, <2>1 DEF TypeInv, ParentsExist
    <2>3. RecordType(r) = actions[parent[r]].type
      BY <2>1 DEF RecordType, Resolvers
    <2>4. request[r].via # "id" => Held(parent[r])
      BY <1>3, <2>1 DEF ViewsInv
    <2>. QED  BY <2>1, <2>2, <2>3, <2>4
  <1>7. ASSUME NEW i \in DOMAIN actions, actions[i].from # 0
        PROVE  actions[i].from \in DOMAIN actions
    BY <1>7, ParentInLog DEF TypeInv
  <1>8. RunsInv'
    BY <1>3, <1>5 DEF RunsInv
  <1>9. RecordsInv'
    BY <1>2, <1>3, <1>4, <1>5 DEF RecordsInv
  <1>10. LoggedInv'
    BY <1>2, <1>3, <1>4, <1>5 DEF LoggedInv
  <1>11. ViewsInv'
    BY <1>3, <1>4, <1>5 DEF ViewsInv, Held
  <1>12. DecisionsFollowTheirAction'
    BY <1>2, <1>4, <1>6, <1>7 DEF DecisionsFollowTheirAction
  <1>13. EventsMatchRecords'
    <2>1. ASSUME NEW e \in DOMAIN events
          PROVE  pc'[events[e].run] = "done"
      BY <1>3, <1>5 DEF EventsMatchRecords
    <2>2. ASSUME NEW e \in DOMAIN events
          PROVE  \E i \in DOMAIN actions' :
                    /\ actions'[i].run = events[e].run
                    /\ actions'[i].from = events[e].action
                    /\ actions'[i].state = events[e].decision
      BY <1>4 DEF EventsMatchRecords
    <2>3. ASSUME NEW i \in DOMAIN actions', actions'[i].run # Proposer
          PROVE  pc'[actions'[i].run] \in {"logged", "done", "crashed"}
      BY <1>2, <1>3, <1>4, <1>5, <2>3 DEF EventsMatchRecords
    <2>4. \A s \in Run : pc'[s] = "done" => pc[s] = "done"
      BY <1>3, <1>5
    <2>. QED  BY <1>3, <2>1, <2>2, <2>3, <2>4 DEF EventsMatchRecords
  <1>14. QueuesDecideHoldsOnly'
    BY <1>2, <1>3, <1>4, <1>6, <1>7 DEF QueuesDecideHoldsOnly, Held
  <1>. QED
    BY <1>8, <1>9, <1>10, <1>11, <1>12, <1>13, <1>14

\* The event of a record: its writer has written no other.
LEMMA LogEventSafety ==
    ASSUME SafetyInv, TypeInv', NEW r \in Run, LogEvent(r)
    PROVE  SafetyInv'
  <1>. USE DEF SafetyInv
  <1> DEFINE ev == [action |-> parent[r], decision |-> request[r].decision,
                    run |-> r]
             n == Len(events) + 1
  <1>1. ev \in EventRecord
    BY DEF TypeInv, TypeOK, Request, EventRecord
  <1>2. /\ actions' = actions /\ request' = request /\ parent' = parent
        /\ page' = page /\ menu' = menu
        /\ pc[r] = "logged" /\ pc' = [pc EXCEPT ![r] = "done"]
        /\ events' = Append(events, ev)
    BY DEF LogEvent, Goto, views
  <1>3. /\ DOMAIN events' = DOMAIN events \cup {n}
        /\ \A e \in DOMAIN events : events'[e] = events[e]
        /\ events'[n] = ev
    <2>1. events \in Seq(EventRecord) /\ Len(events) \in Nat
      BY DEF TypeInv, TypeOK
    <2>. HIDE DEF ev
    <2>. QED  BY <1>1, <1>2, <2>1, AppendFacts
  <1>4. ev.action = parent[r] /\ ev.decision = request[r].decision /\ ev.run = r
    OBVIOUS
  <1>5. /\ pc \in [Run -> {"unused", "started", "found", "logged", "done", "failed",
                           "crashed"}]
        /\ r # Proposer
    BY ProposerAssumption DEF TypeInv, TypeOK
  <1>. HIDE DEF ev, n
  <1>6. RunsInv'
    BY <1>2, <1>5 DEF RunsInv
  <1>7. RecordsInv'
    BY <1>2, <1>5 DEF RecordsInv
  <1>8. LoggedInv'
    BY <1>2, <1>5 DEF LoggedInv
  <1>9. ViewsInv'
    BY <1>2, <1>5 DEF ViewsInv, Held
  <1>10. DecisionsFollowTheirAction' /\ QueuesDecideHoldsOnly'
    BY <1>2 DEF DecisionsFollowTheirAction, QueuesDecideHoldsOnly
  <1>11. EventsMatchRecords'
    <2>1. \A e \in DOMAIN events : events[e].run # r /\ pc'[events[e].run] = "done"
      BY <1>2, <1>5 DEF EventsMatchRecords
    <2>2. PICK i \in DOMAIN actions : actions[i].run = r
      BY <1>2 DEF LoggedInv
    <2>3. actions[i].from = parent[r] /\ actions[i].state = request[r].decision
      BY <1>5, <2>2 DEF RecordsInv
    <2>4. pc'[r] = "done"
      BY <1>2, <1>5
    <2>5. ASSUME NEW e \in DOMAIN events'
          PROVE  /\ pc'[events'[e].run] = "done"
                 /\ \E j \in DOMAIN actions' :
                       /\ actions'[j].run = events'[e].run
                       /\ actions'[j].from = events'[e].action
                       /\ actions'[j].state = events'[e].decision
                 /\ \A f \in DOMAIN events' : events'[f].run = events'[e].run => f = e
      <3>1. CASE e = n
        <4>1. events'[e] = ev
          BY <1>3, <3>1
        <4>2. \E j \in DOMAIN actions' :
                 /\ actions'[j].run = events'[e].run
                 /\ actions'[j].from = events'[e].action
                 /\ actions'[j].state = events'[e].decision
          BY <1>2, <1>4, <2>2, <2>3, <4>1
        <4>. QED  BY <1>3, <1>4, <2>1, <2>4, <3>1, <4>1, <4>2
      <3>2. CASE e \in DOMAIN events
        <4>1. events'[e] = events[e]
          BY <1>3, <3>2
        <4>. QED
          BY <1>2, <1>3, <1>4, <2>1, <3>2, <4>1 DEF EventsMatchRecords
      <3>. QED  BY <1>3, <3>1, <3>2
    <2>6. ASSUME NEW s \in Run, pc'[s] = "done"
          PROVE  \E e \in DOMAIN events' : events'[e].run = s
      <3>1. CASE s = r
        BY <1>3, <1>4, <3>1
      <3>2. CASE s # r
        BY <1>2, <1>3, <1>5, <2>6, <3>2 DEF EventsMatchRecords
      <3>. QED  BY <3>1, <3>2
    <2>7. ASSUME NEW j \in DOMAIN actions', actions'[j].run # Proposer
          PROVE  pc'[actions'[j].run] \in {"logged", "done", "crashed"}
      BY <1>2, <1>5, <2>7 DEF EventsMatchRecords
    <2>. QED  BY <2>5, <2>6, <2>7 DEF EventsMatchRecords
  <1>. QED  BY <1>6, <1>7, <1>8, <1>9, <1>10, <1>11

-----------------------------------------------------------------------------
LEMMA NextSafety == SafetyInv /\ [Next]_vars => SafetyInv'
  <1>. SUFFICES ASSUME SafetyInv, [Next]_vars PROVE SafetyInv'
    OBVIOUS
  <1>1. TypeInv' /\ TypeInv
    BY NextType DEF SafetyInv
  <1>2. ASSUME NEW p \in Proposals, Propose(p[1], p[2]) PROVE SafetyInv'
    BY <1>1, <1>2, ProposeSafety
  <1>3. ASSUME NEW r \in Run, NEW via \in Pages, StartPage(r, via) PROVE SafetyInv'
    BY <1>1, <1>3, StartPageSafety
  <1>4. ASSUME NEW r \in Run, NEW d \in Decisions, NEW id, ResolveById(r, id, d)
        PROVE  SafetyInv'
    BY <1>1, <1>4, StartResolverSafety DEF ResolveById, Resolvers
  <1>5. ASSUME NEW r \in Run, NEW d \in Decisions, ResolveLatestHeld(r, d)
        PROVE  SafetyInv'
    BY <1>1, <1>5, StartResolverSafety DEF ResolveLatestHeld, Resolvers
  <1>6. ASSUME NEW r \in Run, NEW d \in Decisions, NEW id \in page,
               PostAction(r, id, d)
        PROVE  SafetyInv'
    <2>1. Held(id)
      BY DEF SafetyInv, ViewsInv
    <2>. QED  BY <1>1, <1>6, <2>1, StartResolverSafety DEF PostAction, Resolvers
  <1>7. ASSUME NEW r \in Run, NEW d \in Decisions, PostHold(r, d) PROVE SafetyInv'
    BY <1>1, <1>7, StartResolverSafety DEF PostHold, Resolvers
  <1>8. ASSUME NEW r \in Run, NEW d \in Decisions, NEW id \in menu,
               ClickMenu(r, id, d)
        PROVE  SafetyInv'
    <2>1. Held(id)
      BY DEF SafetyInv, ViewsInv
    <2>. QED  BY <1>1, <1>8, <2>1, StartResolverSafety DEF ClickMenu, Resolvers
  <1>9. ASSUME NEW r \in Run, RejectArguments(r) \/ ActionNotFound(r) \/ Crash(r)
        PROVE  SafetyInv'
    BY <1>1, <1>9, EndSafety
  <1>10. ASSUME NEW r \in Run, PickAction(r) PROVE SafetyInv'
    BY <1>1, <1>10, PickSafety
  <1>11. ASSUME NEW r \in Run, LogAction(r) PROVE SafetyInv'
    BY <1>1, <1>11, LogActionSafety
  <1>12. ASSUME NEW r \in Run, LogEvent(r) PROVE SafetyInv'
    BY <1>1, <1>12, LogEventSafety
  <1>13. ASSUME NEW r \in Run, Reply(r) PROVE SafetyInv'
    BY <1>1, <1>13, ViewSafety DEF Reply
  <1>14. CASE EngineHold \/ GetPage \/ RefreshMenu
    BY <1>1, <1>14, ViewSafety DEF EngineHold, GetPage, RefreshMenu, views
  <1>15. CASE UNCHANGED vars
    BY <1>1, <1>15, ViewSafety DEF vars, runVars
  <1>. QED
    BY <1>2, <1>3, <1>4, <1>5, <1>6, <1>7, <1>8, <1>9, <1>10, <1>11, <1>12,
       <1>13, <1>14, <1>15
    DEF Next, Start, Step

LEMMA SafetyHolds == Spec => []SafetyInv
  BY InitSafety, NextSafety, PTL DEF Spec

\* A decision names an earlier action of the same type.
THEOREM DecisionsFollow == Spec => []DecisionsFollowTheirAction
  <1>1. SafetyInv => DecisionsFollowTheirAction
    BY DEF SafetyInv
  <1>. QED  BY <1>1, SafetyHolds, PTL

\* The two logs tell the same story, but for processes still under way or killed.
THEOREM EventsMatch == Spec => []EventsMatchRecords
  <1>1. SafetyInv => EventsMatchRecords
    BY DEF SafetyInv
  <1>. QED  BY <1>1, SafetyHolds, PTL

\* No queue, page or menu, however stale, decides what was not held.
THEOREM QueuesDecideHolds == Spec => []QueuesDecideHoldsOnly
  <1>1. SafetyInv => QueuesDecideHoldsOnly
    BY DEF SafetyInv
  <1>. QED  BY <1>1, SafetyHolds, PTL

-----------------------------------------------------------------------------
(***************************************************************************)
(* The refinement.  A step that appends a record maps to the ledger's step *)
(* for it; every other step leaves the log, and so the ledger, alone.      *)
(***************************************************************************)
LoggedIds ==
    DOMAIN actions \ (UnresolvedActions(actions) \cup ResolvedIds(actions))

LEMMA KnownActions ==
    ASSUME SafetyInv
    PROVE  /\ UnresolvedActions(actions) \subseteq DOMAIN actions
           /\ ResolvedIds(actions) \subseteq DOMAIN actions
  <1>1. UnresolvedActions(actions) \subseteq DOMAIN actions
    BY DEF UnresolvedActions
  <1>2. ASSUME NEW m \in ResolvedIds(actions) PROVE m \in DOMAIN actions
    <2>1. PICK i \in DOMAIN actions : m = actions[i].from /\ m # 0
      BY DEF ResolvedIds
    <2>. QED  BY <2>1, ParentInLog DEF SafetyInv, TypeInv
  <1>. QED  BY <1>1, <1>2

\* A record that resolves nothing joins the queue, or is only recorded; one
\* that resolves an action takes it out of the queue.
LEMMA AppendRefines ==
    ASSUME SafetyInv, Len(actions) < MaxActions,
           NEW rec \in ActionRecord, actions' = Append(actions, rec),
           rec.from # 0 => rec.from \in DOMAIN actions /\ rec.state # "hold"
    PROVE  Ledger!Next
  <1> DEFINE n == Len(actions) + 1
             U == UnresolvedActions(actions)
             R == ResolvedIds(actions)
             D == DOMAIN actions
  <1>1. /\ D = 1..Len(actions) /\ Len(actions) \in Nat
        /\ DOMAIN actions' = D \cup {n} /\ n \notin D
        /\ \A i \in D : actions'[i] = actions[i]
        /\ actions'[n] = rec
    BY LogGrows DEF SafetyInv, TypeInv
  <1>2. U \subseteq D /\ R \subseteq D /\ 0 \notin D
    BY <1>1, KnownActions
  <1>3. n \in ActionId /\ D \subseteq ActionId
    BY <1>1, BoundsAssumption DEF ActionId
  <1>4. ResolvedIds(actions') = R \cup ({rec.from} \ {0})
    BY <1>1 DEF ResolvedIds
  <1>5. UnresolvedActions(actions') =
            {i \in D \cup {n} : actions'[i].state = "hold"} \ ResolvedIds(actions')
    BY <1>1 DEF UnresolvedActions
  <1>6. U = {i \in D : actions[i].state = "hold"} \ R
    BY DEF UnresolvedActions
  <1>. HIDE DEF n, U, R, D
  <1>7. CASE rec.from = 0
    <2>1. ResolvedIds(actions') = R
      BY <1>4, <1>7
    <2>2. CASE rec.state = "hold"
      <3>1. UnresolvedActions(actions') = U \cup {n}
        BY <1>1, <1>2, <1>5, <1>6, <2>1, <2>2
      <3>2. LoggedIds' = LoggedIds
        BY <1>1, <1>2, <2>1, <3>1 DEF LoggedIds, U, R, D
      <3>3. Ledger!Hold(n)
        BY <1>1, <1>2, <2>1, <3>1, <3>2
        DEF Ledger!Hold, Ledger!Known, LoggedIds, U, R, D
      <3>. QED  BY <1>3, <3>3 DEF Ledger!Next
    <2>3. CASE rec.state # "hold"
      <3>1. UnresolvedActions(actions') = U
        BY <1>1, <1>2, <1>5, <1>6, <2>1, <2>3
      <3>2. LoggedIds' = LoggedIds \cup {n}
        BY <1>1, <1>2, <2>1, <3>1 DEF LoggedIds, U, R, D
      <3>3. Ledger!Record(n)
        BY <1>1, <1>2, <2>1, <3>1, <3>2
        DEF Ledger!Record, Ledger!Known, LoggedIds, U, R, D
      <3>. QED  BY <1>3, <3>3 DEF Ledger!Next
    <2>. QED  BY <2>2, <2>3
  <1>8. CASE rec.from # 0
    <2> DEFINE m == rec.from
    <2>1. m \in D /\ rec.state # "hold"
      BY <1>8 DEF D
    <2>2. ResolvedIds(actions') = R \cup {m}
      BY <1>4, <1>8
    <2>3. UnresolvedActions(actions') = U \ {m}
      BY <1>1, <1>5, <1>6, <2>1, <2>2
    <2>4. LoggedIds' = (LoggedIds \ {m}) \cup {n}
      BY <1>1, <1>2, <2>1, <2>2, <2>3 DEF LoggedIds, U, R, D
    <2>5. Ledger!Settle(m, n)
      BY <1>1, <1>2, <2>1, <2>2, <2>3, <2>4
      DEF Ledger!Settle, Ledger!Known, LoggedIds, U, R, D
    <2>. QED  BY <1>3, <2>1, <2>5 DEF Ledger!Next
  <1>. QED  BY <1>7, <1>8

LEMMA StepRefines ==
    SafetyInv /\ [Next]_vars => [Ledger!Next]_Ledger!ledgerVars
  <1>. SUFFICES ASSUME SafetyInv, [Next]_vars
                PROVE  Ledger!Next \/ UNCHANGED Ledger!ledgerVars
    OBVIOUS
  <1>1. ASSUME NEW p \in Proposals, Propose(p[1], p[2]) PROVE Ledger!Next
    <2> DEFINE rec == [type |-> p[1], state |-> Classify(p[1], p[2]),
                       from |-> 0, run |-> Proposer]
    <2>1. rec \in ActionRecord /\ rec.from = 0
      BY ClassifyType, BoundsAssumption DEF ActionRecord
    <2>2. actions' = Append(actions, rec) /\ Len(actions) < MaxActions
      BY <1>1 DEF Propose
    <2>. HIDE DEF rec
    <2>. QED  BY <2>1, <2>2, AppendRefines
  <1>2. ASSUME NEW r \in Run, LogAction(r) PROVE Ledger!Next
    <2>1. PICK rec \in ActionRecord :
              /\ actions' = Append(actions, rec)
              /\ rec = [type |-> RecordType(r), state |-> request[r].decision,
                        from |-> parent[r], run |-> r]
      BY <1>2, LogActionType DEF SafetyInv
    <2>2. rec.from = parent[r] /\ rec.state = request[r].decision
      BY <2>1
    <2>3. Len(actions) < MaxActions /\ pc[r] = "found"
      BY <1>2 DEF LogAction, Goto
    <2>4. parent[r] # 0 =>
              parent[r] \in DOMAIN actions /\ request[r].decision # "hold"
      <3>1. parent[r] # 0 => request[r].via \in Resolvers
        BY DEF SafetyInv, RunsInv, TypeInv, TypeOK, Request
      <3>2. request[r].via \in Resolvers => request[r].decision # "hold"
        BY DEF SafetyInv, RunsInv, Decisions
      <3>. QED  BY <2>3, <3>1, <3>2 DEF SafetyInv, TypeInv, ParentsExist
    <2>. QED  BY <2>1, <2>2, <2>3, <2>4, AppendRefines
  <1>3. ASSUME actions' = actions PROVE UNCHANGED Ledger!ledgerVars
    BY <1>3 DEF Ledger!ledgerVars
  <1>4. \/ \E p \in Proposals : Propose(p[1], p[2])
        \/ \E r \in Run : LogAction(r)
        \/ actions' = actions
    BY DEF Next, Start, Step, EngineHold, StartPage, ResolveById,
           ResolveLatestHeld, PostAction, PostHold, ClickMenu, StartResolver,
           RejectArguments, PickAction, ActionNotFound, LogEvent, Crash, Reply,
           GetPage, RefreshMenu, vars
  <1>. QED  BY <1>1, <1>2, <1>3, <1>4

\* Whatever the writers interleave and wherever they are killed, the log
\* implements the abstract ledger: a decided action never returns to the queue.
THEOREM LogIsALedger == Spec => LedgerSpec
  <1>1. Init => Ledger!Init
    BY DEF Init, Ledger!Init, UnresolvedActions, ResolvedIds
  <1>. QED  BY <1>1, SafetyHolds, StepRefines, PTL
            DEF Spec, LedgerSpec, Ledger!Spec
=============================================================================
