-------------------------- MODULE BearSpacesProofs --------------------------
(***************************************************************************)
(* The safety of the tab spaces, for any tabs, windows, spaces, numbers of *)
(* handlers at work, failures and restarts: that the store follows the     *)
(* memory, and what handlers that run one at a time leave in the store and *)
(* on the screen.                                                          *)
(***************************************************************************)
EXTENDS BearSpaces, SequenceTheorems, WellFoundedInduction, TLAPS

-----------------------------------------------------------------------------
(* Type correctness.                                                       *)

SpaceRef == Space \cup {NoSpace}

\* The parts of TypeOK.
BrowserOK ==
    /\ open \subseteq used /\ used \subseteq Tab
    /\ hidden \subseteq open \ Active
    /\ current \in [Window -> open \cup {NoTab}]
    /\ \A w \in Window : current[w] = NoTab \/ WindowOf[current[w]] = w
    /\ front \in Window /\ current[front] \in open

StoreOK ==
    /\ stored \in State
    /\ reading \in State
    /\ pending \in Seq(Write)
    /\ lost \subseteq Key

CountsOK ==
    /\ handlers \in 0..MaxHandlers /\ restarts \in 0..MaxRestarts
    /\ failures \in 0..MaxFailures
    /\ race \in {"none", "running", "loading"}

LEMMA TypeParts ==
    TypeOK <=> /\ BrowserOK /\ StoreOK /\ CountsOK
               /\ Memory \in State
               /\ task \in [Slot -> Task]
               /\ created \subseteq Space
               /\ arranged \in Window \cup {NoWindow}
BY DEF TypeOK, BrowserOK, StoreOK, CountsOK

LEMMA MemoryType ==
    Memory \in State <=> /\ spaces \subseteq Space
                         /\ activeId \in SpaceRef
                         /\ tabMap \in [Tab -> SpaceRef]
BY DEF Memory, State, Values, SpaceRef

LEMMA StateType ==
    ASSUME NEW s \in State
    PROVE  /\ s.spaces \subseteq Space
           /\ s.active \in SpaceRef
           /\ s.tabMap \in [Tab -> SpaceRef]
           /\ s = [spaces |-> s.spaces, active |-> s.active, tabMap |-> s.tabMap]
           /\ DOMAIN s = Key
BY DEF State, Values, SpaceRef, Key

LEMMA KeyValues ==
    /\ Key = {"spaces", "active", "tabMap"}
    /\ Values["spaces"] = SUBSET Space
    /\ Values["active"] = SpaceRef
    /\ Values["tabMap"] = [Tab -> SpaceRef]
BY DEF Key, Values, SpaceRef

LEMMA WriteType ==
    /\ \A key \in Key : \A v \in Values[key] : \A by \in Slot \cup {NoSlot} :
          [key |-> key, value |-> v, by |-> by] \in Write
    /\ \A w \in Write : w.key \in Key /\ w.value \in Values[w.key]
<1>1. ASSUME NEW key \in Key, NEW v \in Values[key], NEW by \in Slot \cup {NoSlot}
      PROVE  [key |-> key, value |-> v, by |-> by] \in Write
  <2>1. [key |-> key, value |-> v, by |-> by] \in
            [key : {key}, value : Values[key], by : Slot \cup {NoSlot}]
    OBVIOUS
  <2> QED  BY <2>1 DEF Write
<1>2. ASSUME NEW w \in Write
      PROVE  w.key \in Key /\ w.value \in Values[w.key]
  <2>1. PICK key \in Key :
            w \in [key : {key}, value : Values[key], by : Slot \cup {NoSlot}]
    BY DEF Write
  <2> QED  BY <2>1
<1> QED  BY <1>1, <1>2

\* A write is issued.
LEMMA AppendType ==
    ASSUME pending \in Seq(Write), NEW key \in Key, NEW v \in Values[key],
           NEW by \in Slot \cup {NoSlot},
           pending' = Append(pending, [key |-> key, value |-> v, by |-> by])
    PROVE  pending' \in Seq(Write)
<1>1. [key |-> key, value |-> v, by |-> by] \in Write
  BY WriteType
<1> QED  BY <1>1

LEMMA SaveType ==
    ASSUME StoreOK, Memory' \in State, NEW by \in Slot \cup {NoSlot},
           SaveSpaces(by) \/ SaveActive(by) \/ SaveTabMap(by) \/ UNCHANGED store
    PROVE  StoreOK'
<1>1. /\ spaces' \in Values["spaces"] /\ activeId' \in Values["active"]
      /\ tabMap' \in Values["tabMap"] /\ {"spaces", "active", "tabMap"} \subseteq Key
  BY KeyValues DEF Memory, State, Values, Key, SpaceRef
<1>2. CASE UNCHANGED store
  BY <1>2 DEF store, StoreOK
<1>3. CASE SaveSpaces(by) \/ SaveActive(by) \/ SaveTabMap(by)
  <2>1. pending' \in Seq(Write)
    BY <1>1, <1>3, AppendType DEF StoreOK, SaveSpaces, SaveActive, SaveTabMap, Issue
  <2> QED  BY <1>3, <2>1 DEF StoreOK, SaveSpaces, SaveActive, SaveTabMap, Issue
<1> QED  BY <1>2, <1>3

LEMMA EmptyType == Empty \in State /\ NoTabMap \in [Tab -> SpaceRef]
BY DEF Empty, State, Values, NoTabMap, SpaceRef

LEMMA TaskType ==
    ASSUME NEW p \in Task
    PROVE  /\ p.pc \in Pcs /\ p.tab \in Tab \cup {NoTab} /\ p.space \in SpaceRef
           /\ p.show \subseteq Tab /\ p.hide \subseteq Tab
           /\ \A pc \in Pcs : [p EXCEPT !.pc = pc] \in Task
           /\ \A pc \in Pcs, t \in Tab : [p EXCEPT !.pc = pc, !.tab = t] \in Task
           /\ \A t : [p EXCEPT !.show = @ \ {t}] \in Task
           /\ \A t : [p EXCEPT !.hide = @ \ {t}] \in Task
           /\ \A show \in SUBSET Tab, pc \in Pcs : [p EXCEPT !.pc = pc, !.show = show] \in Task
BY DEF Task, SpaceRef

LEMMA IdleType ==
    /\ Idle \in Task
    /\ \A pc \in Pcs, t \in Tab \cup {NoTab}, s \in SpaceRef : Waiting(pc, t, s) \in Task
BY DEF Idle, Task, Waiting, Pcs, SpaceRef

\* What a start of the browser leaves.
LEMMA StartsType ==
    ASSUME NEW tabs \in Session, NEW active \in [Window -> Tab \cup {NoTab}],
           NEW window \in Window, BrowserStarts(tabs, active, window)
    PROVE  /\ tabs \subseteq Tab
           /\ active \in [Window -> tabs \cup {NoTab}]
           /\ \A w \in Window : active[w] = NoTab \/ WindowOf[active[w]] = w
           /\ active[window] \in tabs
<1>1. tabs \subseteq Tab
  BY SessionAssumption
<1>2. ASSUME NEW w \in Window
      PROVE  /\ active[w] = NoTab \/ (active[w] \in tabs /\ WindowOf[active[w]] = w)
             /\ (\E t \in tabs : WindowOf[t] = w) => active[w] \in tabs
  BY DEF BrowserStarts
<1>3. active[window] \in tabs
  BY <1>2 DEF BrowserStarts
<1> QED  BY <1>1, <1>2, <1>3

LEMMA InitType == Init => TypeOK
<1> SUFFICES ASSUME Init PROVE TypeOK
  OBVIOUS
<1>1. Memory \in State /\ StoreOK
  BY EmptyType, MemoryType DEF Init, SpaceRef, StoreOK
<1>2. task \in [Slot -> Task]
  <2>1. Waiting("load", NoTab, NoSpace) \in Task
    BY IdleType DEF Pcs, SpaceRef
  <2> QED  BY <2>1, IdleType DEF Init
<1>3. BrowserOK
  BY StartsType DEF Init, BrowserOK
<1>4. CountsOK /\ created \subseteq Space /\ arranged \in Window \cup {NoWindow}
  BY BoundsAssumption DEF Init, CountsOK
<1> QED  BY <1>1, <1>2, <1>3, <1>4, TypeParts

LEMMA BeginType ==
    ASSUME TypeOK, NEW stale, Begin(stale)
    PROVE  CountsOK'
BY BoundsAssumption DEF TypeOK, Begin, CountsOK

\* Only the task of one slot changes.
LEMMA TasksType ==
    ASSUME TypeOK, NEW k \in Slot, NEW p \in Task, task' = [task EXCEPT ![k] = p]
    PROVE  task' \in [Slot -> Task]
BY DEF TypeOK

LEMMA BootType ==
    ASSUME Boot
    PROVE  /\ BrowserOK'
           /\ Memory' \in State
           /\ task' \in [Slot -> Task]
<1>1. Memory' \in State
  BY EmptyType DEF Boot, Memory, State, Values, NoTabMap
<1>2. task' \in [Slot -> Task]
  <2>1. Waiting("load", NoTab, NoSpace) \in Task
    BY IdleType DEF Pcs, SpaceRef
  <2> QED  BY <2>1, IdleType DEF Boot
<1>3. BrowserOK'
  <2>1. /\ open' \in Session /\ current' \in [Window -> Tab \cup {NoTab}]
        /\ front' \in Window /\ BrowserStarts(open', current', front')
        /\ hidden' = {} /\ used' = open'
    BY DEF Boot
  <2> QED  BY <2>1, StartsType DEF BrowserOK
<1> QED  BY <1>1, <1>2, <1>3

\* The tasks that go on do so with tasks.
LEMMA StartupType ==
    ASSUME TypeOK, NEW k \in Slot,
           Load(k) \/ LoadNothing(k) \/ LoadFails(k) \/ Seed(k) \/ Seeded(k)
    PROVE  TypeOK'
<1>1. /\ Memory \in State /\ reading \in State /\ stored \in State /\ pending \in Seq(Write)
      /\ lost \subseteq Key /\ task \in [Slot -> Task] /\ task[k] \in Task
      /\ spaces \subseteq Space /\ activeId \in SpaceRef /\ tabMap \in [Tab -> SpaceRef]
  BY MemoryType DEF TypeOK
<1>2. UNCHANGED browser /\ UNCHANGED stored /\ arranged' = arranged
  BY DEF Load, LoadNothing, LoadFails, Seed, Seeded, DrawSpace, SaveSpaces, Issue
<1>3. BrowserOK' /\ arranged' \in Window \cup {NoWindow}
  BY <1>2 DEF TypeOK, BrowserOK, browser, Active
<1>4. CountsOK'
  BY BoundsAssumption DEF Load, LoadNothing, LoadFails, Seed, Seeded, Fail, history, TypeOK, CountsOK
<1>5. created' \subseteq Space
  BY DEF Load, LoadNothing, LoadFails, Seed, Seeded, DrawSpace, TypeOK
<1>6. /\ spaces' \subseteq Space /\ activeId' \in SpaceRef /\ tabMap' \in [Tab -> SpaceRef]
  BY <1>1, StateType DEF Load, LoadNothing, LoadFails, Seed, Seeded, DrawSpace, memory
<1>7. Memory' \in State
  BY <1>6 DEF Memory, State, Values, SpaceRef
<1>8. reading' \in State /\ lost' \subseteq Key
  BY <1>1, EmptyType DEF Load, LoadNothing, LoadFails, Seed, Seeded, DrawSpace, SaveSpaces, Issue
<1>9. pending' \in Seq(Write)
  <2>1. CASE Load(k) \/ Seeded(k)
    <3>1. Resume(k)
      BY <2>1 DEF Load, Seeded
    <3> QED  BY <1>1, <1>6, <3>1, AppendType, KeyValues DEF Resume
  <2>2. CASE LoadNothing(k)
    BY <1>1, <1>6, <2>2, AppendType, KeyValues DEF LoadNothing
  <2>3. CASE LoadFails(k)
    BY <1>1, <2>3 DEF LoadFails
  <2>4. CASE Seed(k)
    BY <1>1, <1>6, <2>4, AppendType, KeyValues DEF Seed, DrawSpace, SaveSpaces, Issue
  <2> QED  BY <2>1, <2>2, <2>3, <2>4
<1>10. task' \in [Slot -> Task]
  <2>1. /\ [task[k] EXCEPT !.pc = "seed1"] \in Task
        /\ [task[k] EXCEPT !.pc = "seed2"] \in Task
        /\ [task[k] EXCEPT !.pc = "seed3"] \in Task
    BY <1>1, TaskType DEF Pcs
  <2>2. Waiting("query", NoTab, activeId') \in Task /\ Idle \in Task
    BY <1>6, IdleType DEF Pcs
  <2>3. \E q \in Task : task' = [task EXCEPT ![k] = q]
    <3>1. CASE Load(k) \/ Seeded(k)
      BY <2>2, <3>1 DEF Load, Seeded, Resume
    <3>2. CASE LoadNothing(k) \/ LoadFails(k) \/ Seed(k)
      BY <2>1, <2>2, <3>2 DEF LoadNothing, LoadFails, Seed
    <3> QED  BY <3>1, <3>2
  <2> QED  BY <2>3, TasksType
<1> QED
  BY <1>1, <1>2, <1>3, <1>4, <1>5, <1>7, <1>8, <1>9, <1>10 DEF TypeOK, BrowserOK, CountsOK

\* The steps of the tasks that are not of startup.
Going(k) ==
    \/ ShowOrphans(k) \/ DropSpace(k) \/ ListTabs(k) \/ ShowNext(k) \/ ClearActive(k)
    \/ SortTabs(k) \/ ApplyShow(k) \/ ApplyHide(k) \/ ActivateFirst(k)
    \/ AssignPicked(k) \/ PlaceTab(k) \/ ShowReleased(k)

\* What such a step leaves alone, and how it saves.
LEMMA GoingFrame ==
    ASSUME NEW k, Going(k)
    PROVE  /\ UNCHANGED <<open, front, used, created, history>>
           /\ \E by \in {k, NoSlot} :
                 SaveSpaces(by) \/ SaveActive(by) \/ SaveTabMap(by) \/ UNCHANGED store
BY DEF Going, ShowOrphans, DropSpace, ListTabs, ShowNext, ClearActive, SortTabs, ApplyShow,
       ApplyHide, ActivateFirst, AssignPicked, PlaceTab, ShowReleased, Continue, SetTabSpace

\* The task such a step leaves waiting.
LEMMA GoingTask ==
    ASSUME TypeOK, NEW k \in Slot, Going(k)
    PROVE  \E q \in Task : task' = [task EXCEPT ![k] = q] /\ q.pc # "load"
<1>1. task[k] \in Task /\ open \subseteq Tab /\ front \in Window /\ current[front] \in open
  BY DEF TypeOK
<1>2. Idle \in Task /\ Idle.pc = "idle"
  BY IdleType DEF Idle
<1>3. /\ \A t : /\ [task[k] EXCEPT !.show = @ \ {t}] \in Task
                /\ [task[k] EXCEPT !.hide = @ \ {t}] \in Task
      /\ \A show : [task[k] EXCEPT !.show = show].pc = task[k].pc
      /\ \A hide : [task[k] EXCEPT !.hide = hide].pc = task[k].pc
      /\ [task[k] EXCEPT !.pc = "queryAll"] \in Task
      /\ [task[k] EXCEPT !.pc = "queryAll"].pc = "queryAll"
      /\ [task[k] EXCEPT !.pc = "cleared"] \in Task
      /\ [task[k] EXCEPT !.pc = "cleared"].pc = "cleared"
  <2>1. \A t : /\ [task[k] EXCEPT !.show = @ \ {t}] \in Task
               /\ [task[k] EXCEPT !.hide = @ \ {t}] \in Task
    BY <1>1, TaskType
  <2>2. /\ \A show : [task[k] EXCEPT !.show = show].pc = task[k].pc
        /\ \A hide : [task[k] EXCEPT !.hide = hide].pc = task[k].pc
    BY <1>1 DEF Task
  <2>3. /\ [task[k] EXCEPT !.pc = "queryAll"] \in Task
        /\ [task[k] EXCEPT !.pc = "queryAll"].pc = "queryAll"
        /\ [task[k] EXCEPT !.pc = "cleared"] \in Task
        /\ [task[k] EXCEPT !.pc = "cleared"].pc = "cleared"
    BY <1>1 DEF Task, Pcs
  <2> QED  BY <2>1, <2>2, <2>3
<1>4. CASE ShowOrphans(k) \/ ClearActive(k)
  <2>1. CASE ShowOrphans(k)
    BY <1>3, <2>1 DEF ShowOrphans, Continue
  <2>2. CASE ClearActive(k)
    <3>1. \/ task' = [task EXCEPT ![k] = Idle]
          \/ task' = [task EXCEPT ![k] = [task[k] EXCEPT !.pc = "cleared"]]
      BY <2>2 DEF ClearActive, Continue
    <3> QED  BY <1>2, <1>3, <3>1
  <2> QED  BY <1>4, <2>1, <2>2
<1>5. CASE ShowNext(k) \/ ApplyShow(k) \/ ApplyHide(k)
  <2>1. task[k].pc \in {"showAll", "apply"}
    BY <1>5 DEF ShowNext, ApplyShow, ApplyHide, Continue
  <2>2. PICK t : \/ task' = [task EXCEPT ![k] = [task[k] EXCEPT !.show = @ \ {t}]]
                 \/ task' = [task EXCEPT ![k] = [task[k] EXCEPT !.hide = @ \ {t}]]
    BY <1>5 DEF ShowNext, ApplyShow, ApplyHide, Continue
  <2>3. PICK q \in {[task[k] EXCEPT !.show = @ \ {t}], [task[k] EXCEPT !.hide = @ \ {t}]} :
            task' = [task EXCEPT ![k] = q]
    <3>1. CASE task' = [task EXCEPT ![k] = [task[k] EXCEPT !.show = @ \ {t}]]
      BY <3>1
    <3>2. CASE task' = [task EXCEPT ![k] = [task[k] EXCEPT !.hide = @ \ {t}]]
      BY <3>2
    <3> QED  BY <2>2, <3>1, <3>2
  <2>4. q \in Task
    BY <1>1, <2>3 DEF Task
  <2>5. q.pc = task[k].pc
    BY <1>1, <2>3 DEF Task
  <2> QED  BY <2>1, <2>3, <2>4, <2>5
<1>6. CASE ListTabs(k)
  <2>1. WindowTabs \in SUBSET Tab
    BY <1>1 DEF WindowTabs
  <2>2. PICK q : q = [task[k] EXCEPT !.pc = "showAll", !.show = WindowTabs]
    OBVIOUS
  <2>3. q \in Task /\ q.pc = "showAll"
    BY <1>1, <2>1, <2>2 DEF Task, Pcs
  <2> QED  BY <1>6, <2>2, <2>3 DEF ListTabs, Continue
<1>7. CASE SortTabs(k)
  <2> DEFINE show == {t \in WindowTabs : tabMap[t] = task[k].space}
             hide == {t \in WindowTabs : tabMap[t] \notin {task[k].space, NoSpace}}
  <2>1. PICK first \in (IF show = {} THEN {NoTab} ELSE show) :
            Continue(k, "query", [pc |-> "apply", tab |-> first, space |-> task[k].space,
                                  show |-> show, hide |-> hide])
    BY <1>7 DEF SortTabs
  <2>2. show \subseteq Tab /\ hide \subseteq Tab /\ first \in Tab \cup {NoTab}
    BY <1>1 DEF WindowTabs
  <2> HIDE DEF show, hide
  <2>3. PICK q : q = [pc |-> "apply", tab |-> first, space |-> task[k].space,
                      show |-> show, hide |-> hide]
    OBVIOUS
  <2>4. q \in Task /\ q.pc = "apply"
    BY <1>1, <2>2, <2>3, TaskType DEF Task, Pcs, SpaceRef
  <2> QED  BY <2>1, <2>3, <2>4 DEF Continue
<1>8. CASE AssignPicked(k)
  <2>1. PICK q : q = [task[k] EXCEPT !.pc = "assigned", !.tab = current[front]]
    OBVIOUS
  <2>2. q \in Task /\ q.pc = "assigned"
    BY <1>1, <2>1 DEF Task, Pcs
  <2> QED  BY <1>8, <2>1, <2>2 DEF AssignPicked, Continue
<1>9. CASE DropSpace(k) \/ ActivateFirst(k) \/ PlaceTab(k) \/ ShowReleased(k)
  BY <1>2, <1>9 DEF DropSpace, ActivateFirst, PlaceTab, ShowReleased, Continue
<1> QED  BY <1>4, <1>5, <1>6, <1>7, <1>8, <1>9 DEF Going

LEMMA StepType ==
    ASSUME TypeOK, NEW k \in Slot, Going(k)
    PROVE  TypeOK'
<1>1. /\ Memory \in State /\ StoreOK /\ BrowserOK /\ CountsOK /\ task \in [Slot -> Task]
      /\ created \subseteq Space /\ task[k] \in Task
      /\ spaces \subseteq Space /\ activeId \in SpaceRef /\ tabMap \in [Tab -> SpaceRef]
  BY MemoryType, TypeParts DEF TypeOK
<1>2. CountsOK' /\ created' \subseteq Space
  BY <1>1, GoingFrame DEF CountsOK, history
<1>3. arranged' \in Window \cup {NoWindow}
  BY <1>1 DEF Going, ShowOrphans, DropSpace, ListTabs, ShowNext, ClearActive, SortTabs, ApplyShow,
       ApplyHide, ActivateFirst, AssignPicked, PlaceTab, ShowReleased, TypeOK
<1>4. spaces' \subseteq Space /\ activeId' \in SpaceRef /\ tabMap' \in [Tab -> SpaceRef]
  <2>1. CASE DropSpace(k) \/ ClearActive(k)
    BY <1>1, <2>1 DEF DropSpace, ClearActive, SpaceRef
  <2>2. CASE AssignPicked(k)
    <3>1. task[k].space \in SpaceRef
      BY <1>1, TaskType
    <3> QED  BY <1>1, <2>2, <3>1 DEF AssignPicked, SetTabSpace
  <2>3. CASE UNCHANGED memory
    BY <1>1, <2>3 DEF memory
  <2> QED
    BY <2>1, <2>2, <2>3
       DEF Going, ShowOrphans, ListTabs, ShowNext, SortTabs, ApplyShow, ApplyHide,
           ActivateFirst, PlaceTab, ShowReleased
<1>5. Memory' \in State
  BY <1>4 DEF Memory, State, Values, SpaceRef
<1>6. StoreOK'
  BY <1>1, <1>5, GoingFrame, SaveType
<1>7. task' \in [Slot -> Task]
  BY GoingTask, TasksType
<1>8. BrowserOK'
  <2>1. CASE ActivateFirst(k) /\ task[k].tab \in open
    <3>1. /\ current' = [current EXCEPT ![WindowOf[task[k].tab]] = task[k].tab]
          /\ hidden' = hidden \ {task[k].tab}
      BY <2>1 DEF ActivateFirst, Activate, TabsShow
    <3>2. WindowOf[task[k].tab] \in Window /\ task[k].tab \in Tab
      BY <1>1, <2>1, WindowAssumption DEF BrowserOK
    <3> QED  BY <1>1, <3>1, <3>2, <2>1, GoingFrame DEF BrowserOK, Active
  <2>2. CASE ~(ActivateFirst(k) /\ task[k].tab \in open)
    <3>1. current' = current
      BY <2>2 DEF Going, ShowOrphans, DropSpace, ListTabs, ShowNext, ClearActive, SortTabs,
         ApplyShow, ApplyHide, ActivateFirst, AssignPicked, PlaceTab, ShowReleased
    <3>2. hidden' \subseteq hidden \cup (open \ Active)
      BY <2>2 DEF Going, ShowOrphans, DropSpace, ListTabs, ShowNext, ClearActive, SortTabs,
         ApplyShow, ApplyHide, ActivateFirst, AssignPicked, PlaceTab, ShowReleased, TabsShow, TabsHide
    <3> QED  BY <1>1, <3>1, <3>2, GoingFrame DEF BrowserOK, Active
  <2> QED  BY <2>1, <2>2
<1> QED
  BY <1>2, <1>3, <1>5, <1>6, <1>7, <1>8 DEF TypeOK, BrowserOK, StoreOK, CountsOK

\* The handlers, which begin.
Begins(k) ==
    \/ ExitFilter(k)
    \/ \E s \in Space : DeleteSpace(k, s) \/ SwitchToSpace(k, s) \/ AssignCurrentTab(k, s)
    \/ \E t \in Tab, s \in Space : AssignTab(k, t, s)
    \/ \E t \in Tab : UnassignTab(k, t) \/ OpenTab(k, t)

LEMMA HandleBegins ==
    ASSUME TypeOK, NEW k, Handle(k)
    PROVE  Begins(k)
BY DEF TypeOK, Handle, Begins

LEMMA BeginsFrame ==
    ASSUME NEW k, Begins(k)
    PROVE  /\ UNCHANGED <<created, spaces, arranged>>
           /\ task[k] = Idle
           /\ \E stale : Begin(stale)
           /\ \E by \in {k} : SaveActive(by) \/ SaveTabMap(by) \/ UNCHANGED store
BY DEF Begins, ExitFilter, DeleteSpace, SwitchToSpace, AssignTab, AssignCurrentTab,
       UnassignTab, OpenTab, SetTabSpace, memory

LEMMA BeginsTask ==
    ASSUME TypeOK, NEW k \in Slot, Begins(k)
    PROVE  task' = task \/ \E q \in Task : task' = [task EXCEPT ![k] = q] /\ q.pc # "load"
<1>1. \A pc \in Pcs, t \in Tab \cup {NoTab}, s \in SpaceRef :
          Waiting(pc, t, s) \in Task /\ Waiting(pc, t, s).pc = pc
  BY IdleType DEF Waiting, Idle
<1>2. /\ {"unassigned", "queryAll", "query", "assigned", "pick", "released"} \subseteq Pcs
      /\ activeId \in SpaceRef /\ NoSpace \in SpaceRef /\ Space \subseteq SpaceRef
  BY MemoryType DEF Pcs, SpaceRef, TypeOK
<1>3. CASE ExitFilter(k)
  BY <1>1, <1>2, <1>3 DEF ExitFilter
<1>4. ASSUME NEW s \in Space, DeleteSpace(k, s) \/ SwitchToSpace(k, s) \/ AssignCurrentTab(k, s)
      PROVE  \E q \in Task : task' = [task EXCEPT ![k] = q] /\ q.pc # "load"
  <2>1. CASE DeleteSpace(k, s)
    BY <1>1, <1>2, <2>1 DEF DeleteSpace
  <2>2. CASE SwitchToSpace(k, s)
    BY <1>1, <1>2, <2>2 DEF SwitchToSpace
  <2>3. CASE AssignCurrentTab(k, s)
    BY <1>1, <1>2, <2>3 DEF AssignCurrentTab
  <2> QED  BY <1>4, <2>1, <2>2, <2>3
<1>5. ASSUME NEW t \in Tab, NEW s \in Space, AssignTab(k, t, s)
      PROVE  \E q \in Task : task' = [task EXCEPT ![k] = q] /\ q.pc # "load"
  BY <1>1, <1>2, <1>5 DEF AssignTab
<1>6. ASSUME NEW t \in Tab, UnassignTab(k, t)
      PROVE  \E q \in Task : task' = [task EXCEPT ![k] = q] /\ q.pc # "load"
  BY <1>1, <1>2, <1>6 DEF UnassignTab
<1>7. ASSUME NEW t \in Tab, OpenTab(k, t)
      PROVE  task' = task \/ \E q \in Task : task' = [task EXCEPT ![k] = q] /\ q.pc # "load"
  <2>1. CASE activeId \in spaces
    <3>1. task' = [task EXCEPT ![k] = Waiting("assigned", t, activeId)]
      BY <1>7, <2>1 DEF OpenTab
    <3> QED  BY <1>1, <1>2, <3>1
  <2>2. CASE activeId \notin spaces
    BY <1>7, <2>2 DEF OpenTab
  <2> QED  BY <2>1, <2>2
<1> QED  BY <1>3, <1>4, <1>5, <1>6, <1>7 DEF Begins

LEMMA HandlerType ==
    ASSUME TypeOK, NEW k \in Slot, Begins(k)
    PROVE  TypeOK'
<1>1. /\ StoreOK /\ BrowserOK /\ Memory \in State /\ task \in [Slot -> Task]
      /\ spaces \subseteq Space /\ activeId \in SpaceRef /\ tabMap \in [Tab -> SpaceRef]
  BY MemoryType, TypeParts
<1>2. /\ CountsOK' /\ created' \subseteq Space /\ arranged' \in Window \cup {NoWindow}
      /\ spaces' \subseteq Space
  BY <1>1, BeginsFrame, BeginType DEF TypeOK
<1>3. activeId' \in SpaceRef
  BY <1>1 DEF Begins, ExitFilter, DeleteSpace, SwitchToSpace, AssignTab, AssignCurrentTab,
         UnassignTab, OpenTab, memory, SpaceRef
<1>4. tabMap' \in [Tab -> SpaceRef]
  <2>1. \A t, s \in SpaceRef : [tabMap EXCEPT ![t] = s] \in [Tab -> SpaceRef]
    BY <1>1
  <2>2. \A s : [t \in Tab |-> IF tabMap[t] = s THEN NoSpace ELSE tabMap[t]] \in [Tab -> SpaceRef]
    BY <1>1 DEF SpaceRef
  <2>3. NoSpace \in SpaceRef /\ Space \subseteq SpaceRef
    BY DEF SpaceRef
  <2> QED
    BY <1>1, <2>1, <2>2, <2>3
       DEF Begins, ExitFilter, DeleteSpace, SwitchToSpace, AssignTab, AssignCurrentTab,
           UnassignTab, OpenTab, SetTabSpace, memory
<1>5. Memory' \in State
  BY <1>2, <1>3, <1>4 DEF Memory, State, Values, SpaceRef
<1>6. StoreOK'
  BY <1>1, <1>5, BeginsFrame, SaveType
<1>7. task' \in [Slot -> Task]
  BY <1>1, BeginsTask, TasksType
<1>8. BrowserOK'
  <2>1. CASE UNCHANGED browser
    BY <1>1, <2>1 DEF BrowserOK, browser, Active
  <2>2. ASSUME NEW t \in Tab, OpenTab(k, t)
        PROVE  BrowserOK'
    <3>1. /\ t \notin used /\ open' = open \cup {t} /\ used' = used \cup {t} /\ hidden' = hidden
          /\ current' = current \/ current' = [current EXCEPT ![WindowOf[t]] = t]
          /\ front' = front \/ front' = WindowOf[t]
      BY <2>2 DEF OpenTab
    <3>2. WindowOf[t] \in Window /\ current[WindowOf[t]] \in open \cup {NoTab}
      BY <1>1, WindowAssumption DEF BrowserOK
    <3>3. current'[WindowOf[t]] # NoTab
      BY <1>1, <2>2, <3>2, NoneAssumption DEF OpenTab, BrowserOK
    <3>4. /\ current' \in [Window -> open' \cup {NoTab}]
          /\ \A w \in Window : current'[w] = NoTab \/ WindowOf[current'[w]] = w
          /\ \A w \in Window : current'[w] \in {current[w], t}
      BY <1>1, <3>1, <3>2 DEF BrowserOK
    <3>5. front' \in Window /\ current'[front'] \in open'
      BY <1>1, <3>1, <3>2, <3>3, <3>4, NoneAssumption DEF BrowserOK
    <3>6. hidden' \subseteq open' \ Active'
      BY <1>1, <3>1, <3>4 DEF BrowserOK, Active
    <3> QED  BY <1>1, <3>1, <3>4, <3>5, <3>6 DEF BrowserOK
  <2> QED
    BY <2>1, <2>2 DEF Begins, ExitFilter, DeleteSpace, SwitchToSpace, AssignTab,
       AssignCurrentTab, UnassignTab
<1> QED
  BY <1>2, <1>5, <1>6, <1>7, <1>8 DEF TypeOK, BrowserOK, StoreOK, CountsOK

\* A tab is closed: another of its window becomes active.
LEMMA CloseType ==
    ASSUME TypeOK, NEW t \in open, CloseTab(t)
    PROVE  TypeOK'
<1>1. /\ StoreOK /\ BrowserOK /\ Memory \in State /\ task \in [Slot -> Task]
      /\ spaces \subseteq Space /\ activeId \in SpaceRef /\ tabMap \in [Tab -> SpaceRef]
  BY MemoryType, TypeParts
<1>2. /\ UNCHANGED <<front, used, spaces, activeId, task, created, history, arranged>>
      /\ open' = open \ {t} /\ hidden' = hidden \ {t}
      /\ \E by \in {NoSlot} : SaveTabMap(by) \/ UNCHANGED store
      /\ tabMap' = tabMap \/ tabMap' = [tabMap EXCEPT ![t] = NoSpace]
  BY DEF CloseTab, SetTabSpace
<1>3. Memory' \in State
  BY <1>1, <1>2 DEF Memory, State, Values, SpaceRef
<1>4. StoreOK'
  BY <1>1, <1>2, <1>3, SaveType
<1>5. BrowserOK'
  <2>1. WindowOf[t] \in Window /\ t \in Tab
    BY <1>1, WindowAssumption DEF BrowserOK
  <2>2. CASE t = current[WindowOf[t]]
    <3>1. PICK u \in open \ ({t} \cup hidden) :
              WindowOf[u] = WindowOf[t] /\ current' = [current EXCEPT ![WindowOf[t]] = u]
      BY <2>2 DEF CloseTab
    <3>2. \A w \in Window : current'[w] = IF w = WindowOf[t] THEN u ELSE current[w]
      BY <1>1, <3>1 DEF BrowserOK
    <3>3. \A w \in Window : w # WindowOf[t] => current[w] # t
      BY <1>1, <2>1, NoneAssumption DEF BrowserOK
    <3>4. current' \in [Window -> open' \cup {NoTab}]
      BY <1>1, <1>2, <3>1, <3>2, <3>3 DEF BrowserOK
    <3> QED  BY <1>1, <1>2, <3>1, <3>2, <3>3, <3>4 DEF BrowserOK, Active
  <2>3. CASE t # current[WindowOf[t]]
    <3>1. current' = current
      BY <2>3 DEF CloseTab
    <3>2. \A w \in Window : current[w] # t
      BY <1>1, <2>1, <2>3, NoneAssumption DEF BrowserOK
    <3> QED  BY <1>1, <1>2, <3>1, <3>2 DEF BrowserOK, Active
  <2> QED  BY <2>2, <2>3
<1> QED
  BY <1>2, <1>3, <1>4, <1>5 DEF TypeOK, BrowserOK, StoreOK, CountsOK, history

\* A write of the store is done, or fails.
LEMMA WriteDoneType ==
    ASSUME TypeOK, WriteDone \/ WriteFails
    PROVE  TypeOK'
<1>1. /\ pending \in Seq(Write) /\ pending # <<>> /\ stored \in State /\ lost \subseteq Key
      /\ task \in [Slot -> Task]
  BY DEF TypeOK, WriteDone, WriteFails
<1>2. Head(pending) \in Write /\ Tail(pending) \in Seq(Write)
  BY <1>1
<1>3. PICK w : w = Head(pending)
  OBVIOUS
<1>4. w.key \in Key /\ w.value \in Values[w.key]
  BY <1>2, <1>3, WriteType
<1>5. [stored EXCEPT ![w.key] = w.value] \in State
  BY <1>1, <1>4, KeyValues DEF State, Values
<1>6. [k \in Slot |-> IF k = w.by THEN Idle ELSE task[k]] \in [Slot -> Task]
  BY <1>1, IdleType
<1>7. CASE WriteDone
  <2>1. /\ stored' = [stored EXCEPT ![w.key] = w.value] /\ lost' = lost \ {w.key}
        /\ pending' = Tail(pending)
    BY <1>3, <1>7 DEF WriteDone
  <2>2. /\ UNCHANGED <<open, hidden, current, front, used, spaces, activeId, tabMap>>
        /\ UNCHANGED <<reading, task, created, handlers, restarts, failures, race, arranged>>
    BY <1>7 DEF WriteDone, browser, memory, history
  <2>3. Memory' \in State /\ Active' = Active
    BY <2>2 DEF TypeOK, Memory, Active
  <2> QED  BY <1>1, <1>2, <1>5, <2>1, <2>2, <2>3 DEF TypeOK
<1>8. CASE WriteFails
  <2>1. /\ lost' = lost \cup {w.key} /\ pending' = Tail(pending)
        /\ task' = [k \in Slot |-> IF k = w.by THEN Idle ELSE task[k]]
    BY <1>3, <1>8 DEF WriteFails
  <2>2. failures' \in 0..MaxFailures
    BY <1>8, BoundsAssumption DEF WriteFails, Fail, TypeOK
  <2> QED
    BY <1>1, <1>2, <1>4, <1>6, <1>8, <2>1, <2>2
       DEF WriteFails, Fail, TypeOK, browser, memory, Memory, Active
<1> QED  BY <1>7, <1>8

LEMMA NextType == TypeOK /\ [Next]_vars => TypeOK'
<1> SUFFICES ASSUME TypeOK, [Next]_vars PROVE TypeOK'
  OBVIOUS
<1>1. /\ StoreOK /\ BrowserOK /\ CountsOK /\ Memory \in State
      /\ spaces \subseteq Space /\ activeId \in SpaceRef /\ tabMap \in [Tab -> SpaceRef]
  BY MemoryType, TypeParts
<1>2. CASE Restart
  <2>1. StoreOK' /\ CountsOK'
    BY <1>1, <1>2, BoundsAssumption DEF Restart, StoreOK, CountsOK
  <2> QED
    BY <1>2, <2>1, BootType DEF Restart, TypeOK, BrowserOK, StoreOK, CountsOK
<1>3. CASE CreateSpace \/ \E s \in Space : RenameSpace(s)
  <2>1. /\ spaces' \subseteq Space /\ created' \subseteq Space
        /\ UNCHANGED <<browser, activeId, tabMap, task, arranged>>
        /\ \E by \in {NoSlot} : SaveSpaces(by)
        /\ Begin(FALSE)
    BY <1>1, <1>3 DEF CreateSpace, RenameSpace, DrawSpace, TypeOK, memory
  <2>2. Memory' \in State
    BY <1>1, <2>1 DEF Memory, State, Values, SpaceRef
  <2>3. StoreOK'
    BY <1>1, <2>1, <2>2, SaveType
  <2> QED
    BY <1>1, <2>1, <2>2, <2>3, BeginType DEF TypeOK, BrowserOK, StoreOK, CountsOK, browser, Active
<1>4. CASE \E t \in open : CloseTab(t)
  BY <1>4, CloseType
<1>5. ASSUME NEW t \in open \ hidden, SelectTab(t)
      PROVE  TypeOK'
  <2>1. WindowOf[t] \in Window
    BY <1>1, WindowAssumption DEF BrowserOK
  <2>2. BrowserOK'
    BY <1>1, <1>5, <2>1 DEF SelectTab, BrowserOK, Active
  <2> QED
    BY <1>5, <2>2 DEF SelectTab, TypeOK, BrowserOK, memory, store, Memory, history
<1>6. ASSUME NEW k \in Slot, Step(k)
      PROVE  TypeOK'
  BY <1>6, StartupType, StepType DEF Step, Going
<1>7. ASSUME NEW k \in Slot, Handle(k)
      PROVE  TypeOK'
  BY <1>7, HandleBegins, HandlerType
<1>8. CASE UNCHANGED vars
  BY <1>8 DEF vars, TypeOK, browser, memory, store, Memory, history, Active
<1> QED
  BY <1>2, <1>3, <1>4, <1>5, <1>6, <1>7, <1>8, WriteDoneType DEF Next

-----------------------------------------------------------------------------
(* The store follows the memory.                                           *)

\* The body of StorageFollowsMemory, for a memory m, a store st, the writes ws
\* on their way and the keys lo whose last write failed.
Of(ws, key) == {i \in DOMAIN ws : ws[i].key = key}

Follows(m, st, ws, lo) ==
    \A key \in Key :
        /\ \A i \in Of(ws, key) : (\A j \in Of(ws, key) : j <= i) => ws[i].value = m[key]
        /\ Of(ws, key) = {} => key \in lo \/ st[key] = m[key]

LEMMA FollowsIs ==
    StorageFollowsMemory <=>
        (~Loading /\ race # "loading" => Follows(Memory, stored, pending, lost))
BY DEF StorageFollowsMemory, Follows, Of

\* With nothing on its way, a memory that is the store is followed.
LEMMA FollowsItself ==
    ASSUME NEW m, NEW lo
    PROVE  Follows(m, m, <<>>, lo)
BY DEF Follows, Of

\* A write with the new value of its key: the memory changes nowhere else.
LEMMA FollowsIssue ==
    ASSUME NEW m, NEW n, NEW st, NEW ws \in Seq(Write), NEW lo, Follows(m, st, ws, lo),
           NEW k \in Key, NEW by \in Slot \cup {NoSlot}, n[k] \in Values[k],
           \A key \in Key \ {k} : n[key] = m[key]
    PROVE  Follows(n, st, Append(ws, [key |-> k, value |-> n[k], by |-> by]), lo)
<1> DEFINE w == [key |-> k, value |-> n[k], by |-> by]
           us == Append(ws, w)
<1>1. w.key = k /\ w.value = n[k] /\ w \in Write
  BY WriteType
<1> HIDE DEF w
<1>2. /\ DOMAIN ws = 1..Len(ws) /\ Len(ws) \in Nat
      /\ DOMAIN us = 1..(Len(ws) + 1)
      /\ us[Len(ws) + 1] = w
      /\ \A i \in 1..Len(ws) : us[i] = ws[i]
  BY <1>1
<1> HIDE DEF us
<1>3. Of(us, k) = Of(ws, k) \cup {Len(ws) + 1}
  BY <1>1, <1>2 DEF Of
<1>4. \A key \in Key \ {k} : Of(us, key) = Of(ws, key)
  BY <1>1, <1>2 DEF Of
<1>5. ASSUME NEW key \in Key
      PROVE  /\ \A i \in Of(us, key) : (\A j \in Of(us, key) : j <= i) => us[i].value = n[key]
             /\ Of(us, key) = {} => key \in lo \/ st[key] = n[key]
  <2>1. CASE key = k
    <3>1. SUFFICES ASSUME NEW i \in Of(us, k), \A j \in Of(us, k) : j <= i
                   PROVE  us[i].value = n[k]
      BY <1>3, <2>1
    <3>2. i = Len(ws) + 1
      BY <1>2, <1>3, <3>1 DEF Of
    <3> QED  BY <1>1, <1>2, <3>2
  <2>2. CASE key # k
    <3>1. Of(us, key) = Of(ws, key) /\ n[key] = m[key]
      BY <1>4, <2>2
    <3>2. \A i \in Of(us, key) : us[i] = ws[i]
      BY <1>2, <3>1 DEF Of
    <3> QED  BY <3>1, <3>2 DEF Follows
  <2> QED  BY <2>1, <2>2
<1>6. Follows(n, st, us, lo)
  BY <1>5 DEF Follows
<1> QED  BY <1>6 DEF us, w

\* The first write goes: into the store, or it fails.
LEMMA FollowsDone ==
    ASSUME NEW m, NEW st \in State, NEW ws \in Seq(Write), NEW lo, ws # <<>>,
           Follows(m, st, ws, lo)
    PROVE  LET w == Head(ws)
           IN  /\ Follows(m, [st EXCEPT ![w.key] = w.value], Tail(ws), lo \ {w.key})
               /\ Follows(m, st, Tail(ws), lo \cup {w.key})
<1> DEFINE us == Tail(ws)
<1>1. PICK w : w = Head(ws)
  OBVIOUS
<1>2. /\ Len(ws) \in Nat /\ Len(ws) >= 1 /\ DOMAIN ws = 1..Len(ws) /\ w = ws[1]
      /\ DOMAIN us = 1..(Len(ws) - 1)
      /\ \A i \in 1..(Len(ws) - 1) : us[i] = ws[i + 1]
  BY <1>1
<1>3. w.key \in Key
  BY <1>1, WriteType
<1> HIDE DEF us
<1>4. ASSUME NEW key \in Key
      PROVE  /\ \A i \in Of(us, key) : i + 1 \in Of(ws, key)
             /\ \A j \in Of(ws, key) : j = 1 \/ j - 1 \in Of(us, key)
             /\ 1 \in Of(ws, key) <=> w.key = key
  BY <1>2 DEF Of
<1>5. ASSUME NEW key \in Key, NEW i \in Of(us, key), \A j \in Of(us, key) : j <= i
      PROVE  us[i].value = m[key]
  <2>1. i \in 1..(Len(ws) - 1) /\ Of(ws, key) \subseteq 1..Len(ws)
    BY <1>2 DEF Of
  <2>2. i + 1 \in Of(ws, key) /\ \A j \in Of(ws, key) : j <= i + 1
    BY <1>2, <1>4, <1>5, <2>1
  <2>3. ws[i + 1].value = m[key]
    BY <2>2 DEF Follows
  <2> QED  BY <1>2, <2>1, <2>3
<1>6. ASSUME NEW key \in Key, Of(us, key) = {}, w.key = key
      PROVE  w.value = m[key]
  <2>1. Of(ws, key) = {1}
    BY <1>4, <1>6
  <2> QED  BY <1>2, <2>1 DEF Follows
<1>7. ASSUME NEW key \in Key, Of(us, key) = {}, w.key # key
      PROVE  key \in lo \/ st[key] = m[key]
  <2>1. Of(ws, key) = {}
    BY <1>4, <1>7
  <2> QED  BY <2>1 DEF Follows
<1>8. \A key \in Key : [st EXCEPT ![w.key] = w.value][key] = IF key = w.key THEN w.value ELSE st[key]
  BY <1>3, StateType
<1>9. Follows(m, [st EXCEPT ![w.key] = w.value], us, lo \ {w.key})
  <2>1. PICK sx : sx = [st EXCEPT ![w.key] = w.value]
    OBVIOUS
  <2> QED  BY <1>5, <1>6, <1>7, <1>8, <2>1 DEF Follows
<1>10. Follows(m, st, us, lo \cup {w.key})
  BY <1>5, <1>7 DEF Follows
<1> QED  BY <1>1, <1>9, <1>10 DEF us

\* What a step changes of the memory, it saves.
Keeps(by) ==
    \/ SaveSpaces(by) /\ UNCHANGED <<activeId, tabMap>>
    \/ SaveActive(by) /\ UNCHANGED <<spaces, tabMap>>
    \/ SaveTabMap(by) /\ UNCHANGED <<spaces, activeId>>
    \/ UNCHANGED <<store, memory>>

Followed == Follows(Memory, stored, pending, lost)

LEMMA KeepsFollows ==
    ASSUME TypeOK, Memory' \in State, Followed, NEW by \in Slot \cup {NoSlot}, Keeps(by)
    PROVE  Followed'
<1>1. PICK n : n = Memory'
  OBVIOUS
<1>2. PICK m : m = Memory
  OBVIOUS
<1>3. /\ n["spaces"] = spaces' /\ n["active"] = activeId' /\ n["tabMap"] = tabMap'
      /\ m["spaces"] = spaces /\ m["active"] = activeId /\ m["tabMap"] = tabMap
  BY <1>1, <1>2 DEF Memory
<1>4. \A key \in Key : n[key] \in Values[key]
  BY <1>1, KeyValues DEF State, Values
<1>5. pending \in Seq(Write) /\ Follows(m, stored, pending, lost)
  BY <1>2 DEF TypeOK, Followed
<1>6. Follows(n, stored', pending', lost')
  <2>1. CASE SaveSpaces(by) /\ UNCHANGED <<activeId, tabMap>>
    BY <1>3, <1>4, <1>5, <2>1, FollowsIssue, KeyValues DEF SaveSpaces, Issue
  <2>2. CASE SaveActive(by) /\ UNCHANGED <<spaces, tabMap>>
    BY <1>3, <1>4, <1>5, <2>2, FollowsIssue, KeyValues DEF SaveActive, Issue
  <2>3. CASE SaveTabMap(by) /\ UNCHANGED <<spaces, activeId>>
    BY <1>3, <1>4, <1>5, <2>3, FollowsIssue, KeyValues DEF SaveTabMap, Issue
  <2>4. CASE UNCHANGED <<store, memory>>
    <3>1. n = m
      BY <1>1, <1>2, <2>4 DEF memory, Memory
    <3> QED  BY <1>5, <2>4, <3>1 DEF store
  <2> QED  BY <2>1, <2>2, <2>3, <2>4 DEF Keeps
<1> QED  BY <1>1, <1>6 DEF Followed

LEMMA GoingKeeps ==
    ASSUME NEW k, Going(k)
    PROVE  \E by \in {k, NoSlot} : Keeps(by)
BY DEF Going, ShowOrphans, DropSpace, ListTabs, ShowNext, ClearActive, SortTabs, ApplyShow,
       ApplyHide, ActivateFirst, AssignPicked, PlaceTab, ShowReleased, SetTabSpace, memory, Keeps

LEMMA BeginsKeeps ==
    ASSUME NEW k, Begins(k)
    PROVE  Keeps(k)
BY DEF Begins, ExitFilter, DeleteSpace, SwitchToSpace, AssignTab, AssignCurrentTab,
       UnassignTab, OpenTab, SetTabSpace, memory, Keeps

\* As long as no handler has begun before the state is loaded, nothing else
\* waits then, the memory is empty, no write is on its way, and what is read
\* is still in the store.
LoadsAlone ==
    race # "loading" => \A k \in Slot : task[k].pc = "load" =>
        /\ reading = stored /\ pending = <<>>
        /\ spaces = {} /\ activeId = NoSpace /\ tabMap = NoTabMap
        /\ \A j \in Slot \ {k} : task[j] = Idle

StoreInv ==
    /\ TypeOK
    /\ StorageFollowsMemory
    /\ LoadsAlone

LEMMA IdleDoesNotLoad ==
    /\ Idle.pc = "idle"
    /\ \A pc, t, s : Waiting(pc, t, s).pc = pc
BY DEF Idle, Waiting

\* One task goes on, not to load, and the store still follows.
LEMMA GoesOn ==
    ASSUME StoreInv, TypeOK', NEW k \in Slot,
           \A j \in Slot \ {k} : task'[j] = task[j],
           task'[k].pc # "load",
           race' # "loading" => race # "loading" /\ (~Loading \/ task[k] # Idle),
           race # "loading" /\ (Followed \/ task[k].pc = "load") => Followed'
    PROVE  StoreInv'
<1> SUFFICES ASSUME race' # "loading"
             PROVE  ~Loading' /\ Followed'
  BY DEF StoreInv, StorageFollowsMemory, Followed, Follows, Of, LoadsAlone, Loading
<1>1. race # "loading"
  OBVIOUS
<1>2. \A j \in Slot \ {k} : task[j].pc # "load"
  BY <1>1, IdleDoesNotLoad DEF StoreInv, LoadsAlone, Loading
<1>3. ~Loading'
  BY <1>2 DEF Loading
<1>4. Followed \/ task[k].pc = "load"
  BY <1>1, <1>2, FollowsIs DEF StoreInv, Followed, Loading
<1> QED  BY <1>1, <1>3, <1>4

LEMMA BeginRace ==
    ASSUME NEW stale, Begin(stale)
    PROVE  /\ race' # "loading" => race # "loading" /\ ~Loading
           /\ race' = "none" => race = "none" /\ Quiet /\ ~stale /\ ~Loading
<1>1. CASE Loading \/ race = "loading"
  BY <1>1 DEF Begin
<1>2. CASE ~(Loading \/ race = "loading") /\ race = "none" /\ (stale \/ ~Quiet)
  BY <1>2 DEF Begin
<1>3. CASE ~(Loading \/ race = "loading") /\ ~(race = "none" /\ (stale \/ ~Quiet))
  BY <1>3 DEF Begin
<1> QED  BY <1>1, <1>2, <1>3

\* The end of startup writes the active space again, or nothing.
LEMMA ResumeFollows ==
    ASSUME TypeOK, TypeOK', NEW k \in Slot, Resume(k), Follows(Memory', stored, pending, lost),
           UNCHANGED <<stored, lost>>
    PROVE  Followed'
<1>1. PICK n : n = Memory'
  OBVIOUS
<1>2. n["active"] = activeId' /\ \A key \in Key : n[key] \in Values[key]
  BY <1>1, KeyValues DEF Memory, TypeOK, State, Values
<1>3. Follows(n, stored', pending', lost')
  <2>1. CASE activeId' \in spaces'
    <3>1. pending' = Append(pending, [key |-> "active", value |-> n["active"], by |-> k])
      BY <1>2, <2>1 DEF Resume
    <3>2. pending \in Seq(Write) /\ "active" \in Key /\ Follows(n, stored, pending, lost)
      BY <1>1, KeyValues DEF TypeOK
    <3> QED  BY <1>2, <3>1, <3>2, FollowsIssue
  <2>2. CASE activeId' \notin spaces'
    BY <1>1, <2>2 DEF Resume
  <2> QED  BY <2>1, <2>2
<1> QED  BY <1>1, <1>3 DEF Followed

LEMMA StartupStore ==
    ASSUME StoreInv, TypeOK', NEW k \in Slot,
           Load(k) \/ LoadNothing(k) \/ LoadFails(k) \/ Seed(k) \/ Seeded(k)
    PROVE  StoreInv'
<1>1. /\ task \in [Slot -> Task] /\ task[k] # Idle /\ task[k] \in Task /\ TypeOK
      /\ race' = race \/ race' = "loading"
  BY IdleDoesNotLoad DEF StoreInv, TypeOK, Load, LoadNothing, LoadFails, Seed, Seeded, history
<1>2. (\A j \in Slot \ {k} : task'[j] = task[j]) /\ task'[k].pc # "load"
  <2>1. CASE Load(k) \/ LoadFails(k) \/ Seeded(k)
    BY <1>1, <2>1, IdleDoesNotLoad DEF Load, LoadFails, Seeded, Resume
  <2>2. CASE LoadNothing(k) \/ Seed(k)
    BY <1>1, <2>2 DEF LoadNothing, Seed, Task
  <2> QED  BY <2>1, <2>2
<1>3. ASSUME race # "loading", Followed \/ task[k].pc = "load", race' # "loading"
      PROVE  Followed'
  <2>1. CASE Load(k) \/ LoadNothing(k)
    <3>1. reading = stored /\ pending = <<>> /\ stored \in State
      BY <1>3, <2>1 DEF StoreInv, LoadsAlone, TypeOK, Load, LoadNothing
    <3>2. /\ stored = [spaces |-> stored.spaces, active |-> stored.active, tabMap |-> stored.tabMap]
          /\ activeId' = stored.active /\ tabMap' = stored.tabMap
          /\ UNCHANGED <<stored, lost>>
      BY <2>1, <3>1, StateType DEF Load, LoadNothing
    <3>3. Follows(stored, stored, pending, lost)
      BY <3>1, FollowsItself
    <3>4. CASE Load(k)
      <4>1. Memory' = stored
        BY <3>1, <3>2, <3>4 DEF Load, Memory
      <4> QED  BY <1>1, <3>2, <3>3, <3>4, <4>1, ResumeFollows DEF Load
    <3>5. CASE LoadNothing(k)
      <4>1. PICK n : n = Memory'
        OBVIOUS
      <4>2. /\ n["spaces"] = spaces' /\ \A key \in Key : n[key] \in Values[key]
            /\ \A key \in Key \ {"spaces"} : n[key] = stored[key]
        BY <3>2, <4>1, KeyValues DEF Memory, TypeOK, State, Values, Key
      <4>3. pending' = Append(pending, [key |-> "spaces", value |-> n["spaces"], by |-> k])
        BY <3>5, <4>2 DEF LoadNothing
      <4>4. Follows(n, stored, pending', lost)
        BY <1>1, <3>3, <4>2, <4>3, FollowsIssue, KeyValues DEF TypeOK
      <4> QED  BY <3>2, <4>1, <4>4 DEF Followed
    <3> QED  BY <2>1, <3>4, <3>5
  <2>2. CASE Seed(k)
    <3>1. Keeps(k) /\ Followed
      BY <1>3, <2>2 DEF Seed, DrawSpace, Keeps
    <3> QED  BY <1>1, <3>1, KeepsFollows DEF TypeOK
  <2>3. CASE Seeded(k)
    <3>1. Memory' = Memory /\ Followed /\ UNCHANGED <<stored, lost>>
      BY <1>3, <2>3 DEF Seeded, memory, Memory
    <3> QED  BY <1>1, <2>3, <3>1, ResumeFollows DEF Seeded, Followed
  <2>4. CASE LoadFails(k)
    BY <1>3, <2>4 DEF LoadFails
  <2> QED  BY <2>1, <2>2, <2>3, <2>4
<1>4. CASE race' = "loading"
  BY <1>4, FollowsIs DEF StoreInv, StorageFollowsMemory, LoadsAlone
<1>5. CASE race' # "loading"
  BY <1>1, <1>2, <1>3, <1>5, GoesOn
<1> QED  BY <1>4, <1>5

LEMMA StepStore ==
    ASSUME StoreInv, TypeOK', NEW k \in Slot, Going(k)
    PROVE  StoreInv'
<1>1. task \in [Slot -> Task] /\ race' = race /\ TypeOK
  BY GoingFrame DEF StoreInv, TypeOK, history
<1>2. task[k].pc \notin {"idle", "load"}
  BY DEF Going, ShowOrphans, DropSpace, ListTabs, ShowNext, ClearActive, SortTabs, ApplyShow,
       ApplyHide, ActivateFirst, AssignPicked, PlaceTab, ShowReleased, Continue
<1>3. (\A j \in Slot \ {k} : task'[j] = task[j]) /\ task'[k].pc # "load"
  BY <1>1, GoingTask
<1>4. Followed => Followed'
  <2>1. PICK by \in Slot \cup {NoSlot} : Keeps(by)
    BY GoingKeeps
  <2> QED  BY <1>1, <2>1, KeepsFollows DEF TypeOK
<1> QED  BY <1>1, <1>2, <1>3, <1>4, IdleDoesNotLoad, GoesOn

LEMMA HandlerStore ==
    ASSUME StoreInv, TypeOK', NEW k \in Slot, Begins(k)
    PROVE  StoreInv'
<1>1. TypeOK /\ task \in [Slot -> Task] /\ task[k] = Idle
  BY BeginsFrame DEF StoreInv, TypeOK
<1>2. race' # "loading" => race # "loading" /\ ~Loading
  BY BeginsFrame, BeginRace
<1>3. (\A j \in Slot \ {k} : task'[j] = task[j]) /\ task'[k].pc # "load"
  BY <1>1, BeginsTask, IdleDoesNotLoad
<1>4. Followed => Followed'
  BY <1>1, BeginsKeeps, KeepsFollows DEF TypeOK
<1> QED  BY <1>1, <1>2, <1>3, <1>4, IdleDoesNotLoad, GoesOn

\* No task goes on, and the store still follows.
LEMMA NoneGoesOn ==
    ASSUME StoreInv, TypeOK',
           race' # "loading" => /\ race # "loading" /\ task' = task
                                /\ Followed => Followed'
                                /\ Loading => UNCHANGED <<reading, stored, pending, memory>>
    PROVE  StoreInv'
<1> SUFFICES ASSUME race' # "loading"
             PROVE  (~Loading' => Followed') /\ LoadsAlone'
  BY FollowsIs DEF StoreInv, StorageFollowsMemory, Followed, Follows, Of, LoadsAlone
<1>1. ~Loading' => Followed'
  BY FollowsIs DEF StoreInv, Followed, Loading
<1>2. LoadsAlone'
  BY DEF StoreInv, LoadsAlone, Loading, memory
<1> QED  BY <1>1, <1>2

LEMMA InitStore == Init => StoreInv
<1> SUFFICES ASSUME Init PROVE StoreInv
  OBVIOUS
<1>1. PICK k \in Slot : task = [j \in Slot |-> IF j = k THEN Waiting("load", NoTab, NoSpace) ELSE Idle]
  BY DEF Init
<1>2. task[k].pc = "load" /\ \A j \in Slot \ {k} : task[j] = Idle /\ task[j].pc = "idle"
  BY <1>1, IdleDoesNotLoad
<1>3. LoadsAlone
  BY <1>2 DEF Init, LoadsAlone, Empty
<1>4. StorageFollowsMemory
  BY <1>2 DEF StorageFollowsMemory, Loading
<1> QED  BY <1>3, <1>4, InitType DEF StoreInv

LEMMA NextStore == StoreInv /\ [Next]_vars => StoreInv'
<1> SUFFICES ASSUME StoreInv, [Next]_vars PROVE StoreInv'
  OBVIOUS
<1>1. TypeOK /\ TypeOK'
  BY NextType DEF StoreInv
<1>2. CASE Restart
  <2>1. PICK k \in Slot : task' = [j \in Slot |-> IF j = k THEN Waiting("load", NoTab, NoSpace) ELSE Idle]
    BY <1>2 DEF Restart, Boot
  <2>2. task'[k].pc = "load" /\ \A j \in Slot \ {k} : task'[j] = Idle /\ task'[j].pc = "idle"
    BY <2>1, IdleDoesNotLoad
  <2>3. LoadsAlone'
    BY <1>2, <2>2 DEF Restart, Boot, LoadsAlone
  <2>4. StorageFollowsMemory'
    BY <2>2 DEF StorageFollowsMemory, Loading
  <2> QED  BY <1>1, <2>3, <2>4 DEF StoreInv
<1>3. CASE CreateSpace \/ \E s \in Space : RenameSpace(s)
  <2>1. /\ task' = task /\ Begin(FALSE)
        /\ \E by \in {NoSlot} : Keeps(by)
    BY <1>3 DEF CreateSpace, RenameSpace, DrawSpace, memory, Keeps
  <2>2. race' # "loading" => race # "loading" /\ ~Loading
    BY <2>1, BeginRace
  <2>3. Followed => Followed'
    BY <1>1, <2>1, KeepsFollows DEF TypeOK
  <2> QED  BY <1>1, <2>1, <2>2, <2>3, NoneGoesOn
<1>4. ASSUME NEW t \in open, CloseTab(t)
      PROVE  StoreInv'
  <2>1. UNCHANGED <<task, race, reading, spaces, activeId>> /\ \E by \in {NoSlot} : Keeps(by)
    BY <1>4 DEF CloseTab, SetTabSpace, history, store, memory, Keeps, Issue, SaveTabMap
  <2>2. Followed => Followed'
    BY <1>1, <2>1, KeepsFollows DEF TypeOK
  <2>3. tabMap = NoTabMap => UNCHANGED <<reading, stored, pending, memory>>
    BY <1>1, <1>4 DEF CloseTab, NoTabMap, TypeOK, store, memory
  <2>4. Loading /\ race # "loading" => tabMap = NoTabMap
    BY DEF StoreInv, LoadsAlone, Loading
  <2> QED  BY <1>1, <2>1, <2>2, <2>3, <2>4, NoneGoesOn
<1>5. CASE UNCHANGED vars \/ \E t \in open \ hidden : SelectTab(t)
  <2>1. UNCHANGED <<task, race, store, memory>>
    BY <1>5 DEF SelectTab, vars, history
  <2>2. Followed => Followed'
    BY <2>1 DEF Followed, Memory, store, memory
  <2> QED  BY <1>1, <2>1, <2>2, NoneGoesOn DEF store
<1>6. ASSUME NEW k \in Slot, Step(k)
      PROVE  StoreInv'
  BY <1>1, <1>6, StartupStore, StepStore DEF Step, Going
<1>7. ASSUME NEW k \in Slot, Handle(k)
      PROVE  StoreInv'
  BY <1>1, <1>7, HandleBegins, HandlerStore
<1>8. CASE WriteDone \/ WriteFails
  <2>1. /\ pending # <<>> /\ pending \in Seq(Write) /\ stored \in State
        /\ UNCHANGED memory /\ race' = race
    BY <1>1, <1>8 DEF WriteDone, WriteFails, TypeOK, history
  <2>2. ~Loading \/ race = "loading"
    BY <2>1 DEF StoreInv, LoadsAlone, Loading
  <2>3. PICK w : w = Head(pending)
    OBVIOUS
  <2>4. Followed => Followed'
    <3>1. SUFFICES ASSUME Followed
                   PROVE  Follows(Memory, stored', pending', lost')
      BY <2>1 DEF Followed, Memory, memory
    <3>2. CASE WriteDone
      <4>1. /\ stored' = [stored EXCEPT ![w.key] = w.value] /\ lost' = lost \ {w.key}
            /\ pending' = Tail(pending)
        BY <2>3, <3>2 DEF WriteDone
      <4> QED  BY <2>1, <2>3, <3>1, <4>1, FollowsDone DEF Followed
    <3>3. CASE WriteFails
      <4>1. /\ stored' = stored /\ lost' = lost \cup {w.key}
            /\ pending' = Tail(pending)
        BY <2>3, <3>3 DEF WriteFails
      <4> QED  BY <2>1, <2>3, <3>1, <4>1, FollowsDone DEF Followed
    <3> QED  BY <1>8, <3>2, <3>3
  <2>5. ~Loading => ~Loading'
    BY <1>1, <1>8, IdleDoesNotLoad DEF WriteDone, WriteFails, Loading, TypeOK
  <2>6. race' # "loading" => ~Loading' /\ Followed'
    BY <2>1, <2>2, <2>4, <2>5, FollowsIs DEF StoreInv, Followed
  <2> QED
    BY <1>1, <2>6 DEF StoreInv, StorageFollowsMemory, Followed, Follows, Of, LoadsAlone, Loading
<1> QED
  BY <1>2, <1>3, <1>4, <1>5, <1>6, <1>7, <1>8 DEF Next

-----------------------------------------------------------------------------
(* What the store may hold.                                                *)

\* The writes on their way, and the values a key has or gets by them.
InFlight == {pending[i] : i \in DOMAIN pending}
Held == [key \in Key |-> {stored[key]} \cup {w.value : w \in {x \in InFlight : x.key = key}}]
None(key) == \A w \in InFlight : w.key # key

LEMMA QuietHeld ==
    ASSUME pending = <<>>
    PROVE  InFlight = {} /\ \A key \in Key : Held[key] = {stored[key]}
BY DEF InFlight, Held

LEMMA SavedIs ==
    ASSUME NEW k
    PROVE  Saved(k) <=> \A w \in InFlight : w.by # k
BY DEF Saved, InFlight

LEMMA IssueHeld ==
    ASSUME pending \in Seq(Write), NEW key, NEW v, NEW by,
           [key |-> key, value |-> v, by |-> by] \in Write,
           pending' = Append(pending, [key |-> key, value |-> v, by |-> by]), stored' = stored
    PROVE  /\ InFlight' = InFlight \cup {[key |-> key, value |-> v, by |-> by]}
           /\ \A K \in Key : Held'[K] = Held[K] \cup IF K = key THEN {v} ELSE {}
<1>1. PICK w : w = [key |-> key, value |-> v, by |-> by]
  OBVIOUS
<1>2. /\ DOMAIN pending = 1..Len(pending) /\ Len(pending) \in Nat
      /\ DOMAIN pending' = 1..(Len(pending) + 1)
      /\ pending'[Len(pending) + 1] = w
      /\ \A i \in 1..Len(pending) : pending'[i] = pending[i]
  BY <1>1
<1>3. InFlight' = InFlight \cup {w}
  BY <1>2 DEF InFlight
<1>4. w.key = key /\ w.value = v
  BY <1>1
<1>5. \A K \in Key : Held'[K] = Held[K] \cup IF K = key THEN {v} ELSE {}
  BY <1>3, <1>4 DEF Held
<1> QED  BY <1>1, <1>3, <1>5

LEMMA DoneHeld ==
    ASSUME pending \in Seq(Write), stored \in State, WriteDone
    PROVE  \E w \in InFlight :
              /\ w.key \in Key
              /\ InFlight' \subseteq InFlight /\ InFlight \subseteq InFlight' \cup {w}
              /\ \A K \in Key : stored'[K] = IF K = w.key THEN w.value ELSE stored[K]
              /\ \A K \in Key : Held'[K] \subseteq Held[K]
<1>1. PICK w : w = Head(pending)
  OBVIOUS
<1>2. /\ pending # <<>> /\ pending' = Tail(pending)
      /\ stored' = [stored EXCEPT ![w.key] = w.value]
  BY <1>1 DEF WriteDone
<1>3. /\ Len(pending) \in Nat /\ Len(pending) >= 1 /\ DOMAIN pending = 1..Len(pending)
      /\ w = pending[1]
      /\ DOMAIN pending' = 1..(Len(pending) - 1)
      /\ \A i \in 1..(Len(pending) - 1) : pending'[i] = pending[i + 1]
  BY <1>1, <1>2
<1>4. w \in InFlight /\ InFlight' \subseteq InFlight
  BY <1>3 DEF InFlight
<1>5. InFlight \subseteq InFlight' \cup {w}
  <2>1. SUFFICES ASSUME NEW i \in 1..Len(pending), i # 1
                 PROVE  pending[i] \in InFlight'
    BY <1>3 DEF InFlight
  <2>2. i - 1 \in 1..(Len(pending) - 1) /\ pending'[i - 1] = pending[i]
    BY <1>3, <2>1
  <2> QED  BY <1>3, <2>2 DEF InFlight
<1>6. w.key \in Key
  BY <1>1, <1>2, WriteType
<1>7. \A K \in Key : stored'[K] = IF K = w.key THEN w.value ELSE stored[K]
  BY <1>2, StateType
<1>8. \A K \in Key : Held'[K] \subseteq Held[K]
  BY <1>4, <1>7 DEF Held
<1> QED  BY <1>4, <1>5, <1>6, <1>7, <1>8

\* A set of positions has a last one, if it has any.
LEMMA LastOf ==
    ASSUME NEW n \in Nat, NEW S \in SUBSET (1..n), S # {}
    PROVE  \E i \in S : \A j \in S : j <= i
<1> DEFINE R == {p \in Nat \X Nat : p[1] < p[2]}
           T == {n - i : i \in S}
<1>1. IsWellFoundedOn(R, Nat)
  BY NatLessThanWellFounded DEF OpToRel
<1>2. T \subseteq Nat /\ T # {}
  <2>1. \A i \in S : i \in 1..n /\ n - i \in Nat
    OBVIOUS
  <2>2. PICK i \in S : TRUE
    OBVIOUS
  <2>3. n - i \in T
    OBVIOUS
  <2> QED  BY <2>1, <2>3
<1>3. PICK x \in T : \A y \in T : <<y, x>> \notin R
  <2> HIDE DEF R, T
  <2> QED  BY <1>1, <1>2, WFMin
<1>4. PICK i \in S : x = n - i
  OBVIOUS
<1>5. ASSUME NEW j \in S
      PROVE  j <= i
  <2>1. n - j \in T /\ n - j \in Nat /\ x \in Nat
    BY <1>2
  <2>2. ~ (n - j < x)
    BY <1>3, <2>1
  <2> QED  BY <1>4, <2>2
<1> QED  BY <1>5

\* What the memory holds the store holds or will hold.
LEMMA MemoryHeld ==
    ASSUME TypeOK, Followed, lost = {}
    PROVE  \A key \in Key : /\ Memory[key] \in Held[key]
                            /\ None(key) => Held[key] = {Memory[key]}
<1> SUFFICES ASSUME NEW key \in Key
             PROVE  /\ Memory[key] \in Held[key]
                    /\ None(key) => Held[key] = {Memory[key]}
  OBVIOUS
<1>1. pending \in Seq(Write) /\ DOMAIN pending = 1..Len(pending) /\ Len(pending) \in Nat
  BY DEF TypeOK
<1>2. CASE Of(pending, key) = {}
  <2>1. stored[key] = Memory[key]
    BY <1>2 DEF Followed, Follows
  <2>2. None(key)
    BY <1>2 DEF None, InFlight, Of
  <2> QED  BY <2>1, <2>2 DEF Held, None
<1>3. CASE Of(pending, key) # {}
  <2>1. Of(pending, key) \subseteq 1..Len(pending)
    BY <1>1 DEF Of
  <2>2. PICK i \in Of(pending, key) : \A j \in Of(pending, key) : j <= i
    BY <1>1, <1>3, <2>1, LastOf
  <2>3. pending[i].value = Memory[key]
    BY <2>2 DEF Followed, Follows
  <2>4. pending[i] \in InFlight /\ pending[i].key = key
    BY DEF InFlight, Of
  <2> QED  BY <2>3, <2>4 DEF Held, None
<1> QED  BY <1>2, <1>3

\* Whatever of it the store holds when the browser restarts, its references
\* resolve.
HeldResolves ==
    \A S \in Held["spaces"] :
        /\ \A a \in Held["active"] : a \in S \cup {NoSpace}
        /\ \A m \in Held["tabMap"], t \in Tab : m[t] \in S \cup {NoSpace}

LEMMA SavesResolve ==
    ASSUME TypeOK, TypeOK', HeldResolves, NEW by \in Slot \cup {NoSlot}
    PROVE  /\ SaveSpaces(by)
                /\ (\A a \in Held["active"] : a \in spaces' \cup {NoSpace})
                /\ (\A m \in Held["tabMap"], t \in Tab : m[t] \in spaces' \cup {NoSpace})
              => HeldResolves'
           /\ SaveActive(by) /\ (\A S \in Held["spaces"] : activeId' \in S \cup {NoSpace})
              => HeldResolves'
           /\ SaveTabMap(by)
                /\ (\A S \in Held["spaces"], t \in Tab : tabMap'[t] \in S \cup {NoSpace})
              => HeldResolves'
           /\ UNCHANGED store => HeldResolves'
<1>1. /\ pending \in Seq(Write) /\ {"spaces", "active", "tabMap"} \subseteq Key
      /\ [key |-> "spaces", value |-> spaces', by |-> by] \in Write
      /\ [key |-> "active", value |-> activeId', by |-> by] \in Write
      /\ [key |-> "tabMap", value |-> tabMap', by |-> by] \in Write
  BY WriteType, KeyValues DEF TypeOK, Memory, State, Values
<1>2. SaveSpaces(by) => /\ Held'["spaces"] = Held["spaces"] \cup {spaces'}
                        /\ Held'["active"] = Held["active"] /\ Held'["tabMap"] = Held["tabMap"]
  <2>1. PICK v : v = spaces'
    OBVIOUS
  <2>2. [key |-> "spaces", value |-> v, by |-> by] \in Write
    BY <1>1, <2>1
  <2>3. SaveSpaces(by) => /\ pending' = Append(pending, [key |-> "spaces", value |-> v, by |-> by])
                        /\ stored' = stored
    BY <2>1 DEF SaveSpaces, Issue
  <2>4. SaveSpaces(by) =>
            \A K \in Key : Held'[K] = Held[K] \cup IF K = "spaces" THEN {v} ELSE {}
    BY <1>1, <2>2, <2>3, IssueHeld
  <2> QED  BY <1>1, <2>1, <2>4
<1>3. SaveActive(by) => /\ Held'["active"] = Held["active"] \cup {activeId'}
                        /\ Held'["spaces"] = Held["spaces"] /\ Held'["tabMap"] = Held["tabMap"]
  <2>1. PICK v : v = activeId'
    OBVIOUS
  <2>2. [key |-> "active", value |-> v, by |-> by] \in Write
    BY <1>1, <2>1
  <2>3. SaveActive(by) => /\ pending' = Append(pending, [key |-> "active", value |-> v, by |-> by])
                        /\ stored' = stored
    BY <2>1 DEF SaveActive, Issue
  <2>4. SaveActive(by) =>
            \A K \in Key : Held'[K] = Held[K] \cup IF K = "active" THEN {v} ELSE {}
    BY <1>1, <2>2, <2>3, IssueHeld
  <2> QED  BY <1>1, <2>1, <2>4
<1>4. SaveTabMap(by) => /\ Held'["tabMap"] = Held["tabMap"] \cup {tabMap'}
                        /\ Held'["spaces"] = Held["spaces"] /\ Held'["active"] = Held["active"]
  <2>1. PICK v : v = tabMap'
    OBVIOUS
  <2>2. [key |-> "tabMap", value |-> v, by |-> by] \in Write
    BY <1>1, <2>1
  <2>3. SaveTabMap(by) => /\ pending' = Append(pending, [key |-> "tabMap", value |-> v, by |-> by])
                        /\ stored' = stored
    BY <2>1 DEF SaveTabMap, Issue
  <2>4. SaveTabMap(by) =>
            \A K \in Key : Held'[K] = Held[K] \cup IF K = "tabMap" THEN {v} ELSE {}
    BY <1>1, <2>2, <2>3, IssueHeld
  <2> QED  BY <1>1, <2>1, <2>4
<1>5. UNCHANGED store => HeldResolves'
  <2>1. UNCHANGED store => Held' = Held
    BY DEF store, Held, InFlight
  <2> QED  BY <2>1 DEF HeldResolves
<1> QED  BY <1>2, <1>3, <1>4, <1>5 DEF HeldResolves

-----------------------------------------------------------------------------
(* Handlers that run one at a time.                                        *)

Alone(k) == \A j \in Slot \ {k} : task[j] = Idle

\* What is to be seen between two handlers, in the window arranged last.
Visible ==
    \A t \in hidden : WindowOf[t] = arranged => activeId # NoSpace /\ tabMap[t] # activeId

Without(s) == \A m \in Held["tabMap"], t \in Tab : m[t] # s

\* What the task p that waits in slot k has done so far on the screen ...
OnScreen(p) ==
    /\ p.pc \in {"load", "seed1", "seed2", "seed3"} => hidden = {} /\ activeId = NoSpace
    /\ p.pc \in {"query", "apply"} => activeId = p.space /\ p.space \in spaces
    /\ p.pc = "apply" =>
          /\ \A t \in hidden : WindowOf[t] = arranged /\ tabMap[t] = activeId => t \in p.show
          /\ \A t \in p.hide : tabMap[t] # activeId
    /\ p.pc = "showAll" => \A t \in hidden : WindowOf[t] = arranged => t \in p.show
    /\ p.pc = "cleared" => activeId = NoSpace
    /\ p.pc = "assigned" => p.tab \in Tab /\ tabMap[p.tab] \in {p.space, NoSpace}
    /\ p.pc \notin {"query", "apply", "queryAll", "showAll"} => Visible

\* ... and in the store.
InStore(p, k) ==
    /\ p.pc = "unassigned" =>
          /\ p.space \in Space /\ None("spaces") /\ None("active")
          /\ \A w \in InFlight : w.key = "tabMap" => \A t \in Tab : w.value[t] # p.space
          /\ \A t \in Tab : tabMap[t] # p.space
          /\ \/ \A t \in Tab : stored["tabMap"][t] # p.space
             \/ \E w \in InFlight : w.key = "tabMap" /\ w.by = k
    /\ p.pc \in {"queryAll", "showAll"} /\ p.space # NoSpace =>
          None("spaces") /\ None("active") /\ Without(p.space)
    /\ p.pc = "cleared" =>
          /\ p.space \in Space /\ None("spaces") /\ Without(p.space)
          /\ \A w \in InFlight : w.key = "active" => w.value # p.space
          /\ \/ stored["active"] # p.space
             \/ \E w \in InFlight : w.key = "active" /\ w.by = k
    /\ p.pc = "pick" => p.space \in spaces /\ None("spaces")

SerialInv ==
    /\ StoreInv
    /\ Serial => /\ lost = {} /\ HeldResolves
                 /\ \E k \in Slot : Alone(k) /\ OnScreen(task[k]) /\ InStore(task[k], k)

LEMMA IdleHasNothingLeft ==
    /\ OnScreen(Idle) <=> Visible
    /\ \A k : InStore(Idle, k)
BY IdleDoesNotLoad DEF OnScreen, InStore

\* What the store holds resolves.
LEMMA StoredResolve ==
    ASSUME TypeOK, HeldResolves
    PROVE  /\ stored.active \in stored.spaces \cup {NoSpace}
           /\ \A t \in Tab : stored.tabMap[t] \in stored.spaces \cup {NoSpace}
<1>1. /\ stored["spaces"] \in Held["spaces"] /\ stored["active"] \in Held["active"]
      /\ stored["tabMap"] \in Held["tabMap"]
  BY KeyValues DEF Held
<1>2. /\ stored.spaces = stored["spaces"] /\ stored.active = stored["active"]
      /\ stored.tabMap = stored["tabMap"]
  OBVIOUS
<1> QED  BY <1>1, <1>2 DEF HeldResolves

\* Of a memory that is followed, the references resolve.
LEMMA MemoryResolves ==
    ASSUME TypeOK, Followed, lost = {}, HeldResolves
    PROVE  /\ spaces \in Held["spaces"] /\ activeId \in Held["active"] /\ tabMap \in Held["tabMap"]
           /\ None("spaces") => Held["spaces"] = {spaces}
           /\ None("active") => Held["active"] = {activeId}
           /\ activeId \in spaces \cup {NoSpace}
           /\ \A t \in Tab : tabMap[t] \in spaces \cup {NoSpace}
<1>1. /\ Memory["spaces"] = spaces /\ Memory["active"] = activeId /\ Memory["tabMap"] = tabMap
      /\ {"spaces", "active", "tabMap"} \subseteq Key
  BY KeyValues DEF Memory
<1>2. /\ spaces \in Held["spaces"] /\ activeId \in Held["active"] /\ tabMap \in Held["tabMap"]
      /\ None("spaces") => Held["spaces"] = {spaces}
      /\ None("active") => Held["active"] = {activeId}
  BY <1>1, MemoryHeld
<1> QED  BY <1>2 DEF HeldResolves

\* The task that goes on is the one that waits.
LEMMA GoesOnAlone ==
    ASSUME SerialInv, Serial, NEW k \in Slot, task[k] # Idle
    PROVE  /\ Alone(k) /\ OnScreen(task[k]) /\ InStore(task[k], k)
           /\ HeldResolves /\ lost = {} /\ TypeOK
           /\ task[k].pc # "load" => Followed
           /\ task[k].pc = "load" => reading = stored /\ pending = <<>>
<1>1. Alone(k) /\ OnScreen(task[k]) /\ InStore(task[k], k)
  BY DEF SerialInv, Alone
<1>2. ASSUME task[k].pc # "load"
      PROVE  Followed
  <2>1. ~Loading
    BY <1>1, <1>2, IdleDoesNotLoad DEF Alone, Loading
  <2> QED  BY <2>1, FollowsIs DEF SerialInv, StoreInv, Serial, Followed
<1>3. task[k].pc = "load" => reading = stored /\ pending = <<>>
  BY DEF SerialInv, StoreInv, LoadsAlone, Serial
<1> QED  BY <1>1, <1>2, <1>3 DEF SerialInv, StoreInv

\* One task has gone on, and what it leaves is as it should be halfway.
LEMMA SerialGoesOn ==
    ASSUME SerialInv, StoreInv', race' = race, failures' = failures, NEW k \in Slot,
           task[k] # Idle, NEW q, task' = [task EXCEPT ![k] = q],
           Serial => lost' = lost /\ HeldResolves' /\ OnScreen(q)' /\ InStore(q, k)'
    PROVE  SerialInv'
<1> SUFFICES ASSUME Serial
             PROVE  lost' = {} /\ HeldResolves' /\ Alone(k)' /\ OnScreen(task[k])' /\ InStore(task[k], k)'
  BY DEF SerialInv, Serial
<1>1. Alone(k) /\ lost = {}
  BY GoesOnAlone
<1>2. task'[k] = q /\ \A j \in Slot \ {k} : task'[j] = task[j]
  BY DEF SerialInv, StoreInv, TypeOK
<1>3. Alone(k)'
  BY <1>1, <1>2 DEF Alone
<1>4. PICK r : r = task'[k]
  OBVIOUS
<1>5. OnScreen(r)' /\ InStore(r, k)'
  BY <1>2, <1>4
<1> QED  BY <1>1, <1>3, <1>4, <1>5

LEMMA StoreStays ==
    ASSUME UNCHANGED store
    PROVE  InFlight' = InFlight /\ Held' = Held /\ stored' = stored /\ lost' = lost
BY DEF store, InFlight, Held

\* What a write adds to the ones on their way.
LEMMA SaveHeld ==
    ASSUME TypeOK, TypeOK', NEW by \in Slot \cup {NoSlot}
    PROVE  /\ SaveSpaces(by) => /\ stored' = stored /\ lost' = lost
                                /\ InFlight' = InFlight \cup {[key |-> "spaces", value |-> spaces', by |-> by]}
                                /\ Held'["active"] = Held["active"] /\ Held'["tabMap"] = Held["tabMap"]
           /\ SaveActive(by) => /\ stored' = stored /\ lost' = lost
                                /\ InFlight' = InFlight \cup {[key |-> "active", value |-> activeId', by |-> by]}
                                /\ Held'["spaces"] = Held["spaces"] /\ Held'["tabMap"] = Held["tabMap"]
           /\ SaveTabMap(by) => /\ stored' = stored /\ lost' = lost
                                /\ InFlight' = InFlight \cup {[key |-> "tabMap", value |-> tabMap', by |-> by]}
                                /\ Held'["spaces"] = Held["spaces"] /\ Held'["active"] = Held["active"]
                                /\ Held'["tabMap"] = Held["tabMap"] \cup {tabMap'}
<1>1. /\ pending \in Seq(Write) /\ {"spaces", "active", "tabMap"} \subseteq Key
      /\ [key |-> "spaces", value |-> spaces', by |-> by] \in Write
      /\ [key |-> "active", value |-> activeId', by |-> by] \in Write
      /\ [key |-> "tabMap", value |-> tabMap', by |-> by] \in Write
  BY WriteType, KeyValues DEF TypeOK, Memory, State, Values
<1>2. ASSUME SaveSpaces(by)
      PROVE  /\ stored' = stored /\ lost' = lost
             /\ InFlight' = InFlight \cup {[key |-> "spaces", value |-> spaces', by |-> by]}
             /\ Held'["active"] = Held["active"] /\ Held'["tabMap"] = Held["tabMap"]
  <2>1. PICK v : v = spaces'
    OBVIOUS
  <2>2. /\ InFlight' = InFlight \cup {[key |-> "spaces", value |-> v, by |-> by]}
        /\ \A K \in Key : Held'[K] = Held[K] \cup IF K = "spaces" THEN {v} ELSE {}
    BY <1>1, <1>2, <2>1, IssueHeld DEF SaveSpaces, Issue
  <2> QED  BY <1>1, <1>2, <2>1, <2>2 DEF SaveSpaces, Issue
<1>3. ASSUME SaveActive(by)
      PROVE  /\ stored' = stored /\ lost' = lost
             /\ InFlight' = InFlight \cup {[key |-> "active", value |-> activeId', by |-> by]}
             /\ Held'["spaces"] = Held["spaces"] /\ Held'["tabMap"] = Held["tabMap"]
  <2>1. PICK v : v = activeId'
    OBVIOUS
  <2>2. /\ InFlight' = InFlight \cup {[key |-> "active", value |-> v, by |-> by]}
        /\ \A K \in Key : Held'[K] = Held[K] \cup IF K = "active" THEN {v} ELSE {}
    BY <1>1, <1>3, <2>1, IssueHeld DEF SaveActive, Issue
  <2> QED  BY <1>1, <1>3, <2>1, <2>2 DEF SaveActive, Issue
<1>4. ASSUME SaveTabMap(by)
      PROVE  /\ stored' = stored /\ lost' = lost
             /\ InFlight' = InFlight \cup {[key |-> "tabMap", value |-> tabMap', by |-> by]}
             /\ Held'["spaces"] = Held["spaces"] /\ Held'["active"] = Held["active"]
             /\ Held'["tabMap"] = Held["tabMap"] \cup {tabMap'}
  <2>1. PICK v : v = tabMap'
    OBVIOUS
  <2>2. /\ InFlight' = InFlight \cup {[key |-> "tabMap", value |-> v, by |-> by]}
        /\ \A K \in Key : Held'[K] = Held[K] \cup IF K = "tabMap" THEN {v} ELSE {}
    BY <1>1, <1>4, <2>1, IssueHeld DEF SaveTabMap, Issue
  <2> QED  BY <1>1, <1>4, <2>1, <2>2 DEF SaveTabMap, Issue
<1> QED  BY <1>2, <1>3, <1>4

\* The end of deleteSpace, and exitSpaceFilter.
LEMMA DeleteSerial ==
    ASSUME SerialInv, StoreInv', NEW k \in Slot,
           ShowOrphans(k) \/ DropSpace(k) \/ ListTabs(k) \/ ShowNext(k) \/ ClearActive(k)
    PROVE  SerialInv'
<1> DEFINE p == task[k]
<1>1. /\ task \in [Slot -> Task] /\ p \in Task /\ hidden \subseteq open
      /\ spaces \subseteq Space /\ activeId \in SpaceRef /\ TypeOK /\ TypeOK'
  BY MemoryType DEF SerialInv, StoreInv, TypeOK
<1>2. race' = race /\ failures' = failures /\ p.pc \notin {"idle", "load"} /\ p # Idle
  BY IdleDoesNotLoad DEF ShowOrphans, DropSpace, ListTabs, ShowNext, ClearActive, Continue, history
<1>3. Saved(k)
  BY DEF ShowOrphans, DropSpace, ListTabs, ShowNext, ClearActive, Continue
<1>4. \A w \in InFlight : w.by # k
  BY <1>3, SavedIs
<1>5. Serial => /\ OnScreen(p) /\ InStore(p, k) /\ HeldResolves /\ Followed /\ lost = {}
  BY <1>2, GoesOnAlone
<1>6. ASSUME NEW q, task' = [task EXCEPT ![k] = q],
             Serial => lost' = lost /\ HeldResolves' /\ OnScreen(q)' /\ InStore(q, k)'
      PROVE  SerialInv'
  BY <1>2, <1>6, SerialGoesOn
<1> HIDE DEF p
<1>7. CASE ShowOrphans(k)
  <2>1. PICK q : q = [p EXCEPT !.pc = "queryAll"]
    OBVIOUS
  <2>2. q.pc = "queryAll" /\ q.space = p.space
    BY <1>1, <2>1 DEF Task
  <2>3. p.pc = "unassigned" /\ task' = [task EXCEPT ![k] = q] /\ UNCHANGED store
    BY <1>7, <2>1 DEF ShowOrphans, Continue, p
  <2>4. ASSUME Serial
        PROVE  HeldResolves' /\ OnScreen(q)' /\ InStore(q, k)' /\ lost' = lost
    <3>1. HeldResolves'
      BY <1>5, <2>3, <2>4, StoreStays DEF HeldResolves
    <3>2. Without(p.space)
      BY <1>4, <1>5, <2>3, <2>4, KeyValues DEF InStore, Held, Without
    <3>3. None("spaces") /\ None("active")
      BY <1>5, <2>3, <2>4 DEF InStore
    <3>4. InStore(q, k)'
      BY <2>2, <2>3, <3>2, <3>3, StoreStays DEF InStore, None, Without
    <3> QED  BY <2>2, <2>3, <3>1, <3>4, StoreStays DEF OnScreen
  <2> QED  BY <1>6, <2>3, <2>4
<1>8. CASE ListTabs(k)
  <2>1. PICK q : q = [p EXCEPT !.pc = "showAll", !.show = WindowTabs]
    OBVIOUS
  <2>2. q.pc = "showAll" /\ q.space = p.space /\ q.show = WindowTabs
    BY <1>1, <2>1 DEF Task
  <2>3. /\ p.pc = "queryAll" /\ task' = [task EXCEPT ![k] = q] /\ UNCHANGED store
        /\ arranged' = front /\ UNCHANGED <<hidden, memory>>
    BY <1>8, <2>1 DEF ListTabs, Continue, p
  <2>4. ASSUME Serial
        PROVE  HeldResolves' /\ OnScreen(q)' /\ InStore(q, k)' /\ lost' = lost
    <3>1. HeldResolves'
      BY <1>5, <2>3, <2>4, StoreStays DEF HeldResolves
    <3>2. InStore(q, k)'
      BY <1>5, <2>2, <2>3, <2>4, StoreStays DEF InStore, None, Without
    <3>3. OnScreen(q)'
      BY <1>1, <2>2, <2>3 DEF OnScreen, WindowTabs
    <3> QED  BY <2>3, <3>1, <3>2, <3>3, StoreStays
  <2> QED  BY <1>6, <2>3, <2>4
<1>9. CASE ShowNext(k)
  <2>1. PICK t \in p.show :
            /\ p.pc = "showAll" /\ task' = [task EXCEPT ![k] = [p EXCEPT !.show = @ \ {t}]]
            /\ hidden' = hidden \ {t} /\ UNCHANGED <<memory, store, arranged>>
    BY <1>9 DEF ShowNext, Continue, TabsShow, p
  <2>2. PICK q : q = [p EXCEPT !.show = @ \ {t}]
    OBVIOUS
  <2>3. q.pc = "showAll" /\ q.space = p.space /\ q.show = p.show \ {t}
    BY <1>1, <2>1, <2>2 DEF Task
  <2>4. task' = [task EXCEPT ![k] = q]
    BY <2>1, <2>2
  <2>5. ASSUME Serial
        PROVE  HeldResolves' /\ OnScreen(q)' /\ InStore(q, k)' /\ lost' = lost
    <3>1. HeldResolves'
      BY <1>5, <2>1, <2>5, StoreStays DEF HeldResolves
    <3>2. InStore(q, k)'
      BY <1>5, <2>1, <2>3, <2>5, StoreStays DEF InStore, None, Without
    <3>3. OnScreen(q)'
      BY <1>5, <2>1, <2>3, <2>5 DEF OnScreen
    <3> QED  BY <2>1, <3>1, <3>2, <3>3, StoreStays
  <2> QED  BY <1>6, <2>4, <2>5
<1>10. CASE ClearActive(k)
  <2>1. /\ p.pc = "showAll" /\ p.show = {} /\ activeId' = NoSpace
        /\ UNCHANGED <<hidden, spaces, tabMap, arranged>>
    BY <1>10 DEF ClearActive, Continue, p
  <2>2. Serial => /\ Visible'
                  /\ \A t \in hidden : WindowOf[t] # arranged
    BY <1>5, <2>1 DEF OnScreen, Visible
  <2>3. (\A S \in Held["spaces"] : activeId' \in S \cup {NoSpace})
    BY <2>1
  <2>4. CASE p.space = NoSpace
    <3>1. task' = [task EXCEPT ![k] = Idle] /\ SaveActive(NoSlot)
      BY <1>10, <2>4 DEF ClearActive, Continue, p
    <3>2. Serial => HeldResolves' /\ lost' = lost
      BY <1>1, <1>5, <2>3, <3>1, SavesResolve, SaveHeld
    <3>3. Serial => OnScreen(Idle)'
      BY <2>2, IdleDoesNotLoad DEF OnScreen
    <3>4. InStore(Idle, k)'
      BY IdleDoesNotLoad DEF InStore
    <3> QED  BY <1>6, <3>1, <3>2, <3>3, <3>4
  <2>5. CASE p.space # NoSpace
    <3>1. PICK q : q = [p EXCEPT !.pc = "cleared"]
      OBVIOUS
    <3>2. q.pc = "cleared" /\ q.space = p.space /\ p.space \in Space
      BY <1>1, <2>5, <3>1 DEF Task
    <3>3. task' = [task EXCEPT ![k] = q] /\ SaveActive(k)
      BY <1>10, <2>5, <3>1 DEF ClearActive, Continue, p
    <3>4. Serial => HeldResolves' /\ lost' = lost
      BY <1>1, <1>5, <2>3, <3>3, SavesResolve, SaveHeld
    <3>5. Serial => OnScreen(q)'
      BY <2>1, <2>2, <3>2 DEF OnScreen
    <3>6. ASSUME Serial
          PROVE  InStore(q, k)'
      <4>1. PICK w : w = [key |-> "active", value |-> NoSpace, by |-> k]
        OBVIOUS
      <4>2. w.key = "active" /\ w.value = NoSpace /\ w.by = k
        BY <4>1
      <4>3. InFlight' = InFlight \cup {w} /\ Held'["tabMap"] = Held["tabMap"]
        BY <1>1, <2>1, <3>3, <4>1, SaveHeld
      <4>4. None("spaces") /\ None("active") /\ Without(p.space)
        BY <1>5, <2>1, <2>5, <3>6 DEF InStore
      <4> QED  BY <2>5, <3>2, <4>2, <4>3, <4>4 DEF InStore, None, Without
    <3> QED  BY <1>6, <3>3, <3>4, <3>5, <3>6
  <2> QED  BY <2>4, <2>5
<1>11. CASE DropSpace(k)
  <2>1. /\ (p.pc = "unassigned" /\ activeId # p.space) \/ p.pc = "cleared"
        /\ task' = [task EXCEPT ![k] = Idle] /\ SaveSpaces(NoSlot)
        /\ spaces' = spaces \ {p.space} /\ UNCHANGED <<hidden, activeId, tabMap, arranged>>
    BY <1>11 DEF DropSpace, Continue, p
  <2>2. ASSUME Serial
        PROVE  HeldResolves' /\ lost' = lost
    <3>1. /\ p.space \notin Held["active"] /\ p.space # NoSpace /\ Without(p.space)
      <4>1. CASE p.pc = "unassigned" /\ activeId # p.space
        <5>1. Held["active"] = {activeId}
          BY <1>1, <1>5, <2>2, <4>1, MemoryResolves DEF InStore
        <5>2. Without(p.space)
          BY <1>4, <1>5, <2>2, <4>1, KeyValues DEF InStore, Held, Without
        <5>3. p.space \in Space
          BY <1>5, <2>2, <4>1 DEF InStore
        <5> QED  BY <4>1, <5>1, <5>2, <5>3, NoneAssumption
      <4>2. CASE p.pc = "cleared"
        BY <1>4, <1>5, <2>2, <4>2, KeyValues, NoneAssumption DEF InStore, Held
      <4> QED  BY <2>1, <4>1, <4>2
    <3>2. /\ \A a \in Held["active"] : a \in spaces \cup {NoSpace}
          /\ \A m \in Held["tabMap"], t \in Tab : m[t] \in spaces \cup {NoSpace}
      BY <1>1, <1>5, <2>2, MemoryResolves DEF HeldResolves
    <3>3. /\ \A a \in Held["active"] : a \in spaces' \cup {NoSpace}
          /\ \A m \in Held["tabMap"], t \in Tab : m[t] \in spaces' \cup {NoSpace}
      BY <2>1, <3>1, <3>2 DEF Without
    <3> QED  BY <1>1, <1>5, <2>1, <2>2, <3>3, SavesResolve, SaveHeld
  <2>3. Serial => OnScreen(Idle)'
    BY <1>5, <2>1, IdleDoesNotLoad DEF OnScreen, Visible
  <2>4. InStore(Idle, k)'
    BY IdleDoesNotLoad DEF InStore
  <2> QED  BY <1>6, <2>1, <2>2, <2>3, <2>4
<1> QED  BY <1>7, <1>8, <1>9, <1>10, <1>11

\* A task that does not touch the store, and is not in the middle of a
\* deletion or of a choice, finds it as it was.
LEMMA StoreAside ==
    ASSUME HeldResolves, UNCHANGED store, NEW k, NEW q,
           q.pc \notin {"unassigned", "queryAll", "showAll", "cleared", "pick"}
    PROVE  HeldResolves' /\ InStore(q, k)' /\ lost' = lost
BY StoreStays DEF HeldResolves, InStore

\* The end of switchToSpace.
LEMMA SwitchSerial ==
    ASSUME SerialInv, StoreInv', NEW k \in Slot,
           SortTabs(k) \/ ApplyShow(k) \/ ApplyHide(k) \/ ActivateFirst(k)
    PROVE  SerialInv'
<1> DEFINE p == task[k]
<1>1. /\ task \in [Slot -> Task] /\ p \in Task /\ hidden \subseteq open /\ open \subseteq Tab
      /\ spaces \subseteq Space /\ activeId \in SpaceRef /\ tabMap \in [Tab -> SpaceRef]
  BY MemoryType DEF SerialInv, StoreInv, TypeOK
<1>2. /\ race' = race /\ failures' = failures /\ p # Idle
      /\ UNCHANGED <<spaces, activeId, tabMap>> /\ UNCHANGED store
  BY IdleDoesNotLoad DEF SortTabs, ApplyShow, ApplyHide, ActivateFirst, Continue, history, memory
<1>3. p.pc # "load"
  BY DEF SortTabs, ApplyShow, ApplyHide, ActivateFirst, Continue
<1>4. Serial => OnScreen(p) /\ HeldResolves
  BY <1>2, GoesOnAlone
<1>5. ASSUME NEW q, task' = [task EXCEPT ![k] = q], q.pc \in {"apply", "idle"},
             Serial => OnScreen(q)'
      PROVE  SerialInv'
  BY <1>2, <1>4, <1>5, SerialGoesOn, StoreAside
<1> HIDE DEF p
<1>6. CASE SortTabs(k)
  <2>1. PICK first : task' = [task EXCEPT ![k] =
            [pc |-> "apply", tab |-> first, space |-> p.space,
             show |-> {t \in WindowTabs : tabMap[t] = p.space},
             hide |-> {t \in WindowTabs : tabMap[t] \notin {p.space, NoSpace}}]]
    BY <1>6 DEF SortTabs, Continue, p
  <2>2. p.pc = "query" /\ hidden' = hidden /\ arranged' = front
    BY <1>6 DEF SortTabs, Continue, p
  <2>3. PICK q : q = [pc |-> "apply", tab |-> first, space |-> p.space,
             show |-> {t \in WindowTabs : tabMap[t] = p.space},
             hide |-> {t \in WindowTabs : tabMap[t] \notin {p.space, NoSpace}}]
    OBVIOUS
  <2>4. /\ q.pc = "apply" /\ q.space = p.space
        /\ q.show = {t \in WindowTabs : tabMap[t] = p.space}
        /\ q.hide = {t \in WindowTabs : tabMap[t] \notin {p.space, NoSpace}}
    BY <2>3
  <2>5. task' = [task EXCEPT ![k] = q]
    BY <2>1, <2>3
  <2>6. Serial => OnScreen(q)'
    BY <1>1, <1>2, <1>4, <2>2, <2>4 DEF OnScreen, WindowTabs
  <2> QED  BY <1>5, <2>4, <2>5, <2>6
<1>7. CASE ApplyShow(k)
  <2>1. PICK t \in p.show :
            /\ p.pc = "apply" /\ task' = [task EXCEPT ![k] = [p EXCEPT !.show = @ \ {t}]]
            /\ hidden' = hidden \ {t} /\ arranged' = arranged
    BY <1>7 DEF ApplyShow, Continue, TabsShow, p
  <2>2. PICK q : q = [p EXCEPT !.show = @ \ {t}]
    OBVIOUS
  <2>3. q.pc = "apply" /\ q.space = p.space /\ q.show = p.show \ {t} /\ q.hide = p.hide
    BY <1>1, <2>1, <2>2 DEF Task
  <2>4. task' = [task EXCEPT ![k] = q]
    BY <2>1, <2>2
  <2>5. Serial => OnScreen(q)'
    BY <1>2, <1>4, <2>1, <2>3 DEF OnScreen
  <2> QED  BY <1>5, <2>3, <2>4, <2>5
<1>8. CASE ApplyHide(k)
  <2>1. PICK t \in p.hide :
            /\ p.pc = "apply" /\ task' = [task EXCEPT ![k] = [p EXCEPT !.hide = @ \ {t}]]
            /\ hidden' \subseteq hidden \cup {t} /\ arranged' = arranged
    BY <1>8 DEF ApplyHide, Continue, TabsHide, p
  <2>2. PICK q : q = [p EXCEPT !.hide = @ \ {t}]
    OBVIOUS
  <2>3. q.pc = "apply" /\ q.space = p.space /\ q.show = p.show /\ q.hide = p.hide \ {t}
    BY <1>1, <2>1, <2>2 DEF Task
  <2>4. task' = [task EXCEPT ![k] = q]
    BY <2>1, <2>2
  <2>5. Serial => OnScreen(q)'
    BY <1>2, <1>4, <2>1, <2>3 DEF OnScreen
  <2> QED  BY <1>5, <2>3, <2>4, <2>5
<1>9. CASE ActivateFirst(k)
  <2>1. /\ p.pc = "apply" /\ p.show = {} /\ task' = [task EXCEPT ![k] = Idle]
        /\ hidden' \subseteq hidden /\ arranged' = arranged
    BY <1>9 DEF ActivateFirst, Activate, Continue, TabsShow, p
  <2>2. Serial => /\ activeId \in Space
                  /\ \A t \in hidden : WindowOf[t] = arranged => tabMap[t] # activeId
    BY <1>1, <1>4, <2>1 DEF OnScreen
  <2>3. Serial => OnScreen(Idle)'
    BY <1>2, <2>1, <2>2, NoneAssumption, IdleDoesNotLoad DEF OnScreen, Visible
  <2> QED  BY <1>5, <2>1, <2>3, IdleDoesNotLoad
<1> QED  BY <1>6, <1>7, <1>8, <1>9

\* The ends of assignTab and unassignTab.
LEMMA AssignSerial ==
    ASSUME SerialInv, StoreInv', NEW k \in Slot,
           AssignPicked(k) \/ PlaceTab(k) \/ ShowReleased(k)
    PROVE  SerialInv'
<1> DEFINE p == task[k]
<1>1. /\ task \in [Slot -> Task] /\ p \in Task /\ hidden \subseteq open \ Active /\ open \subseteq Tab
      /\ front \in Window /\ current[front] \in open /\ current[front] \notin hidden
      /\ spaces \subseteq Space /\ activeId \in SpaceRef /\ tabMap \in [Tab -> SpaceRef]
      /\ TypeOK /\ TypeOK'
  BY MemoryType DEF SerialInv, StoreInv, TypeOK, Active
<1>2. race' = race /\ failures' = failures /\ p # Idle /\ p.pc # "load"
  BY IdleDoesNotLoad DEF AssignPicked, PlaceTab, ShowReleased, Continue, history
<1>3. Serial => OnScreen(p) /\ InStore(p, k) /\ HeldResolves /\ Followed /\ lost = {}
  BY <1>2, GoesOnAlone
<1>4. ASSUME NEW q, task' = [task EXCEPT ![k] = q],
             Serial => lost' = lost /\ HeldResolves' /\ OnScreen(q)' /\ InStore(q, k)'
      PROVE  SerialInv'
  BY <1>2, <1>4, SerialGoesOn
<1> HIDE DEF p
<1>5. CASE AssignPicked(k)
  <2>1. PICK q : q = [p EXCEPT !.pc = "assigned", !.tab = current[front]]
    OBVIOUS
  <2>2. q.pc = "assigned" /\ q.space = p.space /\ q.tab = current[front]
    BY <1>1, <2>1 DEF Task
  <2>3. /\ p.pc = "pick" /\ task' = [task EXCEPT ![k] = q]
        /\ tabMap' = [tabMap EXCEPT ![current[front]] = p.space] /\ SaveTabMap(k)
        /\ UNCHANGED <<hidden, spaces, activeId, arranged>>
    BY <1>5, <2>1 DEF AssignPicked, Continue, SetTabSpace, p
  <2>4. ASSUME Serial
        PROVE  lost' = lost /\ HeldResolves' /\ OnScreen(q)' /\ InStore(q, k)'
    <3>1. p.space \in spaces /\ None("spaces") /\ Visible
      BY <1>3, <2>3, <2>4 DEF OnScreen, InStore
    <3>2. /\ Held["spaces"] = {spaces}
          /\ \A t \in Tab : tabMap[t] \in spaces \cup {NoSpace}
      BY <1>1, <1>3, <2>4, <3>1, MemoryResolves
    <3>3. \A S \in Held["spaces"], t \in Tab : tabMap'[t] \in S \cup {NoSpace}
      BY <1>1, <2>3, <3>1, <3>2
    <3>4. HeldResolves' /\ lost' = lost
      BY <1>1, <1>3, <2>3, <2>4, <3>3, SavesResolve, SaveHeld
    <3>5. OnScreen(q)'
      BY <1>1, <2>2, <2>3, <3>1 DEF OnScreen, Visible
    <3>6. InStore(q, k)'
      BY <2>2 DEF InStore
    <3> QED  BY <3>4, <3>5, <3>6
  <2> QED  BY <1>4, <2>3, <2>4
<1>6. CASE PlaceTab(k)
  <2>1. /\ p.pc = "assigned" /\ task' = [task EXCEPT ![k] = Idle]
        /\ UNCHANGED <<spaces, activeId, tabMap, arranged>> /\ UNCHANGED store
        /\ \/ hidden' \subseteq hidden /\ (activeId = NoSpace => hidden' = hidden)
           \/ activeId \notin {NoSpace, p.space} /\ hidden' \subseteq hidden \cup {p.tab}
    BY <1>6 DEF PlaceTab, Continue, TabsHide, TabsShow, memory, p
  <2>2. Serial => OnScreen(Idle)'
    BY <1>3, <2>1, IdleDoesNotLoad DEF OnScreen, Visible
  <2>3. Serial => HeldResolves' /\ InStore(Idle, k)' /\ lost' = lost
    BY <1>3, <2>1, StoreAside, IdleDoesNotLoad
  <2> QED  BY <1>4, <2>1, <2>2, <2>3
<1>7. CASE ShowReleased(k)
  <2>1. /\ p.pc = "released" /\ task' = [task EXCEPT ![k] = Idle] /\ UNCHANGED store
        /\ UNCHANGED <<spaces, activeId, tabMap, arranged>> /\ hidden' \subseteq hidden
    BY <1>7 DEF ShowReleased, Continue, TabsShow, memory, p
  <2>2. Serial => OnScreen(Idle)'
    BY <1>3, <2>1, IdleDoesNotLoad DEF OnScreen, Visible
  <2>3. Serial => HeldResolves' /\ InStore(Idle, k)' /\ lost' = lost
    BY <1>3, <2>1, StoreAside, IdleDoesNotLoad
  <2> QED  BY <1>4, <2>1, <2>2, <2>3
<1> QED  BY <1>5, <1>6, <1>7

\* Startup ends with a switch, or with nothing active and nothing hidden.
LEMMA ResumeSerial ==
    ASSUME SerialInv, StoreInv', NEW k \in Slot, Resume(k), task[k] # Idle,
           race' = race, failures' = failures, hidden' = hidden,
           UNCHANGED <<stored, lost>>,
           Serial => /\ HeldResolves /\ hidden = {}
                     /\ \A S \in Held["spaces"] : activeId' \in S \cup {NoSpace}
                     /\ activeId' \in spaces' \cup {NoSpace}
    PROVE  SerialInv'
<1>1. TypeOK /\ TypeOK' /\ spaces' \subseteq Space
  BY DEF SerialInv, StoreInv, TypeOK, Memory, State, Values
<1>2. CASE activeId' \in spaces'
  <2>1. PICK q : q = Waiting("query", NoTab, activeId')
    OBVIOUS
  <2>2. q.pc = "query" /\ q.space = activeId'
    BY <2>1 DEF Waiting, Idle
  <2>3. pending' = Append(pending, [key |-> "active", value |-> activeId', by |-> k])
        /\ task' = [task EXCEPT ![k] = q]
    BY <1>2, <2>1 DEF Resume
  <2>4. Serial => HeldResolves'
    <3>1. PICK v : v = activeId'
      OBVIOUS
    <3>2. pending \in Seq(Write) /\ [key |-> "active", value |-> v, by |-> k] \in Write
      BY <1>1, <3>1, WriteType, KeyValues DEF TypeOK, Memory, State, Values
    <3>3. \A K \in Key : Held'[K] = Held[K] \cup IF K = "active" THEN {v} ELSE {}
      BY <2>3, <3>1, <3>2, IssueHeld
    <3>4. /\ Held'["active"] = Held["active"] \cup {activeId'}
          /\ Held'["spaces"] = Held["spaces"] /\ Held'["tabMap"] = Held["tabMap"]
      BY <3>1, <3>3, KeyValues
    <3> QED  BY <3>4 DEF HeldResolves
  <2>5. OnScreen(q)' /\ InStore(q, k)'
    BY <1>2, <2>2 DEF OnScreen, InStore
  <2> QED  BY <2>3, <2>4, <2>5, SerialGoesOn
<1>3. CASE activeId' \notin spaces'
  <2>1. task' = [task EXCEPT ![k] = Idle] /\ pending' = pending
    BY <1>3 DEF Resume
  <2>2. Serial => HeldResolves'
    <3>1. Held' = Held
      BY <2>1 DEF Held, InFlight
    <3> QED  BY <3>1 DEF HeldResolves
  <2>3. Serial => OnScreen(Idle)'
    BY <1>3, IdleDoesNotLoad DEF OnScreen, Visible
  <2>4. InStore(Idle, k)'
    BY IdleDoesNotLoad DEF InStore
  <2> QED  BY <2>1, <2>2, <2>3, <2>4, SerialGoesOn
<1> QED  BY <1>2, <1>3

LEMMA StartupSerial ==
    ASSUME SerialInv, StoreInv', NEW k \in Slot,
           Load(k) \/ LoadNothing(k) \/ LoadFails(k) \/ Seed(k) \/ Seeded(k)
    PROVE  SerialInv'
<1> DEFINE p == task[k]
<1>1. /\ task \in [Slot -> Task] /\ p \in Task /\ stored \in State /\ pending \in Seq(Write)
      /\ TypeOK /\ TypeOK' /\ failures \in Nat
  BY DEF SerialInv, StoreInv, TypeOK
<1>2. p.pc \in {"load", "seed1", "seed2", "seed3"} /\ p # Idle
  BY IdleDoesNotLoad DEF Load, LoadNothing, LoadFails, Seed, Seeded
<1>3. Serial => /\ HeldResolves /\ lost = {} /\ hidden = {} /\ activeId = NoSpace
                /\ p.pc # "load" => Followed
                /\ p.pc = "load" => reading = stored /\ pending = <<>>
  BY <1>2, GoesOnAlone DEF OnScreen
\* The memory is as it was saved.
<1>4. ASSUME Serial, Load(k) \/ LoadNothing(k)
      PROVE  /\ reading = stored /\ pending = <<>>
             /\ activeId' \in stored.spaces \cup {NoSpace}
             /\ Held["spaces"] = {stored.spaces}
  <2>1. p.pc = "load" /\ reading = stored /\ pending = <<>> /\ activeId' = stored.active
    BY <1>3, <1>4 DEF Load, LoadNothing
  <2>2. Held["spaces"] = {stored["spaces"]}
    BY <2>1, QuietHeld, KeyValues
  <2> QED  BY <1>1, <1>3, <1>4, <2>1, <2>2, StoredResolve
<1>5. CASE Load(k)
  <2>1. /\ Resume(k) /\ race' = race /\ failures' = failures /\ hidden' = hidden
        /\ UNCHANGED <<stored, lost>> /\ spaces' = reading.spaces
    BY <1>5 DEF Load, browser, history
  <2>2. Serial => /\ \A S \in Held["spaces"] : activeId' \in S \cup {NoSpace}
                  /\ activeId' \in spaces' \cup {NoSpace}
    BY <1>4, <1>5, <2>1
  <2> QED  BY <1>2, <1>3, <2>1, <2>2, ResumeSerial
<1>6. CASE LoadNothing(k)
  <2>1. PICK q : q = [p EXCEPT !.pc = "seed1"]
    OBVIOUS
  <2>2. q.pc = "seed1" /\ task' = [task EXCEPT ![k] = q]
    BY <1>1, <1>6, <2>1 DEF Task, LoadNothing
  <2>3. /\ race' = race /\ failures' = failures /\ hidden' = hidden /\ arranged' = arranged
        /\ UNCHANGED <<stored, lost>> /\ reading.spaces = {}
        /\ pending' = Append(pending, [key |-> "spaces", value |-> spaces', by |-> k])
    BY <1>6 DEF LoadNothing, browser, history
  <2>4. Serial => HeldResolves'
    <3>1. PICK v : v = spaces'
      OBVIOUS
    <3>2. [key |-> "spaces", value |-> v, by |-> k] \in Write
      BY <1>1, <3>1, WriteType, KeyValues DEF TypeOK, Memory, State, Values
    <3>3. \A K \in Key : Held'[K] = Held[K] \cup IF K = "spaces" THEN {v} ELSE {}
      BY <1>1, <2>3, <3>1, <3>2, IssueHeld
    <3>4. /\ Held'["active"] = Held["active"] /\ Held'["tabMap"] = Held["tabMap"]
          /\ Held'["spaces"] = Held["spaces"] \cup {spaces'}
      BY <3>1, <3>3, KeyValues
    <3>5. Serial => /\ \A a \in Held["active"] : a = NoSpace
                    /\ \A m \in Held["tabMap"], t \in Tab : m[t] = NoSpace
      BY <1>3, <1>4, <1>6, <2>3 DEF HeldResolves
    <3> QED  BY <1>3, <3>4, <3>5 DEF HeldResolves
  <2>5. Serial => activeId' = NoSpace
    BY <1>4, <1>6, <2>3
  <2>6. Serial => OnScreen(q)' /\ InStore(q, k)'
    BY <1>3, <2>2, <2>3, <2>5 DEF OnScreen, Visible, InStore
  <2> QED  BY <1>2, <2>2, <2>3, <2>4, <2>6, SerialGoesOn
<1>7. CASE LoadFails(k)
  <2>1. ~Serial'
    BY <1>1, <1>7 DEF LoadFails, Fail, Serial
  <2> QED  BY <2>1 DEF SerialInv
<1>8. CASE Seed(k)
  <2>1. PICK to \in {"seed2", "seed3"} : task' = [task EXCEPT ![k] = [task[k] EXCEPT !.pc = to]]
    BY <1>8 DEF Seed
  <2>2. PICK q : q = [p EXCEPT !.pc = to]
    OBVIOUS
  <2>3. q.pc = to /\ task' = [task EXCEPT ![k] = q]
    BY <1>1, <2>1, <2>2 DEF Task
  <2>4. /\ race' = race /\ failures' = failures /\ UNCHANGED <<hidden, activeId, tabMap, arranged>>
        /\ SaveSpaces(k) /\ spaces \subseteq spaces' /\ p.pc # "load"
    BY <1>8 DEF Seed, DrawSpace, browser, history
  <2>5. Serial => HeldResolves' /\ lost' = lost
    <3>1. Serial => /\ \A a \in Held["active"] : a \in spaces' \cup {NoSpace}
                    /\ \A m \in Held["tabMap"], t \in Tab : m[t] \in spaces' \cup {NoSpace}
      BY <1>1, <1>3, <2>4, MemoryResolves DEF HeldResolves
    <3> QED  BY <1>1, <1>3, <2>4, <3>1, SavesResolve, SaveHeld
  <2>6. Serial => OnScreen(q)' /\ InStore(q, k)'
    BY <1>3, <2>3, <2>4 DEF OnScreen, Visible, InStore
  <2> QED  BY <1>2, <2>3, <2>4, <2>5, <2>6, SerialGoesOn
<1>9. CASE Seeded(k)
  <2>1. /\ Resume(k) /\ race' = race /\ failures' = failures /\ hidden' = hidden
        /\ UNCHANGED <<stored, lost>> /\ activeId' = activeId
    BY <1>9 DEF Seeded, browser, history, memory
  <2> QED  BY <1>2, <1>3, <2>1, ResumeSerial
<1> QED  BY <1>5, <1>6, <1>7, <1>8, <1>9

-----------------------------------------------------------------------------
\* A handler that begins and leaves no overlap finds nothing halfway.
LEMMA BeginsAlone ==
    ASSUME SerialInv, StoreInv', NEW stale, Begin(stale), NEW k \in Slot, lost' = lost,
           NEW q, task'[k] = q, \A j \in Slot \ {k} : task'[j] = task[j],
           ASSUME ~stale, Held["spaces"] = {spaces}, InFlight = {}, Visible, HeldResolves,
                  \A t \in Tab : tabMap[t] \in spaces \cup {NoSpace},
                  \A a \in Held["active"] : a \in spaces \cup {NoSpace},
                  \A m \in Held["tabMap"], t \in Tab : m[t] \in spaces \cup {NoSpace}
           PROVE  HeldResolves' /\ OnScreen(q)' /\ InStore(q, k)'
    PROVE  SerialInv'
<1> SUFFICES ASSUME Serial'
             PROVE  lost' = {} /\ HeldResolves' /\ Alone(k)' /\ OnScreen(task[k])' /\ InStore(task[k], k)'
  BY DEF SerialInv
<1>1. race = "none" /\ Quiet /\ ~stale /\ ~Loading /\ Serial
  BY BeginRace DEF Serial, Begin
<1>2. TypeOK /\ Followed /\ lost = {} /\ HeldResolves /\ Visible
  <2>1. PICK j \in Slot : OnScreen(task[j])
    BY <1>1 DEF SerialInv
  <2>2. Visible
    BY <1>1, <2>1, IdleHasNothingLeft DEF Quiet
  <2> QED  BY <1>1, <2>2, FollowsIs DEF SerialInv, StoreInv, Serial, Followed
<1>3. /\ InFlight = {} /\ None("spaces")
  BY <1>1, QuietHeld DEF Quiet, None
<1>4. /\ Held["spaces"] = {spaces}
      /\ \A t \in Tab : tabMap[t] \in spaces \cup {NoSpace}
      /\ \A a \in Held["active"] : a \in spaces \cup {NoSpace}
      /\ \A m \in Held["tabMap"], t \in Tab : m[t] \in spaces \cup {NoSpace}
  BY <1>2, <1>3, MemoryResolves DEF HeldResolves
<1>5. HeldResolves' /\ OnScreen(q)' /\ InStore(q, k)'
  BY <1>1, <1>2, <1>3, <1>4
<1>6. Alone(k)'
  BY <1>1 DEF Alone, Quiet
<1>7. PICK r : r = task'[k]
  OBVIOUS
<1>8. OnScreen(r)' /\ InStore(r, k)'
  BY <1>5, <1>7
<1> QED  BY <1>2, <1>5, <1>6, <1>7, <1>8

\* What a handler that starts on a slot at rest leaves waiting there.
LEMMA HandlerSerial ==
    ASSUME SerialInv, StoreInv', NEW k \in Slot, Handle(k)
    PROVE  SerialInv'
<1>1. /\ task \in [Slot -> Task] /\ open \subseteq used /\ hidden \subseteq open
      /\ used \subseteq Tab /\ TypeOK /\ TypeOK'
      /\ spaces \subseteq Space /\ activeId \in SpaceRef /\ tabMap \in [Tab -> SpaceRef]
  BY MemoryType DEF SerialInv, StoreInv, TypeOK
<1>2. arranged' = arranged /\ lost' = lost
  BY <1>1, HandleBegins, BeginsFrame DEF SaveActive, SaveTabMap, Issue, store
<1>3. ASSUME NEW stale, Begin(stale), NEW q, task' = [task EXCEPT ![k] = q],
             ASSUME ~stale, Held["spaces"] = {spaces}, InFlight = {}, Visible, HeldResolves,
                    \A t \in Tab : tabMap[t] \in spaces \cup {NoSpace},
                    \A a \in Held["active"] : a \in spaces \cup {NoSpace},
                    \A m \in Held["tabMap"], t \in Tab : m[t] \in spaces \cup {NoSpace}
             PROVE  HeldResolves' /\ OnScreen(q)' /\ InStore(q, k)'
      PROVE  SerialInv'
  <2>1. task'[k] = q /\ \A j \in Slot \ {k} : task'[j] = task[j]
    BY <1>1, <1>3
  <2> QED  BY <1>2, <1>3, <2>1, BeginsAlone
<1>4. ASSUME NEW pc, NEW t, NEW s
      PROVE  \E q : /\ q = Waiting(pc, t, s)
                    /\ q.pc = pc /\ q.tab = t /\ q.space = s
  <2>1. /\ Waiting(pc, t, s).pc = pc /\ Waiting(pc, t, s).tab = t
        /\ Waiting(pc, t, s).space = s
    BY DEF Waiting, Idle
  <2> QED  BY <2>1
<1>5. CASE ExitFilter(k)
  <2>1. PICK q : /\ q = Waiting("queryAll", NoTab, NoSpace)
                 /\ q.pc = "queryAll" /\ q.space = NoSpace
    BY <1>4
  <2>2. Begin(FALSE) /\ task' = [task EXCEPT ![k] = q] /\ UNCHANGED store
    BY <1>5, <2>1 DEF ExitFilter
  <2>3. ASSUME HeldResolves
        PROVE  HeldResolves' /\ OnScreen(q)' /\ InStore(q, k)'
    BY <2>1, <2>2, <2>3, StoreStays DEF HeldResolves, OnScreen, InStore
  <2> QED  BY <1>3, <2>2, <2>3
<1>6. ASSUME NEW s \in Space, DeleteSpace(k, s)
      PROVE  SerialInv'
  <2>1. PICK q : /\ q = Waiting("unassigned", NoTab, s)
                 /\ q.pc = "unassigned" /\ q.space = s
    BY <1>4
  <2>2. /\ Begin(FALSE) /\ task' = [task EXCEPT ![k] = q] /\ SaveTabMap(k)
        /\ tabMap' = [t \in Tab |-> IF tabMap[t] = s THEN NoSpace ELSE tabMap[t]]
        /\ UNCHANGED <<hidden, spaces, activeId>>
    BY <1>6, <2>1 DEF DeleteSpace, browser
  <2>3. ASSUME Held["spaces"] = {spaces}, InFlight = {}, Visible, HeldResolves,
               \A t \in Tab : tabMap[t] \in spaces \cup {NoSpace}
        PROVE  HeldResolves' /\ OnScreen(q)' /\ InStore(q, k)'
    <3>1. \A S \in Held["spaces"], t \in Tab : tabMap'[t] \in S \cup {NoSpace}
      BY <2>2, <2>3
    <3>2. HeldResolves'
      BY <1>1, <2>2, <2>3, <3>1, SavesResolve
    <3>3. OnScreen(q)'
      BY <1>1, <1>2, <2>1, <2>2, <2>3 DEF OnScreen, Visible
    <3>4. \A t \in Tab : tabMap'[t] # s
      BY <2>2, NoneAssumption
    <3>5. PICK w : w = [key |-> "tabMap", value |-> tabMap', by |-> k]
      OBVIOUS
    <3>6. InFlight' = {w} /\ w.key = "tabMap" /\ w.value = tabMap' /\ w.by = k
      BY <1>1, <2>2, <2>3, <3>5, SaveHeld
    <3>7. InStore(q, k)'
      BY <2>1, <3>4, <3>6 DEF InStore, None
    <3> QED  BY <3>2, <3>3, <3>7
  <2> QED  BY <1>3, <2>2, <2>3
<1>7. ASSUME NEW s \in Space, SwitchToSpace(k, s)
      PROVE  SerialInv'
  <2>1. PICK q : /\ q = Waiting("query", NoTab, s)
                 /\ q.pc = "query" /\ q.space = s
    BY <1>4
  <2>2. /\ Begin(FALSE) /\ task' = [task EXCEPT ![k] = q] /\ SaveActive(k)
        /\ s \in spaces /\ activeId' = s /\ UNCHANGED <<spaces, tabMap>>
    BY <1>7, <2>1 DEF SwitchToSpace
  <2>3. ASSUME HeldResolves, Held["spaces"] = {spaces}
        PROVE  HeldResolves' /\ OnScreen(q)' /\ InStore(q, k)'
    <3>1. HeldResolves'
      BY <1>1, <2>2, <2>3, SavesResolve
    <3> QED  BY <2>1, <2>2, <3>1 DEF OnScreen, InStore
  <2> QED  BY <1>3, <2>2, <2>3
<1>8. ASSUME NEW t \in open \ hidden, NEW s \in Space, AssignTab(k, t, s)
      PROVE  SerialInv'
  <2>1. PICK q : /\ q = Waiting("assigned", t, s)
                 /\ q.pc = "assigned" /\ q.tab = t /\ q.space = s
    BY <1>4
  <2>2. /\ Begin(FALSE) /\ task' = [task EXCEPT ![k] = q] /\ SaveTabMap(k)
        /\ s \in spaces /\ tabMap' = [tabMap EXCEPT ![t] = s]
        /\ UNCHANGED <<hidden, spaces, activeId>>
    BY <1>8, <2>1 DEF AssignTab, SetTabSpace, browser
  <2>3. ASSUME Held["spaces"] = {spaces}, Visible, HeldResolves,
               \A u \in Tab : tabMap[u] \in spaces \cup {NoSpace}
        PROVE  HeldResolves' /\ OnScreen(q)' /\ InStore(q, k)'
    <3>1. \A S \in Held["spaces"], u \in Tab : tabMap'[u] \in S \cup {NoSpace}
      BY <1>1, <2>2, <2>3
    <3>2. HeldResolves'
      BY <1>1, <2>2, <2>3, <3>1, SavesResolve
    <3>3. Visible'
      BY <1>1, <1>2, <2>2, <2>3 DEF Visible
    <3> QED  BY <1>1, <2>1, <2>2, <3>2, <3>3 DEF OnScreen, InStore
  <2> QED  BY <1>3, <2>2, <2>3
<1>9. ASSUME NEW s \in created, AssignCurrentTab(k, s)
      PROVE  SerialInv'
  <2>1. PICK q : /\ q = Waiting("pick", NoTab, s)
                 /\ q.pc = "pick" /\ q.space = s
    BY <1>4
  <2>2. /\ Begin(s \notin spaces) /\ task' = [task EXCEPT ![k] = q] /\ UNCHANGED store
        /\ UNCHANGED <<hidden, spaces, activeId, tabMap>>
    BY <1>9, <2>1 DEF AssignCurrentTab, browser, memory
  <2>3. ASSUME s \in spaces, InFlight = {}, Visible, HeldResolves
        PROVE  HeldResolves' /\ OnScreen(q)' /\ InStore(q, k)'
    BY <1>2, <2>1, <2>2, <2>3, StoreStays DEF HeldResolves, OnScreen, InStore, Visible, None
  <2> QED  BY <1>3, <2>2, <2>3
<1>10. ASSUME NEW t \in open, UnassignTab(k, t)
       PROVE  SerialInv'
  <2>1. PICK q : /\ q = Waiting("released", t, NoSpace)
                 /\ q.pc = "released"
    BY <1>4
  <2>2. /\ Begin(FALSE) /\ task' = [task EXCEPT ![k] = q] /\ SaveTabMap(k)
        /\ tabMap' = [tabMap EXCEPT ![t] = NoSpace]
        /\ UNCHANGED <<hidden, spaces, activeId>>
    BY <1>10, <2>1 DEF UnassignTab, SetTabSpace, browser
  <2>3. ASSUME Held["spaces"] = {spaces}, Visible, HeldResolves,
               \A u \in Tab : tabMap[u] \in spaces \cup {NoSpace}
        PROVE  HeldResolves' /\ OnScreen(q)' /\ InStore(q, k)'
    <3>1. \A S \in Held["spaces"], u \in Tab : tabMap'[u] \in S \cup {NoSpace}
      BY <1>1, <2>2, <2>3
    <3>2. HeldResolves'
      BY <1>1, <2>2, <2>3, <3>1, SavesResolve
    <3>3. Visible'
      BY <1>1, <1>2, <2>2, <2>3 DEF Visible
    <3> QED  BY <2>1, <3>2, <3>3 DEF OnScreen, InStore
  <2> QED  BY <1>3, <2>2, <2>3
<1>11. ASSUME NEW t \in Tab, OpenTab(k, t)
       PROVE  SerialInv'
  <2>1. Begin(FALSE) /\ t \notin hidden /\ UNCHANGED <<hidden, spaces, activeId>>
    BY <1>1, <1>11 DEF OpenTab
  <2>2. CASE activeId \in spaces
    <3>1. PICK q : /\ q = Waiting("assigned", t, activeId)
                   /\ q.pc = "assigned" /\ q.tab = t /\ q.space = activeId
      BY <1>4
    <3>2. /\ task' = [task EXCEPT ![k] = q] /\ tabMap' = [tabMap EXCEPT ![t] = activeId]
          /\ SaveTabMap(k)
      BY <1>11, <2>2, <3>1 DEF OpenTab, SetTabSpace
    <3>3. ASSUME Held["spaces"] = {spaces}, Visible, HeldResolves,
                 \A u \in Tab : tabMap[u] \in spaces \cup {NoSpace}
          PROVE  HeldResolves' /\ OnScreen(q)' /\ InStore(q, k)'
      <4>1. \A S \in Held["spaces"], u \in Tab : tabMap'[u] \in S \cup {NoSpace}
        BY <1>1, <2>2, <3>2, <3>3
      <4>2. HeldResolves'
        BY <1>1, <3>2, <3>3, <4>1, SavesResolve
      <4>3. Visible'
        BY <1>1, <1>2, <2>1, <3>2, <3>3 DEF Visible
      <4> QED  BY <1>1, <2>1, <3>1, <3>2, <4>2, <4>3 DEF OnScreen, InStore
    <3> QED  BY <1>3, <2>1, <3>2, <3>3
  <2>3. CASE activeId \notin spaces
    <3>1. task[k] = Idle /\ UNCHANGED <<task, tabMap, store>>
      BY <1>11, <2>3 DEF OpenTab
    <3>2. task' = [task EXCEPT ![k] = Idle]
      BY <1>1, <3>1
    <3>3. ASSUME Visible, HeldResolves
          PROVE  HeldResolves' /\ OnScreen(Idle)' /\ InStore(Idle, k)'
      BY <1>2, <2>1, <3>1, <3>3, StoreAside, IdleDoesNotLoad DEF OnScreen, Visible
    <3> QED  BY <1>3, <2>1, <3>2, <3>3
  <2> QED  BY <2>2, <2>3
<1> QED
  BY <1>1, <1>5, <1>6, <1>7, <1>8, <1>9, <1>10, <1>11 DEF Handle

\* A new space and a new name: nothing waits afterwards.
LEMMA NameSerial ==
    ASSUME SerialInv, StoreInv', CreateSpace \/ \E s \in Space : RenameSpace(s)
    PROVE  SerialInv'
<1>1. /\ Begin(FALSE) /\ UNCHANGED <<task, hidden, activeId, tabMap, arranged>>
      /\ spaces \subseteq spaces' /\ SaveSpaces(NoSlot) /\ TypeOK /\ TypeOK'
  BY DEF CreateSpace, RenameSpace, DrawSpace, browser, memory, SerialInv, StoreInv
<1> SUFFICES ASSUME Serial'
             PROVE  SerialInv'
  BY DEF SerialInv
<1>2. Quiet /\ Serial
  BY <1>1, BeginRace DEF Serial, Begin
<1>3. PICK k \in Slot : Alone(k)
  BY <1>2 DEF SerialInv
<1>4. task'[k] = Idle /\ \A j \in Slot \ {k} : task'[j] = task[j]
  BY <1>1, <1>2 DEF Quiet
<1>5. ASSUME Visible, HeldResolves,
             \A a \in Held["active"] : a \in spaces \cup {NoSpace},
             \A m \in Held["tabMap"], t \in Tab : m[t] \in spaces \cup {NoSpace}
      PROVE  HeldResolves' /\ OnScreen(Idle)' /\ InStore(Idle, k)'
  <2>1. HeldResolves'
    BY <1>1, <1>5, SavesResolve
  <2>2. OnScreen(Idle)' /\ InStore(Idle, k)'
    BY <1>1, <1>5, IdleDoesNotLoad DEF OnScreen, InStore, Visible
  <2> QED  BY <2>1, <2>2
<1>6. lost' = lost
  BY <1>1 DEF SaveSpaces, Issue
<1> QED  BY <1>1, <1>4, <1>5, <1>6, BeginsAlone

\* A tab is closed while a task waits, which then still finds what it needs.
LEMMA CloseSerial ==
    ASSUME SerialInv, StoreInv', NEW t \in open, CloseTab(t)
    PROVE  SerialInv'
<1>1. /\ task \in [Slot -> Task] /\ open \subseteq Tab /\ spaces \subseteq Space
      /\ activeId \in SpaceRef /\ tabMap \in [Tab -> SpaceRef] /\ TypeOK /\ TypeOK'
  BY MemoryType DEF SerialInv, StoreInv, TypeOK, SpaceRef
<1>2. /\ hidden' = hidden \ {t} /\ tabMap' = [tabMap EXCEPT ![t] = NoSpace]
      /\ UNCHANGED <<spaces, activeId, task, race, failures, arranged>>
      /\ UNCHANGED store \/ (tabMap[t] # NoSpace /\ SaveTabMap(NoSlot))
  <2>1. tabMap[t] = NoSpace => tabMap = [tabMap EXCEPT ![t] = NoSpace]
    BY <1>1
  <2> QED  BY <2>1 DEF CloseTab, SetTabSpace, history
<1> SUFFICES ASSUME Serial
             PROVE  lost' = {} /\ HeldResolves'
                    /\ \E k \in Slot : (Alone(k) /\ OnScreen(task[k]) /\ InStore(task[k], k))'
  BY <1>2 DEF SerialInv, Serial
<1>3. lost = {} /\ HeldResolves
  BY DEF SerialInv
<1>4. PICK k \in Slot : Alone(k) /\ OnScreen(task[k]) /\ InStore(task[k], k)
  BY DEF SerialInv
<1>5. PICK p : p = task[k]
  OBVIOUS
<1>6. Visible => Visible'
  BY <1>1, <1>2 DEF Visible
<1>7. p.space \in spaces \cup Space => p.space # NoSpace
  BY <1>1, NoneAssumption
<1>8. OnScreen(p)'
  BY <1>1, <1>2, <1>4, <1>5, <1>6, <1>7 DEF OnScreen
<1>9. CASE UNCHANGED store
  <2>1. HeldResolves' /\ lost' = lost
    BY <1>3, <1>9, StoreStays DEF HeldResolves
  <2>2. \A u \in Tab : tabMap'[u] \in {tabMap[u], NoSpace}
    BY <1>1, <1>2
  <2>3. InStore(p, k)'
    BY <1>2, <1>4, <1>5, <1>7, <1>9, <2>2, StoreStays DEF InStore, None, Without
  <2> QED  BY <1>2, <1>3, <1>4, <1>5, <1>8, <2>1, <2>3 DEF Alone
<1>10. CASE tabMap[t] # NoSpace /\ SaveTabMap(NoSlot)
  <2>1. ~Loading
    BY <1>1, <1>10 DEF SerialInv, StoreInv, LoadsAlone, Loading, NoTabMap, Serial
  <2>2. Followed
    BY <2>1, FollowsIs DEF SerialInv, StoreInv, Followed, Serial
  <2>3. \A u \in Tab : tabMap'[u] \in {tabMap[u], NoSpace}
    BY <1>1, <1>2
  <2>4. tabMap \in Held["tabMap"]
    BY <1>1, <1>3, <2>2, MemoryResolves
  <2>5. HeldResolves' /\ lost' = lost
    <3>1. \A S \in Held["spaces"], u \in Tab : tabMap'[u] \in S \cup {NoSpace}
      BY <1>3, <2>3, <2>4 DEF HeldResolves
    <3> QED  BY <1>1, <1>3, <1>10, <3>1, SavesResolve, SaveHeld
  <2>6. PICK w : w = [key |-> "tabMap", value |-> tabMap', by |-> NoSlot]
    OBVIOUS
  <2>7. /\ InFlight' = InFlight \cup {w} /\ w.key = "tabMap" /\ w.value = tabMap'
        /\ stored' = stored /\ Held'["tabMap"] = Held["tabMap"] \cup {tabMap'}
    BY <1>1, <1>10, <2>6, SaveHeld
  <2>8. InStore(p, k)'
    <3>1. CASE p.pc = "unassigned"
      BY <1>4, <1>5, <1>7, <2>3, <2>7, <3>1 DEF InStore, None
    <3>2. CASE p.pc \in {"queryAll", "showAll"} /\ p.space # NoSpace
      BY <1>4, <1>5, <2>3, <2>4, <2>7, <3>2 DEF InStore, None, Without
    <3>3. CASE p.pc = "cleared"
      BY <1>4, <1>5, <1>7, <2>3, <2>4, <2>7, <3>3 DEF InStore, None, Without
    <3>4. CASE p.pc = "pick"
      BY <1>2, <1>4, <1>5, <2>7, <3>4 DEF InStore, None
    <3> QED  BY <3>1, <3>2, <3>3, <3>4 DEF InStore
  <2> QED  BY <1>2, <1>3, <1>4, <1>5, <1>8, <2>5, <2>8 DEF Alone
<1> QED  BY <1>2, <1>9, <1>10

\* A write is done: what the store may come to hold is less than before.
LEMMA WriteSerial ==
    ASSUME SerialInv, StoreInv', WriteDone \/ WriteFails
    PROVE  SerialInv'
<1>1. /\ pending \in Seq(Write) /\ stored \in State /\ failures \in Nat
      /\ {"spaces", "active", "tabMap"} \subseteq Key
  BY KeyValues DEF SerialInv, StoreInv, TypeOK
<1>2. CASE WriteFails
  <2>1. ~Serial'
    BY <1>1, <1>2 DEF WriteFails, Fail, Serial
  <2> QED  BY <2>1 DEF SerialInv
<1>3. CASE WriteDone
  <2>1. /\ UNCHANGED <<hidden, spaces, activeId, tabMap, task, race, failures, arranged>>
        /\ lost' \subseteq lost
    BY <1>3 DEF WriteDone, browser, memory, history
  <2>2. PICK w \in InFlight :
              /\ w.key \in Key
              /\ InFlight' \subseteq InFlight /\ InFlight \subseteq InFlight' \cup {w}
              /\ \A K \in Key : stored'[K] = IF K = w.key THEN w.value ELSE stored[K]
              /\ \A K \in Key : Held'[K] \subseteq Held[K]
    BY <1>1, <1>3, DoneHeld
  <2> SUFFICES ASSUME Serial
               PROVE  lost' = {} /\ HeldResolves'
                      /\ \E k \in Slot : (Alone(k) /\ OnScreen(task[k]) /\ InStore(task[k], k))'
    BY <2>1 DEF SerialInv, Serial
  <2>3. PICK k \in Slot : Alone(k) /\ OnScreen(task[k]) /\ InStore(task[k], k)
    BY DEF SerialInv
  <2>4. PICK p : p = task[k]
    OBVIOUS
  <2>5. HeldResolves' /\ lost' = {}
    BY <1>1, <2>1, <2>2 DEF SerialInv, HeldResolves
  <2>6. OnScreen(p)'
    BY <2>1, <2>3, <2>4 DEF OnScreen, Visible
  <2>7. InStore(p, k)'
    <3>1. CASE p.pc = "unassigned"
      <4>1. (\A t \in Tab : stored'["tabMap"][t] # p.space) \/ \E x \in InFlight' : x.key = "tabMap" /\ x.by = k
        BY <1>1, <2>2, <2>3, <2>4, <3>1 DEF InStore
      <4> QED  BY <2>1, <2>2, <2>3, <2>4, <3>1, <4>1 DEF InStore, None
    <3>2. CASE p.pc \in {"queryAll", "showAll"} /\ p.space # NoSpace
      BY <1>1, <2>2, <2>3, <2>4, <3>2 DEF InStore, None, Without
    <3>3. CASE p.pc = "cleared"
      <4>1. stored'["active"] # p.space \/ \E x \in InFlight' : x.key = "active" /\ x.by = k
        BY <1>1, <2>2, <2>3, <2>4, <3>3 DEF InStore
      <4> QED  BY <1>1, <2>2, <2>3, <2>4, <3>3, <4>1 DEF InStore, None, Without
    <3>4. CASE p.pc = "pick"
      BY <2>1, <2>2, <2>3, <2>4, <3>4 DEF InStore, None
    <3> QED  BY <3>1, <3>2, <3>3, <3>4 DEF InStore
  <2> QED  BY <2>1, <2>3, <2>4, <2>5, <2>6, <2>7 DEF Alone
<1> QED  BY <1>2, <1>3

LEMMA InitSerial == Init => SerialInv
<1> SUFFICES ASSUME Init PROVE SerialInv
  OBVIOUS
<1>1. PICK k \in Slot : task = [j \in Slot |-> IF j = k THEN Waiting("load", NoTab, NoSpace) ELSE Idle]
  BY DEF Init
<1>2. Alone(k) /\ task[k].pc = "load"
  BY <1>1, IdleDoesNotLoad DEF Alone
<1>3. PICK p : p = task[k]
  OBVIOUS
<1>4. OnScreen(p) /\ InStore(p, k)
  BY <1>2, <1>3 DEF Init, OnScreen, InStore, Visible
<1>5. HeldResolves
  BY QuietHeld, KeyValues DEF Init, Empty, NoTabMap, HeldResolves
<1> QED  BY <1>2, <1>3, <1>4, <1>5, InitStore DEF SerialInv, Init

LEMMA NextSerial == SerialInv /\ [Next]_vars => SerialInv'
<1> SUFFICES ASSUME SerialInv, [Next]_vars PROVE SerialInv'
  OBVIOUS
<1>1. StoreInv' /\ TypeOK
  BY NextStore DEF SerialInv, StoreInv
<1>2. CASE Restart
  <2>1. PICK k \in Slot : task' = [j \in Slot |-> IF j = k THEN Waiting("load", NoTab, NoSpace) ELSE Idle]
    BY <1>2 DEF Restart, Boot
  <2>2. Alone(k)' /\ task'[k].pc = "load"
    BY <2>1, IdleDoesNotLoad DEF Alone
  <2>3. PICK p : p = task'[k]
    OBVIOUS
  <2>4. OnScreen(p)' /\ InStore(p, k)'
    BY <1>2, <2>2, <2>3 DEF Restart, Boot, OnScreen, InStore, Visible
  <2>5. Held' = [key \in Key |-> {stored[key]}]
    BY <1>2 DEF Restart, Held, InFlight
  <2>6. \A key \in Key : Held'[key] \subseteq Held[key]
    BY <2>5 DEF Held
  <2>7. Serial' => HeldResolves'
    BY <1>2, <2>6, KeyValues DEF Restart, SerialInv, Serial, HeldResolves
  <2> QED  BY <1>1, <1>2, <2>2, <2>3, <2>4, <2>7 DEF SerialInv, Restart
<1>3. CASE CreateSpace \/ \E s \in Space : RenameSpace(s)
  BY <1>1, <1>3, NameSerial
<1>4. ASSUME NEW t \in open, CloseTab(t)
      PROVE  SerialInv'
  BY <1>1, <1>4, CloseSerial
<1>5. CASE UNCHANGED vars \/ \E t \in open \ hidden : SelectTab(t)
  <2>1. /\ UNCHANGED <<task, race, failures, hidden, spaces, activeId, tabMap, arranged>>
        /\ UNCHANGED store
    BY <1>5 DEF SelectTab, vars, browser, memory, history
  <2>2. \A p : OnScreen(p) => OnScreen(p)'
    BY <2>1 DEF OnScreen, Visible
  <2>3. \A p, k : InStore(p, k) => InStore(p, k)'
    BY <2>1, StoreStays DEF InStore, None, Without
  <2>4. ASSUME NEW k \in Slot, Alone(k), OnScreen(task[k]), InStore(task[k], k)
        PROVE  (Alone(k) /\ OnScreen(task[k]) /\ InStore(task[k], k))'
    <3>1. PICK p : p = task[k]
      OBVIOUS
    <3>2. OnScreen(p)' /\ InStore(p, k)'
      BY <2>2, <2>3, <2>4, <3>1
    <3> QED  BY <2>1, <2>4, <3>1, <3>2 DEF Alone
  <2>5. HeldResolves => HeldResolves'
    BY <2>1, StoreStays DEF HeldResolves
  <2> QED
    BY <1>1, <2>1, <2>4, <2>5, StoreStays DEF SerialInv, Serial
<1>6. ASSUME NEW k \in Slot, Step(k)
      PROVE  SerialInv'
  BY <1>1, <1>6, StartupSerial, DeleteSerial, SwitchSerial, AssignSerial DEF Step
<1>7. ASSUME NEW k \in Slot, Handle(k)
      PROVE  SerialInv'
  BY <1>1, <1>7, HandlerSerial
<1>8. CASE WriteDone \/ WriteFails
  BY <1>1, <1>8, WriteSerial
<1> QED
  BY <1>2, <1>3, <1>4, <1>5, <1>6, <1>7, <1>8 DEF Next

LEMMA InvHolds == Spec => []SerialInv
BY InitSerial, NextSerial, PTL DEF Spec

\* What a quiet moment finds.
LEMMA QuietVisible ==
    ASSUME SerialInv, Serial, Quiet
    PROVE  Visible
BY IdleHasNothingLeft DEF SerialInv, Quiet

-----------------------------------------------------------------------------
(* The theorems.                                                           *)

\* Whatever the handlers do, every variable of background.js and of the
\* browser keeps its type, and tabs.hide never leaves an active tab hidden.
THEOREM Typed == Spec => []TypeOK
<1>1. SerialInv => TypeOK
  BY DEF SerialInv, StoreInv
<1> QED  BY <1>1, InvHolds, PTL

\* However many handlers overlap and whatever writes fail, the store comes to
\* hold what saveSpaces, saveActiveSpaceId and saveTabMap last gave it, and
\* that is what the script has in memory; a failed write is the one exception,
\* until the next of its key.
THEOREM StoreIsMemory == Spec => []StorageFollowsMemory
<1>1. SerialInv => StorageFollowsMemory
  BY DEF SerialInv, StoreInv
<1> QED  BY <1>1, InvHolds, PTL

\* Handlers that run one at a time, with writes that do not fail, store no
\* reference to a space that is gone, at any await of deleteSpace and of the
\* others, whichever of the writes on their way are done: a restart anywhere
\* finds the space of every tab.
THEOREM ReferencesResolve == Spec => []StoredReferencesResolve
<1>1. SerialInv => StoredReferencesResolve
  BY StoredResolve DEF SerialInv, StoreInv, StoredReferencesResolve
<1> QED  BY <1>1, InvHolds, PTL

\* Such handlers leave no tab of the active space hidden in the window that
\* was sorted last: what switchToSpace, assignTab and onCreated sort is right
\* together.
THEOREM ActiveTabsShow == Spec => []ActiveSpaceIsVisible
<1>1. SerialInv => ActiveSpaceIsVisible
  BY QuietVisible DEF ActiveSpaceIsVisible, Visible
<1> QED  BY <1>1, InvHolds, PTL

\* Such handlers leave nothing hidden in the window whose tabs were shown or
\* sorted last once no space is active: after exitSpaceFilter and after the
\* active space is deleted.
THEOREM NoSpaceShows == Spec => []NoSpaceShowsWindow
<1>1. SerialInv => NoSpaceShowsWindow
  BY QuietVisible DEF NoSpaceShowsWindow, Visible
<1> QED  BY <1>1, InvHolds, PTL

=============================================================================
