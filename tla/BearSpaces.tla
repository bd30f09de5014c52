----------------------------- MODULE BearSpaces -----------------------------
(***************************************************************************)
(* extensions/bear-spaces/background.js: named tab workspaces.             *)
(*                                                                         *)
(* The background script keeps the spaces, the active space and the space  *)
(* of each tab in memory, saves them under three storage keys, and hides   *)
(* and shows tabs.  Its handlers are asynchronous: each runs up to an      *)
(* await and lets the others run there.  A task is a handler that waits;   *)
(* an action is the code between two awaits.  The browser may restart      *)
(* between any two of them.  A write to the store is complete some time    *)
(* after it was issued, or fails: then the handler that waits for it ends. *)
(*                                                                         *)
(* Abstraction: a space is its identifier (its name and date change        *)
(* nothing else); a tab stays in its window; the store keeps the order of  *)
(* the writes; what the browser answers is what holds when the script goes *)
(* on.  The context menu and the ping to the memory mesh are left out:     *)
(* nothing here reads them back.                                           *)
(***************************************************************************)
EXTENDS Naturals, Sequences, FiniteSets

CONSTANTS
    Tab,        \* tab identifiers; a session gives each at most once
    Window,     \* browser windows
    WindowOf,   \* the window of each tab
    Session,    \* bound: the sets of tabs a session may begin with
    Space,      \* space identifiers genId draws; each at most once
    Slot,       \* bound: handlers that wait at the same time
    MaxHandlers,    \* bound: handlers started
    MaxRestarts,    \* bound: restarts of the browser
    MaxFailures,    \* bound: uses of the store that fail
    NoTab,
    NoWindow,
    NoSpace,
    NoSlot

ASSUME BoundsAssumption == MaxHandlers \in Nat /\ MaxRestarts \in Nat /\ MaxFailures \in Nat
ASSUME WindowAssumption == WindowOf \in [Tab -> Window]
ASSUME SessionAssumption == Session \subseteq SUBSET Tab
ASSUME NoneAssumption ==
    NoTab \notin Tab /\ NoWindow \notin Window /\ NoSpace \notin Space /\ NoSlot \notin Slot

VARIABLES
    open, hidden, current,      \* the browser: its tabs, the ones tabs.hide
                                \* hid, the active one of each window
    front,                      \* the window that is "current" for the script
    used,                       \* tab identifiers given in this session
    spaces, activeId, tabMap,   \* the script's memory
    stored,                     \* the three storage keys
    pending,                    \* the writes issued and not yet in the store
    reading,                    \* what loadState reads, until it has it
    task,                       \* what each handler that waits will do
    created,                    \* space identifiers drawn so far
    handlers, restarts, failures,   \* counts, for the bounds
    race,                       \* history: how handlers have overlapped
    lost,                       \* history: keys whose last write failed
    arranged                    \* history: the window last shown or sorted

browser == <<open, hidden, current, front, used>>
memory == <<spaces, activeId, tabMap>>
store == <<stored, pending, reading, lost>>
history == <<handlers, restarts, failures, race>>
vars == <<browser, memory, store, task, created, history, arranged>>

-----------------------------------------------------------------------------
NoTabMap == [t \in Tab |-> NoSpace]
Empty == [spaces |-> {}, active |-> NoSpace, tabMap |-> NoTabMap]

\* A task: where it is, the tab and the space it is about, the tabs it has
\* still to show and to hide.
Pcs == {"idle", "load", "seed1", "seed2", "seed3", "query", "apply", "queryAll",
        "showAll", "unassigned", "cleared", "pick", "assigned", "released"}
Task == [pc : Pcs, tab : Tab \cup {NoTab}, space : Space \cup {NoSpace},
         show : SUBSET Tab, hide : SUBSET Tab]
Idle == [pc |-> "idle", tab |-> NoTab, space |-> NoSpace,
         show |-> {}, hide |-> {}]
Waiting(pc, tab, space) == [Idle EXCEPT !.pc = pc, !.tab = tab, !.space = space]

Loading == \E k \in Slot : task[k].pc = "load"
Quiet == pending = <<>> /\ \A k \in Slot : task[k] = Idle

\* A handler starts.  History: "running" once one has started while another
\* waited, or on a space that is gone; "loading" once one has started before
\* the saved state was loaded.
Begin(stale) ==
    /\ handlers < MaxHandlers
    /\ handlers' = handlers + 1
    /\ race' = CASE Loading \/ race = "loading" -> "loading"
                 [] ~Loading /\ race = "none" /\ (stale \/ ~Quiet) -> "running"
                 [] OTHER -> race
    /\ UNCHANGED <<restarts, failures>>

\* A handler goes on, when the write it waits for is in the store.
Saved(k) == \A i \in DOMAIN pending : pending[i].by # k

Continue(k, pc, next) ==
    /\ task[k].pc = pc
    /\ Saved(k)
    /\ task' = [task EXCEPT ![k] = next]
    /\ UNCHANGED <<front, used, created, history>>

\* What tabs.query({currentWindow: true}) answers.
WindowTabs == {t \in open : WindowOf[t] = front}

\* browser.tabs.hide refuses an active tab; a tab that is gone is an error
\* every caller swallows.
Active == {current[w] : w \in Window}
TabsHide(t) == hidden' = hidden \cup ({t} \cap (open \ Active))
TabsShow(t) == hidden' = hidden \ {t}

-----------------------------------------------------------------------------
(* The store.  A write is issued with what the memory holds then; by is    *)
(* the task that goes on after it, if one does.                            *)

Issue(key, value, by) ==
    /\ pending' = Append(pending, [key |-> key, value |-> value, by |-> by])
    /\ UNCHANGED <<stored, reading, lost>>

SaveSpaces(by) == Issue("spaces", spaces', by)
SaveActive(by) == Issue("active", activeId', by)
SaveTabMap(by) == Issue("tabMap", tabMap', by)

Fail ==
    /\ failures < MaxFailures
    /\ failures' = failures + 1
    /\ UNCHANGED <<handlers, restarts>>

\* storage.local.set resolves, ...
WriteDone ==
    /\ pending # <<>>
    /\ LET w == Head(pending)
       IN  /\ stored' = [stored EXCEPT ![w.key] = w.value]
           /\ lost' = lost \ {w.key}
    /\ pending' = Tail(pending)
    /\ UNCHANGED <<browser, memory, reading, task, created, history, arranged>>

\* ... or rejects: nothing catches it, and what the handler had still to do is
\* not done.
WriteFails ==
    /\ pending # <<>>
    /\ LET w == Head(pending)
       IN  /\ lost' = lost \cup {w.key}
           /\ task' = [k \in Slot |-> IF k = w.by THEN Idle ELSE task[k]]
    /\ pending' = Tail(pending)
    /\ Fail
    /\ UNCHANGED <<browser, memory, stored, reading, created, race, arranged>>

-----------------------------------------------------------------------------
(* Startup.  A restarted browser has fresh tab identifiers and shows every *)
(* tab; the script starts with nothing and asks for the saved state.       *)

\* Some tabs are open, one in each window that has any is active.
BrowserStarts(tabs, active, window) ==
    /\ \A w \in Window :
          LET in == {t \in tabs : WindowOf[t] = w}
          IN  IF in = {} THEN active[w] = NoTab ELSE active[w] \in in
    /\ \E t \in tabs : WindowOf[t] = window

Boot ==
    /\ open' \in Session
    /\ current' \in [Window -> Tab \cup {NoTab}]
    /\ front' \in Window
    /\ BrowserStarts(open', current', front')
    /\ hidden' = {}
    /\ used' = open'
    /\ spaces' = {} /\ activeId' = NoSpace /\ tabMap' = NoTabMap
    /\ \E k \in Slot :
          task' = [j \in Slot |->
                      IF j = k THEN Waiting("load", NoTab, NoSpace) ELSE Idle]

\* The writes that were not in the store yet are not in it.
Restart ==
    /\ restarts < MaxRestarts
    /\ restarts' = restarts + 1
    /\ Boot
    /\ reading' = stored
    /\ pending' = <<>>
    /\ lost' = {}
    /\ arranged' = NoWindow
    /\ UNCHANGED <<stored, created, handlers, failures, race>>

Init ==
    /\ open \in Session
    /\ current \in [Window -> Tab \cup {NoTab}]
    /\ front \in Window
    /\ BrowserStarts(open, current, front)
    /\ hidden = {}
    /\ used = open
    /\ spaces = {} /\ activeId = NoSpace /\ tabMap = NoTabMap
    /\ stored = Empty /\ reading = Empty
    /\ pending = <<>> /\ lost = {}
    /\ \E k \in Slot :
          task = [j \in Slot |->
                     IF j = k THEN Waiting("load", NoTab, NoSpace) ELSE Idle]
    /\ created = {}
    /\ handlers = 0 /\ restarts = 0 /\ failures = 0 /\ race = "none"
    /\ arranged = NoWindow

\* The part of createSpace before its await.
DrawSpace(by) ==
    \E id \in Space \ created :
        /\ created' = created \cup {id}
        /\ spaces' = spaces \cup {id}
        /\ SaveSpaces(by)

\* The end of startup: switch again to the space that was active.
Resume(k) ==
    IF activeId' \in spaces'
    THEN /\ task' = [task EXCEPT ![k] = Waiting("query", NoTab, activeId')]
         /\ pending' = Append(pending, [key |-> "active", value |-> activeId', by |-> k])
    ELSE /\ task' = [task EXCEPT ![k] = Idle]
         /\ UNCHANGED pending

Load(k) ==
    /\ task[k].pc = "load"
    /\ reading.spaces # {}
    /\ spaces' = reading.spaces
    /\ activeId' = reading.active
    /\ tabMap' = reading.tabMap
    /\ Resume(k)
    /\ reading' = Empty
    /\ UNCHANGED <<browser, stored, lost, created, history, arranged>>

\* A store without spaces is a new install: "Work", "Personal", "Research".
LoadNothing(k) ==
    /\ task[k].pc = "load"
    /\ reading.spaces = {}
    /\ activeId' = reading.active
    /\ tabMap' = reading.tabMap
    /\ \E id \in Space \ created :
          /\ created' = created \cup {id}
          /\ spaces' = {id}
          /\ pending' = Append(pending, [key |-> "spaces", value |-> spaces', by |-> k])
    /\ task' = [task EXCEPT ![k].pc = "seed1"]
    /\ reading' = Empty
    /\ UNCHANGED <<browser, stored, lost, history, arranged>>

\* storage.local.get rejects: the script goes on with nothing.
LoadFails(k) ==
    /\ task[k].pc = "load"
    /\ task' = [task EXCEPT ![k] = Idle]
    /\ race' = "loading"
    /\ Fail
    /\ reading' = Empty
    /\ UNCHANGED <<browser, memory, stored, pending, lost, created, arranged>>

Seed(k) ==
    /\ \/ task[k].pc = "seed1" /\ task' = [task EXCEPT ![k].pc = "seed2"]
       \/ task[k].pc = "seed2" /\ task' = [task EXCEPT ![k].pc = "seed3"]
    /\ Saved(k)
    /\ DrawSpace(k)
    /\ UNCHANGED <<browser, activeId, tabMap, history, arranged>>

Seeded(k) ==
    /\ task[k].pc = "seed3"
    /\ Saved(k)
    /\ UNCHANGED <<browser, memory, stored, reading, lost, created, history, arranged>>
    /\ Resume(k)

-----------------------------------------------------------------------------
(* Spaces.                                                                 *)

CreateSpace ==
    /\ DrawSpace(NoSlot)
    /\ Begin(FALSE)
    /\ UNCHANGED <<browser, activeId, tabMap, task, arranged>>

RenameSpace(s) ==
    /\ s \in spaces
    /\ UNCHANGED <<browser, memory, task, created, arranged>>
    /\ SaveSpaces(NoSlot)
    /\ Begin(FALSE)

\* Mutant: the space goes first.
SpaceFirst(k, s) ==
    /\ task[k] = Idle
    /\ s \in spaces
    /\ tabMap' = [t \in Tab |-> IF tabMap[t] = s THEN NoSpace ELSE tabMap[t]]
    /\ spaces' = spaces \ {s}
    /\ pending' = pending \o <<[key |-> "spaces", value |-> spaces', by |-> NoSlot],
                              [key |-> "tabMap", value |-> tabMap', by |-> k]>>
    /\ task' = [task EXCEPT ![k] = Waiting("unassigned", NoTab, s)]
    /\ Begin(FALSE)
    /\ UNCHANGED <<browser, activeId, stored, reading, lost, created, arranged>>

\* deleteSpace: the tabs lose their space first, ...
DeleteSpace(k, s) ==
    /\ task[k] = Idle
    /\ s \in spaces
    /\ tabMap' = [t \in Tab |-> IF tabMap[t] = s THEN NoSpace ELSE tabMap[t]]
    /\ SaveTabMap(k)
    /\ task' = [task EXCEPT ![k] = Waiting("unassigned", NoTab, s)]
    /\ Begin(FALSE)
    /\ UNCHANGED <<browser, spaces, activeId, created, arranged>>

\* ... then, if the space is active, every tab is shown and no space is
\* active any more, ...
ShowOrphans(k) ==
    /\ activeId = task[k].space
    /\ Continue(k, "unassigned", [task[k] EXCEPT !.pc = "queryAll"])
    /\ UNCHANGED <<open, hidden, current, memory, store, arranged>>

\* Mutant: saveSpaces is not called.
ForgetSpace(k) ==
    /\ \/ activeId # task[k].space /\ Continue(k, "unassigned", Idle)
       \/ Continue(k, "cleared", Idle)
    /\ spaces' = spaces \ {task[k].space}
    /\ UNCHANGED <<open, hidden, current, activeId, tabMap, store, arranged>>

\* ... and only then the space goes.
DropSpace(k) ==
    /\ \/ activeId # task[k].space /\ Continue(k, "unassigned", Idle)
       \/ Continue(k, "cleared", Idle)
    /\ spaces' = spaces \ {task[k].space}
    /\ SaveSpaces(NoSlot)
    /\ UNCHANGED <<open, hidden, current, activeId, tabMap, arranged>>

\* exitSpaceFilter begins with showAllTabs.
ExitFilter(k) ==
    /\ task[k] = Idle
    /\ task' = [task EXCEPT ![k] = Waiting("queryAll", NoTab, NoSpace)]
    /\ Begin(FALSE)
    /\ UNCHANGED <<browser, memory, store, created, arranged>>

\* Mutant: no tab is shown.
ShowNone(k) ==
    /\ Continue(k, "queryAll", [task[k] EXCEPT !.pc = "showAll"])
    /\ arranged' = front
    /\ UNCHANGED <<open, hidden, current, memory, store>>

\* showAllTabs, for exitSpaceFilter and for deleteSpace (which has a space):
\* the tabs of the current window, ...
ListTabs(k) ==
    /\ Continue(k, "queryAll", [task[k] EXCEPT !.pc = "showAll", !.show = WindowTabs])
    /\ arranged' = front
    /\ UNCHANGED <<open, hidden, current, memory, store>>

\* ... one by one.
ShowNext(k) ==
    \E t \in task[k].show :
        /\ Continue(k, "showAll", [task[k] EXCEPT !.show = @ \ {t}])
        /\ TabsShow(t)
        /\ UNCHANGED <<open, current, memory, store, arranged>>

ClearActive(k) ==
    /\ task[k].show = {}
    /\ activeId' = NoSpace
    /\ \/ /\ task[k].space = NoSpace
          /\ Continue(k, "showAll", Idle)
          /\ SaveActive(NoSlot)
       \/ /\ task[k].space # NoSpace
          /\ Continue(k, "showAll", [task[k] EXCEPT !.pc = "cleared"])
          /\ SaveActive(k)
    /\ UNCHANGED <<open, hidden, current, spaces, tabMap, arranged>>

-----------------------------------------------------------------------------
(* Switching.                                                              *)

SwitchToSpace(k, s) ==
    /\ task[k] = Idle
    /\ s \in spaces
    /\ activeId' = s
    /\ SaveActive(k)
    /\ task' = [task EXCEPT ![k] = Waiting("query", NoTab, s)]
    /\ Begin(FALSE)
    /\ UNCHANGED <<browser, spaces, tabMap, created, arranged>>

\* Mutant: a tab of the space is among those to hide.
HideAssigned(k) ==
    LET s == task[k].space
        show == {t \in WindowTabs : tabMap[t] = s}
        hide == {t \in WindowTabs : tabMap[t] # NoSpace}
    IN  /\ \E first \in (IF show = {} THEN {NoTab} ELSE show) :
              Continue(k, "query", [pc |-> "apply", tab |-> first, space |-> s,
                                    show |-> show, hide |-> hide])
        /\ arranged' = front
        /\ UNCHANGED <<open, hidden, current, memory, store>>

\* The tabs of the current window are sorted; tab is the first of the space,
\* in an order the user may have chosen.
SortTabs(k) ==
    LET s == task[k].space
        show == {t \in WindowTabs : tabMap[t] = s}
        hide == {t \in WindowTabs : tabMap[t] \notin {s, NoSpace}}
    IN  /\ \E first \in (IF show = {} THEN {NoTab} ELSE show) :
              Continue(k, "query", [pc |-> "apply", tab |-> first, space |-> s,
                                    show |-> show, hide |-> hide])
        /\ arranged' = front
        /\ UNCHANGED <<open, hidden, current, memory, store>>

ApplyShow(k) ==
    \E t \in task[k].show :
        /\ Continue(k, "apply", [task[k] EXCEPT !.show = @ \ {t}])
        /\ TabsShow(t)
        /\ UNCHANGED <<open, current, memory, store, arranged>>

ApplyHide(k) ==
    /\ task[k].show = {}
    /\ \E t \in task[k].hide :
        /\ Continue(k, "apply", [task[k] EXCEPT !.hide = @ \ {t}])
        /\ TabsHide(t)
        /\ UNCHANGED <<open, current, memory, store, arranged>>

\* tabs.update with active: the browser shows the tab it activates.
Activate(t) ==
    /\ current' = [current EXCEPT ![WindowOf[t]] = t]
    /\ TabsShow(t)

\* Mutant: no look at whether there is a tab to activate.
ActivateAnyway(k) ==
    /\ task[k].show = {} /\ task[k].hide = {}
    /\ Continue(k, "apply", Idle)
    /\ current' = [current EXCEPT ![front] = task[k].tab]
    /\ TabsShow(task[k].tab)
    /\ UNCHANGED <<open, memory, store, arranged>>

ActivateFirst(k) ==
    /\ task[k].show = {} /\ task[k].hide = {}
    /\ Continue(k, "apply", Idle)
    /\ IF task[k].tab \in open THEN Activate(task[k].tab)
                              ELSE UNCHANGED <<current, hidden>>
    /\ UNCHANGED <<open, memory, store, arranged>>

-----------------------------------------------------------------------------
(* Assigning tabs.                                                         *)

SetTabSpace(t, s, by) ==
    /\ tabMap' = [tabMap EXCEPT ![t] = s]
    /\ SaveTabMap(by)

\* From the context menu, which looks the space up.
AssignTab(k, t, s) ==
    /\ task[k] = Idle
    /\ s \in spaces
    /\ SetTabSpace(t, s, k)
    /\ task' = [task EXCEPT ![k] = Waiting("assigned", t, s)]
    /\ Begin(FALSE)
    /\ UNCHANGED <<browser, spaces, activeId, created, arranged>>

\* From the sidebar, which may still show a space that is gone: the active
\* tab of the current window is queried, and the space is not looked up.
AssignCurrentTab(k, s) ==
    /\ task[k] = Idle
    /\ task' = [task EXCEPT ![k] = Waiting("pick", NoTab, s)]
    /\ Begin(s \notin spaces)
    /\ UNCHANGED <<browser, memory, store, created, arranged>>

AssignPicked(k) ==
    LET t == current[front]
    IN  /\ Continue(k, "pick", [task[k] EXCEPT !.pc = "assigned", !.tab = t])
        /\ SetTabSpace(t, task[k].space, k)
        /\ UNCHANGED <<open, hidden, current, spaces, activeId, arranged>>

\* The end of assignTab.
PlaceTab(k) ==
    /\ Continue(k, "assigned", Idle)
    /\ \/ activeId = NoSpace /\ UNCHANGED hidden
       \/ activeId \notin {NoSpace, task[k].space} /\ TabsHide(task[k].tab)
       \/ activeId # NoSpace /\ activeId = task[k].space /\ TabsShow(task[k].tab)
    /\ UNCHANGED <<open, current, memory, store, arranged>>

UnassignTab(k, t) ==
    /\ task[k] = Idle
    /\ SetTabSpace(t, NoSpace, k)
    /\ task' = [task EXCEPT ![k] = Waiting("released", t, NoSpace)]
    /\ Begin(FALSE)
    /\ UNCHANGED <<browser, spaces, activeId, created, arranged>>

ShowReleased(k) ==
    /\ Continue(k, "released", Idle)
    /\ IF activeId = NoSpace THEN UNCHANGED hidden ELSE TabsShow(task[k].tab)
    /\ UNCHANGED <<open, current, memory, store, arranged>>

-----------------------------------------------------------------------------
(* Tab events.  A window stays open: its last visible tab is not closed.   *)

\* onCreated, which assigns the tab to the active space if there is one.  The
\* tab may be the first of a new window, and becomes its active one or not.
OpenTab(k, t) ==
    LET w == WindowOf[t] IN
    /\ task[k] = Idle
    /\ t \notin used
    /\ open' = open \cup {t}
    /\ used' = used \cup {t}
    /\ \/ current[w] # NoTab /\ UNCHANGED current
       \/ current' = [current EXCEPT ![w] = t]
    /\ front' \in {front, w}
    /\ IF activeId \in spaces
       THEN /\ SetTabSpace(t, activeId, k)
            /\ task' = [task EXCEPT ![k] = Waiting("assigned", t, activeId)]
       ELSE UNCHANGED <<tabMap, store, task>>
    /\ Begin(FALSE)
    /\ UNCHANGED <<hidden, spaces, activeId, created, arranged>>

\* onRemoved.  It waits for nothing but its own save.
CloseTab(t) ==
    LET w == WindowOf[t]
        left == {u \in open \ ({t} \cup hidden) : WindowOf[u] = w}
    IN
    /\ left # {}
    /\ open' = open \ {t}
    /\ hidden' = hidden \ {t}
    /\ IF t = current[w] THEN \E u \in left : current' = [current EXCEPT ![w] = u]
                         ELSE UNCHANGED current
    /\ IF tabMap[t] # NoSpace THEN SetTabSpace(t, NoSpace, NoSlot)
                              ELSE UNCHANGED <<tabMap, store>>
    /\ UNCHANGED <<front, used, spaces, activeId, task, created, history, arranged>>

\* The user goes to another tab, which may be in another window.
SelectTab(t) ==
    /\ current' = [current EXCEPT ![WindowOf[t]] = t]
    /\ front' = WindowOf[t]
    /\ UNCHANGED <<open, hidden, used, memory, store, task, created, history, arranged>>

-----------------------------------------------------------------------------
Step(k) ==
    \/ Load(k) \/ LoadNothing(k) \/ LoadFails(k) \/ Seed(k) \/ Seeded(k)
    \/ ShowOrphans(k) \/ DropSpace(k) \/ ListTabs(k) \/ ShowNext(k) \/ ClearActive(k)
    \/ SortTabs(k) \/ ApplyShow(k) \/ ApplyHide(k) \/ ActivateFirst(k)
    \/ AssignPicked(k) \/ PlaceTab(k) \/ ShowReleased(k)

Handle(k) ==
    \/ ExitFilter(k)
    \/ \E s \in Space : DeleteSpace(k, s) \/ SwitchToSpace(k, s)
    \/ \E t \in open \ hidden, s \in Space : AssignTab(k, t, s)
    \/ \E s \in created : AssignCurrentTab(k, s)
    \/ \E t \in open : UnassignTab(k, t)
    \/ \E t \in Tab : OpenTab(k, t)

Next ==
    \/ WriteDone \/ WriteFails \/ Restart
    \/ CreateSpace
    \/ \E s \in Space : RenameSpace(s)
    \/ \E t \in open : CloseTab(t)
    \/ \E t \in open \ hidden : SelectTab(t)
    \/ \E k \in Slot : Step(k) \/ Handle(k)

Spec == Init /\ [][Next]_vars

-----------------------------------------------------------------------------
(* Properties.                                                             *)

Memory == [spaces |-> spaces, active |-> activeId, tabMap |-> tabMap]
Values == [spaces |-> SUBSET Space, active |-> Space \cup {NoSpace},
           tabMap |-> [Tab -> Space \cup {NoSpace}]]
State == [spaces : Values.spaces, active : Values.active, tabMap : Values.tabMap]

Key == {"spaces", "active", "tabMap"}
Write == UNION {[key : {key}, value : Values[key], by : Slot \cup {NoSlot}] :
                    key \in Key}

\* Every variable has its type; tabs.hide never leaves the active tab hidden.
TypeOK ==
    /\ open \subseteq used /\ used \subseteq Tab
    /\ hidden \subseteq open \ Active
    /\ current \in [Window -> open \cup {NoTab}]
    /\ \A w \in Window : current[w] = NoTab \/ WindowOf[current[w]] = w
    /\ front \in Window /\ current[front] \in open
    /\ Memory \in State
    /\ stored \in State
    /\ reading \in State
    /\ pending \in Seq(Write)
    /\ task \in [Slot -> Task]
    /\ created \subseteq Space
    /\ handlers \in 0..MaxHandlers /\ restarts \in 0..MaxRestarts
    /\ failures \in 0..MaxFailures
    /\ race \in {"none", "running", "loading"}
    /\ lost \subseteq Key
    /\ arranged \in Window \cup {NoWindow}

\* However the handlers interleave, the store comes to hold what the script
\* does: the last write of a key that is on its way is what the memory holds,
\* and with none on its way the store holds it, unless that write failed.
StorageFollowsMemory ==
    ~Loading /\ race # "loading" =>
        \A key \in Key :
            LET writes == {i \in DOMAIN pending : pending[i].key = key}
            IN  /\ \A i \in writes : (\A j \in writes : j <= i) =>
                       pending[i].value = Memory[key]
                /\ writes = {} => key \in lost \/ stored[key] = Memory[key]

Serial == race = "none" /\ failures = 0

\* Handlers that run one at a time, and whose writes do not fail, leave no
\* reference to a space that is gone in the store, not even halfway: a restart
\* at any await, in the middle of deleteSpace too, finds the active space and
\* every tab's space.
StoredReferencesResolve ==
    Serial =>
        /\ stored.active \in stored.spaces \cup {NoSpace}
        /\ \A t \in Tab : stored.tabMap[t] \in stored.spaces \cup {NoSpace}

\* Such handlers leave the tabs of the active space visible in the window that
\* was sorted last (in another window a tab stays as an earlier switch left it).
ActiveSpaceIsVisible ==
    Serial /\ Quiet /\ activeId # NoSpace =>
        \A t \in hidden : tabMap[t] = activeId => WindowOf[t] # arranged

\* Such handlers hide nothing, once no space is active, in the window whose
\* tabs were shown last.
NoSpaceShowsWindow ==
    Serial /\ Quiet /\ activeId = NoSpace =>
        \A t \in hidden : WindowOf[t] # arranged

\* "null = all tabs / no filter": with no active space no tab is hidden.
AllTabsShowsAll ==
    Serial /\ Quiet /\ activeId = NoSpace => hidden = {}

\* "Unassigned tabs stay visible (they float in no space)": the comment of
\* switchToSpace, of handlers that run one at a time.
UnassignedTabsStayVisible ==
    Serial /\ Quiet => \A t \in hidden : tabMap[t] # NoSpace

=============================================================================
