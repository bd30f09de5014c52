-------------------------- MODULE MemoryMeshProofs --------------------------
(***************************************************************************)
(* What the programs that share candidates.jsonl, events.jsonl and the     *)
(* mesh keep, for any tools, bridges and syncers, any deployment of them,  *)
(* any bounds and any number of kills: candidates are decided from a view  *)
(* and their events tell them, a bridge passes over nothing, and so does a *)
(* syncer.                                                                 *)
(***************************************************************************)
EXTENDS MemoryMesh, TLAPS, FiniteSetTheorems

-----------------------------------------------------------------------------
(* The inductive invariant, a part for each of the programs.               *)

\* A sequence, of anything.
IsSeq(s) == s \in Seq({s[i] : i \in DOMAIN s})

(* The memory tool and the sidecar's page.                                 *)

ChoiceType == [of : Nat, state : {"none", "committed", "rejected"},
               via : {"none", "latest", "id", "page"}, seen : Nat]

CandidatesTyped ==
    /\ IsSeq(memory)
    /\ IsSeq(events)
    /\ Len(events) <= MaxEvents
    /\ tpc \in [Tool -> {"idle", "chosen", "logged"}]
    /\ choice \in [Tool -> ChoiceType]
    /\ kills \in Nat

\* A decision names an earlier record, and what the tool writes is sound.
RecordsAreSound ==
    \A i \in DOMAIN memory :
        /\ memory[i].of \in 0 .. i - 1
        /\ memory[i].seen \in 0 .. i - 1
        /\ Consistent(memory[i]) \/ memory[i].state = "proposed"
        /\ memory[i].via \in {"latest", "page"} => memory[i].of # 0

\* The candidate c was pending when the log had seen records.
PendingAt(c, seen) ==
    /\ memory[c].state = "candidate"
    /\ \A i \in DOMAIN memory : memory[i].of = c => seen < i

\* A tool under way has chosen, or written, a record of the tool; what it has
\* chosen from a view was pending in it.
ChoiceIsSound(t) ==
    /\ tpc[t] # "idle" =>
          /\ choice[t].of \in DOMAIN memory
          /\ memory[choice[t].of].state # "proposed"
    /\ tpc[t] = "chosen" =>
          /\ choice[t].state \in {"committed", "rejected"}
          /\ choice[t].seen <= Len(memory)
          /\ choice[t].via \in {"latest", "page"} => PendingAt(choice[t].of, choice[t].seen)

ChoicesAreSound == \A t \in Tool : ChoiceIsSound(t)

\* So was what the page shows.
PageIsSound ==
    /\ page.at \in 0 .. Len(memory)
    /\ page.shown \subseteq 1 .. page.at
    /\ \A i \in page.shown : PendingAt(i, page.at)

\* The events of the tool, the tools between their two appends, and the
\* records that have no event.
Told == {e \in DOMAIN events : events[e].type \in MemoryEvents}
UnderWay == {t \in Tool : tpc[t] = "logged"}
Untold == WithMemoryId(memory) \ {events[e].of : e \in Told}

\* An event tells a record that no tool is still going to tell.
ToldOnce ==
    /\ \A e \in Told :
          /\ events[e].of \in DOMAIN memory
          /\ events[e] = EventFor(events[e].of)
          /\ \A f \in Told : events[f].of = events[e].of => f = e
    /\ \A t \in UnderWay :
          /\ \A e \in Told : events[e].of # choice[t].of
          /\ \A u \in UnderWay : choice[u].of = choice[t].of => u = t

UntoldAreCounted ==
    /\ IsFiniteSet(UnderWay)
    /\ Cardinality(Untold) <= Cardinality(UnderWay) + kills

CandidatesInv ==
    /\ CandidatesTyped
    /\ RecordsAreSound
    /\ ChoicesAreSound
    /\ PageIsSound
    /\ SecondDecisionNeedsAStaleView
    /\ ToldOnce
    /\ UntoldAreCounted

(* The mesh bridge.                                                        *)

MeshLine == [source : {"bearbrowser"}, kind : {"browse", "browse-summary"}, of : Source]
                \cup [source : {"terminal"}, kind : Kinds, of : Notes]
Db == [pushed : SUBSET Source, pulled : SUBSET Notes]

BridgesTyped ==
    /\ deployed \in Deployments
    /\ summaries \in 0 .. MaxSummaries
    /\ mesh \in Seq(MeshLine)
    /\ syncDb \in Db
    /\ DOMAIN bpc = Bridge
    /\ local \in [Bridge -> Db]
    /\ todo \in [Bridge -> Seq(MeshLine)]
    /\ snapshot \in [Bridge -> Seq(MeshLine)]
    /\ \A b \in Bridge : Len(snapshot[b]) \in {0, MeshLimit}
    /\ pushes \in [Source -> 0 .. 2]
    /\ pulls \in [Notes -> 0 .. 2]

\* What a bridge holds for synced was passed on as well.
HeldWasPassedOn ==
    \A b \in Bridge :
        /\ \A x \in local[b].pushed : pushes[x] > 0
        /\ \A k \in local[b].pulled : pulls[k] > 0

PassedOn == [pushed |-> {x \in Source : pushes[x] = 1}, pulled |-> {k \in Notes : pulls[k] = 1}]

\* Undisturbed, one bridge at a time holds all that was passed on, and leaves
\* it in the database.
OneBridgeHolds ==
    ~disturbed =>
        /\ \A x \in Source : pushes[x] <= 1
        /\ \A k \in Notes : pulls[k] <= 1
        /\ \A b, c \in Bridge : bpc[b] # "idle" /\ bpc[c] # "idle" => b = c
        /\ \A b \in Bridge : bpc[b] # "idle" => local[b] = PassedOn
        /\ (\A b \in Bridge : bpc[b] = "idle") => syncDb = PassedOn

BridgesInv ==
    /\ BridgesTyped
    /\ SyncedWasPassedOn
    /\ HeldWasPassedOn
    /\ OneBridgeHolds

(* The BearBlocker syncer.                                                 *)

SyncersTyped ==
    /\ halves \in Nat
    /\ cursor \in 0 .. halves
    /\ spc \in [Syncer -> {"idle", "read", "emit", "write"}]
    /\ start \in [Syncer -> 0 .. halves]
    /\ end \in [Syncer -> 0 .. halves]
    /\ batch \in [Syncer -> SUBSET Lines]
    /\ forwarded \in [Syncer -> Nat]
    /\ \A s \in Syncer : spc[s] \in {"idle", "read"} => forwarded[s] = 0
    /\ overlapped \in BOOLEAN

\* Each line up to a position was emitted, or its emit has failed, or it was
\* read in part.
Handled(n) == ForwardsOf(n) # {} \/ n \in failed \cup torn

\* A syncer begins where everything is handled, and what it has read is
\* handled but for its batch.
SyncerHandles(s) ==
    /\ spc[s] # "idle" => \A n \in Lines : 2 * n <= start[s] => Handled(n)
    /\ spc[s] \in {"emit", "write"} =>
          \A n \in Lines : 2 * n <= end[s] => Handled(n) \/ n \in batch[s]
    /\ spc[s] = "write" => batch[s] = {}

SyncersHandle == \A s \in Syncer : SyncerHandles(s)

\* A syncer that is alone forwards what the cursor has not passed.  Of a line
\* whose emit has failed there may be an event all the same.
SyncerForwards(s) ==
    /\ spc[s] \in {"read", "emit"} => cursor = start[s]
    /\ spc[s] = "emit" =>
          /\ start[s] <= end[s]
          /\ batch[s] \subseteq WholeLines(start[s], end[s])
          /\ \A n \in batch[s] \ failed : ForwardsOf(n) = {}
    /\ spc[s] = "write" => \A n \in Lines \ failed : ForwardsOf(n) # {} => 2 * n <= end[s]

\* The line is behind the cursor, or about to be.
Passed(n) ==
    \/ 2 * n <= cursor
    \/ \E s \in Syncer : /\ spc[s] = "emit" /\ forwarded[s] > 0
                         /\ n \in WholeLines(start[s], end[s])

OneSyncerForwards ==
    ~overlapped =>
        /\ \A n \in Lines \ failed : \A e, f \in ForwardsOf(n) : e = f
        /\ \A s, r \in Syncer : spc[s] # "idle" /\ spc[r] # "idle" => s = r
        /\ (\A s \in Syncer : spc[s] # "write") =>
              \A n \in Lines \ failed : ForwardsOf(n) # {} => Passed(n)
        /\ \A s \in Syncer : SyncerForwards(s)

SyncersInv ==
    /\ SyncersTyped
    /\ CursorPassesOnlyHandled
    /\ SyncersHandle
    /\ OneSyncerForwards

IInv == CandidatesInv /\ BridgesInv /\ SyncersInv

-----------------------------------------------------------------------------
(* Sequences.                                                              *)

LEMMA AppendedToSeq ==
    ASSUME NEW s, IsSeq(s), NEW e
    PROVE  /\ IsSeq(Append(s, e))
           /\ Len(s) \in Nat /\ DOMAIN s = 1 .. Len(s)
           /\ Len(Append(s, e)) = Len(s) + 1
           /\ DOMAIN Append(s, e) = 1 .. Len(s) + 1
           /\ \A i \in DOMAIN s : Append(s, e)[i] = s[i]
           /\ Append(s, e)[Len(s) + 1] = e
<1> DEFINE S == {s[i] : i \in DOMAIN s} \cup {e}
           a == Append(s, e)
           A == {a[i] : i \in DOMAIN a}
<1>1. s \in Seq(S) /\ e \in S
  BY DEF IsSeq
<1>2. /\ a \in Seq(S)
      /\ Len(s) \in Nat /\ DOMAIN s = 1 .. Len(s)
      /\ Len(a) = Len(s) + 1 /\ DOMAIN a = 1 .. Len(s) + 1
      /\ a[Len(s) + 1] = e
      /\ \A i \in DOMAIN s : a[i] = s[i]
  <2> HIDE DEF S
  <2> QED  BY <1>1
<1>3. ASSUME NEW q \in Seq(S)
      PROVE  q = [i \in 1 .. Len(q) |-> q[i]]
  <2> HIDE DEF S
  <2> QED  OBVIOUS
<1>4. Len(a) \in Nat /\ a = [i \in 1 .. Len(a) |-> a[i]] /\ \A i \in 1 .. Len(a) : a[i] \in A
  <2>1. a = [i \in 1 .. Len(a) |-> a[i]]
    <3> HIDE DEF a, S
    <3> QED  BY <1>2, <1>3
  <2> QED  BY <1>2, <2>1
<1>5. a \in Seq(A)
  <2> HIDE DEF a, A
  <2>1. a \in [1 .. Len(a) -> A]
    BY <1>4
  <2> QED  BY <1>4, <2>1
<1> QED  BY <1>2, <1>5 DEF IsSeq

-----------------------------------------------------------------------------
(* The candidates.                                                         *)

LEMMA MemoryIsSeq ==
    ASSUME CandidatesTyped
    PROVE  /\ Len(memory) \in Nat /\ DOMAIN memory = 1 .. Len(memory)
           /\ Len(events) \in Nat /\ DOMAIN events = 1 .. Len(events)
BY DEF CandidatesTyped, IsSeq

\* A record that is appended leaves what was pending in a view pending in it.
LEMMA MemoryGrows ==
    ASSUME CandidatesTyped, NEW r, memory' = Append(memory, r)
    PROVE  /\ IsSeq(memory')
           /\ Len(memory') = Len(memory) + 1
           /\ DOMAIN memory' = 1 .. Len(memory) + 1
           /\ memory'[Len(memory) + 1] = r
           /\ \A i \in DOMAIN memory : i \in DOMAIN memory' /\ memory'[i] = memory[i]
           /\ \A c \in DOMAIN memory : \A seen \in 0 .. Len(memory) :
                  PendingAt(c, seen) => PendingAt(c, seen)'
<1>1. /\ IsSeq(memory')
      /\ Len(memory) \in Nat /\ DOMAIN memory = 1 .. Len(memory)
      /\ Len(memory') = Len(memory) + 1
      /\ DOMAIN memory' = 1 .. Len(memory) + 1
      /\ memory'[Len(memory) + 1] = r
      /\ \A i \in DOMAIN memory : memory'[i] = memory[i]
  BY AppendedToSeq DEF CandidatesTyped
<1>2. \A i \in DOMAIN memory : i \in DOMAIN memory'
  BY <1>1
<1>3. ASSUME NEW c \in DOMAIN memory, NEW seen \in 0 .. Len(memory), PendingAt(c, seen)
      PROVE  PendingAt(c, seen)'
  <2>1. memory'[c].state = "candidate"
    BY <1>1, <1>3 DEF PendingAt
  <2>2. ASSUME NEW i \in DOMAIN memory', memory'[i].of = c
        PROVE  seen < i
    <3>1. CASE i \in DOMAIN memory
      BY <1>1, <1>3, <2>2, <3>1 DEF PendingAt
    <3>2. CASE i = Len(memory) + 1
      BY <1>1, <3>2
    <3> QED  BY <1>1, <3>1, <3>2
  <2> QED  BY <2>1, <2>2 DEF PendingAt
<1> QED  BY <1>1, <1>2, <1>3

\* A sound record keeps the log sound.
LEMMA RecordsStaySound ==
    ASSUME CandidatesInv, NEW r, memory' = Append(memory, r), page' = page,
           r.of \in 0 .. Len(memory), r.seen \in 0 .. Len(memory),
           Consistent(r) \/ r.state = "proposed",
           r.via \in {"latest", "page"} => r.of \in DOMAIN memory /\ PendingAt(r.of, r.seen)
    PROVE  RecordsAreSound' /\ PageIsSound' /\ SecondDecisionNeedsAStaleView'
<1>1. CandidatesTyped /\ RecordsAreSound /\ PageIsSound /\ SecondDecisionNeedsAStaleView
  BY DEF CandidatesInv
<1>2. /\ DOMAIN memory' = 1 .. Len(memory) + 1
      /\ Len(memory') = Len(memory) + 1
      /\ memory'[Len(memory) + 1] = r
      /\ \A i \in DOMAIN memory : i \in DOMAIN memory' /\ memory'[i] = memory[i]
      /\ \A c \in DOMAIN memory : \A seen \in 0 .. Len(memory) :
             PendingAt(c, seen) => PendingAt(c, seen)'
  BY <1>1, MemoryGrows
<1>3. Len(memory) \in Nat /\ DOMAIN memory = 1 .. Len(memory)
  BY <1>1, MemoryIsSeq
<1>4. RecordsAreSound'
  <2> SUFFICES ASSUME NEW i \in DOMAIN memory'
               PROVE  /\ memory'[i].of \in 0 .. i - 1
                      /\ memory'[i].seen \in 0 .. i - 1
                      /\ Consistent(memory'[i]) \/ memory'[i].state = "proposed"
                      /\ memory'[i].via \in {"latest", "page"} => memory'[i].of # 0
    BY DEF RecordsAreSound, Consistent
  <2>1. CASE i \in DOMAIN memory
    BY <1>1, <1>2, <2>1 DEF RecordsAreSound
  <2>2. CASE i = Len(memory) + 1
    BY <1>2, <1>3, <2>2
  <2> QED  BY <1>2, <1>3, <2>1, <2>2
<1>5. PageIsSound'
  BY <1>1, <1>2, <1>3 DEF PageIsSound
<1>6. SecondDecisionNeedsAStaleView'
  <2> SUFFICES ASSUME NEW j \in DOMAIN memory', memory'[j].via \in {"latest", "page"}
               PROVE  /\ memory'[memory'[j].of].state = "candidate"
                      /\ \A i \in 1 .. j - 1 :
                             memory'[i].of = memory'[j].of => memory'[j].seen < i
    BY DEF SecondDecisionNeedsAStaleView
  <2>1. CASE j \in DOMAIN memory
    <3>1. /\ memory[memory[j].of].state = "candidate"
          /\ \A i \in 1 .. j - 1 : memory[i].of = memory[j].of => memory[j].seen < i
      BY <1>1, <1>2, <2>1 DEF SecondDecisionNeedsAStaleView
    <3>2. memory[j].of \in 1 .. j - 1
      BY <1>1, <1>2, <1>3, <2>1 DEF RecordsAreSound
    <3> QED  BY <1>2, <1>3, <2>1, <3>1, <3>2
  <2>2. CASE j = Len(memory) + 1
    <3>1. r.of \in DOMAIN memory /\ PendingAt(r.of, r.seen) /\ r = memory'[j]
      BY <1>2, <2>2
    <3>2. PendingAt(r.of, r.seen)' /\ 1 .. j - 1 \subseteq DOMAIN memory'
      BY <1>2, <1>3, <2>2, <3>1
    <3>3. /\ memory'[r.of].state = "candidate"
          /\ \A i \in DOMAIN memory' : memory'[i].of = r.of => r.seen < i
      BY <3>2 DEF PendingAt
    <3> QED  BY <3>1, <3>2, <3>3
  <2>3. j \in DOMAIN memory \/ j = Len(memory) + 1
    BY <1>2, <1>3
  <2> QED  BY <2>1, <2>2, <2>3
<1> QED  BY <1>4, <1>5, <1>6

\* A tool that does not move keeps its choice, whatever is appended.
LEMMA ChoicesStay ==
    ASSUME CandidatesInv, NEW u \in Tool, tpc'[u] = tpc[u], choice'[u] = choice[u],
           memory' = memory \/ \E r : memory' = Append(memory, r)
    PROVE  ChoiceIsSound(u)'
<1>1. CandidatesTyped /\ ChoiceIsSound(u)
  BY DEF CandidatesInv, ChoicesAreSound
<1>2. CASE memory' = memory
  BY <1>1, <1>2 DEF ChoiceIsSound, PendingAt
<1>3. ASSUME NEW r, memory' = Append(memory, r)
      PROVE  ChoiceIsSound(u)'
  <2> DEFINE c == choice[u].of
             seen == choice[u].seen
  <2>1. /\ Len(memory) \in Nat /\ Len(memory') = Len(memory) + 1
        /\ \A i \in DOMAIN memory : i \in DOMAIN memory' /\ memory'[i] = memory[i]
        /\ \A d \in DOMAIN memory : \A n \in 0 .. Len(memory) : PendingAt(d, n) => PendingAt(d, n)'
    BY <1>1, <1>3, MemoryGrows, MemoryIsSeq
  <2>2. choice[u] \in ChoiceType
    BY <1>1 DEF CandidatesTyped
  <2>3. ASSUME tpc'[u] # "idle"
        PROVE  /\ choice'[u].of \in DOMAIN memory'
               /\ memory'[choice'[u].of].state # "proposed"
    BY <1>1, <2>1, <2>3 DEF ChoiceIsSound
  <2>4. ASSUME tpc'[u] = "chosen"
        PROVE  /\ choice'[u].state \in {"committed", "rejected"}
               /\ choice'[u].seen <= Len(memory')
    BY <1>1, <2>1, <2>2, <2>4 DEF ChoiceIsSound, ChoiceType
  <2>5. ASSUME tpc'[u] = "chosen", choice'[u].via \in {"latest", "page"}
        PROVE  PendingAt(choice[u].of, choice[u].seen)'
    <3>1. PendingAt(c, seen) /\ c \in DOMAIN memory /\ seen \in 0 .. Len(memory)
      BY <1>1, <2>2, <2>5 DEF ChoiceIsSound, ChoiceType
    <3>2. /\ memory'[c].state = "candidate"
          /\ \A i \in DOMAIN memory' : memory'[i].of = c => seen < i
      <4> HIDE DEF c, seen
      <4>1. PICK d \in DOMAIN memory : d = c
        BY <3>1
      <4>2. PICK n \in 0 .. Len(memory) : n = seen
        BY <3>1
      <4>3. PendingAt(d, n)'
        BY <2>1, <3>1, <4>1, <4>2
      <4>4. /\ memory'[d].state = "candidate"
            /\ \A i \in DOMAIN memory' : memory'[i].of = d => n < i
        BY <4>3 DEF PendingAt
      <4> QED  BY <4>1, <4>2, <4>4
    <3> QED  BY <3>2 DEF PendingAt
  <2> QED  BY <2>3, <2>4, <2>5 DEF ChoiceIsSound
<1> QED  BY <1>2, <1>3

LEMMA UntoldIsFinite ==
    ASSUME CandidatesTyped
    PROVE  IsFiniteSet(Untold)
<1>1. Untold \subseteq 1 .. Len(memory) /\ Len(memory) \in Nat
  BY MemoryIsSeq DEF Untold, WithMemoryId
<1>2. IsFiniteSet(1 .. Len(memory))
  BY <1>1, FS_Interval
<1> QED  BY <1>1, <1>2, FS_Subset

\* A record of the tool has no event yet, and its tool is under way.
LEMMA WrittenIsCounted ==
    ASSUME CandidatesInv, NEW t \in Tool, tpc[t] # "logged",
           tpc' = [tpc EXCEPT ![t] = "logged"],
           choice'[t].of = Len(memory) + 1,
           \A u \in Tool \ {t} : choice'[u] = choice[u],
           NEW r, r.state # "proposed", memory' = Append(memory, r),
           UNCHANGED <<events, kills>>
    PROVE  ToldOnce' /\ UntoldAreCounted'
<1> DEFINE n == Len(memory) + 1
<1>1. /\ CandidatesTyped /\ ToldOnce /\ UntoldAreCounted
      /\ \A u \in Tool : ChoiceIsSound(u)
  BY DEF CandidatesInv, ChoicesAreSound
<1>2. /\ DOMAIN memory' = 1 .. n
      /\ memory'[n] = r
      /\ \A i \in DOMAIN memory : i \in DOMAIN memory' /\ memory'[i] = memory[i]
      /\ Len(memory) \in Nat /\ DOMAIN memory = 1 .. Len(memory)
  BY <1>1, MemoryGrows, MemoryIsSeq
<1>3. UnderWay' = UnderWay \cup {t} /\ t \notin UnderWay
  BY <1>1 DEF UnderWay, CandidatesTyped
<1>4. Told' = Told
  BY DEF Told
<1>5. Untold' = Untold \cup {n} /\ n \notin Untold
  <2>1. WithMemoryId(memory') = WithMemoryId(memory) \cup {n} /\ n \notin DOMAIN memory
    BY <1>2 DEF WithMemoryId
  <2>2. \A e \in Told : events[e].of # n
    BY <1>1, <1>2 DEF ToldOnce
  <2> DEFINE T == {events[e].of : e \in Told}
  <2>3. {events'[e].of : e \in Told'} = T
    BY <1>4
  <2>4. n \notin T /\ n \notin WithMemoryId(memory)
    BY <2>1, <2>2 DEF WithMemoryId
  <2>5. Untold' = WithMemoryId(memory') \ T /\ Untold = WithMemoryId(memory) \ T
    BY <2>3 DEF Untold
  <2> HIDE DEF T, n
  <2> QED  BY <2>1, <2>4, <2>5
<1>6. UntoldAreCounted'
  <2>1. IsFiniteSet(UnderWay) /\ IsFiniteSet(Untold)
    BY <1>1, UntoldIsFinite DEF UntoldAreCounted
  <2>2. /\ IsFiniteSet(UnderWay') /\ Cardinality(UnderWay') = Cardinality(UnderWay) + 1
        /\ Cardinality(UnderWay) \in Nat
    BY <1>3, <2>1, FS_AddElement, FS_CardinalityType
  <2>3. Cardinality(Untold') = Cardinality(Untold) + 1 /\ Cardinality(Untold) \in Nat
    BY <1>5, <2>1, FS_AddElement, FS_CardinalityType
  <2> QED  BY <1>1, <2>2, <2>3 DEF UntoldAreCounted, CandidatesTyped
<1>7. ASSUME NEW e \in Told
      PROVE  /\ events[e].of \in DOMAIN memory'
             /\ events[e] = EventFor(events[e].of)'
             /\ \A f \in Told : events[f].of = events[e].of => f = e
  BY <1>1, <1>2 DEF ToldOnce, EventFor
<1>8. ASSUME NEW u \in UnderWay \cup {t}
      PROVE  /\ \A e \in Told : events[e].of # choice'[u].of
             /\ \A v \in UnderWay \cup {t} : choice'[v].of = choice'[u].of => v = u
  <2>1. \A v \in UnderWay : v \in Tool \ {t} /\ choice'[v] = choice[v] /\ choice[v].of \in DOMAIN memory
    BY <1>1, <1>3 DEF UnderWay, ChoiceIsSound
  <2>2. n \notin DOMAIN memory /\ choice'[t].of = n
    BY <1>2
  <2>3. \A e \in Told : events[e].of \in DOMAIN memory
    BY <1>1 DEF ToldOnce
  <2> HIDE DEF n
  <2>4. CASE u = t
    BY <2>1, <2>2, <2>3, <2>4
  <2>5. CASE u \in UnderWay
    BY <1>1, <2>1, <2>2, <2>5 DEF ToldOnce
  <2> QED  BY <2>4, <2>5
<1>9. ToldOnce'
  BY <1>3, <1>4, <1>7, <1>8 DEF ToldOnce
<1> QED  BY <1>6, <1>9

\* An event that tells no record leaves the count as it is.
LEMMA OthersAreNotCounted ==
    ASSUME CandidatesInv, UNCHANGED <<tpc, choice>>,
           kills' = kills \/ kills' = kills + 1,
           \/ events' = events
           \/ \E e : events' = Append(events, e) /\ e.type \notin MemoryEvents,
           \/ memory' = memory
           \/ \E r : memory' = Append(memory, r) /\ r.state = "proposed"
    PROVE  ToldOnce' /\ UntoldAreCounted'
<1>1. CandidatesTyped /\ ToldOnce /\ UntoldAreCounted
  BY DEF CandidatesInv
<1>2. /\ \A i \in DOMAIN memory : i \in DOMAIN memory' /\ memory'[i] = memory[i]
      /\ WithMemoryId(memory') = WithMemoryId(memory)
  <2>1. CASE memory' = memory
    BY <2>1
  <2>2. ASSUME NEW r, memory' = Append(memory, r), r.state = "proposed"
        PROVE  /\ \A i \in DOMAIN memory : i \in DOMAIN memory' /\ memory'[i] = memory[i]
               /\ WithMemoryId(memory') = WithMemoryId(memory)
    <3>1. /\ \A i \in DOMAIN memory : i \in DOMAIN memory' /\ memory'[i] = memory[i]
          /\ DOMAIN memory' = 1 .. Len(memory) + 1 /\ memory'[Len(memory) + 1] = r
          /\ Len(memory) \in Nat /\ DOMAIN memory = 1 .. Len(memory)
      BY <1>1, <2>2, MemoryGrows, MemoryIsSeq
    <3>2. \A i \in DOMAIN memory' : i \in DOMAIN memory \/ i = Len(memory) + 1
      BY <3>1
    <3>3. \A i \in DOMAIN memory' :
              memory'[i].state # "proposed" <=> i \in DOMAIN memory /\ memory[i].state # "proposed"
      BY <2>2, <3>1, <3>2
    <3> QED  BY <3>1, <3>3 DEF WithMemoryId
  <2> QED  BY <2>1, <2>2
<1>3. /\ \A e \in DOMAIN events : e \in DOMAIN events' /\ events'[e] = events[e]
      /\ Told' = Told
  <2>1. CASE events' = events
    BY <2>1 DEF Told
  <2>2. ASSUME NEW e, events' = Append(events, e), e.type \notin MemoryEvents
        PROVE  /\ \A i \in DOMAIN events : i \in DOMAIN events' /\ events'[i] = events[i]
               /\ Told' = Told
    <3>1. /\ Len(events) \in Nat /\ DOMAIN events = 1 .. Len(events)
          /\ DOMAIN events' = 1 .. Len(events) + 1
          /\ \A i \in DOMAIN events : events'[i] = events[i]
          /\ events'[Len(events) + 1] = e
      BY <1>1, <2>2, AppendedToSeq DEF CandidatesTyped
    <3>2. \A i \in DOMAIN events' : i \in DOMAIN events \/ i = Len(events) + 1
      BY <3>1
    <3>3. \A i \in DOMAIN events' :
              events'[i].type \in MemoryEvents
                  <=> i \in DOMAIN events /\ events[i].type \in MemoryEvents
      BY <2>2, <3>1, <3>2
    <3>4. \A i \in DOMAIN events : i \in DOMAIN events' /\ events'[i] = events[i]
      BY <3>1
    <3>5. Told' = Told
      BY <3>3, <3>4 DEF Told
    <3> QED  BY <3>4, <3>5
  <2> QED  BY <2>1, <2>2
<1>4. UnderWay' = UnderWay
  BY DEF UnderWay
<1>5. Untold' = Untold
  <2>1. \A e \in Told : events'[e].of = events[e].of
    BY <1>3 DEF Told
  <2>2. {events'[e].of : e \in Told'} = {events[e].of : e \in Told}
    BY <1>3, <2>1
  <2> QED  BY <1>2, <2>2 DEF Untold
<1>6. UntoldAreCounted'
  <2>1. Cardinality(UnderWay) \in Nat /\ Cardinality(Untold) \in Nat
    BY <1>1, UntoldIsFinite, FS_CardinalityType DEF UntoldAreCounted
  <2> QED  BY <1>1, <1>4, <1>5, <2>1 DEF UntoldAreCounted, CandidatesTyped
<1>7. ToldOnce'
  BY <1>1, <1>2, <1>3, <1>4 DEF ToldOnce, EventFor, Told
<1> QED  BY <1>6, <1>7

\* A tool that leaves memory and events alone, as it chooses or is killed.
LEMMA ToolMoves ==
    ASSUME CandidatesInv, NEW t \in Tool, NEW at \in {"idle", "chosen"}, NEW ch \in ChoiceType,
           tpc[t] # at, at = "chosen" => tpc[t] = "idle",
           tpc' = [tpc EXCEPT ![t] = at], choice' = [choice EXCEPT ![t] = ch],
           UNCHANGED <<memory, events, page>>,
           kills' = IF at = "idle" THEN kills + 1 ELSE kills,
           at = "chosen" =>
              /\ ch.of \in DOMAIN memory /\ memory[ch.of].state # "proposed"
              /\ ch.state \in {"committed", "rejected"}
              /\ ch.seen <= Len(memory)
              /\ ch.via \in {"latest", "page"} => PendingAt(ch.of, ch.seen)
    PROVE  CandidatesInv'
<1>1. /\ CandidatesTyped /\ RecordsAreSound /\ ChoicesAreSound /\ PageIsSound
      /\ SecondDecisionNeedsAStaleView /\ ToldOnce /\ UntoldAreCounted
  BY DEF CandidatesInv
<1>2. /\ tpc'[t] = at /\ choice'[t] = ch
      /\ \A u \in Tool \ {t} : tpc'[u] = tpc[u] /\ choice'[u] = choice[u]
  BY <1>1 DEF CandidatesTyped
<1>3. CandidatesTyped'
  BY <1>1 DEF CandidatesTyped
<1>4. RecordsAreSound' /\ PageIsSound' /\ SecondDecisionNeedsAStaleView'
  BY <1>1 DEF RecordsAreSound, PageIsSound, SecondDecisionNeedsAStaleView, PendingAt
<1>5. ChoicesAreSound'
  <2>1. ChoiceIsSound(t)'
    BY <1>2 DEF ChoiceIsSound, PendingAt
  <2>2. \A u \in Tool \ {t} : ChoiceIsSound(u)'
    BY <1>2, ChoicesStay
  <2> QED  BY <2>1, <2>2 DEF ChoicesAreSound
<1>6. UnderWay' = UnderWay \ {t} /\ Told' = Told /\ Untold' = Untold
  <2>1. UnderWay' = UnderWay \ {t}
    BY <1>2 DEF UnderWay
  <2>2. Told' = Told
    BY DEF Told
  <2> QED  BY <2>1, <2>2 DEF Untold
<1>7. ToldOnce'
  BY <1>1, <1>2, <1>6 DEF ToldOnce, EventFor, UnderWay
<1>8. UntoldAreCounted'
  <2>1. IsFiniteSet(UnderWay) /\ Cardinality(UnderWay) \in Nat /\ Cardinality(Untold) \in Nat
    BY <1>1, UntoldIsFinite, FS_CardinalityType DEF UntoldAreCounted
  <2>2. /\ IsFiniteSet(UnderWay \ {t})
        /\ Cardinality(UnderWay \ {t}) =
              IF t \in UnderWay THEN Cardinality(UnderWay) - 1 ELSE Cardinality(UnderWay)
    BY <2>1, FS_RemoveElement
  <2>3. at = "chosen" => t \notin UnderWay
    BY DEF UnderWay
  <2> QED  BY <1>1, <1>6, <2>1, <2>2, <2>3 DEF UntoldAreCounted, CandidatesTyped
<1> QED  BY <1>3, <1>4, <1>5, <1>7, <1>8 DEF CandidatesInv

LEMMA ChoosePreserves ==
    ASSUME CandidatesInv, NEW t \in Tool, NEW state \in {"committed", "rejected"},
           ChooseLatest(t, state) \/ ChooseById(t, state) \/ ChooseOnPage(t, state)
    PROVE  CandidatesInv'
<1>1. /\ CandidatesTyped /\ RecordsAreSound /\ PageIsSound
      /\ Len(memory) \in Nat /\ DOMAIN memory = 1 .. Len(memory)
  BY MemoryIsSeq DEF CandidatesInv
<1>2. \E i \in DOMAIN memory, via \in {"latest", "id", "page"}, seen \in 0 .. Len(memory) :
          /\ Choose(t, state, via, i, seen)
          /\ memory[i].state # "proposed"
          /\ via # "id" => PendingAt(i, seen)
  <2>1. CASE ChooseLatest(t, state)
    <3>1. PICK i \in LatestCandidate(memory) : Choose(t, state, "latest", i, Len(memory))
      BY <2>1 DEF ChooseLatest
    <3>2. i \in PendingMemory(memory)
      BY DEF LatestCandidate
    <3>3. i \in DOMAIN memory /\ PendingAt(i, Len(memory)) /\ memory[i].state # "proposed"
      BY <3>2 DEF PendingMemory, Resolved, PendingAt
    <3> QED  BY <1>1, <3>1, <3>3
  <2>2. CASE ChooseById(t, state)
    <3>1. PICK i \in WithMemoryId(memory) : Choose(t, state, "id", i, Len(memory))
      BY <2>2 DEF ChooseById
    <3> QED  BY <1>1, <3>1 DEF WithMemoryId
  <2>3. CASE ChooseOnPage(t, state)
    <3>1. PICK i \in page.shown : Choose(t, state, "page", i, page.at)
      BY <2>3 DEF ChooseOnPage
    <3>2. /\ i \in DOMAIN memory /\ page.at \in 0 .. Len(memory) /\ PendingAt(i, page.at)
          /\ memory[i].state # "proposed"
      BY <1>1 DEF PageIsSound, PendingAt
    <3> QED  BY <3>1, <3>2
  <2> QED  BY <2>1, <2>2, <2>3
<1>3. PICK i \in DOMAIN memory, via \in {"latest", "id", "page"}, seen \in 0 .. Len(memory) :
          /\ Choose(t, state, via, i, seen)
          /\ memory[i].state # "proposed"
          /\ via # "id" => PendingAt(i, seen)
  BY <1>2
<1> DEFINE ch == [of |-> i, state |-> state, via |-> via, seen |-> seen]
<1>4. ch \in ChoiceType
  BY <1>1 DEF ChoiceType
<1>5. /\ tpc[t] = "idle" /\ tpc' = [tpc EXCEPT ![t] = "chosen"]
      /\ choice' = [choice EXCEPT ![t] = ch]
      /\ UNCHANGED <<memory, events, page, kills>>
  BY <1>3 DEF Choose
<1>6. /\ ch.of = i /\ ch.state = state /\ ch.via = via /\ ch.seen = seen
  OBVIOUS
<1>7. /\ ch.of \in DOMAIN memory /\ memory[ch.of].state # "proposed"
      /\ ch.state \in {"committed", "rejected"}
      /\ ch.seen <= Len(memory)
      /\ ch.via \in {"latest", "page"} => PendingAt(ch.of, ch.seen)
  BY <1>1, <1>3, <1>6
<1> HIDE DEF ch
<1> QED  BY <1>4, <1>5, <1>7, ToolMoves

LEMMA KillToolPreserves ==
    ASSUME CandidatesInv, NEW t \in Tool, KillTool(t)
    PROVE  CandidatesInv'
<1>1. NoChoice \in ChoiceType
  BY DEF NoChoice, ChoiceType
<1> QED  BY <1>1, ToolMoves DEF KillTool

LEMMA CreatePreserves ==
    ASSUME CandidatesInv, NEW t \in Tool, NEW text \in Sensitive, Create(t, text)
    PROVE  CandidatesInv'
<1> DEFINE r == BuildMemory(text, Actor[t])
           n == Len(memory) + 1
<1>1. CandidatesTyped /\ Len(memory) \in Nat
  BY MemoryIsSeq DEF CandidatesInv
<1>2. /\ memory' = Append(memory, r)
      /\ tpc[t] = "idle" /\ tpc' = [tpc EXCEPT ![t] = "logged"]
      /\ choice' = [choice EXCEPT ![t] = [NoChoice EXCEPT !.of = n]]
      /\ UNCHANGED <<events, page, kills>>
  BY DEF Create, AppendMemory
<1>3. /\ r.state = "candidate" /\ r.of = 0 /\ r.seen = 0 /\ r.via = "create"
      /\ Consistent(r)
  BY DEF BuildMemory, Record, Consistent, SafeText, Sensitive
<1>4. [NoChoice EXCEPT !.of = n] \in ChoiceType /\ [NoChoice EXCEPT !.of = n].of = n
  BY <1>1 DEF NoChoice, ChoiceType
<1>5. /\ choice'[t].of = n /\ tpc'[t] = "logged"
      /\ \A u \in Tool \ {t} : choice'[u] = choice[u] /\ tpc'[u] = tpc[u]
  BY <1>1, <1>2, <1>4 DEF CandidatesTyped
<1> HIDE DEF r
<1>6. IsSeq(memory') /\ n \in DOMAIN memory' /\ memory'[n] = r
  BY <1>1, <1>2, MemoryGrows
<1>7. CandidatesTyped'
  BY <1>1, <1>2, <1>4, <1>6 DEF CandidatesTyped
<1>8. RecordsAreSound' /\ PageIsSound' /\ SecondDecisionNeedsAStaleView'
  BY <1>1, <1>2, <1>3, RecordsStaySound
<1>9. ToldOnce' /\ UntoldAreCounted'
  BY <1>2, <1>3, <1>5, WrittenIsCounted
<1>10. ChoicesAreSound'
  <2>1. ChoiceIsSound(t)'
    BY <1>3, <1>5, <1>6 DEF ChoiceIsSound
  <2>2. \A u \in Tool \ {t} : ChoiceIsSound(u)'
    BY <1>2, <1>5, ChoicesStay
  <2> QED  BY <2>1, <2>2 DEF ChoicesAreSound
<1> QED  BY <1>7, <1>8, <1>9, <1>10 DEF CandidatesInv

LEMMA LogDecisionPreserves ==
    ASSUME CandidatesInv, NEW t \in Tool, LogDecision(t)
    PROVE  CandidatesInv'
<1> DEFINE r == ResolveMemory(choice[t], Actor[t])
           c == choice[t]
           n == Len(memory) + 1
<1>1. /\ CandidatesTyped /\ RecordsAreSound /\ ChoiceIsSound(t)
      /\ Len(memory) \in Nat /\ DOMAIN memory = 1 .. Len(memory)
  BY MemoryIsSeq DEF CandidatesInv, ChoicesAreSound
<1>2. /\ memory' = Append(memory, r)
      /\ tpc[t] = "chosen" /\ tpc' = [tpc EXCEPT ![t] = "logged"]
      /\ choice' = [choice EXCEPT ![t].of = n]
      /\ UNCHANGED <<events, page, kills>>
  BY DEF LogDecision, AppendMemory
<1>3. /\ c.of \in DOMAIN memory /\ memory[c.of].state # "proposed" /\ Consistent(memory[c.of])
      /\ c.state \in {"committed", "rejected"} /\ c.seen \in 0 .. Len(memory)
      /\ c.via \in {"latest", "page"} => PendingAt(c.of, c.seen)
  BY <1>1, <1>2 DEF ChoiceIsSound, RecordsAreSound, CandidatesTyped, ChoiceType
<1>4. /\ r.state = c.state /\ r.of = c.of /\ r.seen = c.seen /\ r.via = c.via
      /\ r.decision = IF c.state = "committed" THEN "allow" ELSE "deny"
      /\ r.class = memory[c.of].class /\ r.text = memory[c.of].text
  BY DEF ResolveMemory, Record
<1> HIDE DEF r
<1>5. /\ Consistent(r) /\ r.state # "proposed"
      /\ r.of \in DOMAIN memory /\ r.of \in 0 .. Len(memory) /\ r.seen \in 0 .. Len(memory)
      /\ r.via \in {"latest", "page"} => PendingAt(r.of, r.seen)
  BY <1>1, <1>3, <1>4 DEF Consistent
<1>6. /\ choice'[t].of = n /\ choice'[t] \in ChoiceType
      /\ tpc'[t] = "logged"
      /\ \A u \in Tool \ {t} : choice'[u] = choice[u] /\ tpc'[u] = tpc[u]
  <2>1. c \in ChoiceType /\ n \in Nat
    BY <1>1 DEF CandidatesTyped
  <2>2. [c EXCEPT !.of = n] \in ChoiceType /\ [c EXCEPT !.of = n].of = n
    BY <2>1 DEF ChoiceType
  <2>3. choice'[t] = [c EXCEPT !.of = n]
    BY <1>1, <1>2 DEF CandidatesTyped
  <2> QED  BY <1>1, <1>2, <2>2, <2>3 DEF CandidatesTyped
<1>7. IsSeq(memory') /\ n \in DOMAIN memory' /\ memory'[n] = r
  BY <1>1, <1>2, MemoryGrows
<1>8. CandidatesTyped'
  BY <1>1, <1>2, <1>6, <1>7 DEF CandidatesTyped
<1>9. RecordsAreSound' /\ PageIsSound' /\ SecondDecisionNeedsAStaleView'
  BY <1>2, <1>5, RecordsStaySound
<1>10. ToldOnce' /\ UntoldAreCounted'
  BY <1>2, <1>5, <1>6, WrittenIsCounted
<1>11. ChoicesAreSound'
  <2>1. ChoiceIsSound(t)'
    BY <1>5, <1>6, <1>7 DEF ChoiceIsSound
  <2>2. \A u \in Tool \ {t} : ChoiceIsSound(u)'
    BY <1>2, <1>6, ChoicesStay
  <2> QED  BY <2>1, <2>2 DEF ChoicesAreSound
<1> QED  BY <1>8, <1>9, <1>10, <1>11 DEF CandidatesInv

LEMMA LogEventPreserves ==
    ASSUME CandidatesInv, NEW t \in Tool, LogEvent(t)
    PROVE  CandidatesInv'
<1> DEFINE c == choice[t].of
           e == EventFor(c)
           n == Len(events) + 1
<1>1. /\ CandidatesTyped /\ RecordsAreSound /\ ChoicesAreSound /\ PageIsSound
      /\ SecondDecisionNeedsAStaleView /\ ToldOnce /\ UntoldAreCounted
      /\ Len(events) \in Nat /\ DOMAIN events = 1 .. Len(events)
  BY MemoryIsSeq DEF CandidatesInv
<1>2. /\ events' = Append(events, e) /\ Len(events) < MaxEvents
      /\ tpc[t] = "logged" /\ tpc' = [tpc EXCEPT ![t] = "idle"]
      /\ choice' = [choice EXCEPT ![t] = NoChoice]
      /\ UNCHANGED <<memory, page, kills>>
  BY DEF LogEvent, AppendEvent
<1>3. /\ IsSeq(events') /\ Len(events') = n /\ DOMAIN events' = 1 .. n /\ events'[n] = e
      /\ \A i \in DOMAIN events : events'[i] = events[i]
  BY <1>1, <1>2, AppendedToSeq DEF CandidatesTyped
<1>4. /\ c \in WithMemoryId(memory) /\ c \in DOMAIN memory
      /\ e.of = c /\ e.type \in MemoryEvents
  BY <1>1, <1>2 DEF ChoicesAreSound, ChoiceIsSound, WithMemoryId, EventFor, Event, MemoryEvents
<1> HIDE DEF e, c
<1>5. /\ tpc'[t] = "idle" /\ \A u \in Tool \ {t} : tpc'[u] = tpc[u] /\ choice'[u] = choice[u]
  BY <1>1, <1>2 DEF CandidatesTyped
<1>6. CandidatesTyped'
  <2>1. NoChoice \in ChoiceType
    BY DEF NoChoice, ChoiceType
  <2> QED  BY <1>1, <1>2, <1>3, <2>1, RecordBounds DEF CandidatesTyped
<1>7. RecordsAreSound' /\ PageIsSound' /\ SecondDecisionNeedsAStaleView'
  BY <1>1, <1>2 DEF RecordsAreSound, PageIsSound, SecondDecisionNeedsAStaleView, PendingAt
<1>8. ChoicesAreSound'
  <2>1. ChoiceIsSound(t)'
    BY <1>5 DEF ChoiceIsSound
  <2>2. \A u \in Tool \ {t} : ChoiceIsSound(u)'
    BY <1>2, <1>5, ChoicesStay
  <2> QED  BY <2>1, <2>2 DEF ChoicesAreSound
<1>9. UnderWay' = UnderWay \ {t} /\ t \in UnderWay
  BY <1>2, <1>5 DEF UnderWay
<1>10. Told' = Told \cup {n} /\ n \notin Told
  <2>1. \A i \in DOMAIN events' : i \in DOMAIN events \/ i = n
    BY <1>1, <1>3
  <2>2. n \in DOMAIN events' /\ n \notin DOMAIN events /\ DOMAIN events \subseteq DOMAIN events'
    BY <1>1, <1>3
  <2> HIDE DEF n
  <2>3. \A i \in DOMAIN events' : events'[i].type \in MemoryEvents <=> i \in Told \/ i = n
    BY <1>3, <1>4, <2>1, <2>2 DEF Told
  <2> QED  BY <2>2, <2>3 DEF Told
<1>11. /\ \A i \in Told : events'[i] = events[i] /\ events[i].of # c
  BY <1>1, <1>3, <1>9 DEF ToldOnce, Told, c
<1>12. Untold' = Untold \ {c} /\ c \in Untold
  <2> DEFINE T == {events[i].of : i \in Told}
  <2>1. {events'[i].of : i \in Told'} = T \cup {c}
    BY <1>3, <1>4, <1>10, <1>11
  <2>2. c \notin T
    BY <1>11
  <2>3. Untold' = WithMemoryId(memory) \ (T \cup {c}) /\ Untold = WithMemoryId(memory) \ T
    BY <1>2, <2>1 DEF Untold
  <2> HIDE DEF T
  <2> QED  BY <1>4, <2>2, <2>3
<1>13. UntoldAreCounted'
  <2>1. IsFiniteSet(UnderWay) /\ IsFiniteSet(Untold)
    BY <1>1, UntoldIsFinite DEF UntoldAreCounted
  <2>2. /\ IsFiniteSet(UnderWay') /\ Cardinality(UnderWay') = Cardinality(UnderWay) - 1
        /\ Cardinality(UnderWay) \in Nat
    BY <1>9, <2>1, FS_RemoveElement, FS_CardinalityType
  <2>3. Cardinality(Untold') = Cardinality(Untold) - 1 /\ Cardinality(Untold) \in Nat
    BY <1>12, <2>1, FS_RemoveElement, FS_CardinalityType
  <2> QED  BY <1>1, <1>2, <2>2, <2>3 DEF UntoldAreCounted, CandidatesTyped
<1>14. ToldOnce'
  <2> DEFINE Tell(i) == EventFor(i)
  <2>1. \A i : EventFor(i)' = Tell(i)
    BY <1>2 DEF EventFor
  <2>2. events'[n].of = c /\ events'[n] = Tell(c)
    BY <1>3, <1>4 DEF e
  <2> HIDE DEF n, Tell
  <2>3. ASSUME NEW i \in Told
        PROVE  /\ events'[i].of \in DOMAIN memory
               /\ events'[i] = Tell(events'[i].of)
               /\ \A f \in Told \cup {n} : events'[f].of = events'[i].of => f = i
    <3>1. /\ events[i].of \in DOMAIN memory
          /\ events[i] = Tell(events[i].of)
          /\ \A f \in Told : events[f].of = events[i].of => f = i
      BY <1>1 DEF ToldOnce, Tell
    <3> QED  BY <1>11, <2>2, <3>1
  <2>4. /\ events'[n].of \in DOMAIN memory
        /\ events'[n] = Tell(events'[n].of)
        /\ \A f \in Told \cup {n} : events'[f].of = events'[n].of => f = n
    BY <1>4, <1>11, <2>2
  <2>5. ASSUME NEW u \in UnderWay \ {t}
        PROVE  /\ \A i \in Told \cup {n} : events'[i].of # choice'[u].of
               /\ \A v \in UnderWay \ {t} : choice'[v].of = choice'[u].of => v = u
    <3>1. \A v \in UnderWay \ {t} : v \in Tool \ {t} /\ choice'[v] = choice[v]
      BY <1>5 DEF UnderWay
    <3>2. choice[u].of # c
      BY <1>1, <1>9 DEF ToldOnce, c
    <3> QED  BY <1>1, <1>11, <2>2, <3>1, <3>2 DEF ToldOnce
  <2>6. /\ \A i \in Told' : /\ events'[i].of \in DOMAIN memory'
                            /\ events'[i] = Tell(events'[i].of)
                            /\ \A f \in Told' : events'[f].of = events'[i].of => f = i
        /\ \A u \in UnderWay' :
              /\ \A i \in Told' : events'[i].of # choice'[u].of
              /\ \A v \in UnderWay' : choice'[v].of = choice'[u].of => v = u
    BY <1>2, <1>9, <1>10, <2>3, <2>4, <2>5
  <2> QED  BY <1>2, <2>1, <2>6 DEF ToldOnce, EventFor, Tell
<1> QED  BY <1>6, <1>7, <1>8, <1>13, <1>14 DEF CandidatesInv

LEMMA ShowPagePreserves ==
    ASSUME CandidatesInv, ShowPage
    PROVE  CandidatesInv'
<1>1. /\ CandidatesTyped /\ RecordsAreSound /\ ChoicesAreSound
      /\ SecondDecisionNeedsAStaleView
      /\ Len(memory) \in Nat /\ DOMAIN memory = 1 .. Len(memory)
  BY MemoryIsSeq DEF CandidatesInv
<1>2. /\ page' = [shown |-> PendingMemory(memory), at |-> Len(memory)]
      /\ UNCHANGED <<memory, events, tpc, choice, kills>>
  BY DEF ShowPage
<1>3. PageIsSound'
  <2>1. page'.at = Len(memory) /\ page'.shown = PendingMemory(memory)
    BY <1>2
  <2>2. \A i \in PendingMemory(memory) : i \in DOMAIN memory /\ PendingAt(i, Len(memory))
    BY DEF PendingMemory, Resolved, PendingAt
  <2> QED  BY <1>1, <1>2, <2>1, <2>2 DEF PageIsSound, PendingAt
<1>4. CandidatesTyped' /\ RecordsAreSound' /\ ChoicesAreSound' /\ SecondDecisionNeedsAStaleView'
  BY <1>1, <1>2 DEF CandidatesTyped, RecordsAreSound, ChoicesAreSound, ChoiceIsSound, PendingAt,
                    SecondDecisionNeedsAStaleView
<1>5. ToldOnce' /\ UntoldAreCounted'
  BY <1>2, OthersAreNotCounted
<1> QED  BY <1>3, <1>4, <1>5 DEF CandidatesInv

\* What the bridge writes to the candidates.
Pulled == Record("proposed", "none", "memory-mesh", 0, "plain", "plain", "mesh", 0)

\* What the other programs do to the candidates and the events.
LEMMA OthersPreserve ==
    ASSUME CandidatesInv, UNCHANGED toolVars,
           kills' = kills \/ kills' = kills + 1,
           \/ events' = events
           \/ \E e : AppendEvent(e) /\ e.type \notin MemoryEvents,
           \/ memory' = memory
           \/ memory' = Append(memory, Pulled)
    PROVE  CandidatesInv'
<1>1. /\ CandidatesTyped /\ RecordsAreSound /\ ChoicesAreSound /\ PageIsSound
      /\ SecondDecisionNeedsAStaleView
      /\ Len(memory) \in Nat /\ DOMAIN memory = 1 .. Len(memory)
  BY MemoryIsSeq DEF CandidatesInv
<1>2. UNCHANGED <<tpc, choice, page>>
  BY DEF toolVars
<1>3. Pulled.state = "proposed" /\ Pulled.of = 0 /\ Pulled.seen = 0 /\ Pulled.via = "mesh"
  BY DEF Pulled, Record
<1>4. memory' = memory \/ memory' = Append(memory, Pulled)
  OBVIOUS
<1>5. IsSeq(events') /\ Len(events') <= MaxEvents
  <2>1. ASSUME NEW e, AppendEvent(e)
        PROVE  IsSeq(events') /\ Len(events') <= MaxEvents
    <3>1. IsSeq(events') /\ Len(events') = Len(events) + 1 /\ Len(events) \in Nat
      BY <1>1, <2>1, AppendedToSeq DEF AppendEvent, CandidatesTyped
    <3> QED  BY <2>1, <3>1, RecordBounds DEF AppendEvent
  <2> QED  BY <1>1, <2>1 DEF CandidatesTyped
<1>6. IsSeq(memory')
  BY <1>1, <1>4, MemoryGrows DEF CandidatesTyped
<1>7. CandidatesTyped'
  BY <1>1, <1>2, <1>5, <1>6 DEF CandidatesTyped
<1>8. RecordsAreSound' /\ PageIsSound' /\ SecondDecisionNeedsAStaleView'
  <2>1. CASE memory' = memory
    <3>1. RecordsAreSound'
      BY <1>1, <2>1 DEF RecordsAreSound
    <3>2. PageIsSound'
      BY <1>1, <1>2, <2>1 DEF PageIsSound, PendingAt
    <3>3. SecondDecisionNeedsAStaleView'
      BY <1>1, <2>1 DEF SecondDecisionNeedsAStaleView
    <3> QED  BY <3>1, <3>2, <3>3
  <2>2. CASE memory' = Append(memory, Pulled)
    <3>1. page' = page
      BY <1>2
    <3>2. Pulled.of \in 0 .. Len(memory) /\ Pulled.seen \in 0 .. Len(memory)
      BY <1>1, <1>3
    <3>3. Pulled.via \notin {"latest", "page"}
      BY <1>3
    <3> QED  BY <1>3, <2>2, <3>1, <3>2, <3>3, RecordsStaySound
  <2> QED  BY <1>4, <2>1, <2>2
<1>9. ChoicesAreSound'
  BY <1>2, <1>4, ChoicesStay DEF ChoicesAreSound
<1>10. ToldOnce' /\ UntoldAreCounted'
  <2>1. \/ memory' = memory
        \/ \E q : memory' = Append(memory, q) /\ q.state = "proposed"
    BY <1>3, <1>4
  <2>2. \/ events' = events
        \/ \E e : events' = Append(events, e) /\ e.type \notin MemoryEvents
    BY DEF AppendEvent
  <2> QED  BY <1>2, <2>1, <2>2, OthersAreNotCounted
<1> QED  BY <1>7, <1>8, <1>9, <1>10 DEF CandidatesInv

-----------------------------------------------------------------------------
(* The mesh bridge.                                                        *)

LEMMA RecentLines ==
    ASSUME NEW S, NEW lines \in Seq(S), NEW n \in Nat
    PROVE  /\ Recent(lines, n) \in Seq(S)
           /\ Len(lines) > n => Len(Recent(lines, n)) = n
<1>1. CASE Len(lines) <= n
  BY <1>1 DEF Recent
<1>2. CASE Len(lines) > n
  <2>1. /\ Len(lines) \in Nat /\ Len(lines) - n + 1 \in 1 .. Len(lines) + 1
        /\ Recent(lines, n) = SubSeq(lines, Len(lines) - n + 1, Len(lines))
    BY <1>2 DEF Recent
  <2> QED  BY <2>1
<1> QED  BY <1>1, <1>2

LEMMA LinesAreMeshLines ==
    ASSUME CandidatesTyped, BridgesTyped
    PROVE  EventLines \in Seq(MeshLine) /\ SummaryLines \in Seq(MeshLine)
<1>1. Len(events) \in Nat /\ DOMAIN events = 1 .. Len(events) /\ Len(events) <= MaxEvents
  BY MemoryIsSeq DEF CandidatesTyped
<1>2. summaries \in 0 .. MaxSummaries /\ MaxEvents \in Nat /\ MaxSummaries \in Nat
  BY RecordBounds, SummariesAssumption DEF BridgesTyped
<1>3. \A i \in 1 .. Len(events) : Line("bearbrowser", "browse", i) \in MeshLine
  BY <1>1, <1>2 DEF MeshLine, Line, Source
<1>4. \A k \in 1 .. summaries : Line("bearbrowser", "browse-summary", MaxEvents + k) \in MeshLine
  BY <1>2 DEF MeshLine, Line, Source
<1>5. EventLines \in [1 .. Len(events) -> MeshLine]
  BY <1>1, <1>3 DEF EventLines
<1>6. SummaryLines \in [1 .. summaries -> MeshLine]
  BY <1>4 DEF SummaryLines
<1> QED  BY <1>1, <1>2, <1>5, <1>6

\* A bridge that reads, cuts or skips, or empties the database it is to write.
LEMMA BridgeWorks ==
    ASSUME BridgesInv,
           \A c \in Bridge : bpc'[c] = "idle" <=> bpc[c] = "idle",
           \/ syncDb' = syncDb
           \/ syncDb' = EmptyDb /\ \E c \in Bridge : bpc[c] # "idle",
           UNCHANGED <<local, pushes, pulls, disturbed>>
    PROVE  SyncedWasPassedOn' /\ HeldWasPassedOn' /\ OneBridgeHolds'
<1>1. SyncedWasPassedOn /\ HeldWasPassedOn /\ OneBridgeHolds
  BY DEF BridgesInv
<1>2. SyncedWasPassedOn' /\ HeldWasPassedOn'
  BY <1>1 DEF SyncedWasPassedOn, HeldWasPassedOn, EmptyDb
<1>3. PassedOn' = PassedOn
  BY DEF PassedOn
<1>4. OneBridgeHolds'
  BY <1>1, <1>3 DEF OneBridgeHolds
<1> QED  BY <1>2, <1>4

\* Reading a file, the end of a loop, and the steps without one.
LEMMA ReadPreserves ==
    ASSUME CandidatesTyped, BridgesInv, NEW b \in Bridge,
           NEW from \in {"readEvents", "pushEvents", "pushSummaries", "readMesh", "pull", "active", "save"},
           NEW to \in {"pushEvents", "pushSummaries", "readMesh", "pull", "active", "save", "saving"},
           GotoB(b, from, to),
           NEW lines \in Seq(MeshLine),
           todo' = todo \/ todo' = [todo EXCEPT ![b] = lines],
           syncDb' = syncDb \/ syncDb' = EmptyDb,
           UNCHANGED <<deployed, summaries, mesh, local, snapshot, pushes, pulls, disturbed>>
    PROVE  BridgesInv'
<1>1. BridgesTyped /\ DOMAIN bpc = Bridge
  BY DEF BridgesInv, BridgesTyped
<1>2. /\ bpc[b] # "idle" /\ bpc' = [bpc EXCEPT ![b] = to] /\ to # "idle"
  BY DEF GotoB
<1>3. \A c \in Bridge : bpc'[c] = "idle" <=> bpc[c] = "idle"
  BY <1>1, <1>2
<1>4. EmptyDb \in Db
  BY DEF EmptyDb, Db
<1>5. todo' \in [Bridge -> Seq(MeshLine)]
  BY <1>1 DEF BridgesTyped
<1>6. BridgesTyped'
  BY <1>1, <1>2, <1>4, <1>5 DEF BridgesTyped
<1>7. SyncedWasPassedOn' /\ HeldWasPassedOn' /\ OneBridgeHolds'
  BY <1>2, <1>3, BridgeWorks
<1> QED  BY <1>6, <1>7 DEF BridgesInv

LEMMA ReadingPreserves ==
    ASSUME CandidatesTyped, BridgesInv, NEW b \in Bridge, UNCHANGED deployed,
           \/ ReadEvents(b) \/ ReadSummaries(b) \/ EndPush(b) \/ ReadMesh(b) \/ EndPull(b)
           \/ PushActiveContext(b) \/ EmptySyncDb(b)
    PROVE  BridgesInv'
<1>1. BridgesTyped /\ MeshLimit \in Nat /\ Window \in Nat
  BY LimitsAssumption DEF BridgesInv
<1>2. EventLines \in Seq(MeshLine) /\ SummaryLines \in Seq(MeshLine)
  BY <1>1, LinesAreMeshLines
<1>3. Recent(mesh, Window) \in Seq(MeshLine)
  BY <1>1, RecentLines DEF BridgesTyped
<1>4. CASE ReadEvents(b)
  BY <1>2, <1>4, ReadPreserves DEF ReadEvents, fileVars
<1>5. CASE ReadSummaries(b)
  BY <1>2, <1>5, ReadPreserves DEF ReadSummaries, fileVars
<1>6. CASE EndPush(b)
  <2>1. PICK to \in {"active", "readMesh"} : GotoB(b, "pushSummaries", to)
    BY <1>6 DEF EndPush
  <2> QED  BY <1>2, <1>6, <2>1, ReadPreserves DEF EndPush, fileVars
<1>7. CASE ReadMesh(b)
  BY <1>3, <1>7, ReadPreserves DEF ReadMesh, fileVars
<1>8. CASE EndPull(b)
  BY <1>2, <1>8, ReadPreserves DEF EndPull, fileVars
<1>9. CASE PushActiveContext(b)
  <2>1. GotoB(b, "active", "save")
    BY <1>9 DEF PushActiveContext, GotoB
  <2> QED  BY <1>2, <1>9, <2>1, ReadPreserves DEF PushActiveContext, fileVars
<1>10. CASE EmptySyncDb(b)
  BY <1>2, <1>10, ReadPreserves DEF EmptySyncDb, fileVars
<1> QED  BY <1>4, <1>5, <1>6, <1>7, <1>8, <1>9, <1>10

LEMMA LoopPreserves ==
    ASSUME BridgesInv, NEW b \in Bridge, UNCHANGED deployed,
           EmptyMesh(b) \/ Trim(b) \/ SkipLine(b)
    PROVE  BridgesInv'
<1>1. BridgesTyped
  BY DEF BridgesInv
<1>2. /\ UNCHANGED <<summaries, syncDb, local, pushes, pulls, disturbed>>
      /\ DOMAIN bpc' = Bridge
      /\ \A c \in Bridge : bpc'[c] = "idle" <=> bpc[c] = "idle"
  BY <1>1 DEF EmptyMesh, Trim, SkipLine, GotoB, fileVars, BridgesTyped
<1>3. BridgesTyped'
  <2>1. CASE EmptyMesh(b)
    <3>1. mesh' = <<>> /\ UNCHANGED <<todo, snapshot>>
      BY <2>1 DEF EmptyMesh
    <3> QED  BY <1>1, <1>2, <3>1 DEF BridgesTyped
  <2>2. CASE Trim(b)
    <3>1. /\ todo' = todo
          /\ snapshot' = [snapshot EXCEPT ![b] = <<>>]
          /\ \/ mesh' = snapshot[b] \o SubSeq(mesh, Len(snapshot[b]) + 1, Len(mesh))
             \/ mesh' = mesh
      BY <2>2 DEF Trim
    <3>2. /\ snapshot' \in [Bridge -> Seq(MeshLine)]
          /\ \A c \in Bridge : Len(snapshot'[c]) \in {0, MeshLimit}
      BY <1>1, <3>1 DEF BridgesTyped
    <3>3. mesh \in Seq(MeshLine) /\ snapshot[b] \in Seq(MeshLine)
      BY <1>1 DEF BridgesTyped
    <3>4. SubSeq(mesh, Len(snapshot[b]) + 1, Len(mesh)) \in Seq(MeshLine)
      BY <3>3
    <3>5. mesh' \in Seq(MeshLine)
      <4> DEFINE rest == SubSeq(mesh, Len(snapshot[b]) + 1, Len(mesh))
      <4>1. snapshot[b] \o rest \in Seq(MeshLine)
        <5> HIDE DEF rest
        <5> QED  BY <3>3, <3>4 DEF rest
      <4> QED  BY <3>1, <3>3, <4>1
    <3> QED  BY <1>1, <1>2, <3>1, <3>2, <3>5 DEF BridgesTyped
  <2>3. CASE SkipLine(b)
    <3>1. /\ todo[b] # <<>> /\ todo' = [todo EXCEPT ![b] = Tail(@)]
          /\ UNCHANGED <<mesh, snapshot>>
      BY <2>3 DEF SkipLine
    <3>2. Tail(todo[b]) \in Seq(MeshLine)
      BY <1>1, <3>1 DEF BridgesTyped
    <3>3. todo' \in [Bridge -> Seq(MeshLine)]
      BY <1>1, <3>1, <3>2 DEF BridgesTyped
    <3> QED  BY <1>1, <1>2, <3>1, <3>3 DEF BridgesTyped
  <2> QED  BY <2>1, <2>2, <2>3
<1>4. SyncedWasPassedOn' /\ HeldWasPassedOn' /\ OneBridgeHolds'
  BY <1>2, BridgeWorks
<1> QED  BY <1>3, <1>4 DEF BridgesInv

LEMMA BeginSyncPreserves ==
    ASSUME BridgesInv, NEW b \in Bridge, UNCHANGED deployed, BeginSync(b)
    PROVE  BridgesInv'
<1>1. BridgesTyped /\ SyncedWasPassedOn /\ HeldWasPassedOn /\ OneBridgeHolds
  BY DEF BridgesInv
<1>2. /\ bpc[b] = "idle" /\ local' = [local EXCEPT ![b] = syncDb]
      /\ disturbed' = (disturbed \/ \E c \in Bridge : bpc[c] # "idle")
      /\ UNCHANGED <<summaries, mesh, syncDb, todo, snapshot, pushes, pulls>>
      /\ \/ bpc' = [bpc EXCEPT ![b] = "readMesh"]
         \/ bpc' = [bpc EXCEPT ![b] = "readEvents"]
  BY DEF BeginSync, GotoB, fileVars
<1>3. /\ local'[b] = syncDb /\ bpc'[b] # "idle"
      /\ \A c \in Bridge \ {b} : local'[c] = local[c] /\ bpc'[c] = bpc[c]
  BY <1>1, <1>2 DEF BridgesTyped
<1>4. BridgesTyped'
  BY <1>1, <1>2 DEF BridgesTyped
<1>5. SyncedWasPassedOn' /\ HeldWasPassedOn'
  BY <1>1, <1>2, <1>3 DEF SyncedWasPassedOn, HeldWasPassedOn
<1>6. OneBridgeHolds'
  <2> SUFFICES ASSUME ~disturbed'
               PROVE  OneBridgeHolds'
    BY DEF OneBridgeHolds
  <2>1. ~disturbed /\ \A c \in Bridge : bpc[c] = "idle"
    BY <1>2
  <2>2. /\ \A x \in Source : pushes[x] <= 1
        /\ \A k \in Notes : pulls[k] <= 1
        /\ syncDb = PassedOn
    BY <1>1, <2>1 DEF OneBridgeHolds
  <2>3. PassedOn' = PassedOn
    BY <1>2 DEF PassedOn
  <2> QED  BY <1>2, <1>3, <2>1, <2>2, <2>3 DEF OneBridgeHolds
<1> QED  BY <1>4, <1>5, <1>6 DEF BridgesInv

LEMMA SaveSyncDbPreserves ==
    ASSUME BridgesInv, NEW b \in Bridge, UNCHANGED deployed, SaveSyncDb(b)
    PROVE  BridgesInv'
<1>1. BridgesTyped /\ SyncedWasPassedOn /\ HeldWasPassedOn /\ OneBridgeHolds
  BY DEF BridgesInv
<1>2. /\ bpc[b] = "saving" /\ bpc' = [bpc EXCEPT ![b] = "idle"]
      /\ syncDb' = local[b] /\ local' = [local EXCEPT ![b] = EmptyDb]
      /\ UNCHANGED <<summaries, mesh, todo, snapshot, disturbed, pushes, pulls>>
  BY DEF SaveSyncDb, GotoB, fileVars
<1>3. /\ local'[b] = EmptyDb /\ bpc'[b] = "idle"
      /\ \A c \in Bridge \ {b} : local'[c] = local[c] /\ bpc'[c] = bpc[c]
  BY <1>1, <1>2 DEF BridgesTyped
<1>4. BridgesTyped'
  <2>1. EmptyDb \in Db
    BY DEF EmptyDb, Db
  <2> QED  BY <1>1, <1>2, <2>1 DEF BridgesTyped
<1>5. SyncedWasPassedOn' /\ HeldWasPassedOn'
  BY <1>1, <1>2, <1>3 DEF SyncedWasPassedOn, HeldWasPassedOn, EmptyDb
<1>6. OneBridgeHolds'
  <2> SUFFICES ASSUME ~disturbed
               PROVE  OneBridgeHolds'
    BY <1>2 DEF OneBridgeHolds
  <2>1. /\ local[b] = PassedOn /\ \A c \in Bridge \ {b} : bpc[c] = "idle"
    BY <1>1, <1>2 DEF OneBridgeHolds
  <2>2. PassedOn' = PassedOn
    BY <1>2 DEF PassedOn
  <2> QED  BY <1>1, <1>2, <1>3, <2>1, <2>2 DEF OneBridgeHolds
<1> QED  BY <1>4, <1>5, <1>6 DEF BridgesInv

LEMMA KillBridgePreserves ==
    ASSUME BridgesInv, NEW b \in Bridge, UNCHANGED deployed, KillBridge(b)
    PROVE  BridgesInv'
<1>1. BridgesTyped /\ SyncedWasPassedOn /\ HeldWasPassedOn
  BY DEF BridgesInv
<1>2. /\ bpc' = [bpc EXCEPT ![b] = "idle"] /\ local' = [local EXCEPT ![b] = EmptyDb]
      /\ todo' = [todo EXCEPT ![b] = <<>>] /\ snapshot' = [snapshot EXCEPT ![b] = <<>>]
      /\ disturbed'
      /\ UNCHANGED <<summaries, mesh, syncDb, pushes, pulls>>
  BY DEF KillBridge, fileVars
<1>3. /\ EmptyDb \in Db /\ <<>> \in Seq(MeshLine)
  BY DEF EmptyDb, Db
<1>4. /\ snapshot' \in [Bridge -> Seq(MeshLine)]
      /\ \A c \in Bridge : Len(snapshot'[c]) \in {0, MeshLimit}
  BY <1>1, <1>2 DEF BridgesTyped
<1>5. todo' \in [Bridge -> Seq(MeshLine)] /\ local' \in [Bridge -> Db]
  BY <1>1, <1>2, <1>3 DEF BridgesTyped
<1>6. BridgesTyped'
  BY <1>1, <1>2, <1>4, <1>5 DEF BridgesTyped
<1>7. SyncedWasPassedOn' /\ HeldWasPassedOn'
  BY <1>1, <1>2 DEF SyncedWasPassedOn, HeldWasPassedOn, EmptyDb, BridgesTyped
<1> QED  BY <1>2, <1>6, <1>7 DEF BridgesInv, OneBridgeHolds

LEMMA MeshGrowsPreserves ==
    ASSUME BridgesInv, UNCHANGED deployed,
           \/ AddSummary
           \/ \E k \in deployed.notes, kind \in Kinds : AddNote(k, kind)
    PROVE  BridgesInv'
<1>1. BridgesTyped
  BY DEF BridgesInv
<1>2. UNCHANGED <<syncDb, bpc, local, todo, snapshot, pushes, pulls, disturbed>>
  BY DEF AddSummary, AddNote, bridgeVars
<1>3. BridgesTyped'
  <2>1. CASE AddSummary
    <3>1. summaries' \in 0 .. MaxSummaries /\ mesh' = mesh
      BY <1>1, <2>1, SummariesAssumption DEF AddSummary, BridgesTyped
    <3> QED  BY <1>1, <1>2, <3>1 DEF BridgesTyped
  <2>2. ASSUME NEW k \in deployed.notes, NEW kind \in Kinds, AddNote(k, kind)
        PROVE  BridgesTyped'
    <3>1. k \in Notes
      BY <1>1, DeploymentsAssumption DEF BridgesTyped
    <3>2. Line("terminal", kind, k) \in MeshLine
      BY <3>1 DEF Line, MeshLine
    <3>3. mesh' \in Seq(MeshLine) /\ summaries' = summaries
      BY <1>1, <2>2, <3>2 DEF AddNote, BridgesTyped
    <3> QED  BY <1>1, <1>2, <3>3 DEF BridgesTyped
  <2> QED  BY <2>1, <2>2
<1>4. SyncedWasPassedOn' /\ HeldWasPassedOn' /\ OneBridgeHolds'
  <2>1. \A c \in Bridge : bpc'[c] = "idle" <=> bpc[c] = "idle"
    BY <1>2
  <2>2. UNCHANGED <<local, pushes, pulls, disturbed>> /\ syncDb' = syncDb
    BY <1>2
  <2> QED  BY <2>1, <2>2, BridgeWorks
<1> QED  BY <1>3, <1>4 DEF BridgesInv

LEMMA PushNextPreserves ==
    ASSUME BridgesInv, CandidatesTyped, NEW b \in Bridge, UNCHANGED deployed, PushNext(b)
    PROVE  BridgesInv'
<1> DEFINE line == Head(todo[b])
           x == line.of
           longer == Append(mesh, line)
           db == [local[b] EXCEPT !.pushed = @ \cup {x}]
<1>1. BridgesTyped /\ SyncedWasPassedOn /\ HeldWasPassedOn /\ OneBridgeHolds
  BY DEF BridgesInv
<1>2. /\ bpc[b] \in {"pushEvents", "pushSummaries"}
      /\ todo[b] # <<>> /\ ToPush(b)
      /\ mesh' = longer
      /\ snapshot' = [snapshot EXCEPT ![b] =
            IF Len(longer) > MeshLimit THEN Recent(longer, MeshLimit) ELSE <<>>]
      /\ local' = [local EXCEPT ![b] = db]
      /\ todo' = [todo EXCEPT ![b] = Tail(@)]
      /\ pushes' = [pushes EXCEPT ![x] = IF @ = 0 THEN 1 ELSE 2]
      /\ UNCHANGED <<summaries, syncDb, bpc, pulls, disturbed>>
  BY DEF PushNext, Once, fileVars
<1>3. x \in Source /\ x \notin local[b].pushed
  <2>1. Interesting \subseteq Source
    BY RecordBounds, SummariesAssumption, MemoryIsSeq DEF Interesting, Source, CandidatesTyped
  <2>2. Summarized \subseteq Source
    BY <1>1, RecordBounds, SummariesAssumption DEF Summarized, Source, BridgesTyped
  <2> QED  BY <1>2, <2>1, <2>2 DEF ToPush
<1>4. line \in MeshLine /\ Tail(todo[b]) \in Seq(MeshLine)
  BY <1>1, <1>2 DEF BridgesTyped
<1>5. longer \in Seq(MeshLine) /\ MeshLimit \in Nat
  BY <1>1, <1>4, LimitsAssumption DEF BridgesTyped
<1>6. db \in Db /\ db.pushed = local[b].pushed \cup {x} /\ db.pulled = local[b].pulled
  BY <1>1, <1>3 DEF BridgesTyped, Db
<1>7. /\ local'[b] = db /\ \A c \in Bridge \ {b} : local'[c] = local[c]
      /\ local' \in [Bridge -> Db]
  BY <1>1, <1>2, <1>6 DEF BridgesTyped
<1>8. /\ pushes' \in [Source -> 0 .. 2]
      /\ pushes'[x] = IF pushes[x] = 0 THEN 1 ELSE 2
      /\ \A y \in Source : pushes'[y] = pushes[y] \/ y = x
      /\ pushes'[x] > 0
  BY <1>1, <1>2, <1>3 DEF BridgesTyped
<1>9. BridgesTyped'
  <2>1. todo' \in [Bridge -> Seq(MeshLine)]
    BY <1>1, <1>2, <1>4 DEF BridgesTyped
  <2>2. Recent(longer, MeshLimit) \in Seq(MeshLine)
        /\ (Len(longer) > MeshLimit => Len(Recent(longer, MeshLimit)) = MeshLimit)
    BY <1>5, RecentLines
  <2> HIDE DEF longer
  <2>3. /\ snapshot' \in [Bridge -> Seq(MeshLine)]
        /\ \A c \in Bridge : Len(snapshot'[c]) \in {0, MeshLimit}
    BY <1>1, <1>2, <2>2 DEF BridgesTyped
  <2> QED  BY <1>1, <1>2, <1>5, <1>7, <1>8, <2>1, <2>3 DEF BridgesTyped
<1> HIDE DEF db, x, line
<1>10. SyncedWasPassedOn' /\ HeldWasPassedOn'
  <2>1. \A y \in Source : pushes[y] > 0 => pushes'[y] > 0
    BY <1>8
  <2>2. /\ syncDb.pushed \subseteq Source /\ \A c \in Bridge : local[c].pushed \subseteq Source
    BY <1>1 DEF BridgesTyped, Db
  <2>3. SyncedWasPassedOn'
    BY <1>1, <1>2, <2>1, <2>2 DEF SyncedWasPassedOn
  <2>4. HeldWasPassedOn'
    BY <1>1, <1>2, <1>6, <1>7, <1>8, <2>1, <2>2 DEF HeldWasPassedOn
  <2> QED  BY <2>3, <2>4
<1>11. OneBridgeHolds'
  <2> SUFFICES ASSUME ~disturbed
               PROVE  OneBridgeHolds'
    BY <1>2 DEF OneBridgeHolds
  <2>1. /\ \A y \in Source : pushes[y] <= 1
        /\ \A k \in Notes : pulls[k] <= 1
        /\ \A c \in Bridge : bpc[c] # "idle" => c = b
        /\ local[b] = PassedOn /\ bpc[b] # "idle"
    BY <1>1, <1>2 DEF OneBridgeHolds
  <2>2. pushes[x] = 0
    <3>1. pushes[x] # 1
      BY <1>3, <2>1 DEF PassedOn
    <3> QED  BY <1>1, <1>3, <2>1, <3>1 DEF BridgesTyped
  <2>3. /\ \A y \in Source : pushes'[y] <= 1
        /\ \A y \in Source : pushes'[y] = 1 <=> pushes[y] = 1 \/ y = x
    BY <1>3, <1>8, <2>1, <2>2
  <2>4. {y \in Source : pushes'[y] = 1} = {y \in Source : pushes[y] = 1} \cup {x}
    BY <1>3, <2>3
  <2>5. db = [pushed |-> {y \in Source : pushes'[y] = 1}, pulled |-> {k \in Notes : pulls[k] = 1}]
    <3>1. /\ local[b].pushed = {y \in Source : pushes[y] = 1}
          /\ local[b].pulled = {k \in Notes : pulls[k] = 1}
      BY <2>1 DEF PassedOn
    <3>2. db = [pushed |-> db.pushed, pulled |-> db.pulled]
      BY <1>6 DEF Db
    <3> QED  BY <1>6, <2>4, <3>1, <3>2
  <2>6. local'[b] = PassedOn'
    BY <1>2, <1>7, <2>5 DEF PassedOn
  <2> QED  BY <1>2, <2>1, <2>3, <2>6 DEF OneBridgeHolds
<1> QED  BY <1>9, <1>10, <1>11 DEF BridgesInv

LEMMA PullNextPreserves ==
    ASSUME BridgesInv, NEW b \in Bridge, UNCHANGED deployed, PullNext(b)
    PROVE  BridgesInv'
<1> DEFINE line == Head(todo[b])
           k == line.of
           db == [local[b] EXCEPT !.pulled = @ \cup {k}]
<1>1. BridgesTyped /\ SyncedWasPassedOn /\ HeldWasPassedOn /\ OneBridgeHolds
  BY DEF BridgesInv
<1>2. /\ bpc[b] = "pull"
      /\ todo[b] # <<>> /\ ToPull(b)
      /\ local' = [local EXCEPT ![b] = db]
      /\ todo' = [todo EXCEPT ![b] = Tail(@)]
      /\ pulls' = [pulls EXCEPT ![k] = IF @ = 0 THEN 1 ELSE 2]
      /\ UNCHANGED <<summaries, mesh, snapshot, syncDb, bpc, pushes, disturbed>>
  BY DEF PullNext, Once, fileVars
<1>3. line \in MeshLine /\ Tail(todo[b]) \in Seq(MeshLine)
  BY <1>1, <1>2 DEF BridgesTyped
<1>4. k \in Notes /\ k \notin local[b].pulled
  BY <1>2, <1>3 DEF ToPull, IsNote, MeshLine
<1>5. db \in Db /\ db.pulled = local[b].pulled \cup {k} /\ db.pushed = local[b].pushed
  BY <1>1, <1>4 DEF BridgesTyped, Db
<1>6. /\ local'[b] = db /\ \A c \in Bridge \ {b} : local'[c] = local[c]
      /\ local' \in [Bridge -> Db]
  BY <1>1, <1>2, <1>5 DEF BridgesTyped
<1>7. /\ pulls' \in [Notes -> 0 .. 2]
      /\ pulls'[k] = IF pulls[k] = 0 THEN 1 ELSE 2
      /\ \A y \in Notes : pulls'[y] = pulls[y] \/ y = k
      /\ pulls'[k] > 0
  BY <1>1, <1>2, <1>4 DEF BridgesTyped
<1>8. BridgesTyped'
  <2>1. todo' \in [Bridge -> Seq(MeshLine)]
    BY <1>1, <1>2, <1>3 DEF BridgesTyped
  <2> QED  BY <1>1, <1>2, <1>6, <1>7, <2>1 DEF BridgesTyped
<1> HIDE DEF db, k, line
<1>9. SyncedWasPassedOn' /\ HeldWasPassedOn'
  <2>1. \A y \in Notes : pulls[y] > 0 => pulls'[y] > 0
    BY <1>7
  <2>2. /\ syncDb.pulled \subseteq Notes /\ \A c \in Bridge : local[c].pulled \subseteq Notes
    BY <1>1 DEF BridgesTyped, Db
  <2>3. SyncedWasPassedOn'
    BY <1>1, <1>2, <2>1, <2>2 DEF SyncedWasPassedOn
  <2>4. HeldWasPassedOn'
    BY <1>1, <1>2, <1>5, <1>6, <1>7, <2>1, <2>2 DEF HeldWasPassedOn
  <2> QED  BY <2>3, <2>4
<1>10. OneBridgeHolds'
  <2> SUFFICES ASSUME ~disturbed
               PROVE  OneBridgeHolds'
    BY <1>2 DEF OneBridgeHolds
  <2>1. /\ \A x \in Source : pushes[x] <= 1
        /\ \A y \in Notes : pulls[y] <= 1
        /\ \A c \in Bridge : bpc[c] # "idle" => c = b
        /\ local[b] = PassedOn /\ bpc[b] # "idle"
    BY <1>1, <1>2 DEF OneBridgeHolds
  <2>2. pulls[k] = 0
    <3>1. pulls[k] # 1
      BY <1>4, <2>1 DEF PassedOn
    <3> QED  BY <1>1, <1>4, <2>1, <3>1 DEF BridgesTyped
  <2>3. /\ \A y \in Notes : pulls'[y] <= 1
        /\ \A y \in Notes : pulls'[y] = 1 <=> pulls[y] = 1 \/ y = k
    BY <1>4, <1>7, <2>1, <2>2
  <2>4. {y \in Notes : pulls'[y] = 1} = {y \in Notes : pulls[y] = 1} \cup {k}
    BY <1>4, <2>3
  <2>5. db = [pushed |-> {x \in Source : pushes[x] = 1}, pulled |-> {y \in Notes : pulls'[y] = 1}]
    <3>1. /\ local[b].pushed = {x \in Source : pushes[x] = 1}
          /\ local[b].pulled = {y \in Notes : pulls[y] = 1}
      BY <2>1 DEF PassedOn
    <3>2. db = [pushed |-> db.pushed, pulled |-> db.pulled]
      BY <1>5 DEF Db
    <3> QED  BY <1>5, <2>4, <3>1, <3>2
  <2>6. local'[b] = PassedOn'
    BY <1>2, <1>6, <2>5 DEF PassedOn
  <2> QED  BY <1>2, <2>1, <2>3, <2>6 DEF OneBridgeHolds
<1> QED  BY <1>8, <1>9, <1>10 DEF BridgesInv

LEMMA SyncPreserves ==
    ASSUME BridgesInv, CandidatesTyped, NEW b \in Bridge, UNCHANGED deployed, Sync(b)
    PROVE  BridgesInv'
<1>1. CASE BeginSync(b) \/ SaveSyncDb(b)
  BY <1>1, BeginSyncPreserves, SaveSyncDbPreserves
<1>2. CASE \/ ReadEvents(b) \/ ReadSummaries(b) \/ EndPush(b) \/ ReadMesh(b) \/ EndPull(b)
           \/ PushActiveContext(b) \/ EmptySyncDb(b)
  BY <1>2, ReadingPreserves
<1>3. CASE PushNext(b) \/ PullNext(b)
  BY <1>3, PushNextPreserves, PullNextPreserves
<1>4. CASE EmptyMesh(b) \/ Trim(b) \/ SkipLine(b)
  BY <1>4, LoopPreserves
<1> QED  BY <1>1, <1>2, <1>3, <1>4 DEF Sync

LEMMA BridgesStay ==
    ASSUME BridgesInv, UNCHANGED <<deployed, meshVars>>
    PROVE  BridgesInv'
<1>1. /\ UNCHANGED <<deployed, summaries, mesh, syncDb, pushes, pulls>>
      /\ UNCHANGED <<bpc, local, todo, snapshot, disturbed>>
  BY DEF meshVars, fileVars, bridgeVars
<1>2. BridgesTyped'
  BY <1>1 DEF BridgesInv, BridgesTyped
<1>3. SyncedWasPassedOn' /\ HeldWasPassedOn' /\ OneBridgeHolds'
  <2>1. \A c \in Bridge : bpc'[c] = "idle" <=> bpc[c] = "idle"
    BY <1>1
  <2>2. UNCHANGED <<local, pushes, pulls, disturbed>> /\ syncDb' = syncDb
    BY <1>1
  <2> QED  BY <2>1, <2>2, BridgeWorks
<1> QED  BY <1>2, <1>3 DEF BridgesInv

-----------------------------------------------------------------------------
(* The BearBlocker syncer.                                                 *)

LEMMA LinesAreNat == Lines \subseteq Nat \ {0}
BY ReceiptsAssumption DEF Lines

\* An event of another kind forwards nothing.
LEMMA ForwardsStay ==
    ASSUME IsSeq(events),
           \/ events' = events
           \/ \E e : events' = Append(events, e)
                     /\ \A n \in Lines : e # Forward(n)
    PROVE  \A n \in Lines : ForwardsOf(n)' = ForwardsOf(n)
<1>1. CASE events' = events
  BY <1>1 DEF ForwardsOf
<1>2. ASSUME NEW e, events' = Append(events, e),
             \A n \in Lines : e # Forward(n)
      PROVE  \A n \in Lines : ForwardsOf(n)' = ForwardsOf(n)
  <2>1. /\ Len(events) \in Nat /\ DOMAIN events = 1 .. Len(events)
        /\ DOMAIN events' = 1 .. Len(events) + 1
        /\ \A i \in DOMAIN events : events'[i] = events[i]
        /\ events'[Len(events) + 1] = e
    BY <1>2, AppendedToSeq
  <2> SUFFICES ASSUME NEW n \in Lines
               PROVE  ForwardsOf(n)' = ForwardsOf(n)
    OBVIOUS
  <2> DEFINE told == Forward(n)
  <2>2. \A i \in DOMAIN events' : i \in DOMAIN events \/ i = Len(events) + 1
    BY <2>1
  <2>3. e # told
    BY <1>2
  <2> HIDE DEF told
  <2>4. \A i \in DOMAIN events' :
            events'[i] = told <=> i \in DOMAIN events /\ events[i] = told
    BY <2>1, <2>2, <2>3
  <2>5. DOMAIN events \subseteq DOMAIN events'
    BY <2>1
  <2> QED  BY <2>4, <2>5 DEF ForwardsOf, told
<1> QED  BY <1>1, <1>2

\* An event of a line is one more for that line only.
LEMMA ForwardsGrow ==
    ASSUME IsSeq(events), NEW n \in Lines,
           events' = Append(events, Forward(n))
    PROVE  /\ ForwardsOf(n)' = ForwardsOf(n) \cup {Len(events) + 1}
           /\ \A m \in Lines \ {n} : ForwardsOf(m)' = ForwardsOf(m)
<1> DEFINE e == Forward(n)
<1>1. /\ Len(events) \in Nat /\ DOMAIN events = 1 .. Len(events)
      /\ DOMAIN events' = 1 .. Len(events) + 1
      /\ \A i \in DOMAIN events : events'[i] = events[i]
      /\ events'[Len(events) + 1] = e
  BY AppendedToSeq
<1>2. /\ \A i \in DOMAIN events' : i \in DOMAIN events \/ i = Len(events) + 1
      /\ Len(events) + 1 \in DOMAIN events' /\ DOMAIN events \subseteq DOMAIN events'
      /\ Len(events) + 1 \notin DOMAIN events
  BY <1>1
<1>3. ForwardsOf(n)' = ForwardsOf(n) \cup {Len(events) + 1}
  <2> HIDE DEF e
  <2>1. \A i \in DOMAIN events' :
            events'[i] = e <=> (i \in DOMAIN events /\ events[i] = e) \/ i = Len(events) + 1
    BY <1>1, <1>2
  <2>2. {i \in DOMAIN events' : events'[i] = e}
            = {i \in DOMAIN events : events[i] = e} \cup {Len(events) + 1}
    BY <1>2, <2>1
  <2> QED  BY <2>2 DEF ForwardsOf, e
<1>4. ASSUME NEW m \in Lines \ {n}
      PROVE  ForwardsOf(m)' = ForwardsOf(m)
  <2> DEFINE told == Forward(m)
  <2>1. e # told
    BY DEF Event, Forward
  <2> HIDE DEF told, e
  <2>2. \A i \in DOMAIN events' : events'[i] = told <=> i \in DOMAIN events /\ events[i] = told
    BY <1>1, <1>2, <2>1
  <2>3. {i \in DOMAIN events' : events'[i] = told} = {i \in DOMAIN events : events[i] = told}
    BY <1>2, <2>2
  <2> QED  BY <2>3 DEF ForwardsOf, told
<1> QED  BY <1>3, <1>4

\* What was handled stays so.
LEMMA HandledStays ==
    ASSUME \A n \in Lines : ForwardsOf(n) \subseteq ForwardsOf(n)',
           failed \subseteq failed', torn \subseteq torn'
    PROVE  \A n \in Lines : Handled(n) => Handled(n)'
BY DEF Handled

LEMMA SyncersStay ==
    ASSUME SyncersInv, UNCHANGED <<cursor, failed, torn, syncerVars>>,
           halves' \in Nat, halves <= halves',
           \A n \in Lines : ForwardsOf(n)' = ForwardsOf(n)
    PROVE  SyncersInv'
<1>1. SyncersTyped /\ CursorPassesOnlyHandled /\ SyncersHandle /\ OneSyncerForwards
  BY DEF SyncersInv
<1>2. UNCHANGED <<spc, start, end, batch, forwarded, overlapped>>
  BY DEF syncerVars
<1>3. SyncersTyped'
  <2>1. 0 .. halves \subseteq 0 .. halves'
    BY <1>1 DEF SyncersTyped
  <2>2. start' \in [Syncer -> 0 .. halves'] /\ end' \in [Syncer -> 0 .. halves']
    BY <1>1, <1>2, <2>1 DEF SyncersTyped
  <2> QED  BY <1>1, <1>2, <2>1, <2>2 DEF SyncersTyped
<1>4. \A n \in Lines : Handled(n)' = Handled(n)
  BY DEF Handled
<1>5. CursorPassesOnlyHandled'
  BY <1>1, <1>4 DEF CursorPassesOnlyHandled, Handled
<1>6. SyncersHandle'
  BY <1>1, <1>2, <1>4 DEF SyncersHandle, SyncerHandles
<1>7. OneSyncerForwards'
  <2> SUFFICES ASSUME ~overlapped
               PROVE  OneSyncerForwards'
    BY <1>2 DEF OneSyncerForwards
  <2>1. \A s \in Syncer : SyncerForwards(s)'
    <3>1. \A s \in Syncer : spc[s] = "emit" => batch[s] \subseteq Lines
      BY <1>1 DEF SyncersTyped
    <3> QED  BY <1>1, <1>2, <3>1 DEF OneSyncerForwards, SyncerForwards
  <2>2. \A n \in Lines : Passed(n)' <=> Passed(n)
    BY <1>2 DEF Passed
  <2> QED  BY <1>1, <1>2, <2>1, <2>2 DEF OneSyncerForwards
<1> QED  BY <1>3, <1>5, <1>6, <1>7 DEF SyncersInv

LEMMA AppendReceiptPreserves ==
    ASSUME SyncersInv, AppendReceipt
    PROVE  SyncersInv'
<1>1. halves' \in Nat /\ halves <= halves'
  BY DEF AppendReceipt, SyncersInv, SyncersTyped
<1>2. \A n \in Lines : ForwardsOf(n)' = ForwardsOf(n)
  BY DEF AppendReceipt, ForwardsOf
<1> QED  BY <1>1, <1>2, SyncersStay DEF AppendReceipt

LEMMA ReadCursorPreserves ==
    ASSUME SyncersInv, NEW s \in Syncer, ReadCursor(s)
    PROVE  SyncersInv'
<1>1. SyncersTyped /\ CursorPassesOnlyHandled /\ SyncersHandle /\ OneSyncerForwards
  BY DEF SyncersInv
<1>2. /\ spc[s] = "idle" /\ spc' = [spc EXCEPT ![s] = "read"]
      /\ start' = [start EXCEPT ![s] = cursor]
      /\ overlapped' = (overlapped \/ \E r \in Syncer : spc[r] # "idle")
      /\ UNCHANGED <<events, halves, cursor, failed, torn, end, batch, forwarded>>
  BY DEF ReadCursor, GotoS
<1>3. /\ spc'[s] = "read" /\ start'[s] = cursor
      /\ \A r \in Syncer \ {s} : spc'[r] = spc[r] /\ start'[r] = start[r]
  BY <1>1, <1>2 DEF SyncersTyped
<1>4. SyncersTyped'
  BY <1>1, <1>2 DEF SyncersTyped
<1>5. \A n : Handled(n)' = Handled(n)
  BY <1>2 DEF Handled, ForwardsOf
<1>6. CursorPassesOnlyHandled'
  BY <1>1, <1>2, <1>5 DEF CursorPassesOnlyHandled, Handled
<1>7. SyncersHandle'
  <2>1. SyncerHandles(s)'
    BY <1>1, <1>3, <1>5 DEF SyncerHandles, CursorPassesOnlyHandled, Handled
  <2>2. \A r \in Syncer \ {s} : SyncerHandles(r)'
    BY <1>1, <1>2, <1>3, <1>5 DEF SyncersHandle, SyncerHandles
  <2> QED  BY <2>1, <2>2 DEF SyncersHandle
<1>8. OneSyncerForwards'
  <2> SUFFICES ASSUME ~overlapped'
               PROVE  OneSyncerForwards'
    BY DEF OneSyncerForwards
  <2>1. ~overlapped /\ \A r \in Syncer : spc[r] = "idle"
    BY <1>2
  <2>2. \A n : ForwardsOf(n)' = ForwardsOf(n)
    BY <1>2 DEF ForwardsOf
  <2>3. \A n \in Lines \ failed : ForwardsOf(n) # {} => 2 * n <= cursor
    BY <1>1, <2>1 DEF OneSyncerForwards, Passed
  <2>4. \A r \in Syncer : SyncerForwards(r)'
    BY <1>2, <1>3, <2>1 DEF SyncerForwards
  <2>5. \A n \in Lines \ failed' : ForwardsOf(n)' # {} => Passed(n)'
    BY <1>2, <2>2, <2>3 DEF Passed
  <2>6. \A n \in Lines \ failed' : \A e, f \in ForwardsOf(n)' : e = f
    BY <1>1, <1>2, <2>1, <2>2 DEF OneSyncerForwards
  <2> QED  BY <1>1, <1>3, <2>1, <2>4, <2>5, <2>6 DEF OneSyncerForwards
<1> QED  BY <1>4, <1>6, <1>7, <1>8 DEF SyncersInv

LEMMA ReadReceiptsPreserves ==
    ASSUME SyncersInv, NEW s \in Syncer, ReadReceipts(s)
    PROVE  SyncersInv'
<1>1. SyncersTyped /\ CursorPassesOnlyHandled /\ SyncersHandle /\ OneSyncerForwards
  BY DEF SyncersInv
<1>2. /\ spc[s] = "read" /\ spc' = [spc EXCEPT ![s] = "emit"]
      /\ end' = [end EXCEPT ![s] = halves]
      /\ batch' = [batch EXCEPT ![s] = WholeLines(start[s], halves)]
      /\ torn' = torn \cup CutLines(start[s], halves)
      /\ UNCHANGED <<events, halves, cursor, failed, start, forwarded, overlapped>>
  BY DEF ReadReceipts, GotoS
<1>3. /\ spc'[s] = "emit" /\ end'[s] = halves /\ batch'[s] = WholeLines(start[s], halves)
      /\ \A r \in Syncer \ {s} : spc'[r] = spc[r] /\ end'[r] = end[r] /\ batch'[r] = batch[r]
  BY <1>1, <1>2 DEF SyncersTyped
<1>4. SyncersTyped'
  <2>1. WholeLines(start[s], halves) \subseteq Lines
    BY DEF WholeLines
  <2> QED  BY <1>1, <1>2, <2>1 DEF SyncersTyped
<1>5. \A n : ForwardsOf(n)' = ForwardsOf(n)
  BY <1>2 DEF ForwardsOf
<1>6. \A n \in Lines : Handled(n) => Handled(n)'
  BY <1>2, <1>5, HandledStays
<1>7. CursorPassesOnlyHandled'
  <2>1. \A n \in Lines : 2 * n <= cursor => Handled(n)
    BY <1>1 DEF CursorPassesOnlyHandled, Handled
  <2> QED  BY <1>2, <1>6, <2>1 DEF CursorPassesOnlyHandled, Handled
<1>8. SyncersHandle'
  <2>1. \A n \in Lines : 2 * n <= start[s] => Handled(n)'
    BY <1>1, <1>2, <1>6 DEF SyncersHandle, SyncerHandles
  <2>2. ASSUME NEW n \in Lines, 2 * n <= halves
        PROVE  Handled(n)' \/ n \in batch'[s]
    <3>1. n \in Nat \ {0} /\ start[s] \in Nat /\ halves \in Nat
      BY <1>1, LinesAreNat DEF SyncersTyped
    <3>2. CASE start[s] < 2 * n - 1
      BY <1>3, <2>2, <3>2 DEF WholeLines
    <3>3. CASE start[s] = 2 * n - 1
      <4>1. n \in CutLines(start[s], halves)
        BY <2>2, <3>1, <3>3 DEF CutLines
      <4> QED  BY <1>2, <4>1 DEF Handled
    <3>4. CASE 2 * n <= start[s]
      BY <2>1, <3>4
    <3> QED  BY <3>1, <3>2, <3>3, <3>4
  <2>3. SyncerHandles(s)'
    BY <1>2, <1>3, <2>1, <2>2 DEF SyncerHandles
  <2>4. \A r \in Syncer \ {s} : SyncerHandles(r)'
    BY <1>1, <1>2, <1>3, <1>6 DEF SyncersHandle, SyncerHandles
  <2> QED  BY <2>3, <2>4 DEF SyncersHandle
<1>9. OneSyncerForwards'
  <2> SUFFICES ASSUME ~overlapped
               PROVE  OneSyncerForwards'
    BY <1>2 DEF OneSyncerForwards
  <2>1. /\ \A r \in Syncer \ {s} : spc[r] = "idle"
        /\ cursor = start[s]
    BY <1>1, <1>2 DEF OneSyncerForwards, SyncerForwards
  <2>2. \A n \in Lines \ failed : ForwardsOf(n) # {} => 2 * n <= cursor
    BY <1>1, <1>2, <2>1 DEF OneSyncerForwards, Passed
  <2>3. \A n \in WholeLines(start[s], halves) \ failed : ForwardsOf(n) = {}
    <3> SUFFICES ASSUME NEW n \in Lines \ failed, start[s] < 2 * n - 1
                 PROVE  ForwardsOf(n) = {}
      BY DEF WholeLines
    <3>1. n \in Nat /\ start[s] \in Nat
      BY <1>1, LinesAreNat DEF SyncersTyped
    <3> QED  BY <2>1, <2>2, <3>1
  <2>4. SyncerForwards(s)'
    <3>1. start[s] <= halves /\ start'[s] = start[s]
      BY <1>1, <1>2 DEF SyncersTyped
    <3> QED  BY <1>2, <1>3, <1>5, <2>1, <2>3, <3>1 DEF SyncerForwards
  <2>5. \A r \in Syncer \ {s} : SyncerForwards(r)'
    BY <1>3, <2>1 DEF SyncerForwards
  <2>6. \A n \in Lines \ failed : ForwardsOf(n)' # {} => Passed(n)'
    BY <1>2, <1>5, <2>2 DEF Passed
  <2> QED  BY <1>1, <1>2, <1>3, <1>5, <2>1, <2>4, <2>5, <2>6 DEF OneSyncerForwards
<1> QED  BY <1>4, <1>7, <1>8, <1>9 DEF SyncersInv

LEMMA EmitPreserves ==
    ASSUME SyncersInv, IsSeq(events), NEW s \in Syncer, Emit(s)
    PROVE  SyncersInv'
<1>1. SyncersTyped /\ CursorPassesOnlyHandled /\ SyncersHandle /\ OneSyncerForwards
  BY DEF SyncersInv
<1>2. PICK n \in batch[s] :
          /\ batch' = [batch EXCEPT ![s] = @ \ {n}]
          /\ \/ /\ AppendEvent(Forward(n))
                /\ forwarded' = [forwarded EXCEPT ![s] = @ + 1]
                /\ UNCHANGED failed
             \/ /\ failed' = failed \cup {n}
                /\ AppendEvent(Forward(n)) \/ UNCHANGED events
                /\ UNCHANGED forwarded
  BY DEF Emit
<1>3. /\ spc[s] = "emit"
      /\ UNCHANGED <<halves, cursor, torn, spc, start, end, overlapped>>
  BY DEF Emit
<1>4. n \in Lines
  BY <1>1 DEF SyncersTyped
<1>5. /\ batch'[s] = batch[s] \ {n} /\ \A r \in Syncer \ {s} : batch'[r] = batch[r]
      /\ forwarded'[s] \in Nat /\ forwarded'[s] >= forwarded[s]
      /\ \A r \in Syncer \ {s} : forwarded'[r] = forwarded[r]
      /\ forwarded' \in [Syncer -> Nat]
  BY <1>1, <1>2 DEF SyncersTyped
<1>6. SyncersTyped'
  BY <1>1, <1>2, <1>3, <1>5 DEF SyncersTyped
<1>7. /\ \A m \in Lines \ {n} : ForwardsOf(m)' = ForwardsOf(m)
      /\ ForwardsOf(n) \subseteq ForwardsOf(n)'
      /\ \/ failed' = failed \cup {n}
         \/ /\ ForwardsOf(n)' = ForwardsOf(n) \cup {Len(events) + 1}
            /\ failed' = failed /\ forwarded'[s] = forwarded[s] + 1
  <2>1. ASSUME AppendEvent(Forward(n))
        PROVE  /\ \A m \in Lines \ {n} : ForwardsOf(m)' = ForwardsOf(m)
               /\ ForwardsOf(n)' = ForwardsOf(n) \cup {Len(events) + 1}
    BY <1>4, <2>1, ForwardsGrow DEF AppendEvent
  <2>2. CASE AppendEvent(Forward(n)) /\ failed' = failed \cup {n}
    BY <2>1, <2>2
  <2>3. CASE /\ AppendEvent(Forward(n))
             /\ forwarded' = [forwarded EXCEPT ![s] = @ + 1]
             /\ UNCHANGED failed
    <3>1. forwarded'[s] = forwarded[s] + 1
      BY <1>1, <2>3 DEF SyncersTyped
    <3> QED  BY <2>1, <2>3, <3>1
  <2>4. CASE failed' = failed \cup {n} /\ UNCHANGED events
    BY <2>4 DEF ForwardsOf
  <2> QED  BY <1>2, <2>2, <2>3, <2>4
<1>8. (\A m \in Lines : Handled(m) => Handled(m)') /\ Handled(n)'
  <2>1. \A m \in Lines : ForwardsOf(m) \subseteq ForwardsOf(m)'
    BY <1>7
  <2>2. failed \subseteq failed' /\ torn \subseteq torn'
    BY <1>3, <1>7
  <2> QED  BY <1>4, <1>7, <2>1, <2>2, HandledStays DEF Handled
<1>9. CursorPassesOnlyHandled'
  <2>1. \A m \in Lines : 2 * m <= cursor => Handled(m)
    BY <1>1 DEF CursorPassesOnlyHandled, Handled
  <2> QED  BY <1>3, <1>8, <2>1 DEF CursorPassesOnlyHandled, Handled
<1>10. SyncersHandle'
  <2>1. SyncerHandles(s)'
    BY <1>1, <1>3, <1>5, <1>8 DEF SyncersHandle, SyncerHandles
  <2>2. \A r \in Syncer \ {s} : SyncerHandles(r)'
    BY <1>1, <1>3, <1>5, <1>8 DEF SyncersHandle, SyncerHandles
  <2> QED  BY <2>1, <2>2 DEF SyncersHandle
<1>11. OneSyncerForwards'
  <2> SUFFICES ASSUME ~overlapped
               PROVE  OneSyncerForwards'
    BY <1>3 DEF OneSyncerForwards
  <2>1. /\ \A r \in Syncer \ {s} : spc[r] = "idle"
        /\ cursor = start[s] /\ start[s] <= end[s]
        /\ batch[s] \subseteq WholeLines(start[s], end[s])
        /\ \A m \in batch[s] \ failed : ForwardsOf(m) = {}
        /\ \A m \in Lines \ failed : \A e, f \in ForwardsOf(m) : e = f
        /\ \A m \in Lines \ failed : ForwardsOf(m) # {} => Passed(m)
    BY <1>1, <1>3 DEF OneSyncerForwards, SyncerForwards
  <2>2. \A m \in Lines \ failed' : \A e, f \in ForwardsOf(m)' : e = f
    BY <1>2, <1>7, <2>1
  <2>3. SyncerForwards(s)'
    BY <1>1, <1>3, <1>5, <1>7, <2>1 DEF SyncerForwards, SyncersTyped
  <2>4. \A r \in Syncer \ {s} : SyncerForwards(r)'
    BY <1>3, <2>1 DEF SyncerForwards
  <2>5. ASSUME NEW m \in Lines \ failed', ForwardsOf(m)' # {}
        PROVE  Passed(m)'
    <3>1. forwarded[s] \in Nat /\ \A r \in Syncer : forwarded'[r] >= forwarded[r]
      BY <1>1, <1>5 DEF SyncersTyped
    <3>2. CASE ForwardsOf(m) # {}
      <4>1. CASE 2 * m <= cursor
        BY <1>3, <4>1 DEF Passed
      <4>2. CASE forwarded[s] > 0 /\ m \in WholeLines(start[s], end[s])
        <5>1. forwarded'[s] > 0
          BY <1>5, <3>1, <4>2
        <5> QED  BY <1>3, <4>2, <5>1 DEF Passed
      <4>3. m \in Lines \ failed
        BY <1>7
      <4> QED  BY <2>1, <3>2, <4>1, <4>2, <4>3 DEF Passed
    <3>3. CASE ForwardsOf(m) = {}
      <4>1. m = n /\ forwarded'[s] = forwarded[s] + 1
        BY <1>7, <2>5, <3>3
      <4>2. forwarded'[s] > 0 /\ n \in WholeLines(start[s], end[s])
        BY <2>1, <3>1, <4>1
      <4> QED  BY <1>3, <4>1, <4>2 DEF Passed
    <3> QED  BY <3>2, <3>3
  <2> QED  BY <1>1, <1>3, <2>2, <2>3, <2>4, <2>5 DEF OneSyncerForwards
<1> QED  BY <1>6, <1>9, <1>10, <1>11 DEF SyncersInv

LEMMA EmptyCursorPreserves ==
    ASSUME SyncersInv, NEW s \in Syncer, EmptyCursor(s)
    PROVE  SyncersInv'
<1>1. SyncersTyped /\ CursorPassesOnlyHandled /\ SyncersHandle /\ OneSyncerForwards
  BY DEF SyncersInv
<1>2. /\ batch[s] = {} /\ spc[s] = "emit" /\ spc' = [spc EXCEPT ![s] = "write"] /\ cursor' = 0
      /\ UNCHANGED <<events, halves, failed, torn, start, end, batch, forwarded, overlapped>>
  BY DEF EmptyCursor, GotoS
<1>3. spc'[s] = "write" /\ \A r \in Syncer \ {s} : spc'[r] = spc[r]
  BY <1>1, <1>2 DEF SyncersTyped
<1>4. SyncersTyped'
  BY <1>1, <1>2 DEF SyncersTyped
<1>5. \A n : Handled(n)' = Handled(n) /\ ForwardsOf(n)' = ForwardsOf(n)
  BY <1>2 DEF Handled, ForwardsOf
<1>6. CursorPassesOnlyHandled'
  <2>1. \A n \in Lines : ~(2 * n <= 0)
    BY LinesAreNat
  <2> QED  BY <1>2, <2>1 DEF CursorPassesOnlyHandled
<1>7. SyncersHandle'
  BY <1>1, <1>2, <1>3, <1>5 DEF SyncersHandle, SyncerHandles
<1>8. OneSyncerForwards'
  <2> SUFFICES ASSUME ~overlapped
               PROVE  OneSyncerForwards'
    BY <1>2 DEF OneSyncerForwards
  <2>1. /\ \A r \in Syncer \ {s} : spc[r] = "idle"
        /\ cursor = start[s] /\ start[s] <= end[s]
        /\ \A n \in Lines \ failed : ForwardsOf(n) # {} => Passed(n)
    BY <1>1, <1>2 DEF OneSyncerForwards, SyncerForwards
  <2>2. ASSUME NEW n \in Lines \ failed, ForwardsOf(n) # {}
        PROVE  2 * n <= end[s]
    <3>1. n \in Nat /\ start[s] \in Nat /\ end[s] \in Nat
      BY <1>1, LinesAreNat DEF SyncersTyped
    <3>2. 2 * n <= start[s] \/ n \in WholeLines(start[s], end[s])
      BY <2>1, <2>2 DEF Passed
    <3> QED  BY <2>1, <3>1, <3>2 DEF WholeLines
  <2>3. SyncerForwards(s)'
    BY <1>2, <1>3, <1>5, <2>2 DEF SyncerForwards
  <2>4. \A r \in Syncer \ {s} : SyncerForwards(r)'
    BY <1>3, <2>1 DEF SyncerForwards
  <2> QED  BY <1>1, <1>2, <1>3, <1>5, <2>1, <2>3, <2>4 DEF OneSyncerForwards
<1> QED  BY <1>4, <1>6, <1>7, <1>8 DEF SyncersInv

\* A syncer that is over, with the cursor where everything is handled.
LEMMA SyncerEnds ==
    ASSUME SyncersInv, NEW s \in Syncer, spc[s] # "idle",
           spc' = [spc EXCEPT ![s] = "idle"], Reset(s),
           cursor' \in 0 .. halves,
           \A n \in Lines : 2 * n <= cursor' => Handled(n),
           overlapped' \in BOOLEAN,
           ~overlapped' =>
              ~overlapped /\ \A n \in Lines \ failed : ForwardsOf(n) # {} => 2 * n <= cursor',
           UNCHANGED <<events, halves, failed, torn>>
    PROVE  SyncersInv'
<1>1. SyncersTyped /\ CursorPassesOnlyHandled /\ SyncersHandle /\ OneSyncerForwards
  BY DEF SyncersInv
<1>2. /\ start' = [start EXCEPT ![s] = 0] /\ end' = [end EXCEPT ![s] = 0]
      /\ batch' = [batch EXCEPT ![s] = {}] /\ forwarded' = [forwarded EXCEPT ![s] = 0]
  BY DEF Reset
<1>3. /\ spc'[s] = "idle"
      /\ \A r \in Syncer \ {s} : /\ spc'[r] = spc[r] /\ start'[r] = start[r] /\ end'[r] = end[r]
                                 /\ batch'[r] = batch[r] /\ forwarded'[r] = forwarded[r]
  BY <1>1, <1>2 DEF SyncersTyped
<1>4. SyncersTyped'
  <2>1. 0 \in 0 .. halves
    BY <1>1 DEF SyncersTyped
  <2>2. /\ start' \in [Syncer -> 0 .. halves] /\ end' \in [Syncer -> 0 .. halves]
        /\ batch' \in [Syncer -> SUBSET Lines] /\ forwarded' \in [Syncer -> Nat]
        /\ spc' \in [Syncer -> {"idle", "read", "emit", "write"}]
    BY <1>1, <1>2, <2>1 DEF SyncersTyped
  <2>3. \A r \in Syncer : spc'[r] \in {"idle", "read"} => forwarded'[r] = 0
    BY <1>1, <1>2, <1>3 DEF SyncersTyped
  <2> QED  BY <1>1, <2>2, <2>3 DEF SyncersTyped
<1>5. \A n : Handled(n)' = Handled(n) /\ ForwardsOf(n)' = ForwardsOf(n)
  BY DEF Handled, ForwardsOf
<1>6. CursorPassesOnlyHandled'
  BY <1>5 DEF CursorPassesOnlyHandled, Handled
<1>7. SyncersHandle'
  BY <1>1, <1>3, <1>5 DEF SyncersHandle, SyncerHandles
<1>8. OneSyncerForwards'
  <2> SUFFICES ASSUME ~overlapped'
               PROVE  OneSyncerForwards'
    BY DEF OneSyncerForwards
  <2>1. ~overlapped /\ \A n \in Lines \ failed : ForwardsOf(n) # {} => 2 * n <= cursor'
    OBVIOUS
  <2>2. \A r \in Syncer : spc'[r] = "idle"
    BY <1>1, <1>3, <2>1 DEF OneSyncerForwards
  <2>3. \A n \in Lines \ failed : \A e, f \in ForwardsOf(n)' : e = f
    BY <1>1, <1>5, <2>1 DEF OneSyncerForwards
  <2>4. \A n \in Lines \ failed : ForwardsOf(n)' # {} => Passed(n)'
    BY <1>5, <2>1 DEF Passed
  <2>5. \A r \in Syncer : SyncerForwards(r)'
    BY <2>2 DEF SyncerForwards
  <2> QED  BY <2>2, <2>3, <2>4, <2>5 DEF OneSyncerForwards
<1> QED  BY <1>4, <1>6, <1>7, <1>8 DEF SyncersInv

LEMMA KeepCursorPreserves ==
    ASSUME SyncersInv, NEW s \in Syncer, KeepCursor(s)
    PROVE  SyncersInv'
<1>1. SyncersTyped /\ CursorPassesOnlyHandled /\ OneSyncerForwards
  BY DEF SyncersInv
<1>2. /\ forwarded[s] = 0 /\ spc[s] = "emit" /\ spc' = [spc EXCEPT ![s] = "idle"] /\ Reset(s)
      /\ UNCHANGED <<events, halves, cursor, failed, torn, overlapped>>
  BY DEF KeepCursor, GotoS
<1>3. \A n \in Lines : 2 * n <= cursor' => Handled(n)
  BY <1>1, <1>2 DEF CursorPassesOnlyHandled, Handled
<1>4. ~overlapped => \A n \in Lines \ failed : ForwardsOf(n) # {} => 2 * n <= cursor'
  <2> SUFFICES ASSUME ~overlapped, NEW n \in Lines \ failed, ForwardsOf(n) # {}
               PROVE  2 * n <= cursor'
    OBVIOUS
  <2>1. Passed(n) /\ \A r \in Syncer \ {s} : spc[r] = "idle"
    BY <1>1, <1>2 DEF OneSyncerForwards
  <2> QED  BY <1>2, <2>1 DEF Passed
<1> QED  BY <1>1, <1>2, <1>3, <1>4, SyncerEnds DEF SyncersTyped

LEMMA WriteCursorPreserves ==
    ASSUME SyncersInv, NEW s \in Syncer, WriteCursor(s)
    PROVE  SyncersInv'
<1>1. SyncersTyped /\ SyncersHandle /\ OneSyncerForwards
  BY DEF SyncersInv
<1>2. /\ spc[s] = "write" /\ spc' = [spc EXCEPT ![s] = "idle"] /\ Reset(s) /\ cursor' = end[s]
      /\ UNCHANGED <<events, halves, failed, torn, overlapped>>
  BY DEF WriteCursor, GotoS
<1>3. \A n \in Lines : 2 * n <= cursor' => Handled(n)
  BY <1>1, <1>2 DEF SyncersHandle, SyncerHandles
<1>4. ~overlapped => \A n \in Lines \ failed : ForwardsOf(n) # {} => 2 * n <= cursor'
  BY <1>1, <1>2 DEF OneSyncerForwards, SyncerForwards
<1>5. cursor' \in 0 .. halves /\ overlapped' \in BOOLEAN
  BY <1>1, <1>2 DEF SyncersTyped
<1> QED  BY <1>2, <1>3, <1>4, <1>5, SyncerEnds

LEMMA EndSyncerPreserves ==
    ASSUME SyncersInv, NEW s \in Syncer, spc[s] # "idle", EndSyncer(s)
    PROVE  SyncersInv'
<1>1. SyncersTyped /\ CursorPassesOnlyHandled
  BY DEF SyncersInv
<1>2. /\ spc' = [spc EXCEPT ![s] = "idle"] /\ Reset(s) /\ overlapped' = TRUE
      /\ UNCHANGED <<events, halves, cursor, failed, torn>>
  BY DEF EndSyncer
<1>3. \A n \in Lines : 2 * n <= cursor' => Handled(n)
  BY <1>1, <1>2 DEF CursorPassesOnlyHandled, Handled
<1> QED  BY <1>1, <1>2, <1>3, SyncerEnds DEF SyncersTyped

LEMMA SyncerStepPreserves ==
    ASSUME SyncersInv, IsSeq(events), NEW s \in Syncer, SyncerStep(s)
    PROVE  SyncersInv'
BY ReadCursorPreserves, ReadReceiptsPreserves, EmitPreserves, KeepCursorPreserves,
   EmptyCursorPreserves, WriteCursorPreserves, EndSyncerPreserves
DEF SyncerStep, Abort, KillSyncer

-----------------------------------------------------------------------------
(* Every step.                                                             *)

LEMMA InitInv == Init => IInv
<1> SUFFICES ASSUME Init
             PROVE  IInv
  OBVIOUS
<1>1. CandidatesInv
  <2>1. /\ memory = <<>> /\ events = <<>>
        /\ tpc = [t \in Tool |-> "idle"] /\ choice = [t \in Tool |-> NoChoice]
        /\ page = [shown |-> {}, at |-> 0] /\ kills = 0
    BY DEF Init, MemoryInit
  <2>2. CandidatesTyped
    <3>1. NoChoice \in ChoiceType
      BY DEF NoChoice, ChoiceType
    <3>2. IsSeq(<<>>) /\ Len(<<>>) = 0
      BY DEF IsSeq
    <3> QED  BY <2>1, <3>1, <3>2, RecordBounds DEF CandidatesTyped
  <2>3. DOMAIN memory = {} /\ DOMAIN events = {} /\ Len(memory) = 0
    BY <2>1
  <2>4. RecordsAreSound /\ SecondDecisionNeedsAStaleView
    BY <2>3 DEF RecordsAreSound, SecondDecisionNeedsAStaleView
  <2>5. ChoicesAreSound /\ PageIsSound
    BY <2>1, <2>3 DEF ChoicesAreSound, ChoiceIsSound, PageIsSound
  <2>6. Told = {} /\ UnderWay = {} /\ Untold = {}
    BY <2>1, <2>3 DEF Told, UnderWay, Untold, WithMemoryId
  <2>7. ToldOnce
    BY <2>6 DEF ToldOnce
  <2>8. UntoldAreCounted
    BY <2>1, <2>6, FS_EmptySet DEF UntoldAreCounted
  <2> QED  BY <2>2, <2>4, <2>5, <2>7, <2>8 DEF CandidatesInv
<1>2. BridgesInv
  <2>1. /\ deployed \in Deployments /\ summaries = 0 /\ mesh = <<>> /\ syncDb = EmptyDb
        /\ bpc = [b \in Bridge |-> "idle"] /\ local = [b \in Bridge |-> EmptyDb]
        /\ todo = [b \in Bridge |-> <<>>] /\ snapshot = [b \in Bridge |-> <<>>]
        /\ pushes = [x \in Source |-> 0] /\ pulls = [k \in Notes |-> 0]
        /\ disturbed = FALSE
    BY DEF Init, MeshInit
  <2>2. EmptyDb \in Db /\ EmptyDb.pushed = {} /\ EmptyDb.pulled = {}
    BY DEF EmptyDb, Db
  <2>3. BridgesTyped
    BY <2>1, <2>2, SummariesAssumption DEF BridgesTyped
  <2>4. SyncedWasPassedOn /\ HeldWasPassedOn
    BY <2>1, <2>2 DEF SyncedWasPassedOn, HeldWasPassedOn
  <2>5. PassedOn = EmptyDb
    <3>1. {x \in Source : pushes[x] = 1} = {}
      BY <2>1
    <3>2. {k \in Notes : pulls[k] = 1} = {}
      BY <2>1
    <3> QED  BY <3>1, <3>2 DEF PassedOn, EmptyDb
  <2>6. OneBridgeHolds
    BY <2>1, <2>5 DEF OneBridgeHolds
  <2> QED  BY <2>3, <2>4, <2>6 DEF BridgesInv
<1>3. SyncersInv
  <2>1. /\ events = <<>> /\ halves = 0 /\ cursor = 0
        /\ spc = [s \in Syncer |-> "idle"] /\ start = [s \in Syncer |-> 0]
        /\ end = [s \in Syncer |-> 0] /\ batch = [s \in Syncer |-> {}]
        /\ forwarded = [s \in Syncer |-> 0] /\ failed = {} /\ torn = {}
        /\ overlapped = FALSE
    BY DEF Init, MemoryInit, BlockerInit
  <2>2. SyncersTyped
    <3>1. halves \in Nat /\ cursor \in 0 .. halves
      BY <2>1
    <3>2. spc \in [Syncer -> {"idle", "read", "emit", "write"}]
      BY <2>1
    <3>3. start \in [Syncer -> 0 .. halves] /\ end \in [Syncer -> 0 .. halves]
      <4>1. 0 \in 0 .. halves
        BY <2>1
      <4> QED  BY <2>1, <4>1
    <3>4. batch \in [Syncer -> SUBSET Lines]
      BY <2>1
    <3>5. forwarded \in [Syncer -> Nat] /\ \A s \in Syncer : forwarded[s] = 0
      BY <2>1
    <3>6. overlapped \in BOOLEAN
      BY <2>1, Zenon
    <3> QED  BY <3>1, <3>2, <3>3, <3>4, <3>5, <3>6 DEF SyncersTyped
  <2>3. \A n \in Lines : ForwardsOf(n) = {} /\ ~(2 * n <= cursor)
    BY <2>1, LinesAreNat DEF ForwardsOf
  <2>4. CursorPassesOnlyHandled /\ SyncersHandle
    BY <2>1, <2>3 DEF CursorPassesOnlyHandled, SyncersHandle, SyncerHandles
  <2>5. OneSyncerForwards
    BY <2>1, <2>3 DEF OneSyncerForwards, SyncerForwards
  <2> QED  BY <2>2, <2>4, <2>5 DEF SyncersInv
<1> QED  BY <1>1, <1>2, <1>3 DEF IInv

LEMMA ToolStepPreserves ==
    ASSUME CandidatesInv, NEW t \in Tool, ToolStep(t)
    PROVE  CandidatesInv'
BY CreatePreserves, ChoosePreserves, LogDecisionPreserves, LogEventPreserves, KillToolPreserves
DEF ToolStep

\* The tools and the shell write no event of the syncer.
LEMMA ToolEvents ==
    ASSUME CandidatesInv,
           \/ \E t \in Tool : ToolStep(t)
           \/ ShowPage
           \/ \E e \in Emissions : EmitEvent(e.type, e.decision)
    PROVE  \A n \in Lines : ForwardsOf(n)' = ForwardsOf(n)
<1>1. CandidatesTyped /\ IsSeq(events)
  BY DEF CandidatesInv, CandidatesTyped
<1>2. ASSUME NEW t \in Tool, LogEvent(t)
      PROVE  \E e : /\ events' = Append(events, e)
                    /\ \A n \in Lines : e # Forward(n)
  <2>1. events' = Append(events, EventFor(choice[t].of))
    BY <1>2 DEF LogEvent, AppendEvent
  <2>2. \A n : EventFor(choice[t].of) # Forward(n)
    BY DEF EventFor, Event, Forward
  <2> QED  BY <2>1, <2>2
<1>3. ASSUME NEW type, NEW decision, EmitEvent(type, decision)
      PROVE  \E e : /\ events' = Append(events, e)
                    /\ \A n \in Lines : e # Forward(n)
  <2>1. events' = Append(events, Event(type, 0, decision))
    BY <1>3 DEF EmitEvent, AppendEvent
  <2>2. \A n \in Lines : Event(type, 0, decision) # Forward(n)
    BY LinesAreNat DEF Event, Forward
  <2> QED  BY <2>1, <2>2
<1>4. \/ events' = events
      \/ \E t \in Tool : LogEvent(t)
      \/ \E e \in Emissions : EmitEvent(e.type, e.decision)
  BY DEF ToolStep, Create, ChooseLatest, ChooseById, ChooseOnPage, Choose, LogDecision,
         KillTool, ShowPage
<1> QED  BY <1>1, <1>2, <1>3, <1>4, ForwardsStay

LEMMA NextPreserves == IInv /\ [Next]_vars => IInv'
<1> SUFFICES ASSUME IInv, [Next]_vars
             PROVE  IInv'
  OBVIOUS
<1>1. /\ CandidatesInv /\ BridgesInv /\ SyncersInv
      /\ CandidatesTyped /\ IsSeq(events) /\ halves \in Nat /\ halves <= halves
  BY DEF IInv, CandidatesInv, CandidatesTyped, SyncersInv, SyncersTyped
<1>2. UNCHANGED <<events, blockerVars>> => SyncersInv'
  <2> SUFFICES ASSUME UNCHANGED <<events, blockerVars>>
               PROVE  SyncersInv'
    OBVIOUS
  <2>1. \A n \in Lines : ForwardsOf(n)' = ForwardsOf(n)
    BY DEF ForwardsOf
  <2> QED  BY <1>1, <2>1, SyncersStay DEF blockerVars
<1>3. CASE MemoryActor
  <2>1. /\ \/ \E t \in Tool : ToolStep(t)
           \/ ShowPage
           \/ \E e \in Emissions : EmitEvent(e.type, e.decision)
        /\ UNCHANGED <<deployed, meshVars, blockerVars>>
    BY <1>3 DEF MemoryActor
  <2>2. CandidatesInv'
    <3>1. ASSUME NEW e \in Emissions, EmitEvent(e.type, e.decision)
          PROVE  CandidatesInv'
      <4> DEFINE written == Event(e.type, 0, e.decision)
      <4>1. AppendEvent(written) /\ written.type \notin MemoryEvents
        BY <3>1, KindsAssumption DEF EmitEvent, Event
      <4>2. UNCHANGED <<memory, toolVars, kills>>
        BY <3>1 DEF EmitEvent
      <4> QED  BY <1>1, <4>1, <4>2, OthersPreserve
    <3> QED  BY <1>1, <2>1, <3>1, ToolStepPreserves, ShowPagePreserves
  <2>3. BridgesInv'
    BY <1>1, <2>1, BridgesStay
  <2>4. SyncersInv'
    <3>1. \A n \in Lines : ForwardsOf(n)' = ForwardsOf(n)
      BY <1>1, <2>1, ToolEvents
    <3> QED  BY <1>1, <2>1, <3>1, SyncersStay DEF blockerVars
  <2> QED  BY <2>2, <2>3, <2>4 DEF IInv
<1>4. ASSUME NEW b \in Bridge, BridgeStep(b)
      PROVE  IInv'
  <2>1. Sync(b) /\ UNCHANGED <<deployed, events, toolVars, blockerVars>>
    BY <1>4 DEF BridgeStep
  <2>2. CandidatesInv'
    <3>1. /\ kills' = kills
          /\ \/ memory' = memory
             \/ memory' = Append(memory, Pulled)
      BY <2>1 DEF Sync, BeginSync, ReadEvents, ReadSummaries, PushNext, EmptyMesh, Trim, EndPush,
                  ReadMesh, Pulled, SkipLine, PullNext, EndPull, PushActiveContext, EmptySyncDb, SaveSyncDb,
                  AppendMemory
    <3> QED  BY <1>1, <2>1, <3>1, OthersPreserve
  <2>3. BridgesInv'
    BY <1>1, <2>1, SyncPreserves
  <2> QED  BY <1>2, <2>1, <2>2, <2>3 DEF IInv
<1>5. CASE MeshActor
  <2>1. /\ \/ \E b \in Bridge : KillBridge(b)
           \/ AddSummary
           \/ \E k \in deployed.notes, kind \in Kinds : AddNote(k, kind)
        /\ UNCHANGED <<deployed, events, toolVars, blockerVars>>
    BY <1>5 DEF MeshActor
  <2>2. CandidatesInv'
    <3>1. memory' = memory /\ (kills' = kills \/ kills' = kills + 1)
      BY <2>1 DEF KillBridge, AddSummary, AddNote
    <3> QED  BY <1>1, <2>1, <3>1, OthersPreserve
  <2>3. BridgesInv'
    BY <1>1, <2>1, KillBridgePreserves, MeshGrowsPreserves
  <2> QED  BY <1>2, <2>1, <2>2, <2>3 DEF IInv
<1>6. CASE BlockerActor
  <2>1. /\ (\E s \in Syncer : SyncerStep(s)) \/ AppendReceipt
        /\ UNCHANGED <<deployed, memory, toolVars, meshVars>>
    BY <1>6 DEF BlockerActor
  <2>2. CandidatesInv'
    <3>1. /\ kills' = kills \/ kills' = kills + 1
          /\ \/ events' = events
             \/ \E n : AppendEvent(Forward(n))
      BY <2>1 DEF SyncerStep, ReadCursor, ReadReceipts, Emit, KeepCursor, EmptyCursor,
                  WriteCursor, EndSyncer, Abort, KillSyncer, AppendReceipt
    <3>2. \A n : Forward(n).type \notin MemoryEvents
      BY DEF Event, Forward, MemoryEvents
    <3> QED  BY <1>1, <2>1, <3>1, <3>2, OthersPreserve
  <2>3. BridgesInv'
    BY <1>1, <2>1, BridgesStay
  <2>4. SyncersInv'
    BY <1>1, <2>1, SyncerStepPreserves, AppendReceiptPreserves
  <2> QED  BY <2>2, <2>3, <2>4 DEF IInv
<1>7. CASE UNCHANGED vars
  <2>1. /\ UNCHANGED <<memory, events, kills, toolVars>>
        /\ UNCHANGED <<deployed, meshVars>> /\ UNCHANGED <<events, blockerVars>>
    BY <1>7 DEF vars
  <2>2. CandidatesInv'
    BY <1>1, <2>1, OthersPreserve
  <2>3. BridgesInv'
    BY <1>1, <2>1, BridgesStay
  <2> QED  BY <1>2, <2>1, <2>2, <2>3 DEF IInv
<1> QED  BY <1>3, <1>4, <1>5, <1>6, <1>7 DEF Next

LEMMA InvariantHolds == Spec => []IInv
<1> QED  BY InitInv, NextPreserves, PTL DEF Spec

-----------------------------------------------------------------------------
(* What the runs check, for every value of the constants.                  *)

\* Each file and each program's state has its shape: a decision names an
\* earlier record, a cursor is inside the receipts file, and a bridge is
\* going to keep nothing of the mesh or its last MeshLimit lines.
THEOREM Typed == Spec => []TypeOK
<1>1. IInv => TypeOK
  <2> SUFFICES ASSUME IInv
               PROVE  TypeOK
    OBVIOUS
  <2>1. /\ CandidatesTyped /\ RecordsAreSound /\ ChoicesAreSound /\ PageIsSound
        /\ BridgesTyped /\ SyncersTyped
    BY DEF IInv, CandidatesInv, BridgesInv, SyncersInv
  <2>2. deployed \in Deployments /\ Len(events) <= MaxEvents
    BY <2>1 DEF BridgesTyped, CandidatesTyped
  <2>3. ASSUME NEW i \in DOMAIN memory
        PROVE  /\ memory[i].state \in {"candidate", "committed", "rejected", "proposed"}
               /\ memory[i].of \in 0 .. i - 1
               /\ memory[i].seen \in 0 .. i - 1
    BY <2>1 DEF RecordsAreSound, Consistent
  <2>4. \A t \in Tool : tpc[t] # "idle" => choice[t].of \in DOMAIN memory
    BY <2>1 DEF ChoicesAreSound, ChoiceIsSound
  <2>5. page.shown \subseteq 1 .. page.at /\ page.at \in 0 .. Len(memory)
    BY <2>1 DEF PageIsSound
  <2>6. \A b \in Bridge : /\ local[b].pushed \subseteq Source
                          /\ local[b].pulled \subseteq Notes
                          /\ Len(snapshot[b]) \in {0, MeshLimit}
    BY <2>1 DEF BridgesTyped, Db
  <2>7. cursor \in 0 .. halves /\ \A s \in Syncer : start[s] <= halves /\ end[s] <= halves
    BY <2>1 DEF SyncersTyped
  <2> QED  BY <2>2, <2>3, <2>4, <2>5, <2>6, <2>7 DEF TypeOK
<1> QED  BY InvariantHolds, <1>1, PTL

\* bearbrowser-verify-memory.py accepts whatever the memory tool writes for an
\* actor with a type and an id, a decision on a decision included; it rejects
\* every record of the mesh bridge, and what the tool has let through although
\* the actor's type or id is empty.
THEOREM RejectedHaveACause == Spec => []VerifierRejectsMeshOrNoActor
<1>1. IInv => VerifierRejectsMeshOrNoActor
  <2> SUFFICES ASSUME RecordsAreSound, NEW i \in DOMAIN memory
               PROVE  ~Verify(memory[i]) <=>
                          memory[i].state = "proposed" \/ memory[i].actor = "empty"
    BY DEF IInv, CandidatesInv, VerifierRejectsMeshOrNoActor
  <2>1. Consistent(memory[i]) <=> memory[i].state # "proposed"
    BY DEF RecordsAreSound, Consistent
  <2> QED  BY <2>1 DEF Verify
<1> QED  BY InvariantHolds, <1>1, PTL

\* resolve --latest-candidate and the buttons of the sidecar's page decide
\* candidates; one that is decided already only when the log was read, or the
\* page rendered, before that decision.
THEOREM SecondDecisionsAreStale == Spec => []SecondDecisionNeedsAStaleView
<1>1. IInv => SecondDecisionNeedsAStaleView
  BY DEF IInv, CandidatesInv
<1> QED  BY InvariantHolds, <1>1, PTL

\* The event that create and resolve append tells the record they have
\* appended, whatever runs between the two, and once; no more records are
\* without an event than tools are between the two or were killed there.
THEOREM EventsTell == Spec => []EventsTellTheRecords
<1>1. IInv => EventsTellTheRecords
  <2> SUFFICES ASSUME ToldOnce, UntoldAreCounted
               PROVE  EventsTellTheRecords
    BY DEF IInv, CandidatesInv
  <2>1. \A e \in Told : /\ events[e].of \in DOMAIN memory
                        /\ events[e] = EventFor(events[e].of)
                        /\ \A f \in Told : events[f].of = events[e].of => f = e
    BY DEF ToldOnce
  <2>2. Cardinality(Untold) <= Cardinality(UnderWay) + kills
    BY DEF UntoldAreCounted
  <2> QED  BY <2>1, <2>2 DEF EventsTellTheRecords, Told, Untold, UnderWay
<1> QED  BY InvariantHolds, <1>1, PTL

\* A key is in the bridge's database only when its line was written to the
\* other side: a sync that is killed, or overlaps another, passes over nothing.
THEOREM NothingIsPassedOver == Spec => []SyncedWasPassedOn
<1>1. IInv => SyncedWasPassedOn
  BY DEF IInv, BridgesInv
<1> QED  BY InvariantHolds, <1>1, PTL

\* As long as no bridge is killed and no two overlap, each line is passed on
\* at most once and the database says between two syncs which ones were.
THEOREM SyncedOnce == Spec => []SyncedOnceUndisturbed
<1>1. IInv => SyncedOnceUndisturbed
  <2> SUFFICES ASSUME OneBridgeHolds, ~disturbed
               PROVE  /\ \A x \in Source : pushes[x] <= 1
                      /\ \A k \in Notes : pulls[k] <= 1
                      /\ (\A b \in Bridge : bpc[b] = "idle") =>
                            /\ syncDb.pushed = {x \in Source : pushes[x] = 1}
                            /\ syncDb.pulled = {k \in Notes : pulls[k] = 1}
    BY DEF IInv, BridgesInv, SyncedOnceUndisturbed
  <2> QED  BY DEF OneBridgeHolds, PassedOn
<1> QED  BY InvariantHolds, <1>1, PTL

\* The cursor of the BearBlocker syncer is never past a line that it has
\* neither emitted nor failed to emit nor read in part.
THEOREM CursorPassesHandled == Spec => []CursorPassesOnlyHandled
<1>1. IInv => CursorPassesOnlyHandled
  BY DEF IInv, SyncersInv
<1> QED  BY InvariantHolds, <1>1, PTL

\* As long as no syncer ends before its time and no two overlap, a line for
\* which no emit has failed is forwarded at most once, whichever emits of other
\* lines fail and however the receipts file grows.
THEOREM ForwardedOnce == Spec => []ForwardedOnceUndisturbed
<1>1. IInv => ForwardedOnceUndisturbed
  <2> SUFFICES ASSUME OneSyncerForwards, ~overlapped, NEW n \in Lines \ failed
               PROVE  Cardinality(ForwardsOf(n)) <= 1
    BY DEF IInv, SyncersInv, ForwardedOnceUndisturbed
  <2>1. \A e, f \in ForwardsOf(n) : e = f
    BY DEF OneSyncerForwards
  <2>2. CASE ForwardsOf(n) = {}
    BY <2>2, FS_EmptySet
  <2>3. CASE ForwardsOf(n) # {}
    <3>1. PICK e : e \in ForwardsOf(n)
      BY <2>3
    <3>2. ForwardsOf(n) = {e}
      BY <2>1, <3>1
    <3>3. Cardinality({e}) = 1
      BY FS_Singleton
    <3> QED  BY <3>2, <3>3
  <2> QED  BY <2>2, <2>3
<1> QED  BY InvariantHolds, <1>1, PTL

(* The refinement: a step that appends a record maps to the ledger's step   *)
(* for it, every other step leaves the ledger alone.                       *)

Pending == PendingMemory(memory)
Settled == Resolved(memory) \ {0}
OnlyRecorded == DOMAIN memory \ (PendingMemory(memory) \cup Resolved(memory))

LEMMA AppendRefines ==
    ASSUME CandidatesInv, Len(memory) < MaxRecords,
           NEW r, memory' = Append(memory, r), r.of \in 0 .. Len(memory),
           r.of # 0 => r.state # "candidate"
    PROVE  Ledger!Next
<1> DEFINE n == Len(memory) + 1
           D == DOMAIN memory
<1>1. /\ D = 1 .. Len(memory) /\ Len(memory) \in Nat
      /\ DOMAIN memory' = D \cup {n} /\ n \notin D /\ 0 \notin D
      /\ \A i \in D : memory'[i] = memory[i]
      /\ memory'[n] = r
  <2>1. CandidatesTyped
    BY DEF CandidatesInv
  <2> QED  BY <2>1, MemoryGrows, MemoryIsSeq
<1>2. Pending \subseteq D
  BY DEF Pending, PendingMemory
<1>3. Settled \subseteq D
  <2>1. \A i \in D : memory[i].of \in 0 .. Len(memory)
    BY <1>1 DEF CandidatesInv, RecordsAreSound
  <2> QED  BY <1>1, <2>1 DEF Settled, Resolved
<1>4. n \in 1 .. MaxRecords /\ D \subseteq 1 .. MaxRecords
  BY <1>1, RecordBounds
<1>5. Settled' = Settled \cup ({r.of} \ {0})
  BY <1>1 DEF Settled, Resolved
<1>6. Pending = {i \in D : memory[i].state = "candidate"} \ Settled
  BY <1>1 DEF Pending, PendingMemory, Settled
<1>7. Pending' = {i \in D \cup {n} : memory'[i].state = "candidate"} \ Settled'
  BY <1>1 DEF Pending, PendingMemory, Settled
<1>8. OnlyRecorded = D \ (Pending \cup Settled)
  BY <1>1 DEF OnlyRecorded, Pending, Settled
<1>9. OnlyRecorded' = (D \cup {n}) \ (Pending' \cup Settled')
  BY <1>1 DEF OnlyRecorded, Pending, Settled
<1>10. /\ Ledger!Hold(n) <=> /\ n \notin Pending \cup Settled \cup OnlyRecorded
                             /\ Pending' = Pending \cup {n}
                             /\ Settled' = Settled /\ OnlyRecorded' = OnlyRecorded
       /\ Ledger!Record(n) <=> /\ n \notin Pending \cup Settled \cup OnlyRecorded
                               /\ OnlyRecorded' = OnlyRecorded \cup {n}
                               /\ Pending' = Pending /\ Settled' = Settled
       /\ Ledger!Settle(r.of, n) <=>
              /\ r.of \in Pending \cup Settled \cup OnlyRecorded
              /\ n \notin Pending \cup Settled \cup OnlyRecorded
              /\ Pending' = Pending \ {r.of}
              /\ Settled' = Settled \cup {r.of}
              /\ OnlyRecorded' = (OnlyRecorded \ {r.of}) \cup {n}
  BY DEF Ledger!Hold, Ledger!Record, Ledger!Settle, Ledger!Known, Pending, Settled, OnlyRecorded
<1> HIDE DEF n, D
<1>11. CASE r.of = 0
  <2>1. Settled' = Settled
    BY <1>5, <1>11
  <2>2. CASE r.state = "candidate"
    <3>1. Pending' = Pending \cup {n}
      BY <1>1, <1>2, <1>3, <1>6, <1>7, <2>1, <2>2
    <3>2. Ledger!Hold(n)
      BY <1>1, <1>2, <1>3, <1>8, <1>9, <1>10, <2>1, <3>1
    <3> QED  BY <1>4, <3>2 DEF Ledger!Next
  <2>3. CASE r.state # "candidate"
    <3>1. Pending' = Pending
      BY <1>1, <1>2, <1>3, <1>6, <1>7, <2>1, <2>3
    <3>2. Ledger!Record(n)
      BY <1>1, <1>2, <1>3, <1>8, <1>9, <1>10, <2>1, <3>1
    <3> QED  BY <1>4, <3>2 DEF Ledger!Next
  <2> QED  BY <2>2, <2>3
<1>12. CASE r.of # 0
  <2>1. r.of \in D /\ r.state # "candidate"
    BY <1>1, <1>12
  <2>2. Settled' = Settled \cup {r.of}
    BY <1>5, <1>12
  <2>3. Pending' = Pending \ {r.of}
    BY <1>1, <1>2, <1>3, <1>6, <1>7, <2>1, <2>2
  <2>4. Ledger!Settle(r.of, n)
    BY <1>1, <1>2, <1>3, <1>8, <1>9, <1>10, <2>1, <2>2, <2>3
  <2> QED  BY <1>4, <2>1, <2>4 DEF Ledger!Next
<1> QED  BY <1>11, <1>12

LEMMA StepRefines == IInv /\ [Next]_vars => [Ledger!Next]_Ledger!ledgerVars
<1> SUFFICES ASSUME IInv, [Next]_vars
             PROVE  Ledger!Next \/ UNCHANGED Ledger!ledgerVars
  OBVIOUS
<1>1. CandidatesInv /\ CandidatesTyped /\ Len(memory) \in Nat
  BY MemoryIsSeq DEF IInv, CandidatesInv
<1>2. ASSUME NEW t \in Tool, NEW text, Create(t, text)
      PROVE  Ledger!Next
  BY <1>1, <1>2, AppendRefines DEF Create, AppendMemory, BuildMemory, Record
<1>3. ASSUME NEW t \in Tool, LogDecision(t)
      PROVE  Ledger!Next
  <2> DEFINE r == ResolveMemory(choice[t], Actor[t])
  <2>1. /\ choice[t].of \in DOMAIN memory
        /\ choice[t].state \in {"committed", "rejected"}
    BY <1>1, <1>3 DEF LogDecision, CandidatesInv, ChoicesAreSound, ChoiceIsSound
  <2>2. r.of = choice[t].of /\ r.state = choice[t].state
    BY DEF ResolveMemory, Record
  <2>3. r.of \in 0 .. Len(memory) /\ r.state # "candidate"
    BY <1>1, <2>1, <2>2, MemoryIsSeq
  <2>4. memory' = Append(memory, r) /\ Len(memory) < MaxRecords
    BY <1>3 DEF LogDecision, AppendMemory
  <2> HIDE DEF r
  <2> QED  BY <1>1, <2>3, <2>4, AppendRefines
<1>4. ASSUME NEW b \in Bridge, PullNext(b)
      PROVE  Ledger!Next
  BY <1>1, <1>4, AppendRefines DEF PullNext, AppendMemory, Record
<1>5. ASSUME memory' = memory
      PROVE  UNCHANGED Ledger!ledgerVars
  BY <1>5 DEF Ledger!ledgerVars
<1>6. \/ \E t \in Tool : \E text \in Sensitive : Create(t, text)
      \/ \E t \in Tool : LogDecision(t)
      \/ \E b \in Bridge : PullNext(b)
      \/ memory' = memory
  <2>1. CASE MemoryActor
    BY <2>1 DEF MemoryActor, ToolStep, ChooseLatest, ChooseById, ChooseOnPage, Choose, LogEvent,
                KillTool, ShowPage, EmitEvent
  <2>2. ASSUME NEW b \in Bridge, BridgeStep(b)
        PROVE  PullNext(b) \/ memory' = memory
    BY <2>2 DEF BridgeStep, Sync, BeginSync, ReadEvents, ReadSummaries, PushNext, EmptyMesh,
                Trim, EndPush, ReadMesh, SkipLine, EndPull, PushActiveContext, EmptySyncDb, SaveSyncDb
  <2>3. CASE MeshActor
    BY <2>3 DEF MeshActor, KillBridge, AddSummary, AddNote
  <2>4. BlockerActor \/ UNCHANGED vars => memory' = memory
    BY DEF BlockerActor, vars
  <2> QED  BY <2>1, <2>2, <2>3, <2>4 DEF Next
<1> QED  BY <1>2, <1>3, <1>4, <1>5, <1>6

\* candidates.jsonl, written by any tools and any bridges, is a ledger: a
\* candidate that was decided never comes back to the queue.
THEOREM CandidatesAreALedger == Spec => LedgerSpec
<1>1. Init => Ledger!Init
  BY DEF Init, MemoryInit, Ledger!Init, PendingMemory, Resolved
<1> QED  BY <1>1, InvariantHolds, StepRefines, PTL DEF Spec, LedgerSpec, Ledger!Spec
=============================================================================
