------------------------- MODULE BearNetPanelProofs -------------------------
(***************************************************************************)
(* Proofs about Firewall, ConnectionMonitor and BearNetPanel, for any      *)
(* connections, labels, requests and bounds.                               *)
(***************************************************************************)
EXTENDS BearNetPanel, FiniteSetTheorems, TLAPS

(***************************************************************************)
(* The rules and their file.                                               *)
(***************************************************************************)
Saves(c) == ruleCall[c].at \in {"empty", "write"}

OneSaves == \A c, d \in RuleClients : Saves(c) /\ Saves(d) => c = d

\* What the request that saves has set is in memory; every other rule that is
\* not damaged is what was meant.
MemoryTells ==
    /\ \A c \in RuleClients : Saves(c) =>
        \A l \in ruleCall[c].labels : rules[l] = ruleCall[c].decision
    /\ \A l \in Labels \ damaged :
        (\A c \in RuleClients : Saves(c) => l \notin ruleCall[c].labels)
            => rules[l] = meant[l]

\* So is every such rule of a file that is whole; one that is not is being
\* written, or has damaged everything.
FileTells ==
    /\ file.whole => \A l \in Labels \ damaged : file.rules[l] = meant[l]
    /\ ~file.whole =>
        damaged = Labels \/ \E c \in RuleClients : ruleCall[c].at = "write"

RulesInv == FirewallTypeOK /\ OneSaves /\ MemoryTells /\ FileTells

LEMMA SetFacts ==
    ASSUME NEW f \in RuleSets, NEW L \in SUBSET Labels, NEW d \in Decisions
    PROVE  /\ Set(f, L, d) \in RuleSets
           /\ \A l \in L : Set(f, L, d)[l] = d
           /\ \A l \in Labels \ L : Set(f, L, d)[l] = f[l]
  BY DEF Set, RuleSets

LEMMA NoRulesType == NoRules \in RuleSets
  BY DEF NoRules, RuleSets, Decisions

LEMMA QuietType == Quiet \in RuleCalls /\ Quiet.at = "none"
  BY DEF Quiet, RuleCalls, Decisions

LEMMA RulesInit == FirewallInit => RulesInv
  BY NoRulesType, QuietType
  DEF FirewallInit, RulesInv, FirewallTypeOK, OneSaves, Saves, MemoryTells, FileTells

\* A request that is not saving changes, and nothing else.
LEMMA RulesCallChanges ==
    ASSUME RulesInv, NEW c \in RuleClients, NEW call \in RuleCalls,
           call.at \in {"none", "gate"}, ~Saves(c),
           ruleCall' = [ruleCall EXCEPT ![c] = call],
           UNCHANGED <<rules, file, meant, damaged>>
    PROVE  RulesInv'
  <1>. USE DEF RulesInv
  <1>1. FirewallTypeOK'
    BY DEF FirewallTypeOK
  <1>2. \A d \in RuleClients :
            /\ Saves(d)' => Saves(d) /\ ruleCall'[d] = ruleCall[d]
            /\ Saves(d) => Saves(d)' /\ ruleCall'[d] = ruleCall[d]
    BY DEF Saves, FirewallTypeOK
  <1>3. OneSaves'
    BY <1>2 DEF OneSaves
  <1>4. MemoryTells'
    BY <1>2 DEF MemoryTells
  <1>5. ASSUME ~file.whole, damaged # Labels
        PROVE  \E d \in RuleClients : ruleCall'[d].at = "write"
    <2>1. PICK d \in RuleClients : ruleCall[d].at = "write"
      BY <1>5 DEF FileTells
    <2>. QED
      BY <2>1, <1>2 DEF Saves
  <1>6. FileTells'
    BY <1>5 DEF FileTells
  <1>. QED
    BY <1>1, <1>3, <1>4, <1>6

\* A request takes the lock and sets its rules.
LEMMA RulesTaken ==
    ASSUME RulesInv, NEW c \in RuleClients, LockFree,
           NEW L \in SUBSET Labels, NEW d \in Decisions,
           ruleCall' = [ruleCall EXCEPT ![c] = [at |-> "empty", labels |-> L, decision |-> d]],
           rules' = Set(rules, L, d),
           UNCHANGED <<file, meant, damaged>>
    PROVE  RulesInv'
  <1>. USE DEF RulesInv
  <1>0. \A b \in RuleClients : ~Saves(b)
    BY DEF LockFree, Saves
  <1>1. FirewallTypeOK'
    <2>1. [at |-> "empty", labels |-> L, decision |-> d] \in RuleCalls
      BY DEF RuleCalls
    <2>2. rules' \in RuleSets
      BY SetFacts DEF FirewallTypeOK
    <2>. QED
      BY <2>1, <2>2 DEF FirewallTypeOK
  <1>2. /\ ruleCall'[c] = [at |-> "empty", labels |-> L, decision |-> d]
        /\ \A b \in RuleClients \ {c} : ruleCall'[b] = ruleCall[b]
    BY DEF FirewallTypeOK
  <1>3. \A b \in RuleClients : Saves(b)' <=> b = c
    BY <1>0, <1>2 DEF Saves
  <1>4. OneSaves'
    BY <1>3 DEF OneSaves
  <1>5. MemoryTells'
    <2>1. \A l \in L : rules'[l] = d
      BY SetFacts DEF FirewallTypeOK
    <2>2. \A l \in Labels \ L : rules'[l] = rules[l]
      BY DEF Set
    <2>3. \A l \in Labels \ damaged : rules[l] = meant[l]
      BY <1>0 DEF MemoryTells
    <2>4. \A b \in RuleClients : Saves(b)' =>
            \A l \in ruleCall'[b].labels : rules'[l] = ruleCall'[b].decision
      BY <1>2, <1>3, <2>1
    <2>5. ASSUME NEW l \in Labels \ damaged,
                 \A b \in RuleClients : Saves(b)' => l \notin ruleCall'[b].labels
          PROVE  rules'[l] = meant[l]
      <3>1. l \notin L
        BY <2>5, <1>2, <1>3
      <3>. QED
        BY <3>1, <2>2, <2>3
    <2>. QED
      BY <2>4, <2>5 DEF MemoryTells
  <1>6. FileTells'
    BY <1>0 DEF FileTells, Saves
  <1>. QED
    BY <1>1, <1>4, <1>5, <1>6

\* A request that saves is answered.
LEMMA RulesAnswered ==
    ASSUME RulesInv, NEW c \in RuleClients, Saves(c), Answer(c)
    PROVE  /\ ruleCall' \in [RuleClients -> RuleCalls]
           /\ meant' \in RuleSets /\ UNCHANGED rules
           /\ \A b \in RuleClients : ~Saves(b)'
           /\ \A l \in ruleCall[c].labels : rules[l] = meant'[l]
           /\ \A l \in Labels \ ruleCall[c].labels : meant'[l] = meant[l]
           /\ \A l \in Labels \ damaged : rules[l] = meant'[l]
  <1>. USE DEF RulesInv
  <1>0. ruleCall[c] \in RuleCalls /\ meant \in RuleSets
    BY DEF FirewallTypeOK
  <1>1. ruleCall[c].labels \in SUBSET Labels /\ ruleCall[c].decision \in Decisions
    BY <1>0 DEF RuleCalls
  <1>2. /\ meant' \in RuleSets
        /\ \A l \in ruleCall[c].labels : meant'[l] = ruleCall[c].decision
        /\ \A l \in Labels \ ruleCall[c].labels : meant'[l] = meant[l]
    <2>. DEFINE L == ruleCall[c].labels
                d == ruleCall[c].decision
    <2>1. meant' = Set(meant, L, d)
      BY DEF Answer
    <2>2. L \in SUBSET Labels /\ d \in Decisions /\ meant \in RuleSets
      BY <1>0, <1>1
    <2>. HIDE DEF L, d
    <2>3. /\ meant' \in RuleSets
          /\ \A l \in L : meant'[l] = d
          /\ \A l \in Labels \ L : meant'[l] = meant[l]
      <3>1. \A l \in Labels : meant'[l] = IF l \in L THEN d ELSE meant[l]
        BY <2>1 DEF Set
      <3>2. meant' \in RuleSets
        BY <2>1, <2>2 DEF Set, RuleSets
      <3>. QED
        BY <3>1, <3>2, <2>2
    <2>. QED
      BY <2>3 DEF L, d
  <1>3. \A b \in RuleClients \ {c} : ~Saves(b)
    BY DEF OneSaves
  <1>4. \A b \in RuleClients : ~Saves(b)'
    BY <1>3, QuietType DEF Answer, Saves, FirewallTypeOK
  <1>5. \A l \in ruleCall[c].labels : rules[l] = meant'[l]
    BY <1>2 DEF MemoryTells
  <1>6. \A l \in Labels \ damaged : rules[l] = meant'[l]
    BY <1>2, <1>3, <1>5 DEF MemoryTells
  <1>. QED
    BY <1>2, <1>4, <1>5, <1>6, QuietType DEF Answer, FirewallTypeOK

LEMMA RulesStep ==
    ASSUME RulesInv, NEW c \in RuleClients, RuleStep(c)
    PROVE  RulesInv'
  <1>1. CASE AskRule(c)
    <2>1. PICK w \in Wishes :
            ruleCall' = [ruleCall EXCEPT ![c] =
                            [at |-> "gate", labels |-> {Etld[w[1]]}, decision |-> w[2]]]
      BY <1>1 DEF AskRule
    <2>2. w[1] \in Labels /\ w[2] \in Decisions /\ Etld[w[1]] \in Labels
      BY WishesAssumption, EtldAssumption
    <2>3. [at |-> "gate", labels |-> {Etld[w[1]]}, decision |-> w[2]] \in RuleCalls
      BY <2>2 DEF RuleCalls
    <2>4. ~Saves(c)
      BY <1>1, QuietType DEF AskRule, Saves
    <2>. QED
      BY <1>1, <2>1, <2>3, <2>4, RulesCallChanges DEF AskRule
  <1>2. CASE Deny(c)
    BY <1>2, QuietType, RulesCallChanges DEF Deny, Saves
  <1>3. CASE SetRule(c)
    <2>1. ruleCall[c] \in RuleCalls
      BY DEF RulesInv, FirewallTypeOK
    <2>2. ruleCall[c].labels \in SUBSET Labels /\ ruleCall[c].decision \in Decisions
      BY <2>1 DEF RuleCalls
    <2>3. [ruleCall[c] EXCEPT !.at = "empty"] =
            [at |-> "empty", labels |-> ruleCall[c].labels, decision |-> ruleCall[c].decision]
      BY <2>1 DEF RuleCalls
    <2>4. ruleCall' = [ruleCall EXCEPT ![c] =
            [at |-> "empty", labels |-> ruleCall[c].labels, decision |-> ruleCall[c].decision]]
      BY <1>3, <2>3 DEF SetRule
    <2>. QED
      BY <1>3, <2>2, <2>4, RulesTaken DEF SetRule
  <1>4. CASE ForgetRules(c)
    <2>1. NoRules = Set(rules, Labels, "ask")
      BY DEF NoRules, Set
    <2>2. "ask" \in Decisions
      BY DEF Decisions
    <2>. QED
      BY <1>4, <2>1, <2>2, RulesTaken DEF ForgetRules
  <1>5. CASE EmptyFile(c)
    <2>. USE DEF RulesInv
    <2>1. /\ ruleCall'[c] = [ruleCall[c] EXCEPT !.at = "write"]
          /\ \A b \in RuleClients \ {c} : ruleCall'[b] = ruleCall[b]
      BY <1>5 DEF EmptyFile, FirewallTypeOK
    <2>2. /\ ruleCall'[c].labels = ruleCall[c].labels
          /\ ruleCall'[c].decision = ruleCall[c].decision
          /\ ruleCall'[c].at = "write" /\ ruleCall'[c] \in RuleCalls
      BY <2>1 DEF FirewallTypeOK, RuleCalls
    <2>3. \A b \in RuleClients : Saves(b)' <=> Saves(b)
      BY <1>5, <2>1, <2>2 DEF Saves, EmptyFile
    <2>4. FirewallTypeOK'
      BY <1>5, <2>2, NoRulesType DEF EmptyFile, FirewallTypeOK
    <2>5. OneSaves'
      BY <2>3 DEF OneSaves
    <2>6. \A b \in RuleClients : ruleCall'[b].labels = ruleCall[b].labels
                              /\ ruleCall'[b].decision = ruleCall[b].decision
      BY <2>1, <2>2
    <2>7. MemoryTells'
      BY <1>5, <2>3, <2>6 DEF EmptyFile, MemoryTells
    <2>8. FileTells'
      BY <1>5, <2>2 DEF EmptyFile, FileTells
    <2>. QED
      BY <2>4, <2>5, <2>7, <2>8
  <1>6. CASE WriteFile(c)
    <2>1. Saves(c) /\ Answer(c)
      BY <1>6 DEF WriteFile, Saves
    <2>2. rules \in RuleSets /\ damaged \subseteq Labels
      BY DEF RulesInv, FirewallTypeOK
    <2>3. \A l \in Labels \ damaged' : rules[l] = meant'[l]
      BY <1>6, <2>1, RulesAnswered DEF WriteFile
    <2>4. FirewallTypeOK'
      BY <1>6, <2>1, <2>2, RulesAnswered DEF WriteFile, FirewallTypeOK
    <2>5. OneSaves' /\ MemoryTells'
      BY <2>1, <2>3, RulesAnswered DEF OneSaves, MemoryTells
    <2>6. FileTells'
      BY <1>6, <2>3 DEF FileTells, WriteFile
    <2>. QED
      BY <2>4, <2>5, <2>6 DEF RulesInv
  <1>7. CASE WriteFails(c)
    <2>1. Saves(c) /\ Answer(c) /\ UNCHANGED file
      BY <1>7 DEF WriteFails, Saves
    <2>2. ruleCall[c].labels \subseteq Labels
      BY DEF RulesInv, FirewallTypeOK, RuleCalls
    <2>3. damaged \subseteq Labels /\ damaged' \subseteq Labels /\ damaged \subseteq damaged'
      BY <1>7, <2>2 DEF RulesInv, FirewallTypeOK, WriteFails
    <2>4. FirewallTypeOK'
      BY <2>1, <2>3, RulesAnswered DEF FirewallTypeOK, RulesInv
    <2>5. OneSaves' /\ MemoryTells'
      BY <2>1, <2>3, RulesAnswered DEF OneSaves, MemoryTells
    <2>6. CASE file.whole
      <3>1. damaged' = damaged \cup ruleCall[c].labels
        BY <1>7, <2>6 DEF WriteFails
      <3>2. \A l \in Labels \ damaged' : file.rules[l] = meant'[l]
        BY <2>1, <2>6, <3>1, RulesAnswered DEF RulesInv, FileTells
      <3>. QED
        BY <2>1, <2>6, <3>2, <2>4, <2>5 DEF FileTells, RulesInv
    <2>7. CASE ~file.whole
      BY <1>7, <2>1, <2>7, <2>4, <2>5 DEF WriteFails, FileTells, RulesInv
    <2>. QED
      BY <2>6, <2>7
  <1>. QED
    BY <1>1, <1>2, <1>3, <1>4, <1>5, <1>6, <1>7 DEF RuleStep, SaveStep

LEMMA RulesReload ==
    ASSUME RulesInv, ReloadRules
    PROVE  RulesInv'
  <1>. USE DEF RulesInv
  <1>1. \A c \in RuleClients : ~Saves(c)'
    BY QuietType DEF ReloadRules, Saves
  <1>2. Loaded \in RuleSets
    BY NoRulesType DEF Loaded, FirewallTypeOK
  <1>3. FirewallTypeOK'
    BY <1>2, QuietType DEF ReloadRules, FirewallTypeOK
  <1>4. \A l \in Labels \ damaged' : file.whole /\ file.rules[l] = meant[l]
    BY DEF ReloadRules, FileTells
  <1>5. MemoryTells'
    BY <1>1, <1>4 DEF ReloadRules, MemoryTells, Loaded
  <1>6. FileTells'
    BY <1>4 DEF ReloadRules, FileTells
  <1>. QED
    BY <1>1, <1>3, <1>5, <1>6 DEF OneSaves

LEMMA RulesKept ==
    ASSUME RulesInv, UNCHANGED firewallVars
    PROVE  RulesInv'
  BY DEF firewallVars, RulesInv, FirewallTypeOK, OneSaves, Saves, MemoryTells, FileTells

LEMMA RulesInvGivesKept == RulesInv => RulesAreKept
  <1>. SUFFICES ASSUME RulesInv, LockFree, NEW l \in Labels \ damaged
                PROVE  rules[l] = meant[l] /\ Loaded[l] = meant[l]
    BY DEF RulesAreKept
  <1>1. \A c \in RuleClients : ~Saves(c)
    BY DEF LockFree, Saves
  <1>2. rules[l] = meant[l]
    BY <1>1 DEF RulesInv, MemoryTells
  <1>3. file.whole
    BY <1>1 DEF RulesInv, FileTells, Saves
  <1>. QED
    BY <1>2, <1>3 DEF RulesInv, FileTells, Loaded

-----------------------------------------------------------------------------
(***************************************************************************)
(* The map.                                                                *)
(***************************************************************************)
MapType == conns \in [Keys -> Records \cup {NoRecord}] /\ Cardinality(Held) <= Cap

LEMMA HeldFinite ==
    /\ IsFiniteSet(Keys)
    /\ IsFiniteSet(Held) /\ Cardinality(Held) \in Nat
    /\ Held \subseteq Keys
  <1>1. IsFiniteSet(Keys)
    BY SocketAssumption, FS_Union DEF Keys
  <1>2. Held \subseteq Keys
    BY DEF Held
  <1>3. IsFiniteSet(Held)
    BY <1>1, <1>2, FS_Subset
  <1>. QED
    BY <1>1, <1>2, <1>3, FS_CardinalityType

LEMMA EmptyMap ==
    /\ NoConns \in [Keys -> Records \cup {NoRecord}]
    /\ \A k \in Keys : NoConns[k] = NoRecord
  BY DEF NoConns

LEMMA MapCleared ==
    ASSUME conns' = NoConns
    PROVE  MapType' /\ Held' = {}
  <1>1. Held' = {}
    BY EmptyMap DEF Held
  <1>2. Cardinality(Held') = 0
    BY <1>1, FS_EmptySet
  <1>. QED
    BY <1>1, <1>2, EmptyMap, BoundAssumption DEF MapType

LEMMA MapRemoved ==
    ASSUME MapType, NEW k \in Keys, conns' = [conns EXCEPT ![k] = NoRecord]
    PROVE  /\ MapType' /\ Held' = Held \ {k}
           /\ \A j \in Keys \ {k} : conns'[j] = conns[j]
  <1>1. /\ conns' \in [Keys -> Records \cup {NoRecord}]
        /\ conns'[k] = NoRecord
        /\ \A j \in Keys \ {k} : conns'[j] = conns[j]
    BY DEF MapType
  <1>2. Held' = Held \ {k}
    BY <1>1 DEF Held
  <1>3. Cardinality(Held \ {k}) <= Cardinality(Held) /\ Cardinality(Held \ {k}) \in Nat
    BY HeldFinite, FS_Subset, FS_CardinalityType, Held \ {k} \subseteq Held
  <1>4. Cardinality(Held') <= Cap
    BY <1>2, <1>3, HeldFinite, BoundAssumption DEF MapType
  <1>. QED
    BY <1>1, <1>2, <1>4 DEF MapType

\* A record put in the map: the map stays within its bound, no other key enters,
\* and what another key has does not change unless it goes.
LEMMA MapUpserted ==
    ASSUME MapType, NEW k \in Keys, NEW r \in Records, Upsert(k, r)
    PROVE  /\ MapType'
           /\ k \in Held' /\ Held' \subseteq Held \cup {k}
           /\ \A j \in Keys \ {k} : j \in Held' => conns'[j] = conns[j]
  <1>0. r # NoRecord
    BY NoneAssumption
  <1>1. CASE Cardinality(Held) >= Cap /\ k \notin Held
    <2>1. PICK v \in Oldest : conns' = [conns EXCEPT ![v] = NoRecord, ![k] = r]
      BY <1>1 DEF Upsert
    <2>2. v \in Held /\ v \in Keys /\ v # k
      BY <1>1, HeldFinite DEF Oldest
    <2>3. /\ conns' \in [Keys -> Records \cup {NoRecord}]
          /\ conns'[k] = r /\ conns'[v] = NoRecord
          /\ \A j \in Keys \ {k, v} : conns'[j] = conns[j]
      BY <2>1, <2>2 DEF MapType
    <2>4. Held' = (Held \ {v}) \cup {k}
      BY <1>0, <2>2, <2>3 DEF Held
    <2>5. Cardinality(Held \ {v}) = Cardinality(Held) - 1 /\ IsFiniteSet(Held \ {v})
      BY <2>2, HeldFinite, FS_RemoveElement
    <2>6. Cardinality(Held') = Cardinality(Held \ {v}) + 1
      BY <1>1, <2>4, <2>5, FS_AddElement
    <2>7. Cardinality(Held') <= Cap
      BY <2>5, <2>6, HeldFinite, BoundAssumption DEF MapType
    <2>. QED
      BY <2>2, <2>3, <2>4, <2>7 DEF MapType
  <1>2. CASE ~(Cardinality(Held) >= Cap /\ k \notin Held)
    <2>1. conns' = [conns EXCEPT ![k] = r]
      BY <1>2 DEF Upsert
    <2>2. /\ conns' \in [Keys -> Records \cup {NoRecord}]
          /\ conns'[k] = r
          /\ \A j \in Keys \ {k} : conns'[j] = conns[j]
      BY <2>1 DEF MapType
    <2>3. Held' = Held \cup {k}
      BY <1>0, <2>2 DEF Held
    <2>4. Cardinality(Held') <= Cap
      <3>1. CASE k \in Held
        BY <3>1, <2>3, Held \cup {k} = Held DEF MapType
      <3>2. CASE k \notin Held
        <4>1. Cardinality(Held') = Cardinality(Held) + 1
          BY <3>2, <2>3, HeldFinite, FS_AddElement
        <4>. QED
          BY <1>2, <3>2, <4>1, HeldFinite, BoundAssumption
      <3>. QED
        BY <3>1, <3>2
    <2>. QED
      BY <2>2, <2>3, <2>4 DEF MapType
  <1>. QED
    BY <1>1, <1>2

LEMMA MapTicked ==
    ASSUME MapType, Tick
    PROVE  /\ MapType' /\ Held' = Held
           /\ \A k \in Held : conns[k].age > Grace => conns'[k].age > Grace
  <1>1. \A k \in Held : conns[k] \in Records
    BY DEF MapType, Held
  <1>2. ASSUME NEW k \in Held, conns[k].age <= Grace
        PROVE  [conns[k] EXCEPT !.age = @ + 1] \in Records
    <2>1. conns[k] \in Records /\ conns[k].age \in 0..(Grace + 1)
      BY <1>1 DEF Records, Ages
    <2>2. conns[k].age + 1 \in Ages
      BY <1>2, <2>1, BoundAssumption DEF Ages
    <2>. QED
      BY <2>1, <2>2 DEF Records
  <1>3. \A k \in Keys : conns'[k] = IF k \in Held /\ conns[k].age <= Grace
                                   THEN [conns[k] EXCEPT !.age = @ + 1] ELSE conns[k]
    BY DEF Tick
  <1>4. conns' \in [Keys -> Records \cup {NoRecord}]
    BY <1>2 DEF Tick, MapType
  <1>5. \A k \in Keys : k \in Held <=> conns'[k] # NoRecord
    BY <1>2, <1>3, NoneAssumption DEF Held
  <1>6. Held' = Held
    BY <1>5 DEF Held
  <1>7. ASSUME NEW k \in Held, conns[k].age > Grace PROVE conns'[k] = conns[k]
    <2>1. conns[k].age \in Nat /\ k \in Keys
      BY <1>1, HeldFinite, BoundAssumption DEF Records, Ages
    <2>2. ~(conns[k].age <= Grace)
      BY <1>7, <2>1, BoundAssumption
    <2>. QED
      BY <1>3, <2>1, <2>2
  <1>. QED
    BY <1>4, <1>6, <1>7 DEF MapType

-----------------------------------------------------------------------------
(***************************************************************************)
(* The monitor.                                                            *)
(***************************************************************************)
PollShape ==
    /\ poll.at \in {"record", "send", "close"} => poll.key \in Sockets
    /\ poll.at = "record" => poll.found \in Records

\* What is to be reaped is still as old as when the snapshot was taken.
GoneIsOld ==
    /\ poll.at \notin {"reap", "close"} => poll.gone = {}
    /\ \A k \in poll.gone : k \notin poll.seen /\ (k \in Held => conns[k].age > Grace)

CallShape ==
    \A c \in MapClients : mapCall[c].at \in {"decide", "record", "send"} =>
        mapCall[c].label \in Labels

PollInv == poll \in Polls /\ PollShape
CallInv == mapCall \in [MapClients -> MapCalls] /\ CallShape
RestInv == open \subseteq Sockets /\ scope \in Scopes
            /\ cache \in [Addresses -> Labels \cup {NoLabel}]

MonitorInv == MapType /\ PollInv /\ GoneIsOld /\ CallInv /\ RestInv

LEMMA AsleepType == Asleep \in Polls /\ Asleep.at = "asleep" /\ Asleep.gone = {}
  BY DEF Asleep, Polls, Scopes

LEMMA IdleType == Idle \in MapCalls /\ Idle.at = "none"
  BY DEF Idle, MapCalls, Scopes

LEMMA MonitorStart ==
    ASSUME scope = "browser", conns = NoConns, cache = NoCache, poll = Asleep,
           mapCall = NoCalls, open \subseteq Sockets
    PROVE  MonitorInv
  <1>1. Held = {}
    BY EmptyMap DEF Held
  <1>2. MapType
    BY <1>1, EmptyMap, FS_EmptySet, BoundAssumption DEF MapType
  <1>3. PollInv /\ GoneIsOld
    BY AsleepType DEF PollInv, PollShape, GoneIsOld
  <1>4. CallInv
    BY IdleType DEF CallInv, CallShape, NoCalls
  <1>5. RestInv
    BY DEF RestInv, NoCache, Scopes
  <1>. QED
    BY <1>2, <1>3, <1>4, <1>5 DEF MonitorInv

\* Only the map changes, and no socket enters it.
LEMMA OldStaysOld ==
    ASSUME MonitorInv, poll' = poll,
           \A k \in Sockets : k \in Held' =>
               k \in Held /\ (conns[k].age > Grace => conns'[k].age > Grace)
    PROVE  GoneIsOld'
  <1>1. poll.gone \subseteq Sockets
    BY DEF MonitorInv, PollInv, Polls
  <1>2. ASSUME NEW k \in poll.gone
        PROVE  k \notin poll.seen /\ (k \in Held' => conns'[k].age > Grace)
    BY <1>1, <1>2 DEF MonitorInv, GoneIsOld
  <1>3. poll.at \notin {"reap", "close"} => poll.gone = {}
    BY DEF MonitorInv, GoneIsOld
  <1>. QED
    BY <1>2, <1>3 DEF GoneIsOld

LEMMA HeldSame == conns' = conns => Held' = Held
  BY DEF Held

LEMMA BeginPollKeeps == MonitorInv /\ BeginPoll => MonitorInv'
  <1>. SUFFICES ASSUME MonitorInv, BeginPoll PROVE MonitorInv'
    OBVIOUS
  <1>. USE DEF MonitorInv, BeginPoll, PollOnly
  <1>1. PollInv'
    BY DEF PollInv, PollShape, Polls, RestInv
  <1>2. GoneIsOld'
    BY DEF GoneIsOld, PollInv, Polls
  <1>. QED
    BY <1>1, <1>2, HeldSame DEF MapType, CallInv, CallShape, RestInv

LEMMA ListKeeps == MonitorInv /\ List => MonitorInv'
  <1>. SUFFICES ASSUME MonitorInv, List PROVE MonitorInv'
    OBVIOUS
  <1>. USE DEF MonitorInv, List, PollOnly
  <1>1. PICK rows \in {Wanted, {}} :
          poll' = [Asleep EXCEPT !.at = "walk", !.rows = rows, !.seen = rows]
    OBVIOUS
  <1>2. rows \subseteq Sockets
    BY DEF Wanted, RestInv
  <1>3. PollInv'
    BY <1>1, <1>2, AsleepType DEF PollInv, PollShape, Polls
  <1>4. GoneIsOld'
    BY <1>1, AsleepType DEF GoneIsOld, Polls
  <1>. QED
    BY <1>3, <1>4, HeldSame DEF MapType, CallInv, CallShape, RestInv

LEMMA NewType == \A l \in Labels, b \in BOOLEAN : New(l, b) \in Records
  BY BoundAssumption DEF New, Records, Ages

LEMMA LookUpKeeps == MonitorInv /\ (\E s \in Sockets : LookUp(s)) => MonitorInv'
  <1>. SUFFICES ASSUME MonitorInv, NEW s \in Sockets, LookUp(s) PROVE MonitorInv'
    OBVIOUS
  <1>. USE DEF MonitorInv, LookUp
  <1>1. PICK l \in Names[AddressOf[s]] :
          /\ cache' = [cache EXCEPT ![AddressOf[s]] = l]
          /\ poll' = [poll EXCEPT !.at = "record", !.rows = @ \ {s}, !.key = s,
                                  !.found = New(l, Blocks(l))]
    OBVIOUS
  <1>2. l \in Labels /\ AddressOf[s] \in Addresses
    BY SocketAssumption
  <1>3. New(l, Blocks(l)) \in Records
    BY <1>2, NewType DEF Blocks
  <1>4. PollInv'
    BY <1>1, <1>3 DEF PollInv, PollShape, Polls
  <1>5. GoneIsOld'
    BY <1>1 DEF GoneIsOld, PollInv, Polls
  <1>6. RestInv'
    BY <1>1, <1>2 DEF RestInv
  <1>. QED
    BY <1>4, <1>5, <1>6, HeldSame DEF MapType, CallInv, CallShape

LEMMA RecordKeeps == MonitorInv /\ Record => MonitorInv' /\ poll.key \in Held'
  <1>. SUFFICES ASSUME MonitorInv, Record PROVE MonitorInv' /\ poll.key \in Held'
    OBVIOUS
  <1>. USE DEF MonitorInv, Record
  <1>1. poll.key \in Sockets /\ poll.key \in Keys /\ poll.found \in Records
    BY DEF PollInv, PollShape, Keys
  <1>2. MapType' /\ poll.key \in Held'
    BY <1>1, MapUpserted
  <1>3. PollInv'
    BY <1>1 DEF PollInv, PollShape, Polls
  <1>4. GoneIsOld'
    BY DEF GoneIsOld, PollInv, Polls
  <1>. QED
    BY <1>2, <1>3, <1>4 DEF CallInv, CallShape, RestInv

LEMMA AnnounceKeeps == MonitorInv /\ Announce => MonitorInv'
  <1>. SUFFICES ASSUME MonitorInv, Announce PROVE MonitorInv'
    OBVIOUS
  <1>. USE DEF MonitorInv, Announce, PollOnly
  <1>1. PollInv'
    BY DEF PollInv, PollShape, Polls
  <1>2. GoneIsOld'
    BY DEF GoneIsOld, PollInv, Polls
  <1>. QED
    BY <1>1, <1>2, HeldSame DEF MapType, CallInv, CallShape, RestInv

LEMMA SnapshotKeeps == MonitorInv /\ Snapshot => MonitorInv'
  <1>. SUFFICES ASSUME MonitorInv, Snapshot PROVE MonitorInv'
    OBVIOUS
  <1>. USE DEF MonitorInv, Snapshot, PollOnly
  <1>. DEFINE G == {k \in HeldSockets \ poll.seen : conns[k].age > Grace}
  <1>1. G \subseteq Sockets /\ \A k \in G : k \notin poll.seen /\ conns[k].age > Grace
    BY DEF HeldSockets
  <1>2. poll' = [poll EXCEPT !.at = "reap", !.gone = G]
    OBVIOUS
  <1>. HIDE DEF G
  <1>3. PollInv'
    BY <1>1, <1>2 DEF PollInv, PollShape, Polls
  <1>4. poll'.gone = G /\ poll'.seen = poll.seen /\ poll'.at = "reap"
    BY <1>2 DEF PollInv, Polls
  <1>5. GoneIsOld'
    BY <1>1, <1>4 DEF GoneIsOld
  <1>. QED
    BY <1>3, <1>5, HeldSame DEF MapType, CallInv, CallShape, RestInv

\* Reaping takes a socket out, and says so if it was there.
LEMMA ReapKeeps ==
    ASSUME MonitorInv, NEW s \in Sockets, Reap(s)
    PROVE  /\ MonitorInv' /\ Held' = Held \ {s}
           /\ s \in Held => poll'.at = "close" /\ poll'.key = s
           /\ s \notin Held => poll'.at = "reap"
           /\ poll.at = "reap" /\ s \in poll.gone
  <1>. USE DEF MonitorInv, Reap
  <1>0. s \in Keys
    BY DEF Keys
  <1>1. /\ MapType' /\ Held' = Held \ {s}
        /\ \A j \in Keys \ {s} : conns'[j] = conns[j]
    BY <1>0, MapRemoved
  <1>2. /\ poll'.at = IF s \in Held THEN "close" ELSE "reap"
        /\ poll'.key = IF s \in Held THEN s ELSE NoLabel
        /\ poll'.gone = poll.gone \ {s} /\ poll'.seen = poll.seen
    BY DEF PollInv, Polls
  <1>3. poll' \in Polls
    BY DEF PollInv, Polls
  <1>4. PollInv'
    BY <1>2, <1>3 DEF PollInv, PollShape
  <1>5. ASSUME NEW k \in poll'.gone
        PROVE  k \notin poll.seen /\ (k \in Held' => conns'[k].age > Grace)
    <2>1. k \in poll.gone /\ k # s
      BY <1>2, <1>5
    <2>2. k \in Keys
      BY <2>1 DEF PollInv, Polls, Keys
    <2>. QED
      BY <1>1, <2>1, <2>2 DEF GoneIsOld
  <1>6. GoneIsOld'
    BY <1>2, <1>5 DEF GoneIsOld
  <1>. QED
    BY <1>1, <1>2, <1>4, <1>6 DEF CallInv, CallShape, RestInv

LEMMA AnnounceClosedKeeps == MonitorInv /\ AnnounceClosed => MonitorInv'
  <1>. SUFFICES ASSUME MonitorInv, AnnounceClosed PROVE MonitorInv'
    OBVIOUS
  <1>. USE DEF MonitorInv, AnnounceClosed, PollOnly
  <1>1. PollInv'
    BY DEF PollInv, PollShape, Polls
  <1>2. GoneIsOld'
    BY HeldSame DEF GoneIsOld, PollInv, Polls
  <1>. QED
    BY <1>1, <1>2, HeldSame DEF MapType, CallInv, CallShape, RestInv

LEMMA SleepKeeps == MonitorInv /\ Sleep => MonitorInv'
  <1>. SUFFICES ASSUME MonitorInv, Sleep PROVE MonitorInv'
    OBVIOUS
  <1>. USE DEF MonitorInv, Sleep, PollOnly
  <1>1. PollInv' /\ GoneIsOld'
    BY AsleepType DEF PollInv, PollShape, GoneIsOld
  <1>. QED
    BY <1>1, HeldSame DEF MapType, CallInv, CallShape, RestInv

LEMMA TickKeeps == MonitorInv /\ Tick => MonitorInv'
  <1>. SUFFICES ASSUME MonitorInv, Tick PROVE MonitorInv'
    OBVIOUS
  <1>1. /\ MapType' /\ Held' = Held
        /\ \A k \in Held : conns[k].age > Grace => conns'[k].age > Grace
    BY MapTicked DEF MonitorInv
  <1>2. UNCHANGED <<open, scope, cache, poll, mapCall>>
    BY DEF Tick
  <1>3. GoneIsOld'
    BY <1>1, <1>2, OldStaysOld
  <1>. QED
    BY <1>1, <1>2, <1>3 DEF MonitorInv, PollInv, PollShape, CallInv, CallShape, RestInv

LEMMA SocketChangesKeeps == MonitorInv /\ (\E s \in Sockets : SocketChanges(s)) => MonitorInv'
  <1>. SUFFICES ASSUME MonitorInv, NEW s \in Sockets, SocketChanges(s) PROVE MonitorInv'
    OBVIOUS
  <1>. USE DEF MonitorInv, SocketChanges
  <1>1. GoneIsOld'
    BY HeldSame DEF GoneIsOld
  <1>2. RestInv'
    BY DEF RestInv
  <1>. QED
    BY <1>1, <1>2, HeldSame DEF MapType, PollInv, PollShape, CallInv, CallShape

\* A call changes hands; the poll and what it is to reap do not.
LEMMA CallChanges ==
    ASSUME MonitorInv, NEW c \in MapClients, NEW call \in MapCalls,
           call.at \in {"decide", "record", "send"} => call.label \in Labels,
           mapCall' = [mapCall EXCEPT ![c] = call]
    PROVE  CallInv'
  BY DEF MonitorInv, CallInv, CallShape

LEMMA SetScopeKeeps ==
    ASSUME MonitorInv, NEW c \in MapClients, SetScope(c)
    PROVE  MonitorInv'
  <1>. USE DEF SetScope
  <1>1. [Idle EXCEPT !.at = "clear"] \in MapCalls /\ [Idle EXCEPT !.at = "clear"].at = "clear"
    BY DEF Idle, MapCalls, Scopes
  <1>2. CallInv'
    BY <1>1, CallChanges
  <1>3. scope' \in Scopes
    BY DEF MonitorInv, CallInv, MapCalls
  <1>4. GoneIsOld'
    BY HeldSame DEF MonitorInv, GoneIsOld
  <1>. QED
    BY <1>2, <1>3, <1>4, HeldSame DEF MonitorInv, MapType, PollInv, PollShape, RestInv

\* A step of a call alone.
LEMMA CallOnlyKeeps ==
    ASSUME MonitorInv, CallInv', CallOnly
    PROVE  MonitorInv'
  <1>1. GoneIsOld'
    BY HeldSame DEF MonitorInv, GoneIsOld, CallOnly
  <1>. QED
    BY <1>1, HeldSame DEF MonitorInv, MapType, PollInv, PollShape, RestInv, CallOnly

LEMMA AskScopeKeeps ==
    ASSUME MonitorInv, NEW c \in MapClients, NEW s \in Scopes, AskScope(c, s)
    PROVE  MonitorInv'
  <1>1. /\ [Idle EXCEPT !.at = "scope", !.scope = s] \in MapCalls
        /\ [Idle EXCEPT !.at = "scope", !.scope = s].at = "scope"
    BY DEF Idle, MapCalls
  <1>. QED
    BY <1>1, CallChanges, CallOnlyKeeps DEF AskScope, Call

LEMMA AskClearKeeps ==
    ASSUME MonitorInv, NEW c \in MapClients, AskClear(c)
    PROVE  MonitorInv'
  <1>1. [Idle EXCEPT !.at = "clear"] \in MapCalls /\ [Idle EXCEPT !.at = "clear"].at = "clear"
    BY DEF Idle, MapCalls, Scopes
  <1>. QED
    BY <1>1, CallChanges, CallOnlyKeeps DEF AskClear, Call

LEMMA ClearMapKeeps ==
    ASSUME MonitorInv, NEW c \in MapClients, ClearMap(c)
    PROVE  MonitorInv'
  <1>. USE DEF ClearMap, Return
  <1>1. CallInv'
    BY IdleType, CallChanges
  <1>2. MapType' /\ Held' = {}
    BY MapCleared
  <1>3. GoneIsOld'
    BY <1>2, OldStaysOld
  <1>. QED
    BY <1>1, <1>2, <1>3 DEF MonitorInv, PollInv, PollShape, RestInv

LEMMA ReportHostKeeps ==
    ASSUME MonitorInv, NEW c \in MapClients, NEW h \in Hosts, ReportHost(c, h)
    PROVE  MonitorInv'
  <1>1. Etld[h] \in Labels
    BY SocketAssumption, EtldAssumption
  <1>2. /\ [Idle EXCEPT !.at = "decide", !.label = Etld[h]] \in MapCalls
        /\ [Idle EXCEPT !.at = "decide", !.label = Etld[h]].label = Etld[h]
    BY <1>1 DEF Idle, MapCalls, Scopes
  <1>. QED
    BY <1>1, <1>2, CallChanges, CallOnlyKeeps DEF ReportHost, Call

LEMMA DecideHostKeeps ==
    ASSUME MonitorInv, NEW c \in MapClients, DecideHost(c)
    PROVE  MonitorInv'
  <1>1. mapCall[c] \in MapCalls /\ mapCall[c].label \in Labels
    BY DEF MonitorInv, CallInv, CallShape, DecideHost
  <1>2. Blocks(mapCall[c].label) \in BOOLEAN
    BY DEF Blocks
  <1>3. mapCall' \in [MapClients -> MapCalls]
    BY <1>1, <1>2 DEF DecideHost, MonitorInv, CallInv, MapCalls
  <1>4. \A b \in MapClients : mapCall'[b].label = mapCall[b].label
    BY <1>1 DEF DecideHost, MonitorInv, CallInv, MapCalls
  <1>5. \A b \in MapClients \ {c} : mapCall'[b] = mapCall[b]
    BY DEF DecideHost, MonitorInv, CallInv
  <1>6. CallShape'
    BY <1>1, <1>4, <1>5 DEF MonitorInv, CallInv, CallShape
  <1>. QED
    BY <1>3, <1>6, CallOnlyKeeps DEF DecideHost, CallInv

\* A host's record takes the place of no socket's.
LEMMA RecordHostKeeps ==
    ASSUME MonitorInv, NEW c \in MapClients, RecordHost(c)
    PROVE  /\ MonitorInv' /\ mapCall[c].label \in Held'
           /\ mapCall'[c].label = mapCall[c].label
           /\ \A b \in MapClients \ {c} : mapCall'[b] = mapCall[b]
  <1>1. mapCall[c] \in MapCalls /\ mapCall[c].label \in Labels
    BY DEF MonitorInv, CallInv, CallShape, RecordHost
  <1>. DEFINE l == mapCall[c].label
  <1>2. New(l, mapCall[c].blocked) \in Records
    BY <1>1, NewType DEF MapCalls
  <1>3. l \in Keys /\ l \notin Sockets
    BY <1>1, SocketAssumption DEF Keys
  <1>4. Upsert(l, New(l, mapCall[c].blocked)) /\ MapType
    BY DEF RecordHost, MonitorInv
  <1>5. /\ MapType' /\ l \in Held' /\ Held' \subseteq Held \cup {l}
        /\ \A j \in Keys \ {l} : j \in Held' => conns'[j] = conns[j]
    BY <1>2, <1>3, <1>4, MapUpserted
  <1>6. \A k \in Sockets : k \in Held' => k \in Held /\ conns'[k] = conns[k]
    BY <1>3, <1>5 DEF Keys
  <1>7. GoneIsOld'
    BY <1>6, OldStaysOld DEF RecordHost
  <1>8. mapCall' \in [MapClients -> MapCalls]
    BY <1>1 DEF RecordHost, MonitorInv, CallInv, MapCalls
  <1>9. \A b \in MapClients : mapCall'[b].label = mapCall[b].label
    BY <1>1 DEF RecordHost, MonitorInv, CallInv, MapCalls
  <1>10. \A b \in MapClients \ {c} : mapCall'[b] = mapCall[b]
    BY DEF RecordHost, MonitorInv, CallInv
  <1>11. CallShape'
    BY <1>1, <1>9, <1>10 DEF MonitorInv, CallInv, CallShape
  <1>. QED
    BY <1>5, <1>7, <1>8, <1>9, <1>10, <1>11
    DEF RecordHost, MonitorInv, PollInv, PollShape, CallInv, RestInv

LEMMA SendHostKeeps ==
    ASSUME MonitorInv, NEW c \in MapClients, SendHost(c)
    PROVE  MonitorInv'
  BY IdleType, CallChanges, CallOnlyKeeps DEF SendHost, Return

LEMMA MonitorStutters == MonitorInv /\ UNCHANGED monitorVars => MonitorInv'
  BY HeldSame DEF monitorVars, MonitorInv, MapType, PollInv, PollShape, GoneIsOld,
                  CallInv, CallShape, RestInv

LEMMA QuietPollKeeps == MonitorInv /\ QuietPollStep => MonitorInv'
  BY BeginPollKeeps, ListKeeps, RecordKeeps, SnapshotKeeps, SleepKeeps, LookUpKeeps, ReapKeeps
  DEF QuietPollStep

LEMMA QuietCallKeeps == MonitorInv /\ QuietCallStep => MonitorInv'
  BY SetScopeKeeps, AskClearKeeps, ClearMapKeeps, DecideHostKeeps, RecordHostKeeps, ReportHostKeeps
  DEF QuietCallStep

LEMMA RestartKeeps == MonitorInv /\ Restart => MonitorInv'
  <1>. SUFFICES ASSUME MonitorInv, Restart PROVE MonitorInv'
    OBVIOUS
  <1>1. open' \subseteq Sockets
    BY DEF Restart, MonitorInv, RestInv
  <1>2. scope' = "browser" /\ conns' = NoConns /\ cache' = NoCache
        /\ poll' = Asleep /\ mapCall' = NoCalls
    BY DEF Restart
  <1>3. MapType' /\ Held' = {}
    BY <1>2, MapCleared
  <1>4. PollInv' /\ GoneIsOld'
    BY <1>2, AsleepType DEF PollInv, PollShape, GoneIsOld
  <1>5. CallInv'
    BY <1>2, IdleType DEF CallInv, CallShape, NoCalls
  <1>6. RestInv'
    BY <1>1, <1>2 DEF RestInv, NoCache, Scopes
  <1>. QED
    BY <1>3, <1>4, <1>5, <1>6 DEF MonitorInv

LEMMA MonitorInitial == MonitorInit => RulesInv /\ MonitorInv
  BY RulesInit, MonitorStart DEF MonitorInit

LEMMA MonitorStep == RulesInv /\ MonitorInv /\ [MonitorNext]_vars => RulesInv' /\ MonitorInv'
  <1>. SUFFICES ASSUME RulesInv, MonitorInv, [MonitorNext]_vars
                PROVE  RulesInv' /\ MonitorInv'
    OBVIOUS
  <1>1. CASE RuleAction
    BY <1>1, RulesStep, MonitorStutters DEF RuleAction
  <1>2. CASE QuietPollStep
    <2>1. UNCHANGED firewallVars
      BY <1>2 DEF QuietPollStep, BeginPoll, List, Record, Snapshot, Sleep, LookUp, Reap, PollOnly
    <2>. QED
      BY <1>2, <2>1, QuietPollKeeps, RulesKept
  <1>3. CASE QuietCallStep
    <2>1. UNCHANGED firewallVars
      BY <1>3 DEF QuietCallStep, SetScope, AskClear, ClearMap, DecideHost, RecordHost,
                  ReportHost, Call, Return, CallOnly
    <2>. QED
      BY <1>3, <2>1, QuietCallKeeps, RulesKept
  <1>4. CASE Tick
    BY <1>4, TickKeeps, RulesKept DEF Tick
  <1>5. CASE \E s \in Sockets : SocketChanges(s)
    BY <1>5, SocketChangesKeeps, RulesKept DEF SocketChanges
  <1>6. CASE Announce \/ AnnounceClosed
    BY <1>6, AnnounceKeeps, AnnounceClosedKeeps, RulesKept DEF Announce, AnnounceClosed, PollOnly
  <1>7. CASE Restart
    BY <1>7, RestartKeeps, RulesReload DEF Restart
  <1>8. ASSUME NEW c \in MapClients, SendHost(c) \/ \E s \in Scopes : AskScope(c, s)
        PROVE  RulesInv' /\ MonitorInv'
    BY <1>8, SendHostKeeps, AskScopeKeeps, RulesKept DEF SendHost, AskScope, Call, CallOnly
  <1>9. CASE UNCHANGED vars
    BY <1>9, MonitorStutters, RulesKept DEF vars
  <1>. QED
    BY <1>1, <1>2, <1>3, <1>4, <1>5, <1>6, <1>7, <1>8, <1>9 DEF MonitorNext, MachineStep

THEOREM MonitorInvariant == MonitorSpec => [](RulesInv /\ MonitorInv)
  BY MonitorInitial, MonitorStep, PTL DEF MonitorSpec

LEMMA InvariantsGiveTypes == RulesInv /\ MonitorInv => FirewallTypeOK /\ MonitorTypeOK
  BY DEF RulesInv, MonitorInv, MapType, PollInv, CallInv, RestInv, MonitorTypeOK

\* The monitor's and the firewall's state always has its types, and the map is
\* within its bound (netmap.rs, upsert).
THEOREM MonitorTypeCorrect == MonitorSpec => [](FirewallTypeOK /\ MonitorTypeOK)
  BY MonitorInvariant, InvariantsGiveTypes, PTL

\* A rule answered with success is kept, for any requests, restarts and failed
\* writes (firewall.rs, set, persist, load).
THEOREM RulesKeep == MonitorSpec => []RulesAreKept
  BY MonitorInvariant, RulesInvGivesKept, PTL

LEMMA ReapedIsOld ==
    ASSUME MonitorInv, [MonitorNext]_vars, NEW k \in Sockets,
           poll.at = "reap", poll'.at = "close", poll'.key = k
    PROVE  conns[k].age > Grace /\ k \notin poll.seen
  <1>1. PICK s \in Sockets : Reap(s)
    <2>1. \E s \in Sockets : Reap(s)
      <3>1. poll'.at # poll.at
        OBVIOUS
      <3>2. poll' # poll
        BY <3>1
      <3>3. ~BeginPoll /\ ~List /\ ~Record /\ ~Announce /\ ~AnnounceClosed
        BY DEF BeginPoll, List, Record, Announce, AnnounceClosed
      <3>4. ~Snapshot /\ ~Sleep /\ ~Restart /\ ~\E s \in Sockets : LookUp(s)
        BY AsleepType DEF Snapshot, Sleep, Restart, LookUp
      <3>5. ~QuietCallStep
        BY <3>2 DEF QuietCallStep, SetScope, AskClear, ClearMap, DecideHost, RecordHost,
                    ReportHost, Call, Return, CallOnly
      <3>6. ~MachineStep /\ ~RuleAction /\ ~UNCHANGED vars
        BY <3>2 DEF MachineStep, Tick, SocketChanges, RuleAction, vars, monitorVars
      <3>7. ~\E c \in MapClients : SendHost(c) \/ \E s \in Scopes : AskScope(c, s)
        BY <3>2 DEF SendHost, AskScope, Call, Return, CallOnly
      <3>. QED
        BY <3>3, <3>4, <3>5, <3>6, <3>7 DEF MonitorNext, QuietPollStep
    <2>. QED
      BY <2>1
  <1>2. /\ s \in Held => poll'.at = "close" /\ poll'.key = s
        /\ s \notin Held => poll'.at = "reap"
        /\ s \in poll.gone
    BY <1>1, ReapKeeps
  <1>3. s = k /\ k \in Held /\ k \in poll.gone
    BY <1>2
  <1>. QED
    BY <1>3 DEF MonitorInv, GoneIsOld

\* The poll never reaps what it has just seen or what was recorded within the
\* grace period (netmon.rs, the reaping loop).
THEOREM LiveIsKept == MonitorSpec => NothingLiveIsReaped
  <1>1. RulesInv /\ MonitorInv /\ [MonitorNext]_vars =>
          [ \A k \in Sockets : poll.at = "reap" /\ poll'.at = "close" /\ poll'.key = k =>
                conns[k].age > Grace /\ k \notin poll.seen ]_vars
    BY ReapedIsOld
  <1>. QED
    BY <1>1, MonitorInvariant, PTL DEF MonitorSpec, NothingLiveIsReaped

-----------------------------------------------------------------------------
(***************************************************************************)
(* Events in a queue: whether the last one about k is its end.             *)
(***************************************************************************)
Speaks(q, k) == \E i \in DOMAIN q : q[i] = Open(k)

Ends(q, k) ==
    \E i \in DOMAIN q : q[i] = Closed(k) /\ \A j \in DOMAIN q : q[j] = Open(k) => j < i

LEMMA EventTypes ==
    /\ \A k \in Keys : Open(k) \in Events /\ Closed(k) \in Events /\ Open(k).key = k
    /\ \A j, k \in Keys : Open(j) # Closed(k)
    /\ \A j, k \in Keys : Open(j) = Open(k) \/ Closed(j) = Closed(k) => j = k
    /\ \A e \in Events : /\ e.key \in Keys
                         /\ e.kind = "connection" => e = Open(e.key)
                         /\ e.kind # "connection" => e = Closed(e.key)
  BY DEF Open, Closed, Events

LEMMA AppendFacts ==
    ASSUME NEW q \in Seq(Events), NEW e \in Events
    PROVE  /\ Append(q, e) \in Seq(Events) /\ Len(Append(q, e)) = Len(q) + 1
           /\ DOMAIN q = 1..Len(q) /\ Len(q) \in Nat
           /\ DOMAIN Append(q, e) = 1..(Len(q) + 1)
           /\ \A i \in DOMAIN q : Append(q, e)[i] = q[i]
           /\ Append(q, e)[Len(q) + 1] = e
  OBVIOUS

LEMMA AppendSpeaks ==
    ASSUME NEW q \in Seq(Events), NEW e \in Events, NEW k \in Keys
    PROVE  Speaks(Append(q, e), k) => Speaks(q, k) \/ e = Open(k)
  BY AppendFacts DEF Speaks

LEMMA AppendEnds ==
    ASSUME NEW q \in Seq(Events), NEW e \in Events, NEW k \in Keys
    PROVE  /\ e = Closed(k) => Ends(Append(q, e), k)
           /\ e # Open(k) /\ Ends(q, k) => Ends(Append(q, e), k)
  <1>. DEFINE A == Append(q, e)
  <1>1. /\ DOMAIN q = 1..Len(q) /\ Len(q) \in Nat /\ DOMAIN A = 1..(Len(q) + 1)
        /\ \A i \in DOMAIN q : A[i] = q[i]
        /\ A[Len(q) + 1] = e
    BY AppendFacts
  <1>. HIDE DEF A
  <1>2. ASSUME e = Closed(k)
        PROVE  Ends(A, k)
    <2>1. A[Len(q) + 1] # Open(k)
      BY <1>1, <1>2, EventTypes
    <2>2. \A j \in DOMAIN A : A[j] = Open(k) => j < Len(q) + 1
      BY <1>1, <2>1
    <2>. QED
      BY <1>1, <1>2, <2>2 DEF Ends
  <1>3. ASSUME e # Open(k), Ends(q, k)
        PROVE  Ends(A, k)
    <2>1. PICK i \in DOMAIN q : q[i] = Closed(k) /\ \A j \in DOMAIN q : q[j] = Open(k) => j < i
      BY <1>3 DEF Ends
    <2>2. ASSUME NEW j \in DOMAIN A, A[j] = Open(k) PROVE j < i
      <3>1. j # Len(q) + 1
        BY <1>1, <1>3, <2>2
      <3>2. j \in DOMAIN q
        BY <1>1, <3>1
      <3>. QED
        BY <1>1, <2>1, <2>2, <3>2
    <2>3. i \in DOMAIN A /\ A[i] = Closed(k)
      BY <1>1, <2>1
    <2>. QED
      BY <2>2, <2>3 DEF Ends
  <1>. QED
    BY <1>2, <1>3 DEF A

LEMMA ConcatFacts ==
    ASSUME NEW a \in Seq(Events), NEW b \in Seq(Events)
    PROVE  /\ a \o b \in Seq(Events) /\ Len(a \o b) = Len(a) + Len(b)
           /\ \A j \in 1..Len(a) : (a \o b)[j] = a[j]
           /\ \A j \in 1..Len(b) : (a \o b)[Len(a) + j] = b[j]
  OBVIOUS

LEMMA RemoveFacts ==
    ASSUME NEW q \in Seq(Events), NEW i \in DOMAIN q
    PROVE  /\ RemoveAt(q, i) \in Seq(Events) /\ Len(RemoveAt(q, i)) = Len(q) - 1
           /\ \A j \in 1..(Len(q) - 1) :
                RemoveAt(q, i)[j] = IF j < i THEN q[j] ELSE q[j + 1]
  <1>1. DOMAIN q = 1..Len(q) /\ Len(q) \in Nat /\ i \in 1..Len(q)
    OBVIOUS
  <1>. DEFINE a == SubSeq(q, 1, i - 1)
              b == SubSeq(q, i + 1, Len(q))
  <1>2. a \in Seq(Events) /\ Len(a) = i - 1 /\ \A j \in 1..(i - 1) : a[j] = q[j]
    BY <1>1
  <1>3. /\ b \in Seq(Events) /\ Len(b) = Len(q) - i
        /\ \A j \in 1..(Len(q) - i) : b[j] = q[i + j]
    BY <1>1
  <1>4. RemoveAt(q, i) = a \o b
    BY DEF RemoveAt
  <1>. HIDE DEF a, b
  <1>5. /\ a \o b \in Seq(Events) /\ Len(a \o b) = (i - 1) + (Len(q) - i)
        /\ \A j \in 1..(i - 1) : (a \o b)[j] = a[j]
        /\ \A j \in 1..(Len(q) - i) : (a \o b)[(i - 1) + j] = b[j]
    <2>1. /\ a \o b \in Seq(Events) /\ Len(a \o b) = Len(a) + Len(b)
          /\ \A j \in 1..Len(a) : (a \o b)[j] = a[j]
          /\ \A j \in 1..Len(b) : (a \o b)[Len(a) + j] = b[j]
      <3>1. a \in Seq(Events) /\ b \in Seq(Events)
        BY <1>2, <1>3
      <3>. QED
        BY <3>1, ConcatFacts
    <2>2. Len(a) = i - 1 /\ Len(b) = Len(q) - i
      BY <1>2, <1>3
    <2>. QED
      BY <2>1, <2>2
  <1>. DEFINE c == a \o b
  <1>6. ASSUME NEW j \in 1..(Len(q) - 1)
        PROVE  c[j] = IF j < i THEN q[j] ELSE q[j + 1]
    <2>1. CASE j < i
      BY <1>1, <1>2, <1>5, <2>1
    <2>2. CASE ~(j < i)
      <3>1. PICK n \in 1..(Len(q) - i) : j = (i - 1) + n
        <4>1. j - (i - 1) \in 1..(Len(q) - i) /\ j = (i - 1) + (j - (i - 1))
          BY <1>1, <2>2
        <4>. QED
          BY <4>1
      <3>2. c[j] = b[n]
        BY <1>5, <3>1
      <3>3. b[n] = q[i + n] /\ i + n = j + 1
        BY <1>1, <1>3, <3>1
      <3>. QED
        BY <2>2, <3>2, <3>3
    <2>. QED
      BY <2>1, <2>2
  <1>7. c \in Seq(Events) /\ Len(c) = (i - 1) + (Len(q) - i)
    BY <1>5
  <1>8. RemoveAt(q, i) = c
    BY <1>4
  <1>. HIDE DEF c
  <1>9. Len(c) = Len(q) - 1
    BY <1>1, <1>7
  <1>. QED
    BY <1>6, <1>7, <1>8, <1>9

\* An event that is not the end of k can be forgotten.
LEMMA RemoveKeeps ==
    ASSUME NEW q \in Seq(Events), NEW i \in DOMAIN q, NEW k \in Keys
    PROVE  /\ Speaks(RemoveAt(q, i), k) => Speaks(q, k)
           /\ q[i] # Closed(k) /\ Ends(q, k) => Ends(RemoveAt(q, i), k)
  <1>. DEFINE R == RemoveAt(q, i)
  <1>1. /\ DOMAIN q = 1..Len(q) /\ Len(q) \in Nat /\ i \in 1..Len(q)
        /\ DOMAIN R = 1..(Len(q) - 1)
        /\ \A j \in 1..(Len(q) - 1) : R[j] = IF j < i THEN q[j] ELSE q[j + 1]
    BY RemoveFacts
  <1>. HIDE DEF R
  <1>2. Speaks(R, k) => Speaks(q, k)
    BY <1>1 DEF Speaks
  <1>3. ASSUME q[i] # Closed(k), Ends(q, k)
        PROVE  Ends(R, k)
    <2>1. PICK n \in DOMAIN q : q[n] = Closed(k) /\ \A j \in DOMAIN q : q[j] = Open(k) => j < n
      BY <1>3 DEF Ends
    <2>2. n # i
      BY <1>3, <2>1
    <2>. DEFINE m == IF n < i THEN n ELSE n - 1
    <2>3. m \in DOMAIN R /\ R[m] = Closed(k)
      BY <1>1, <2>1, <2>2
    <2>4. ASSUME NEW j \in DOMAIN R, R[j] = Open(k) PROVE j < m
      <3>1. CASE j < i
        <4>1. j \in DOMAIN q /\ q[j] = Open(k)
          BY <1>1, <2>4, <3>1
        <4>2. j < n
          BY <2>1, <4>1
        <4>. QED
          BY <1>1, <2>1, <2>2, <3>1, <4>2
      <3>2. CASE ~(j < i)
        <4>1. j + 1 \in DOMAIN q /\ q[j + 1] = Open(k)
          BY <1>1, <2>4, <3>2
        <4>2. j + 1 < n
          BY <2>1, <4>1
        <4>. QED
          BY <1>1, <2>1, <2>2, <3>2, <4>2
      <3>. QED
        BY <3>1, <3>2
    <2>. QED
      BY <2>3, <2>4 DEF Ends
  <1>. QED
    BY <1>2, <1>3 DEF R

\* So can the first event, and the end of k when more is to come about k.
LEMMA TailKeeps ==
    ASSUME NEW q \in Seq(Events), q # <<>>, NEW k \in Keys
    PROVE  /\ Tail(q) \in Seq(Events) /\ Len(Tail(q)) = Len(q) - 1 /\ Head(q) \in Events
           /\ Speaks(Tail(q), k) => Speaks(q, k)
           /\ Head(q) = Open(k) => Speaks(q, k)
           /\ (Head(q) # Closed(k) \/ Speaks(Tail(q), k)) /\ Ends(q, k) => Ends(Tail(q), k)
  <1>. DEFINE T == Tail(q)
  <1>1. /\ DOMAIN q = 1..Len(q) /\ Len(q) \in Nat /\ Len(q) > 0
        /\ T \in Seq(Events) /\ Len(T) = Len(q) - 1 /\ DOMAIN T = 1..(Len(q) - 1)
        /\ \A j \in 1..(Len(q) - 1) : T[j] = q[j + 1]
        /\ Head(q) = q[1] /\ Head(q) \in Events
    OBVIOUS
  <1>. HIDE DEF T
  <1>2. Speaks(T, k) => Speaks(q, k)
    BY <1>1 DEF Speaks
  <1>3. Head(q) = Open(k) => Speaks(q, k)
    BY <1>1 DEF Speaks
  <1>4. ASSUME Head(q) # Closed(k) \/ Speaks(T, k), Ends(q, k)
        PROVE  Ends(T, k)
    <2>1. PICK n \in DOMAIN q : q[n] = Closed(k) /\ \A j \in DOMAIN q : q[j] = Open(k) => j < n
      BY <1>4 DEF Ends
    <2>2. n # 1
      <3>1. CASE Head(q) # Closed(k)
        BY <1>1, <2>1, <3>1
      <3>2. CASE Speaks(T, k)
        <4>1. PICK j \in DOMAIN T : T[j] = Open(k)
          BY <3>2 DEF Speaks
        <4>2. j + 1 \in DOMAIN q /\ q[j + 1] = Open(k)
          BY <1>1, <4>1
        <4>. QED
          BY <1>1, <2>1, <4>1, <4>2
      <3>. QED
        BY <1>4, <3>1, <3>2
    <2>3. n - 1 \in DOMAIN T /\ T[n - 1] = Closed(k)
      BY <1>1, <2>1, <2>2
    <2>4. ASSUME NEW j \in DOMAIN T, T[j] = Open(k) PROVE j < n - 1
      <3>1. j + 1 \in DOMAIN q /\ q[j + 1] = Open(k)
        BY <1>1, <2>4
      <3>. QED
        BY <1>1, <2>1, <3>1
    <2>. QED
      BY <2>3, <2>4 DEF Ends
  <1>. QED
    BY <1>1, <1>2, <1>3, <1>4 DEF T

-----------------------------------------------------------------------------
(***************************************************************************)
(* The panel.                                                              *)
(***************************************************************************)

\* GhostsHaveACause, also for what is on its way to the panel; and no record is
\* about to be announced that has left the map untold.
NoGhosts ==
    \A k \in Keys \ (Held \cup untold) :
        /\ (k \in shown \cup reply.keys \/ Speaks(queue, k)) => EndIsComing(k)
        /\ k \notin Unsent

PanelInv == PanelTypeOK /\ NoGhosts

Closing(k) == poll.at = "close" /\ poll.key = k

LEMMA EndFacts == \A k : EndIsComing(k) <=> Closing(k) \/ Ends(queue, k)
  BY DEF EndIsComing, Closing, Ends

LEMMA PanelInitial == PanelInit => PanelInv
  <1>. SUFFICES ASSUME PanelInit PROVE PanelInv
    OBVIOUS
  <1>1. PanelTypeOK
    <2>1. queue = <<>> /\ <<>> \in Seq(Events) /\ Len(<<>>) = 0
      BY DEF PanelInit
    <2>2. 0 <= Capacity
      BY CapacityAssumption
    <2>. QED
      BY <2>1, <2>2 DEF PanelInit, PanelTypeOK, NoReply
  <1>2. ~\E k \in Keys : Speaks(queue, k)
    BY DEF PanelInit, Speaks
  <1>3. Unsent = {}
    BY AsleepType, IdleType DEF PanelInit, MonitorInit, Unsent, NoCalls
  <1>4. shown \cup reply.keys = {}
    BY DEF PanelInit, NoReply
  <1>. QED
    BY <1>1, <1>2, <1>3, <1>4 DEF PanelInv, NoGhosts

\* A step that sends nothing and whose losses are untold.
LEMMA UnheardKeeps ==
    ASSUME PanelInv, Unheard,
           \A k \in Keys : Closing(k) => Closing(k)',
           \A k \in Unsent' : k \in Unsent \cup Held'
    PROVE  PanelInv'
  <1>1. Held \subseteq Keys /\ Held' \subseteq Keys
    BY DEF Held
  <1>2. PanelTypeOK'
    BY <1>1 DEF PanelInv, PanelTypeOK, Unheard
  <1>3. ASSUME NEW k \in Keys, k \notin Held' \cup untold'
        PROVE  /\ (k \in shown' \cup reply'.keys \/ Speaks(queue', k)) => EndIsComing(k)'
               /\ k \notin Unsent'
    <2>1. k \notin Held \cup untold
      BY <1>3 DEF Unheard
    <2>2. (k \in shown \cup reply.keys \/ Speaks(queue, k)) => EndIsComing(k)
      BY <2>1 DEF PanelInv, NoGhosts
    <2>3. k \notin Unsent'
      BY <1>3, <2>1 DEF PanelInv, NoGhosts
    <2>4. EndIsComing(k) => EndIsComing(k)'
      BY DEF EndIsComing, Closing, Unheard
    <2>. QED
      BY <2>2, <2>3, <2>4 DEF Unheard
  <1>4. NoGhosts'
    BY <1>3 DEF NoGhosts
  <1>. QED
    BY <1>2, <1>4 DEF PanelInv

LEMMA SkipFacts ==
    ASSUME NEW e \in Events, Skip(e), untold \subseteq Keys
    PROVE  /\ untold \subseteq untold' /\ untold' \subseteq Keys
           /\ \A k \in Keys : e = Closed(k) => k \in Held \cup untold'
  <1>1. \A k \in Keys : k \in Told(<<e>>) <=> e = Closed(k)
    <2>1. DOMAIN <<e>> = {1} /\ <<e>>[1] = e
      OBVIOUS
    <2>. QED
      BY <2>1 DEF Told
  <1>2. Told(<<e>>) \subseteq Keys
    BY DEF Told
  <1>. QED
    BY <1>1, <1>2 DEF Skip

\* The queue with e in it, for those whose end is not untold.
QueueFollows(e) ==
    /\ queue' \in Seq(Events) /\ Len(queue') <= Capacity
    /\ untold \subseteq untold' /\ untold' \subseteq Keys
    /\ \A k \in Keys \ (Held \cup untold') :
        /\ Speaks(queue', k) => Speaks(queue, k)
        /\ e = Closed(k) \/ Ends(queue, k) => Ends(queue', k)

\* What is sent arrives, or its end is untold; so is that of an event that is
\* skipped to make room.
LEMMA SendKeeps ==
    ASSUME PanelInv, NEW e \in Events, Send(e), conns' = conns,
           \A k \in Keys : e = Open(k) => k \in Held \cup untold,
           \A k \in Keys : Closing(k) => Closing(k)' \/ e = Closed(k),
           Unsent' \subseteq Unsent
    PROVE  PanelInv'
  <1>0. /\ Held' = Held /\ shown' = shown /\ reply' = reply /\ socket' = socket
        /\ queue \in Seq(Events) /\ Len(queue) <= Capacity /\ untold \subseteq Keys
    BY HeldSame DEF PanelInv, PanelTypeOK, Send
  <1>1. QueueFollows(e)
    <2>1. CASE ~socket /\ Skip(e) /\ UNCHANGED queue
      BY <1>0, <2>1, SkipFacts DEF QueueFollows
    <2>2. CASE Len(queue) < Capacity /\ queue' = Append(queue, e) /\ UNCHANGED untold
      <3>1. Append(queue, e) \in Seq(Events) /\ Len(Append(queue, e)) <= Capacity
        BY <1>0, <2>2, AppendFacts, CapacityAssumption
      <3>2. ASSUME NEW k \in Keys \ (Held \cup untold')
            PROVE  /\ Speaks(queue', k) => Speaks(queue, k)
                   /\ e = Closed(k) \/ Ends(queue, k) => Ends(queue', k)
        <4>1. e # Open(k)
          BY <2>2
        <4>. QED
          BY <1>0, <2>2, <4>1, AppendSpeaks, AppendEnds
      <3>. QED
        BY <1>0, <2>2, <3>1, <3>2 DEF QueueFollows
    <2>3. ASSUME NEW i \in DOMAIN queue, Len(queue) = Capacity,
                 queue' = Append(RemoveAt(queue, i), e), Skip(queue[i])
          PROVE  QueueFollows(e)
      <3>. DEFINE R == RemoveAt(queue, i)
      <3>0. queue[i] \in Events
        BY <1>0, <2>3
      <3>1. R \in Seq(Events) /\ Len(R) = Len(queue) - 1
        BY <1>0, RemoveFacts
      <3>2. Append(R, e) \in Seq(Events) /\ Len(Append(R, e)) <= Capacity
        BY <2>3, <3>1, AppendFacts, CapacityAssumption
      <3>3. /\ untold \subseteq untold' /\ untold' \subseteq Keys
            /\ \A k \in Keys : queue[i] = Closed(k) => k \in Held \cup untold'
        BY <1>0, <2>3, <3>0, SkipFacts
      <3>4. ASSUME NEW k \in Keys \ (Held \cup untold')
            PROVE  /\ Speaks(queue', k) => Speaks(queue, k)
                   /\ e = Closed(k) \/ Ends(queue, k) => Ends(queue', k)
        <4>1. e # Open(k) /\ queue[i] # Closed(k)
          BY <3>3
        <4>2. /\ Speaks(R, k) => Speaks(queue, k)
              /\ Ends(queue, k) => Ends(R, k)
          BY <1>0, <4>1, RemoveKeeps
        <4>. HIDE DEF R
        <4>3. /\ Speaks(Append(R, e), k) => Speaks(R, k)
              /\ e = Closed(k) \/ Ends(R, k) => Ends(Append(R, e), k)
          BY <3>1, <4>1, AppendSpeaks, AppendEnds
        <4>. QED
          BY <2>3, <4>2, <4>3 DEF R
      <3>. QED
        BY <2>3, <3>2, <3>3, <3>4 DEF QueueFollows
    <2>. QED
      BY <2>1, <2>2, <2>3 DEF Send
  <1>2. PanelTypeOK'
    BY <1>0, <1>1 DEF PanelInv, PanelTypeOK, QueueFollows
  <1>3. ASSUME NEW k \in Keys, k \notin Held' \cup untold'
        PROVE  /\ (k \in shown' \cup reply'.keys \/ Speaks(queue', k)) => EndIsComing(k)'
               /\ k \notin Unsent'
    <2>1. k \notin Held \cup untold
      BY <1>0, <1>1, <1>3 DEF QueueFollows
    <2>2. /\ (k \in shown \cup reply.keys \/ Speaks(queue, k)) => EndIsComing(k)
          /\ k \notin Unsent
      BY <2>1 DEF PanelInv, NoGhosts
    <2>3. /\ Speaks(queue', k) => Speaks(queue, k)
          /\ e = Closed(k) \/ Ends(queue, k) => Ends(queue', k)
      BY <1>0, <1>1, <1>3 DEF QueueFollows
    <2>4. EndIsComing(k) => EndIsComing(k)'
      <3>1. Closing(k) \/ Ends(queue, k) => Closing(k)' \/ Ends(queue', k)
        BY <2>3
      <3>. QED
        BY <3>1 DEF EndIsComing, Closing, Ends
    <2>. QED
      BY <1>0, <2>2, <2>3, <2>4
  <1>4. NoGhosts'
    BY <1>3 DEF NoGhosts
  <1>. QED
    BY <1>2, <1>4 DEF PanelInv

LEMMA QuietStepKeeps == MonitorInv /\ PanelInv /\ QuietStep => PanelInv'
  <1>. SUFFICES ASSUME MonitorInv, PanelInv, QuietStep PROVE PanelInv'
    OBVIOUS
  <1>0. Unheard
    BY DEF QuietStep
  <1>1. CASE RuleAction \/ MachineStep
    <2>1. poll' = poll /\ mapCall' = mapCall
      BY <1>1 DEF RuleAction, monitorVars, MachineStep, Tick, SocketChanges
    <2>. QED
      BY <1>0, <2>1, UnheardKeeps DEF Closing, Unsent
  <1>2. CASE QuietCallStep
    <2>1. poll' = poll
      BY <1>2 DEF QuietCallStep, SetScope, AskClear, ClearMap, DecideHost, RecordHost,
                  ReportHost, CallOnly
    <2>2. ASSUME NEW b \in MapClients, mapCall'[b].at = "send"
          PROVE  mapCall'[b] = mapCall[b] \/ mapCall'[b].label \in Held'
      <3>0. mapCall \in [MapClients -> MapCalls]
        BY DEF MonitorInv, CallInv
      <3>1. PICK c \in MapClients :
              \/ SetScope(c) \/ AskClear(c) \/ ClearMap(c) \/ DecideHost(c) \/ RecordHost(c)
              \/ \E h \in Hosts : ReportHost(c, h)
        BY <1>2 DEF QuietCallStep
      <3>2. CASE RecordHost(c)
        BY <3>2, RecordHostKeeps
      <3>3. CASE DecideHost(c)
        BY <2>2, <3>0, <3>3 DEF DecideHost, MapCalls
      <3>4. CASE ClearMap(c)
        BY <2>2, <3>0, <3>4, IdleType DEF ClearMap, Return
      <3>5. CASE SetScope(c) \/ AskClear(c) \/ \E h \in Hosts : ReportHost(c, h)
        BY <2>2, <3>0, <3>5 DEF SetScope, AskClear, ReportHost, Call, Idle
      <3>. QED
        BY <3>1, <3>2, <3>3, <3>4, <3>5
    <2>3. \A k \in Unsent' : k \in Unsent \cup Held'
      BY <2>1, <2>2 DEF Unsent
    <2>. QED
      BY <1>0, <2>1, <2>3, UnheardKeeps DEF Closing
  <1>. QED
    BY <1>1, <1>2 DEF QuietStep

LEMMA PollQuietlyKeeps == MonitorInv /\ PanelInv /\ PollQuietly => PanelInv'
  <1>. SUFFICES ASSUME MonitorInv, PanelInv, PollQuietly PROVE PanelInv'
    OBVIOUS
  <1>0. Unheard /\ mapCall' = mapCall /\ poll \in Polls
    BY DEF PollQuietly, BeginPoll, List, Record, Snapshot, Sleep, LookUp, PollOnly,
           MonitorInv, PollInv
  <1>1. poll.at # "close"
    BY DEF PollQuietly, BeginPoll, List, Record, Snapshot, Sleep, LookUp
  <1>2. ASSUME poll'.at = "send"
        PROVE  poll'.key \in Held'
    <2>1. CASE Record
      BY <1>0, <2>1, RecordKeeps DEF Record, Polls
    <2>2. CASE BeginPoll \/ List
      BY <1>0, <1>2, <2>2, AsleepType DEF BeginPoll, List, Polls
    <2>3. CASE Snapshot \/ Sleep \/ \E s \in Sockets : LookUp(s)
      BY <1>0, <1>2, <2>3, AsleepType DEF Snapshot, Sleep, LookUp, Polls
    <2>. QED
      BY <2>1, <2>2, <2>3 DEF PollQuietly
  <1>3. \A k \in Unsent' : k \in Unsent \cup Held'
    BY <1>0, <1>2 DEF Unsent
  <1>. QED
    BY <1>0, <1>1, <1>3, UnheardKeeps DEF Closing

\* A socket that the poll removes it closes next.
LEMMA ReapStepKeeps == MonitorInv /\ PanelInv /\ ReapStep => PanelInv'
  <1>. SUFFICES ASSUME MonitorInv, PanelInv, NEW s \in Sockets, Reap(s), UNCHANGED panelVars
                PROVE  PanelInv'
    BY DEF ReapStep
  <1>1. /\ MonitorInv' /\ Held' = Held \ {s}
        /\ s \in Held => poll'.at = "close" /\ poll'.key = s
        /\ s \notin Held => poll'.at = "reap"
        /\ poll.at = "reap"
    BY ReapKeeps
  <1>2. mapCall' = mapCall
    BY DEF Reap
  <1>3. PanelTypeOK'
    BY DEF PanelInv, PanelTypeOK, panelVars
  <1>4. ASSUME NEW k \in Keys, k \notin Held' \cup untold'
        PROVE  /\ (k \in shown' \cup reply'.keys \/ Speaks(queue', k)) => EndIsComing(k)'
               /\ k \notin Unsent'
    <2>1. CASE k \in Held
      <3>1. k = s /\ poll'.at = "close" /\ poll'.key = k
        BY <1>1, <1>4, <2>1
      <3>2. EndIsComing(k)'
        BY <3>1 DEF EndIsComing
      <3>3. \A c \in MapClients : mapCall[c].at = "send" => mapCall[c].label \in Labels
        BY DEF MonitorInv, CallInv, CallShape
      <3>4. k \notin Labels
        BY <3>1, SocketAssumption
      <3>5. k \notin Unsent'
        BY <1>2, <3>1, <3>3, <3>4 DEF Unsent
      <3>. QED
        BY <3>2, <3>5
    <2>2. CASE k \notin Held
      <3>1. k \notin Held \cup untold
        BY <1>4, <2>2 DEF panelVars
      <3>2. /\ (k \in shown \cup reply.keys \/ Speaks(queue, k)) => EndIsComing(k)
            /\ k \notin Unsent
        BY <3>1 DEF PanelInv, NoGhosts
      <3>3. EndIsComing(k) => EndIsComing(k)'
        BY <1>1 DEF EndIsComing, panelVars
      <3>4. k \notin Unsent'
        BY <1>1, <1>2, <3>2 DEF Unsent
      <3>. QED
        BY <3>2, <3>3, <3>4 DEF panelVars
    <2>. QED
      BY <2>1, <2>2
  <1>5. NoGhosts'
    BY <1>4 DEF NoGhosts
  <1>. QED
    BY <1>3, <1>5 DEF PanelInv

\* What is about to be announced is held or untold.
LEMMA UnsentIsHeld == PanelInv => \A k \in Unsent : k \in Held \cup untold
  BY DEF PanelInv, NoGhosts, Unsent

LEMMA AnnounceStepKeeps == MonitorInv /\ PanelInv /\ AnnounceStep => PanelInv'
  <1>. SUFFICES ASSUME MonitorInv, PanelInv, Announce, Send(Open(poll.key)) PROVE PanelInv'
    BY DEF AnnounceStep
  <1>1. /\ poll \in Polls /\ poll.at = "send" /\ poll'.at = "walk"
        /\ poll.key \in Sockets /\ poll.key \in Keys
        /\ conns' = conns /\ mapCall' = mapCall
    BY DEF Announce, PollOnly, MonitorInv, PollInv, PollShape, Polls, Keys
  <1>2. poll.key \in Unsent
    BY <1>1 DEF Unsent
  <1>3. poll.key \in Held \cup untold
    BY <1>2, UnsentIsHeld
  <1>4. Unsent' \subseteq Unsent
    BY <1>1 DEF Unsent
  <1>5. \A k \in Keys : ~Closing(k)
    BY <1>1 DEF Closing
  <1>6. \A k \in Keys : Open(poll.key) = Open(k) => k \in Held \cup untold
    BY <1>1, <1>3, EventTypes
  <1>. QED
    BY <1>1, <1>4, <1>5, <1>6, SendKeeps, EventTypes

LEMMA CloseStepKeeps == MonitorInv /\ PanelInv /\ CloseStep => PanelInv'
  <1>. SUFFICES ASSUME MonitorInv, PanelInv, AnnounceClosed, Send(Closed(poll.key))
                PROVE PanelInv'
    BY DEF CloseStep
  <1>1. /\ poll \in Polls /\ poll.at = "close" /\ poll'.at = "reap"
        /\ poll.key \in Sockets /\ poll.key \in Keys
        /\ conns' = conns /\ mapCall' = mapCall
    BY DEF AnnounceClosed, PollOnly, MonitorInv, PollInv, PollShape, Polls, Keys
  <1>2. Unsent' \subseteq Unsent
    BY <1>1 DEF Unsent
  <1>3. \A k \in Keys : Closing(k) => Closed(poll.key) = Closed(k)
    BY DEF Closing
  <1>4. \A k \in Keys : Closed(poll.key) # Open(k)
    BY <1>1, EventTypes
  <1>. QED
    BY <1>1, <1>2, <1>3, <1>4, SendKeeps, EventTypes

LEMMA HostStepKeeps == MonitorInv /\ PanelInv /\ HostStep => PanelInv'
  <1>. SUFFICES ASSUME MonitorInv, PanelInv, NEW c \in MapClients,
                       SendHost(c), Send(Open(mapCall[c].label))
                PROVE PanelInv'
    BY DEF HostStep
  <1>. DEFINE l == mapCall[c].label
  <1>1. /\ mapCall \in [MapClients -> MapCalls] /\ mapCall[c].at = "send"
        /\ l \in Labels /\ l \in Keys
        /\ conns' = conns /\ poll' = poll
        /\ mapCall' = [mapCall EXCEPT ![c] = Idle]
    BY DEF SendHost, Return, CallOnly, MonitorInv, CallInv, CallShape, Keys
  <1>2. l \in Unsent
    BY <1>1 DEF Unsent
  <1>3. l \in Held \cup untold
    BY <1>2, UnsentIsHeld
  <1>4. Unsent' \subseteq Unsent
    BY <1>1, IdleType DEF Unsent
  <1>5. \A k \in Keys : Closing(k) => Closing(k)'
    BY <1>1 DEF Closing
  <1>6. \A k \in Keys : Open(l) = Open(k) => k \in Held \cup untold
    BY <1>1, <1>3, EventTypes
  <1>7. Open(l) \in Events /\ Send(Open(l))
    BY <1>1, EventTypes
  <1>. QED
    BY <1>1, <1>4, <1>5, <1>6, <1>7, SendKeeps

LEMMA RestartStepKeeps == MonitorInv /\ PanelInv /\ RestartStep => PanelInv'
  <1>. SUFFICES ASSUME MonitorInv, PanelInv, RestartStep PROVE PanelInv'
    OBVIOUS
  <1>. DEFINE lost == Held \cup Told(queue) \cup IF poll.at = "close" THEN {poll.key} ELSE {}
  <1>1. /\ conns' = NoConns /\ poll' = Asleep /\ mapCall' = NoCalls
        /\ socket' = FALSE /\ queue' = <<>> /\ shown' = shown
        /\ reply' = NoReply \/ reply' = reply
        /\ untold' = untold \cup lost
    BY DEF RestartStep, Restart
  <1>2. lost \subseteq Keys
    BY DEF Held, Told, MonitorInv, PollInv, PollShape, Keys
  <1>3. Held' = {}
    BY <1>1, MapCleared
  <1>4. Unsent' = {}
    BY <1>1, AsleepType, IdleType DEF Unsent, NoCalls
  <1>5. queue' \in Seq(Events) /\ Len(queue') <= Capacity
    BY <1>1, CapacityAssumption
  <1>6. PanelTypeOK'
    <2>1. untold' \subseteq Keys
      <3>. HIDE DEF lost
      <3>. QED
        BY <1>1, <1>2 DEF PanelInv, PanelTypeOK
    <2>2. reply' \in [at : {"none", "asked", "sent"}, keys : SUBSET Keys]
      BY <1>1 DEF PanelInv, PanelTypeOK, NoReply
    <2>. QED
      BY <1>1, <1>5, <2>1, <2>2 DEF PanelInv, PanelTypeOK
  <1>7. ASSUME NEW k \in Keys, k \notin untold'
        PROVE  k \notin shown' \cup reply'.keys /\ ~Speaks(queue', k)
    <2>1. k \notin Held \cup untold /\ k \notin Told(queue) /\ ~Closing(k)
      BY <1>1, <1>7 DEF Closing
    <2>2. ~EndIsComing(k)
      BY <2>1 DEF EndIsComing, Closing, Told
    <2>3. k \notin shown \cup reply.keys
      BY <2>1, <2>2 DEF PanelInv, NoGhosts
    <2>4. reply'.keys \subseteq reply.keys
      BY <1>1 DEF NoReply
    <2>5. ~Speaks(queue', k)
      BY <1>1 DEF Speaks
    <2>. QED
      BY <1>1, <2>3, <2>4, <2>5
  <1>. QED
    BY <1>3, <1>4, <1>6, <1>7 DEF PanelInv, NoGhosts

\* A step of the panel: at most a call is made of the monitor.
PanelStep ==
    OpenPanel \/ ReadMap \/ ReplyFails \/ ShowMap \/ Connect \/ Disconnect \/ Receive \/ ClickScope

LEMMA PanelStepAsks ==
    PanelStep => UNCHANGED vars \/ \E c \in MapClients, s \in Scopes : AskScope(c, s)
  BY DEF PanelStep, OpenPanel, ReadMap, ReplyFails, ShowMap, Connect, Disconnect, Receive,
         ClickScope, Scopes

LEMMA AskingFacts ==
    ASSUME MonitorInv, PanelStep
    PROVE  poll' = poll /\ Held' = Held /\ Unsent' \subseteq Unsent
  <1>1. CASE UNCHANGED vars
    BY <1>1, HeldSame DEF vars, monitorVars, Unsent
  <1>2. ASSUME NEW c \in MapClients, NEW s \in Scopes, AskScope(c, s)
        PROVE  poll' = poll /\ Held' = Held /\ Unsent' \subseteq Unsent
    <2>1. poll' = poll /\ Held' = Held
      BY <1>2, HeldSame DEF AskScope, CallOnly
    <2>2. mapCall'[c].at = "scope" /\ \A b \in MapClients \ {c} : mapCall'[b] = mapCall[b]
      BY <1>2 DEF AskScope, Call, Idle, MonitorInv, CallInv
    <2>3. Unsent' \subseteq Unsent
      BY <2>1, <2>2 DEF Unsent
    <2>. QED
      BY <2>1, <2>3
  <1>. QED
    BY <1>1, <1>2, PanelStepAsks

\* What the panel knows of k after a step of its own has its end coming.
LEMMA PanelStepGhosts ==
    ASSUME MonitorInv, PanelInv, PanelStep,
           PanelTypeOK',
           \A k \in Keys \ (Held \cup untold') :
                /\ k \notin untold \/ k \notin Unsent
                /\ k \in shown' \cup reply'.keys \/ Speaks(queue', k) =>
                    /\ k \notin untold
                    /\ k \in shown \cup reply.keys \/ Speaks(queue, k)
                    /\ Ends(queue, k) => Ends(queue', k)
    PROVE  PanelInv'
  <1>1. poll' = poll /\ Held' = Held /\ Unsent' \subseteq Unsent
    BY AskingFacts
  <1>2. ASSUME NEW k \in Keys, k \notin Held' \cup untold'
        PROVE  /\ (k \in shown' \cup reply'.keys \/ Speaks(queue', k)) => EndIsComing(k)'
               /\ k \notin Unsent'
    <2>1. k \notin Unsent'
      BY <1>1, <1>2 DEF PanelInv, NoGhosts
    <2>2. ASSUME k \in shown' \cup reply'.keys \/ Speaks(queue', k)
          PROVE  EndIsComing(k)'
      <3>1. EndIsComing(k) /\ (Ends(queue, k) => Ends(queue', k))
        BY <1>1, <1>2, <2>2 DEF PanelInv, NoGhosts
      <3>. QED
        BY <1>1, <3>1 DEF EndIsComing, Ends
    <2>. QED
      BY <2>1, <2>2
  <1>. QED
    BY <1>2 DEF PanelInv, NoGhosts

LEMMA PanelStepKeeps == MonitorInv /\ PanelInv /\ PanelStep => PanelInv'
  <1>. SUFFICES ASSUME MonitorInv, PanelInv, PanelStep PROVE PanelInv'
    OBVIOUS
  <1>0. /\ PanelTypeOK /\ queue \in Seq(Events) /\ untold \subseteq Keys
        /\ \A k \in Keys \ (Held \cup untold) : k \notin Unsent
    BY DEF PanelInv, PanelTypeOK, NoGhosts
  <1>1. Held \subseteq Keys
    BY DEF Held
  <1>2. <<>> \in Seq(Events) /\ Len(<<>>) <= Capacity /\ \A k : ~Speaks(<<>>, k)
    BY CapacityAssumption DEF Speaks
  <1>3. CASE OpenPanel
    <2>1. PanelTypeOK'
      BY <1>0, <1>2, <1>3 DEF OpenPanel, PanelTypeOK
    <2>2. \A k : k \notin shown' \cup reply'.keys /\ ~Speaks(queue', k)
      BY <1>2, <1>3 DEF OpenPanel
    <2>3. untold' = untold \cap Unsent
      BY <1>3 DEF OpenPanel
    <2>. QED
      BY <1>0, <2>1, <2>2, <2>3, PanelStepGhosts
  <1>4. CASE ReadMap
    <2>1. PanelTypeOK'
      BY <1>0, <1>1, <1>4 DEF ReadMap, PanelTypeOK
    <2>2. reply'.keys = Held
      BY <1>4 DEF ReadMap
    <2>. QED
      BY <1>0, <1>4, <2>1, <2>2, PanelStepGhosts DEF ReadMap
  <1>5. CASE ReplyFails
    <2>1. PanelTypeOK'
      BY <1>0, <1>5 DEF ReplyFails, PanelTypeOK, NoReply
    <2>2. reply'.keys = {}
      BY <1>5 DEF ReplyFails, NoReply
    <2>. QED
      BY <1>0, <1>5, <2>1, <2>2, PanelStepGhosts DEF ReplyFails
  <1>6. CASE ShowMap
    <2>1. PanelTypeOK'
      BY <1>0, <1>6 DEF ShowMap, PanelTypeOK, NoReply
    <2>2. reply'.keys = {}
      BY <1>6 DEF ShowMap, NoReply
    <2>. QED
      BY <1>0, <1>6, <2>1, <2>2, PanelStepGhosts DEF ShowMap
  <1>7. CASE Connect
    BY <1>0, <1>7, PanelStepGhosts DEF Connect, PanelTypeOK
  <1>8. CASE Disconnect
    <2>1. PanelTypeOK'
      BY <1>0, <1>2, <1>8 DEF Disconnect, PanelTypeOK, Told
    <2>2. \A k \in Keys \ (Held \cup untold') : k \notin untold /\ ~Ends(queue, k)
      BY <1>8 DEF Disconnect, Ends, Told
    <2>. QED
      BY <1>0, <1>2, <1>8, <2>1, <2>2, PanelStepGhosts DEF Disconnect
  <1>9. CASE Receive
    <2>. DEFINE k1 == Head(queue).key
    <2>1. /\ queue # <<>> /\ queue' = Tail(queue) /\ reply' = reply /\ socket' = socket
          /\ \/ /\ Head(queue).kind = "connection"
                /\ shown' = shown \cup {k1} /\ untold' = untold
             \/ /\ Head(queue).kind # "connection"
                /\ shown' = shown \ {k1}
                /\ untold' = untold \cup ((reply.keys \cap {k1}) \ Held)
      BY <1>9 DEF Receive
    <2>2. /\ Tail(queue) \in Seq(Events) /\ Len(Tail(queue)) = Len(queue) - 1
          /\ Head(queue) \in Events /\ k1 \in Keys /\ Len(queue) \in Nat
      BY <1>0, <2>1, EventTypes
    <2>3. PanelTypeOK'
      BY <1>0, <2>1, <2>2, CapacityAssumption DEF PanelTypeOK
    <2>4. untold \subseteq untold'
      BY <2>1
    <2>5. ASSUME NEW k \in Keys \ (Held \cup untold'),
                 k \in shown' \cup reply'.keys \/ Speaks(queue', k)
          PROVE  /\ k \in shown \cup reply.keys \/ Speaks(queue, k)
                 /\ Ends(queue, k) => Ends(queue', k)
      <3>1. /\ Speaks(Tail(queue), k) => Speaks(queue, k)
            /\ Head(queue) = Open(k) => Speaks(queue, k)
            /\ (Head(queue) # Closed(k) \/ Speaks(Tail(queue), k)) /\ Ends(queue, k)
                => Ends(Tail(queue), k)
        BY <1>0, <2>1, TailKeeps
      <3>2. CASE Head(queue).kind = "connection"
        <4>1. Head(queue) = Open(k1)
          BY <2>2, <3>2, EventTypes
        <4>2. Head(queue) # Closed(k)
          BY <2>2, <4>1, EventTypes
        <4>. QED
          BY <2>1, <2>5, <3>1, <3>2, <4>1, <4>2
      <3>3. CASE Head(queue).kind # "connection"
        <4>1. Head(queue) = Closed(k1)
          BY <2>2, <3>3, EventTypes
        <4>2. k = k1 => k \notin shown' \cup reply'.keys
          BY <2>1, <2>5, <3>3
        <4>3. Head(queue) = Closed(k) => k = k1
          BY <2>2, <4>1, EventTypes
        <4>. QED
          BY <2>1, <2>5, <3>1, <3>3, <4>2, <4>3
      <3>. QED
        BY <3>2, <3>3
    <2>. QED
      BY <1>0, <2>3, <2>4, <2>5, PanelStepGhosts
  <1>10. CASE ClickScope
    <2>1. PanelTypeOK'
      BY <1>0, <1>10 DEF ClickScope, PanelTypeOK
    <2>. QED
      BY <1>0, <1>10, <2>1, PanelStepGhosts DEF ClickScope
  <1>. QED
    BY <1>3, <1>4, <1>5, <1>6, <1>7, <1>8, <1>9, <1>10 DEF PanelStep

LEMMA PanelNextSteps == [PanelNext]_allVars => [MonitorNext]_vars
  <1>. SUFFICES ASSUME PanelNext PROVE MonitorNext \/ UNCHANGED vars
    BY DEF allVars
  <1>1. CASE QuietStep \/ RestartStep
    BY <1>1 DEF QuietStep, RestartStep, MonitorNext
  <1>2. CASE PollInPanel
    BY <1>2 DEF PollInPanel, PollQuietly, ReapStep, AnnounceStep, CloseStep,
                MonitorNext, QuietPollStep
  <1>3. CASE HostStep
    BY <1>3 DEF HostStep, MonitorNext
  <1>4. CASE PanelStep
    BY <1>4, PanelStepAsks DEF MonitorNext
  <1>. QED
    BY <1>1, <1>2, <1>3, <1>4 DEF PanelNext, PanelStep

\* The panel leaves the monitor as it is: with it, the monitor behaves as it
\* does alone (server.rs, map and ws_loop only read and send).
THEOREM PanelImplementsMonitor == PanelSpec => MonitorSpec
  <1>1. PanelInit => MonitorInit
    BY DEF PanelInit
  <1>. QED
    BY <1>1, PanelNextSteps, PTL DEF PanelSpec, MonitorSpec

LEMMA PanelKept == MonitorInv /\ PanelInv /\ [PanelNext]_allVars => PanelInv'
  <1>. SUFFICES ASSUME MonitorInv, PanelInv, [PanelNext]_allVars PROVE PanelInv'
    OBVIOUS
  <1>1. CASE PanelNext
    BY <1>1, QuietStepKeeps, PollQuietlyKeeps, ReapStepKeeps, AnnounceStepKeeps, CloseStepKeeps,
       HostStepKeeps, RestartStepKeeps, PanelStepKeeps
    DEF PanelNext, PollInPanel, PanelStep
  <1>2. CASE UNCHANGED allVars
    <2>1. Held' = Held /\ Unsent' = Unsent
      BY <1>2, HeldSame DEF allVars, vars, monitorVars, Unsent
    <2>2. \A k : EndIsComing(k)' <=> EndIsComing(k)
      BY <1>2 DEF allVars, vars, monitorVars, panelVars, EndIsComing
    <2>. QED
      BY <1>2, <2>1, <2>2 DEF allVars, panelVars, PanelInv, PanelTypeOK, NoGhosts
  <1>. QED
    BY <1>1, <1>2

THEOREM PanelInvariant == PanelSpec => []PanelInv
  <1>1. PanelSpec => [](RulesInv /\ MonitorInv)
    BY PanelImplementsMonitor, MonitorInvariant, PTL
  <1>. QED
    BY <1>1, PanelInitial, PanelKept, PTL DEF PanelSpec

\* The panel's state always has its types, and the subscriber is never further
\* behind than its channel holds (server.rs, ws_loop).
THEOREM PanelTypeCorrect == PanelSpec => []PanelTypeOK
  BY PanelInvariant, PTL DEF PanelInv

LEMMA NoGhostsGivesCause == PanelInv => GhostsHaveACause
  BY DEF PanelInv, PanelTypeOK, NoGhosts, GhostsHaveACause

\* Every connection the panel shows and the monitor has forgotten is about to be
\* closed or has one of the known causes (netmon.rs, server.rs, bearnet.html).
THEOREM GhostsAreExplained == PanelSpec => []GhostsHaveACause
  BY PanelInvariant, NoGhostsGivesCause, PTL

=============================================================================
