------------------------------ MODULE Firewall ------------------------------
(***************************************************************************)
(* The firewall rules of the capture sidecar (firewall.rs, and fw_set,     *)
(* fw_clear in server.rs): rules by domain behind a mutex, saved to a file *)
(* while the mutex is held.                                                *)
(*                                                                         *)
(* fs::write empties the file, then writes it: it may fail at either, and  *)
(* its error is ignored; the sidecar may be killed between the two.  A     *)
(* file that is missing, empty or cut short loads as no rules.             *)
(***************************************************************************)
EXTENDS Naturals, FiniteSets

CONSTANTS
    Labels,         \* names rules and connections are known by
    Etld,           \* etld_plus_one of each
    RuleClients,    \* /firewall requests that are handled at a time
    Wishes          \* the pairs of label and decision they ask for

Decisions == {"ask", "allow", "block"}

ASSUME EtldAssumption == Etld \in [Labels -> Labels]
ASSUME WishesAssumption == Wishes \subseteq Labels \X Decisions

VARIABLES
    rules,      \* Firewall.rules, where no entry is "ask"
    file,       \* firewall.json: whether it parses, and what it says
    ruleCall,   \* each request: where it is, and what it sets
    meant,      \* history: for each label, what the last request answered with success set
    damaged     \* history: the labels whose rule a failed or killed write may have lost

firewallVars == <<rules, file, ruleCall, meant, damaged>>

NoRules == [l \in Labels |-> "ask"]
Quiet == [at |-> "none", labels |-> {}, decision |-> "ask"]

RuleSets == [Labels -> Decisions]
RuleCalls == [at : {"none", "gate", "empty", "write"},
              labels : SUBSET Labels, decision : Decisions]

FirewallInit ==
    /\ rules = NoRules
    /\ file = [whole |-> TRUE, rules |-> NoRules]
    /\ ruleCall = [c \in RuleClients |-> Quiet]
    /\ meant = NoRules
    /\ damaged = {}

LockFree == \A c \in RuleClients : ruleCall[c].at \notin {"empty", "write"}

\* The rule an observed connection finds.
DecisionFor(l) == rules[l]

Loaded == IF file.whole THEN file.rules ELSE NoRules

Set(f, labels, d) == [l \in Labels |-> IF l \in labels THEN d ELSE f[l]]

-----------------------------------------------------------------------------
\* POST /firewall, up to the gate.
AskRule(c) ==
    /\ ruleCall[c] = Quiet
    /\ \E w \in Wishes :
        ruleCall' = [ruleCall EXCEPT ![c] =
                        [at |-> "gate", labels |-> {Etld[w[1]]}, decision |-> w[2]]]
    /\ UNCHANGED <<rules, file, meant, damaged>>

Deny(c) ==
    /\ ruleCall[c].at = "gate"
    /\ ruleCall' = [ruleCall EXCEPT ![c] = Quiet]
    /\ UNCHANGED <<rules, file, meant, damaged>>

\* The request is permitted and takes the lock; "ask" removes the entry.
SetRule(c) ==
    /\ ruleCall[c].at = "gate"
    /\ LockFree
    /\ ruleCall' = [ruleCall EXCEPT ![c].at = "empty"]
    /\ rules' = Set(rules, ruleCall[c].labels, ruleCall[c].decision)
    /\ UNCHANGED <<file, meant, damaged>>

\* Mutant: the rules are forgotten in memory only.
ForgetInMemory(c) ==
    /\ ruleCall[c] = Quiet
    /\ LockFree
    /\ rules' = NoRules
    /\ meant' = NoRules
    /\ UNCHANGED <<file, ruleCall, damaged>>

\* DELETE /firewall takes the lock.
ForgetRules(c) ==
    /\ ruleCall[c] = Quiet
    /\ LockFree
    /\ ruleCall' = [ruleCall EXCEPT ![c] =
                        [at |-> "empty", labels |-> Labels, decision |-> "ask"]]
    /\ rules' = NoRules
    /\ UNCHANGED <<file, meant, damaged>>

-----------------------------------------------------------------------------
(* persist, with the lock held; then the request is answered.              *)

EmptyFile(c) ==
    /\ ruleCall[c].at = "empty"
    /\ ruleCall' = [ruleCall EXCEPT ![c].at = "write"]
    /\ file' = [whole |-> FALSE, rules |-> NoRules]
    /\ UNCHANGED <<rules, meant, damaged>>

Answer(c) ==
    /\ ruleCall' = [ruleCall EXCEPT ![c] = Quiet]
    /\ meant' = Set(meant, ruleCall[c].labels, ruleCall[c].decision)
    /\ UNCHANGED rules

WriteFile(c) ==
    /\ ruleCall[c].at = "write"
    /\ Answer(c)
    /\ file' = [whole |-> TRUE, rules |-> rules]
    /\ damaged' = damaged \ ruleCall[c].labels

WriteFails(c) ==
    /\ ruleCall[c].at \in {"empty", "write"}
    /\ Answer(c)
    /\ damaged' = IF file.whole THEN damaged \cup ruleCall[c].labels ELSE Labels
    /\ UNCHANGED file

SaveStep(c) == EmptyFile(c) \/ WriteFile(c) \/ WriteFails(c)

RuleStep(c) == AskRule(c) \/ Deny(c) \/ SetRule(c) \/ ForgetRules(c) \/ SaveStep(c)

\* The sidecar is killed and started again.
ReloadRules ==
    /\ rules' = Loaded
    /\ ruleCall' = [c \in RuleClients |-> Quiet]
    /\ damaged' = IF file.whole THEN damaged ELSE Labels
    /\ UNCHANGED <<file, meant>>

-----------------------------------------------------------------------------
FirewallTypeOK ==
    /\ rules \in RuleSets
    /\ file \in [whole : BOOLEAN, rules : RuleSets]
    /\ ruleCall \in [RuleClients -> RuleCalls]
    /\ meant \in RuleSets
    /\ damaged \subseteq Labels

\* What a request answered with success has set is the rule, in memory and for
\* the next sidecar, through restarts and other requests, unless a write of the
\* file failed or was cut short (Firewall::set, persist, load).
RulesAreKept ==
    LockFree => \A l \in Labels \ damaged : rules[l] = meant[l] /\ Loaded[l] = meant[l]
=============================================================================
