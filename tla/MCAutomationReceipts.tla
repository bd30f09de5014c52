------------------------ MODULE MCAutomationReceipts ------------------------
(* Small instance of AutomationReceipts. *)
EXTENDS AutomationReceipts, TLC
CONSTANTS l1, l2, u1, u2, c1

None == [x \in {} |-> "none"]
Policy(parser, form, actions, overrides) ==
    [parser |-> parser, form |-> form, actions |-> actions, overrides |-> overrides]

\* The file of the repository; one that grants, and denies agents; one with a
\* denial in quotes, that knows no agent profile; an empty one, with each parser.
Local == Policy("pyyaml", "mapping",
                [a \in KnownActions |-> Plain(HumanSecureDefaults[a])],
                "agent-runtime" :> [a \in {"navigate", "request_credential", "run_automation"} |->
                                       Plain(IF a = "request_credential" THEN "deny" ELSE "hold")])
Granting == Policy("pyyaml", "mapping", "run_automation" :> Plain("allow") @@ "navigate" :> NotGiven,
                   "agent-runtime" :> ("run_automation" :> Quoted("deny")))
NoAgents == Policy("minimal", "malformed", "run_automation" :> Quoted("deny"), None)
Empty(parser) == Policy(parser, "empty", None, None)
MCPolicies == {Local, Granting, NoAgents, Empty("minimal"), Empty("pyyaml")}

MCAsks == {[action |-> "request_credential", profile |-> "agent-runtime", dryRun |-> FALSE],
           [action |-> "navigate", profile |-> "agent-runtime", dryRun |-> TRUE],
           [action |-> "scroll", profile |-> "human-secure", dryRun |-> FALSE]}

\* A session and two that update its receipt; two sessions; a session and one that asks the engine.
MCDeployments == {{l1, u1, u2}, {l1, l2}, {l1, c1}}
=============================================================================
