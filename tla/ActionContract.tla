--------------------------- MODULE ActionContract ---------------------------
(***************************************************************************)
(* The decision of scripts/agent-control-bridge.py for two surfaces of     *)
(* policy/bearbrowser-contract.yaml: the browser and the agent machine.    *)
(* (PolicyGate has the capture surface, behind its subprocess.)            *)
(*                                                                         *)
(* A command has an action, the parameter that a condition could read (an  *)
(* intent, a field type, a user's gesture, or "none"), and a token: "none",*)
(* "any" (one without a scope) or the action it is for.                    *)
(***************************************************************************)
EXTENDS Naturals, FiniteSetsExt

Allowed == {"navigate", "read-dom", "query-selector", "extract-text", "screenshot",
            "scroll", "wait", "click", "fill-form-field",
            "read-graph", "read-knowledge", "query-status", "list-models",
            "chat-completion"}

Gated == {"submit-form", "file-download", "oauth-grant", "payment-autofill",
          "cross-origin-post", "clipboard-write", "geolocation", "camera-mic",
          "run-pipeline", "write-knowledge", "mutate-graph", "devspace-command",
          "install-package", "network-fetch"}

\* Policy.__init__; an action the contract does not have is prohibited.
BaseClass(action) ==
    CASE action \in Allowed -> "allowed"
      [] action \in Gated   -> "gated"
      [] OTHER              -> "prohibited"

\* policyConditions, in the contract's order.
Condition(on, when, class, as) == [on |-> on, when |-> when, class |-> class, as |-> as]

PolicyConditions == <<
    Condition("click", {"submit-form"}, "gated", "submit-form"),
    Condition("click", {"execute-trade"}, "prohibited", "execute-trade-or-transfer"),
    Condition("fill-form-field", {"password", "credential", "username", "totp"},
              "prohibited", "enter-credentials"),
    Condition("fill-form-field", {"card", "cardNumber", "cvv", "pan", "payment"},
              "prohibited", "enter-payment-details"),
    Condition("fill-form-field", {"ssn", "passport", "govId", "nationalId"},
              "prohibited", "enter-government-id"),
    Condition("execute-shell", {"userGesture"}, "gated", "execute-shell"),
    Condition("write-host-filesystem", {"userGesture"}, "gated", "write-host-filesystem") >>

\* _eval_logic, for the predicates the contract uses.
Holds(condition, c) == condition.on = c.action /\ c.param \in condition.when

\* Mutant: the class changes, the action does not.
ClassifyByName(c) ==
    LET matching == {i \in DOMAIN PolicyConditions : Holds(PolicyConditions[i], c)}
    IN  IF matching = {} THEN [action |-> c.action, class |-> BaseClass(c.action)]
        ELSE [action |-> c.action, class |-> PolicyConditions[Min(matching)].class]

\* The first condition that holds names the action and its class.
Classify(c) ==
    LET matching == {i \in DOMAIN PolicyConditions : Holds(PolicyConditions[i], c)}
    IN  IF matching = {} THEN [action |-> c.action, class |-> BaseClass(c.action)]
        ELSE [action |-> PolicyConditions[Min(matching)].as,
              class |-> PolicyConditions[Min(matching)].class]

TokenValid(token, action) == token \in {"any", action}

\* evaluate_action
Decision(c) ==
    LET effective == Classify(c)
    IN  IF \/ effective.class = "allowed"
           \/ effective.class = "gated" /\ TokenValid(c.token, effective.action)
        THEN "permit" ELSE "deny"

\* Replay classes, from strong to weak: exact, best-effort, evidence-only,
\* non-replayable-side-effect.  A prohibited action has none in the contract.
ReplayRank(action) ==
    CASE action \in {"screenshot", "click", "fill-form-field"} -> 1
      [] action \in {"geolocation", "camera-mic", "chat-completion"} -> 2
      [] action \in Allowed -> 0
      [] OTHER -> 3
=============================================================================
