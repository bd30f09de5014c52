----------------------------- MODULE PolicyGate -----------------------------
(***************************************************************************)
(* How an effect is permitted: scripts/agent-control-bridge.py classifies  *)
(* an action with policy/bearbrowser-contract.yaml and decides; the gate   *)
(* of a sidecar (gate.rs) runs it as a subprocess and believes it only if  *)
(* nothing went wrong.                                                     *)
(*                                                                         *)
(* A command carries an action, who asks and whether with a gesture, and   *)
(* an approval token: none, one without a scope, or one that names an      *)
(* action ("action:<action>").                                             *)
(***************************************************************************)
EXTENDS Naturals

\* captureActionContract, for the actions that act on a capture.
CaptureActions == {"capture-start", "capture-stop", "capture-export"}

Scopes == CaptureActions \cup {"none", "any"}
Commands == [action : CaptureActions, actor : {"user", "agent"}, gesture : BOOLEAN,
             token : Scopes]

BaseClass(action) ==
    CASE action \in {"capture-start", "capture-export"} -> "prohibited"
      [] action = "capture-stop"                        -> "gated"

\* policyConditions: a gesture of the user makes a capture gated.
Classify(c) ==
    IF /\ c.action \in {"capture-start", "capture-export"}
       /\ c.actor = "user" /\ c.gesture
    THEN "gated" ELSE BaseClass(c.action)

TokenValid(token, action) == token \in {"any", action}

\* evaluate_action
BridgePermits(c) ==
    CASE Classify(c) = "allowed"    -> TRUE
      [] Classify(c) = "gated"      -> TokenValid(c.token, c.action)
      [] Classify(c) = "prohibited" -> FALSE

-----------------------------------------------------------------------------
(* The subprocess.  Its exit code is 0 for a permit and 3 for a denial; 1  *)
(* stands for every other one.                                             *)

Reply(exit, says) == [exit |-> exit, says |-> says]

\* The command line has the command as it is: "userGesture=true" is read as a
\* Boolean, so that the conditions of the contract hold for it.
AnswerOf(c) == IF BridgePermits(c) THEN Reply(0, "permit") ELSE Reply(3, "deny")

\* main: its answer, or nothing because there is no contract.
MainReplies(c) == {AnswerOf(c), Reply(1, "nothing")}

\* What the gate gets: what main gives; nothing that parses, from a process
\* that was not spawned or was cut off; an answer, from one that then fails.
Replies(c) == MainReplies(c) \cup {Reply(1, "nothing"), Reply(1, AnswerOf(c).says)}

\* Mutant: what is no denial permits.
FailOpen(reply) == reply.says # "deny"

\* gate.rs: everything but a permit with exit code 0 is a denial.
Permitted(reply) == reply.exit = 0 /\ reply.says = "permit"
=============================================================================
