---------------------------- MODULE PolicyEngine ----------------------------
(***************************************************************************)
(* scripts/bearbrowser-policy-engine.py: one process answers one action    *)
(* for one profile from the operator's policy file, appends the decision   *)
(* to decisions.jsonl and, when it is a hold, to hold-queue.jsonl, and     *)
(* tells its caller with its exit code.                                    *)
(*                                                                         *)
(* A decision is named by its position in decisions.jsonl.  An append is   *)
(* one step, and may fail.                                                 *)
(***************************************************************************)
EXTENDS Naturals, Sequences

CONSTANTS
    Process,        \* runs of the engine
    Policies,       \* policy files, and the parser that the machine has
    MaxFaults       \* bound: failures of writes, and kills

VARIABLES
    policy,         \* the operator's policy file, and its parser
    decisions,      \* decisions.jsonl
    holdQueue,      \* hold-queue.jsonl
    ask,            \* of each engine: what it was asked,
    epc, answer,    \* where it is, and what it answered
    faults

engineVars == <<policy, decisions, holdQueue, ask, epc, answer>>

-----------------------------------------------------------------------------
HumanSecureDefaults ==
    [action \in {"navigate", "summarize_page", "compare_tabs", "share_page_with_agent",
                 "request_credential", "request_autofill", "download_file", "upload_file",
                 "read_clipboard", "write_clipboard", "run_automation",
                 "write_memory_candidate", "commit_memory"} |->
        CASE action = "navigate"       -> "allow"
          [] action = "summarize_page" -> "observe"
          [] OTHER                     -> "hold"]

KnownActions == DOMAIN HumanSecureDefaults

\* A policy file has the decisions of some actions and, for some profiles, of
\* some actions.  A decision is a word, in quotes or not, or is not given.
Plain(word) == [word |-> word, quoted |-> FALSE]
Quoted(word) == [word |-> word, quoted |-> TRUE]
NotGiven == Plain("none")

\* PyYAML takes only a file with a mapping in it.  The engine's own parser, used
\* when PyYAML is not installed, skips what it does not understand.
Readable ==
    \/ policy.form = "mapping"
    \/ policy.form \in {"empty", "malformed"} /\ policy.parser = "minimal"

\* What a decision reads as: the engine's own parser keeps the quotes.  A word
\* that the engine does not know is taken all the same.
Reads(decision) ==
    IF decision.quoted /\ policy.parser = "minimal" THEN "in quotes" ELSE decision.word

\* _extract_policy, and the defaults for an action that the file leaves out.
BaseDecision(action) ==
    IF action \notin DOMAIN policy.actions THEN HumanSecureDefaults[action]
    ELSE IF policy.actions[action] = NotGiven THEN "hold" ELSE Reads(policy.actions[action])

KnownProfile(profile) ==
    profile \in DOMAIN policy.overrides \cup {"human-secure", "bootstrap", "unknown"}

Overridden(action, profile) ==
    /\ profile \in DOMAIN policy.overrides
    /\ action \in DOMAIN policy.overrides[profile]
    /\ policy.overrides[profile][action] # NotGiven

Decision(action, profile) ==
    IF Overridden(action, profile) THEN Reads(policy.overrides[profile][action])
    ELSE BaseDecision(action)

ExitCode(decision) ==
    CASE decision = "deny" -> 3
      [] decision = "hold" -> 2
      [] OTHER             -> 0

NoAsk == [action |-> "none", profile |-> "none", dryRun |-> FALSE]

\* of is the decision recorded; warned, whether a warning came with it.
Answer(code, of, warned) == [code |-> code, of |-> of, warned |-> warned]
NoAnswer == Answer(1, 0, FALSE)

-----------------------------------------------------------------------------
EngineInit ==
    /\ policy \in Policies
    /\ decisions = <<>>
    /\ holdQueue = <<>>
    /\ ask = [p \in Process |-> NoAsk]
    /\ epc = [p \in Process |-> "idle"]
    /\ answer = [p \in Process |-> NoAnswer]

Exit(p, reply) ==
    /\ epc' = [epc EXCEPT ![p] = "exited"]
    /\ answer' = [answer EXCEPT ![p] = reply]

Fault ==
    /\ faults < MaxFaults
    /\ faults' = faults + 1

AskEngine(p, question) ==
    /\ epc[p] = "idle"
    /\ epc' = [epc EXCEPT ![p] = "asked"]
    /\ ask' = [ask EXCEPT ![p] = question]
    /\ UNCHANGED <<policy, decisions, holdQueue, answer>>

\* An action that is not known, a file that is not there or cannot be parsed.
Refuse(p) ==
    /\ epc[p] = "asked"
    /\ ask[p].action \notin KnownActions \/ ~Readable
    /\ Exit(p, NoAnswer)
    /\ UNCHANGED <<policy, decisions, holdQueue, ask, faults>>

Evaluates(p) == epc[p] = "asked" /\ ask[p].action \in KnownActions /\ Readable

Verdict(p) == Decision(ask[p].action, ask[p].profile)
Warned(p) == ~KnownProfile(ask[p].profile)

\* --dry-run writes nothing.
AnswerDryRun(p) ==
    /\ Evaluates(p)
    /\ ask[p].dryRun
    /\ Exit(p, Answer(ExitCode(Verdict(p)), 0, Warned(p)))
    /\ UNCHANGED <<policy, decisions, holdQueue, ask, faults>>

RecordDecision(p) ==
    /\ Evaluates(p)
    /\ ~ask[p].dryRun
    /\ decisions' = Append(decisions,
          [action |-> ask[p].action, profile |-> ask[p].profile, decision |-> Verdict(p), by |-> p])
    /\ IF Verdict(p) = "hold"
       THEN /\ epc' = [epc EXCEPT ![p] = "holding"]
            /\ answer' = [answer EXCEPT ![p] = Answer(1, Len(decisions) + 1, Warned(p))]
       ELSE Exit(p, Answer(ExitCode(Verdict(p)), Len(decisions) + 1, Warned(p)))
    /\ UNCHANGED <<policy, holdQueue, ask, faults>>

QueueHold(p) ==
    /\ epc[p] = "holding"
    /\ holdQueue' = Append(holdQueue, answer[p].of)
    /\ Exit(p, [answer[p] EXCEPT !.code = ExitCode("hold")])
    /\ UNCHANGED <<policy, decisions, ask, faults>>

\* The engine cannot write, or is killed: what it recorded before stays.
EngineFails(p) ==
    /\ epc[p] \in {"asked", "holding"}
    /\ Fault
    /\ Exit(p, NoAnswer)
    /\ UNCHANGED <<policy, decisions, holdQueue, ask>>

EngineStep(p) ==
    Refuse(p) \/ AnswerDryRun(p) \/ RecordDecision(p) \/ QueueHold(p) \/ EngineFails(p)
=============================================================================
