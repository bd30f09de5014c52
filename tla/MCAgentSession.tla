--------------------------- MODULE MCAgentSession ---------------------------
(* Small instance of AgentSession. *)
EXTENDS AgentSession
CONSTANTS b, browser, g1, f1

Ask(action, param, token) == [action |-> action, param |-> param, token |-> token]
Request(get, path, actor, gesture, token) ==
    [get |-> get, path |-> path, actor |-> actor, gesture |-> gesture, token |-> token]

\* One action of each replay class that has a command, and a click that
\* submits a form, with a token.
MCBridgeCommands == {Ask("navigate", "none", "none"),
                     Ask("click", "submit-form", "any"),
                     Ask("fill-form-field", "name", "none"),
                     Ask("fill-form-field", "password", "any")}

\* A read, a mutation without a token, a shell command of the user, and of an agent.
MCGateRequests == {Request(TRUE, {"/graph"}, "agent", FALSE, "none"),
                   Request(FALSE, {"/graph"}, "agent", FALSE, "none"),
                   Request(FALSE, {"/exec", "/status"}, "user", TRUE, "any"),
                   Request(FALSE, {"/exec", "/status"}, "agent", TRUE, "any")}

\* A browser; a follower alone; a follower and a request to the gate.
MCDeployments == {[with |-> {browser}, dispatches |-> 2],
                  [with |-> {f1}, dispatches |-> 2],
                  [with |-> {g1, f1}, dispatches |-> 1]}
=============================================================================
