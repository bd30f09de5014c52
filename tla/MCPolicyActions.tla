-------------------------- MODULE MCPolicyActions ---------------------------
(* Small instance of PolicyActions. *)
EXTENDS PolicyActions, TLC

\* One action the policy holds, and one it denies to an agent.
MCProposals == {<<"share_page_with_agent", "bootstrap">>,
                <<"request_credential", "agent-runtime">>}

\* Processes are only told apart by what they do.
RunSymmetry == Permutations(Run)
=============================================================================
