------------------------ MODULE MCConnectionMonitor ------------------------
(* Small instances of ConnectionMonitor, in which requests for rules or for   *)
(* the map run beside the poll.                                               *)
EXTENDS ConnectionMonitor, TLC

CONSTANTS s1, s2, name, address, tail

\* One remote address, with an owner's name that dig may find or not; the last
\* two labels of the address are a third label.
MCLabels == {name, address, tail}
MCEtld == [l \in MCLabels |-> IF l = address THEN tail ELSE l]
MCAddresses == {address}
MCAddressOf == [s \in Sockets |-> address]
MCNames == [a \in MCAddresses |-> {name, address}]
MCWishes == {<<name, "block">>, <<address, "block">>}

VARIABLE beside     \* which requests there are

mcVars == <<vars, beside>>

MCInit ==
    /\ MonitorInit
    /\ beside \in {"rules", "map"}
    /\ beside = "rules" => open \subseteq OfBrowser

MCNext ==
    /\ MonitorNext
    /\ UNCHANGED beside
    /\ IF beside = "rules" THEN UNCHANGED mapCall /\ open' \subseteq OfBrowser
                           ELSE UNCHANGED ruleCall

MCSpec == MCInit /\ [][MCNext]_mcVars /\ Fairness
=============================================================================
