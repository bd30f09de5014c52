--------------------------- MODULE MCBearNetPanel ---------------------------
(* Small instances of BearNetPanel. *)
EXTENDS BearNetPanel, TLC

CONSTANTS s1, s2, name, address, tail

\* A remote address without an owner's name, and one host the hook reports.
MCLabels == {name, address, tail}
MCEtld == [l \in MCLabels |-> IF l = address THEN tail ELSE l]
MCAddresses == {address}
MCAddressOf == [s \in Sockets |-> address]
MCNames == [a \in MCAddresses |-> {address}]
MCWishes == {<<address, "block">>}
=============================================================================
