----------------------------- MODULE MCBearSpaces -----------------------------
(* Small instance of BearSpaces. *)
EXTENDS BearSpaces, TLC

\* Two tabs in one window, and one in another.
CONSTANTS a, b, c, w1, w2

MCWindowOf == (a :> w1) @@ (b :> w1) @@ (c :> w2)
MCSession == {{a}, {b}, {a, b, c}}

\* Spaces, slots and the tabs of a window are only told apart by what refers
\* to them.
MCSymmetry == Permutations({a, b}) \cup Permutations(Space) \cup Permutations(Slot)

CONSTANTS
    MaxOverlapping,     \* bound: handlers, once two have overlapped
    MaxDisturbances     \* bound: restarts and failures together

\* Nothing is followed that began before the saved state was there.
MCBound ==
    /\ race # "loading"
    /\ race = "running" => handlers <= MaxOverlapping
    /\ restarts + failures <= MaxDisturbances
=============================================================================
