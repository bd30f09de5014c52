-------------------------- MODULE MCCaptureSession --------------------------
(* Small instance of CaptureSession. *)
EXTENDS CaptureSession, TLC

Ask(action, actor, gesture, token) ==
    [action |-> action, actor |-> actor, gesture |-> gesture, token |-> token]

\* What the panel sends, an agent that says it has a gesture, and a stop with
\* the token of another action.
MCAsked == {Ask("capture-start", "user", TRUE, "capture-start"),
            Ask("capture-start", "agent", TRUE, "any"),
            Ask("capture-stop", "agent", FALSE, "capture-stop"),
            Ask("capture-stop", "user", TRUE, "capture-start"),
            Ask("capture-export", "user", TRUE, "any")}

MCSymmetry == Permutations(Req)
=============================================================================
