----------------------------- MODULE MCSharedLog ----------------------------
(* Small instance of SharedLog. *)
EXTENDS SharedLog, TLC

\* Lines of different length: the shell's may be the longer or the shorter.
CONSTANTS t1, t2, s1, s2

MCLength == (t1 :> 2) @@ (t2 :> 1) @@ (s1 :> 1) @@ (s2 :> 3)
=============================================================================
