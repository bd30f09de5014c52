---------------------------- MODULE MCMemoryMesh ----------------------------
(* Small instance of MemoryMesh. *)
EXTENDS MemoryMesh
CONSTANTS t1, t2, t3, watch, push, pull, s1, s2

MCMode == [b \in {watch, push, pull} |->
             IF b = watch THEN "both" ELSE IF b = push THEN "push" ELSE "pull"]

\* One of the tools is given --actor-id ''.
MCActor == [t \in {t1, t2, t3} |-> IF t = t3 THEN "empty" ELSE "human"]

Emission(type, decision) == [type |-> type, decision |-> decision]

\* Two that are written, and two that emit-event refuses.
MCEmissions == {Emission("navigation.committed", "observe"),
                Emission("navigation.committed", "deny"),
                Emission("navigation.committed", "denied"),
                Emission("tab.selected", "observe")}

Deploy(actors, r, e, notes) ==
    [with |-> actors, records |-> r, events |-> e, notes |-> notes]

\* Two tools; a tool and the page; two bridges that push into a mesh that is
\* cut; one that is alone with events and summaries, and with a mesh of notes;
\* two that pull; a tool and a bridge; two syncers.
MCDeployments == {Deploy({t1, t2}, 3, 2, {}),
                  Deploy({t3, Sidecar}, 3, 2, {}),
                  Deploy({watch, push, Shell, Others}, 1, 1, {1}),
                  Deploy({watch, Shell, Summarizer, Others}, 2, 1, {1}),
                  Deploy({watch, Shell, Others}, 3, 1, {1, 2}),
                  Deploy({watch, pull, Others}, 3, 0, {1}),
                  Deploy({t1, watch}, 2, 2, {}),
                  Deploy({s1, s2, Blocker}, 0, 2, {})}
MCNotes == {1, 2}
=============================================================================
