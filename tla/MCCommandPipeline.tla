------------------------ MODULE MCCommandPipeline ------------------------
(* Instances of CommandPipeline for TLC: the kinds of commands issued. *)
EXTENDS CommandPipeline, TLC

PodSymmetry == Permutations(Pods)

Command(code, key, camera, intent, holdable) ==
    [code |-> code, key |-> key, camera |-> camera, intent |-> intent, hold |-> holdable]

\* A stop of a camera and its start, that stop once more, a start of another
\* camera.
TwoCameras ==
    [c \in Commands |->
        CASE c \in {1, 3} -> Command("AB3", "stop1", "cam1", "stop", TRUE)
          [] c = 2 -> Command("AB2", "start1", "cam1", "start", TRUE)
          [] OTHER -> Command("AB2", "start2", "cam2", "start", TRUE)]

\* A command answered with a list, held when the device is offline, and one
\* that is rejected then.
ListOrFence ==
    [c \in Commands |-> IF c = 1 THEN Command("AB8", "list", "none", "other", TRUE)
                                 ELSE Command("B05", "fence", "none", "other", FALSE)]

\* Bound: the first command and one more, whichever.
FirstAndOther ==
    LET issued == {c \in Commands : status[c] # "NEW"}
    IN  issued \subseteq {1, 2} \/ issued \subseteq {1, 3} \/ issued \subseteq {1, 4}

\* Bounds: only one of the commands is issued, whichever, and it is written twice
\* at most.
OneIssued == /\ Cardinality({c \in Commands : status[c] # "NEW"}) <= 1
             /\ \A c \in Commands : written[c] <= 2
=============================================================================
