-------------------------- MODULE MCCommandDispatch --------------------------
(* Instances of CommandDispatch for TLC. *)
EXTENDS CommandDispatch, TLC

CONSTANTS d1, d2, c1, c2, s1, s2

\* All commands go to one device.
OneTarget == (c1 :> d1) @@ (c2 :> d1)

\* A single command.
SoleTarget == c1 :> d1

\* Bound: the device without commands is not deleted and keeps its network; its
\* agent may go away and come back.
QuietNeighbour ==
    \A d \in Devices \ {d1} :
        /\ del[d] = NoDelete
        /\ \A s \in Sessions :
              owner[s] = d /\ {"server", "client"} \subseteq alive[s]
                  => "wire" \in alive[s]

SessionSymmetry == Permutations(Sessions)
=============================================================================
