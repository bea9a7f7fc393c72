------------------------------ MODULE MCEnetHost -------------------------------
(* Two slots, so that one peer's events meet another's commands, and two       *)
(* packets, so that their order can be told.                                *)
EXTENDS EnetHost

CONSTANTS forward, backward     \* model values

\* Bound: the first slot's peer sends both packets, the other one always the same.
OnlyForward ==
    \A p \in Peers \ {1} : \A i \in 1..Len(wire[p]) :
        wire[p][i].type = "send_reliable" => wire[p][i].packet = forward

MCSpec == HostInit /\ [][HostNext /\ OnlyForward']_enetVars /\ HostFairness
================================================================================
