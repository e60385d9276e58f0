------------------------------- MODULE MCPril -------------------------------
(***************************************************************************)
(* An instance of Pril for TLC, in two scenarios that are chosen once:     *)
(* the list alone with every entry, and two walks over a list of three.    *)
(* The walks are interchangeable: the code compares only the addresses     *)
(* they stand on.                                                          *)
(***************************************************************************)
EXTENDS Pril, TLC

VARIABLE scenario

MCvars == <<vars, scenario>>
MCInit == Init /\ scenario \in {"list", "walks"}
MCNext ==
    /\ Next
    /\ UNCHANGED scenario
    /\ scenario = "list" => update_list' = <<>>
    /\ scenario = "walks" => OnList(list') \subseteq 1..3
MCSpec == MCInit /\ [][MCNext]_MCvars

UpdaterSymmetry == Permutations(Updater)
=============================================================================
