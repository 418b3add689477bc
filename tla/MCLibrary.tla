------------------------------ MODULE MCLibrary ------------------------------
(* The parts that everything else is built from, each by itself: a behaviour   *)
(* uses the lists, or the errors.                                              *)
EXTENDS Errors, Lists

VARIABLE part

\* The comparison of list_replace_items is any function, transitive or not
MCSimilar == {<<1, 2>>, <<2, 1>>, <<2, 3>>, <<3, 2>>}

MCCodes == {2, 500, 7905, 16511}

PartsInit == ListsInit /\ Init /\ part \in {"lists", "errors"}
PartsNext ==
    /\ UNCHANGED part
    /\ \/ part = "lists" /\ ListsNext /\ UNCHANGED vars
       \/ part = "errors" /\ Next /\ UNCHANGED listVars
PartsSpec ==
    /\ PartsInit /\ [][PartsNext]_<<listVars, vars, part>>
    /\ WF_listVars(part = "lists" /\ Replacing /\ UNCHANGED <<vars, part>>)
    /\ WF_vars(part = "errors" /\ (Show \/ EndDisp) /\ UNCHANGED <<listVars, part>>)
=============================================================================
