---------------------------- MODULE MCAppStorage ---------------------------
(* AppStorage for the model checker.  Of the parent of a device whose entry  *)
(* a container overwrites, the module only asks whether it is that           *)
(* container's: one parent that is not stands for all.                      *)
EXTENDS AppStorage

MCInit ==
    /\ Init
    /\ \A d \in Device \intersect Container :
           deviceParent[d] \in {containerParent[d], d}

MCSpec == MCInit /\ [][Next]_vars
============================================================================
