---------------------------- MODULE MCEmailQueue ----------------------------
(* Constants of the EmailQueue runs.                                        *)
EXTENDS EmailQueue, TLC

(* Request threads differ in nothing but their name.                        *)
Symmetry == Permutations(Producers)

(* The best case for the memory the ring is allocated in: no slot looks     *)
(* ready before its first task.  What goes wrong then is not its contents.  *)
FreshInit == Init /\ \A i \in Slots : ~slot[i].ready
FreshSpec == FreshInit /\ [][Next]_vars
=============================================================================
