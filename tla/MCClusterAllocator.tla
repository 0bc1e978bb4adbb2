------------------------- MODULE MCClusterAllocator -------------------------
(* The instance of ClusterAllocator for TLC.                               *)
EXTENDS ClusterAllocator

MCMaxNodes == [c \in Names |-> 1]
MCSelects  == [d \in DPUs |-> Names]
=============================================================================
