----------------------------- MODULE MCInventory ----------------------------
(* Instances of Inventory for model checking. *)
EXTENDS Inventory

Unit(c, m) == [d \in Dims |-> IF d = "cpu" THEN c ELSE m]

\* The first order asks for two small instances, the others for one instance with memory.
MCResources ==
    [o \in Orders |-> IF o = 1 THEN << [unit |-> Unit(1, 0), count |-> 2] >>
                               ELSE << [unit |-> Unit(1, 1), count |-> 1] >>]

MCCapacity == Unit(2, 1)

=============================================================================
