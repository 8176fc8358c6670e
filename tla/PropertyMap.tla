---------------------------- MODULE PropertyMap ----------------------------
(***************************************************************************)
(* What the property files promise a reader: one map from names to values  *)
(* for every node and relation.  An entry is added once; its value is      *)
(* never replaced and never taken away.                                    *)
(***************************************************************************)
CONSTANTS Owners, Names, Data, NoValue

VARIABLE properties

MapInit == properties = [o \in Owners |-> [n \in Names |-> NoValue]]

Put(o, n, d) ==
    /\ properties[o][n] = NoValue
    /\ properties' = [properties EXCEPT ![o][n] = d]

MapNext == \E o \in Owners, n \in Names, d \in Data : Put(o, n, d)

MapSpec == MapInit /\ [][MapNext]_properties
=============================================================================
