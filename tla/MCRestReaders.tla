--------------------------- MODULE MCRestReaders ---------------------------
(***************************************************************************)
(* TLC instance of RestReaders: an earlier run left an index that          *)
(* exchanges the two blocks of this run, or one that knows one node only.  *)
(***************************************************************************)
EXTENDS RestReaders

CONSTANTS a, b

Left == {[id \in Ids |-> IF id = a THEN 1 ELSE 0],
         [id \in Ids |-> IF id = a THEN 0 ELSE NotIndexed]}
=============================================================================
