-------------------------- MODULE MCStoreLifecycle --------------------------
(***************************************************************************)
(* TLC instance of StoreLifecycle.  The IDs are interchangeable.  What a    *)
(* server has read is of no consequence, but for its own Get, once its      *)
(* index is not that of the node file any more or was emptied while it was *)
(* reading: TLC need not tell two states apart by that until it stops.     *)
(***************************************************************************)
EXTENDS StoreLifecycle, TLC

IdSymmetry == Permutations(Ids)

Outdated  == reader # "stopped" /\ readerEpoch # epoch
Overtaken == reader # "stopped" /\ overtaken

LifecycleView ==
    <<nodeFile, indexFile, writerState, history, reader, Outdated, Overtaken,
      IF Outdated THEN <<>> ELSE <<loading>>,
      IF Outdated \/ Overtaken THEN <<>> ELSE <<readerIndex, readerFailed>> >>
=============================================================================
