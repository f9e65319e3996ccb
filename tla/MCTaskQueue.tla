----------------------------- MODULE MCTaskQueue -----------------------------
(***************************************************************************)
(* Instances of TaskQueue for TLC: tasks of the three kinds of type, two   *)
(* processes that may or may not share a pid.                              *)
(***************************************************************************)
EXTENDS TaskQueue, TLC

CONSTANTS review, again, ingest, drill, p1, p2

mcHandlerTypes == {"review_item"}
mcRegisteredTypes == {"fda_ingest"}
mcPurgeable == mcHandlerTypes \cup mcRegisteredTypes
mcProtected == {"recall_drill"}

mcTypeOf == review :> "review_item" @@ again :> "review_item"
              @@ ingest :> "fda_ingest" @@ drill :> "recall_drill"

mcNoKeys == [t \in {review, again, ingest, drill} |-> NoKey]
mcOneKey == [t \in {review, again} |-> "k"] @@ mcNoKeys

mcUniqueIds == p1 :> "worker-8" @@ p2 :> "worker-9"
mcSharedIds == p1 :> "worker-8" @@ p2 :> "worker-8"

mcNone == {}
mcProcessorOnly == {"processor"}
mcBoth == {"processor", "worker"}

(***************************************************************************)
(* Processes are interchangeable: LockId is only compared for equality.    *)
(* So are the two tasks of one type and key, where both are in the table.  *)
(***************************************************************************)
Symmetry == Permutations({p1, p2})
TaskSymmetry == Symmetry \cup Permutations({review, again})
=============================================================================
