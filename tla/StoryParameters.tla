-------------------------- MODULE StoryParameters --------------------------
(***************************************************************************)
(* The parameters and bounds of StoryEndings.                              *)
(***************************************************************************)
EXTENDS Naturals, CommonParameters

CONSTANTS
    RequestIds,   \* request ids of generation requests
    PlanValues,   \* what a plan can say: records [owner, prompt]
    Presets,      \* interaction presets
    MaxRevisions, \* bound: revisions of the plan
    MaxEdits,     \* bound: saved manual edits
    MaxHandled    \* bound: requests begun

ASSUME StoryAssumption ==
    /\ \A v \in PlanValues : v.owner \in {"B", "C", NoRow}
    /\ MaxRevisions \in Nat \ {0} /\ MaxEdits \in Nat /\ MaxHandled \in Nat
    \* A missing row is no row.
    /\ NoRow \notin RequestIds \X {"B", "C"}
    /\ NoRow \notin [rev : 1..MaxRevisions, values : PlanValues, preset : Presets,
                     status : {"draft", "generating", "partial_failure", "ready"},
                     ids : [{"B", "C"} -> (RequestIds \X {"B", "C"}) \cup {NoRow}],
                     cut : {"whole", NoRow, "B", "C"}, requests : SUBSET RequestIds]
=============================================================================
