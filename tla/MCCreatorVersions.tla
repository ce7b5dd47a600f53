-------------------------- MODULE MCCreatorVersions --------------------------
(***************************************************************************)
(* TLC instances of what makes the versions of a creation: the analyses of *)
(* CreatorVersions, and the Story of StoryEndings.  They share no state    *)
(* here; svc, chosen at the start, is the one that moves.  The Story's     *)
(* variables are empty where it does not.                                  *)
(***************************************************************************)
EXTENDS CreatorVersions, StoryParameters, TLC

VARIABLES svc, rows, req, begun, tick, blind

Story == INSTANCE StoryEndings WITH db <- rows

storyVars == <<rows, req, begun, tick, blind>>

\* The source whole, or its tail as the ending C, whose prompt a revision may change.
MCPlanValues ==
    LET Values(owner, prompt) == [owner |-> owner, prompt |-> [B |-> "prompt", C |-> prompt]]
    IN  {Values(NoRow, "prompt"), Values("C", "prompt"), Values("C", "none")}

\* A request id only names the endings of a request.
RequestIdsAreNames == Permutations(RequestIds)

MCInit ==
    /\ Init
    /\ \/ svc = "versions" /\ rows = NoRow /\ req = NoRow /\ begun = 0 /\ tick = NoRow /\ blind = {}
       \/ svc = "story" /\ Story!Init

MCNext ==
    \/ svc = "versions" /\ Next /\ UNCHANGED <<svc, storyVars>>
    \/ svc = "story" /\ Story!Next /\ UNCHANGED <<svc, vars>>

MCSpec == MCInit /\ [][MCNext]_<<svc, vars, storyVars>>

\* StoryEndings: a Story is what its plan says and is finished once its endings are.
StoryIsWhole == svc = "story" => Story!StoryIsWhole
=============================================================================
