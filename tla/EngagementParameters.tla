----------------------- MODULE EngagementParameters -----------------------
(***************************************************************************)
(* The parameters and bounds of Engagement.                                *)
(***************************************************************************)
EXTENDS Naturals, CommonParameters

CONSTANTS
    Users,        \* accounts
    Owner,        \* the account that published the video
    Seeds,        \* accounts of the social seed batch
    MaxComments,  \* bound: comments the video gets
    MaxRequests   \* bound: requests begun

ASSUME EngagementAssumption ==
    /\ Owner \in Users /\ Seeds \subseteq Users \ {Owner}
    /\ MaxComments \in Nat /\ MaxRequests \in Nat
    \* A missing row is no row.
    /\ NoRow \notin [author : Users, root : 0..MaxComments, key : {"none", "key"},
                     deleted : BOOLEAN, status : {"visible", "hidden", "removed"},
                     likes : Nat, replies : Nat]
=============================================================================
