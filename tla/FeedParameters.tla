-------------------------- MODULE FeedParameters --------------------------
(***************************************************************************)
(* The parameters and bounds of PublishedFeed, RecommendationCycle and     *)
(* RecommendationPools.                                                    *)
(***************************************************************************)
EXTENDS Naturals, CommonParameters

CONSTANTS
    Builders,    \* worker processes that rebuild the pools
    MaxItems,    \* bound: items published, in the order of their ids
    MaxTime,     \* bound: seconds in which items are created
    Limit,       \* items a page holds
    Window,      \* rows read for a page of a keyset list: max((limit + 1) * 5, 50)
    RecentLimit, \* _RECENT_IMPRESSION_LIMIT
    Levels,      \* the highest level: levels are 1..Levels
    Quotas,      \* recommend_per_level_counts: what a page takes of each level
    Target,      \* recommend_total_target
    MaxChanges   \* bound: changes to the published items

ASSUME FeedAssumption ==
    /\ MaxItems \in Nat /\ MaxTime \in Nat /\ MaxChanges \in Nat
    /\ Limit \in Nat \ {0} /\ Window \in Nat /\ Window > Limit
    /\ RecentLimit \in Nat \ {0} /\ Levels \in Nat \ {0} /\ Target \in Nat
    /\ Quotas \in [1..Levels -> Nat]
    /\ NoRow \notin [at : 0..MaxTime, listed : BOOLEAN, playable : BOOLEAN]
=============================================================================
