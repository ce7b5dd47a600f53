-------------------------- MODULE GraphParameters --------------------------
(***************************************************************************)
(* The parameters and bounds of SocialGraph.                               *)
(***************************************************************************)
EXTENDS Naturals, CommonParameters

CONSTANTS
    People,       \* accounts
    SeedPeople,   \* seed accounts, which are not notified
    MaxBegun      \* bound: requests begun

ASSUME GraphAssumption == SeedPeople \subseteq People /\ MaxBegun \in Nat
=============================================================================
