------------------------- MODULE ChannelParameters -------------------------
(***************************************************************************)
(* The parameters and bounds of CreatorChannels.                           *)
(***************************************************************************)
EXTENDS Naturals, Sequences, FiniteSets, CommonParameters

CONSTANTS
    Creators,    \* accounts
    Legacy,      \* accounts older than handles, which begin without one
    Handles,     \* public addresses
    AutoHandles, \* AutoHandles[u]: what ensure_user_handle tries for an account, in order
    Works,       \* published works
    Author,      \* Author[w]: whose work it is
    Topics,      \* creator topics
    MaxTopics,   \* topics of one creator
    MaxParts,    \* bound: fields that one update of a channel names
    MaxWrites,   \* bound: requests begun
    Gone,        \* the owner of an address whose account is deleted
    Same         \* a field that an update does not name

ASSUME ChannelAssumption ==
    /\ Legacy \subseteq Creators /\ AutoHandles \in [Creators -> Seq(Handles)]
    /\ Author \in [Works -> Creators] /\ IsFiniteSet(Works)
    /\ MaxTopics \in Nat /\ MaxParts \in Nat /\ MaxWrites \in Nat
    /\ Gone \notin Creators \cup {NoRow} /\ NoRow \notin Creators \cup Handles
=============================================================================
