------------------------- MODULE AccountParameters -------------------------
(***************************************************************************)
(* The parameters and bounds of Accounts.                                  *)
(***************************************************************************)
EXTENDS Naturals, CommonParameters

CONSTANTS
    MaxSessions,   \* device sessions an account keeps (issue_user_token)
    Policies,      \* referral policies: [inviter, invitee], amounts of credits
    MaxAccounts,   \* bound: accounts the identity has one after the other
    MaxCodes,      \* bound: verification codes sent
    MaxIssued      \* bound: sessions issued

ASSUME AccountAssumption ==
    /\ MaxSessions \in Nat \ {0}
    /\ Policies \subseteq [inviter : Nat, invitee : Nat] /\ Policies # {}
    /\ NoRow \notin [status : {"pending", "activated"}, reward : Policies]
    /\ NoRow \notin [id : 1..MaxAccounts, live : BOOLEAN, via : {"login", "handoff"}]
    /\ MaxAccounts \in Nat /\ MaxCodes \in Nat /\ MaxIssued \in Nat
=============================================================================
