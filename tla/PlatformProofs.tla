--------------------------- MODULE PlatformProofs ---------------------------
(***************************************************************************)
(* Theorems of the components MCPlatform puts side by side.  Every part of *)
(* its behaviour is a behaviour of the component it instantiates, so that  *)
(* what is proved of a component holds of the part: of LocalUploads,       *)
(* Accounts and Engagement in modules of their own, whose theorems are     *)
(* cited here, and of the others below.                                    *)
(***************************************************************************)
EXTENDS MCPlatform, TLAPS, FiniteSetTheorems, SequenceTheorems, WellFoundedInduction

\* The same instances as Local, Identity and Social, with their theorems.
L == INSTANCE LocalUploadsProofs
I == INSTANCE AccountsProofs WITH req <- aReq
E == INSTANCE EngagementProofs WITH db <- eDb, req <- eReq, begun <- eBegun

-----------------------------------------------------------------------------
(***************************************************************************)
(* The parts.                                                              *)
(***************************************************************************)

\* A step of the platform is a step of the part that moves and leaves the others alone.
LEMMA PartsNext ==
  ASSUME [Next]_vars
  PROVE  /\ [Local!Next]_localVars /\ [Store!Next]_storeVars
         /\ [Identity!Next]_accountVars /\ [Social!Next]_socialVars
         /\ [Graph!Next]_graphVars /\ [Channels!Next]_channelVars
         /\ [Seed!Next]_seedVars
<1>1. CASE svc = "local" /\ Local!Next /\ UNCHANGED <<storeVars, peopleVars>>
  BY <1>1 DEF peopleVars
<1>2. CASE StoreNext
  BY <1>2 DEF StoreNext, peopleVars
<1>3. CASE AccountsNext
  BY <1>3 DEF AccountsNext, mediaVars
<1>4. CASE ChannelsNext
  BY <1>4 DEF ChannelsNext, mediaVars
<1>5. CASE Social!Next /\ UNCHANGED <<mediaVars, accountVars, graphVars, channelVars, seedVars>>
  BY <1>5 DEF mediaVars
<1>6. CASE Graph!Next /\ UNCHANGED <<mediaVars, accountVars, socialVars, channelVars, seedVars>>
  BY <1>6 DEF mediaVars
<1>7. CASE Seed!Next /\ UNCHANGED <<mediaVars, accountVars, socialVars, graphVars, channelVars>>
  BY <1>7 DEF mediaVars
<1>8. CASE UNCHANGED vars
  BY <1>8 DEF vars, mediaVars, peopleVars
<1> QED BY <1>1, <1>2, <1>3, <1>4, <1>5, <1>6, <1>7, <1>8 DEF Next

\* The definitions of the instance Local are those of LocalUploadsProofs.
LEMMA SameUploadInit == Local!Init => L!Init
BY DEF Local!Init, L!Init, Local!Idle, L!Idle

\* A step of Local is a step of the uploads.
LEMMA SameUploadNext == Local!Next => L!Next
BY DEF Local!Next, L!Next, Local!PatchBegin, L!PatchBegin, Local!PatchBlock, L!PatchBlock,
       Local!PatchLock, L!PatchLock, Local!PatchBody, L!PatchBody, Local!PatchFail,
       L!PatchFail, Local!PatchCommit, L!PatchCommit, Local!Inspect, L!Inspect,
       Local!FinalizeBegin, L!FinalizeBegin, Local!FinalizeHash, L!FinalizeHash,
       Local!PrepareClip, L!PrepareClip, Local!UseCached, L!UseCached, Local!CheckStaged,
       L!CheckStaged, Local!StoreStaged, L!StoreStaged, Local!FinalizeCommit, L!FinalizeCommit,
       Local!FinalizeUnlink, L!FinalizeUnlink, Local!FinalizeFail, L!FinalizeFail,
       Local!Expire, L!Expire, Local!Crash, L!Crash, Local!IsActive, L!IsActive, Local!Usable,
       L!Usable, Local!LoopRuns, L!LoopRuns, Local!LockHolder, L!LockHolder, Local!LengthOf,
       L!LengthOf, Local!Cut, L!Cut, Local!Idle, L!Idle, Local!Written, L!Written,
       Local!Source, L!Source, Local!File, L!File, Local!NeedsPreparation, L!NeedsPreparation,
       Local!Chunk, L!Chunk

\* The definitions of the instance Identity are those of AccountsProofs.
LEMMA SameAccountTerms ==
  /\ \A k, id, n : Identity!Entry(k, id, n) = I!Entry(k, id, n)
  /\ \A r, id : Identity!Bound(r, id) = I!Bound(r, id)
  /\ \A c : Identity!Spent(c) = I!Spent(c)
  /\ \A z, id, there : Identity!Activation(z, id, there) = I!Activation(z, id, there)
  /\ \A id, live, via : Identity!Issue(id, live, via) => I!Issue(id, live, via)
<1>1. ASSUME NEW k, NEW id, NEW n PROVE Identity!Entry(k, id, n) = I!Entry(k, id, n)
  BY DEF Identity!Entry, I!Entry
<1>2. ASSUME NEW r, NEW id PROVE Identity!Bound(r, id) = I!Bound(r, id)
  BY DEF Identity!Bound, I!Bound
<1>3. ASSUME NEW c PROVE Identity!Spent(c) = I!Spent(c)
  BY DEF Identity!Spent, I!Spent
<1>4. ASSUME NEW z, NEW id, NEW there
      PROVE  Identity!Activation(z, id, there) = I!Activation(z, id, there)
  BY <1>1 DEF Identity!Activation, I!Activation
<1>5. ASSUME NEW id, NEW live, NEW via, Identity!Issue(id, live, via)
      PROVE  I!Issue(id, live, via)
  <2>1. I!Stale(live) = Identity!Stale(live) /\ I!Numbers = Identity!Numbers
    <3>1. \A S : I!Cardinality(S) = Identity!Cardinality(S)
      BY DEF Identity!Cardinality, I!Cardinality
    <3> QED BY <3>1 DEF Identity!Stale, I!Stale, Identity!Numbers, I!Numbers
  <2>2. PICK n \in Identity!Numbers :
          /\ sessions[n] = NoRow /\ \A m \in 1..(n - 1) : sessions[m] # NoRow
          /\ sessions' = [m \in Identity!Numbers |->
                IF m = n THEN [id |-> id, live |-> TRUE, via |-> via]
                ELSE IF m \in Identity!Stale(live) THEN [sessions[m] EXCEPT !.live = FALSE]
                ELSE sessions[m]]
    BY <1>5, Zenon DEF Identity!Issue
  <2>3. sessions' = [m \in I!Numbers |->
                IF m = n THEN [id |-> id, live |-> TRUE, via |-> via]
                ELSE IF m \in I!Stale(live) THEN [sessions[m] EXCEPT !.live = FALSE]
                ELSE sessions[m]]
    BY <2>1, <2>2, Zenon
  <2> QED BY <2>1, <2>2, <2>3, Zenon DEF I!Issue
<1> QED BY <1>1, <1>2, <1>3, <1>4, <1>5

\* Initially Identity is the accounts.
LEMMA SameAccountInit == Identity!Init => I!Init
BY DEF Identity!Init, I!Init, Identity!Numbers, I!Numbers, Identity!Ids, I!Ids, Identity!Idle,
       I!Idle

\* A step of Identity is a step of the accounts.
LEMMA SameAccountNext == Identity!Next => I!Next
<1>1. ASSUME NEW r PROVE Identity!SendBegin(r) => I!SendBegin(r)
  BY DEF Identity!SendBegin, I!SendBegin, Identity!Fresh, I!Fresh
<1>2. ASSUME NEW r PROVE Identity!SendCommit(r) => I!SendCommit(r)
  BY DEF Identity!SendCommit, I!SendCommit, Identity!Idle, I!Idle
<1>3. ASSUME NEW r, NEW c, NEW app, NEW invited
      PROVE Identity!LoginBegin(r, c, app, invited) => I!LoginBegin(r, c, app, invited)
  BY DEF Identity!LoginBegin, I!LoginBegin, Identity!Fresh, I!Fresh, Identity!Live, I!Live,
         Identity!Issued, I!Issued, Identity!Numbers, I!Numbers
<1>4. ASSUME NEW r, NEW there PROVE Identity!LoginCommit(r, there) => I!LoginCommit(r, there)
  BY SameAccountTerms DEF Identity!LoginCommit, I!LoginCommit, Identity!Idle, I!Idle
<1>5. ASSUME NEW r, NEW there
      PROVE Identity!ExchangeCommit(r, there) => I!ExchangeCommit(r, there)
  BY SameAccountTerms DEF Identity!ExchangeCommit, I!ExchangeCommit, Identity!Idle, I!Idle
<1>6. ASSUME NEW r PROVE Identity!LoginDisabled(r) => I!LoginDisabled(r)
  BY SameAccountTerms DEF Identity!LoginDisabled, I!LoginDisabled, Identity!Idle, I!Idle
<1>7. ASSUME NEW r PROVE Identity!Abandon(r) => I!Abandon(r)
  BY DEF Identity!Abandon, I!Abandon, Identity!Idle, I!Idle
<1>8. ASSUME NEW r PROVE Identity!ExchangeBegin(r) => I!ExchangeBegin(r)
  BY DEF Identity!ExchangeBegin, I!ExchangeBegin, Identity!HandoffLocked, I!HandoffLocked,
         Identity!Live, I!Live, Identity!Issued, I!Issued, Identity!Numbers, I!Numbers
<1>9. ASSUME NEW r, NEW n PROVE Identity!DeleteBegin(r, n) => I!DeleteBegin(r, n)
  BY DEF Identity!DeleteBegin, I!DeleteBegin, Identity!SignedIn, I!SignedIn, Identity!Issued,
         I!Issued, Identity!Numbers, I!Numbers
<1>10. ASSUME NEW r PROVE Identity!DeleteCommit(r) => I!DeleteCommit(r)
  BY DEF Identity!DeleteCommit, I!DeleteCommit, Identity!Numbers, I!Numbers, Identity!Live,
         I!Live, Identity!Idle, I!Idle, Identity!Issued, I!Issued
<1>11. ASSUME NEW n PROVE Identity!CreateHandoff(n) => I!CreateHandoff(n)
  BY DEF Identity!CreateHandoff, I!CreateHandoff, Identity!SignedIn, I!SignedIn,
         Identity!Issued, I!Issued, Identity!Numbers, I!Numbers
<1>12. ASSUME NEW n PROVE Identity!Logout(n) => I!Logout(n)
  BY DEF Identity!Logout, I!Logout, Identity!SignedIn, I!SignedIn, Identity!Issued, I!Issued,
         Identity!Numbers, I!Numbers
<1>13. Identity!Pass => I!Pass
  BY DEF Identity!Pass, I!Pass, Identity!Fresh, I!Fresh, Identity!Issued, I!Issued,
         Identity!HandoffLocked, I!HandoffLocked, Identity!Numbers, I!Numbers
<1>14. Identity!SetEnabled => I!SetEnabled
  BY DEF Identity!SetEnabled, I!SetEnabled
<1>15. Identity!UpdateConfig => I!UpdateConfig
  BY DEF Identity!UpdateConfig, I!UpdateConfig
<1> QED BY <1>1, <1>2, <1>3, <1>4, <1>5, <1>6, <1>7, <1>8, <1>9, <1>10, <1>11, <1>12, <1>13,
         <1>14, <1>15
         DEF Identity!Next, I!Next, Identity!Numbers, I!Numbers

\* The part of the platform that is Local behaves as the component does.
LEMMA LocalBehaves == Spec => L!Spec
<1>1. Init => L!Init
  BY SameUploadInit DEF Init
<1>2. [Next]_vars => [L!Next]_L!vars
  BY PartsNext, SameUploadNext DEF localVars, L!vars
<1> QED BY <1>1, <1>2, PTL DEF Spec, L!Spec

\* The part of the platform that is Identity behaves as the component does.
LEMMA IdentityBehaves == Spec => I!Spec
<1>1. Init => I!Init
  BY SameAccountInit DEF Init
<1>2. [Next]_vars => [I!Next]_I!vars
  BY PartsNext, SameAccountNext DEF accountVars, I!vars
<1> QED BY <1>1, <1>2, PTL DEF Spec, I!Spec

\* However PATCHes are repeated, overlap, fail or are cut off by a crash, the staging file is a
\* prefix of the client's file.
THEOREM StagingHasNoGap == Spec => []StagingIsPrefix
<1>1. L!Spec => []L!StagingIsPrefix
  BY L!StagingHasNoGap, UploadAssumption, PlaceholderAssumption, PTL
<1>2. L!StagingIsPrefix => StagingIsPrefix
  BY DEF StagingIsPrefix, Local!StagingIsPrefix, L!StagingIsPrefix, Local!File, L!File,
         Local!IsPrefix, L!IsPrefix
<1> QED BY LocalBehaves, <1>1, <1>2, PTL

\* A client that waits for the answers gets an upload made of its whole file.
THEOREM UploadsAreWhole == Spec => []UploadIsWhole
<1>1. L!Spec => []L!UploadIsWhole
  BY L!UploadsAreWhole, UploadAssumption, PlaceholderAssumption, PTL
<1>2. L!UploadIsWhole => UploadIsWhole
  BY DEF UploadIsWhole, Local!UploadIsWhole, L!UploadIsWhole, Local!File, L!File
<1> QED BY LocalBehaves, <1>1, <1>2, PTL

\* The ledger of referrals holds what was promised when the accounts were made.
THEOREM ReferralsPay == Spec => []ReferralPaysWhatItPromised
<1>1. I!Spec => []I!ReferralPaysWhatItPromised
  BY I!ReferralsPay, AccountAssumption, PTL
<1>2. I!ReferralPaysWhatItPromised => ReferralPaysWhatItPromised
  BY DEF ReferralPaysWhatItPromised, Identity!ReferralPaysWhatItPromised,
         I!ReferralPaysWhatItPromised, Identity!Entry, I!Entry, Identity!Ids, I!Ids
<1> QED BY IdentityBehaves, <1>1, <1>2, PTL

-----------------------------------------------------------------------------
(***************************************************************************)
(* Engagement: the instance and the theorems about it.                     *)
(***************************************************************************)

\* The definitions of the instance Social are those of EngagementProofs.
LEMMA SameSocialTerms ==
  /\ \A T : Social!Cardinality(T) = E!Cardinality(T)
  /\ \A d, u, c : Social!Without(d, u, c) = E!Without(d, u, c)
  /\ \A d, u : Social!Seen(d, u) = E!Seen(d, u)
  /\ \A d, c : Social!CommentLikes(d, c) = E!CommentLikes(d, c)
     /\ Social!Replies(d, c) = E!Replies(d, c)
  /\ \A d : Social!Counts(d) = E!Counts(d)
<1>1. ASSUME NEW T PROVE Social!Cardinality(T) = E!Cardinality(T)
  BY DEF Social!Cardinality, E!Cardinality
<1>2. ASSUME NEW d, NEW u PROVE Social!Seen(d, u) = E!Seen(d, u) /\ Social!Own(d, u) = E!Own(d, u)
  BY DEF Social!Seen, E!Seen, Social!Own, E!Own, Social!Visible, E!Visible, Social!Rows,
         E!Rows, Social!Ids, E!Ids
<1>3. ASSUME NEW d, NEW u, NEW c PROVE Social!Without(d, u, c) = E!Without(d, u, c)
  <2>1. Social!Cardinality({e \in Social!Seen(d, u) : d.comments[e].root = c})
        = E!Cardinality({e \in E!Seen(d, u) : d.comments[e].root = c})
    BY <1>1, <1>2
  <2> QED BY <1>2, <2>1, Zenon DEF Social!Without, E!Without, Social!Write, E!Write,
      Social!Lower, E!Lower
<1>4. ASSUME NEW d, NEW c
      PROVE  Social!CommentLikes(d, c) = E!CommentLikes(d, c)
             /\ Social!Replies(d, c) = E!Replies(d, c)
  BY <1>1
     DEF Social!CommentLikes, E!CommentLikes, Social!Replies, E!Replies, Social!Rows, E!Rows,
         Social!Visible, E!Visible, Social!Ids, E!Ids
<1>5. ASSUME NEW d PROVE Social!Counts(d) = E!Counts(d)
  BY <1>1 DEF Social!Counts, E!Counts, Social!Likers, E!Likers, Social!Counting, E!Counting,
         Social!Rows, E!Rows, Social!Visible, E!Visible, Social!Ids, E!Ids
<1> QED BY <1>1, <1>2, <1>3, <1>4, <1>5

\* Initially they are the same.
LEMMA SameSocialInit == Social!Init => E!Init
BY DEF Social!Init, E!Init, Social!Ids, E!Ids, Social!Idle, E!Idle

\* A step of one is a step of the other.
LEMMA SameSocialNext == Social!Next => E!Next
<1>1. ASSUME NEW r, NEW op PROVE Social!Begin(r, op) => E!Begin(r, op)
  BY DEF Social!Begin, E!Begin, Social!Running, E!Running, Social!Rows, E!Rows, Social!Idle,
         E!Idle, Social!Ids, E!Ids
<1>2. ASSUME NEW r PROVE Social!Refuse(r) => E!Refuse(r)
  BY DEF Social!Refuse, E!Refuse, Social!Running, E!Running, Social!Idle, E!Idle
<1>3. ASSUME NEW r PROVE Social!LikeVideo(r) => E!LikeVideo(r)
  BY DEF Social!LikeVideo, E!LikeVideo, Social!LikeField, E!LikeField, Social!Note, E!Note,
         Social!LockedCounts, E!LockedCounts, Social!Dec, E!Dec, Social!Counted, E!Counted,
         Social!Done, E!Done, Social!Idle, E!Idle
<1>4. ASSUME NEW r PROVE Social!CreateComment(r) => E!CreateComment(r)
  BY DEF Social!CreateComment, E!CreateComment, Social!Keyed, E!Keyed, Social!Rows, E!Rows,
         Social!KeyTaken, E!KeyTaken, Social!Ids, E!Ids, Social!CommentField, E!CommentField,
         Social!LockedCounts, E!LockedCounts, Social!Note, E!Note, Social!Counted, E!Counted,
         Social!Done, E!Done, Social!Idle, E!Idle
<1>5. ASSUME NEW r PROVE Social!LikeComment(r) => E!LikeComment(r)
  BY DEF Social!LikeComment, E!LikeComment, Social!Note, E!Note, Social!Visible, E!Visible,
         Social!Rows, E!Rows, Social!Write, E!Write, Social!Dec, E!Dec, Social!Counted,
         E!Counted, Social!Ids, E!Ids, Social!Done, E!Done, Social!Idle, E!Idle
<1>6. ASSUME NEW r PROVE Social!RemoveComment(r) => E!RemoveComment(r)
  BY DEF Social!RemoveComment, E!RemoveComment, Social!Rows, E!Rows, Social!TakeOut, E!TakeOut,
         Social!Write, E!Write, Social!Counted, E!Counted, Social!Visible, E!Visible,
         Social!Ids, E!Ids, Social!CommentField, E!CommentField, Social!Dec, E!Dec,
         Social!Done, E!Done, Social!Idle, E!Idle
<1>7. ASSUME NEW r PROVE Social!DecideReport(r) => E!DecideReport(r)
  BY DEF Social!DecideReport, E!DecideReport, Social!Rows, E!Rows, Social!TakeOut, E!TakeOut,
         Social!Write, E!Write, Social!Counted, E!Counted, Social!Visible, E!Visible,
         Social!Ids, E!Ids, Social!CommentField, E!CommentField, Social!Dec, E!Dec,
         Social!Done, E!Done, Social!Idle, E!Idle
<1>8. ASSUME NEW r PROVE Social!WithdrawVideo(r) => E!WithdrawVideo(r)
  BY DEF Social!WithdrawVideo, E!WithdrawVideo, Social!Done, E!Done, Social!Idle, E!Idle
<1>9. ASSUME NEW r PROVE Social!DeleteAccount(r) => E!DeleteAccount(r)
  BY SameSocialTerms
     DEF Social!DeleteAccount, E!DeleteAccount, Social!LikeField, E!LikeField,
         Social!CommentField, E!CommentField, Social!Ids, E!Ids, Social!OwnCommentLikes,
         E!OwnCommentLikes, Social!Rows, E!Rows, Social!Write, E!Write, Social!Lower, E!Lower,
         Social!Counted, E!Counted, Social!Visible, E!Visible, Social!Done, E!Done,
         Social!Idle, E!Idle
<1>10. ASSUME NEW r PROVE Social!Reconcile(r) => E!Reconcile(r)
  BY SameSocialTerms
     DEF Social!Reconcile, E!Reconcile, Social!Write, E!Write, Social!Ids, E!Ids, Social!Rows,
         E!Rows, Social!Done, E!Done, Social!Visible, E!Visible, Social!Idle, E!Idle
<1> QED BY <1>1, <1>2, <1>3, <1>4, <1>5, <1>6, <1>7, <1>8, <1>9, <1>10, Zenon
         DEF Social!Next, E!Next, Social!Ops, E!Ops, Social!Ids, E!Ids, Social!Keys, E!Keys,
             Social!Running, E!Running, Social!Idle, E!Idle

\* The part of the platform that is Social behaves as the component does.
LEMMA SocialBehaves == Spec => E!Spec
<1>1. Init => E!Init
  BY SameSocialInit DEF Init
<1>2. [Next]_vars => [E!Next]_E!vars
  BY PartsNext, SameSocialNext DEF socialVars, E!vars
<1> QED BY <1>1, <1>2, PTL DEF Spec, E!Spec

\* Through likes, comments, moderation and account deletions one after the other, and after one
\* reconciliation whatever overlapped before it, every counter beside a video and its comments
\* is the number of rows it counts.
THEOREM CountersAreExact == Spec => []CountsAreRight
<1>1. E!Spec => []E!CountsAreRight
  BY E!CountersAreExact, EngagementAssumption, PTL
<1>2. E!CountsAreRight => CountsAreRight
  BY SameSocialTerms DEF CountsAreRight, Social!CountsAreRight, E!CountsAreRight, Social!Rows,
     E!Rows, Social!Ids, E!Ids
<1> QED BY SocialBehaves, <1>1, <1>2, PTL

\* However requests overlap, a comment sent again with its key is stored once.
THEOREM KeysAreUsedOnce == Spec => []KeyedCommentIsOne
<1>1. E!Spec => []E!KeyedCommentIsOne
  BY E!KeysAreUsedOnce, EngagementAssumption, PTL
<1>2. E!KeyedCommentIsOne => KeyedCommentIsOne
  BY SameSocialTerms DEF KeyedCommentIsOne, Social!KeyedCommentIsOne, E!KeyedCommentIsOne,
     Social!Keyed, E!Keyed, Social!Rows, E!Rows, Social!Ids, E!Ids
<1> QED BY SocialBehaves, <1>1, <1>2, PTL

-----------------------------------------------------------------------------
(***************************************************************************)
(* SocialGraph: a block ends the follows between two accounts for as long  *)
(* as it stands, and every report waits for a decision.                    *)
(***************************************************************************)

(***************************************************************************)
(* The types of the tables and of the requests, which its TypeOK leaves    *)
(* out.                                                                    *)
(***************************************************************************)
GraphTables == [enabled : SUBSET People, tokens : SUBSET People, follows : SUBSET Graph!Two,
           blocks : SUBSET Graph!Two, notes : SUBSET Graph!Two,
           reports : [Graph!Two -> Graph!Report \cup {NoRow}]]

\* A report that a request has read is still there.
ReportKept(q, d) ==
    \A p \in Graph!Two :
       q # Graph!Idle /\ q.db.reports[p] # NoRow => d.reports[p] \in Graph!Report

\* The types of the social graph.
GraphTyped ==
    /\ gDb \in GraphTables
    /\ gReq \in [Requests -> [op : Graph!Ops, db : GraphTables] \cup {Graph!Idle}]
    /\ \A r \in Requests : ReportKept(gReq[r], gDb)
    /\ gBegun \in 0..MaxBegun /\ crossed \in BOOLEAN /\ heard \subseteq Graph!Two

\* What a request that is not idle is.
LEMMA GraphRequest ==
  ASSUME GraphTyped, NEW r \in Requests, gReq[r].op.kind # "idle"
  PROVE  /\ gReq[r] \in [op : Graph!Ops, db : GraphTables]
         /\ gReq[r].op \in Graph!Ops /\ gReq[r].db \in GraphTables
            /\ gReq[r].op.pair \in Graph!Two
         /\ ReportKept(gReq[r], gDb)
<1>1. gReq[r] # Graph!Idle
  BY DEF Graph!Idle
<1>2. gReq[r] \in [op : Graph!Ops, db : GraphTables]
  BY <1>1 DEF GraphTyped
<1>3. gReq[r].op.pair \in Graph!Two
  BY <1>2 DEF Graph!Ops
<1> QED BY <1>2, <1>3 DEF GraphTyped

\* A commit that loses no report keeps the types.
LEMMA GraphTypedCommit ==
  ASSUME GraphTyped, NEW r \in Requests, NEW new \in GraphTables, Graph!Commit(r, new),
         \A p \in Graph!Two : gDb.reports[p] \in Graph!Report => new.reports[p] \in Graph!Report,
         crossed' \in BOOLEAN, heard' \subseteq Graph!Two
  PROVE  GraphTyped'
<1>1. gDb' \in GraphTables /\ gBegun' \in 0..MaxBegun
  BY DEF Graph!Commit, GraphTyped
<1>2. gReq' \in [Requests -> [op : Graph!Ops, db : GraphTables] \cup {Graph!Idle}]
  BY DEF Graph!Commit, GraphTyped
<1>3. ASSUME NEW q \in Requests PROVE ReportKept(gReq'[q], gDb')
  <2>1. gReq'[q] = Graph!Idle \/ gReq'[q] = gReq[q]
    BY DEF Graph!Commit, GraphTyped
  <2>2. ReportKept(gReq[q], gDb)
    BY DEF GraphTyped
  <2> QED BY <2>1, <2>2 DEF Graph!Commit, ReportKept
<1> QED BY <1>1, <1>2, <1>3 DEF GraphTyped

\* Initially the tables are well-typed.
LEMMA GraphTypedInit == Graph!Init => GraphTyped
<1> SUFFICES ASSUME Graph!Init PROVE GraphTyped
  OBVIOUS
<1>1. gDb \in GraphTables
  BY DEF Graph!Init, GraphTables
<1>2. gReq \in [Requests -> [op : Graph!Ops, db : GraphTables] \cup {Graph!Idle}]
  BY DEF Graph!Init
<1>3. \A r \in Requests : gReq[r] = Graph!Idle
  BY DEF Graph!Init
<1>4. ASSUME NEW r \in Requests PROVE ReportKept(gReq[r], gDb)
  BY <1>3 DEF ReportKept
<1>5. gBegun \in 0..MaxBegun
  BY GraphAssumption DEF Graph!Init
<1>6. crossed \in BOOLEAN /\ heard \subseteq Graph!Two
  BY DEF Graph!Init
<1> QED BY <1>1, <1>2, <1>4, <1>5, <1>6 DEF GraphTyped

\* Every step keeps the types.
LEMMA GraphTypedNext == GraphTyped /\ [Graph!Next]_Graph!vars => GraphTyped'
<1> SUFFICES ASSUME GraphTyped, [Graph!Next]_Graph!vars PROVE GraphTyped'
  OBVIOUS
<1> USE GraphAssumption
<1>1. ASSUME NEW r \in Requests, NEW op \in Graph!Ops, Graph!Begin(r, op) PROVE GraphTyped'
  <2>1. gDb' = gDb /\ gDb \in GraphTables
    BY <1>1 DEF Graph!Begin, GraphTyped
  <2>2. gBegun' \in 0..MaxBegun
    BY <1>1 DEF Graph!Begin, GraphTyped
  <2>3. gReq' \in [Requests -> [op : Graph!Ops, db : GraphTables] \cup {Graph!Idle}]
    BY <1>1, <2>1 DEF Graph!Begin, GraphTyped
  <2>4. ASSUME NEW q \in Requests PROVE ReportKept(gReq'[q], gDb')
    <3>1. CASE q = r
      <4>1. gReq'[q].db = gDb
        BY <1>1, <3>1 DEF Graph!Begin, GraphTyped
      <4> QED BY <2>1, <4>1 DEF ReportKept, GraphTables
    <3>2. CASE q # r
      BY <1>1, <2>1, <3>2 DEF Graph!Begin, GraphTyped
    <3> QED BY <3>1, <3>2
  <2> QED BY <1>1, <2>1, <2>2, <2>3, <2>4 DEF Graph!Begin, GraphTyped
<1>2. ASSUME NEW r \in Requests, Graph!Refuse(r) PROVE GraphTyped'
  <2>1. Graph!Commit(r, gDb)
    BY <1>2 DEF Graph!Refuse, Graph!Commit
  <2> QED BY <1>2, <2>1, GraphTypedCommit DEF Graph!Refuse, GraphTyped
<1>3. ASSUME NEW r \in Requests, Graph!Follow(r) PROVE GraphTyped'
  <2> DEFINE p == gReq[r].op.pair
             s == gReq[r].db
  <2>1. p \in Graph!Two /\ s \in GraphTables
    BY <1>3, GraphRequest DEF Graph!Follow
  <2>2. PICK new \in {{}, Graph!FollowNote(s, p)} :
           Graph!Commit(r, IF p \in s.follows \/ p \in gDb.follows \/ new \cap gDb.notes # {} THEN gDb
                     ELSE [gDb EXCEPT !.follows = @ \cup {p}, !.notes = @ \cup new])
    BY <1>3 DEF Graph!Follow
  <2>3. Graph!FollowNote(s, p) \subseteq Graph!Two
    BY <2>1 DEF Graph!FollowNote, Graph!Back, Graph!Two
  <2> HIDE DEF p, s
  <2>4. [gDb EXCEPT !.follows = @ \cup {p}, !.notes = @ \cup new] \in GraphTables
    BY <2>1, <2>2, <2>3 DEF GraphTyped, GraphTables
  <2>5. crossed' \in BOOLEAN /\ heard' \subseteq Graph!Two
    BY <1>3 DEF Graph!Follow, GraphTyped
  <2>6. [gDb EXCEPT !.follows = @ \cup {p}, !.notes = @ \cup new].reports = gDb.reports
    BY DEF GraphTyped, GraphTables
  <2> QED BY <2>2, <2>4, <2>5, <2>6, GraphTypedCommit DEF GraphTyped
<1>4. ASSUME NEW r \in Requests, Graph!Unfollow(r) PROVE GraphTyped'
  <2>1. Graph!Commit(r, [gDb EXCEPT !.follows = @ \ {gReq[r].op.pair}])
    BY <1>4 DEF Graph!Unfollow
  <2>2. [gDb EXCEPT !.follows = @ \ {gReq[r].op.pair}] \in GraphTables
    BY DEF GraphTyped, GraphTables
  <2>3. [gDb EXCEPT !.follows = @ \ {gReq[r].op.pair}].reports = gDb.reports
    BY DEF GraphTyped, GraphTables
  <2> QED BY <1>4, <2>1, <2>2, <2>3, GraphTypedCommit DEF Graph!Unfollow, GraphTyped
<1>5. ASSUME NEW r \in Requests, Graph!Block(r) PROVE GraphTyped'
  <2> DEFINE p == gReq[r].op.pair
             new == [gDb EXCEPT !.blocks = IF p \in gReq[r].db.blocks THEN @ ELSE @ \cup {p},
                               !.follows = @ \ Graph!Broken(p)]
  <2>1. p \in Graph!Two
    BY <1>5, GraphRequest DEF Graph!Block
  <2>2. Graph!Commit(r, new)
    BY <1>5 DEF Graph!Block
  <2>3. new \in GraphTables /\ new.reports = gDb.reports
    BY <2>1 DEF GraphTyped, GraphTables
  <2>4. crossed' \in BOOLEAN /\ heard' \subseteq Graph!Two
    BY <1>5 DEF Graph!Block, GraphTyped
  <2> HIDE DEF p, new
  <2> QED BY <2>2, <2>3, <2>4, GraphTypedCommit
<1>6. ASSUME NEW r \in Requests, Graph!Unblock(r) PROVE GraphTyped'
  <2>1. Graph!Commit(r, [gDb EXCEPT !.blocks = @ \ {gReq[r].op.pair}])
    BY <1>6 DEF Graph!Unblock
  <2>2. [gDb EXCEPT !.blocks = @ \ {gReq[r].op.pair}] \in GraphTables
    BY DEF GraphTyped, GraphTables
  <2>3. [gDb EXCEPT !.blocks = @ \ {gReq[r].op.pair}].reports = gDb.reports
    BY DEF GraphTyped, GraphTables
  <2> QED BY <1>6, <2>1, <2>2, <2>3, GraphTypedCommit DEF Graph!Unblock, GraphTyped
<1>7. ASSUME NEW r \in Requests, Graph!SendReport(r) PROVE GraphTyped'
  <2> DEFINE p == gReq[r].op.pair
             old == gReq[r].db.reports[p]
             stands == gDb.reports[p]
             overlap == stands # old \/ Graph!Involves(p, {"decide"})
             to == IF stands = NoRow
                      THEN [status |-> "pending", reviewed |-> FALSE, crossed |-> FALSE]
                   ELSE [(IF old.status = "pending" THEN stands ELSE Graph!Reopened(stands)) EXCEPT
                           !.reviewed = IF gReq[r].op.comment \/ ~old.reviewed THEN @ ELSE FALSE,
                           !.crossed = @ \/ overlap]
             new == [gDb EXCEPT !.reports[p] = to]
  <2>1. p \in Graph!Two
    BY <1>7, GraphRequest DEF Graph!SendReport
  <2>2. Graph!Commit(r, new) /\ heard' = heard \cup {p} /\ crossed' = crossed
    BY <1>7 DEF Graph!SendReport
  <2>3. stands # NoRow => stands \in Graph!Report
    BY <2>1 DEF GraphTyped, GraphTables
  <2>4. overlap \in BOOLEAN
    OBVIOUS
  <2>5. to \in Graph!Report
    <3> HIDE DEF p, overlap, old
    <3>1. CASE stands = NoRow
      BY <3>1 DEF Graph!Report
    <3>2. CASE stands # NoRow
      <4> DEFINE base == IF old.status = "pending" THEN stands ELSE Graph!Reopened(stands)
      <4>1. base \in Graph!Report
        BY <2>3, <3>2 DEF Graph!Report, Graph!Reopened
      <4> HIDE DEF base
      <4>2. to = [base EXCEPT
                   !.reviewed = IF gReq[r].op.comment \/ ~old.reviewed THEN @ ELSE FALSE,
                   !.crossed = @ \/ overlap]
        BY <3>2 DEF base
      <4> QED BY <2>4, <4>1, <4>2 DEF Graph!Report
    <3> QED BY <3>1, <3>2
  <2> HIDE DEF to, p
  <2>6. new \in GraphTables /\ new.reports = [gDb.reports EXCEPT ![p] = to]
    BY <2>1, <2>5 DEF GraphTyped, GraphTables
  <2>7. \A q \in Graph!Two : gDb.reports[q] \in Graph!Report => new.reports[q] \in Graph!Report
    BY <2>1, <2>5, <2>6 DEF GraphTyped, GraphTables
  <2> HIDE DEF new
  <2> QED BY <2>1, <2>2, <2>6, <2>7, GraphTypedCommit DEF GraphTyped
<1>8. ASSUME NEW r \in Requests, Graph!DecideReport(r) PROVE GraphTyped'
  <2> DEFINE p == gReq[r].op.pair
             action == gReq[r].op.action
             status == IF action = "dismiss" THEN "dismissed" ELSE "actioned"
             old == gReq[r].db.reports[p]
             off == IF action = "disable" THEN {p[2]} ELSE {}
             stands == gDb.reports[p]
             again == stands # old \/ Graph!Involves(p, {"report"})
             to == [stands EXCEPT !.status = IF old.status = status THEN @ ELSE status,
                               !.reviewed = TRUE,
                               !.crossed = @ \/ stands # old \/ Graph!Involves(p, {"report"})]
             new == [gDb EXCEPT !.reports[p] = to, !.enabled = @ \ off, !.tokens = @ \ off]
  <2>1. p \in Graph!Two /\ ReportKept(gReq[r], gDb) /\ gReq[r] # Graph!Idle
    <3>1. gReq[r].op.kind = "decide"
      BY <1>8 DEF Graph!DecideReport
    <3>2. gReq[r] # Graph!Idle
      BY <3>1 DEF Graph!Idle
    <3> QED BY <3>1, <3>2, GraphRequest
  <2>2. Graph!Commit(r, new) /\ heard' = heard \ {p} /\ crossed' = crossed /\ old # NoRow
    BY <1>8 DEF Graph!DecideReport
  <2>3. stands \in Graph!Report
    BY <2>1, <2>2 DEF ReportKept
  <2>4. status \in {"actioned", "dismissed"} /\ again \in BOOLEAN
    OBVIOUS
  <2> HIDE DEF p, old, off, status, stands
  <2>6. to \in Graph!Report
    BY <2>3, <2>4 DEF Graph!Report
  <2> HIDE DEF to, new
  <2>7. new \in GraphTables /\ new.reports = [gDb.reports EXCEPT ![p] = to]
    BY <2>1, <2>6 DEF GraphTyped, GraphTables, new
  <2>8. \A q \in Graph!Two : gDb.reports[q] \in Graph!Report => new.reports[q] \in Graph!Report
    BY <2>1, <2>6, <2>7 DEF GraphTyped, GraphTables
  <2> QED BY <2>2, <2>7, <2>8, GraphTypedCommit DEF GraphTyped
<1>9. CASE UNCHANGED Graph!vars
  <2>1. \A r \in Requests : ReportKept(gReq'[r], gDb') <=> ReportKept(gReq[r], gDb)
    BY <1>9 DEF Graph!vars
  <2> QED BY <1>9, <2>1 DEF Graph!vars, GraphTyped
<1> QED BY <1>1, <1>2, <1>3, <1>4, <1>5, <1>6, <1>7, <1>8, <1>9 DEF Graph!Next

\* The tables, the history and the number of requests of every instance hold values of
\* their columns.
THEOREM GraphTypes == Graph!Spec => []Graph!TypeOK
<1>1. GraphTyped => Graph!TypeOK
  BY DEF GraphTyped, GraphTables, Graph!TypeOK
<1> QED BY <1>1, GraphTypedInit, GraphTypedNext, PTL DEF Graph!Spec

-----------------------------------------------------------------------------
(* Blocks                                                                  *)

\* BlockedDoNotFollow, said of the follows that are there.
NoFollowOfBlocked == ~crossed => \A p \in gDb.follows : ~Graph!BlockedBetween(gDb, p)

\* A pair is the other way of another only if that is the other way of it.
LEMMA BackAndForth ==
  ASSUME NEW p \in Graph!Two, NEW q \in Graph!Two
  PROVE  Graph!Back(p) \in Graph!Two /\ (Graph!Back(q) = p => q = Graph!Back(p))
BY DEF Graph!Back, Graph!Two

\* The follows that are there are the ones that BlockedDoNotFollow speaks of.
LEMMA FollowsAreSeen == GraphTyped /\ NoFollowOfBlocked => Graph!BlockedDoNotFollow
<1> SUFFICES ASSUME GraphTyped, NoFollowOfBlocked, ~crossed,
                    NEW u \in People, NEW v \in Graph!Hidden(gDb, u), <<u, v>> \in gDb.follows
             PROVE  FALSE
  BY DEF Graph!BlockedDoNotFollow
<1>1. Graph!BlockedBetween(gDb, <<u, v>>)
  BY DEF Graph!Hidden
<1> QED BY <1>1 DEF NoFollowOfBlocked

\* No step makes an account follow one that a block separates it from.
LEMMA NoFollowNext ==
  GraphTyped /\ NoFollowOfBlocked /\ [Graph!Next]_Graph!vars => NoFollowOfBlocked'
<1> SUFFICES ASSUME GraphTyped, NoFollowOfBlocked, [Graph!Next]_Graph!vars, ~crossed'
             PROVE  \A q \in gDb'.follows : ~Graph!BlockedBetween(gDb', q)
  BY DEF NoFollowOfBlocked, Graph!BlockedBetween
<1> DEFINE Apart(d) == \A q \in d.follows : ~Graph!BlockedBetween(d, q)
<1>1. ASSUME ~crossed PROVE Apart(gDb)
  BY <1>1 DEF NoFollowOfBlocked
<1>2. ASSUME NEW new, new.follows \subseteq gDb.follows, new.blocks \subseteq gDb.blocks, ~crossed
      PROVE  Apart(new)
  BY <1>1, <1>2 DEF Graph!BlockedBetween
<1>3. ASSUME NEW r \in Requests, Graph!Follow(r) PROVE Apart(gDb')
  <2> DEFINE p == gReq[r].op.pair
             s == gReq[r].db
  <2>1. PICK new \in {{}, Graph!FollowNote(s, p)} :
           Graph!Commit(r, IF p \in s.follows \/ p \in gDb.follows \/ new \cap gDb.notes # {} THEN gDb
                     ELSE [gDb EXCEPT !.follows = @ \cup {p}, !.notes = @ \cup new])
    BY <1>3 DEF Graph!Follow
  <2>2. ~crossed /\ ~Graph!BlockedBetween(gDb, p)
    BY <1>3 DEF Graph!Follow
  <2> HIDE DEF p, s
  <2> DEFINE more == [gDb EXCEPT !.follows = @ \cup {p}, !.notes = @ \cup new]
  <2>3. more.follows = gDb.follows \cup {p} /\ more.blocks = gDb.blocks
    BY DEF GraphTyped, GraphTables
  <2>4. gDb' = gDb \/ gDb' = more
    BY <2>1 DEF Graph!Commit
  <2> HIDE DEF more
  <2>5. Apart(more)
    BY <1>1, <2>2, <2>3 DEF Graph!BlockedBetween
  <2> QED BY <1>1, <2>2, <2>4, <2>5
<1>4. ASSUME NEW r \in Requests, Graph!Block(r) PROVE Apart(gDb')
  <2> DEFINE p == gReq[r].op.pair
             new == [gDb EXCEPT !.blocks = IF p \in gReq[r].db.blocks THEN @ ELSE @ \cup {p},
                               !.follows = @ \ Graph!Broken(p)]
  <2>1. p \in Graph!Two
    BY <1>4, GraphRequest DEF Graph!Block
  <2>2. gDb' = new /\ ~crossed
    BY <1>4 DEF Graph!Block, Graph!Commit
  <2> HIDE DEF p
  <2>3. new.follows = gDb.follows \ {p, Graph!Back(p)} /\ new.blocks \subseteq gDb.blocks \cup {p}
    BY DEF GraphTyped, GraphTables, Graph!Broken
  <2> HIDE DEF new
  <2>4. ASSUME NEW q \in new.follows PROVE ~Graph!BlockedBetween(new, q)
    <3>1. q \in Graph!Two /\ q # p /\ Graph!Back(q) # p
      BY <2>1, <2>3, BackAndForth DEF GraphTyped, GraphTables
    <3>2. ~Graph!BlockedBetween(gDb, q)
      BY <1>1, <2>2, <2>3
    <3> QED BY <2>3, <3>1, <3>2 DEF Graph!BlockedBetween
  <2> QED BY <2>2, <2>4
<1>5. ASSUME NEW r \in Requests, Graph!Unfollow(r) PROVE Apart(gDb')
  <2> DEFINE new == [gDb EXCEPT !.follows = @ \ {gReq[r].op.pair}]
  <2>1. gDb' = new /\ ~crossed
    BY <1>5 DEF Graph!Unfollow, Graph!Commit
  <2>2. new.follows \subseteq gDb.follows /\ new.blocks = gDb.blocks
    BY DEF GraphTyped, GraphTables
  <2> HIDE DEF new, Apart
  <2> QED BY <1>2, <2>1, <2>2
<1>6. ASSUME NEW r \in Requests, Graph!Unblock(r) PROVE Apart(gDb')
  <2> DEFINE new == [gDb EXCEPT !.blocks = @ \ {gReq[r].op.pair}]
  <2>1. gDb' = new /\ ~crossed
    BY <1>6 DEF Graph!Unblock, Graph!Commit
  <2>2. new.follows = gDb.follows /\ new.blocks \subseteq gDb.blocks
    BY DEF GraphTyped, GraphTables
  <2> HIDE DEF new, Apart
  <2> QED BY <1>2, <2>1, <2>2
<1>7. ASSUME NEW r \in Requests, Graph!SendReport(r) PROVE Apart(gDb')
  <2>1. PICK to : gDb' = [gDb EXCEPT !.reports[gReq[r].op.pair] = to]
    BY <1>7 DEF Graph!SendReport, Graph!Commit
  <2>2. gDb'.follows = gDb.follows /\ gDb'.blocks = gDb.blocks /\ ~crossed
    BY <1>7, <2>1 DEF Graph!SendReport, GraphTyped, GraphTables
  <2> HIDE DEF Apart
  <2> QED BY <1>2, <2>2
<1>8. ASSUME NEW r \in Requests, Graph!DecideReport(r) PROVE Apart(gDb')
  <2>1. PICK to, off : gDb' = [gDb EXCEPT !.reports[gReq[r].op.pair] = to,
                                        !.enabled = @ \ off, !.tokens = @ \ off]
    BY <1>8 DEF Graph!DecideReport, Graph!Commit
  <2>2. gDb'.follows = gDb.follows /\ gDb'.blocks = gDb.blocks /\ ~crossed
    BY <1>8, <2>1 DEF Graph!DecideReport, GraphTyped, GraphTables
  <2> HIDE DEF Apart
  <2> QED BY <1>2, <2>2
<1>9. ASSUME UNCHANGED <<gDb, crossed>> PROVE Apart(gDb')
  BY <1>1, <1>9
<1> QED BY <1>3, <1>4, <1>5, <1>6, <1>7, <1>8, <1>9 DEF Graph!Next, Graph!Begin, Graph!Refuse,
               Graph!vars

\* However follows, unfollows, blocks and unblocks of any accounts come after one another,
\* nobody follows an account on the other side of a block, unless a follow of the two was
\* under way while a block of them committed.
THEOREM FollowsEnd == Graph!Spec => []Graph!BlockedDoNotFollow
<1>1. Graph!Init => NoFollowOfBlocked
  BY DEF Graph!Init, NoFollowOfBlocked
<1> QED BY <1>1, GraphTypedInit, GraphTypedNext, NoFollowNext, FollowsAreSeen, PTL DEF Graph!Spec

-----------------------------------------------------------------------------
(* Reports                                                                 *)

\* A step that leaves the reports and the history of them alone keeps ReportIsHeard.
LEMMA HeardWithoutReports ==
  ASSUME GraphTyped, Graph!ReportIsHeard, heard' = heard, gDb'.reports = gDb.reports
  PROVE  Graph!ReportIsHeard'
BY DEF Graph!ReportIsHeard

\* Every step keeps the reports that no decision answered waiting for one.
LEMMA ReportIsHeardNext == GraphTyped /\ Graph!ReportIsHeard
/\ [Graph!Next]_Graph!vars => Graph!ReportIsHeard'
<1> SUFFICES ASSUME GraphTyped, Graph!ReportIsHeard, [Graph!Next]_Graph!vars
             PROVE Graph!ReportIsHeard'
  OBVIOUS
<1>1. ASSUME NEW r \in Requests, Graph!SendReport(r) PROVE Graph!ReportIsHeard'
  <2> DEFINE p == gReq[r].op.pair
             old == gReq[r].db.reports[p]
             stands == gDb.reports[p]
             overlap == stands # old \/ Graph!Involves(p, {"decide"})
             to == IF stands = NoRow
                      THEN [status |-> "pending", reviewed |-> FALSE, crossed |-> FALSE]
                   ELSE [(IF old.status = "pending" THEN stands ELSE Graph!Reopened(stands)) EXCEPT
                           !.reviewed = IF gReq[r].op.comment \/ ~old.reviewed THEN @ ELSE FALSE,
                           !.crossed = @ \/ overlap]
  <2>1. p \in Graph!Two
    BY <1>1, GraphRequest DEF Graph!SendReport
  <2>2. gDb' = [gDb EXCEPT !.reports[p] = to] /\ heard' = heard \cup {p}
    BY <1>1 DEF Graph!SendReport, Graph!Commit
  <2>3. stands # NoRow => stands \in Graph!Report
    BY <2>1 DEF GraphTyped, GraphTables
  <2>4. ~to.crossed => to.status = "pending"
    <3> HIDE DEF p
    <3>1. CASE stands = NoRow
      BY <3>1
    <3>2. CASE stands # NoRow
      <4> DEFINE base == IF old.status = "pending" THEN stands ELSE Graph!Reopened(stands)
      <4>1. base \in Graph!Report /\ (stands = old => base.status = "pending")
        BY <2>3, <3>2 DEF Graph!Report, Graph!Reopened
      <4>2. overlap \in BOOLEAN
        OBVIOUS
      <4>3. stands # old => overlap
        OBVIOUS
      <4> HIDE DEF base, overlap
      <4>4. to = [base EXCEPT
                   !.reviewed = IF gReq[r].op.comment \/ ~old.reviewed THEN @ ELSE FALSE,
                   !.crossed = @ \/ overlap]
        BY <3>2 DEF base
      <4> HIDE DEF to
      <4>5. to.status = base.status /\ to.crossed = (base.crossed \/ overlap)
        BY <4>1, <4>4 DEF Graph!Report
      <4> QED BY <4>1, <4>3, <4>5
    <3> QED BY <3>1, <3>2
  <2> HIDE DEF p, to
  <2>5. gDb'.reports = [gDb.reports EXCEPT ![p] = to]
        /\ gDb.reports \in [Graph!Two -> Graph!Report \cup {NoRow}]
    BY <2>2 DEF GraphTyped, GraphTables
  <2>6. heard \subseteq Graph!Two
    BY DEF GraphTyped
  <2> QED BY <2>1, <2>2, <2>4, <2>5, <2>6 DEF Graph!ReportIsHeard
<1>2. ASSUME NEW r \in Requests, Graph!DecideReport(r) PROVE Graph!ReportIsHeard'
  <2> DEFINE p == gReq[r].op.pair
  <2>1. PICK to, off : gDb' = [gDb EXCEPT !.reports[p] = to,
                                        !.enabled = @ \ off, !.tokens = @ \ off]
    BY <1>2 DEF Graph!DecideReport, Graph!Commit
  <2>2. heard' = heard \ {p}
    BY <1>2 DEF Graph!DecideReport
  <2> HIDE DEF p
  <2>3. gDb'.reports = [gDb.reports EXCEPT ![p] = to]
        /\ gDb.reports \in [Graph!Two -> Graph!Report \cup {NoRow}]
    BY <2>1 DEF GraphTyped, GraphTables
  <2>4. heard \subseteq Graph!Two
    BY DEF GraphTyped
  <2> QED BY <2>2, <2>3, <2>4 DEF Graph!ReportIsHeard
<1>3. ASSUME NEW r \in Requests, Graph!Follow(r) PROVE Graph!ReportIsHeard'
  <2>1. PICK p, notes : \/ gDb' = gDb
                        \/ gDb' = [gDb EXCEPT !.follows = @ \cup {p}, !.notes = @ \cup notes]
    BY <1>3 DEF Graph!Follow, Graph!Commit
  <2>2. gDb'.reports = gDb.reports /\ heard' = heard
    BY <1>3, <2>1 DEF Graph!Follow, GraphTyped, GraphTables
  <2> QED BY <2>2, HeardWithoutReports
<1>4. ASSUME NEW r \in Requests, Graph!Unfollow(r) PROVE Graph!ReportIsHeard'
  <2>1. gDb'.reports = gDb.reports /\ heard' = heard
    BY <1>4 DEF Graph!Unfollow, Graph!Commit, GraphTyped, GraphTables
  <2> QED BY <2>1, HeardWithoutReports
<1>5. ASSUME NEW r \in Requests, Graph!Block(r) PROVE Graph!ReportIsHeard'
  <2>1. PICK others, f : gDb' = [gDb EXCEPT !.blocks = others, !.follows = f]
    BY <1>5 DEF Graph!Block, Graph!Commit
  <2>2. gDb'.reports = gDb.reports /\ heard' = heard
    BY <1>5, <2>1 DEF Graph!Block, GraphTyped, GraphTables
  <2> QED BY <2>2, HeardWithoutReports
<1>6. ASSUME NEW r \in Requests, Graph!Unblock(r) PROVE Graph!ReportIsHeard'
  <2>1. gDb'.reports = gDb.reports /\ heard' = heard
    BY <1>6 DEF Graph!Unblock, Graph!Commit, GraphTyped, GraphTables
  <2> QED BY <2>1, HeardWithoutReports
<1>7. ASSUME UNCHANGED <<gDb, heard>> PROVE Graph!ReportIsHeard'
  BY <1>7, HeardWithoutReports
<1> QED BY <1>1, <1>2, <1>3, <1>4, <1>5, <1>6, <1>7 DEF Graph!Next, Graph!Begin, Graph!Refuse,
               Graph!vars

\* Whoever reports whom, how often, and however decisions come in between, a report that no
\* decision has come after is pending, unless one was under way while it was sent.
THEOREM ReportsWait == Graph!Spec => []Graph!ReportIsHeard
<1>1. Graph!Init => Graph!ReportIsHeard
  BY DEF Graph!Init, Graph!ReportIsHeard
<1> QED BY <1>1, GraphTypedInit, GraphTypedNext, ReportIsHeardNext, PTL DEF Graph!Spec

\* The part of the platform that is Graph behaves as the component does.
LEMMA GraphBehaves == Spec => Graph!Spec
<1>1. Init => Graph!Init
  BY DEF Init
<1>2. [Next]_vars => [Graph!Next]_Graph!vars
  BY PartsNext DEF graphVars, Graph!vars
<1> QED BY <1>1, <1>2, PTL DEF Spec, Graph!Spec

\* Nobody follows an account that has blocked them or that they have blocked.
THEOREM BlocksEndFollows == Spec => []BlockedDoNotFollow
BY GraphBehaves, FollowsEnd, PTL DEF BlockedDoNotFollow

\* A report that no decision has come after waits for one.
THEOREM ReportsWaitForADecision == Spec => []ReportIsHeard
BY GraphBehaves, ReportsWait, PTL DEF ReportIsHeard

-----------------------------------------------------------------------------
(***************************************************************************)
(* UploadSessions: what a ready row says is in the store, and stays there. *)
(***************************************************************************)

\* A finalize request under way works on objects of its session.
Finalize == [pc : {"waiting", "verifying", "register"}, s : Sessions, row : Store!SessionRow,
             pending : SUBSET Store!SessionObjects, verified : SUBSET Store!SessionObjects]

\* What a finalize request works on: objects of its session, which exists.
FinWorks(f) == oFin[f] # Store!Idle =>
    /\ oFin[f].verified \subseteq oFin[f].pending
    /\ oFin[f].pending \subseteq ObjectsOf[oFin[f].s]
    /\ oSession[oFin[f].s] # NoRow

\* The types of the store.
StoreTyped ==
    /\ oSession \in [Sessions -> Store!SessionRow \cup {NoRow}]
    /\ row \in [Store!Objects -> Store!ObjectState]
    /\ staging \in [Store!SessionObjects -> Contents \cup {NoObject}]
    /\ store \in [Store!Keys -> Contents \cup {NoObject}]
    /\ registered \subseteq Sessions
    /\ renew \in [Sessions -> {"none", "pending", "expired"}]
    /\ oFin \in [Finalizers -> Finalize \cup {Store!Idle}]
    /\ image \in [Images -> {"none", "absent", "stored", "lost", "done"}]
    /\ retire \in [deleted : SUBSET Store!LegacyObjects]
    /\ \A s \in Sessions : renew[s] # "none" => oSession[s] # NoRow
    /\ \A f \in Finalizers : FinWorks(f)

\* What the store holds under the key of an object is its content.
Stored(o) == store[Key[o]] = Declared[o]

\* A trusted server has put what it declared.
TrustedBytes ==
    \A s \in Trusted : \A o \in ObjectsOf[s] : staging[o] \in {NoObject, Declared[o]}

\* The rows of a session exist with it, so do those being retired, and of two rows of session
\* objects each owns its key.
OwnKeys ==
    /\ \A o \in retire.deleted : row[o] # "none"
    /\ \A s \in Sessions : oSession[s] # NoRow => \A o \in ObjectsOf[s] : row[o] # "none"
    /\ \A o, q \in Store!SessionObjects :
          row[o] # "none" /\ row[q] # "none" /\ Key[o] = Key[q] => o = q

\* What a finalize request has verified is stored.
VerifiedIsStored ==
    \A f \in Finalizers : oFin[f] # Store!Idle
      => \A o \in oFin[f].verified \ Store!LegacyObjects : Stored(o)

\* An image is stored before its row is written; under the key of a reference image lies
\* nothing else.
ImageIsStored ==
    /\ \A o \in Images : image[o] = "stored" => o \notin References /\ Stored(o)
    /\ \A o \in References : store[Key[o]] \in {NoObject, Declared[o]}
    /\ \A o \in References : image[o] # "stored"
    /\ \A o \in Images : image[o] = "absent" => o \in References

\* The inductive invariant of the store.
StoreInv == TrustedBytes /\ OwnKeys /\ VerifiedIsStored /\ ImageIsStored /\ Store!ReadyIsStored

-----------------------------------------------------------------------------
\* Objects have keys and contents; an object belongs to one session.
LEMMA ObjectFacts ==
  ASSUME NEW o \in Store!Objects
  PROVE  /\ Key[o] \in Store!Keys /\ o \in DOMAIN Key
         /\ Declared[o] \in Contents /\ Declared[o] # NoObject
<1>1. o \in DOMAIN Key /\ Declared[o] \in Contents
  BY ObjectAssumption DEF Store!Objects, Store!SessionObjects
<1> QED BY <1>1, ObjectAssumption DEF Store!Keys

\* The objects of a session are no images, and legacy ones only in a legacy session.
LEMMA SessionFacts ==
  ASSUME NEW s \in Sessions, NEW o \in ObjectsOf[s]
  PROVE  /\ o \in Store!SessionObjects /\ o \in Store!Objects /\ o \notin Images
         /\ o \in Store!LegacyObjects => s \in LegacySessions
  BY ObjectAssumption DEF Store!Objects, Store!SessionObjects, Store!LegacyObjects

\* The key of an image is its own; reference images share theirs with their equals.
LEMMA ImageKeys ==
  ASSUME NEW o \in Images, NEW q \in Store!Objects, Key[q] = Key[o]
  PROVE  /\ o \in Store!Objects
         /\ o \notin References => q = o
         /\ o \in References => q \in References /\ Declared[q] = Declared[o]
<1>1. o \in Store!Objects /\ q \in DOMAIN Key
  BY ObjectFacts DEF Store!Objects
<1>2. q # o => {o, q} \subseteq References /\ Declared[q] = Declared[o]
  BY <1>1, ObjectAssumption
<1> QED BY <1>1, <1>2

\* What a request that is not idle is.
LEMMA RunningFinalize ==
  ASSUME StoreTyped, NEW f \in Finalizers, oFin[f].pc # "idle"
  PROVE  /\ oFin[f] # Store!Idle /\ oFin[f] \in Finalize /\ oFin[f].s \in Sessions
         /\ oFin[f].verified \subseteq oFin[f].pending
         /\ oFin[f].pending \subseteq ObjectsOf[oFin[f].s]
         /\ oSession[oFin[f].s] \in Store!SessionRow /\ oSession[oFin[f].s] # NoRow
<1>1. oFin[f] # Store!Idle
  BY DEF Store!Idle
<1>2. oFin[f] \in Finalize
  BY <1>1 DEF StoreTyped
<1> QED BY <1>1, <1>2 DEF StoreTyped, FinWorks, Finalize

-----------------------------------------------------------------------------
LEMMA StoreTypedInit == Store!Init => StoreTyped
<1> SUFFICES ASSUME Store!Init PROVE StoreTyped
  OBVIOUS
<1>1. \A f \in Finalizers : FinWorks(f)
  BY DEF Store!Init, FinWorks
<1>2. oFin \in [Finalizers -> Finalize \cup {Store!Idle}]
  BY DEF Store!Init
<1>3. retire \in [deleted : SUBSET Store!LegacyObjects]
  BY DEF Store!Init
<1> QED BY <1>1, <1>2, <1>3 DEF Store!Init, StoreTyped, Store!ObjectState

\* A finalize request becomes idle or something else that it can be.
LEMMA StoreTypedFinalize ==
  ASSUME StoreTyped, NEW f \in Finalizers, NEW new \in Finalize \cup {Store!Idle},
         oFin' = [oFin EXCEPT ![f] = new],
         oSession' \in [Sessions -> Store!SessionRow \cup {NoRow}],
         \A s \in Sessions : oSession[s] # NoRow => oSession'[s] # NoRow,
         new # Store!Idle => /\ new.verified \subseteq new.pending
                             /\ new.pending \subseteq ObjectsOf[new.s]
                             /\ oSession[new.s] # NoRow,
         UNCHANGED <<staging, renew, image, retire>>,
         row' \in [Store!Objects -> Store!ObjectState],
         store' \in [Store!Keys -> Contents \cup {NoObject}],
         registered' \subseteq Sessions
  PROVE  StoreTyped'
<1>1. oFin' \in [Finalizers -> Finalize \cup {Store!Idle}]
  BY DEF StoreTyped
<1>2. ASSUME NEW g \in Finalizers PROVE FinWorks(g)'
  <2>1. CASE g = f
    <3>1. oFin'[g] = new
      BY <2>1 DEF StoreTyped
    <3> QED BY <3>1 DEF FinWorks, Finalize
  <2>2. CASE g # f
    <3>1. oFin'[g] = oFin[g]
      BY <2>2 DEF StoreTyped
    <3>2. oFin[g] # Store!Idle => oFin[g] \in Finalize
      BY DEF StoreTyped
    <3> QED BY <3>1, <3>2 DEF FinWorks, StoreTyped, Finalize
  <2> QED BY <2>1, <2>2
<1> QED BY <1>1, <1>2 DEF StoreTyped

\* A step that leaves the finalize requests alone keeps what they are.
LEMMA StoreTypedElsewhere ==
  ASSUME StoreTyped, UNCHANGED oFin,
         oSession' \in [Sessions -> Store!SessionRow \cup {NoRow}],
         \A s \in Sessions : oSession[s] # NoRow => oSession'[s] # NoRow,
         row' \in [Store!Objects -> Store!ObjectState],
         staging' \in [Store!SessionObjects -> Contents \cup {NoObject}],
         store' \in [Store!Keys -> Contents \cup {NoObject}],
         UNCHANGED registered,
         renew' \in [Sessions -> {"none", "pending", "expired"}],
         \A s \in Sessions : renew'[s] # "none" => oSession'[s] # NoRow,
         image' \in [Images -> {"none", "absent", "stored", "lost", "done"}],
         retire' \in [deleted : SUBSET Store!LegacyObjects]
  PROVE  StoreTyped'
<1>1. ASSUME NEW f \in Finalizers PROVE FinWorks(f)'
  <2>1. oFin[f] # Store!Idle => oFin[f] \in Finalize
    BY DEF StoreTyped
  <2> QED BY <2>1 DEF FinWorks, StoreTyped, Finalize
<1> QED BY <1>1 DEF StoreTyped

\* Creating, renewing and expiring sessions keeps the types.
LEMMA StoreTypedSessions ==
  ASSUME StoreTyped, NEW s \in Sessions,
         Store!CreateSession(s) \/ Store!RenewRead(s) \/ Store!RenewWrite(s) \/ Store!Expire(s)
  PROVE  StoreTyped'
<1>1. CASE Store!CreateSession(s)
  <2>1. oSession' \in [Sessions -> Store!SessionRow \cup {NoRow}]
        /\ \A t \in Sessions : oSession[t] # NoRow => oSession'[t] # NoRow
    <3>1. [state |-> "pending", late |-> FALSE] \in Store!SessionRow
      BY DEF Store!SessionRow
    <3> QED BY <1>1, <3>1 DEF Store!CreateSession, StoreTyped
  <2>2. row' \in [Store!Objects -> Store!ObjectState]
    BY <1>1 DEF Store!CreateSession, StoreTyped, Store!ObjectState
  <2> QED BY <1>1, <2>1, <2>2, StoreTypedElsewhere DEF Store!CreateSession, StoreTyped
<1>2. CASE Store!RenewRead(s)
  <2>1. oSession[s] \in Store!SessionRow /\ oSession[s].state \in {"pending", "expired"}
    BY <1>2 DEF Store!RenewRead, StoreTyped, Store!SessionRow
  <2> QED BY <1>2, <2>1, StoreTypedElsewhere DEF Store!RenewRead, StoreTyped
<1>3. CASE Store!RenewWrite(s)
  <2>1. oSession[s] # NoRow /\ oSession[s] \in Store!SessionRow
    BY <1>3 DEF Store!RenewWrite, StoreTyped
  <2> DEFINE new == [oSession[s] EXCEPT !.late = FALSE,
                       !.state = IF renew[s] = "expired" THEN "pending" ELSE @]
  <2>2. new \in Store!SessionRow
    BY <2>1 DEF Store!SessionRow
  <2>3. oSession' = [oSession EXCEPT ![s] = new]
    BY <1>3, <2>1 DEF Store!RenewWrite, StoreTyped, Store!SessionRow
  <2> HIDE DEF new
  <2>4. new # NoRow
    BY <2>2, ObjectAssumption DEF Store!SessionRow
  <2> QED BY <1>3, <2>2, <2>3, <2>4, StoreTypedElsewhere DEF Store!RenewWrite, StoreTyped
<1>4. CASE Store!Expire(s)
  <2>1. oSession[s] # NoRow /\ oSession[s] \in Store!SessionRow
    BY <1>4 DEF Store!Expire, StoreTyped
  <2> DEFINE new == [oSession[s] EXCEPT !.late = TRUE]
  <2>2. new \in Store!SessionRow
    BY <2>1 DEF Store!SessionRow
  <2>3. oSession' = [oSession EXCEPT ![s] = new]
    BY <1>4, <2>1 DEF Store!Expire, StoreTyped, Store!SessionRow
  <2> HIDE DEF new
  <2>4. new # NoRow
    BY <2>2, ObjectAssumption DEF Store!SessionRow
  <2> QED BY <1>4, <2>2, <2>3, <2>4, StoreTypedElsewhere DEF Store!Expire, StoreTyped
<1> QED BY <1>1, <1>2, <1>3, <1>4

\* The client keeps the types.
LEMMA StoreTypedClient ==
  ASSUME StoreTyped, NEW s \in Sessions, NEW c \in Contents, NEW o \in ObjectsOf[s],
         Store!ClientUpload(o, s, c)
  PROVE  StoreTyped'
<1>1. staging' \in [Store!SessionObjects -> Contents \cup {NoObject}]
  BY SessionFacts DEF Store!ClientUpload, StoreTyped
<1> QED BY <1>1, StoreTypedElsewhere DEF Store!ClientUpload, StoreTyped

\* What a finalize request reads is well-typed.
LEMMA StoreTypedReads ==
  ASSUME StoreTyped, NEW f \in Finalizers, NEW s \in Sessions, Store!FinalizeRead(f, s)
  PROVE  StoreTyped'
<1> DEFINE new == [pc |-> "waiting", s |-> s, row |-> oSession[s],
                   pending |-> {o \in ObjectsOf[s] : row[o] # "ready"}, verified |-> {}]
<1>1. oSession[s] # NoRow /\ oSession[s] \in Store!SessionRow
  BY DEF Store!FinalizeRead, StoreTyped
<1>2. ObjectsOf[s] \subseteq Store!SessionObjects
  BY DEF Store!SessionObjects
<1>3. new \in Finalize /\ new.verified \subseteq new.pending
      /\ new.pending \subseteq ObjectsOf[new.s]
      /\ oSession[new.s] # NoRow
  BY <1>1, <1>2 DEF Finalize
<1>4. oFin' = [oFin EXCEPT ![f] = new]
  BY DEF Store!FinalizeRead
<1> HIDE DEF new
<1> QED BY <1>3, <1>4, StoreTypedFinalize DEF Store!FinalizeRead, StoreTyped

\* What finalize does once it has the row lock.
LEMMA StoreTypedFinalizes ==
  ASSUME StoreTyped, NEW f \in Finalizers,
         \/ Store!FinalizeLock(f) \/ Store!FinalizeCommit(f) \/ Store!FinalizeFail(f)
            \/ Store!Register(f)
         \/ \E o \in Store!SessionObjects : Store!VerifyAndPromote(f, o)
  PROVE  StoreTyped'
<1>0. oFin[f].pc # "idle"
  BY DEF Store!FinalizeLock, Store!FinalizeCommit, Store!FinalizeFail, Store!Register,
         Store!VerifyAndPromote
<1>1. /\ oFin[f] # Store!Idle /\ oFin[f] \in Finalize /\ oFin[f].s \in Sessions
      /\ oFin[f].verified \subseteq oFin[f].pending
      /\ oFin[f].pending \subseteq ObjectsOf[oFin[f].s]
      /\ oSession[oFin[f].s] \in Store!SessionRow /\ oSession[oFin[f].s] # NoRow
  BY <1>0, RunningFinalize
<1>2. ASSUME NEW state \in {"pending", "ready", "expired"},
             oSession' = [oSession EXCEPT ![oFin[f].s].state = state] \/ oSession' = oSession
      PROVE  /\ oSession' \in [Sessions -> Store!SessionRow \cup {NoRow}]
             /\ \A s \in Sessions : oSession[s] # NoRow => oSession'[s] # NoRow
  <2> DEFINE new == [oSession[oFin[f].s] EXCEPT !.state = state]
  <2>1. new \in Store!SessionRow
    BY <1>1 DEF Store!SessionRow
  <2>2. oSession' = [oSession EXCEPT ![oFin[f].s] = new] \/ oSession' = oSession
    BY <1>2
  <2> HIDE DEF new
  <2>3. new # NoRow
    BY <2>1, ObjectAssumption DEF Store!SessionRow
  <2> QED BY <1>1, <2>1, <2>2, <2>3 DEF StoreTyped
<1>3. ASSUME NEW pc \in {"waiting", "verifying", "register"},
             oFin' = [oFin EXCEPT ![f].pc = pc] \/ oFin' = [oFin EXCEPT ![f] = Store!Idle]
      PROVE  \E new \in Finalize \cup {Store!Idle} :
                /\ oFin' = [oFin EXCEPT ![f] = new]
                /\ new # Store!Idle => /\ new.verified \subseteq new.pending
                                       /\ new.pending \subseteq ObjectsOf[new.s]
                                       /\ oSession[new.s] # NoRow
  <2> DEFINE new == [oFin[f] EXCEPT !.pc = pc]
  <2>1. /\ new \in Finalize /\ new.verified = oFin[f].verified
        /\ new.pending = oFin[f].pending /\ new.s = oFin[f].s
    BY <1>1 DEF Finalize
  <2>2. oFin' = [oFin EXCEPT ![f] = new] \/ oFin' = [oFin EXCEPT ![f] = Store!Idle]
    BY <1>3
  <2> HIDE DEF new
  <2> QED BY <1>1, <2>1, <2>2
<1>4. CASE Store!FinalizeLock(f)
  <2>1. /\ \E state \in {"pending", "ready", "expired"} :
              oSession' = [oSession EXCEPT ![oFin[f].s].state = state] \/ oSession' = oSession
        /\ \E pc \in {"waiting", "verifying", "register"} :
              oFin' = [oFin EXCEPT ![f].pc = pc] \/ oFin' = [oFin EXCEPT ![f] = Store!Idle]
        /\ UNCHANGED <<row, staging, store, registered, renew, image, retire>>
    BY <1>4 DEF Store!FinalizeLock
  <2> QED BY <2>1, <1>2, <1>3, StoreTypedFinalize DEF StoreTyped
<1>5. CASE Store!FinalizeCommit(f)
  <2>1. /\ oSession' = [oSession EXCEPT ![oFin[f].s].state = "ready"]
        /\ oFin' = [oFin EXCEPT ![f].pc = "register"]
        /\ UNCHANGED <<staging, store, registered, renew, image, retire>>
    BY <1>5 DEF Store!FinalizeCommit
  <2>2. row' \in [Store!Objects -> Store!ObjectState]
    BY <1>5 DEF Store!FinalizeCommit, StoreTyped, Store!ObjectState
  <2> QED BY <2>1, <2>2, <1>2, <1>3, StoreTypedFinalize DEF StoreTyped
<1>6. CASE Store!FinalizeFail(f) \/ Store!Register(f)
  <2>1. /\ oFin' = [oFin EXCEPT ![f] = Store!Idle] /\ registered' \subseteq Sessions
        /\ UNCHANGED <<oSession, row, staging, store, renew, image, retire>>
    BY <1>1, <1>6 DEF Store!FinalizeFail, Store!Register, StoreTyped
  <2> QED BY <2>1, StoreTypedFinalize DEF StoreTyped
<1>7. ASSUME NEW o \in Store!SessionObjects, Store!VerifyAndPromote(f, o) PROVE StoreTyped'
  <2> DEFINE new == [oFin[f] EXCEPT !.verified = @ \cup {o}]
  <2>1. /\ new \in Finalize /\ new.verified = oFin[f].verified \cup {o}
        /\ new.pending = oFin[f].pending /\ new.s = oFin[f].s
    BY <1>1 DEF Finalize
  <2>2. /\ oFin' = [oFin EXCEPT ![f] = new] /\ o \in oFin[f].pending
        /\ UNCHANGED <<oSession, row, staging, registered, renew, image, retire>>
    BY <1>7 DEF Store!VerifyAndPromote
  <2>3. store' \in [Store!Keys -> Contents \cup {NoObject}]
    BY <1>7 DEF Store!VerifyAndPromote, Store!Promoted, StoreTyped
  <2> HIDE DEF new
  <2> QED BY <1>1, <2>1, <2>2, <2>3, StoreTypedFinalize DEF StoreTyped
<1> QED BY <1>4, <1>5, <1>6, <1>7

\* Images and retirement.
LEMMA StoreTypedImages ==
  ASSUME StoreTyped,
         \/ \E o \in Images : \/ Store!StoreImage(o) \/ Store!ReuseCover(o) \/ Store!CommitImage(o)
                              \/ Store!LookForReference(o) \/ Store!PutReference(o)
         \/ \E o \in Store!SessionObjects : Store!RetireDelete(o)
         \/ Store!RetireEnd
  PROVE  StoreTyped'
<1>1. ASSUME NEW o \in Images, Store!StoreImage(o) \/ Store!ReuseCover(o)
             \/ Store!LookForReference(o) \/ Store!PutReference(o)
      PROVE  StoreTyped'
  <2>1. Declared[o] \in Contents
    BY ObjectFacts DEF Store!Objects
  <2>2. store' \in [Store!Keys -> Contents \cup {NoObject}]
        /\ image' \in [Images -> {"none", "absent", "stored", "lost", "done"}]
        /\ UNCHANGED <<oSession, row, staging, registered, renew, oFin, retire>>
    BY <1>1, <2>1 DEF Store!StoreImage, Store!ReuseCover, Store!LookForReference,
           Store!PutReference, StoreTyped
  <2> QED BY <2>2, StoreTypedElsewhere DEF StoreTyped
<1>2. ASSUME NEW o \in Images, Store!CommitImage(o) PROVE StoreTyped'
  <2>1. row' \in [Store!Objects -> Store!ObjectState]
        /\ image' \in [Images -> {"none", "absent", "stored", "lost", "done"}]
        /\ UNCHANGED <<oSession, staging, store, registered, renew, oFin, retire>>
    BY <1>2 DEF Store!CommitImage, StoreTyped, Store!ObjectState
  <2> QED BY <2>1, StoreTypedElsewhere DEF StoreTyped
<1>3. ASSUME NEW o \in Store!SessionObjects, Store!RetireDelete(o) PROVE StoreTyped'
  <2>1. store' \in [Store!Keys -> Contents \cup {NoObject}]
        /\ retire' \in [deleted : SUBSET Store!LegacyObjects]
        /\ UNCHANGED <<oSession, row, staging, registered, renew, oFin, image>>
    BY <1>3 DEF Store!RetireDelete, Store!Retireable, StoreTyped
  <2> QED BY <2>1, StoreTypedElsewhere DEF StoreTyped
<1>4. CASE Store!RetireEnd
  <2>1. row' \in [Store!Objects -> Store!ObjectState]
        /\ retire' \in [deleted : SUBSET Store!LegacyObjects]
        /\ UNCHANGED <<oSession, staging, store, registered, renew, oFin, image>>
    BY <1>4 DEF Store!RetireEnd, StoreTyped, Store!ObjectState
  <2> QED BY <2>1, StoreTypedElsewhere DEF StoreTyped
<1> QED BY <1>1, <1>2, <1>3, <1>4

\* Every step keeps the types.
LEMMA StoreTypedNext == StoreTyped /\ [Store!Next]_Store!vars => StoreTyped'
<1> SUFFICES ASSUME StoreTyped, [Store!Next]_Store!vars PROVE StoreTyped'
  OBVIOUS
<1>1. CASE UNCHANGED Store!vars
  BY <1>1, StoreTypedElsewhere DEF Store!vars, StoreTyped
<1> QED BY <1>1, StoreTypedSessions, StoreTypedClient, StoreTypedReads, StoreTypedFinalizes,
           StoreTypedImages DEF Store!Next

\* They are the types of the component.
LEMMA StoreTypesHold == StoreTyped => Store!TypeOK
<1> SUFFICES ASSUME StoreTyped PROVE Store!TypeOK
  OBVIOUS
<1>1. ASSUME NEW f \in Finalizers
      PROVE  oFin[f].pc \in {"idle", "waiting", "verifying", "register"}
  BY DEF StoreTyped, Finalize, Store!Idle
<1> QED BY <1>1 DEF StoreTyped, Store!TypeOK

\* Type correctness of the store.
THEOREM StoreTypes == Store!Spec => []Store!TypeOK
  BY StoreTypedInit, StoreTypedNext, StoreTypesHold, PTL DEF Store!Spec

-----------------------------------------------------------------------------
\* What is put under a free key, or under an image's own, leaves what is stored elsewhere.
LEMMA PutKeeps ==
  ASSUME StoreTyped, NEW q \in Store!Objects, store[Key[q]] = NoObject
         \/ q \in Images \ References,
         store' = [store EXCEPT ![Key[q]] = Declared[q]],
         NEW o \in Store!Objects
  PROVE  /\ Stored(q)'
         /\ Stored(o) => store'[Key[o]] = store[Key[o]]
         /\ o \in References /\ store[Key[o]] \in {NoObject, Declared[o]} =>
               store'[Key[o]] \in {NoObject, Declared[o]}
<1>1. /\ Key[q] \in Store!Keys /\ Key[o] \in Store!Keys /\ Declared[o] # NoObject
      /\ store \in [Store!Keys -> Contents \cup {NoObject}]
  BY ObjectFacts DEF StoreTyped
<1>2. store'[Key[q]] = Declared[q]
  BY <1>1
<1>3. CASE Key[o] # Key[q]
  BY <1>1, <1>2, <1>3 DEF Stored
<1>4. CASE Key[o] = Key[q]
  <2>1. o \in References => Declared[q] = Declared[o]
    BY <1>4, ImageKeys, ObjectAssumption
  <2>2. q \in Images \ References => o = q
    BY <1>4, ImageKeys
  <2>3. q \in Images \ References => o \notin References
    BY <2>2
  <2> QED BY <1>1, <1>2, <1>4, <2>1, <2>2, <2>3 DEF Stored
<1> QED BY <1>3, <1>4

\* What retirement deletes is under no other row's key.
LEMMA DeleteKeeps ==
  ASSUME StoreTyped, StoreInv, NEW q \in Store!SessionObjects, Store!RetireDelete(q),
         NEW o \in Store!Objects,
         o \notin Store!LegacyObjects, o \in Store!SessionObjects => row[o] # "none"
  PROVE  store'[Key[o]] = store[Key[o]]
<1>1. Key[q] \in Store!Keys /\ Key[o] \in Store!Keys /\ q \in Store!Objects /\ q \notin Images
  BY ObjectFacts, SessionFacts DEF Store!Objects, Store!SessionObjects
<1>2. row[q] # "none" /\ q # o
  BY DEF Store!RetireDelete, Store!Retireable
<1>3. Key[o] # Key[q]
  <2>1. CASE o \in Store!SessionObjects
    BY <1>2, <2>1 DEF StoreInv, OwnKeys
  <2>2. CASE o \in Images
    BY <1>1, <2>2, ImageKeys, ObjectAssumption
  <2> QED BY <2>1, <2>2 DEF Store!Objects
<1> QED BY <1>1, <1>3 DEF Store!RetireDelete, StoreTyped

\* An object that has a row, or is an image, keeps what lies under its key unless it is retired.
StoreKept(o) == o \notin Store!LegacyObjects /\ (o \in Store!SessionObjects => row[o] # "none")

\* A step that writes no row, puts nothing and verifies nothing new.
LEMMA QuietStep ==
  ASSUME StoreTyped, StoreInv, UNCHANGED <<row, staging, store, image, retire>>,
         \A s \in Sessions : oSession'[s] # NoRow => oSession[s] # NoRow,
         \A f \in Finalizers : oFin'[f] # Store!Idle =>
            oFin'[f].verified = {}
            \/ (oFin[f] # Store!Idle /\ oFin'[f].verified = oFin[f].verified)
  PROVE  StoreInv'
<1>1. (TrustedBytes /\ OwnKeys /\ ImageIsStored /\ Store!ReadyIsStored)'
  BY DEF StoreInv, TrustedBytes, OwnKeys, ImageIsStored, Store!ReadyIsStored, Stored
<1>2. VerifiedIsStored'
  BY DEF StoreInv, VerifiedIsStored, Stored
<1> QED BY <1>1, <1>2 DEF StoreInv

\* A step that puts content where it may keeps every part of the invariant but its own.
LEMMA PutStep ==
  ASSUME StoreTyped, StoreInv, UNCHANGED <<oSession, row, staging, retire>>,
         NEW q \in Store!Objects, store[Key[q]] = NoObject \/ q \in Images \ References,
         store' = [store EXCEPT ![Key[q]] = Declared[q]],
         \A f \in Finalizers : oFin'[f] # Store!Idle =>
            oFin[f] # Store!Idle /\ oFin'[f].verified \subseteq oFin[f].verified \cup {q},
         \A o \in Images : image'[o] # image[o] =>
            \/ o = q /\ image'[o] = "stored" /\ q \notin References
            \/ o = q /\ image'[o] = "done"
  PROVE  StoreInv'
<1>1. \A o \in Store!Objects :
         /\ Stored(o) => Stored(o)'
         /\ o \in References /\ store[Key[o]] \in {NoObject, Declared[o]} =>
               store'[Key[o]] \in {NoObject, Declared[o]}
  BY PutKeeps DEF Stored
<1>2. Stored(q)'
  BY PutKeeps
<1>3. (TrustedBytes /\ OwnKeys)'
  BY DEF StoreInv, TrustedBytes, OwnKeys
<1>4. VerifiedIsStored'
  <2> SUFFICES ASSUME NEW f \in Finalizers, oFin'[f] # Store!Idle,
                      NEW o \in oFin'[f].verified, o \notin Store!LegacyObjects
               PROVE  Stored(o)'
    BY DEF VerifiedIsStored
  <2>1. CASE o = q
    BY <1>2, <2>1
  <2>2. CASE o # q
    <3>1. oFin[f] # Store!Idle /\ o \in oFin[f].verified
      BY <2>2
    <3>2. oFin[f].verified \subseteq Store!SessionObjects
      BY <3>1 DEF StoreTyped, Finalize
    <3>3. Stored(o) /\ o \in Store!Objects
      BY <3>1, <3>2 DEF StoreInv, VerifiedIsStored, Store!Objects
    <3> QED BY <1>1, <3>3
  <2> QED BY <2>1, <2>2
<1>5. ImageIsStored'
  <2>1. \A o \in Images : image'[o] = "stored" => o \notin References /\ Stored(o)'
    <3> SUFFICES ASSUME NEW o \in Images, image'[o] = "stored"
                 PROVE  o \notin References /\ Stored(o)'
      OBVIOUS
    <3>1. CASE image[o] = "stored"
      BY <1>1, <3>1 DEF StoreInv, ImageIsStored, Store!Objects
    <3>2. CASE image[o] # "stored"
      BY <1>2, <3>2
    <3> QED BY <3>1, <3>2
  <2>2. References \subseteq Images
    BY ObjectAssumption
  <2>3. \A o \in References : store'[Key[o]] \in {NoObject, Declared[o]}
    BY <1>1, <2>2 DEF StoreInv, ImageIsStored, Store!Objects
  <2>4. \A o \in References : image'[o] # "stored"
    BY <2>1, <2>2
  <2>5. \A o \in Images : image'[o] = "absent" => o \in References
    BY DEF StoreInv, ImageIsStored
  <2> QED BY <2>1, <2>3, <2>4, <2>5 DEF ImageIsStored
<1>6. Store!ReadyIsStored'
  <2>1. References \subseteq Images
    BY ObjectAssumption
  <2>2. \A o \in Store!Objects \ Store!LegacyObjects : row'[o] = "ready" => Stored(o)'
    BY <1>1 DEF StoreInv, Store!ReadyIsStored, Stored
  <2>3. \A o \in References : image'[o] = "done" => Stored(o)'
    <3> SUFFICES ASSUME NEW o \in References, image'[o] = "done" PROVE Stored(o)'
      OBVIOUS
    <3>1. CASE image[o] = "done"
      BY <1>1, <2>1, <3>1 DEF StoreInv, Store!ReadyIsStored, Stored, Store!Objects
    <3>2. CASE image[o] # "done"
      BY <1>2, <2>1, <3>2
    <3> QED BY <3>1, <3>2
  <2> QED BY <2>2, <2>3 DEF Store!ReadyIsStored, Stored
<1> QED BY <1>3, <1>4, <1>5, <1>6 DEF StoreInv

\* What a retirement deletes are objects of sessions.
LEMMA RetiredObjects ==
  ASSUME StoreTyped
  PROVE  retire.deleted \subseteq Store!SessionObjects /\ retire.deleted \subseteq Store!Objects
<1>1. LegacySessions \subseteq Sessions
  BY ObjectAssumption
<1>2. Store!LegacyObjects \subseteq Store!SessionObjects
  BY <1>1 DEF Store!LegacyObjects, Store!SessionObjects
<1>3. retire.deleted \subseteq Store!LegacyObjects
  BY DEF StoreTyped
<1> QED BY <1>2, <1>3 DEF Store!Objects

\* Initially the store is empty.
LEMMA StoreInvInit == Store!Init => StoreInv
<1> SUFFICES ASSUME Store!Init PROVE StoreInv
  OBVIOUS
<1>1. \A s \in Sessions : ObjectsOf[s] \subseteq Store!SessionObjects
  BY DEF Store!SessionObjects
<1>2. TrustedBytes
  BY <1>1, ObjectAssumption DEF Store!Init, TrustedBytes, Store!SessionObjects
<1>3. OwnKeys
  BY DEF Store!Init, OwnKeys, Store!Objects
<1>4. VerifiedIsStored
  BY DEF Store!Init, VerifiedIsStored
<1>5. ImageIsStored /\ Store!ReadyIsStored
  <2>1. References \subseteq Images /\ \A o \in Images : Key[o] \in Store!Keys
    BY ObjectAssumption, ObjectFacts DEF Store!Objects
  <2> QED BY <2>1 DEF Store!Init, ImageIsStored, Store!ReadyIsStored
<1> QED BY <1>2, <1>3, <1>4, <1>5 DEF StoreInv

\* A new session takes keys that no row has.
LEMMA StoreCreates ==
  ASSUME StoreTyped, StoreInv, NEW s \in Sessions, Store!CreateSession(s)
  PROVE  StoreInv'
<1>1. /\ row' = [o \in Store!Objects |-> IF o \in ObjectsOf[s] THEN "declared" ELSE row[o]]
      /\ oSession' = [oSession EXCEPT ![s] = [state |-> "pending", late |-> FALSE]]
      /\ Store!KeysAreFree(s)
      /\ UNCHANGED <<staging, store, registered, renew, oFin, image, retire>>
  BY DEF Store!CreateSession
<1>2. (TrustedBytes /\ VerifiedIsStored /\ ImageIsStored)'
  BY <1>1 DEF StoreInv, TrustedBytes, VerifiedIsStored, ImageIsStored, Stored
<1>3. Store!ReadyIsStored'
  BY <1>1 DEF StoreInv, Store!ReadyIsStored
<1>4. OwnKeys'
  <2>1. ASSUME NEW t \in Sessions, oSession'[t] # NoRow, NEW o \in ObjectsOf[t]
        PROVE row'[o] # "none"
    <3>1. o \in Store!Objects
      BY SessionFacts
    <3>2. CASE t = s
      BY <1>1, <2>1, <3>1, <3>2
    <3>3. CASE t # s
      <4>1. oSession[t] # NoRow
        BY <1>1, <2>1, <3>3 DEF StoreTyped
      <4> QED BY <1>1, <2>1, <3>1, <4>1 DEF StoreInv, OwnKeys
    <3> QED BY <3>2, <3>3
  <2>2. ASSUME NEW o \in Store!SessionObjects, NEW q \in Store!SessionObjects,
               row'[o] # "none", row'[q] # "none", Key[o] = Key[q]
        PROVE  o = q
    <3>1. o \in Store!Objects /\ q \in Store!Objects
      BY DEF Store!Objects
    <3>2. CASE o \in ObjectsOf[s] /\ q \in ObjectsOf[s]
      BY <1>1, <2>2, <3>2 DEF Store!KeysAreFree
    <3>3. CASE o \in ObjectsOf[s] /\ q \notin ObjectsOf[s]
      <4>1. row[q] # "none"
        BY <1>1, <2>2, <3>1, <3>3
      <4> QED BY <1>1, <2>2, <3>1, <3>3, <4>1 DEF Store!KeysAreFree
    <3>4. CASE o \notin ObjectsOf[s] /\ q \in ObjectsOf[s]
      <4>1. row[o] # "none"
        BY <1>1, <2>2, <3>1, <3>4
      <4> QED BY <1>1, <2>2, <3>1, <3>4, <4>1 DEF Store!KeysAreFree
    <3>5. CASE o \notin ObjectsOf[s] /\ q \notin ObjectsOf[s]
      BY <1>1, <2>2, <3>1, <3>5 DEF StoreInv, OwnKeys
    <3> QED BY <3>2, <3>3, <3>4, <3>5
  <2>3. \A o \in retire.deleted : row'[o] # "none"
    <3>1. \A o \in retire.deleted : o \in Store!Objects /\ row[o] # "none"
      BY RetiredObjects DEF StoreInv, OwnKeys
    <3> QED BY <1>1, <3>1
  <2> QED BY <1>1, <2>1, <2>2, <2>3 DEF OwnKeys
<1> QED BY <1>2, <1>3, <1>4 DEF StoreInv

\* Renewals and expiries change no object and no row of one.
LEMMA StoreSessions ==
  ASSUME StoreTyped, StoreInv, NEW s \in Sessions,
         Store!RenewRead(s) \/ Store!RenewWrite(s) \/ Store!Expire(s)
  PROVE  StoreInv'
<1>1. UNCHANGED <<row, staging, store, image, oFin, retire>>
  BY DEF Store!RenewRead, Store!RenewWrite, Store!Expire
<1>2. \A t \in Sessions : oSession'[t] # NoRow => oSession[t] # NoRow
  BY DEF Store!RenewRead, Store!RenewWrite, Store!Expire, StoreTyped
<1> QED BY <1>1, <1>2, QuietStep

\* The client writes to the staging area only.
LEMMA StoreClient ==
  ASSUME StoreTyped, StoreInv, NEW s \in Sessions, NEW c \in Contents, NEW o \in ObjectsOf[s],
         Store!ClientUpload(o, s, c)
  PROVE  StoreInv'
<1>1. /\ staging' = [staging EXCEPT ![o] = c]
      /\ UNCHANGED <<oSession, row, store, image, oFin, retire>>
  BY DEF Store!ClientUpload
<1>2. TrustedBytes'
  <2> SUFFICES ASSUME NEW t \in Trusted, NEW q \in ObjectsOf[t]
               PROVE  staging'[q] \in {NoObject, Declared[q]}
    BY DEF TrustedBytes
  <2>1. t \in Sessions /\ q \in Store!SessionObjects
    BY ObjectAssumption, SessionFacts
  <2>2. CASE q # o
    BY <1>1, <2>1, <2>2 DEF StoreInv, TrustedBytes, StoreTyped
  <2>3. CASE q = o
    <3>1. t = s
      BY <2>1, <2>3, ObjectAssumption
    <3> QED BY <1>1, <2>1, <2>3, <3>1 DEF Store!ClientUpload, StoreTyped
  <2> QED BY <2>2, <2>3
<1>3. (OwnKeys /\ VerifiedIsStored /\ ImageIsStored /\ Store!ReadyIsStored)'
  BY <1>1 DEF StoreInv, OwnKeys, VerifiedIsStored, ImageIsStored, Store!ReadyIsStored, Stored
<1> QED BY <1>2, <1>3 DEF StoreInv

\* Reading, registering and giving up change no object and no row of one.
LEMMA StoreFinalizes ==
  ASSUME StoreTyped, StoreInv, NEW f \in Finalizers,
         \/ \E s \in Sessions : Store!FinalizeRead(f, s)
         \/ Store!FinalizeLock(f) \/ Store!FinalizeFail(f) \/ Store!Register(f)
  PROVE  StoreInv'
<1>1. /\ UNCHANGED <<row, staging, store, image, retire>>
      /\ \/ UNCHANGED oSession
         \/ oFin[f].pc # "idle" /\ oSession' = [oSession EXCEPT ![oFin[f].s].state = "expired"]
  BY DEF Store!FinalizeRead, Store!FinalizeLock, Store!FinalizeFail, Store!Register
<1>2. \A t \in Sessions : oSession'[t] # NoRow => oSession[t] # NoRow
  BY <1>1, RunningFinalize DEF StoreTyped
<1>3. ASSUME NEW g \in Finalizers, oFin'[g] # Store!Idle
      PROVE  oFin'[g].verified = {}
             \/ (oFin[g] # Store!Idle /\ oFin'[g].verified = oFin[g].verified)
  <2>1. CASE \E s \in Sessions : Store!FinalizeRead(f, s)
    BY <1>3, <2>1 DEF Store!FinalizeRead, StoreTyped
  <2>2. CASE Store!FinalizeLock(f)
    <3>1. oFin[f].pc # "idle"
      BY <2>2 DEF Store!FinalizeLock
    <3>2. oFin[f] # Store!Idle /\ oFin[f] \in Finalize
      BY <3>1, RunningFinalize
    <3>3. \E pc \in {"register", "verifying"} :
             oFin' = [oFin EXCEPT ![f] = Store!Idle] \/ oFin' = [oFin EXCEPT ![f].pc = pc]
      BY <2>2 DEF Store!FinalizeLock
    <3> QED BY <1>3, <3>2, <3>3 DEF StoreTyped, Finalize
  <2>3. CASE Store!FinalizeFail(f) \/ Store!Register(f)
    BY <1>3, <2>3 DEF Store!FinalizeFail, Store!Register, StoreTyped
  <2> QED BY <2>1, <2>2, <2>3
<1> QED BY <1>1, <1>2, <1>3, QuietStep

\* What passes the check has the declared content, so what is put is that content.
LEMMA StorePromotes ==
  ASSUME StoreTyped, StoreInv, NEW f \in Finalizers, NEW o \in Store!SessionObjects,
         Store!VerifyAndPromote(f, o)
  PROVE  StoreInv'
<1>1. /\ oFin[f] # Store!Idle /\ oFin[f] \in Finalize /\ oFin[f].s \in Sessions
      /\ oFin[f].pending \subseteq ObjectsOf[oFin[f].s]
  <2>1. oFin[f].pc # "idle"
    BY DEF Store!VerifyAndPromote
  <2> QED BY <2>1, RunningFinalize
<1>2. o \in ObjectsOf[oFin[f].s] /\ o \in Store!Objects
  BY <1>1 DEF Store!VerifyAndPromote, Store!Objects
<1>3. staging[o] = Declared[o]
  <2>1. CASE oFin[f].s \in Trusted
    BY <1>2, <2>1 DEF StoreInv, TrustedBytes, Store!VerifyAndPromote
  <2>2. CASE oFin[f].s \notin Trusted
    BY <2>2 DEF Store!VerifyAndPromote, Store!Verified
  <2> QED BY <2>1, <2>2
<1>4. ASSUME NEW g \in Finalizers, oFin'[g] # Store!Idle
      PROVE  oFin[g] # Store!Idle /\ oFin'[g].verified \subseteq oFin[g].verified \cup {o}
  <2>1. oFin' = [oFin EXCEPT ![f].verified = @ \cup {o}]
    BY DEF Store!VerifyAndPromote
  <2> QED BY <1>1, <1>4, <2>1 DEF StoreTyped, Finalize
<1>5. UNCHANGED <<oSession, row, staging, image, retire>>
  BY DEF Store!VerifyAndPromote
<1>6. CASE store[Key[o]] = NoObject
  <2>1. store' = [store EXCEPT ![Key[o]] = Declared[o]]
    BY <1>3, <1>6 DEF Store!VerifyAndPromote, Store!Promoted
  <2> QED BY <1>2, <1>4, <1>5, <1>6, <2>1, PutStep
<1>7. CASE store[Key[o]] = Declared[o]
  <2>1. UNCHANGED store
    BY <1>2, <1>7, ObjectFacts DEF Store!VerifyAndPromote, Store!Promoted
  <2>2. (TrustedBytes /\ OwnKeys /\ ImageIsStored /\ Store!ReadyIsStored)'
    BY <1>5, <2>1 DEF StoreInv, TrustedBytes, OwnKeys, ImageIsStored, Store!ReadyIsStored, Stored
  <2>3. VerifiedIsStored'
    BY <1>4, <1>7, <2>1 DEF StoreInv, VerifiedIsStored, Stored
  <2> QED BY <2>2, <2>3 DEF StoreInv
<1> QED BY <1>6, <1>7 DEF Store!VerifyAndPromote

\* A row becomes ready when its object was verified.
LEMMA StoreCommits ==
  ASSUME StoreTyped, StoreInv, NEW f \in Finalizers, Store!FinalizeCommit(f)
  PROVE  StoreInv'
<1>1. /\ oFin[f] # Store!Idle /\ oFin[f] \in Finalize /\ oFin[f].s \in Sessions
      /\ oSession[oFin[f].s] # NoRow /\ oFin[f].verified \subseteq ObjectsOf[oFin[f].s]
  <2>1. oFin[f].pc # "idle"
    BY DEF Store!FinalizeCommit
  <2> QED BY <2>1, RunningFinalize
<1>2. /\ row' = [o \in Store!Objects |-> IF o \in oFin[f].verified THEN "ready" ELSE row[o]]
      /\ oSession' = [oSession EXCEPT ![oFin[f].s].state = "ready"]
      /\ oFin' = [oFin EXCEPT ![f].pc = "register"]
      /\ UNCHANGED <<staging, store, image, retire>>
  BY DEF Store!FinalizeCommit
<1>3. \A o \in Store!Objects : row'[o] # "none" <=> row[o] # "none"
  BY <1>1, <1>2 DEF StoreInv, OwnKeys
<1>4. OwnKeys'
  <2>1. \A s \in Sessions : oSession'[s] # NoRow => oSession[s] # NoRow
    BY <1>1, <1>2 DEF StoreTyped
  <2>2. \A s \in Sessions : \A o \in ObjectsOf[s] : o \in Store!Objects
    BY SessionFacts
  <2>3. \A o \in retire.deleted : o \in Store!Objects
    BY RetiredObjects
  <2> QED BY <1>2, <1>3, <2>1, <2>2, <2>3 DEF StoreInv, OwnKeys, Store!Objects
<1>5. VerifiedIsStored'
  BY <1>1, <1>2 DEF StoreInv, VerifiedIsStored, Stored, StoreTyped, Finalize
<1>6. Store!ReadyIsStored'
  <2>1. \A o \in oFin[f].verified \ Store!LegacyObjects : Stored(o)
    BY <1>1 DEF StoreInv, VerifiedIsStored
  <2> QED BY <1>2, <2>1 DEF StoreInv, Store!ReadyIsStored, Stored
<1>7. (TrustedBytes /\ ImageIsStored)'
  BY <1>2 DEF StoreInv, TrustedBytes, ImageIsStored, Stored
<1> QED BY <1>4, <1>5, <1>6, <1>7 DEF StoreInv

\* Storing and reusing an image keeps the invariant.
LEMMA StoreImages ==
  ASSUME StoreTyped, StoreInv, NEW o \in Images,
         Store!StoreImage(o) \/ Store!ReuseCover(o) \/ Store!LookForReference(o)
         \/ Store!PutReference(o)
  PROVE  StoreInv'
<1>0. /\ UNCHANGED <<oSession, row, staging, oFin, retire>> /\ o \in Store!Objects
      /\ References \subseteq Images
  BY ObjectAssumption DEF Store!StoreImage, Store!ReuseCover, Store!LookForReference,
         Store!PutReference, Store!Objects
<1>1. CASE /\ store[Key[o]] = NoObject \/ o \in Images \ References
           /\ store' = [store EXCEPT ![Key[o]] = Declared[o]]
           /\ \/ image' = [image EXCEPT ![o] = "stored"] /\ o \notin References
              \/ image' = [image EXCEPT ![o] = "done"]
  BY <1>0, <1>1, PutStep DEF StoreTyped
<1>2. CASE /\ UNCHANGED store
           /\ \/ o \in References /\ store[Key[o]] = NoObject
                 /\ image' = [image EXCEPT ![o] = "absent"]
              \/ /\ o \in References => store[Key[o]] # NoObject
                 /\ image' = [image EXCEPT ![o] = "done"]
              \/ image' = [image EXCEPT ![o] = "lost"]
  <2>1. (TrustedBytes /\ OwnKeys /\ VerifiedIsStored)'
    BY <1>0, <1>2 DEF StoreInv, TrustedBytes, OwnKeys, VerifiedIsStored, Stored
  <2>2. ImageIsStored'
    BY <1>0, <1>2 DEF StoreInv, ImageIsStored, Stored, StoreTyped
  <2>3. Store!ReadyIsStored'
    BY <1>0, <1>2 DEF StoreInv, ImageIsStored, Store!ReadyIsStored, Stored, StoreTyped
  <2> QED BY <2>1, <2>2, <2>3 DEF StoreInv
<1> QED BY <1>1, <1>2 DEF Store!StoreImage, Store!ReuseCover, Store!LookForReference,
               Store!PutReference

\* An image that is committed has been stored.
LEMMA StoreCommitsImage ==
  ASSUME StoreTyped, StoreInv, NEW o \in Images, Store!CommitImage(o)
  PROVE  StoreInv'
<1>1. /\ o \in Store!Objects /\ image[o] = "stored" /\ References \subseteq Images
      /\ UNCHANGED <<oSession, staging, store, oFin, retire>>
      /\ \/ image' = [image EXCEPT ![o] = "done"] /\ row' = [row EXCEPT ![o] = "ready"]
         \/ image' = [image EXCEPT ![o] = "lost"] /\ UNCHANGED row
  BY ObjectAssumption DEF Store!CommitImage, Store!Objects
<1>2. (TrustedBytes /\ VerifiedIsStored)'
  BY <1>1 DEF StoreInv, TrustedBytes, VerifiedIsStored, Stored
<1>3. OwnKeys'
  <2>1. \A q \in Store!SessionObjects : q # o /\ q \in Store!Objects
    BY ObjectAssumption DEF Store!Objects, Store!SessionObjects
  <2>2. \A q \in Store!SessionObjects : row'[q] = row[q]
    BY <1>1, <2>1 DEF StoreTyped
  <2>3. \A s \in Sessions : \A q \in ObjectsOf[s] : q \in Store!SessionObjects
    BY SessionFacts
  <2>4. \A q \in retire.deleted : q \in Store!SessionObjects
    BY RetiredObjects
  <2> QED BY <1>1, <2>2, <2>3, <2>4 DEF StoreInv, OwnKeys
<1>4. ImageIsStored'
  BY <1>1 DEF StoreInv, ImageIsStored, Stored, StoreTyped
<1>5. Store!ReadyIsStored'
  <2>1. o \notin References /\ Stored(o)
    BY <1>1 DEF StoreInv, ImageIsStored
  <2>2. \A q \in Store!Objects \ Store!LegacyObjects : row'[q] = "ready"
          => store'[Key[q]] = Declared[q]
    BY <1>1, <2>1 DEF StoreInv, Store!ReadyIsStored, Stored, StoreTyped
  <2>3. \A q \in References : image'[q] = "done" => store'[Key[q]] = Declared[q]
    BY <1>1, <2>1 DEF StoreInv, Store!ReadyIsStored, Stored, StoreTyped
  <2> QED BY <2>2, <2>3 DEF Store!ReadyIsStored
<1> QED BY <1>2, <1>3, <1>4, <1>5 DEF StoreInv

\* A deletion takes what nothing outside the legacy objects needs.
LEMMA StoreDeletes ==
  ASSUME StoreTyped, StoreInv, NEW q \in Store!SessionObjects, Store!RetireDelete(q)
  PROVE  StoreInv'
<1>1. UNCHANGED <<oSession, row, staging, oFin, image>>
  BY DEF Store!RetireDelete
<1>2. \A o \in Store!Objects : StoreKept(o) => store'[Key[o]] = store[Key[o]]
  BY DeleteKeeps DEF StoreKept
<1>3. \A o \in Images : StoreKept(o) /\ o \in Store!Objects
  BY ObjectAssumption DEF StoreKept, Store!Objects, Store!SessionObjects, Store!LegacyObjects
<1>4. (TrustedBytes /\ OwnKeys)'
  BY <1>1 DEF StoreInv, TrustedBytes, OwnKeys, Store!RetireDelete, Store!Retireable, StoreTyped
<1>5. VerifiedIsStored'
  <2> SUFFICES ASSUME NEW f \in Finalizers, oFin[f] # Store!Idle,
                      NEW o \in oFin[f].verified, o \notin Store!LegacyObjects
               PROVE  Stored(o)'
    BY <1>1 DEF VerifiedIsStored
  <2>1. /\ oFin[f] \in Finalize /\ o \in ObjectsOf[oFin[f].s] /\ oFin[f].s \in Sessions
        /\ oSession[oFin[f].s] # NoRow
    BY DEF StoreTyped, FinWorks, Finalize
  <2>2. StoreKept(o) /\ o \in Store!Objects
    BY <2>1 DEF StoreInv, OwnKeys, StoreKept, Store!Objects, Store!SessionObjects
  <2> QED BY <1>2, <2>2 DEF StoreInv, VerifiedIsStored, Stored
<1>6. ImageIsStored'
  <2>1. References \subseteq Images
    BY ObjectAssumption
  <2> QED BY <1>1, <1>2, <1>3, <2>1 DEF StoreInv, ImageIsStored, Stored
<1>7. Store!ReadyIsStored'
  <2>1. References \subseteq Images
    BY ObjectAssumption
  <2>2. \A o \in Store!Objects \ Store!LegacyObjects : row[o] = "ready" => StoreKept(o)
    BY DEF StoreKept
  <2> QED BY <1>1, <1>2, <1>3, <2>1, <2>2 DEF StoreInv, Store!ReadyIsStored
<1> QED BY <1>4, <1>5, <1>6, <1>7 DEF StoreInv

\* The end of a retirement retires the rows it has deleted the objects of.
LEMMA StoreRetires ==
  ASSUME StoreTyped, StoreInv, Store!RetireEnd
  PROVE  StoreInv'
<1>1. /\ UNCHANGED <<oSession, staging, store, oFin, image>>
      /\ retire.deleted \subseteq Store!LegacyObjects /\ retire'.deleted = {}
      /\ row' \in {row, [o \in Store!Objects |-> IF o \in retire.deleted THEN "retired"
                         ELSE row[o]]}
  BY DEF Store!RetireEnd, StoreTyped
<1>2. \A o \in Store!Objects : row[o] # "none" => row'[o] # "none"
  BY <1>1
<1>3. OwnKeys'
  <2>1. \A o \in Store!SessionObjects : o \in Store!Objects
        /\ (row'[o] # "none" => row[o] # "none")
    BY <1>1 DEF StoreInv, OwnKeys, Store!Objects
  <2>2. \A s \in Sessions : \A q \in ObjectsOf[s] : q \in Store!Objects
    BY SessionFacts
  <2> QED BY <1>1, <1>2, <2>1, <2>2 DEF StoreInv, OwnKeys
<1>4. (TrustedBytes /\ VerifiedIsStored /\ ImageIsStored /\ Store!ReadyIsStored)'
  BY <1>1 DEF StoreInv, TrustedBytes, VerifiedIsStored, ImageIsStored, Store!ReadyIsStored, Stored
<1> QED BY <1>3, <1>4 DEF StoreInv

\* Every step keeps the invariant.
LEMMA StoreInvNext == StoreTyped /\ StoreInv /\ [Store!Next]_Store!vars => StoreInv'
<1> SUFFICES ASSUME StoreTyped, StoreInv, [Store!Next]_Store!vars PROVE StoreInv'
  OBVIOUS
<1>1. CASE UNCHANGED Store!vars
  BY <1>1, QuietStep DEF Store!vars
<1> QED BY <1>1, StoreCreates, StoreSessions, StoreClient, StoreFinalizes, StorePromotes,
           StoreCommits, StoreImages, StoreCommitsImage, StoreDeletes, StoreRetires DEF Store!Next

\* The store holds what a ready row declares.
THEOREM StoredWhenReady == Store!Spec => []Store!ReadyIsStored
<1>1. StoreInv => Store!ReadyIsStored
  BY DEF StoreInv
<1> QED BY <1>1, StoreTypedInit, StoreTypedNext, StoreInvInit, StoreInvNext, PTL DEF Store!Spec

-----------------------------------------------------------------------------
KeptWhenReady(o) == row[o] = "ready" => row'[o] = "ready" /\ store'[Key[o]] = store[Key[o]]

\* What is put leaves a ready object as it is.
LEMMA KeptByPut ==
  ASSUME StoreTyped, StoreInv, NEW q \in Store!Objects, UNCHANGED row,
         store[Key[q]] = NoObject \/ q \in Images \ References,
         store' = [store EXCEPT ![Key[q]] = Declared[q]],
         NEW o \in Store!Objects \ Store!LegacyObjects
  PROVE  KeptWhenReady(o)
BY PutKeeps DEF KeptWhenReady, StoreInv, Store!ReadyIsStored, Stored

\* Every step keeps ready objects.
LEMMA KeptNext ==
  ASSUME StoreTyped, StoreInv, [Store!Next]_Store!vars,
         NEW o \in Store!Objects \ Store!LegacyObjects
  PROVE  KeptWhenReady(o)
<1>1. CASE \E s \in Sessions : Store!CreateSession(s)
  <2> PICK s \in Sessions : Store!CreateSession(s)
    BY <1>1
  <2>1. row[o] = "ready" => o \notin ObjectsOf[s]
    BY DEF Store!CreateSession, Store!KeysAreFree
  <2> QED BY <2>1 DEF Store!CreateSession, KeptWhenReady
<1>2. ASSUME NEW f \in Finalizers, NEW q \in Store!SessionObjects, Store!VerifyAndPromote(f, q)
      PROVE  KeptWhenReady(o)
  <2>1. UNCHANGED row /\ q \in Store!Objects
    BY <1>2 DEF Store!VerifyAndPromote, Store!Objects
  <2>2. CASE store[Key[q]] = NoObject
    <3>1. staging[q] = Declared[q]
      <4>1. oFin[f].pc # "idle" /\ q \in oFin[f].pending
        BY <1>2 DEF Store!VerifyAndPromote
      <4>2. q \in ObjectsOf[oFin[f].s]
        BY <4>1, RunningFinalize
      <4> QED BY <1>2, <4>2 DEF StoreInv, TrustedBytes, Store!VerifyAndPromote, Store!Verified
    <3>2. store' = [store EXCEPT ![Key[q]] = Declared[q]]
      BY <1>2, <2>2, <3>1 DEF Store!VerifyAndPromote, Store!Promoted
    <3> QED BY <2>1, <2>2, <3>2, KeptByPut
  <2>3. CASE store[Key[q]] # NoObject
    BY <1>2, <2>1, <2>3 DEF Store!VerifyAndPromote, Store!Promoted, KeptWhenReady
  <2> QED BY <2>2, <2>3
<1>3. ASSUME NEW q \in Images, Store!StoreImage(q) \/ Store!PutReference(q)
      PROVE  KeptWhenReady(o)
  <2>1. UNCHANGED row /\ q \in Store!Objects
    BY <1>3 DEF Store!StoreImage, Store!PutReference, Store!Objects
  <2>2. CASE store' = [store EXCEPT ![Key[q]] = Declared[q]]
             /\ (store[Key[q]] = NoObject \/ q \in Images \ References)
    BY <2>1, <2>2, KeptByPut
  <2>3. CASE UNCHANGED store
    BY <2>1, <2>3 DEF KeptWhenReady
  <2> QED BY <1>3, <2>2, <2>3 DEF Store!StoreImage, Store!PutReference
<1>4. ASSUME NEW q \in Store!SessionObjects, Store!RetireDelete(q) PROVE KeptWhenReady(o)
  <2>1. UNCHANGED row
    BY <1>4 DEF Store!RetireDelete
  <2>2. row[o] = "ready" => store'[Key[o]] = store[Key[o]]
    BY <1>4, DeleteKeeps
  <2> QED BY <2>1, <2>2 DEF KeptWhenReady
<1>5. CASE Store!RetireEnd
  <2>1. o \notin retire.deleted /\ o \in Store!Objects
    BY DEF StoreTyped
  <2> QED BY <1>5, <2>1 DEF Store!RetireEnd, KeptWhenReady
<1>6. CASE \E f \in Finalizers : Store!FinalizeCommit(f)
  BY <1>6 DEF Store!FinalizeCommit, KeptWhenReady
<1>7. CASE \E q \in Images : Store!CommitImage(q)
  BY <1>7 DEF Store!CommitImage, KeptWhenReady, StoreTyped
<1>8. CASE \/ \E s \in Sessions : Store!RenewRead(s) \/ Store!RenewWrite(s) \/ Store!Expire(s)
           \/ \E s \in Sessions,
              c \in Contents : \E q \in ObjectsOf[s] : Store!ClientUpload(q, s, c)
           \/ \E f \in Finalizers, s \in Sessions : Store!FinalizeRead(f, s)
           \/ \E f \in Finalizers : Store!FinalizeLock(f) \/ Store!FinalizeFail(f)
              \/ Store!Register(f)
           \/ \E q \in Images : Store!ReuseCover(q) \/ Store!LookForReference(q)
           \/ UNCHANGED Store!vars
  <2>1. UNCHANGED <<row, store>>
    BY <1>8 DEF Store!RenewRead, Store!RenewWrite, Store!Expire, Store!ClientUpload,
           Store!FinalizeRead, Store!FinalizeLock, Store!FinalizeFail, Store!Register,
           Store!ReuseCover, Store!LookForReference, Store!vars
  <2> QED BY <2>1 DEF KeptWhenReady
<1> QED BY <1>1, <1>2, <1>3, <1>4, <1>5, <1>6, <1>7, <1>8 DEF Store!Next

\* No step takes a ready object back or changes the content under its key.
THEOREM ReadyKept == Store!Spec => Store!ReadyIsKept
<1>1. StoreTyped /\ StoreInv /\ [Store!Next]_Store!vars =>
         [\A o \in Store!Objects \ Store!LegacyObjects : row[o] = "ready" =>
             row'[o] = "ready" /\ store'[Key[o]] = store[Key[o]]]_Store!vars
  BY KeptNext DEF KeptWhenReady
<1> QED BY <1>1, StoreTypedInit, StoreTypedNext, StoreInvInit, StoreInvNext, PTL DEF Store!Spec,
               Store!ReadyIsKept

\* The part of the platform that is Store behaves as the component does.
LEMMA StoreBehaves == Spec => Store!Spec
<1>1. Init => Store!Init
  BY DEF Init
<1>2. [Next]_vars => [Store!Next]_Store!vars
  BY PartsNext DEF storeVars, Store!vars
<1> QED BY <1>1, <1>2, PTL DEF Spec, Store!Spec

\* However finalize requests are repeated, overlap, fail half-way or run on an old reading of the
\* rows, the store holds what a ready row declares.
THEOREM ReadyObjectsAreStored == Spec => []ReadyIsStored
BY StoreBehaves, StoredWhenReady, PTL DEF ReadyIsStored

\* No request takes a ready object back or changes the content under its key.
THEOREM ReadyObjectsAreKept == Spec => ReadyIsKept
BY StoreBehaves, ReadyKept, PTL DEF ReadyIsKept

-----------------------------------------------------------------------------
(***************************************************************************)
(* CreatorChannels.                                                        *)
(***************************************************************************)

\* The topics of a creator: each once.
TopicLists == {list \in Seq(Topics) : Channels!IsInjective(list)}

\* What a creator has chosen.
Choice == [list : TopicLists, rev : Nat]

\* The tables of the channels, as they are or as a request has read them.
ChannelTables(d) ==
    d \in [users : SUBSET Creators, left : SUBSET Creators,
           handle : [Creators -> Handles \cup {NoRow}], cooling : {d.cooling},
           alias : [Handles -> Creators \cup {NoRow, Gone}], public : {d.public},
           pins : {d.pins}, topics : [Creators -> Choice],
           topic : [Topics -> {"none", "active", "disabled", "archived"}]]

\* A request under way has read tables of these types.
ChannelTyped ==
    /\ ChannelTables(cDb)
    /\ cReq \in [Requests -> {cReq[q] : q \in Requests}]
    /\ \A r \in Requests : cReq[r] # Channels!Idle =>
         cReq[r] \in [op : Channels!Ops, db : {cReq[r].db}] /\ ChannelTables(cReq[r].db)
    /\ cBegun \in 0..MaxWrites /\ raced \in BOOLEAN /\ mixed \in BOOLEAN

-----------------------------------------------------------------------------
\* What requests ask for.
LEMMA ChannelOps ==
  ASSUME NEW o \in Channels!Ops
  PROVE  /\ o.kind \in {"update", "register", "open", "delete", "takedown", "archive"}
         /\ o.kind \in {"update", "register", "open", "delete"} => o.by \in Creators
         /\ o.kind = "update" => /\ o.to.handle \in Handles \cup {Same}
                                 /\ o.to.topics \in Channels!Chosen \cup {Same}
         /\ o.kind = "archive" => /\ o.topic \in Topics
                                  /\ o.way \in {"none", "remove"} \cup Topics
<1>1. CASE o \in Channels!Updates
  <2>1. PICK u \in Creators : o \in [kind : {"update"}, by : {u}, to : Channels!Fields(u)]
    BY <1>1 DEF Channels!Updates
  <2> QED BY <2>1 DEF Channels!Fields
<1>2. CASE o \notin Channels!Updates
  BY <1>2 DEF Channels!Ops
<1> QED BY <1>1, <1>2

\* A choice of topics is a list of them without repetition.
LEMMA ChosenLists == Channels!Chosen \subseteq TopicLists
<1> SUFFICES ASSUME NEW list \in Channels!Chosen PROVE list \in TopicLists
  OBVIOUS
<1>1. PICK n \in 0..MaxTopics : list \in [1..n -> Topics]
  BY DEF Channels!Chosen
<1>2. Channels!IsInjective(list)
  BY DEF Channels!Chosen
<1>3. n \in Nat
  BY ChannelAssumption
<1>4. list \in Seq(Topics)
  BY <1>1, <1>3
<1> QED BY <1>2, <1>4 DEF TopicLists

\* Nobody has chosen anything.
LEMMA EmptyList == <<>> \in TopicLists /\ Channels!Range(<<>>) = {}
<1>1. <<>> \in Seq(Topics) /\ DOMAIN <<>> = {}
  OBVIOUS
<1> QED BY <1>1 DEF TopicLists, Channels!Range, Channels!IsInjective

\* A sequence without one of its items.
LEMMA WithoutOne ==
  ASSUME NEW list \in Seq(Topics), NEW n \in DOMAIN list
  PROVE  /\ Channels!RemoveAt(list, n) \in Seq(Topics)
         /\ Len(Channels!RemoveAt(list, n)) = Len(list) - 1
         /\ \A k \in 1..Len(list) - 1 : Channels!RemoveAt(list, n)[k] =
                                            IF k < n THEN list[k] ELSE list[k + 1]
<1>1. Len(list) \in Nat /\ n \in 1..Len(list) /\ \A k \in 1..Len(list) : list[k] \in Topics
  OBVIOUS
<1> DEFINE pre == SubSeq(list, 1, n - 1)
           end == SubSeq(list, n + 1, Len(list))
<1>2. pre \in Seq(Topics) /\ Len(pre) = n - 1 /\ \A k \in 1..n - 1 : pre[k] = list[k]
  BY <1>1, SubSeqProperties
<1>3. /\ end \in Seq(Topics) /\ Len(end) = Len(list) - n
      /\ \A k \in 1..Len(list) - n : end[k] = list[n + k]
  BY <1>1, SubSeqProperties
<1>4. Channels!RemoveAt(list, n) = pre \o end
  BY DEF Channels!RemoveAt
<1> HIDE DEF pre, end
<1>5. /\ pre \o end \in Seq(Topics) /\ Len(pre \o end) = Len(list) - 1
      /\ \A k \in 1..Len(list) - 1 :
            (pre \o end)[k] = IF k =< n - 1 THEN pre[k] ELSE end[k - (n - 1)]
  <2>1. Len(pre) + Len(end) = Len(list) - 1 /\ Len(pre) = n - 1
    BY <1>1, <1>2, <1>3
  <2>2. /\ pre \o end \in Seq(Topics) /\ Len(pre \o end) = Len(pre) + Len(end)
        /\ \A k \in 1..Len(pre) + Len(end) :
              (pre \o end)[k] = IF k =< Len(pre) THEN pre[k] ELSE end[k - Len(pre)]
    BY <1>2, <1>3, ConcatProperties
  <2> QED BY <2>1, <2>2
<1>6. ASSUME NEW k \in 1..Len(list) - 1
      PROVE  (pre \o end)[k] = IF k < n THEN list[k] ELSE list[k + 1]
  <2>1. CASE k < n
    BY <1>1, <1>2, <1>5, <2>1
  <2>2. CASE k >= n
    <3>1. k - (n - 1) \in 1..Len(list) - n /\ n + (k - (n - 1)) = k + 1
      <4>1. k \in Int /\ n \in Int /\ Len(list) \in Int /\ k >= n /\ k =< Len(list) - 1
        BY <1>1, <2>2
      <4> QED BY <4>1
    <3> DEFINE j == k - (n - 1)
    <3>2. (pre \o end)[k] = end[j]
      BY <1>1, <1>5, <2>2
    <3>3. end[j] = list[k + 1]
      <4>1. end[j] = list[n + j]
        <5> HIDE DEF j
        <5> QED BY <1>3, <3>1 DEF j
      <4>2. n + j = k + 1
        BY <3>1
      <4> HIDE DEF j
      <4> QED BY <4>1, <4>2, Zenon
    <3>4. ~(k < n)
      BY <1>1, <2>2
    <3> HIDE DEF j
    <3> QED BY <3>2, <3>3, <3>4, Zenon
  <2>3. k < n \/ k >= n
    BY <1>1
  <2> QED BY <2>1, <2>2, <2>3, Zenon
<1> QED BY <1>4, <1>5, <1>6

\* A topic that is replaced or removed is gone from the list, and only its replacement is new.
LEMMA ReassignedList ==
  ASSUME NEW list \in TopicLists, NEW t \in Channels!Range(list),
         NEW way \in {"none", "remove"} \cup Topics, way # t
  PROVE  /\ Channels!Reassigned(list, t, way) \in TopicLists
         /\ t \notin Channels!Range(Channels!Reassigned(list, t, way))
         /\ Channels!Range(Channels!Reassigned(list, t, way)) \subseteq
              Channels!Range(list) \cup ({way} \cap Topics)
<1> DEFINE new == Channels!Reassigned(list, t, way)
<1>0. /\ list \in Seq(Topics) /\ Len(list) \in Nat /\ DOMAIN list = 1..Len(list)
      /\ \A k, l \in DOMAIN list : list[k] = list[l] => k = l
      /\ \A k \in DOMAIN list : list[k] \in Topics
  BY DEF TopicLists, Channels!IsInjective
<1>1. CASE way \in Topics \ Channels!Range(list)
  <2>1. new = [n \in DOMAIN list |-> IF list[n] = t THEN way ELSE list[n]]
    BY <1>1 DEF Channels!Reassigned
  <2> HIDE DEF new
  <2>2. new \in [1..Len(list) -> Topics]
    BY <1>0, <1>1, <2>1
  <2>3. new \in Seq(Topics)
    BY <1>0, <2>2
  <2>4. \A n \in DOMAIN list : list[n] # way
    BY <1>1 DEF Channels!Range
  <2>5. Channels!IsInjective(new)
    BY <1>0, <2>1, <2>4 DEF Channels!IsInjective
  <2>6. t \notin Channels!Range(new)
    BY <1>1, <2>1 DEF Channels!Range
  <2>7. Channels!Range(new) \subseteq Channels!Range(list) \cup {way}
    BY <2>1 DEF Channels!Range
  <2> QED BY <1>1, <2>3, <2>5, <2>6, <2>7 DEF TopicLists, new
<1>2. CASE way \notin Topics \ Channels!Range(list)
  <2> DEFINE at == CHOOSE n \in DOMAIN list : list[n] = t
  <2>1. new = Channels!RemoveAt(list, at)
    BY <1>2 DEF Channels!Reassigned
  <2>2. at \in DOMAIN list /\ list[at] = t
    BY DEF Channels!Range
  <2> HIDE DEF at, new
  <2>3. /\ new \in Seq(Topics) /\ Len(new) = Len(list) - 1
        /\ \A k \in 1..Len(list) - 1 : new[k] = IF k < at THEN list[k] ELSE list[k + 1]
    <3>1. list \in Seq(Topics) /\ at \in DOMAIN list
      BY <1>0, <2>2
    <3>2. /\ Channels!RemoveAt(list, at) \in Seq(Topics)
          /\ Len(Channels!RemoveAt(list, at)) = Len(list) - 1
          /\ \A k \in 1..Len(list) - 1 : Channels!RemoveAt(list, at)[k] =
                                             IF k < at THEN list[k] ELSE list[k + 1]
      BY <3>1, WithoutOne
    <3> QED BY <2>1, <3>2, Zenon
  <2>4. DOMAIN new = 1..Len(list) - 1
    BY <2>3
  <2>5. ASSUME NEW k \in DOMAIN new
        PROVE  \E j \in DOMAIN list : /\ new[k] = list[j] /\ j # at
                                      /\ j = IF k < at THEN k ELSE k + 1
    <3>1. CASE k < at
      BY <1>0, <2>2, <2>3, <2>4, <3>1
    <3>2. CASE ~(k < at)
      <4>1. k + 1 \in DOMAIN list /\ k + 1 # at
        BY <1>0, <2>2, <2>4, <3>2
      <4>2. new[k] = list[k + 1]
        BY <2>3, <2>4, <3>2
      <4> QED BY <3>2, <4>1, <4>2
    <3> QED BY <3>1, <3>2
  <2>6. Channels!IsInjective(new)
    <3> SUFFICES ASSUME NEW k \in DOMAIN new, NEW l \in DOMAIN new, new[k] = new[l] PROVE k = l
      BY DEF Channels!IsInjective
    <3>1. PICK i \in DOMAIN list : new[k] = list[i] /\ i = IF k < at THEN k ELSE k + 1
      BY <2>5
    <3>2. PICK j \in DOMAIN list : new[l] = list[j] /\ j = IF l < at THEN l ELSE l + 1
      BY <2>5
    <3>3. i = j
      BY <1>0, <3>1, <3>2
    <3>4. k \in Int /\ l \in Int /\ at \in Int
      BY <1>0, <2>2, <2>4
    <3> QED BY <3>1, <3>2, <3>3, <3>4
  <2>7. \A k \in DOMAIN new : new[k] # t
    BY <1>0, <2>2, <2>5
  <2>8. Channels!Range(new) \subseteq Channels!Range(list)
    BY <2>5 DEF Channels!Range
  <2> QED BY <2>3, <2>6, <2>7, <2>8 DEF TopicLists, Channels!Range, new
<1> QED BY <1>1, <1>2

\* Some natural numbers have a least one.
LEMMA FirstOfSome ==
  ASSUME NEW A, A \subseteq Nat, A # {}
  PROVE  \E z \in A : \A k \in A : z =< k
<1> DEFINE R == OpToRel(<, Nat)
<1>1. IsWellFoundedOn(R, Nat)
  BY NatLessThanWellFounded
<1>2. \A z, k \in Nat : k < z => <<k, z>> \in R
  BY DEF OpToRel
<1> HIDE DEF R
<1>3. PICK z \in A : \A k \in A : ~ (<<k, z>> \in R)
  BY <1>1, WFMin
<1>4. ASSUME NEW k \in A PROVE z =< k
  <2>1. z \in Nat /\ k \in Nat
    OBVIOUS
  <2>2. ~ (k < z)
    BY <2>1, <1>2, <1>3
  <2> QED BY <2>1, <2>2
<1> QED BY <1>4

\* What a request under way has asked for and read.
LEMMA RunningChannel ==
  ASSUME ChannelTyped, NEW r \in Requests, cReq[r].op.kind # "idle"
  PROVE  /\ cReq[r] # Channels!Idle /\ cReq[r].op \in Channels!Ops
         /\ ChannelTables(cReq[r].db) /\ ChannelTables(cDb)
<1>1. cReq[r] # Channels!Idle
  BY DEF Channels!Idle
<1> QED BY <1>1 DEF ChannelTyped

\* The address that an account gets is its own, or one that leads nowhere.
LEMMA OwnAddress ==
  ASSUME NEW d, ChannelTables(d), NEW u \in Creators
  PROVE  /\ Channels!Ensured(d, u) \in Handles \cup {NoRow}
         /\ d.handle[u] # NoRow => Channels!Ensured(d, u) = d.handle[u]
         /\ d.handle[u] = NoRow /\ Channels!Ensured(d, u) # NoRow =>
              ~Channels!Taken(d, Channels!Ensured(d, u), NoRow)
<1> DEFINE tries == AutoHandles[u]
           free == {n \in DOMAIN tries : ~Channels!Taken(d, tries[n], NoRow)}
           at == CHOOSE n \in free : \A m \in free : n =< m
<1>1. tries \in Seq(Handles) /\ \A n \in DOMAIN tries : n \in Nat /\ tries[n] \in Handles
  BY ChannelAssumption
<1>2. d.handle[u] \in Handles \cup {NoRow}
  BY DEF ChannelTables
<1>3. Channels!Ensured(d, u) = IF d.handle[u] # NoRow THEN d.handle[u]
                               ELSE IF free = {} THEN NoRow ELSE tries[at]
  BY DEF Channels!Ensured
<1>4. free # {} => at \in free
  <2> SUFFICES ASSUME free # {} PROVE at \in free
    OBVIOUS
  <2>1. free \subseteq Nat
    BY <1>1
  <2> HIDE DEF free
  <2>2. \E n \in free : \A m \in free : n =< m
    BY <2>1, FirstOfSome
  <2> QED BY <2>2
<1>5. free # {} => tries[at] \in Handles /\ ~Channels!Taken(d, tries[at], NoRow)
  BY <1>1, <1>4
<1> HIDE DEF free, at, tries
<1> QED BY <1>2, <1>3, <1>5, ChannelAssumption

\* A creator that registers is one of the users, with its address.
LEMMA RegisterEffect ==
  ASSUME ChannelTyped, NEW r \in Requests, Channels!Register(r)
  PROVE  LET u == cReq[r].op.by
             h == Channels!Ensured(cReq[r].db, u) IN
         /\ cReq[r].op \in Channels!Ops /\ cReq[r].op.kind = "register" /\ u \in Creators
         /\ u \notin cReq[r].db.users \cup cDb.users \cup cDb.left /\ h \in Handles
         /\ ChannelTables(cReq[r].db) /\ ChannelTables(cDb')
         /\ cDb'.users = cDb.users \cup {u} /\ cDb'.left = cDb.left
         /\ cDb'.handle = [cDb.handle EXCEPT ![u] = h]
         /\ cDb'.alias = cDb.alias /\ cDb'.topics = cDb.topics /\ cDb'.topic = cDb.topic
         /\ cReq' = [cReq EXCEPT ![r] = Channels!Idle]
         /\ UNCHANGED <<cBegun, raced, mixed>>
<1> DEFINE u == cReq[r].op.by
           h == Channels!Ensured(cReq[r].db, u)
<1>1. /\ cReq[r].op.kind = "register" /\ u \notin cReq[r].db.users \cup cDb.users \cup cDb.left
      /\ h # NoRow
      /\ cReq' = [cReq EXCEPT ![r] = Channels!Idle] /\ UNCHANGED <<cBegun, raced, mixed>>
  BY DEF Channels!Register, Channels!Commit
<1>2. /\ cReq[r].op \in Channels!Ops /\ u \in Creators
      /\ ChannelTables(cReq[r].db) /\ ChannelTables(cDb)
  BY <1>1, RunningChannel, ChannelOps
<1>3. h \in Handles
  BY <1>1, <1>2, OwnAddress
<1> HIDE DEF h, u
<1>4. cDb' = [cDb EXCEPT !.users = cDb.users \cup {u}, !.handle[u] = h]
  BY DEF Channels!Register, Channels!Commit, h, u
<1>5. /\ cDb'.users = cDb.users \cup {u} /\ cDb'.left = cDb.left
      /\ cDb'.handle = [cDb.handle EXCEPT ![u] = h]
  BY <1>2, <1>4 DEF ChannelTables
<1>6. cDb'.alias = cDb.alias /\ cDb'.topics = cDb.topics /\ cDb'.topic = cDb.topic
  BY <1>2, <1>4 DEF ChannelTables
<1>7. ChannelTables(cDb')
  BY <1>2, <1>3, <1>4 DEF ChannelTables
<1> QED BY <1>1, <1>2, <1>3, <1>5, <1>6, <1>7 DEF h, u

\* A user that is deleted has neither address nor topics; the address stays reserved.
LEMMA DeleteEffect ==
  ASSUME ChannelTyped, NEW r \in Requests, Channels!Delete(r)
  PROVE  LET u == cReq[r].op.by
             h == cReq[r].db.handle[u]
             reserved == h # NoRow /\ cReq[r].db.alias[h] = NoRow IN
         /\ cReq[r].op \in Channels!Ops /\ cReq[r].op.kind = "delete" /\ u \in Creators
         /\ u \in cDb.users /\ (reserved => cDb.alias[h] = NoRow)
         /\ ChannelTables(cReq[r].db) /\ ChannelTables(cDb')
         /\ cDb'.users = cDb.users \ {u} /\ cDb'.left = cDb.left \cup {u}
         /\ cDb'.handle = [cDb.handle EXCEPT ![u] = NoRow]
         /\ cDb'.alias = IF reserved THEN [cDb.alias EXCEPT ![h] = Gone] ELSE cDb.alias
         /\ \E n \in Nat : cDb'.topics = [cDb.topics EXCEPT ![u] = [list |-> <<>>, rev |-> n]]
         /\ cDb'.topic = cDb.topic
         /\ cReq' = [cReq EXCEPT ![r] = Channels!Idle]
         /\ UNCHANGED <<cBegun, raced, mixed>>
<1> DEFINE u == cReq[r].op.by
           h == cReq[r].db.handle[u]
           reserved == h # NoRow /\ cReq[r].db.alias[h] = NoRow
           alias == IF reserved THEN [cDb.alias EXCEPT ![h] = Gone] ELSE cDb.alias
           public == {w \in cDb.public : Author[w] # u}
           none == [list |-> <<>>, rev |-> cBegun]
<1>1. /\ cReq[r].op.kind = "delete" /\ u \in cDb.users /\ (reserved => cDb.alias[h] = NoRow)
      /\ cReq' = [cReq EXCEPT ![r] = Channels!Idle] /\ UNCHANGED <<cBegun, raced, mixed>>
  BY DEF Channels!Delete, Channels!Commit
<1>2. /\ cReq[r].op \in Channels!Ops /\ u \in Creators
      /\ ChannelTables(cReq[r].db) /\ ChannelTables(cDb)
  BY <1>1, RunningChannel, ChannelOps
<1>3. none \in Choice /\ cBegun \in Nat
  BY EmptyList, ChannelAssumption DEF ChannelTyped, Choice
<1>4. alias \in [Handles -> Creators \cup {NoRow, Gone}]
  <2>1. h \in Handles \cup {NoRow}
    BY <1>2 DEF ChannelTables
  <2> QED BY <1>2, <2>1 DEF ChannelTables
<1> HIDE DEF public, none, reserved, alias, u, h
<1>5. cDb' = [cDb EXCEPT !.users = @ \ {u}, !.left = @ \cup {u}, !.handle[u] = NoRow,
                         !.cooling = @ \ {u}, !.alias = alias, !.public = public,
                         !.pins[u] = none, !.topics[u] = none]
  BY <1>1 DEF Channels!Delete, Channels!Commit, alias, public, reserved, none, u, h
<1>6. /\ cDb'.users = cDb.users \ {u} /\ cDb'.left = cDb.left \cup {u}
      /\ cDb'.handle = [cDb.handle EXCEPT ![u] = NoRow]
  BY <1>2, <1>5 DEF ChannelTables
<1>7. /\ cDb'.alias = alias /\ cDb'.topics = [cDb.topics EXCEPT ![u] = none]
      /\ cDb'.topic = cDb.topic
  BY <1>2, <1>5 DEF ChannelTables
<1>8. cDb' \in [users : {cDb'.users}, left : {cDb'.left}, handle : {cDb'.handle},
                cooling : {cDb'.cooling}, alias : {cDb'.alias}, public : {cDb'.public},
                pins : {cDb'.pins}, topics : {cDb'.topics}, topic : {cDb'.topic}]
  BY <1>2, <1>5 DEF ChannelTables
<1>9. /\ [cDb.topics EXCEPT ![u] = none] \in [Creators -> Choice]
      /\ [cDb.handle EXCEPT ![u] = NoRow] \in [Creators -> Handles \cup {NoRow}]
  BY <1>2, <1>3 DEF ChannelTables
<1>10. ChannelTables(cDb')
  BY <1>2, <1>4, <1>6, <1>7, <1>8, <1>9 DEF ChannelTables
<1> QED BY <1>1, <1>2, <1>3, <1>6, <1>7, <1>10 DEF alias, reserved, none, u, h

\* Reading a channel gives the creator an address if its snapshot has none.
LEMMA OpenEffect ==
  ASSUME ChannelTyped, NEW r \in Requests, Channels!Open(r)
  PROVE  LET u == cReq[r].op.by
             s == cReq[r].db
             h == Channels!Ensured(s, u) IN
         /\ cReq[r].op \in Channels!Ops /\ cReq[r].op.kind = "open" /\ u \in Creators
         /\ u \in cDb.users /\ h \in Handles
         /\ ChannelTables(s) /\ ChannelTables(cDb')
         /\ cDb'.users = cDb.users /\ cDb'.left = cDb.left
         /\ cDb'.handle = [cDb.handle EXCEPT ![u] = IF s.handle[u] = NoRow THEN h ELSE @]
         /\ cDb'.alias = cDb.alias /\ cDb'.topics = cDb.topics /\ cDb'.topic = cDb.topic
         /\ cReq' = [cReq EXCEPT ![r] = Channels!Idle]
         /\ UNCHANGED <<cBegun, raced, mixed>>
<1> DEFINE u == cReq[r].op.by
           s == cReq[r].db
           h == Channels!Ensured(s, u)
           held == IF s.handle[u] = NoRow THEN h ELSE cDb.handle[u]
           pins == Channels!Pins(Channels!Visible(s, s.pins[u].list), u, s.pins[u])
<1>1. /\ cReq[r].op.kind = "open" /\ u \in cDb.users /\ h # NoRow
      /\ cReq' = [cReq EXCEPT ![r] = Channels!Idle] /\ UNCHANGED <<cBegun, raced, mixed>>
  BY DEF Channels!Open, Channels!Commit
<1>2. /\ cReq[r].op \in Channels!Ops /\ u \in Creators /\ ChannelTables(s) /\ ChannelTables(cDb)
  BY <1>1, RunningChannel, ChannelOps
<1>3. h \in Handles /\ held \in Handles \cup {NoRow}
  BY <1>1, <1>2, OwnAddress DEF ChannelTables
<1>4. cDb' = [cDb EXCEPT !.handle[u] = IF s.handle[u] = NoRow THEN h ELSE @, !.pins[u] = pins]
  BY DEF Channels!Open, Channels!Commit
<1> HIDE DEF h, pins, held, u, s
<1>5. /\ cDb'.users = cDb.users /\ cDb'.left = cDb.left
      /\ cDb'.handle = [cDb.handle EXCEPT ![u] = IF s.handle[u] = NoRow THEN h ELSE @]
  BY <1>2, <1>4 DEF ChannelTables
<1>6. cDb'.alias = cDb.alias /\ cDb'.topics = cDb.topics /\ cDb'.topic = cDb.topic
  BY <1>2, <1>4 DEF ChannelTables
<1>7. cDb' \in [users : {cDb'.users}, left : {cDb'.left}, handle : {cDb'.handle},
                cooling : {cDb'.cooling}, alias : {cDb'.alias}, public : {cDb'.public},
                pins : {cDb'.pins}, topics : {cDb'.topics}, topic : {cDb'.topic}]
  BY <1>2, <1>4 DEF ChannelTables
<1>8. cDb'.handle \in [Creators -> Handles \cup {NoRow}]
  BY <1>2, <1>3, <1>5 DEF ChannelTables, held
<1>9. ChannelTables(cDb')
  BY <1>2, <1>5, <1>6, <1>7, <1>8 DEF ChannelTables
<1> QED BY <1>1, <1>2, <1>3, <1>5, <1>6, <1>9 DEF h, u, s

\* The address of a creator after an update.
Renamed(r) == IF cReq[r].op.to.handle = Same THEN Channels!Ensured(cReq[r].db, cReq[r].op.by)
              ELSE cReq[r].op.to.handle

\* An update that changes the address keeps the old one as an alias; it chooses active topics.
LEMMA UpdateEffect ==
  ASSUME ChannelTyped, NEW r \in Requests, Channels!Update(r)
  PROVE  LET u == cReq[r].op.by
             to == cReq[r].op.to
             s == cReq[r].db
             old == Channels!Ensured(s, u)
             new == Renamed(r) IN
         /\ cReq[r].op \in Channels!Ops /\ cReq[r].op.kind = "update" /\ u \in Creators
         /\ u \in cDb.users /\ old \in Handles /\ new \in Handles
         /\ ChannelTables(s) /\ ChannelTables(cDb')
         /\ new # old => Channels!Available(s, new, u) /\ cDb.alias[old] = NoRow
         /\ cDb'.users = cDb.users /\ cDb'.left = cDb.left
         /\ cDb'.handle = [cDb.handle EXCEPT ![u] = IF new = s.handle[u] THEN @ ELSE new]
         /\ cDb'.alias = IF new # old THEN [cDb.alias EXCEPT ![old] = u] ELSE cDb.alias
         /\ to.topics = Same => cDb'.topics = cDb.topics
         /\ to.topics # Same =>
               /\ to.topics \in TopicLists /\ Channels!Choosable(s, to.topics)
               /\ \E n \in Nat :
                     cDb'.topics = [cDb.topics EXCEPT ![u] = [list |-> to.topics, rev |-> n]]
         /\ cDb'.topic = cDb.topic
         /\ cReq' = [cReq EXCEPT ![r] = Channels!Idle]
         /\ UNCHANGED <<cBegun, raced, mixed>>
<1> DEFINE u == cReq[r].op.by
           to == cReq[r].op.to
           s == cReq[r].db
           old == Channels!Ensured(s, u)
           new == Renamed(r)
           held == IF new = s.handle[u] THEN cDb.handle[u] ELSE new
           alias == IF new # old THEN Channels!AddedAlias(cDb, old, u) ELSE cDb.alias
           choice == IF to.topics = Same THEN cDb.topics[u]
                     ELSE [list |-> to.topics, rev |-> cBegun]
           pins == IF to.pins = Same
                   THEN Channels!Pins(Channels!Visible(s, s.pins[u].list), u, s.pins[u])
                   ELSE [list |-> to.pins, rev |-> cBegun]
           cooling == IF new # old THEN cDb.cooling \cup {u} ELSE cDb.cooling
<1>1. /\ cReq[r].op.kind = "update" /\ u \in cDb.users /\ old # NoRow
      /\ (new # old => Channels!Available(s, new, u) /\ cDb.alias[old] = NoRow)
      /\ (to.topics # Same => Channels!Choosable(s, to.topics))
      /\ cReq' = [cReq EXCEPT ![r] = Channels!Idle] /\ UNCHANGED <<cBegun, raced, mixed>>
  BY DEF Channels!Update, Channels!Commit, Renamed
<1>2. /\ cReq[r].op \in Channels!Ops /\ u \in Creators /\ ChannelTables(s) /\ ChannelTables(cDb)
      /\ to.handle \in Handles \cup {Same} /\ to.topics \in Channels!Chosen \cup {Same}
  BY <1>1, RunningChannel, ChannelOps
<1>3. old \in Handles /\ new \in Handles /\ held \in Handles \cup {NoRow}
  BY <1>1, <1>2, OwnAddress DEF ChannelTables, Renamed
<1>4. cBegun \in Nat /\ (to.topics # Same => to.topics \in TopicLists)
  BY <1>2, ChosenLists, ChannelAssumption DEF ChannelTyped
<1>5. cDb' = [cDb EXCEPT !.handle[u] = IF new = s.handle[u] THEN @ ELSE new, !.alias = alias,
                         !.cooling = cooling,
                         !.topics[u] = IF to.topics = Same THEN @
                                       ELSE [list |-> to.topics, rev |-> cBegun],
                         !.pins[u] = pins]
  BY DEF Channels!Update, Channels!Commit, Renamed
<1>6. alias = IF new # old THEN [cDb.alias EXCEPT ![old] = u] ELSE cDb.alias
  BY <1>1 DEF Channels!AddedAlias
<1>7. choice \in Choice
  BY <1>2, <1>4 DEF Choice, ChannelTables
<1> HIDE DEF pins, cooling, alias, new, old, u, s, to
<1>8. cDb'.users = cDb.users /\ cDb'.left = cDb.left /\ cDb'.alias = alias
  BY <1>2, <1>5 DEF ChannelTables
<1>9. cDb'.handle = [cDb.handle EXCEPT ![u] = IF new = s.handle[u] THEN @ ELSE new]
  BY <1>2, <1>5 DEF ChannelTables
<1>10. cDb'.topics = [cDb.topics EXCEPT ![u] = choice] /\ cDb'.topic = cDb.topic
  BY <1>2, <1>5 DEF ChannelTables
<1>11. cDb' \in [users : {cDb'.users}, left : {cDb'.left}, handle : {cDb'.handle},
                cooling : {cDb'.cooling}, alias : {cDb'.alias}, public : {cDb'.public},
                pins : {cDb'.pins}, topics : {cDb'.topics}, topic : {cDb'.topic}]
  BY <1>2, <1>5 DEF ChannelTables
<1>12. cDb'.handle \in [Creators -> Handles \cup {NoRow}]
  BY <1>2, <1>3, <1>9 DEF ChannelTables
<1>13. alias \in [Handles -> Creators \cup {NoRow, Gone}]
  BY <1>2, <1>3, <1>6 DEF ChannelTables
<1>14. cDb'.topics \in [Creators -> Choice]
  <2> HIDE DEF choice
  <2> QED BY <1>2, <1>7, <1>10 DEF ChannelTables
<1>15. ChannelTables(cDb')
  BY <1>2, <1>8, <1>10, <1>11, <1>12, <1>13, <1>14 DEF ChannelTables
<1>16. to.topics = Same => cDb'.topics = cDb.topics
  BY <1>2, <1>10 DEF ChannelTables
<1> HIDE DEF choice, held
<1>17. to.topics # Same =>
          cDb'.topics = [cDb.topics EXCEPT ![u] = [list |-> to.topics, rev |-> cBegun]]
  BY <1>10 DEF choice
<1> QED BY <1>1, <1>2, <1>3, <1>4, <1>6, <1>8, <1>9, <1>10, <1>15, <1>16, <1>17
        DEF new, old, u, s, to

\* Two states of the tables differ in what is visible and pinned and in who has just renamed.
AsBefore(d, e) ==
    /\ e.users = d.users /\ e.left = d.left /\ e.handle = d.handle /\ e.alias = d.alias
    /\ e.topics = d.topics /\ e.topic = d.topic

\* A request that is answered, with its effect or without.
Answered(r) == cReq' = [cReq EXCEPT ![r] = Channels!Idle] /\ UNCHANGED <<cBegun, raced, mixed>>

\* A request that is refused, a takedown, a publication and the end of thirty days leave
\* addresses and topics alone.
LEMMA QuietEffect ==
  ASSUME ChannelTyped,
         \/ \E r \in Requests : Channels!Refuse(r) \/ Channels!TakeDown(r)
         \/ \E u \in Creators : Channels!Cooled(u)
         \/ \E w \in Works : Channels!Publish(w)
  PROVE  /\ ChannelTables(cDb') /\ AsBefore(cDb, cDb')
         /\ (\E r \in Requests : Answered(r)) \/ UNCHANGED <<cReq, cBegun, raced, mixed>>
<1>0. ChannelTables(cDb)
  BY DEF ChannelTyped
<1>1. ASSUME NEW r \in Requests, Channels!Refuse(r)
      PROVE  cDb' = cDb /\ Answered(r)
  BY <1>1 DEF Channels!Refuse, Channels!Commit, Answered
<1>2. ASSUME NEW r \in Requests, Channels!TakeDown(r)
      PROVE  ChannelTables(cDb') /\ AsBefore(cDb, cDb') /\ Answered(r)
  <2> DEFINE w == cReq[r].op.work
             old == cReq[r].db.pins[Author[w]]
             pins == Channels!Pins({n \in DOMAIN old.list : old.list[n] # w}, Author[w], old)
  <2>1. CASE Channels!Commit(r, cDb)
    BY <1>0, <2>1 DEF Channels!Commit, Answered, AsBefore
  <2>2. CASE Channels!Commit(r, [cDb EXCEPT !.public = @ \ {w}, !.pins[Author[w]] = pins])
    <3> HIDE DEF pins, w
    <3>1. ChannelTables(cDb')
      BY <1>0, <2>2 DEF Channels!Commit, ChannelTables
    <3>2. AsBefore(cDb, cDb')
      BY <1>0, <2>2 DEF Channels!Commit, ChannelTables, AsBefore
    <3> QED BY <2>2, <3>1, <3>2 DEF Channels!Commit, Answered
  <2>3. \/ Channels!Commit(r, cDb)
        \/ Channels!Commit(r, [cDb EXCEPT !.public = @ \ {w}, !.pins[Author[w]] = pins])
    BY <1>2, Zenon DEF Channels!TakeDown
  <2> QED BY <2>1, <2>2, <2>3
<1>3. ASSUME NEW u \in Creators, Channels!Cooled(u)
      PROVE  /\ ChannelTables(cDb') /\ AsBefore(cDb, cDb')
             /\ UNCHANGED <<cReq, cBegun, raced, mixed>>
  BY <1>0, <1>3 DEF Channels!Cooled, ChannelTables, AsBefore
<1>4. ASSUME NEW w \in Works, Channels!Publish(w)
      PROVE  /\ ChannelTables(cDb') /\ AsBefore(cDb, cDb')
             /\ UNCHANGED <<cReq, cBegun, raced, mixed>>
  BY <1>0, <1>4 DEF Channels!Publish, ChannelTables, AsBefore
<1>5. AsBefore(cDb, cDb)
  BY DEF AsBefore
<1> QED BY <1>0, <1>1, <1>2, <1>3, <1>4, <1>5, Zenon

\* An operator who changes the state of a topic changes nothing else, and archives none.
LEMMA SetTopicEffect ==
  ASSUME ChannelTyped, NEW t \in Topics, NEW on \in BOOLEAN, Channels!SetTopic(t, on)
  PROVE  /\ ChannelTables(cDb') /\ cDb'.users = cDb.users /\ cDb'.left = cDb.left
         /\ cDb'.handle = cDb.handle /\ cDb'.alias = cDb.alias /\ cDb'.topics = cDb.topics
         /\ \A q \in Topics : cDb'.topic[q] = "archived" => cDb.topic[q] = "archived"
         /\ UNCHANGED <<cReq, cBegun, raced, mixed>>
<1> DEFINE state == IF on THEN "active" ELSE "disabled"
<1>1. /\ cDb' = [cDb EXCEPT !.topic[t] = state] /\ UNCHANGED <<cReq, cBegun, raced, mixed>>
      /\ ChannelTables(cDb)
  BY DEF Channels!SetTopic, ChannelTyped
<1>2. state \in {"active", "disabled"}
  OBVIOUS
<1> HIDE DEF state
<1>3. /\ cDb'.users = cDb.users /\ cDb'.left = cDb.left /\ cDb'.handle = cDb.handle
      /\ cDb'.alias = cDb.alias /\ cDb'.topics = cDb.topics
      /\ cDb'.topic = [cDb.topic EXCEPT ![t] = state]
  BY <1>1 DEF ChannelTables
<1>4. ChannelTables(cDb')
  BY <1>1, <1>2 DEF ChannelTables
<1> QED BY <1>1, <1>2, <1>3, <1>4 DEF ChannelTables

\* A topic that is archived is replaced or removed in the choices that are still the ones the
\* archiving request has read.
LEMMA ArchiveEffect ==
  ASSUME ChannelTyped, NEW r \in Requests, Channels!Archive(r)
  PROVE  LET t == cReq[r].op.topic
             way == cReq[r].op.way
             old == cReq[r].db.topics
             users == {u \in Creators : t \in Channels!Range(old[u].list)} IN
         /\ cReq[r].op \in Channels!Ops /\ cReq[r].op.kind = "archive" /\ t \in Topics
         /\ ChannelTables(cReq[r].db) /\ ChannelTables(cDb')
         /\ cDb'.users = cDb.users /\ cDb'.left = cDb.left
         /\ cDb'.handle = cDb.handle /\ cDb'.alias = cDb.alias
         /\ cDb'.topic = [cDb.topic EXCEPT ![t] = "archived"]
         /\ \A u \in Creators : u \notin users \/ old[u] # cDb.topics[u] =>
               cDb'.topics[u] = cDb.topics[u]
         /\ \A u \in users : old[u] = cDb.topics[u] =>
               /\ t \notin Channels!Range(cDb'.topics[u].list)
               /\ Channels!Range(cDb'.topics[u].list) \subseteq
                    Channels!Range(cDb.topics[u].list) \cup (Channels!Active(cReq[r].db) \ {t})
         /\ Answered(r)
<1> DEFINE t == cReq[r].op.topic
           way == cReq[r].op.way
           s == cReq[r].db
           old == s.topics
           users == {u \in Creators : t \in Channels!Range(old[u].list)}
           new(u) == Channels!Reassigned(old[u].list, t, way)
           topics == [u \in Creators |-> IF u \in users /\ old[u] = cDb.topics[u]
                                         THEN [list |-> new(u), rev |-> cBegun]
                                         ELSE cDb.topics[u]]
<1>1. /\ cReq[r].op.kind = "archive"
      /\ (users # {} => way # "none" /\ (way \in Topics => way # t /\ way \in Channels!Active(s)))
      /\ Answered(r)
  BY DEF Channels!Archive, Channels!Commit, Answered
<1>2. /\ cReq[r].op \in Channels!Ops /\ t \in Topics /\ way \in {"none", "remove"} \cup Topics
      /\ ChannelTables(s) /\ ChannelTables(cDb)
  BY <1>1, RunningChannel, ChannelOps
<1>3. cDb' = [cDb EXCEPT !.topics = topics, !.topic[t] = "archived"]
  BY DEF Channels!Archive, Channels!Commit
<1>4. cBegun \in Nat
  BY ChannelAssumption DEF ChannelTyped
<1>5. ASSUME NEW u \in users
      PROVE  /\ new(u) \in TopicLists /\ t \notin Channels!Range(new(u))
             /\ Channels!Range(new(u)) \subseteq
                  Channels!Range(old[u].list) \cup (Channels!Active(s) \ {t})
  <2>1. old[u].list \in TopicLists /\ t \in Channels!Range(old[u].list)
    BY <1>2 DEF ChannelTables, Choice
  <2>2. way # t /\ (way \in Topics => way \in Channels!Active(s) \ {t})
    BY <1>1, <1>2
  <2> HIDE DEF t, way, users, old
  <2>3. way \in {"none", "remove"} \cup Topics
    BY <1>2 DEF way
  <2>4. /\ new(u) \in TopicLists /\ t \notin Channels!Range(new(u))
        /\ Channels!Range(new(u)) \subseteq Channels!Range(old[u].list) \cup ({way} \cap Topics)
    BY <2>1, <2>2, <2>3, ReassignedList
  <2> QED BY <2>2, <2>4
<1> HIDE DEF new, users, t, way, s, old
<1>6. topics \in [Creators -> Choice]
  <2>1. ASSUME NEW u \in Creators PROVE cDb.topics[u] \in Choice
    BY <1>2 DEF ChannelTables
  <2>2. ASSUME NEW u \in users PROVE [list |-> new(u), rev |-> cBegun] \in Choice
    BY <1>4, <1>5 DEF Choice
  <2> QED BY <2>1, <2>2
<1> HIDE DEF topics
<1>7. /\ cDb'.users = cDb.users /\ cDb'.left = cDb.left /\ cDb'.handle = cDb.handle
      /\ cDb'.alias = cDb.alias /\ cDb'.topics = topics
      /\ cDb'.topic = [cDb.topic EXCEPT ![t] = "archived"]
  BY <1>2, <1>3 DEF ChannelTables
<1>8. cDb' \in [users : {cDb'.users}, left : {cDb'.left}, handle : {cDb'.handle},
                cooling : {cDb'.cooling}, alias : {cDb'.alias}, public : {cDb'.public},
                pins : {cDb'.pins}, topics : {cDb'.topics}, topic : {cDb'.topic}]
  BY <1>2, <1>3 DEF ChannelTables
<1>9. cDb'.topic \in [Topics -> {"none", "active", "disabled", "archived"}]
  BY <1>2, <1>7 DEF ChannelTables
<1>10. ChannelTables(cDb')
  BY <1>2, <1>6, <1>7, <1>8, <1>9 DEF ChannelTables
<1>11. ASSUME NEW u \in Creators, u \notin users \/ old[u] # cDb.topics[u]
       PROVE  cDb'.topics[u] = cDb.topics[u]
  BY <1>7, <1>11 DEF topics
<1>12. ASSUME NEW u \in users, old[u] = cDb.topics[u]
       PROVE  cDb'.topics[u].list = new(u)
  <2>1. u \in Creators
    BY DEF users
  <2> QED BY <1>7, <1>12, <2>1 DEF topics
<1>13. ASSUME NEW u \in users, old[u] = cDb.topics[u]
       PROVE  /\ t \notin Channels!Range(cDb'.topics[u].list)
              /\ Channels!Range(cDb'.topics[u].list) \subseteq
                   Channels!Range(cDb.topics[u].list) \cup (Channels!Active(s) \ {t})
  BY <1>5, <1>12, <1>13
<1> QED BY <1>1, <1>2, <1>7, <1>10, <1>11, <1>13, Zenon DEF users, t, s, old

\* A request that begins reads the tables.
LEMMA BeginEffect ==
  ASSUME ChannelTyped, NEW r \in Requests, NEW o \in Channels!Ops, Channels!Begin(r, o)
  PROVE  /\ ChannelTyped' /\ cDb' = cDb /\ cReq[r] = Channels!Idle
         /\ cReq' = [cReq EXCEPT ![r] = [op |-> o, db |-> cDb]]
         /\ \A q \in Requests : q # r => cReq'[q] = cReq[q]
         /\ cReq'[r] = [op |-> o, db |-> cDb]
         /\ (raced' <=> raced \/ (Channels!Addressing(o)
                        /\ \E q \in Requests : cReq[q] # Channels!Idle
                                               /\ Channels!Addressing(cReq[q].op)))
         /\ (mixed' <=> mixed \/ \E q \in Requests : cReq[q] # Channels!Idle
                        /\ \/ o.kind = "archive" /\ Channels!OnTopics(cReq[q].op)
                           \/ cReq[q].op.kind = "archive" /\ Channels!OnTopics(o))
<1>1. /\ cReq[r] = Channels!Idle /\ cBegun < MaxWrites /\ cBegun' = cBegun + 1
      /\ cReq' = [cReq EXCEPT ![r] = [op |-> o, db |-> cDb]] /\ cDb' = cDb
  BY DEF Channels!Begin
<1>2. /\ (raced' <=> raced \/ (Channels!Addressing(o)
                     /\ \E q \in Requests : cReq[q] # Channels!Idle
                                            /\ Channels!Addressing(cReq[q].op)))
      /\ (mixed' <=> mixed \/ \E q \in Requests : cReq[q] # Channels!Idle
                     /\ \/ o.kind = "archive" /\ Channels!OnTopics(cReq[q].op)
                        \/ cReq[q].op.kind = "archive" /\ Channels!OnTopics(o))
  <2> DEFINE others == {cReq[q].op : q \in {q \in Requests : cReq[q] # Channels!Idle}}
  <2>1. /\ raced' = (raced \/ (Channels!Addressing(o)
                               /\ \E p \in others : Channels!Addressing(p)))
        /\ mixed' = (mixed \/ \E p \in others :
                                 \/ o.kind = "archive" /\ Channels!OnTopics(p)
                                 \/ p.kind = "archive" /\ Channels!OnTopics(o))
    BY DEF Channels!Begin
  <2>2. \A p : p \in others <=> \E q \in Requests : cReq[q] # Channels!Idle /\ p = cReq[q].op
    OBVIOUS
  <2> HIDE DEF others
  <2>3. (\E p \in others : Channels!Addressing(p)) <=>
           \E q \in Requests : cReq[q] # Channels!Idle /\ Channels!Addressing(cReq[q].op)
    BY <2>2, Zenon
  <2> DEFINE Meets(p) == \/ o.kind = "archive" /\ Channels!OnTopics(p)
                         \/ p.kind = "archive" /\ Channels!OnTopics(o)
  <2>4. (\E p \in others : Meets(p)) <=>
           \E q \in Requests : cReq[q] # Channels!Idle /\ Meets(cReq[q].op)
    <3> HIDE DEF Meets
    <3> QED BY <2>2, Zenon
  <2>5. /\ (raced' <=> raced \/ (Channels!Addressing(o)
                               /\ \E p \in others : Channels!Addressing(p)))
        /\ (mixed' <=> mixed \/ \E p \in others :
                                    \/ o.kind = "archive" /\ Channels!OnTopics(p)
                                    \/ p.kind = "archive" /\ Channels!OnTopics(o))
    BY <2>1
  <2> QED BY <2>3, <2>4, <2>5, Zenon
<1>3. /\ \A q \in Requests : q # r => cReq'[q] = cReq[q]
      /\ cReq'[r] = [op |-> o, db |-> cDb]
      /\ cReq' \in [Requests -> {cReq'[q] : q \in Requests}]
  BY <1>1 DEF ChannelTyped
<1>4. ASSUME NEW q \in Requests, cReq'[q] # Channels!Idle
      PROVE  cReq'[q] \in [op : Channels!Ops, db : {cReq'[q].db}] /\ ChannelTables(cReq'[q].db)
  <2>1. CASE q = r
    BY <1>3, <2>1 DEF ChannelTyped
  <2>2. CASE q # r
    BY <1>3, <1>4, <2>2 DEF ChannelTyped
  <2> QED BY <2>1, <2>2
<1>5. cBegun' \in 0..MaxWrites /\ raced' \in BOOLEAN /\ mixed' \in BOOLEAN
  BY <1>1, ChannelAssumption DEF ChannelTyped, Channels!Begin
<1>6. ChannelTyped'
  BY <1>1, <1>3, <1>4, <1>5 DEF ChannelTyped
<1> QED BY <1>1, <1>2, <1>3, <1>6

\* A request that is answered leaves the others as they are.
LEMMA AnsweredTyped ==
  ASSUME ChannelTyped, NEW r \in Requests, Answered(r), ChannelTables(cDb')
  PROVE  /\ ChannelTyped' /\ cReq'[r] = Channels!Idle
         /\ \A q \in Requests : cReq'[q] # Channels!Idle => q # r /\ cReq'[q] = cReq[q]
<1>1. /\ cReq'[r] = Channels!Idle /\ \A q \in Requests : q # r => cReq'[q] = cReq[q]
      /\ cReq' \in [Requests -> {cReq'[q] : q \in Requests}]
      /\ UNCHANGED <<cBegun, raced, mixed>>
  BY DEF ChannelTyped, Answered
<1>2. \A q \in Requests : cReq'[q] # Channels!Idle => q # r /\ cReq'[q] = cReq[q]
  BY <1>1
<1> QED BY <1>1, <1>2 DEF ChannelTyped

\* The kinds of steps of the channels.
LEMMA ChannelSteps ==
  ASSUME ChannelTyped, [Channels!Next]_Channels!vars
  PROVE  \/ \E r \in Requests : \E o \in Channels!Ops : Channels!Begin(r, o)
         \/ \E r \in Requests : \/ Channels!Register(r) \/ Channels!Open(r)
                                \/ Channels!Update(r) \/ Channels!Delete(r)
                                \/ Channels!Archive(r)
         \/ \E t \in Topics : \E on \in BOOLEAN : Channels!SetTopic(t, on)
         \/ /\ ChannelTables(cDb') /\ AsBefore(cDb, cDb')
            /\ (\E r \in Requests : Answered(r)) \/ UNCHANGED <<cReq, cBegun, raced, mixed>>
<1>1. CASE UNCHANGED Channels!vars
  BY <1>1 DEF Channels!vars, AsBefore, ChannelTyped
<1>2. CASE Channels!Next
  <2>1. CASE \/ \E r \in Requests : Channels!Refuse(r) \/ Channels!TakeDown(r)
             \/ \E u \in Creators : Channels!Cooled(u)
             \/ \E w \in Works : Channels!Publish(w)
    BY <2>1, QuietEffect
  <2> QED BY <1>2, <2>1 DEF Channels!Next
<1> QED BY <1>1, <1>2

\* Initially the tables and the requests are of their types.
LEMMA ChannelTypedInit == Channels!Init => ChannelTyped
<1> SUFFICES ASSUME Channels!Init PROVE ChannelTyped
  OBVIOUS
<1>1. [list |-> <<>>, rev |-> 0] \in Choice
  BY EmptyList DEF Choice
<1>2. ChannelTables(cDb)
  BY <1>1, ChannelAssumption DEF Channels!Init, ChannelTables
<1>3. /\ \A r \in Requests : cReq[r] = Channels!Idle
      /\ cReq \in [Requests -> {cReq[q] : q \in Requests}]
      /\ cBegun \in 0..MaxWrites /\ raced = FALSE /\ mixed = FALSE
  BY ChannelAssumption DEF Channels!Init
<1> QED BY <1>2, <1>3 DEF ChannelTyped

\* They remain so.
LEMMA ChannelTypedNext == ChannelTyped /\ [Channels!Next]_Channels!vars => ChannelTyped'
<1> SUFFICES ASSUME ChannelTyped, [Channels!Next]_Channels!vars PROVE ChannelTyped'
  OBVIOUS
<1>1. ASSUME NEW r \in Requests, NEW o \in Channels!Ops, Channels!Begin(r, o)
      PROVE  ChannelTyped'
  BY <1>1, BeginEffect
<1>2. ASSUME NEW r \in Requests, Channels!Register(r) PROVE ChannelTyped'
  BY <1>2, RegisterEffect, AnsweredTyped DEF Answered
<1>3. ASSUME NEW r \in Requests, Channels!Open(r) PROVE ChannelTyped'
  BY <1>3, OpenEffect, AnsweredTyped DEF Answered
<1>4. ASSUME NEW r \in Requests, Channels!Update(r) PROVE ChannelTyped'
  BY <1>4, UpdateEffect, AnsweredTyped DEF Answered
<1>5. ASSUME NEW r \in Requests, Channels!Delete(r) PROVE ChannelTyped'
  BY <1>5, DeleteEffect, AnsweredTyped DEF Answered
<1>6. ASSUME NEW r \in Requests, Channels!Archive(r) PROVE ChannelTyped'
  BY <1>6, ArchiveEffect, AnsweredTyped
<1>7. ASSUME NEW t \in Topics, NEW on \in BOOLEAN, Channels!SetTopic(t, on) PROVE ChannelTyped'
  BY <1>7, SetTopicEffect DEF ChannelTyped
<1>8. CASE /\ ChannelTables(cDb') /\ AsBefore(cDb, cDb')
           /\ (\E r \in Requests : Answered(r)) \/ UNCHANGED <<cReq, cBegun, raced, mixed>>
  <2>1. ASSUME NEW r \in Requests, Answered(r) PROVE ChannelTyped'
    BY <1>8, <2>1, AnsweredTyped
  <2>2. ASSUME UNCHANGED <<cReq, cBegun, raced, mixed>> PROVE ChannelTyped'
    BY <1>8, <2>2 DEF ChannelTyped
  <2> QED BY <1>8, <2>1, <2>2
<1> QED BY <1>1, <1>2, <1>3, <1>4, <1>5, <1>6, <1>7, <1>8, ChannelSteps, Zenon
-----------------------------------------------------------------------------
(* The topics that are chosen.                                             *)

\* Unless an archiving has overlapped another or a choice of topics, nobody keeps an archived
\* topic; a request about topics has read every one that is archived as such; what an
\* archiving request has read of a creator's topics is what they are, or there are none left;
\* and no other request about topics is under way with it.
ChoicesKept ==
    ~mixed =>
      /\ \A u \in Creators : \A t \in Channels!Range(cDb.topics[u].list) :
            cDb.topic[t] # "archived"
      /\ \A r \in Requests : cReq[r] # Channels!Idle /\ Channels!OnTopics(cReq[r].op) =>
            \A t \in Topics : cDb.topic[t] = "archived" => cReq[r].db.topic[t] = "archived"
      /\ \A r \in Requests : cReq[r] # Channels!Idle /\ cReq[r].op.kind = "archive" =>
            \A u \in Creators : cDb.topics[u] = cReq[r].db.topics[u] \/ cDb.topics[u].list = <<>>
      /\ \A r, q \in Requests : /\ r # q /\ cReq[r] # Channels!Idle /\ cReq[q] # Channels!Idle
                                /\ cReq[r].op.kind = "archive"
                                => ~Channels!OnTopics(cReq[q].op)


\* Nobody has chosen a topic at first.
LEMMA ChoicesInit == Channels!Init => ChoicesKept
<1> SUFFICES ASSUME Channels!Init PROVE ChoicesKept
  OBVIOUS
<1>1. \A u \in Creators : cDb.topics[u].list = <<>>
  BY DEF Channels!Init
<1>2. \A r \in Requests : cReq[r] = Channels!Idle
  BY DEF Channels!Init
<1> QED BY <1>1, <1>2, EmptyList, Zenon DEF ChoicesKept

\* A step that archives no topic and chooses none keeps this.
LEMMA ChoicesStay ==
  ASSUME ChannelTyped, ChoicesKept, mixed' = mixed,
         \A u \in Creators : cDb'.topics[u] = cDb.topics[u] \/ cDb'.topics[u].list = <<>>,
         \A t \in Topics : cDb'.topic[t] = "archived" => cDb.topic[t] = "archived",
         \A q \in Requests : cReq'[q] # Channels!Idle => cReq'[q] = cReq[q],
         ChannelTables(cDb')
  PROVE  ChoicesKept'
<1> SUFFICES ASSUME ~mixed PROVE ChoicesKept'
  BY DEF ChoicesKept
<1>1. ASSUME NEW u \in Creators, NEW t \in Channels!Range(cDb'.topics[u].list)
      PROVE  cDb'.topic[t] # "archived"
  <2>1. cDb'.topics[u] = cDb.topics[u]
    BY EmptyList
  <2>2. t \in Topics
    BY DEF ChannelTables, Choice, TopicLists, Channels!Range
  <2>3. cDb.topic[t] # "archived"
    BY <2>1 DEF ChoicesKept
  <2> QED BY <2>2, <2>3
<1>2. ASSUME NEW r \in Requests, cReq'[r] # Channels!Idle, Channels!OnTopics(cReq[r].op)
      PROVE  \A t \in Topics : cDb'.topic[t] = "archived" => cReq[r].db.topic[t] = "archived"
  BY <1>2 DEF ChoicesKept
<1>3. ASSUME NEW r \in Requests, cReq'[r] # Channels!Idle, cReq[r].op.kind = "archive",
             NEW u \in Creators
      PROVE  cDb'.topics[u] = cReq[r].db.topics[u] \/ cDb'.topics[u].list = <<>>
  <2>1. cDb.topics[u] = cReq[r].db.topics[u] \/ cDb.topics[u].list = <<>>
    BY <1>3 DEF ChoicesKept
  <2>2. cDb'.topics[u] = cDb.topics[u] \/ cDb'.topics[u].list = <<>>
    OBVIOUS
  <2> QED BY <2>1, <2>2, Zenon
<1>4. \A r \in Requests : cReq'[r] # Channels!Idle => cReq[r] # Channels!Idle
  OBVIOUS
<1>5. \A r, q \in Requests : /\ r # q /\ cReq'[r] # Channels!Idle /\ cReq'[q] # Channels!Idle
                             /\ cReq'[r].op.kind = "archive"
                             => ~Channels!OnTopics(cReq'[q].op)
  BY <1>4 DEF ChoicesKept
<1>6. \A r \in Requests : cReq'[r] # Channels!Idle => cReq'[r] = cReq[r]
  OBVIOUS
<1> QED BY <1>1, <1>2, <1>3, <1>5, <1>6 DEF ChoicesKept, Channels!OnTopics

\* A topic that is chosen is active, so that it is not archived unless the archiving has
\* overlapped the choice.
LEMMA ChoicesUpdate ==
  ASSUME ChannelTyped, ChoicesKept, NEW r \in Requests, Channels!Update(r)
  PROVE  ChoicesKept'
<1> DEFINE u == cReq[r].op.by
           chosen == cReq[r].op.to.topics
<1>1. Answered(r) /\ ChannelTables(cDb') /\ cDb'.topic = cDb.topic /\ u \in Creators
  BY UpdateEffect DEF Answered
<1>2. /\ mixed' = mixed
      /\ \A q \in Requests : cReq'[q] # Channels!Idle => cReq'[q] = cReq[q] /\ q # r
  BY <1>1, AnsweredTyped DEF Answered
<1>3. CASE chosen = Same
  <2>1. cDb'.topics = cDb.topics
    BY <1>3, UpdateEffect
  <2> QED BY <1>1, <1>2, <2>1, ChoicesStay
<1>4. CASE chosen # Same
  <2> SUFFICES ASSUME ~mixed PROVE ChoicesKept'
    BY <1>2 DEF ChoicesKept
  <2>1. /\ cReq[r].op.kind = "update" /\ Channels!Choosable(cReq[r].db, chosen)
        /\ \E n \in Nat : cDb'.topics = [cDb.topics EXCEPT ![u] = [list |-> chosen, rev |-> n]]
    BY <1>4, UpdateEffect
  <2>2. cReq[r] # Channels!Idle /\ Channels!OnTopics(cReq[r].op)
    BY <1>4, <2>1, RunningChannel DEF Channels!OnTopics
  <2>3. \A q \in Requests : cReq'[q] # Channels!Idle => cReq[q].op.kind # "archive"
    BY <1>2, <2>2 DEF ChoicesKept
  <2>4. /\ cDb'.topics[u].list = chosen
        /\ \A v \in Creators : v # u => cDb'.topics[v] = cDb.topics[v]
    BY <1>1, <2>1 DEF ChannelTyped, ChannelTables
  <2>5. ASSUME NEW t \in Channels!Range(chosen) PROVE cDb.topic[t] # "archived"
    <3>1. t \in Topics /\ cReq[r].db.topic[t] = "active"
      BY <2>1 DEF Channels!Choosable, Channels!Active
    <3>2. cDb.topic[t] = "archived" => cReq[r].db.topic[t] = "archived"
      BY <2>2, <3>1 DEF ChoicesKept
    <3> QED BY <3>1, <3>2
  <2>6. ASSUME NEW v \in Creators, NEW t \in Channels!Range(cDb'.topics[v].list)
        PROVE  cDb'.topic[t] # "archived"
    <3>1. CASE v = u
      BY <1>1, <2>4, <2>5, <3>1
    <3>2. CASE v # u
      <4>1. cDb.topic[t] # "archived"
        BY <2>4, <3>2 DEF ChoicesKept
      <4> QED BY <1>1, <4>1
    <3> QED BY <3>1, <3>2
  <2>7. ASSUME NEW q \in Requests, cReq'[q] # Channels!Idle, Channels!OnTopics(cReq'[q].op),
               NEW t \in Topics, cDb'.topic[t] = "archived"
        PROVE  cReq'[q].db.topic[t] = "archived"
    BY <1>1, <1>2, <2>7 DEF ChoicesKept
  <2>8. \A q \in Requests : cReq'[q] # Channels!Idle => cReq'[q].op.kind # "archive"
    BY <1>2, <2>3
  <2> QED BY <1>2, <2>6, <2>7, <2>8 DEF ChoicesKept, Channels!OnTopics
<1> QED BY <1>3, <1>4

\* What is archived is taken out of every choice of it; what replaces it is active.
LEMMA ChoicesArchive ==
  ASSUME ChannelTyped, ChoicesKept, NEW r \in Requests, Channels!Archive(r)
  PROVE  ChoicesKept'
<1> DEFINE t == cReq[r].op.topic
           old == cReq[r].db.topics
           users == {u \in Creators : t \in Channels!Range(old[u].list)}
<1>1. /\ cReq[r].op.kind = "archive" /\ t \in Topics /\ Answered(r) /\ ChannelTables(cDb')
      /\ cDb'.topic = [cDb.topic EXCEPT ![t] = "archived"]
      /\ \A u \in Creators : u \notin users \/ old[u] # cDb.topics[u] =>
               cDb'.topics[u] = cDb.topics[u]
      /\ \A u \in users : old[u] = cDb.topics[u] =>
               /\ t \notin Channels!Range(cDb'.topics[u].list)
               /\ Channels!Range(cDb'.topics[u].list) \subseteq
                    Channels!Range(cDb.topics[u].list) \cup (Channels!Active(cReq[r].db) \ {t})
  BY ArchiveEffect
<1>2. /\ mixed' = mixed
      /\ \A q \in Requests : cReq'[q] # Channels!Idle => cReq'[q] = cReq[q] /\ q # r
  BY <1>1, AnsweredTyped DEF Answered
<1>3. cReq[r] # Channels!Idle /\ Channels!OnTopics(cReq[r].op)
  BY <1>1, RunningChannel DEF Channels!OnTopics
<1> SUFFICES ASSUME ~mixed PROVE ChoicesKept'
  BY <1>2 DEF ChoicesKept
<1>4. \A q \in Requests : cReq'[q] # Channels!Idle => ~Channels!OnTopics(cReq'[q].op)
  BY <1>1, <1>2, <1>3 DEF ChoicesKept
<1>5. \A u \in Creators : cDb.topics[u] = old[u] \/ cDb.topics[u].list = <<>>
  BY <1>1, <1>3 DEF ChoicesKept
<1>6. \A u \in Creators : \A v \in Channels!Range(cDb.topics[u].list) : cDb.topic[v] # "archived"
  BY DEF ChoicesKept
<1>7. \A v \in Channels!Active(cReq[r].db) : cDb.topic[v] # "archived"
  <2>1. \A v \in Topics : cDb.topic[v] = "archived" => cReq[r].db.topic[v] = "archived"
    BY <1>3 DEF ChoicesKept
  <2> QED BY <2>1 DEF Channels!Active
<1>8. \A v \in Topics : v # t /\ cDb.topic[v] # "archived" => cDb'.topic[v] # "archived"
  BY <1>1 DEF ChannelTyped, ChannelTables
<1> HIDE DEF t, old
<1>9. ASSUME NEW u \in Creators, NEW v \in Channels!Range(cDb'.topics[u].list)
      PROVE  cDb'.topic[v] # "archived"
  <2>1. v \in Topics
    BY <1>1 DEF ChannelTables, Choice, TopicLists, Channels!Range
  <2>2. CASE u \in users /\ old[u] = cDb.topics[u]
    <3>1. v # t /\ (v \in Channels!Range(cDb.topics[u].list) \/ v \in Channels!Active(cReq[r].db))
      BY <1>1, <2>2
    <3> QED BY <1>6, <1>7, <1>8, <2>1, <3>1
  <2>3. CASE u \notin users \/ old[u] # cDb.topics[u]
    <3>1. cDb'.topics[u] = cDb.topics[u]
      BY <1>1, <2>3
    <3>2. cDb.topics[u].list # <<>>
      BY <3>1, EmptyList
    <3>3. u \notin users /\ cDb.topics[u] = old[u]
      BY <1>5, <2>3, <3>2
    <3>4. v # t
      BY <3>1, <3>3
    <3> QED BY <1>6, <1>8, <2>1, <3>1, <3>4
  <2> QED BY <2>2, <2>3
<1>10. \A q \in Requests : cReq'[q] # Channels!Idle => cReq'[q].op.kind # "archive"
  BY <1>4 DEF Channels!OnTopics
<1> QED BY <1>4, <1>9, <1>10 DEF ChoicesKept, Channels!OnTopics

\* A request about topics reads them as they are; an archiving is alone when it begins.
LEMMA ChoicesBegin ==
  ASSUME ChannelTyped, ChoicesKept, NEW r \in Requests, NEW o \in Channels!Ops,
         Channels!Begin(r, o)
  PROVE  ChoicesKept'
<1>1. /\ cDb' = cDb /\ cReq[r] = Channels!Idle /\ cReq'[r] = [op |-> o, db |-> cDb]
      /\ \A q \in Requests : q # r => cReq'[q] = cReq[q]
      /\ (mixed' <=> mixed \/ \E q \in Requests : cReq[q] # Channels!Idle
                        /\ \/ o.kind = "archive" /\ Channels!OnTopics(cReq[q].op)
                           \/ cReq[q].op.kind = "archive" /\ Channels!OnTopics(o))
  BY BeginEffect
<1> SUFFICES ASSUME ~mixed' PROVE ChoicesKept'
  BY DEF ChoicesKept
<1>2. /\ ~mixed
      /\ \A q \in Requests : cReq[q] # Channels!Idle =>
            /\ o.kind = "archive" => ~Channels!OnTopics(cReq[q].op)
            /\ cReq[q].op.kind = "archive" => ~Channels!OnTopics(o)
  BY <1>1
<1>3. \A u \in Creators : \A t \in Channels!Range(cDb.topics[u].list) : cDb.topic[t] # "archived"
  BY <1>2 DEF ChoicesKept
<1>4. ASSUME NEW q \in Requests, cReq'[q] # Channels!Idle, Channels!OnTopics(cReq'[q].op),
             NEW t \in Topics, cDb.topic[t] = "archived"
      PROVE  cReq'[q].db.topic[t] = "archived"
  <2>1. CASE q = r
    BY <1>1, <1>4, <2>1
  <2>2. CASE q # r
    BY <1>1, <1>2, <1>4, <2>2 DEF ChoicesKept
  <2> QED BY <2>1, <2>2
<1>5. ASSUME NEW q \in Requests, cReq'[q] # Channels!Idle, cReq'[q].op.kind = "archive",
             NEW u \in Creators
      PROVE  cDb.topics[u] = cReq'[q].db.topics[u] \/ cDb.topics[u].list = <<>>
  <2>1. CASE q = r
    BY <1>1, <2>1
  <2>2. CASE q # r
    BY <1>1, <1>2, <1>5, <2>2 DEF ChoicesKept
  <2> QED BY <2>1, <2>2
<1>6. ASSUME NEW p \in Requests, NEW q \in Requests, p # q, cReq'[p] # Channels!Idle,
             cReq'[q] # Channels!Idle, cReq'[p].op.kind = "archive"
      PROVE  ~Channels!OnTopics(cReq'[q].op)
  <2>1. CASE p = r
    BY <1>1, <1>2, <1>6, <2>1
  <2>2. CASE q = r
    BY <1>1, <1>2, <1>6, <2>2
  <2>3. CASE p # r /\ q # r
    BY <1>1, <1>2, <1>6, <2>3 DEF ChoicesKept
  <2> QED BY <2>1, <2>2, <2>3
<1> QED BY <1>1, <1>3, <1>4, <1>5, <1>6 DEF ChoicesKept, Channels!OnTopics

\* Every step keeps it.
LEMMA ChoicesNext ==
  ChannelTyped /\ ChoicesKept /\ [Channels!Next]_Channels!vars => ChoicesKept'
<1> SUFFICES ASSUME ChannelTyped, ChoicesKept, [Channels!Next]_Channels!vars PROVE ChoicesKept'
  OBVIOUS
<1>1. ASSUME NEW r \in Requests, Answered(r), ChannelTables(cDb'), cDb'.topic = cDb.topic,
             \A u \in Creators : cDb'.topics[u] = cDb.topics[u] \/ cDb'.topics[u].list = <<>>
      PROVE  ChoicesKept'
  <2>1. mixed' = mixed /\ \A q \in Requests : cReq'[q] # Channels!Idle => cReq'[q] = cReq[q]
    BY <1>1, AnsweredTyped DEF Answered
  <2> QED BY <1>1, <2>1, ChoicesStay
<1>2. ASSUME NEW r \in Requests, Channels!Register(r) PROVE ChoicesKept'
  BY <1>1, <1>2, RegisterEffect DEF Answered
<1>3. ASSUME NEW r \in Requests, Channels!Open(r) PROVE ChoicesKept'
  BY <1>1, <1>3, OpenEffect DEF Answered
<1>4. ASSUME NEW r \in Requests, Channels!Delete(r) PROVE ChoicesKept'
  <2>1. \A u \in Creators : cDb'.topics[u] = cDb.topics[u] \/ cDb'.topics[u].list = <<>>
    <3>1. \E n \in Nat :
             cDb'.topics = [cDb.topics EXCEPT ![cReq[r].op.by] = [list |-> <<>>, rev |-> n]]
      BY <1>4, DeleteEffect
    <3> QED BY <3>1 DEF ChannelTyped, ChannelTables
  <2> QED BY <1>1, <1>4, <2>1, DeleteEffect DEF Answered
<1>5. ASSUME NEW t \in Topics, NEW on \in BOOLEAN, Channels!SetTopic(t, on) PROVE ChoicesKept'
  BY <1>5, SetTopicEffect, ChoicesStay
<1>6. CASE /\ ChannelTables(cDb') /\ AsBefore(cDb, cDb')
           /\ (\E r \in Requests : Answered(r)) \/ UNCHANGED <<cReq, cBegun, raced, mixed>>
  <2>1. cDb'.topics = cDb.topics /\ cDb'.topic = cDb.topic /\ ChannelTables(cDb')
    BY <1>6 DEF AsBefore
  <2>2. ASSUME NEW r \in Requests, Answered(r) PROVE ChoicesKept'
    BY <1>1, <2>1, <2>2
  <2>3. ASSUME UNCHANGED <<cReq, cBegun, raced, mixed>> PROVE ChoicesKept'
    BY <2>1, <2>3, ChoicesStay
  <2> QED BY <1>6, <2>2, <2>3
<1> QED BY <1>2, <1>3, <1>4, <1>5, <1>6, ChoicesBegin, ChoicesUpdate, ChoicesArchive,
           ChannelSteps, Zenon

\* No creator keeps an archived topic, whatever was replaced by what.
THEOREM ArchivedAreUnused == Channels!Spec => []Channels!ArchivedIsUnused
<1>1. ChoicesKept => Channels!ArchivedIsUnused
  BY DEF ChoicesKept, Channels!ArchivedIsUnused
<1> QED BY <1>1, ChannelTypedInit, ChannelTypedNext, ChoicesInit, ChoicesNext, PTL
        DEF Channels!Spec
-----------------------------------------------------------------------------
(* The addresses.                                                          *)

\* Only users have addresses, each one of its own; an alias leads to who is or was a user.
AddressTable(d) ==
    /\ \A u, v \in d.users : u # v /\ d.handle[u] = d.handle[v] => d.handle[u] = NoRow
    /\ \A u \in Creators \ d.users : d.handle[u] = NoRow
    /\ \A h \in Handles : d.alias[h] \in Creators => d.alias[h] \in d.users \cup d.left
    /\ d.users \cap d.left = {}

\* A user's address is not another account's alias.
OwnAlias(d) == \A u \in d.users : d.handle[u] # NoRow => d.alias[d.handle[u]] \in {NoRow, u}

\* A request under way that may write addresses.
Writes(r) ==
    /\ cReq[r] # Channels!Idle
    /\ \/ cReq[r].op.kind \in {"register", "open", "delete"}
       \/ /\ cReq[r].op.kind = "update"
          /\ cReq[r].op.to.handle # Same \/ cReq[r].db.handle[cReq[r].op.by] = NoRow

\* Unless requests that write addresses have overlapped, there is one at most, and it has read
\* the addresses as they are.
AddressesKept ==
    /\ AddressTable(cDb)
    /\ ~raced =>
         /\ OwnAlias(cDb)
         /\ \A r \in Requests : Writes(r) => /\ cReq[r].db.users = cDb.users
                                             /\ cReq[r].db.handle = cDb.handle
                                             /\ cReq[r].db.alias = cDb.alias
         /\ \A r, q \in Requests : Writes(r) /\ Writes(q) => r = q


\* Whom an address leads to, by tables d: resolve_handle.
HolderIn(d, h) ==
    LET holders == {u \in d.users : d.handle[u] = h} IN
    IF holders # {} THEN CHOOSE u \in holders : TRUE
    ELSE IF d.alias[h] \in Creators \ d.users THEN Gone ELSE d.alias[h]

\* Addresses, aliases and users as they were.
Stays(d, e) == e.users = d.users /\ e.left = d.left /\ e.handle = d.handle /\ e.alias = d.alias

\* Account u takes address h; sure says that nothing overlaps.
Takes(d, e, sure, u, h) ==
    /\ u \in Creators \ d.left /\ h \in Handles /\ ~Channels!TakenNow(d, h, u)
    /\ e.users = d.users \cup {u} /\ e.left = d.left /\ e.alias = d.alias
    /\ e.handle = [d.handle EXCEPT ![u] = h]
    /\ sure => d.handle[u] = NoRow /\ d.alias[h] = NoRow

\* User u leaves address old for address new.
Renames(d, e, sure, u, old, new) ==
    /\ u \in d.users /\ old \in Handles /\ new \in Handles /\ new # old
    /\ ~Channels!TakenNow(d, new, u) /\ d.alias[old] = NoRow
    /\ e.users = d.users /\ e.left = d.left
    /\ e.handle = [d.handle EXCEPT ![u] = new] /\ e.alias = [d.alias EXCEPT ![old] = u]
    /\ sure => /\ d.handle[u] \in {old, NoRow} /\ ~Channels!TakenNow(d, old, u)
               /\ d.alias[new] \in {NoRow, u}

\* User u is deleted, with address h; reserved says that the address had no alias.
Leaves(d, e, sure, u, h, reserved) ==
    /\ u \in d.users /\ h \in Handles \cup {NoRow} /\ reserved \in BOOLEAN
    /\ reserved => h # NoRow /\ d.alias[h] = NoRow
    /\ e.users = d.users \ {u} /\ e.left = d.left \cup {u}
    /\ e.handle = [d.handle EXCEPT ![u] = NoRow]
    /\ e.alias = IF reserved THEN [d.alias EXCEPT ![h] = Gone] ELSE d.alias
    /\ sure => h = d.handle[u] /\ (reserved <=> h # NoRow /\ d.alias[h] = NoRow)

\* What one step does to the addresses.
AddressStep(d, e, sure) ==
    \/ Stays(d, e)
    \/ \E u \in Creators, h \in Handles : Takes(d, e, sure, u, h)
    \/ \E u \in Creators, old \in Handles, new \in Handles : Renames(d, e, sure, u, old, new)
    \/ \E u \in Creators, h \in Handles \cup {NoRow}, reserved \in BOOLEAN :
          Leaves(d, e, sure, u, h, reserved)

\* Where an address leads: to the user that has it, and else where its alias says.
LEMMA HolderIs ==
  ASSUME NEW d, AddressTable(d), NEW h \in Handles
  PROVE  /\ \A u \in d.users : d.handle[u] = h => HolderIn(d, h) = u
         /\ (\A u \in d.users : d.handle[u] # h) =>
               HolderIn(d, h) = IF d.alias[h] \in Creators \ d.users THEN Gone ELSE d.alias[h]
<1> DEFINE holders == {u \in d.users : d.handle[u] = h}
<1>1. ASSUME NEW u \in d.users, d.handle[u] = h PROVE HolderIn(d, h) = u
  <2>1. \A v \in d.users : d.handle[v] = h => v = u
    BY <1>1, ChannelAssumption DEF AddressTable
  <2>2. holders = {u}
    BY <1>1, <2>1
  <2>3. HolderIn(d, h) = CHOOSE v \in holders : TRUE
    BY <2>2 DEF HolderIn
  <2> QED BY <2>2, <2>3
<1>2. ASSUME \A u \in d.users : d.handle[u] # h
      PROVE  HolderIn(d, h) = IF d.alias[h] \in Creators \ d.users THEN Gone ELSE d.alias[h]
  BY <1>2 DEF HolderIn
<1> QED BY <1>1, <1>2

\* Every step keeps the keys of the tables.
LEMMA AddressTableNext ==
  ASSUME NEW d, NEW e, NEW sure, ChannelTables(d), AddressTable(d), AddressStep(d, e, sure)
  PROVE  AddressTable(e)
<1>0. /\ d.handle \in [Creators -> Handles \cup {NoRow}] /\ d.users \subseteq Creators
      /\ d.alias \in [Handles -> Creators \cup {NoRow, Gone}] /\ d.left \subseteq Creators
      /\ NoRow \notin Handles /\ Gone \notin Creators
  BY ChannelAssumption DEF ChannelTables
<1>1. CASE Stays(d, e)
  BY <1>1 DEF Stays, AddressTable
<1>2. ASSUME NEW u \in Creators, NEW h \in Handles, Takes(d, e, sure, u, h)
      PROVE  AddressTable(e)
  BY <1>0, <1>2 DEF Takes, AddressTable, Channels!TakenNow
<1>3. ASSUME NEW u \in Creators, NEW old \in Handles, NEW new \in Handles,
             Renames(d, e, sure, u, old, new)
      PROVE  AddressTable(e)
  BY <1>0, <1>3 DEF Renames, AddressTable, Channels!TakenNow
<1>4. ASSUME NEW u \in Creators, NEW h \in Handles \cup {NoRow}, NEW reserved \in BOOLEAN,
             Leaves(d, e, sure, u, h, reserved)
      PROVE  AddressTable(e)
  BY <1>0, <1>4 DEF Leaves, AddressTable
<1> QED BY <1>1, <1>2, <1>3, <1>4 DEF AddressStep

\* When nothing overlaps, users' addresses remain their own.
LEMMA OwnAliasNext ==
  ASSUME NEW d, NEW e, ChannelTables(d), AddressTable(d), OwnAlias(d), AddressStep(d, e, TRUE)
  PROVE  OwnAlias(e)
<1>0. /\ d.handle \in [Creators -> Handles \cup {NoRow}] /\ d.users \subseteq Creators
      /\ d.alias \in [Handles -> Creators \cup {NoRow, Gone}] /\ d.left \subseteq Creators
      /\ NoRow \notin Handles /\ Gone \notin Creators
  BY ChannelAssumption DEF ChannelTables
<1>1. CASE Stays(d, e)
  BY <1>1 DEF Stays, OwnAlias
<1>2. ASSUME NEW u \in Creators, NEW h \in Handles, Takes(d, e, TRUE, u, h)
      PROVE  OwnAlias(e)
  BY <1>0, <1>2 DEF Takes, AddressTable, OwnAlias, Channels!TakenNow
<1>3. ASSUME NEW u \in Creators, NEW old \in Handles, NEW new \in Handles,
             Renames(d, e, TRUE, u, old, new)
      PROVE  OwnAlias(e)
  BY <1>0, <1>3 DEF Renames, AddressTable, OwnAlias, Channels!TakenNow
<1>4. ASSUME NEW u \in Creators, NEW h \in Handles \cup {NoRow}, NEW reserved \in BOOLEAN,
             Leaves(d, e, TRUE, u, h, reserved)
      PROVE  OwnAlias(e)
  BY <1>0, <1>4 DEF Leaves, AddressTable, OwnAlias
<1> QED BY <1>1, <1>2, <1>3, <1>4 DEF AddressStep

\* When nothing overlaps, an address goes on leading to whom it led.
LEMMA HolderLasts ==
  ASSUME NEW d, NEW e, ChannelTables(d), AddressTable(d), OwnAlias(d), AddressStep(d, e, TRUE),
         NEW h \in Handles, HolderIn(d, h) # NoRow
  PROVE  HolderIn(e, h) \in {HolderIn(d, h), Gone}
<1>0. /\ d.handle \in [Creators -> Handles \cup {NoRow}] /\ d.users \subseteq Creators
      /\ d.alias \in [Handles -> Creators \cup {NoRow, Gone}] /\ d.left \subseteq Creators
      /\ NoRow \notin Handles /\ Gone \notin Creators /\ NoRow \notin Creators
  BY ChannelAssumption DEF ChannelTables
<1>1. AddressTable(e)
  BY AddressTableNext
<1>2. /\ \A u \in d.users : d.handle[u] = h => HolderIn(d, h) = u
      /\ (\A u \in d.users : d.handle[u] # h) =>
            HolderIn(d, h) = IF d.alias[h] \in Creators \ d.users THEN Gone ELSE d.alias[h]
  BY HolderIs
<1>3. /\ \A u \in e.users : e.handle[u] = h => HolderIn(e, h) = u
      /\ (\A u \in e.users : e.handle[u] # h) =>
            HolderIn(e, h) = IF e.alias[h] \in Creators \ e.users THEN Gone ELSE e.alias[h]
  BY <1>1, HolderIs
<1>4. CASE Stays(d, e)
  BY <1>2, <1>3, <1>4 DEF Stays
<1>5. ASSUME NEW u \in Creators, NEW g \in Handles, Takes(d, e, TRUE, u, g)
      PROVE  HolderIn(e, h) \in {HolderIn(d, h), Gone}
  <2>1. g # h
    <3> SUFFICES ASSUME g = h PROVE FALSE
      OBVIOUS
    <3>1. \A v \in d.users : d.handle[v] # h
      BY <1>0, <1>5 DEF Takes, Channels!TakenNow
    <3> QED BY <1>0, <1>2, <1>5, <3>1 DEF Takes
  <2>2. \A v \in e.users : e.handle[v] = h => v \in d.users /\ d.handle[v] = h
    BY <1>0, <1>5, <2>1 DEF Takes
  <2>3. \A v \in d.users : d.handle[v] = h => v \in e.users /\ e.handle[v] = h
    BY <1>0, <1>5, <2>1 DEF Takes
  <2>4. /\ e.alias[h] = d.alias[h]
        /\ d.alias[h] \in Creators \ d.users <=> e.alias[h] \in Creators \ e.users
    BY <1>5 DEF Takes, AddressTable
  <2> QED BY <1>2, <1>3, <2>2, <2>3, <2>4
<1>6. ASSUME NEW u \in Creators, NEW old \in Handles, NEW new \in Handles,
             Renames(d, e, TRUE, u, old, new)
      PROVE  HolderIn(e, h) \in {HolderIn(d, h), Gone}
  <2>0. /\ u \in d.users /\ e.users = d.users /\ e.handle[u] = new /\ new # old
        /\ e.alias[old] = u
        /\ \A v \in d.users \ {u} : e.handle[v] = d.handle[v]
        /\ \A g \in Handles \ {old} : e.alias[g] = d.alias[g]
        /\ d.alias[new] \in {NoRow, u} /\ d.handle[u] \in {old, NoRow} /\ d.alias[old] = NoRow
        /\ \A v \in d.users \ {u} : d.handle[v] # old /\ d.handle[v] # new
    BY <1>0, <1>6 DEF Renames, Channels!TakenNow
  <2>1. CASE h = new
    <3>1. HolderIn(d, h) = u
      <4>1. \A v \in d.users : d.handle[v] # h
        BY <1>0, <2>0, <2>1
      <4> QED BY <1>0, <1>2, <2>0, <2>1, <4>1
    <3> QED BY <1>3, <2>0, <2>1, <3>1
  <2>2. CASE h = old
    <3>1. HolderIn(d, h) = u
      <4>1. CASE d.handle[u] = old
        BY <1>2, <2>0, <2>2, <4>1
      <4>2. CASE d.handle[u] = NoRow
        <5>1. \A v \in d.users : d.handle[v] # h
          BY <1>0, <2>0, <2>2, <4>2
        <5> QED BY <1>0, <1>2, <2>0, <2>2, <5>1
      <4> QED BY <2>0, <4>1, <4>2
    <3>2. \A v \in e.users : e.handle[v] # h
      BY <2>0, <2>2
    <3> QED BY <1>3, <2>0, <2>2, <3>1, <3>2
  <2>3. CASE h # new /\ h # old
    <3>1. \A v \in d.users : d.handle[v] = h <=> e.handle[v] = h
      BY <1>0, <2>0, <2>3
    <3>2. e.alias[h] = d.alias[h]
      BY <2>0, <2>3
    <3> QED BY <1>2, <1>3, <2>0, <3>1, <3>2
  <2> QED BY <2>1, <2>2, <2>3
<1>7. ASSUME NEW u \in Creators, NEW g \in Handles \cup {NoRow}, NEW reserved \in BOOLEAN,
             Leaves(d, e, TRUE, u, g, reserved)
      PROVE  HolderIn(e, h) \in {HolderIn(d, h), Gone}
  <2>0. /\ u \in d.users /\ e.users = d.users \ {u} /\ g = d.handle[u]
        /\ \A v \in e.users : e.handle[v] = d.handle[v]
        /\ e.alias = IF reserved THEN [d.alias EXCEPT ![g] = Gone] ELSE d.alias
        /\ (reserved <=> g # NoRow /\ d.alias[g] = NoRow)
    BY <1>0, <1>7 DEF Leaves
  <2>1. CASE h = g
    <3>1. HolderIn(d, h) = u /\ \A v \in e.users : e.handle[v] # h
      BY <1>0, <1>2, <2>0, <2>1 DEF AddressTable
    <3>2. CASE reserved
      <4>1. e.alias[h] = Gone
        BY <1>0, <2>0, <2>1, <3>2
      <4> QED BY <1>0, <1>3, <3>1, <4>1
    <3>3. CASE ~reserved
      <4>1. e.alias[h] = u
        BY <1>0, <2>0, <2>1, <3>3 DEF OwnAlias
      <4> QED BY <1>0, <1>3, <2>0, <3>1, <4>1
    <3> QED BY <3>2, <3>3
  <2>2. CASE h # g
    <3>1. e.alias[h] = d.alias[h]
      BY <1>0, <2>0, <2>2
    <3>2. \A v \in d.users : d.handle[v] = h => v \in e.users /\ e.handle[v] = h
      BY <2>0, <2>2
    <3>3. CASE \E v \in d.users : d.handle[v] = h
      BY <1>2, <1>3, <3>2, <3>3
    <3>4. CASE \A v \in d.users : d.handle[v] # h
      <4>1. \A v \in e.users : e.handle[v] # h
        BY <2>0, <3>4
      <4>2. HolderIn(e, h) = IF d.alias[h] \in Creators \ e.users THEN Gone ELSE d.alias[h]
        BY <1>3, <3>1, <4>1
      <4> QED BY <1>2, <2>0, <3>4, <4>2
    <3> QED BY <3>3, <3>4
  <2> QED BY <2>1, <2>2
<1> QED BY <1>4, <1>5, <1>6, <1>7 DEF AddressStep

\* What a request that may write addresses has read of them is what they are.
LEMMA ReadAddresses ==
  ASSUME AddressesKept, ~raced, NEW r \in Requests, Writes(r)
  PROVE  /\ cReq[r].db.users = cDb.users /\ cReq[r].db.handle = cDb.handle
         /\ cReq[r].db.alias = cDb.alias
BY DEF AddressesKept

\* Registering takes an address.
LEMMA RegisterTakes ==
  ASSUME ChannelTyped, AddressesKept, NEW r \in Requests, Channels!Register(r),
         NEW sure \in BOOLEAN, sure => ~raced
  PROVE  AddressStep(cDb, cDb', sure)
<1> DEFINE u == cReq[r].op.by
           s == cReq[r].db
           h == Channels!Ensured(s, u)
<1>1. /\ cReq[r].op.kind = "register" /\ u \in Creators /\ h \in Handles
      /\ u \notin cDb.users \cup cDb.left /\ ChannelTables(s)
      /\ cDb'.users = cDb.users \cup {u} /\ cDb'.left = cDb.left /\ cDb'.alias = cDb.alias
      /\ cDb'.handle = [cDb.handle EXCEPT ![u] = h]
  BY RegisterEffect
<1>2. ~Channels!TakenNow(cDb, h, u)
  BY DEF Channels!Register, Channels!KeyHolds
<1>3. ASSUME sure PROVE cDb.handle[u] = NoRow /\ cDb.alias[h] = NoRow
  <2>1. Writes(r)
    BY <1>1, RunningChannel DEF Writes
  <2>2. s.handle = cDb.handle /\ s.alias = cDb.alias
    BY <1>3, <2>1, ReadAddresses
  <2>3. cDb.handle[u] = NoRow
    BY <1>1 DEF AddressesKept, AddressTable
  <2>4. ~Channels!Taken(s, h, NoRow)
    BY <1>1, <2>2, <2>3, OwnAddress, ChannelAssumption
  <2> QED BY <2>2, <2>3, <2>4 DEF Channels!Taken
<1> HIDE DEF u, h, s
<1>4. Takes(cDb, cDb', sure, u, h)
  BY <1>1, <1>2, <1>3 DEF Takes
<1> QED BY <1>1, <1>4 DEF AddressStep

\* Reading a channel takes an address, or none.
LEMMA OpenTakes ==
  ASSUME ChannelTyped, AddressesKept, NEW r \in Requests, Channels!Open(r),
         NEW sure \in BOOLEAN, sure => ~raced
  PROVE  AddressStep(cDb, cDb', sure)
<1> DEFINE u == cReq[r].op.by
           s == cReq[r].db
           h == Channels!Ensured(s, u)
<1>1. /\ cReq[r].op.kind = "open" /\ u \in Creators /\ h \in Handles
      /\ u \in cDb.users /\ ChannelTables(s)
      /\ cDb'.users = cDb.users /\ cDb'.left = cDb.left /\ cDb'.alias = cDb.alias
      /\ cDb'.handle = [cDb.handle EXCEPT ![u] = IF s.handle[u] = NoRow THEN h ELSE @]
  BY OpenEffect
<1>2. s.handle[u] # NoRow \/ ~Channels!TakenNow(cDb, h, u)
  BY DEF Channels!Open, Channels!KeyHolds
<1>3. ASSUME sure, s.handle[u] = NoRow PROVE cDb.handle[u] = NoRow /\ cDb.alias[h] = NoRow
  <2>1. Writes(r)
    BY <1>1, RunningChannel DEF Writes
  <2>2. s.handle = cDb.handle /\ s.alias = cDb.alias
    BY <1>3, <2>1, ReadAddresses
  <2>3. ~Channels!Taken(s, h, NoRow)
    BY <1>1, <1>3, OwnAddress, ChannelAssumption
  <2> QED BY <1>3, <2>2, <2>3 DEF Channels!Taken
<1>4. u \notin cDb.left
  BY <1>1 DEF AddressesKept, AddressTable
<1> HIDE DEF u, h, s
<1>5. CASE s.handle[u] = NoRow
  <2>1. Takes(cDb, cDb', sure, u, h)
    BY <1>1, <1>2, <1>3, <1>4, <1>5 DEF Takes
  <2> QED BY <1>1, <2>1 DEF AddressStep
<1>6. CASE s.handle[u] # NoRow
  <2>1. cDb'.handle = cDb.handle
    BY <1>1, <1>6 DEF ChannelTyped, ChannelTables
  <2> QED BY <1>1, <2>1 DEF Stays, AddressStep
<1> QED BY <1>5, <1>6

\* An update renames, takes an address or leaves addresses alone.
LEMMA UpdateRenames ==
  ASSUME ChannelTyped, AddressesKept, NEW r \in Requests, Channels!Update(r),
         NEW sure \in BOOLEAN, sure => ~raced
  PROVE  AddressStep(cDb, cDb', sure) /\ (~Writes(r) => Stays(cDb, cDb'))
<1> DEFINE u == cReq[r].op.by
           s == cReq[r].db
           old == Channels!Ensured(s, u)
           new == Renamed(r)
<1>1. /\ cReq[r].op.kind = "update" /\ u \in Creators /\ old \in Handles /\ new \in Handles
      /\ u \in cDb.users /\ ChannelTables(s)
      /\ new # old => Channels!Available(s, new, u) /\ cDb.alias[old] = NoRow
      /\ cDb'.users = cDb.users /\ cDb'.left = cDb.left
      /\ cDb'.handle = [cDb.handle EXCEPT ![u] = IF new = s.handle[u] THEN @ ELSE new]
      /\ cDb'.alias = IF new # old THEN [cDb.alias EXCEPT ![old] = u] ELSE cDb.alias
  BY UpdateEffect
<1>2. ~Channels!TakenNow(cDb, new, u)
  BY DEF Channels!Update, Channels!KeyHolds, Renamed
<1>3. /\ s.handle[u] # NoRow => old = s.handle[u]
      /\ s.handle[u] = NoRow => ~Channels!Taken(s, old, NoRow)
  BY <1>1, OwnAddress, ChannelAssumption
<1>4. cReq[r] # Channels!Idle /\ (cReq[r].op.to.handle = Same => new = old)
  BY <1>1, RunningChannel DEF Renamed
<1>5. Writes(r) \/ (s.handle[u] # NoRow /\ new = old)
  BY <1>1, <1>4 DEF Writes
<1>6. u \notin cDb.left /\ u # NoRow
  BY <1>1, ChannelAssumption DEF AddressesKept, AddressTable
<1>7. sure /\ Writes(r) =>
         s.users = cDb.users /\ s.handle = cDb.handle /\ s.alias = cDb.alias
  BY ReadAddresses
<1> HIDE DEF u, s, old, new
<1>8. CASE new # old
  <2>1. ASSUME sure
        PROVE  /\ cDb.handle[u] \in {old, NoRow} /\ ~Channels!TakenNow(cDb, old, u)
               /\ cDb.alias[new] \in {NoRow, u}
    <3>1. s.users = cDb.users /\ s.handle = cDb.handle /\ s.alias = cDb.alias
      BY <1>5, <1>7, <1>8, <2>1
    <3>2. cDb.alias[new] \in {NoRow, u}
      BY <1>1, <1>8, <3>1 DEF Channels!Available, Channels!Taken
    <3>3. cDb.handle[u] \in {old, NoRow}
      BY <1>3, <3>1
    <3>4. CASE cDb.handle[u] = old
      BY <1>1, <3>2, <3>4, ChannelAssumption
         DEF AddressesKept, AddressTable, Channels!TakenNow
    <3>5. CASE cDb.handle[u] = NoRow
      <4>1. \A v \in cDb.users \ {NoRow} : cDb.handle[v] # old
        BY <1>3, <3>1, <3>5 DEF Channels!Taken, Channels!TakenNow
      <4>2. NoRow \notin cDb.users
        BY ChannelAssumption DEF ChannelTyped, ChannelTables
      <4> QED BY <3>2, <3>3, <4>1, <4>2 DEF Channels!TakenNow
    <3> QED BY <3>2, <3>3, <3>4, <3>5
  <2>2. new # s.handle[u]
    BY <1>1, <1>3, <1>8, ChannelAssumption
  <2>3. Renames(cDb, cDb', sure, u, old, new)
    BY <1>1, <1>2, <1>8, <2>1, <2>2 DEF Renames
  <2> QED BY <1>1, <1>5, <1>8, <2>3 DEF AddressStep
<1>9. CASE new = old /\ new # s.handle[u]
  <2>1. s.handle[u] = NoRow
    BY <1>3, <1>9
  <2>2. Takes(cDb, cDb', sure, u, new)
    <3>1. ASSUME sure PROVE cDb.handle[u] = NoRow /\ cDb.alias[new] = NoRow
      <4>1. s.handle = cDb.handle /\ s.alias = cDb.alias
        BY <1>5, <1>7, <2>1, <3>1
      <4>2. s.alias[new] = NoRow
        BY <1>3, <1>9, <2>1 DEF Channels!Taken
      <4> QED BY <2>1, <4>1, <4>2
    <3> QED BY <1>1, <1>2, <1>6, <1>9, <3>1 DEF Takes
  <2> QED BY <1>1, <1>5, <2>1, <2>2 DEF AddressStep
<1>10. CASE new = old /\ new = s.handle[u]
  <2>1. cDb'.handle = cDb.handle
    BY <1>1, <1>10 DEF ChannelTyped, ChannelTables
  <2>2. Stays(cDb, cDb')
    BY <1>1, <1>10, <2>1 DEF Stays
  <2> QED BY <2>2 DEF AddressStep
<1> QED BY <1>8, <1>9, <1>10

\* Deleting an account leaves its address to nobody.
LEMMA DeleteLeaves ==
  ASSUME ChannelTyped, AddressesKept, NEW r \in Requests, Channels!Delete(r),
         NEW sure \in BOOLEAN, sure => ~raced
  PROVE  AddressStep(cDb, cDb', sure)
<1> DEFINE u == cReq[r].op.by
           s == cReq[r].db
           h == s.handle[u]
           reserved == h # NoRow /\ s.alias[h] = NoRow
<1>1. /\ cReq[r].op.kind = "delete" /\ u \in Creators /\ u \in cDb.users /\ ChannelTables(s)
      /\ reserved => cDb.alias[h] = NoRow
      /\ cDb'.users = cDb.users \ {u} /\ cDb'.left = cDb.left \cup {u}
      /\ cDb'.handle = [cDb.handle EXCEPT ![u] = NoRow]
      /\ cDb'.alias = IF reserved THEN [cDb.alias EXCEPT ![h] = Gone] ELSE cDb.alias
  BY DeleteEffect
<1>2. h \in Handles \cup {NoRow} /\ reserved \in BOOLEAN /\ (reserved => h # NoRow)
  BY <1>1 DEF ChannelTables
<1>3. Writes(r)
  BY <1>1, RunningChannel DEF Writes
<1>4. sure => h = cDb.handle[u] /\ (reserved <=> h # NoRow /\ cDb.alias[h] = NoRow)
  BY <1>3, ReadAddresses
<1> HIDE DEF reserved, h, u, s
<1>5. Leaves(cDb, cDb', sure, u, h, reserved)
  BY <1>1, <1>2, <1>4 DEF Leaves
<1> QED BY <1>1, <1>2, <1>5 DEF AddressStep

\* What a step does to the addresses.
LEMMA AddressSteps ==
  ASSUME ChannelTyped, AddressesKept, [Channels!Next]_Channels!vars,
         NEW sure \in BOOLEAN, sure => ~raced
  PROVE  AddressStep(cDb, cDb', sure)
<1>1. ASSUME NEW r \in Requests, NEW o \in Channels!Ops, Channels!Begin(r, o)
      PROVE  AddressStep(cDb, cDb', sure)
  BY <1>1, BeginEffect DEF AddressStep, Stays
<1>2. ASSUME NEW r \in Requests, Channels!Archive(r) PROVE AddressStep(cDb, cDb', sure)
  BY <1>2, ArchiveEffect DEF AddressStep, Stays
<1>3. ASSUME NEW t \in Topics, NEW on \in BOOLEAN, Channels!SetTopic(t, on)
      PROVE  AddressStep(cDb, cDb', sure)
  BY <1>3, SetTopicEffect DEF AddressStep, Stays
<1>4. CASE AsBefore(cDb, cDb')
  BY <1>4 DEF AddressStep, Stays, AsBefore
<1> QED BY <1>1, <1>2, <1>3, <1>4, ChannelSteps, RegisterTakes, OpenTakes, UpdateRenames,
           DeleteLeaves, Zenon

\* Nobody has an address at first.
LEMMA AddressesInit == Channels!Init => AddressesKept
<1> SUFFICES ASSUME Channels!Init PROVE AddressesKept
  OBVIOUS
<1>1. AddressTable(cDb) /\ OwnAlias(cDb)
  BY ChannelAssumption DEF Channels!Init, AddressTable, OwnAlias
<1>2. \A r \in Requests : ~Writes(r)
  BY DEF Channels!Init, Writes
<1> QED BY <1>1, <1>2 DEF AddressesKept

\* A request that begins to write addresses alone reads them as they are.
LEMMA AddressesBegin ==
  ASSUME ChannelTyped, AddressesKept, NEW r \in Requests, NEW o \in Channels!Ops,
         Channels!Begin(r, o)
  PROVE  AddressesKept'
<1>1. /\ cDb' = cDb /\ cReq[r] = Channels!Idle /\ cReq'[r] = [op |-> o, db |-> cDb]
      /\ \A q \in Requests : q # r => cReq'[q] = cReq[q]
      /\ (raced' <=> raced \/ (Channels!Addressing(o)
                       /\ \E q \in Requests : cReq[q] # Channels!Idle
                                              /\ Channels!Addressing(cReq[q].op)))
  BY BeginEffect
<1>2. AddressTable(cDb)
  BY DEF AddressesKept
<1> SUFFICES ASSUME ~raced' PROVE AddressesKept'
  BY <1>1, <1>2 DEF AddressesKept
<1>3. ~raced /\ (Channels!Addressing(o) =>
         \A q \in Requests : cReq[q] # Channels!Idle => ~Channels!Addressing(cReq[q].op))
  BY <1>1
<1>4. ASSUME NEW q \in Requests, Writes(q) PROVE Channels!Addressing(cReq[q].op)
  BY <1>3, <1>4, ReadAddresses DEF Writes, Channels!Addressing
<1>5. Writes(r)' => Channels!Addressing(o)
  BY <1>1 DEF Writes, Channels!Addressing
<1>6. \A q \in Requests : q # r => (Writes(q)' <=> Writes(q))
  BY <1>1 DEF Writes
<1>7. Writes(r)' => \A q \in Requests : q # r => ~Writes(q)'
  BY <1>3, <1>4, <1>5, <1>6 DEF Writes
<1>8. ASSUME NEW p \in Requests, NEW q \in Requests, Writes(p)', Writes(q)' PROVE p = q
  <2>1. CASE p = r \/ q = r
    BY <1>7, <1>8, <2>1
  <2>2. CASE p # r /\ q # r
    BY <1>3, <1>6, <1>8, <2>2 DEF AddressesKept
  <2> QED BY <2>1, <2>2
<1>9. ASSUME NEW q \in Requests, Writes(q)'
      PROVE  /\ cReq'[q].db.users = cDb'.users /\ cReq'[q].db.handle = cDb'.handle
             /\ cReq'[q].db.alias = cDb'.alias
  <2>1. CASE q = r
    BY <1>1, <2>1
  <2>2. CASE q # r
    BY <1>1, <1>3, <1>6, <1>9, <2>2, ReadAddresses
  <2> QED BY <2>1, <2>2
<1>10. OwnAlias(cDb)
  BY <1>3 DEF AddressesKept
<1> QED BY <1>1, <1>2, <1>8, <1>9, <1>10 DEF AddressesKept

\* What other requests have read of the addresses stays true when the one that may write them
\* is answered.
LEMMA AddressesAnswered ==
  ASSUME ChannelTyped, AddressesKept, NEW r \in Requests, Answered(r), ChannelTables(cDb'),
         [Channels!Next]_Channels!vars, ~Writes(r) => Stays(cDb, cDb')
  PROVE  AddressesKept'
<1>1. /\ cReq'[r] = Channels!Idle /\ raced' = raced
      /\ \A q \in Requests : cReq'[q] # Channels!Idle => q # r /\ cReq'[q] = cReq[q]
  BY AnsweredTyped DEF Answered
<1>2. AddressTable(cDb')
  <2>1. AddressStep(cDb, cDb', FALSE)
    BY AddressSteps
  <2> QED BY <2>1, AddressTableNext DEF AddressesKept, ChannelTyped
<1> SUFFICES ASSUME ~raced PROVE AddressesKept'
  BY <1>1, <1>2 DEF AddressesKept
<1>3. OwnAlias(cDb')
  <2>1. AddressStep(cDb, cDb', TRUE)
    BY AddressSteps
  <2> QED BY <2>1, OwnAliasNext DEF AddressesKept, ChannelTyped
<1>4. \A q \in Requests : Writes(q)' => q # r /\ Writes(q) /\ cReq'[q] = cReq[q]
  BY <1>1 DEF Writes
<1>5. \A p, q \in Requests : Writes(p)' /\ Writes(q)' => p = q
  BY <1>4 DEF AddressesKept
<1>6. ASSUME NEW q \in Requests, Writes(q)'
      PROVE  /\ cReq'[q].db.users = cDb'.users /\ cReq'[q].db.handle = cDb'.handle
             /\ cReq'[q].db.alias = cDb'.alias
  <2>1. ~Writes(r)
    BY <1>4, <1>6 DEF AddressesKept
  <2> QED BY <1>4, <1>6, <2>1, ReadAddresses DEF Stays
<1> QED BY <1>2, <1>3, <1>5, <1>6 DEF AddressesKept

\* Every step keeps what requests have read of the addresses.
LEMMA AddressesNext ==
  ChannelTyped /\ AddressesKept /\ [Channels!Next]_Channels!vars => AddressesKept'
<1> SUFFICES ASSUME ChannelTyped, AddressesKept, [Channels!Next]_Channels!vars
             PROVE  AddressesKept'
  OBVIOUS
<1>1. ASSUME NEW r \in Requests, Channels!Register(r) PROVE AddressesKept'
  <2>1. Writes(r)
    BY <1>1, RegisterEffect, RunningChannel DEF Writes
  <2> QED BY <1>1, <2>1, RegisterEffect, AddressesAnswered DEF Answered
<1>2. ASSUME NEW r \in Requests, Channels!Open(r) PROVE AddressesKept'
  <2>1. Writes(r)
    BY <1>2, OpenEffect, RunningChannel DEF Writes
  <2> QED BY <1>2, <2>1, OpenEffect, AddressesAnswered DEF Answered
<1>3. ASSUME NEW r \in Requests, Channels!Update(r) PROVE AddressesKept'
  <2>1. ~Writes(r) => Stays(cDb, cDb')
    BY <1>3, UpdateRenames
  <2> QED BY <1>3, <2>1, UpdateEffect, AddressesAnswered DEF Answered
<1>4. ASSUME NEW r \in Requests, Channels!Delete(r) PROVE AddressesKept'
  <2>1. Writes(r)
    BY <1>4, DeleteEffect, RunningChannel DEF Writes
  <2> QED BY <1>4, <2>1, DeleteEffect, AddressesAnswered DEF Answered
<1>5. ASSUME NEW r \in Requests, Channels!Archive(r) PROVE AddressesKept'
  BY <1>5, ArchiveEffect, AddressesAnswered DEF Stays
<1>6. ASSUME Stays(cDb, cDb'), UNCHANGED <<cReq, cBegun, raced, mixed>> PROVE AddressesKept'
  BY <1>6 DEF AddressesKept, Stays, AddressTable, OwnAlias, Writes
<1>7. ASSUME NEW t \in Topics, NEW on \in BOOLEAN, Channels!SetTopic(t, on)
      PROVE  AddressesKept'
  <2>1. Stays(cDb, cDb') /\ UNCHANGED <<cReq, raced>>
    BY <1>7, SetTopicEffect DEF Stays
  <2> QED BY <2>1 DEF AddressesKept, Stays, AddressTable, OwnAlias, Writes
<1>8. CASE /\ ChannelTables(cDb') /\ AsBefore(cDb, cDb')
           /\ (\E r \in Requests : Answered(r)) \/ UNCHANGED <<cReq, cBegun, raced, mixed>>
  <2>1. Stays(cDb, cDb')
    BY <1>8 DEF AsBefore, Stays
  <2>2. ASSUME NEW r \in Requests, Answered(r) PROVE AddressesKept'
    BY <1>8, <2>1, <2>2, AddressesAnswered
  <2> QED BY <1>6, <1>8, <2>1, <2>2
<1> QED BY <1>1, <1>2, <1>3, <1>4, <1>5, <1>7, <1>8, AddressesBegin, ChannelSteps, Zenon

\* The tables say whom an address leads to.
LEMMA HolderIsOfTables ==
  ASSUME NEW h
  PROVE  Channels!HolderOf(h) = HolderIn(cDb, h) /\ Channels!HolderOf(h)' = HolderIn(cDb', h)
BY DEF Channels!HolderOf, HolderIn

\* In one step an address goes on leading to whom it led.
LEMMA AddressLasts ==
  ASSUME ChannelTyped, AddressesKept, [Channels!Next]_Channels!vars, ~raced',
         NEW h \in Handles, Channels!HolderOf(h) # NoRow
  PROVE  Channels!HolderOf(h)' \in {Channels!HolderOf(h), Gone}
<1>1. ~raced
  <2>1. CASE UNCHANGED Channels!vars
    BY <2>1 DEF Channels!vars
  <2>2. CASE Channels!Next
    <3>1. ASSUME NEW r \in Requests, NEW o \in Channels!Ops, Channels!Begin(r, o) PROVE ~raced
      BY <3>1, BeginEffect
    <3>2. ASSUME NEW r \in Requests,
                 \/ Channels!Register(r) \/ Channels!Open(r) \/ Channels!Update(r)
                 \/ Channels!Delete(r) \/ Channels!Archive(r)
          PROVE  ~raced
      BY <3>2, RegisterEffect, OpenEffect, UpdateEffect, DeleteEffect, ArchiveEffect
         DEF Answered
    <3>3. ASSUME NEW t \in Topics, NEW on \in BOOLEAN, Channels!SetTopic(t, on) PROVE ~raced
      BY <3>3, SetTopicEffect
    <3>4. CASE (\E r \in Requests : Answered(r)) \/ UNCHANGED <<cReq, cBegun, raced, mixed>>
      BY <3>4 DEF Answered
    <3> QED BY <3>1, <3>2, <3>3, <3>4, ChannelSteps
  <2> QED BY <2>1, <2>2
<1>2. AddressStep(cDb, cDb', TRUE)
  BY <1>1, AddressSteps
<1>3. ChannelTables(cDb) /\ AddressTable(cDb) /\ OwnAlias(cDb)
  BY <1>1 DEF ChannelTyped, AddressesKept
<1>4. HolderIn(cDb, h) # NoRow => HolderIn(cDb', h) \in {HolderIn(cDb, h), Gone}
  BY <1>2, <1>3, HolderLasts
<1> QED BY <1>4, HolderIsOfTables

\* An address that has led to a creator leads to no other, however many times they rename and
\* after they leave.
THEOREM AddressesStay == Channels!Spec => Channels!AddressesLast
<1>1. ChannelTyped /\ AddressesKept /\ [Channels!Next]_Channels!vars =>
         [\A h \in Handles : ~raced' /\ Channels!HolderOf(h) # NoRow
             => Channels!HolderOf(h)' \in {Channels!HolderOf(h), Gone}]_Channels!vars
  BY AddressLasts
<1> QED BY <1>1, ChannelTypedInit, ChannelTypedNext, AddressesInit, AddressesNext, PTL
        DEF Channels!Spec, Channels!AddressesLast

\* The part of the platform that is Channels behaves as the component does.
LEMMA ChannelsBehave == Spec => Channels!Spec
<1>1. Init => Channels!Init
  BY DEF Init
<1>2. [Next]_vars => [Channels!Next]_Channels!vars
  BY PartsNext DEF channelVars, Channels!vars
<1> QED BY <1>1, <1>2, PTL DEF Spec, Channels!Spec

\* No creator keeps an archived topic.
THEOREM ArchivedTopicsAreUnused == Spec => []ArchivedIsUnused
BY ChannelsBehave, ArchivedAreUnused, PTL DEF ArchivedIsUnused

\* An address that has led to a creator leads to no other.
THEOREM AddressesAreKept == Spec => AddressesLast
BY ChannelsBehave, AddressesStay, PTL DEF AddressesLast
-----------------------------------------------------------------------------
(***************************************************************************)
(* CreatorChannels: types.                                                 *)
(***************************************************************************)

\* The pins of a creator: works of theirs, each once.
PinRow(u) == [list : Channels!Pinned(u), rev : Nat]

\* What ChannelTables leaves open.
ChannelRest(d) ==
    /\ d.cooling \subseteq Creators /\ d.public \subseteq Works
    /\ d.pins \in [Creators -> UNION {PinRow(u) : u \in Creators}]
    /\ \A u \in Creators : d.pins[u] \in PinRow(u) /\ d.topics[u].list \in Channels!Chosen

\* A choice is a list without repetition that is not too long.
LEMMA ChosenAreShort ==
  Channels!Chosen = {list \in TopicLists : Len(list) <= MaxTopics}
<1>1. ASSUME NEW list \in Channels!Chosen PROVE Len(list) <= MaxTopics
  <2>1. PICK n \in 0..MaxTopics : list \in [1..n -> Topics]
    BY DEF Channels!Chosen
  <2>2. n \in Nat /\ n <= MaxTopics
    BY ChannelAssumption
  <2> QED BY <2>1, <2>2
<1>2. ASSUME NEW list \in TopicLists, Len(list) <= MaxTopics PROVE list \in Channels!Chosen
  <2>1. list \in Seq(Topics) /\ Len(list) \in Nat /\ Channels!IsInjective(list)
    BY DEF TopicLists
  <2>2. Len(list) \in 0..MaxTopics /\ list \in [1..Len(list) -> Topics]
    BY <1>2, <2>1, ChannelAssumption
  <2> QED BY <2>1, <2>2 DEF Channels!Chosen
<1> QED BY <1>1, <1>2, ChosenLists

\* Archiving makes no choice longer.
LEMMA ReassignedIsChosen ==
  ASSUME NEW list \in Channels!Chosen, NEW t \in Channels!Range(list),
         NEW way \in {"none", "remove"} \cup Topics, way # t
  PROVE  Channels!Reassigned(list, t, way) \in Channels!Chosen
<1> DEFINE new == Channels!Reassigned(list, t, way)
<1>1. list \in TopicLists /\ list \in Seq(Topics) /\ Len(list) \in Nat /\ Len(list) <= MaxTopics
  BY ChosenAreShort DEF TopicLists
<1>2. new \in TopicLists
  BY <1>1, ReassignedList
<1>3. CASE way \in Topics \ Channels!Range(list)
  <2>1. new = [n \in DOMAIN list |-> IF list[n] = t THEN way ELSE list[n]]
    BY <1>3 DEF Channels!Reassigned
  <2> HIDE DEF new
  <2>2. new \in Seq(Topics) /\ DOMAIN new = 1..Len(list)
    BY <1>1, <1>2, <2>1 DEF TopicLists
  <2>3. Len(new) = Len(list)
    BY <1>1, <2>2
  <2> QED BY <1>1, <1>2, <2>3, ChosenAreShort DEF new
<1>4. CASE way \notin Topics \ Channels!Range(list)
  <2> DEFINE at == CHOOSE n \in DOMAIN list : list[n] = t
  <2>1. new = Channels!RemoveAt(list, at)
    BY <1>4 DEF Channels!Reassigned
  <2>2. at \in DOMAIN list
    BY DEF Channels!Range
  <2> HIDE DEF at, new
  <2>3. Len(new) = Len(list) - 1
    BY <1>1, <2>1, <2>2, WithoutOne
  <2>4. Len(new) <= MaxTopics
    BY <1>1, <2>3, ChannelAssumption
  <2> QED BY <1>2, <2>4, ChosenAreShort DEF new
<1> QED BY <1>3, <1>4

\* Nothing is pinned.
LEMMA NothingPinned ==
  ASSUME NEW u \in Creators
  PROVE  <<>> \in Channels!Pinned(u) /\ <<>> \in Channels!Chosen
<1>1. Channels!Cardinality(Works) \in Nat
  BY ChannelAssumption, FS_CardinalityType DEF Channels!Cardinality, Cardinality
<1>2. \A S : <<>> \in [1..0 -> S]
  OBVIOUS
<1>3. Channels!IsInjective(<<>>)
  BY DEF Channels!IsInjective
<1>4. <<>> \in Channels!Pinned(u)
  BY <1>1, <1>2, <1>3 DEF Channels!Pinned
<1>5. Len(<<>>) = 0
  OBVIOUS
<1> QED BY <1>4, <1>5, EmptyList, ChosenAreShort, ChannelAssumption

\* The first rows that stay are pins of the creator.
LEMMA FirstPinsStay ==
  ASSUME NEW u \in Creators, NEW list \in Channels!Pinned(u), NEW stay, stay \subseteq DOMAIN list,
         ~Channels!Moves(stay)
  PROVE  SubSeq(list, 1, Channels!Cardinality(stay)) \in Channels!Pinned(u)
<1> DEFINE own == {v \in Works : Author[v] = u}
           k == Channels!Cardinality(stay)
           new == SubSeq(list, 1, k)
<1>1. PICK n \in 0..Channels!Cardinality(Works) : list \in [1..n -> own]
  BY DEF Channels!Pinned
<1>2. Channels!Cardinality(Works) \in Nat
  BY ChannelAssumption, FS_CardinalityType DEF Channels!Cardinality, Cardinality
<1>3. n \in Nat /\ n <= Channels!Cardinality(Works) /\ DOMAIN list = 1..n
  BY <1>1, <1>2
<1>4. \A i, j \in DOMAIN list : list[i] = list[j] => i = j
  BY DEF Channels!Pinned, Channels!IsInjective
<1>5. k \in Nat
  <2>1. IsFiniteSet(1..n)
    BY <1>3, FS_Interval
  <2>2. IsFiniteSet(stay)
    BY <1>3, <2>1, FS_Subset
  <2> QED BY <2>2, FS_CardinalityType DEF Channels!Cardinality, Cardinality
<1>6. stay = 1..k
  BY DEF Channels!Moves
<1> HIDE DEF k
<1>7. k <= n
  <2>1. k # 0 => k \in 1..k
    BY <1>5
  <2>2. k # 0 => k \in 1..n
    BY <1>3, <1>6, <2>1
  <2> QED BY <1>3, <1>5, <2>2
<1> HIDE DEF own
<1>8. list \in Seq(own) /\ Len(list) = n
  BY <1>1, <1>3
<1>9. new \in Seq(own) /\ Len(new) = k /\ \A i \in 1..k : new[i] = list[i]
  BY <1>5, <1>7, <1>8, <1>3, SubSeqProperties
<1> HIDE DEF new
<1>10. new \in [1..k -> own] /\ k \in 0..Channels!Cardinality(Works)
  BY <1>2, <1>3, <1>5, <1>7, <1>9
<1>11. Channels!IsInjective(new)
  BY <1>3, <1>4, <1>5, <1>7, <1>9 DEF Channels!IsInjective
<1> QED BY <1>10, <1>11 DEF Channels!Pinned, new, own, k

\* The pins after a clean-up.
LEMMA KeptPins ==
  ASSUME ChannelRest(cDb), NEW u \in Creators, NEW old, NEW stay, stay \subseteq DOMAIN old.list,
         ~Channels!Moves(stay)
  PROVE  Channels!Pins(stay, u, old) \in PinRow(u)
<1>1. cDb.pins[u] \in PinRow(u)
  BY DEF ChannelRest
<1>2. CASE old = cDb.pins[u]
  <2>1. SubSeq(old.list, 1, Channels!Cardinality(stay)) \in Channels!Pinned(u)
    BY <1>1, <1>2, FirstPinsStay DEF PinRow
  <2> DEFINE new == SubSeq(old.list, 1, Channels!Cardinality(stay))
  <2>2. Channels!Pins(stay, u, old) = [old EXCEPT !.list = new]
    BY <1>2 DEF Channels!Pins
  <2> HIDE DEF new
  <2>3. [old EXCEPT !.list = new] \in PinRow(u)
    BY <1>1, <1>2, <2>1 DEF PinRow, new
  <2> QED BY <2>2, <2>3
<1>3. CASE old # cDb.pins[u]
  BY <1>1, <1>3 DEF Channels!Pins
<1> QED BY <1>2, <1>3

\* The pins of one creator are written.
LEMMA PinsWritten ==
  ASSUME NEW d, ChannelRest(d), NEW u \in Creators, NEW pins \in PinRow(u),
         NEW new, new = [d.pins EXCEPT ![u] = pins]
  PROVE  /\ new \in [Creators -> UNION {PinRow(v) : v \in Creators}]
         /\ \A v \in Creators : new[v] \in PinRow(v)
<1>1. d.pins \in [Creators -> UNION {PinRow(v) : v \in Creators}]
      /\ \A v \in Creators : d.pins[v] \in PinRow(v)
  BY DEF ChannelRest
<1>2. pins \in UNION {PinRow(v) : v \in Creators}
  OBVIOUS
<1> HIDE DEF PinRow
<1> QED BY <1>1, <1>2

\* What an update asks for.
LEMMA UpdateOps ==
  ASSUME NEW o \in Channels!Ops, o.kind = "update"
  PROVE  /\ o.by \in Creators /\ o.to.pins \in Channels!Pinned(o.by) \cup {Same}
         /\ o.to.topics \in Channels!Chosen \cup {Same}
<1>1. o \in Channels!Updates
  BY DEF Channels!Ops
<1>2. PICK u \in Creators : o \in [kind : {"update"}, by : {u}, to : Channels!Fields(u)]
  BY <1>1 DEF Channels!Updates
<1> QED BY <1>2 DEF Channels!Fields

\* What a takedown asks for.
LEMMA TakedownOps ==
  ASSUME NEW o \in Channels!Ops, o.kind = "takedown"
  PROVE  o.work \in Works
<1>1. o \notin Channels!Updates
  BY DEF Channels!Updates
<1> QED BY <1>1 DEF Channels!Ops

LEMMA RestInit == Channels!Init => ChannelRest(cDb)
<1> SUFFICES ASSUME Channels!Init PROVE ChannelRest(cDb)
  OBVIOUS
<1>1. /\ cDb.cooling = {} /\ cDb.public = {}
      /\ cDb.pins = [u \in Creators |-> [list |-> <<>>, rev |-> 0]]
      /\ cDb.topics = [u \in Creators |-> [list |-> <<>>, rev |-> 0]]
  BY DEF Channels!Init
<1>2. \A u \in Creators : [list |-> <<>>, rev |-> 0] \in PinRow(u)
  BY NothingPinned DEF PinRow
<1>3. \A u \in Creators : cDb.pins[u] \in PinRow(u)
  BY <1>1, <1>2
<1>4. cDb.pins \in [Creators -> UNION {PinRow(u) : u \in Creators}]
  <2> HIDE DEF PinRow
  <2> QED BY <1>1, <1>2
<1> QED BY <1>1, <1>3, <1>4, NothingPinned DEF ChannelRest

\* The fields of the tables that a step does not name.
LEMMA RestOfOpen ==
  ASSUME ChannelTyped, ChannelRest(cDb), NEW r \in Requests, Channels!Open(r)
  PROVE  ChannelRest(cDb')
<1> DEFINE u == cReq[r].op.by
           s == cReq[r].db
           h == Channels!Ensured(s, u)
           stay == Channels!Visible(s, s.pins[u].list)
           pins == Channels!Pins(stay, u, s.pins[u])
<1>1. u \in Creators /\ ChannelTables(cDb)
  BY OpenEffect DEF ChannelTyped
<1>2. ~Channels!Moves(stay) /\ stay \subseteq DOMAIN s.pins[u].list
  BY DEF Channels!Open, Channels!Visible
<1>3. cDb' = [cDb EXCEPT !.handle[u] = IF s.handle[u] = NoRow THEN h ELSE @, !.pins[u] = pins]
  BY DEF Channels!Open, Channels!Commit
<1>4. pins \in PinRow(u)
  <2> HIDE DEF u, stay
  <2> QED BY <1>1, <1>2, KeptPins
<1> HIDE DEF h, pins, u, s, stay
<1>5. /\ cDb'.cooling = cDb.cooling /\ cDb'.public = cDb.public /\ cDb'.topics = cDb.topics
      /\ cDb'.pins = [cDb.pins EXCEPT ![u] = pins]
  BY <1>1, <1>3 DEF ChannelTables
<1> HIDE DEF PinRow
<1> QED BY <1>1, <1>4, <1>5, PinsWritten DEF ChannelRest

LEMMA RestOfUpdate ==
  ASSUME ChannelTyped, ChannelRest(cDb), NEW r \in Requests, Channels!Update(r)
  PROVE  ChannelRest(cDb')
<1> DEFINE u == cReq[r].op.by
           to == cReq[r].op.to
           s == cReq[r].db
           old == Channels!Ensured(s, u)
           new == Renamed(r)
           stay == Channels!Visible(s, s.pins[u].list)
           alias == IF new # old THEN Channels!AddedAlias(cDb, old, u) ELSE cDb.alias
           choice == IF to.topics = Same THEN cDb.topics[u]
                     ELSE [list |-> to.topics, rev |-> cBegun]
           pins == IF to.pins = Same THEN Channels!Pins(stay, u, s.pins[u])
                   ELSE [list |-> to.pins, rev |-> cBegun]
           cooling == IF new # old THEN cDb.cooling \cup {u} ELSE cDb.cooling
<1>1. /\ u \in Creators /\ ChannelTables(cDb) /\ cBegun \in Nat
      /\ to.pins \in Channels!Pinned(u) \cup {Same} /\ to.topics \in Channels!Chosen \cup {Same}
  <2>1. cReq[r].op \in Channels!Ops /\ cReq[r].op.kind = "update" /\ u \in Creators
    BY UpdateEffect
  <2>2. ChannelTables(cDb) /\ cBegun \in Nat
    BY ChannelAssumption DEF ChannelTyped
  <2> QED BY <2>1, <2>2, UpdateOps
<1>2. ~Channels!Moves(stay) /\ stay \subseteq DOMAIN s.pins[u].list
  BY DEF Channels!Update, Channels!Visible
<1>3. cDb' = [cDb EXCEPT !.handle[u] = IF new = s.handle[u] THEN @ ELSE new, !.alias = alias,
                         !.cooling = cooling,
                         !.topics[u] = IF to.topics = Same THEN @
                                       ELSE [list |-> to.topics, rev |-> cBegun],
                         !.pins[u] = pins]
  BY DEF Channels!Update, Channels!Commit, Renamed
<1>4. pins \in PinRow(u)
  <2>1. Channels!Pins(stay, u, s.pins[u]) \in PinRow(u)
    <3> HIDE DEF u, stay
    <3> QED BY <1>1, <1>2, KeptPins
  <2> QED BY <1>1, <2>1 DEF PinRow
<1>5. choice.list \in Channels!Chosen
  BY <1>1 DEF ChannelRest
<1>6. cooling \subseteq Creators
  BY <1>1 DEF ChannelRest
<1> HIDE DEF pins, cooling, alias, new, old, u, s, to, stay
<1>7. cDb'.cooling = cooling /\ cDb'.public = cDb.public
  BY <1>1, <1>3 DEF ChannelTables
<1>8. cDb'.pins = [cDb.pins EXCEPT ![u] = pins]
  BY <1>1, <1>3 DEF ChannelTables
<1>9. cDb'.topics = [cDb.topics EXCEPT ![u] = choice]
  BY <1>1, <1>3 DEF ChannelTables
<1> HIDE DEF choice, PinRow
<1>10. \A v \in Creators : cDb'.topics[v].list \in Channels!Chosen
  BY <1>1, <1>5, <1>9 DEF ChannelTables, ChannelRest
<1> QED BY <1>1, <1>4, <1>6, <1>7, <1>8, <1>10, PinsWritten DEF ChannelRest

LEMMA RestOfDelete ==
  ASSUME ChannelTyped, ChannelRest(cDb), NEW r \in Requests, Channels!Delete(r)
  PROVE  ChannelRest(cDb')
<1> DEFINE u == cReq[r].op.by
           h == cReq[r].db.handle[u]
           reserved == h # NoRow /\ cReq[r].db.alias[h] = NoRow
           alias == IF reserved THEN [cDb.alias EXCEPT ![h] = Gone] ELSE cDb.alias
           public == {w \in cDb.public : Author[w] # u}
           none == [list |-> <<>>, rev |-> cBegun]
<1>1. u \in Creators /\ ChannelTables(cDb) /\ cBegun \in Nat
  <2>1. u \in Creators
    BY DeleteEffect
  <2> QED BY <2>1, ChannelAssumption DEF ChannelTyped
<1>2. none \in PinRow(u) /\ none.list \in Channels!Chosen
  BY <1>1, NothingPinned DEF PinRow
<1> HIDE DEF public, none, reserved, alias, u, h
<1>3. cDb' = [cDb EXCEPT !.users = @ \ {u}, !.left = @ \cup {u}, !.handle[u] = NoRow,
                         !.cooling = @ \ {u}, !.alias = alias, !.public = public,
                         !.pins[u] = none, !.topics[u] = none]
  BY DEF Channels!Delete, Channels!Commit, alias, public, reserved, none, u, h
<1>4. /\ cDb'.cooling = cDb.cooling \ {u} /\ cDb'.public = public
      /\ cDb'.pins = [cDb.pins EXCEPT ![u] = none]
      /\ cDb'.topics = [cDb.topics EXCEPT ![u] = none]
  BY <1>1, <1>3 DEF ChannelTables
<1>5. public \subseteq Works
  BY DEF public, ChannelRest
<1> HIDE DEF PinRow
<1>6. \A v \in Creators : cDb'.topics[v].list \in Channels!Chosen
  BY <1>1, <1>2, <1>4 DEF ChannelTables, ChannelRest
<1>7. /\ cDb'.pins \in [Creators -> UNION {PinRow(v) : v \in Creators}]
      /\ \A v \in Creators : cDb'.pins[v] \in PinRow(v)
  BY <1>1, <1>2, <1>4, PinsWritten
<1> QED BY <1>4, <1>5, <1>6, <1>7 DEF ChannelRest

LEMMA RestOfTakeDown ==
  ASSUME ChannelTyped, ChannelRest(cDb), NEW r \in Requests, Channels!TakeDown(r)
  PROVE  ChannelRest(cDb')
<1> DEFINE w == cReq[r].op.work
           u == Author[w]
           old == cReq[r].db.pins[u]
           stay == {n \in DOMAIN old.list : old.list[n] # w}
           pins == Channels!Pins(stay, u, old)
<1>1. ChannelTables(cDb) /\ cReq[r].op.kind = "takedown"
  BY DEF ChannelTyped, Channels!TakeDown
<1>2. w \in Works /\ u \in Creators
  BY <1>1, RunningChannel, TakedownOps, ChannelAssumption
<1>3. \/ cDb' = cDb
      \/ ~Channels!Moves(stay) /\ cDb' = [cDb EXCEPT !.public = @ \ {w}, !.pins[u] = pins]
  BY Zenon DEF Channels!TakeDown, Channels!Commit
<1>4. CASE cDb' = cDb
  BY <1>4
<1>5. CASE ~Channels!Moves(stay) /\ cDb' = [cDb EXCEPT !.public = @ \ {w}, !.pins[u] = pins]
  <2>1. stay \subseteq DOMAIN old.list
    OBVIOUS
  <2>2. pins \in PinRow(u)
    <3> HIDE DEF u, stay
    <3> QED BY <1>2, <1>5, <2>1, KeptPins
  <2> HIDE DEF pins, w, u, stay
  <2>3. /\ cDb'.cooling = cDb.cooling /\ cDb'.public = cDb.public \ {w}
        /\ cDb'.topics = cDb.topics /\ cDb'.pins = [cDb.pins EXCEPT ![u] = pins]
    BY <1>1, <1>5 DEF ChannelTables
  <2> HIDE DEF PinRow
  <2> QED BY <1>2, <2>2, <2>3, PinsWritten DEF ChannelRest
<1> QED BY <1>3, <1>4, <1>5

LEMMA RestOfArchive ==
  ASSUME ChannelTyped, ChannelRest(cDb), NEW r \in Requests, Channels!Archive(r)
  PROVE  ChannelRest(cDb')
<1> DEFINE t == cReq[r].op.topic
           way == cReq[r].op.way
           s == cReq[r].db
           old == s.topics
           users == {u \in Creators : t \in Channels!Range(old[u].list)}
           new(u) == Channels!Reassigned(old[u].list, t, way)
           topics == [u \in Creators |-> IF u \in users /\ old[u] = cDb.topics[u]
                                         THEN [list |-> new(u), rev |-> cBegun]
                                         ELSE cDb.topics[u]]
<1>1. /\ cReq[r].op.kind = "archive"
      /\ users # {} => way # "none" /\ (way \in Topics => way # t)
  BY DEF Channels!Archive
<1>2. /\ cReq[r].op \in Channels!Ops /\ t \in Topics /\ way \in {"none", "remove"} \cup Topics
      /\ ChannelTables(cDb)
  BY <1>1, RunningChannel, ChannelOps
<1>3. cDb' = [cDb EXCEPT !.topics = topics, !.topic[t] = "archived"]
  BY DEF Channels!Archive, Channels!Commit
<1>4. ASSUME NEW u \in users, old[u] = cDb.topics[u]
      PROVE  new(u) \in Channels!Chosen
  <2>1. old[u].list \in Channels!Chosen /\ t \in Channels!Range(old[u].list)
    BY <1>4 DEF ChannelRest
  <2>2. way # t
    BY <1>1, <1>2
  <2> HIDE DEF t, way, users, old
  <2> QED BY <1>2, <2>1, <2>2, ReassignedIsChosen DEF way
<1> HIDE DEF new, users, t, way, s, old
<1>5. \A u \in Creators : topics[u].list \in Channels!Chosen
  BY <1>4 DEF ChannelRest
<1> HIDE DEF topics
<1>6. /\ cDb'.cooling = cDb.cooling /\ cDb'.public = cDb.public
      /\ cDb'.topics = topics /\ cDb'.pins = cDb.pins
  BY <1>2, <1>3 DEF ChannelTables
<1> QED BY <1>5, <1>6 DEF ChannelRest

LEMMA RestStep ==
  ASSUME ChannelTyped, ChannelRest(cDb), [Channels!Next]_Channels!vars
  PROVE  ChannelRest(cDb')
<1>0. ChannelTables(cDb)
  BY DEF ChannelTyped
<1>1. ASSUME NEW r \in Requests, NEW o \in Channels!Ops, Channels!Begin(r, o) PROVE ChannelRest(cDb')
  BY <1>1 DEF Channels!Begin
<1>2. ASSUME NEW r \in Requests, Channels!Refuse(r) PROVE ChannelRest(cDb')
  BY <1>2 DEF Channels!Refuse, Channels!Commit
<1>3. ASSUME NEW r \in Requests, Channels!Register(r) PROVE ChannelRest(cDb')
  <2> DEFINE u == cReq[r].op.by
             h == Channels!Ensured(cReq[r].db, u)
  <2>1. cDb' = [cDb EXCEPT !.users = cDb.users \cup {u}, !.handle[u] = h]
    BY <1>3 DEF Channels!Register, Channels!Commit
  <2> HIDE DEF h, u
  <2>2. /\ cDb'.cooling = cDb.cooling /\ cDb'.public = cDb.public
        /\ cDb'.topics = cDb.topics /\ cDb'.pins = cDb.pins
    BY <1>0, <2>1 DEF ChannelTables
  <2> QED BY <2>2 DEF ChannelRest
<1>4. ASSUME NEW u \in Creators, Channels!Cooled(u) PROVE ChannelRest(cDb')
  <2>1. cDb' = [cDb EXCEPT !.cooling = @ \ {u}]
    BY <1>4 DEF Channels!Cooled
  <2>2. /\ cDb'.cooling = cDb.cooling \ {u} /\ cDb'.public = cDb.public
        /\ cDb'.topics = cDb.topics /\ cDb'.pins = cDb.pins
    BY <1>0, <2>1 DEF ChannelTables
  <2> QED BY <2>2 DEF ChannelRest
<1>5. ASSUME NEW w \in Works, Channels!Publish(w) PROVE ChannelRest(cDb')
  <2>1. cDb' = [cDb EXCEPT !.public = @ \cup {w}]
    BY <1>5 DEF Channels!Publish
  <2>2. /\ cDb'.cooling = cDb.cooling /\ cDb'.public = cDb.public \cup {w}
        /\ cDb'.topics = cDb.topics /\ cDb'.pins = cDb.pins
    BY <1>0, <2>1 DEF ChannelTables
  <2> QED BY <2>2 DEF ChannelRest
<1>6. ASSUME NEW t \in Topics, NEW on \in BOOLEAN, Channels!SetTopic(t, on) PROVE ChannelRest(cDb')
  <2> DEFINE state == IF on THEN "active" ELSE "disabled"
  <2>1. cDb' = [cDb EXCEPT !.topic[t] = state]
    BY <1>6 DEF Channels!SetTopic
  <2> HIDE DEF state
  <2>2. /\ cDb'.cooling = cDb.cooling /\ cDb'.public = cDb.public
        /\ cDb'.topics = cDb.topics /\ cDb'.pins = cDb.pins
    BY <1>0, <2>1 DEF ChannelTables
  <2> QED BY <2>2 DEF ChannelRest
<1>7. CASE UNCHANGED Channels!vars
  BY <1>7 DEF Channels!vars
<1>8. ASSUME NEW r \in Requests,
             \/ Channels!Open(r) \/ Channels!Update(r) \/ Channels!Delete(r)
             \/ Channels!TakeDown(r) \/ Channels!Archive(r)
      PROVE  ChannelRest(cDb')
  BY <1>8, RestOfOpen, RestOfUpdate, RestOfDelete, RestOfTakeDown, RestOfArchive
<1> QED BY <1>1, <1>2, <1>3, <1>4, <1>5, <1>6, <1>7, <1>8 DEF Channels!Next

\* The rows of the channels keep their types: whatever overlaps, pins are works of their
\* creator, each once, and nobody has more topics than allowed.
THEOREM ChannelTypes == Channels!Spec => []Channels!TypeOK
<1> DEFINE Inv_ == ChannelTyped /\ ChannelRest(cDb)
<1>1. Channels!Init => Inv_
  BY ChannelTypedInit, RestInit
<1>2. Inv_ /\ [Channels!Next]_Channels!vars => Inv_'
  BY ChannelTypedNext, RestStep
<1>3. Inv_ => Channels!TypeOK
  BY DEF ChannelTyped, ChannelTables, ChannelRest, PinRow, Channels!TypeOK
<1> HIDE DEF Inv_
<1> QED BY <1>1, <1>2, <1>3, PTL DEF Channels!Spec

-----------------------------------------------------------------------------
(***************************************************************************)
(* SocialSeed: the ceilings hold through every run.                        *)
(***************************************************************************)

\* How many of S are among X.
Among(S, X) == Cardinality(S \cap X)

\* A plan P does not go beyond a ceiling for X, whatever of X is in S already.
Fits(P, S, X, ceiling) == Among(P, X) # 0 => Among(P, X) + Among(S, X) <= ceiling

\* Numbers of calls.
LEMMA AmongType ==
  ASSUME NEW S, NEW X, IsFiniteSet(S)
  PROVE  IsFiniteSet(S \cap X) /\ Among(S, X) \in Nat
<1>1. IsFiniteSet(S \cap X)
  BY FS_Intersection
<1> QED BY <1>1, FS_CardinalityType DEF Among

\* Fewer have no more among them.
LEMMA FewerAmong ==
  ASSUME NEW S, NEW T, NEW X, IsFiniteSet(S), T \subseteq S
  PROVE  IsFiniteSet(T) /\ Among(T, X) <= Among(S, X)
<1>1. IsFiniteSet(T)
  BY FS_Subset
<1>2. IsFiniteSet(S \cap X)
  BY FS_Intersection
<1>3. T \cap X \subseteq S \cap X
  OBVIOUS
<1> QED BY <1>1, <1>2, <1>3, FS_Subset DEF Among

\* A call moves from the plan to what has happened, if it has any effect: what still is to
\* come fits, and what has happened is within the ceiling.
LEMMA CallFits ==
  ASSUME NEW P, NEW S, NEW T, NEW X, NEW ceiling \in Nat, NEW p \in P,
         IsFiniteSet(P), IsFiniteSet(S), T \subseteq S \cup {p},
         Fits(P, S, X, ceiling)
  PROVE  /\ Fits(P \ {p}, T, X, ceiling)
         /\ Among(S, X) <= ceiling => Among(T, X) <= ceiling
<1>1. IsFiniteSet(S \cup {p}) /\ IsFiniteSet(P \ {p})
  BY FS_AddElement, FS_RemoveElement
<1>2. Among(T, X) <= Among(S \cup {p}, X) /\ IsFiniteSet(T)
  BY <1>1, FewerAmong
<1>3. /\ Among(P, X) \in Nat /\ Among(S, X) \in Nat /\ Among(T, X) \in Nat
      /\ Among(S \cup {p}, X) \in Nat /\ Among(P \ {p}, X) \in Nat
      /\ IsFiniteSet(P \cap X) /\ IsFiniteSet(S \cap X)
  BY <1>1, <1>2, AmongType
<1>4. CASE p \in X
  <2>1. (S \cup {p}) \cap X = (S \cap X) \cup {p} /\ (P \ {p}) \cap X = (P \cap X) \ {p}
    BY <1>4
  <2>2. Among(S \cup {p}, X) <= Among(S, X) + 1
    <3>1. Cardinality((S \cap X) \cup {p}) =
             IF p \in S \cap X THEN Cardinality(S \cap X) ELSE Cardinality(S \cap X) + 1
      BY <1>3, FS_AddElement
    <3>2. /\ Among(S \cup {p}, X) = Cardinality((S \cap X) \cup {p})
          /\ Among(S, X) = Cardinality(S \cap X)
      BY <2>1 DEF Among
    <3> QED BY <3>1, <3>2, <1>3
  <2>3. Among(P \ {p}, X) = Among(P, X) - 1
    BY <2>1, <1>3, <1>4, FS_RemoveElement DEF Among
  <2>4. Among(P, X) + Among(S, X) <= ceiling
    BY <2>3, <1>3 DEF Fits
  <2> QED BY <2>2, <2>3, <2>4, <1>2, <1>3 DEF Fits
<1>5. CASE p \notin X
  <2>1. (S \cup {p}) \cap X = S \cap X /\ (P \ {p}) \cap X = P \cap X
    BY <1>5
  <2>2. Among(S \cup {p}, X) = Among(S, X) /\ Among(P \ {p}, X) = Among(P, X)
    BY <2>1 DEF Among
  <2> QED BY <2>2, <1>2, <1>3 DEF Fits
<1> QED BY <1>4, <1>5

\* What fits a ceiling fits it when less has happened.
LEMMA LessFits ==
  ASSUME NEW P, NEW S, NEW T, NEW X, NEW ceiling \in Nat,
         IsFiniteSet(P), IsFiniteSet(S), T \subseteq S
  PROVE  /\ Fits(P, S, X, ceiling) => Fits(P, T, X, ceiling)
         /\ Among(S, X) <= ceiling => Among(T, X) <= ceiling
<1>1. Among(T, X) <= Among(S, X) /\ IsFiniteSet(T)
  BY FewerAmong
<1>2. Among(P, X) \in Nat /\ Among(S, X) \in Nat /\ Among(T, X) \in Nat
  BY <1>1, AmongType
<1> QED BY <1>1, <1>2 DEF Fits

\* The calls of an account, and those on a video.
Actor(a_) == {p \in Seed!Pairs : p[2] = a_}
Target(v) == {p \in Seed!Pairs : p[1] = v}

LEMMA CountedAmong ==
  ASSUME NEW S, S \subseteq Seed!Pairs
  PROVE  /\ IsFiniteSet(S) /\ IsFiniteSet(Seed!Pairs)
         /\ Seed!Cardinality(S) = Among(S, Seed!Pairs)
         /\ \A i : Seed!By(S, i) = Among(S, Actor(i))
         /\ \A i : Seed!Of(S, i) = Among(S, Target(i))
<1>1. \A T : Seed!Cardinality(T) = Cardinality(T)
  BY DEF Seed!Cardinality, Cardinality
<1>2. IsFiniteSet(Seed!Pairs)
  BY SeedAssumption, FS_Product DEF Seed!Pairs
<1>3. S \cap Seed!Pairs = S
  OBVIOUS
<1>4. \A i : {p \in S : p[2] = i} = S \cap Actor(i)
  BY DEF Actor
<1>5. \A i : {p \in S : p[1] = i} = S \cap Target(i)
  BY DEF Target
<1> QED BY <1>1, <1>2, <1>3, <1>4, <1>5, FS_Subset DEF Seed!By, Seed!Of, Among

\* Plans in terms of Fits.
TotalFits(P, S) == P # {} => Seed!Cardinality(P) + Seed!Cardinality(S) <= DailyTotalMax
VideosFit(P, S) ==
    \A v \in Videos : Seed!Of(P, v) # 0 => Seed!Of(P, v) + Seed!Of(S, v) <= CommentsPerVideo
Below(S, ceiling) == \A i \in Accounts : Seed!By(S, i) <= ceiling
VideosBelow(S) == \A v \in Videos : Seed!Of(S, v) <= CommentsPerVideo

LEMMA PlansAreFits ==
  ASSUME NEW P, NEW S, P \subseteq Seed!Pairs, S \subseteq Seed!Pairs
  PROVE  /\ TotalFits(P, S) <=> Fits(P, S, Seed!Pairs, DailyTotalMax)
         /\ VideosFit(P, S) <=> \A v \in Videos : Fits(P, S, Target(v), CommentsPerVideo)
         /\ VideosBelow(S) <=> \A v \in Videos : Among(S, Target(v)) <= CommentsPerVideo
         /\ \A c : Seed!Within(P, S, c) <=> \A i \in Accounts : Fits(P, S, Actor(i), c)
         /\ \A c : Below(S, c) <=> \A i \in Accounts : Among(S, Actor(i)) <= c
<1>1. Among(P, Seed!Pairs) # 0 <=> P # {}
  <2>1. IsFiniteSet(P) /\ P \cap Seed!Pairs = P
    BY CountedAmong
  <2> QED BY <2>1, FS_EmptySet DEF Among
<1> QED BY <1>1, CountedAmong
        DEF TotalFits, VideosFit, VideosBelow, Below, Seed!Within, Fits

LEMMA Ceilings ==
  /\ DailyTotalMax \in Nat /\ CommentsPerVideo \in Nat /\ PerRun \in Nat
  /\ LikesPerDay \in Nat /\ LikesPerHour \in Nat
  /\ CommentsPerDay \in Nat /\ CommentsPerHour \in Nat /\ MaxHour \in Nat
  /\ MaxRuns \in Nat
BY SeedAssumption

\* A call of a plan is made, with an effect or without.
LEMMA CallKeepsPlan ==
  ASSUME NEW P, NEW S, NEW T, NEW p \in P,
         P \subseteq Seed!Pairs, S \subseteq Seed!Pairs, T \subseteq S \cup {p}
  PROVE  /\ TotalFits(P, S) =>
               /\ TotalFits(P \ {p}, T)
               /\ Seed!Cardinality(S) <= DailyTotalMax => Seed!Cardinality(T) <= DailyTotalMax
         /\ VideosFit(P, S) =>
               VideosFit(P \ {p}, T) /\ (VideosBelow(S) => VideosBelow(T))
         /\ \A c \in Nat : Seed!Within(P, S, c) =>
               Seed!Within(P \ {p}, T, c) /\ (Below(S, c) => Below(T, c))
<1>1. T \subseteq Seed!Pairs /\ P \ {p} \subseteq Seed!Pairs /\ IsFiniteSet(P) /\ IsFiniteSet(S)
  BY CountedAmong
<1>2. \A X : \A c \in Nat : Fits(P, S, X, c) =>
          /\ Fits(P \ {p}, T, X, c)
          /\ Among(S, X) <= c => Among(T, X) <= c
  BY <1>1, CallFits
<1> QED BY <1>1, <1>2, PlansAreFits, CountedAmong, Ceilings

\* Rows go, or an hour or a day begins.
LEMMA LessKeepsPlan ==
  ASSUME NEW P, NEW S, NEW T, P \subseteq Seed!Pairs, S \subseteq Seed!Pairs, T \subseteq S
  PROVE  /\ TotalFits(P, S) => TotalFits(P, T)
         /\ Seed!Cardinality(S) <= DailyTotalMax => Seed!Cardinality(T) <= DailyTotalMax
         /\ VideosFit(P, S) => VideosFit(P, T)
         /\ VideosBelow(S) => VideosBelow(T)
         /\ \A c \in Nat : Seed!Within(P, S, c) => Seed!Within(P, T, c)
         /\ \A c \in Nat : Below(S, c) => Below(T, c)
<1>1. T \subseteq Seed!Pairs /\ IsFiniteSet(P) /\ IsFiniteSet(S)
  BY CountedAmong
<1>2. \A X : \A c \in Nat : /\ Fits(P, S, X, c) => Fits(P, T, X, c)
                            /\ Among(S, X) <= c => Among(T, X) <= c
  BY <1>1, LessFits
<1> QED BY <1>1, <1>2, PlansAreFits, CountedAmong, Ceilings

\* An empty plan fits anything.
LEMMA NothingFits ==
  ASSUME NEW S, S \subseteq Seed!Pairs
  PROVE  /\ TotalFits({}, S) /\ VideosFit({}, S) /\ \A c : Seed!Within({}, S, c)
         /\ Seed!Cardinality({}) = 0 /\ \A i : Seed!By({}, i) = 0 /\ Seed!Of({}, i) = 0
<1>1. \A X : Among({}, X) = 0
  BY FS_EmptySet DEF Among
<1>2. \A X, c : Fits({}, S, X, c)
  BY <1>1 DEF Fits
<1> QED BY <1>1, <1>2, PlansAreFits, CountedAmong

\* An earlier hour is not of a later day.
LEMMA DaysInOrder ==
  ASSUME NEW k \in Nat, NEW n \in Nat, k <= n
  PROVE  Seed!Day(k) \in Nat /\ Seed!Day(k) <= Seed!Day(n)
<1>1. HoursOfDay \in Nat /\ HoursOfDay > 0
  BY SeedAssumption
<1> QED BY <1>1 DEF Seed!Day

\* The curve expects no more than the day's total.
LEMMA TargetWithinTotal ==
  ASSUME NEW total \in Nat, NEW late \in BOOLEAN, hour \in Nat
  PROVE  Seed!TargetByNow(total, late) \in Nat /\ Seed!TargetByNow(total, late) <= total
<1> DEFINE now == hour % HoursOfDay
           accrued == Elapsed[IF late THEN now + 1 ELSE now]
           all == Elapsed[HoursOfDay]
<1>1. HoursOfDay \in Nat /\ HoursOfDay > 0
  BY SeedAssumption
<1>2. now \in 0..(HoursOfDay - 1)
  BY <1>1
<1>3. (IF late THEN now + 1 ELSE now) \in 0..HoursOfDay
  BY <1>1, <1>2
<1>4. accrued \in Nat /\ all \in Nat /\ accrued <= all /\ all > 0
  BY <1>1, <1>3, SeedAssumption
<1>5. Seed!TargetByNow(total, late) = (total * accrued) \div all
  BY DEF Seed!TargetByNow
<1> HIDE DEF accrued, all, now
<1>6. total * accrued \in Nat /\ total * accrued <= total * all
  BY <1>4
<1> DEFINE x_ == total * accrued
           q == x_ \div all
<1>7. x_ \in Nat /\ x_ <= total * all
  BY <1>6
<1> HIDE DEF x_
<1>8. q \in Nat /\ q * all <= x_
  BY <1>4, <1>7
<1> HIDE DEF q
<1>9. q <= total
  <2>1. SUFFICES ASSUME q >= total + 1 PROVE FALSE
    BY <1>8
  <2>2. q * all >= (total + 1) * all
    BY <2>1, <1>8, <1>4
  <2>3. (total + 1) * all = total * all + all
    BY <1>4
  <2>4. q * all \in Nat /\ total * all \in Nat
    BY <1>4, <1>8
  <2> QED BY <2>2, <2>3, <2>4, <1>8, <1>7, <1>4
<1> QED BY <1>5, <1>8, <1>9 DEF q, x_

-----------------------------------------------------------------------------
(* The invariant                                                           *)

\* Nothing has happened in an hour to come.
NothingAhead ==
    /\ \A p \in Seed!Pairs : likes[p] # NoRow => likes[p] <= hour
    /\ \A p \in Seed!Pairs : comments[p] # NoRow => comments[p].hour <= hour

\* What is left of a plan may still happen now, whatever hour it was made in.
PlanStands(w) ==
    /\ TotalFits(run[w].likes, Seed!LikesOn(Seed!Day(hour)))
    /\ Seed!Within(run[w].likes, Seed!LikesOn(Seed!Day(hour)), LikesPerDay)
    /\ Seed!Within(run[w].likes, Seed!LikesIn(hour), LikesPerHour)
    /\ Seed!Within(run[w].comments, Seed!CommentsOn(Seed!Day(hour)), CommentsPerDay)
    /\ Seed!Within(run[w].comments, Seed!CommentsIn(hour), CommentsPerHour)
    /\ VideosFit(run[w].comments, Seed!Commented)

\* One run at a time, and its plan stands.
OneRun ==
    /\ \A w \in Runs : ~run[w].busy => run[w] = Seed!Idle
    /\ solo => /\ \A v, w \in Seed!Busy : v = w
               /\ \A w \in Runs : PlanStands(w)

\* The ceilings of hour h and of its day.
CeilingsOf(h) ==
    /\ Seed!Cardinality(Seed!LikesOn(Seed!Day(h))) <= DailyTotalMax
    /\ Below(Seed!LikesOn(Seed!Day(h)), LikesPerDay) /\ Below(Seed!LikesIn(h), LikesPerHour)
    /\ Below(Seed!CommentsOn(Seed!Day(h)), CommentsPerDay)
    /\ Below(Seed!CommentsIn(h), CommentsPerHour)
    /\ VideosBelow(Seed!Commented)

\* The invariant of the runs: what has been done keeps the ceilings, and what the one run under
\* way has planned still does when it is done.
SeedInv ==
    /\ Seed!TypeOK /\ NothingAhead /\ OneRun
    /\ solo => \A h \in 0..hour : CeilingsOf(h)

LEMMA CeilingsAreCeilings == SeedInv => Seed!CeilingsHold
BY DEF SeedInv, CeilingsOf, Below, VideosBelow, Seed!CeilingsHold

\* The sets of what has happened are of pairs.
LEMMA SeedSets ==
  /\ Seed!Liked \subseteq Seed!Pairs /\ Seed!Commented \subseteq Seed!Pairs
  /\ \A d : Seed!LikesOn(d) \subseteq Seed!Pairs /\ Seed!LikesIn(d) \subseteq Seed!Pairs
  /\ \A d : Seed!CommentsOn(d) \subseteq Seed!Pairs /\ Seed!CommentsIn(d) \subseteq Seed!Pairs
BY DEF Seed!Liked, Seed!Commented, Seed!LikesOn, Seed!LikesIn, Seed!CommentsOn, Seed!CommentsIn

LEMMA SeedInvInit == Seed!Init => SeedInv
<1> SUFFICES ASSUME Seed!Init PROVE SeedInv
  OBVIOUS
<1>1. Seed!TypeOK /\ NothingAhead
  <2>1. /\ hour = 0 /\ enabled = FALSE /\ begun = 0 /\ solo = TRUE
        /\ likes = [p \in Seed!Pairs |-> NoRow] /\ comments = [p \in Seed!Pairs |-> NoRow]
        /\ run = [w \in Runs |-> [likes |-> {}, comments |-> {}, busy |-> FALSE]]
    BY DEF Seed!Init, Seed!Idle
  <2>2. hour \in 0..MaxHour /\ begun \in 0..MaxRuns
    BY <2>1, Ceilings
  <2>3. /\ likes \in [Seed!Pairs -> 0..MaxHour \cup {NoRow}]
        /\ comments \in [Seed!Pairs -> [hour : 0..MaxHour, deleted : BOOLEAN] \cup {NoRow}]
    BY <2>1
  <2>4. run \in [Runs -> [likes : SUBSET Seed!Pairs, comments : SUBSET Seed!Pairs, busy : BOOLEAN]]
    BY <2>1
  <2>5. NothingAhead
    BY <2>1 DEF NothingAhead
  <2> QED BY <2>1, <2>2, <2>3, <2>4, <2>5 DEF Seed!TypeOK
<1>2. /\ Seed!Liked = {} /\ Seed!Commented = {}
      /\ \A d : Seed!LikesOn(d) = {} /\ Seed!LikesIn(d) = {}
      /\ \A d : Seed!CommentsOn(d) = {} /\ Seed!CommentsIn(d) = {}
  BY DEF Seed!Init, Seed!Liked, Seed!Commented, Seed!LikesOn, Seed!LikesIn, Seed!CommentsOn,
         Seed!CommentsIn
<1>3. \A w \in Runs : run[w] = Seed!Idle
  BY DEF Seed!Init
<1>4. \A w \in Runs : PlanStands(w)
  BY <1>2, <1>3, NothingFits DEF PlanStands, Seed!Idle
<1>5. \A h \in 0..hour : CeilingsOf(h)
  BY <1>2, NothingFits, Ceilings DEF CeilingsOf, Below, VideosBelow
<1>6. Seed!Busy = {}
  BY <1>3 DEF Seed!Busy, Seed!Idle
<1> QED BY <1>1, <1>3, <1>4, <1>5, <1>6 DEF SeedInv, OneRun

\* A like of a plan: what has happened since gains at most this one, now.
LEMMA LikeEffect ==
  ASSUME SeedInv, NEW w \in Runs, NEW p \in run[w].likes, likes' \in Seed!LikeAnswers(p)
  PROVE  /\ p \in Seed!Pairs /\ likes' \in [Seed!Pairs -> 0..MaxHour \cup {NoRow}]
         /\ \A q \in Seed!Pairs : likes'[q] # NoRow => likes'[q] <= hour
         /\ \A d : Seed!LikesOn(d)' \subseteq Seed!LikesOn(d) \cup {p}
         /\ \A d : d # Seed!Day(hour) => Seed!LikesOn(d)' \subseteq Seed!LikesOn(d)
         /\ \A h : Seed!LikesIn(h)' \subseteq Seed!LikesIn(h) \cup {p}
         /\ \A h : h # hour => Seed!LikesIn(h)' \subseteq Seed!LikesIn(h)
<1>1. p \in Seed!Pairs /\ hour \in 0..MaxHour /\ likes \in [Seed!Pairs -> 0..MaxHour \cup {NoRow}]
  BY DEF SeedInv, Seed!TypeOK
<1>2. CASE likes' = likes
  BY <1>1, <1>2 DEF SeedInv, NothingAhead, Seed!LikesOn, Seed!LikesIn, Seed!Liked
<1>3. CASE p \notin Seed!Liked /\ likes' = [likes EXCEPT ![p] = hour]
  <2>1. \A q \in Seed!Pairs : likes'[q] = IF q = p THEN hour ELSE likes[q]
    BY <1>1, <1>3
  <2>2. likes' \in [Seed!Pairs -> 0..MaxHour \cup {NoRow}]
    BY <1>1, <1>3
  <2>3. \A q \in Seed!Pairs : likes'[q] # NoRow => likes'[q] <= hour
    BY <1>1, <2>1, Ceilings DEF SeedInv, NothingAhead
  <2> QED BY <1>1, <2>1, <2>2, <2>3 DEF Seed!LikesOn, Seed!LikesIn, Seed!Liked
<1> QED BY <1>2, <1>3 DEF Seed!LikeAnswers

\* A comment of a plan.
LEMMA CommentEffect ==
  ASSUME SeedInv, NEW w \in Runs, NEW p \in run[w].comments, comments' \in Seed!CommentAnswers(p)
  PROVE  /\ p \in Seed!Pairs
         /\ comments' \in [Seed!Pairs -> [hour : 0..MaxHour, deleted : BOOLEAN] \cup {NoRow}]
         /\ \A q \in Seed!Pairs : comments'[q] # NoRow => comments'[q].hour <= hour
         /\ Seed!Commented' \subseteq Seed!Commented \cup {p}
         /\ \A d : Seed!CommentsOn(d)' \subseteq Seed!CommentsOn(d) \cup {p}
         /\ \A d : d # Seed!Day(hour) => Seed!CommentsOn(d)' \subseteq Seed!CommentsOn(d)
         /\ \A h : Seed!CommentsIn(h)' \subseteq Seed!CommentsIn(h) \cup {p}
         /\ \A h : h # hour => Seed!CommentsIn(h)' \subseteq Seed!CommentsIn(h)
<1>1. /\ p \in Seed!Pairs /\ hour \in 0..MaxHour
      /\ comments \in [Seed!Pairs -> [hour : 0..MaxHour, deleted : BOOLEAN] \cup {NoRow}]
  BY DEF SeedInv, Seed!TypeOK
<1>2. CASE comments' = comments
  BY <1>1, <1>2 DEF SeedInv, NothingAhead, Seed!CommentsOn, Seed!CommentsIn, Seed!Commented
<1>3. CASE comments' = [comments EXCEPT ![p] = [hour |-> hour, deleted |-> FALSE]]
  <2>1. \A q \in Seed!Pairs :
           comments'[q] = IF q = p THEN [hour |-> hour, deleted |-> FALSE] ELSE comments[q]
    BY <1>1, <1>3
  <2>2. comments' \in [Seed!Pairs -> [hour : 0..MaxHour, deleted : BOOLEAN] \cup {NoRow}]
    BY <1>1, <1>3
  <2>3. \A q \in Seed!Pairs : comments'[q] # NoRow => comments'[q].hour <= hour
    BY <1>1, <2>1, Ceilings DEF SeedInv, NothingAhead
  <2>4. Seed!Commented' \subseteq Seed!Commented \cup {p}
    BY <2>1 DEF Seed!Commented
  <2>5. \A q \in Seed!Pairs \ {p} : q \in Seed!Commented' => q \in Seed!Commented /\ comments'[q] = comments[q]
    BY <2>1 DEF Seed!Commented
  <2>6. p \in Seed!Commented' => comments'[p].hour = hour
    BY <2>1, <1>1
  <2> QED BY <1>1, <2>2, <2>3, <2>4, <2>5, <2>6 DEF Seed!CommentsOn, Seed!CommentsIn, Seed!Commented
<1> QED BY <1>2, <1>3 DEF Seed!CommentAnswers

\* A run begins: its plan stands, whatever total it has drawn.
LEMMA StartKeepsCeilings ==
  ASSUME SeedInv, NEW w \in Runs, NEW total \in 0..DailyTotalMax, NEW force \in BOOLEAN,
         NEW late \in BOOLEAN, Seed!Start(w, total, force, late)
  PROVE  SeedInv'
<1> DEFINE target == IF force THEN total ELSE Seed!TargetByNow(total, late)
           onDay == Seed!LikesOn(Seed!Day(hour))
           done == Seed!Cardinality(Seed!CommentsOn(Seed!Day(hour)))
<1>1. PICK P \in Seed!LikePlans(Seed!Due(target, Seed!Cardinality(onDay))),
           C \in Seed!CommentPlans(IF force THEN PerRun ELSE Seed!Due(target, done)) :
              run' = [run EXCEPT ![w] = [likes |-> P, comments |-> C, busy |-> TRUE]]
  BY DEF Seed!Start
<1>2. /\ ~run[w].busy /\ begun < MaxRuns /\ begun' = begun + 1
      /\ solo' = (solo /\ Seed!Busy = {})
      /\ UNCHANGED <<hour, enabled, likes, comments>>
  BY DEF Seed!Start
<1>3. /\ P \subseteq Seed!Pairs /\ C \subseteq Seed!Pairs
      /\ Seed!Cardinality(P) <= Seed!Due(target, Seed!Cardinality(onDay))
      /\ Seed!Within(P, onDay, LikesPerDay) /\ Seed!Within(P, Seed!LikesIn(hour), LikesPerHour)
      /\ Seed!Within(C, Seed!CommentsOn(Seed!Day(hour)), CommentsPerDay)
      /\ Seed!Within(C, Seed!CommentsIn(hour), CommentsPerHour)
      /\ VideosFit(C, Seed!Commented)
  BY <1>1 DEF Seed!LikePlans, Seed!CommentPlans, VideosFit
<1>4. TotalFits(P, onDay)
  <2>1. target \in Nat /\ target <= DailyTotalMax
    <3>1. hour \in Nat
      BY Ceilings DEF SeedInv, Seed!TypeOK
    <3> QED BY <3>1, TargetWithinTotal, Ceilings
  <2>2. Seed!Cardinality(onDay) \in Nat /\ Seed!Cardinality(P) \in Nat
    BY <1>3, SeedSets, CountedAmong, AmongType
  <2>3. P # {} => Seed!Cardinality(P) # 0
    <3>1. IsFiniteSet(P) /\ Seed!Cardinality(P) = Cardinality(P)
      BY <1>3, CountedAmong DEF Seed!Cardinality, Cardinality
    <3> QED BY <3>1, FS_EmptySet
  <2> HIDE DEF target, onDay
  <2> QED BY <1>3, <2>1, <2>2, <2>3, Ceilings DEF TotalFits, Seed!Due
<1> HIDE DEF target, done
<1>5. Seed!TypeOK' /\ NothingAhead'
  BY <1>1, <1>2, <1>3, Ceilings DEF SeedInv, Seed!TypeOK, NothingAhead
<1>6. /\ run' \in [Runs -> [likes : SUBSET Seed!Pairs, comments : SUBSET Seed!Pairs, busy : BOOLEAN]]
      /\ run'[w] = [likes |-> P, comments |-> C, busy |-> TRUE]
      /\ \A v \in Runs \ {w} : run'[v] = run[v]
  BY <1>1, <1>3 DEF SeedInv, Seed!TypeOK
<1>7. /\ Seed!Commented' = Seed!Commented
      /\ \A d : Seed!LikesOn(d)' = Seed!LikesOn(d) /\ Seed!LikesIn(d)' = Seed!LikesIn(d)
      /\ \A d : Seed!CommentsOn(d)' = Seed!CommentsOn(d) /\ Seed!CommentsIn(d)' = Seed!CommentsIn(d)
  BY <1>2 DEF Seed!Liked, Seed!Commented, Seed!LikesOn, Seed!LikesIn, Seed!CommentsOn, Seed!CommentsIn
<1>8. OneRun'
  <2>1. \A v \in Runs : ~run'[v].busy => run'[v] = Seed!Idle
    BY <1>6 DEF SeedInv, OneRun
  <2>2. ASSUME solo' PROVE /\ Seed!Busy' = {w}
                           /\ \A v \in Runs : PlanStands(v)'
    <3>1. Seed!Busy = {}
      BY <1>2, <2>2
    <3>2. \A v \in Runs \ {w} : run'[v] = Seed!Idle
      BY <1>6, <3>1 DEF SeedInv, OneRun, Seed!Busy
    <3>3. Seed!Busy' = {w}
      BY <1>6, <3>2 DEF Seed!Busy, Seed!Idle
    <3>4. PlanStands(w)'
      BY <1>2, <1>3, <1>4, <1>6, <1>7 DEF PlanStands
    <3>5. ASSUME NEW v \in Runs \ {w} PROVE PlanStands(v)'
      <4>1. run'[v].likes = {} /\ run'[v].comments = {}
        BY <3>2 DEF Seed!Idle
      <4> QED BY <1>2, <1>7, <4>1, NothingFits, SeedSets DEF PlanStands
    <3> QED BY <3>3, <3>4, <3>5
  <2> QED BY <2>1, <2>2 DEF OneRun
<1>9. ASSUME solo', NEW h \in 0..hour' PROVE CeilingsOf(h)'
  BY <1>2, <1>7, <1>9 DEF SeedInv, CeilingsOf
<1> QED BY <1>5, <1>8, <1>9 DEF SeedInv

\* A like, or none.
LEMMA LikeKeepsCeilings ==
  ASSUME SeedInv, NEW w \in Runs, Seed!Like(w)
  PROVE  SeedInv'
<1>1. PICK p \in run[w].likes :
         /\ run' = [run EXCEPT ![w].likes = @ \ {p}]
         /\ likes' \in Seed!LikeAnswers(p)
         /\ UNCHANGED <<hour, enabled, comments, begun, solo>>
  BY DEF Seed!Like
<1>2. /\ run \in [Runs -> [likes : SUBSET Seed!Pairs, comments : SUBSET Seed!Pairs, busy : BOOLEAN]]
      /\ run'[w] = [run[w] EXCEPT !.likes = @ \ {p}]
      /\ \A v \in Runs \ {w} : run'[v] = run[v]
      /\ run' \in [Runs -> [likes : SUBSET Seed!Pairs, comments : SUBSET Seed!Pairs, busy : BOOLEAN]]
  BY <1>1 DEF SeedInv, Seed!TypeOK
<1>3. Seed!TypeOK' /\ NothingAhead'
  BY <1>1, <1>2, LikeEffect DEF SeedInv, Seed!TypeOK, NothingAhead
<1>4. /\ Seed!Commented' = Seed!Commented
      /\ \A d : Seed!CommentsOn(d)' = Seed!CommentsOn(d) /\ Seed!CommentsIn(d)' = Seed!CommentsIn(d)
  BY <1>1 DEF Seed!Commented, Seed!CommentsOn, Seed!CommentsIn
<1>5. run[w].busy
  BY <1>1 DEF SeedInv, OneRun, Seed!Idle
<1>6. ASSUME solo
      PROVE  /\ PlanStands(w) /\ PlanStands(w)'
             /\ \A h \in 0..hour : CeilingsOf(h)'
  <2>1. PlanStands(w) /\ \A h \in 0..hour : CeilingsOf(h)
    BY <1>6 DEF SeedInv, OneRun
  <2>2. run'[w].likes = run[w].likes \ {p} /\ run[w].likes \subseteq Seed!Pairs
        /\ run'[w].comments = run[w].comments
    BY <1>2
  <2>3. /\ TotalFits(run'[w].likes, Seed!LikesOn(Seed!Day(hour))')
        /\ Seed!Within(run'[w].likes, Seed!LikesOn(Seed!Day(hour))', LikesPerDay)
        /\ Seed!Cardinality(Seed!LikesOn(Seed!Day(hour))) <= DailyTotalMax =>
             Seed!Cardinality(Seed!LikesOn(Seed!Day(hour))') <= DailyTotalMax
        /\ Below(Seed!LikesOn(Seed!Day(hour)), LikesPerDay) =>
             Below(Seed!LikesOn(Seed!Day(hour))', LikesPerDay)
    <3>1. Seed!LikesOn(Seed!Day(hour))' \subseteq Seed!LikesOn(Seed!Day(hour)) \cup {p}
      BY <1>1, LikeEffect
    <3>2. \A T : T \subseteq Seed!LikesOn(Seed!Day(hour)) \cup {p} =>
            /\ TotalFits(run[w].likes \ {p}, T)
            /\ Seed!Within(run[w].likes \ {p}, T, LikesPerDay)
            /\ Seed!Cardinality(Seed!LikesOn(Seed!Day(hour))) <= DailyTotalMax =>
                 Seed!Cardinality(T) <= DailyTotalMax
            /\ Below(Seed!LikesOn(Seed!Day(hour)), LikesPerDay) => Below(T, LikesPerDay)
      BY <2>1, <2>2, CallKeepsPlan, SeedSets, Ceilings DEF PlanStands
    <3> QED BY <2>2, <3>1, <3>2
  <2>4. /\ Seed!Within(run'[w].likes, Seed!LikesIn(hour)', LikesPerHour)
        /\ Below(Seed!LikesIn(hour), LikesPerHour) => Below(Seed!LikesIn(hour)', LikesPerHour)
    <3>1. Seed!LikesIn(hour)' \subseteq Seed!LikesIn(hour) \cup {p}
      BY <1>1, LikeEffect
    <3>2. \A T : T \subseteq Seed!LikesIn(hour) \cup {p} =>
            /\ Seed!Within(run[w].likes \ {p}, T, LikesPerHour)
            /\ Below(Seed!LikesIn(hour), LikesPerHour) => Below(T, LikesPerHour)
      BY <2>1, <2>2, CallKeepsPlan, SeedSets, Ceilings DEF PlanStands
    <3> QED BY <2>2, <3>1, <3>2
  <2>5. PlanStands(w)'
    BY <1>1, <1>4, <2>1, <2>2, <2>3, <2>4 DEF PlanStands
  <2>6. ASSUME NEW h \in 0..hour PROVE CeilingsOf(h)'
    <3>1. /\ Seed!Cardinality(Seed!LikesOn(Seed!Day(h))') <= DailyTotalMax
          /\ Below(Seed!LikesOn(Seed!Day(h))', LikesPerDay)
      <4>1. CASE Seed!Day(h) = Seed!Day(hour)
        BY <1>1, <2>1, <2>3, <4>1 DEF CeilingsOf
      <4>2. CASE Seed!Day(h) # Seed!Day(hour)
        <5>1. Seed!LikesOn(Seed!Day(h))' \subseteq Seed!LikesOn(Seed!Day(h))
          BY <1>1, <4>2, LikeEffect
        <5> QED BY <2>1, <5>1, LessKeepsPlan, SeedSets, Ceilings DEF CeilingsOf
      <4> QED BY <4>1, <4>2
    <3>2. Below(Seed!LikesIn(h)', LikesPerHour)
      <4>1. CASE h = hour
        BY <1>1, <2>1, <2>4, <4>1 DEF CeilingsOf
      <4>2. CASE h # hour
        <5>1. Seed!LikesIn(h)' \subseteq Seed!LikesIn(h)
          BY <1>1, <4>2, LikeEffect
        <5> QED BY <2>1, <5>1, LessKeepsPlan, SeedSets, Ceilings DEF CeilingsOf
      <4> QED BY <4>1, <4>2
    <3>3. CeilingsOf(h)
      BY <2>1
    <3> QED BY <1>1, <1>4, <3>1, <3>2, <3>3 DEF CeilingsOf
  <2> QED BY <2>1, <2>5, <2>6
<1>7. OneRun'
  <2>1. \A v \in Runs : ~run'[v].busy => run'[v] = Seed!Idle
    BY <1>2, <1>5 DEF SeedInv, OneRun
  <2>2. Seed!Busy' = Seed!Busy
    BY <1>2 DEF Seed!Busy
  <2>3. ASSUME solo, NEW v \in Runs \ {w} PROVE PlanStands(v)'
    <3>1. run'[v] = Seed!Idle
      BY <1>2, <1>5, <2>3 DEF SeedInv, OneRun, Seed!Busy
    <3>2. run'[v].likes = {} /\ run'[v].comments = {}
      BY <3>1 DEF Seed!Idle
    <3>3. /\ Seed!LikesOn(Seed!Day(hour))' \subseteq Seed!Pairs /\ Seed!LikesIn(hour)' \subseteq Seed!Pairs
      BY DEF Seed!LikesOn, Seed!LikesIn, Seed!Liked
    <3> QED BY <1>1, <1>4, <3>2, <3>3, NothingFits, SeedSets DEF PlanStands
  <2> QED BY <1>1, <1>6, <2>1, <2>2, <2>3 DEF OneRun, SeedInv
<1> QED BY <1>1, <1>3, <1>6, <1>7 DEF SeedInv

\* A comment, or none.
LEMMA CommentKeepsCeilings ==
  ASSUME SeedInv, NEW w \in Runs, Seed!Comment(w)
  PROVE  SeedInv'
<1>1. PICK p \in run[w].comments :
         /\ run' = [run EXCEPT ![w].comments = @ \ {p}]
         /\ comments' \in Seed!CommentAnswers(p)
         /\ UNCHANGED <<hour, enabled, likes, begun, solo>>
  BY DEF Seed!Comment
<1>2. /\ run \in [Runs -> [likes : SUBSET Seed!Pairs, comments : SUBSET Seed!Pairs, busy : BOOLEAN]]
      /\ run'[w] = [run[w] EXCEPT !.comments = @ \ {p}]
      /\ \A v \in Runs \ {w} : run'[v] = run[v]
      /\ run' \in [Runs -> [likes : SUBSET Seed!Pairs, comments : SUBSET Seed!Pairs, busy : BOOLEAN]]
  BY <1>1 DEF SeedInv, Seed!TypeOK
<1>3. Seed!TypeOK' /\ NothingAhead'
  BY <1>1, <1>2, CommentEffect DEF SeedInv, Seed!TypeOK, NothingAhead
<1>4. \A d : Seed!LikesOn(d)' = Seed!LikesOn(d) /\ Seed!LikesIn(d)' = Seed!LikesIn(d)
  BY <1>1 DEF Seed!Liked, Seed!LikesOn, Seed!LikesIn
<1>5. run[w].busy
  BY <1>1 DEF SeedInv, OneRun, Seed!Idle
<1>6. ASSUME solo
      PROVE  /\ PlanStands(w) /\ PlanStands(w)'
             /\ \A h \in 0..hour : CeilingsOf(h)'
  <2>1. PlanStands(w) /\ \A h \in 0..hour : CeilingsOf(h)
    BY <1>6 DEF SeedInv, OneRun
  <2>2. run'[w].comments = run[w].comments \ {p} /\ run[w].comments \subseteq Seed!Pairs
        /\ run'[w].likes = run[w].likes
    BY <1>2
  <2>3. /\ Seed!Within(run'[w].comments, Seed!CommentsOn(Seed!Day(hour))', CommentsPerDay)
        /\ Below(Seed!CommentsOn(Seed!Day(hour)), CommentsPerDay) =>
             Below(Seed!CommentsOn(Seed!Day(hour))', CommentsPerDay)
    <3>1. Seed!CommentsOn(Seed!Day(hour))' \subseteq Seed!CommentsOn(Seed!Day(hour)) \cup {p}
      BY <1>1, CommentEffect
    <3>2. \A T : T \subseteq Seed!CommentsOn(Seed!Day(hour)) \cup {p} =>
            /\ Seed!Within(run[w].comments \ {p}, T, CommentsPerDay)
            /\ Below(Seed!CommentsOn(Seed!Day(hour)), CommentsPerDay) => Below(T, CommentsPerDay)
      BY <2>1, <2>2, CallKeepsPlan, SeedSets, Ceilings DEF PlanStands
    <3> QED BY <2>2, <3>1, <3>2
  <2>4. /\ Seed!Within(run'[w].comments, Seed!CommentsIn(hour)', CommentsPerHour)
        /\ Below(Seed!CommentsIn(hour), CommentsPerHour) =>
             Below(Seed!CommentsIn(hour)', CommentsPerHour)
    <3>1. Seed!CommentsIn(hour)' \subseteq Seed!CommentsIn(hour) \cup {p}
      BY <1>1, CommentEffect
    <3>2. \A T : T \subseteq Seed!CommentsIn(hour) \cup {p} =>
            /\ Seed!Within(run[w].comments \ {p}, T, CommentsPerHour)
            /\ Below(Seed!CommentsIn(hour), CommentsPerHour) => Below(T, CommentsPerHour)
      BY <2>1, <2>2, CallKeepsPlan, SeedSets, Ceilings DEF PlanStands
    <3> QED BY <2>2, <3>1, <3>2
  <2>5. VideosFit(run'[w].comments, Seed!Commented')
        /\ (VideosBelow(Seed!Commented) => VideosBelow(Seed!Commented'))
    <3>1. Seed!Commented' \subseteq Seed!Commented \cup {p}
      BY <1>1, CommentEffect
    <3>2. \A T : T \subseteq Seed!Commented \cup {p} =>
            /\ VideosFit(run[w].comments \ {p}, T)
            /\ VideosBelow(Seed!Commented) => VideosBelow(T)
      BY <2>1, <2>2, CallKeepsPlan, SeedSets, Ceilings DEF PlanStands
    <3> QED BY <2>2, <3>1, <3>2
  <2>6. PlanStands(w)'
    BY <1>1, <1>4, <2>1, <2>2, <2>3, <2>4, <2>5 DEF PlanStands
  <2>7. ASSUME NEW h \in 0..hour PROVE CeilingsOf(h)'
    <3>1. Below(Seed!CommentsOn(Seed!Day(h))', CommentsPerDay)
      <4>1. CASE Seed!Day(h) = Seed!Day(hour)
        BY <1>1, <2>1, <2>3, <4>1 DEF CeilingsOf
      <4>2. CASE Seed!Day(h) # Seed!Day(hour)
        <5>1. Seed!CommentsOn(Seed!Day(h))' \subseteq Seed!CommentsOn(Seed!Day(h))
          BY <1>1, <4>2, CommentEffect
        <5> QED BY <2>1, <5>1, LessKeepsPlan, SeedSets, Ceilings DEF CeilingsOf
      <4> QED BY <4>1, <4>2
    <3>2. Below(Seed!CommentsIn(h)', CommentsPerHour)
      <4>1. CASE h = hour
        BY <1>1, <2>1, <2>4, <4>1 DEF CeilingsOf
      <4>2. CASE h # hour
        <5>1. Seed!CommentsIn(h)' \subseteq Seed!CommentsIn(h)
          BY <1>1, <4>2, CommentEffect
        <5> QED BY <2>1, <5>1, LessKeepsPlan, SeedSets, Ceilings DEF CeilingsOf
      <4> QED BY <4>1, <4>2
    <3>3. CeilingsOf(h)
      BY <2>1
    <3> QED BY <1>1, <1>4, <2>5, <3>1, <3>2, <3>3 DEF CeilingsOf
  <2> QED BY <2>1, <2>6, <2>7
<1>7. OneRun'
  <2>1. \A v \in Runs : ~run'[v].busy => run'[v] = Seed!Idle
    BY <1>2, <1>5 DEF SeedInv, OneRun
  <2>2. Seed!Busy' = Seed!Busy
    BY <1>2 DEF Seed!Busy
  <2>3. ASSUME solo, NEW v \in Runs \ {w} PROVE PlanStands(v)'
    <3>1. run'[v] = Seed!Idle
      BY <1>2, <1>5, <2>3 DEF SeedInv, OneRun, Seed!Busy
    <3>2. run'[v].likes = {} /\ run'[v].comments = {}
      BY <3>1 DEF Seed!Idle
    <3>3. /\ Seed!CommentsOn(Seed!Day(hour))' \subseteq Seed!Pairs
          /\ Seed!CommentsIn(hour)' \subseteq Seed!Pairs /\ Seed!Commented' \subseteq Seed!Pairs
      BY DEF Seed!CommentsOn, Seed!CommentsIn, Seed!Commented
    <3> QED BY <1>1, <1>4, <3>2, <3>3, NothingFits, SeedSets DEF PlanStands
  <2> QED BY <1>1, <1>6, <2>1, <2>2, <2>3 DEF OneRun, SeedInv
<1> QED BY <1>1, <1>3, <1>6, <1>7 DEF SeedInv

\* A run ends: there is no plan.
LEMMA EndKeepsCeilings ==
  ASSUME SeedInv, NEW w \in Runs, Seed!End(w)
  PROVE  SeedInv'
<1>1. run' = [run EXCEPT ![w] = Seed!Idle] /\ UNCHANGED <<hour, enabled, likes, comments, begun, solo>>
  BY DEF Seed!End
<1>2. /\ run' \in [Runs -> [likes : SUBSET Seed!Pairs, comments : SUBSET Seed!Pairs, busy : BOOLEAN]]
      /\ run'[w] = Seed!Idle /\ \A v \in Runs \ {w} : run'[v] = run[v]
  BY <1>1 DEF SeedInv, Seed!TypeOK, Seed!Idle
<1>3. /\ Seed!Commented' = Seed!Commented
      /\ \A d : Seed!LikesOn(d)' = Seed!LikesOn(d) /\ Seed!LikesIn(d)' = Seed!LikesIn(d)
      /\ \A d : Seed!CommentsOn(d)' = Seed!CommentsOn(d) /\ Seed!CommentsIn(d)' = Seed!CommentsIn(d)
  BY <1>1 DEF Seed!Liked, Seed!Commented, Seed!LikesOn, Seed!LikesIn, Seed!CommentsOn, Seed!CommentsIn
<1>4. Seed!TypeOK' /\ NothingAhead'
  BY <1>1, <1>2 DEF SeedInv, Seed!TypeOK, NothingAhead
<1>5. ASSUME solo', NEW v \in Runs PROVE PlanStands(v)'
  <2>1. CASE v = w
    <3>1. run'[v].likes = {} /\ run'[v].comments = {}
      BY <1>2, <2>1 DEF Seed!Idle
    <3> QED BY <1>1, <1>3, <3>1, NothingFits, SeedSets DEF PlanStands
  <2>2. CASE v # w
    BY <1>1, <1>2, <1>3, <1>5, <2>2 DEF SeedInv, OneRun, PlanStands
  <2> QED BY <2>1, <2>2
<1>6. OneRun'
  <2>1. Seed!Busy' \subseteq Seed!Busy
    BY <1>2 DEF Seed!Busy, Seed!Idle
  <2> QED BY <1>1, <1>2, <1>5, <2>1 DEF SeedInv, OneRun
<1>7. ASSUME solo', NEW h \in 0..hour' PROVE CeilingsOf(h)'
  BY <1>1, <1>3, <1>7 DEF SeedInv, CeilingsOf
<1> QED BY <1>4, <1>6, <1>7 DEF SeedInv

\* Whatever takes rows away, or lets an hour begin, leaves every plan standing.
LEMMA FewerKeepCeilings ==
  ASSUME SeedInv, Seed!TypeOK', NothingAhead', UNCHANGED <<run, begun, solo>>,
         Seed!Commented' \subseteq Seed!Commented,
         Seed!LikesOn(Seed!Day(hour))' \subseteq Seed!LikesOn(Seed!Day(hour)),
         Seed!LikesIn(hour)' \subseteq Seed!LikesIn(hour),
         Seed!CommentsOn(Seed!Day(hour))' \subseteq Seed!CommentsOn(Seed!Day(hour)),
         Seed!CommentsIn(hour)' \subseteq Seed!CommentsIn(hour),
         solo => \A h \in 0..hour' : CeilingsOf(h)'
  PROVE  SeedInv'
<1>1. ASSUME NEW v \in Runs, PlanStands(v) PROVE PlanStands(v)'
  <2>1. run[v].likes \subseteq Seed!Pairs /\ run[v].comments \subseteq Seed!Pairs /\ run' = run
    BY DEF SeedInv, Seed!TypeOK
  <2>2. /\ TotalFits(run[v].likes, Seed!LikesOn(Seed!Day(hour))')
        /\ Seed!Within(run[v].likes, Seed!LikesOn(Seed!Day(hour))', LikesPerDay)
        /\ Seed!Within(run[v].likes, Seed!LikesIn(hour)', LikesPerHour)
    BY <1>1, <2>1, LessKeepsPlan, SeedSets, Ceilings DEF PlanStands
  <2>3. /\ Seed!Within(run[v].comments, Seed!CommentsOn(Seed!Day(hour))', CommentsPerDay)
        /\ Seed!Within(run[v].comments, Seed!CommentsIn(hour)', CommentsPerHour)
        /\ VideosFit(run[v].comments, Seed!Commented')
    BY <1>1, <2>1, LessKeepsPlan, SeedSets, Ceilings DEF PlanStands
  <2> QED BY <2>1, <2>2, <2>3 DEF PlanStands
<1>2. OneRun'
  BY <1>1 DEF SeedInv, OneRun, Seed!Busy
<1> QED BY <1>2 DEF SeedInv

\* The hour passes: the new one has seen nothing, and its day no more than the old one's.
LEMMA HourKeepsCeilings ==
  ASSUME SeedInv, Seed!Hour
  PROVE  SeedInv'
<1>1. hour < MaxHour /\ hour' = hour + 1 /\ UNCHANGED <<enabled, likes, comments, run, begun, solo>>
  BY DEF Seed!Hour
<1>2. hour \in 0..MaxHour
  BY DEF SeedInv, Seed!TypeOK
<1>3. Seed!TypeOK' /\ NothingAhead'
  <2>1. hour' \in 0..MaxHour
    BY <1>1, <1>2, Ceilings
  <2>2. \A p \in Seed!Pairs : likes[p] # NoRow => likes[p] \in 0..MaxHour
    BY DEF SeedInv, Seed!TypeOK
  <2>3. \A p \in Seed!Pairs : comments[p] # NoRow => comments[p].hour \in 0..MaxHour
    BY DEF SeedInv, Seed!TypeOK
  <2>4. NothingAhead'
    BY <1>1, <1>2, <2>2, <2>3, Ceilings DEF SeedInv, NothingAhead
  <2> QED BY <1>1, <2>1, <2>4 DEF SeedInv, Seed!TypeOK
<1>4. /\ Seed!Commented' = Seed!Commented
      /\ \A d : Seed!LikesOn(d)' = Seed!LikesOn(d) /\ Seed!LikesIn(d)' = Seed!LikesIn(d)
      /\ \A d : Seed!CommentsOn(d)' = Seed!CommentsOn(d) /\ Seed!CommentsIn(d)' = Seed!CommentsIn(d)
  BY <1>1 DEF Seed!Liked, Seed!Commented, Seed!LikesOn, Seed!LikesIn, Seed!CommentsOn, Seed!CommentsIn
<1>5. /\ Seed!LikesOn(Seed!Day(hour + 1)) \subseteq Seed!LikesOn(Seed!Day(hour))
      /\ Seed!CommentsOn(Seed!Day(hour + 1)) \subseteq Seed!CommentsOn(Seed!Day(hour))
  <2>1. /\ Seed!Day(hour) \in Nat /\ Seed!Day(hour + 1) \in Nat
        /\ Seed!Day(hour) <= Seed!Day(hour + 1)
    BY <1>2, DaysInOrder, Ceilings
  <2>2. \A p \in Seed!Liked : /\ likes[p] \in Nat /\ likes[p] <= hour
                              /\ Seed!Day(likes[p]) \in Nat /\ Seed!Day(likes[p]) <= Seed!Day(hour)
    <3>1. \A p \in Seed!Liked : likes[p] \in Nat /\ likes[p] <= hour
      BY Ceilings DEF SeedInv, NothingAhead, Seed!TypeOK, Seed!Liked
    <3> QED BY <3>1, <1>2, DaysInOrder, Ceilings
  <2>3. \A p \in Seed!Commented :
           /\ Seed!Day(comments[p].hour) \in Nat /\ Seed!Day(comments[p].hour) <= Seed!Day(hour)
    <3>1. \A p \in Seed!Commented : comments[p].hour \in Nat /\ comments[p].hour <= hour
      BY Ceilings DEF SeedInv, NothingAhead, Seed!TypeOK, Seed!Commented
    <3> QED BY <3>1, <1>2, DaysInOrder, Ceilings
  <2> QED BY <2>1, <2>2, <2>3 DEF Seed!LikesOn, Seed!CommentsOn
<1>6. Seed!LikesIn(hour + 1) = {} /\ Seed!CommentsIn(hour + 1) = {}
  <2>1. \A p \in Seed!Pairs : ~(likes[p] # NoRow /\ likes[p] = hour + 1)
    BY <1>2, Ceilings DEF SeedInv, NothingAhead
  <2>2. \A p \in Seed!Pairs : ~(comments[p] # NoRow /\ comments[p].hour = hour + 1)
    BY <1>2, Ceilings DEF SeedInv, NothingAhead
  <2> QED BY <2>1, <2>2 DEF Seed!LikesIn, Seed!CommentsIn, Seed!Liked, Seed!Commented
<1>7. /\ Seed!LikesOn(Seed!Day(hour))' = Seed!LikesOn(Seed!Day(hour + 1))
      /\ Seed!LikesIn(hour)' = {} /\ Seed!CommentsIn(hour)' = {}
      /\ Seed!CommentsOn(Seed!Day(hour))' = Seed!CommentsOn(Seed!Day(hour + 1))
  BY <1>1, <1>4, <1>6 DEF Seed!Day
<1>8. ASSUME solo, NEW h \in 0..(hour + 1) PROVE CeilingsOf(h)'
  <2>1. CASE h \in 0..hour
    <3>1. CeilingsOf(h)
      BY <1>8, <2>1 DEF SeedInv
    <3> QED BY <1>4, <3>1 DEF CeilingsOf
  <2>2. CASE h = hour + 1
    <3>1. CeilingsOf(hour)
      BY <1>2, <1>8, Ceilings DEF SeedInv
    <3>2. /\ Seed!Cardinality(Seed!LikesOn(Seed!Day(hour + 1))) <= DailyTotalMax
          /\ Below(Seed!LikesOn(Seed!Day(hour + 1)), LikesPerDay)
      BY <3>1, <1>5, LessKeepsPlan, SeedSets, Ceilings DEF CeilingsOf
    <3>3. Below(Seed!CommentsOn(Seed!Day(hour + 1)), CommentsPerDay)
      BY <3>1, <1>5, LessKeepsPlan, SeedSets, Ceilings DEF CeilingsOf
    <3>4. Below({}, LikesPerHour) /\ Below({}, CommentsPerHour)
      BY NothingFits, Ceilings DEF Below
    <3> QED BY <1>4, <1>6, <2>2, <3>1, <3>2, <3>3, <3>4 DEF CeilingsOf
  <2> QED BY <1>2, <2>1, <2>2, Ceilings
<1> QED BY <1>1, <1>3, <1>4, <1>5, <1>7, <1>8, FewerKeepCeilings

\* A like is taken back.
LEMMA UnlikeKeepsCeilings ==
  ASSUME SeedInv, NEW p \in Seed!Pairs, Seed!Unlike(p)
  PROVE  SeedInv'
<1>1. /\ likes' = [likes EXCEPT ![p] = NoRow]
      /\ UNCHANGED <<hour, enabled, comments, run, begun, solo>>
  BY DEF Seed!Unlike
<1>2. \A q \in Seed!Pairs : likes'[q] = IF q = p THEN NoRow ELSE likes[q]
  BY <1>1 DEF SeedInv, Seed!TypeOK
<1>3. Seed!TypeOK' /\ NothingAhead'
  BY <1>1, <1>2 DEF SeedInv, Seed!TypeOK, NothingAhead
<1>4. /\ Seed!Commented' = Seed!Commented
      /\ \A d : Seed!CommentsOn(d)' = Seed!CommentsOn(d) /\ Seed!CommentsIn(d)' = Seed!CommentsIn(d)
  BY <1>1 DEF Seed!Commented, Seed!CommentsOn, Seed!CommentsIn
<1>5. \A d : Seed!LikesOn(d)' \subseteq Seed!LikesOn(d) /\ Seed!LikesIn(d)' \subseteq Seed!LikesIn(d)
  BY <1>1, <1>2 DEF Seed!Liked, Seed!LikesOn, Seed!LikesIn
<1>6. ASSUME solo, NEW h \in 0..hour PROVE CeilingsOf(h)'
  <2>1. CeilingsOf(h)
    BY <1>6 DEF SeedInv
  <2>2. /\ Seed!Cardinality(Seed!LikesOn(Seed!Day(h))') <= DailyTotalMax
        /\ Below(Seed!LikesOn(Seed!Day(h))', LikesPerDay)
    BY <2>1, <1>5, LessKeepsPlan, SeedSets, Ceilings DEF CeilingsOf
  <2>3. Below(Seed!LikesIn(h)', LikesPerHour)
    BY <2>1, <1>5, LessKeepsPlan, SeedSets, Ceilings DEF CeilingsOf
  <2> QED BY <1>1, <1>4, <2>1, <2>2, <2>3 DEF CeilingsOf
<1>7. Seed!Day(hour)' = Seed!Day(hour)
  BY <1>1
<1> QED BY <1>1, <1>3, <1>4, <1>5, <1>6, <1>7, FewerKeepCeilings

\* What deleting does to a row.
LEMMA DeletedRow ==
  ASSUME NEW S, NEW c_ \in [hour : S, deleted : BOOLEAN]
  PROVE  /\ [c_ EXCEPT !.deleted = TRUE] \in [hour : S, deleted : BOOLEAN]
         /\ [c_ EXCEPT !.deleted = TRUE].hour = c_.hour
         /\ [c_ EXCEPT !.deleted = TRUE].deleted
OBVIOUS

\* A comment is deleted.
LEMMA DeleteKeepsCeilings ==
  ASSUME SeedInv, NEW p \in Seed!Pairs, Seed!Delete(p)
  PROVE  SeedInv'
<1>1. /\ p \in Seed!Commented /\ comments' = [comments EXCEPT ![p].deleted = TRUE]
      /\ UNCHANGED <<hour, enabled, likes, run, begun, solo>>
  BY DEF Seed!Delete
<1>2. /\ comments \in [Seed!Pairs -> [hour : 0..MaxHour, deleted : BOOLEAN] \cup {NoRow}]
      /\ comments[p] # NoRow
  BY <1>1 DEF SeedInv, Seed!TypeOK, Seed!Commented
<1>3. comments[p] \in [hour : 0..MaxHour, deleted : BOOLEAN]
  BY <1>2
<1>4. /\ comments'[p] \in [hour : 0..MaxHour, deleted : BOOLEAN]
      /\ comments'[p].hour = comments[p].hour /\ comments'[p].deleted
      /\ \A q \in Seed!Pairs \ {p} : comments'[q] = comments[q]
  BY <1>1, <1>2, <1>3, DeletedRow
<1>5. Seed!TypeOK' /\ NothingAhead'
  <2>1. comments' \in [Seed!Pairs -> [hour : 0..MaxHour, deleted : BOOLEAN] \cup {NoRow}]
    BY <1>1, <1>2, <1>4
  <2>2. NothingAhead'
    BY <1>1, <1>2, <1>4 DEF SeedInv, NothingAhead
  <2> QED BY <1>1, <2>1, <2>2 DEF SeedInv, Seed!TypeOK
<1>6. \A d : Seed!LikesOn(d)' = Seed!LikesOn(d) /\ Seed!LikesIn(d)' = Seed!LikesIn(d)
  BY <1>1 DEF Seed!Liked, Seed!LikesOn, Seed!LikesIn
<1>7. Seed!Commented' = Seed!Commented \ {p}
  BY <1>1, <1>4 DEF Seed!Commented
<1>8. \A q \in Seed!Commented' : comments'[q] = comments[q]
  BY <1>4, <1>7 DEF Seed!Commented
<1>9. \A d : Seed!CommentsOn(d)' \subseteq Seed!CommentsOn(d) /\ Seed!CommentsIn(d)' \subseteq Seed!CommentsIn(d)
  BY <1>7, <1>8 DEF Seed!CommentsOn, Seed!CommentsIn
<1>10. ASSUME solo, NEW h \in 0..hour PROVE CeilingsOf(h)'
  <2>1. CeilingsOf(h)
    BY <1>10 DEF SeedInv
  <2>2. Below(Seed!CommentsOn(Seed!Day(h))', CommentsPerDay)
    BY <2>1, <1>9, LessKeepsPlan, SeedSets, Ceilings DEF CeilingsOf
  <2>3. Below(Seed!CommentsIn(h)', CommentsPerHour)
    BY <2>1, <1>9, LessKeepsPlan, SeedSets, Ceilings DEF CeilingsOf
  <2>4. VideosBelow(Seed!Commented')
    BY <2>1, <1>7, LessKeepsPlan, SeedSets, Ceilings DEF CeilingsOf
  <2> QED BY <1>1, <1>6, <2>1, <2>2, <2>3, <2>4 DEF CeilingsOf
<1>11. Seed!Day(hour)' = Seed!Day(hour)
  BY <1>1
<1> QED BY <1>1, <1>5, <1>6, <1>7, <1>9, <1>10, <1>11, FewerKeepCeilings

\* The switch, and a step of other parts.
LEMMA SwitchKeepsCeilings ==
  ASSUME SeedInv, enabled' \in BOOLEAN, UNCHANGED <<hour, likes, comments, run, begun, solo>>
  PROVE  SeedInv'
<1>1. /\ Seed!Commented' = Seed!Commented
      /\ \A d : Seed!LikesOn(d)' = Seed!LikesOn(d) /\ Seed!LikesIn(d)' = Seed!LikesIn(d)
      /\ \A d : Seed!CommentsOn(d)' = Seed!CommentsOn(d) /\ Seed!CommentsIn(d)' = Seed!CommentsIn(d)
  BY DEF Seed!Liked, Seed!Commented, Seed!LikesOn, Seed!LikesIn, Seed!CommentsOn, Seed!CommentsIn
<1>2. Seed!TypeOK' /\ NothingAhead'
  BY DEF SeedInv, Seed!TypeOK, NothingAhead
<1>3. \A h : CeilingsOf(h)' = CeilingsOf(h)
  BY <1>1 DEF CeilingsOf
<1>4. Seed!Day(hour)' = Seed!Day(hour)
  OBVIOUS
<1> QED BY <1>1, <1>2, <1>3, <1>4, FewerKeepCeilings DEF SeedInv

LEMMA SeedInvStep == SeedInv /\ [Seed!Next]_Seed!vars => SeedInv'
<1> SUFFICES ASSUME SeedInv, [Seed!Next]_Seed!vars PROVE SeedInv'
  OBVIOUS
<1>1. ASSUME NEW w \in Runs, NEW total \in 0..DailyTotalMax, NEW force \in BOOLEAN,
             NEW late \in BOOLEAN, Seed!Start(w, total, force, late)
      PROVE  SeedInv'
  BY <1>1, StartKeepsCeilings
<1>2. ASSUME NEW w \in Runs, Seed!Like(w) \/ Seed!Comment(w) \/ Seed!End(w) PROVE SeedInv'
  BY <1>2, LikeKeepsCeilings, CommentKeepsCeilings, EndKeepsCeilings
<1>3. ASSUME NEW p \in Seed!Pairs, Seed!Unlike(p) \/ Seed!Delete(p) PROVE SeedInv'
  BY <1>3, UnlikeKeepsCeilings, DeleteKeepsCeilings
<1>4. CASE Seed!Hour
  BY <1>4, HourKeepsCeilings
<1>5. CASE Seed!Preview
  BY <1>5, SwitchKeepsCeilings DEF Seed!Preview, SeedInv, Seed!TypeOK
<1>6. CASE UNCHANGED Seed!vars
  BY <1>6, SwitchKeepsCeilings DEF Seed!vars, SeedInv, Seed!TypeOK
<1> QED BY <1>1, <1>2, <1>3, <1>4, <1>5, <1>6 DEF Seed!Next

\* The rows and the plans of the seed accounts keep their types through every run.
THEOREM SeedTypes == Seed!Spec => []Seed!TypeOK
<1>1. SeedInv => Seed!TypeOK
  BY DEF SeedInv
<1> QED BY <1>1, SeedInvInit, SeedInvStep, PTL DEF Seed!Spec

\* No account goes beyond its hour's or its day's ceiling, no video beyond its comments and
\* no day beyond the largest total, as long as runs do not overlap (SocialSeed).
THEOREM CeilingsLast == Seed!Spec => []Seed!CeilingsHold
BY CeilingsAreCeilings, SeedInvInit, SeedInvStep, PTL DEF Seed!Spec

\* The part of the platform that is Seed behaves as the component does.
LEMMA SeedBehaves == Spec => Seed!Spec
<1>1. Init => Seed!Init
  BY DEF Init
<1>2. [Next]_vars => [Seed!Next]_Seed!vars
  BY PartsNext DEF seedVars, Seed!vars
<1> QED BY <1>1, <1>2, PTL DEF Spec, Seed!Spec

\* Through every run, death and restart of the task, and through the change of the hour and of
\* the day, no ceiling of the seed accounts is passed as long as runs do not overlap.
THEOREM SeedCeilingsHold == Spec => []CeilingsHold
BY SeedBehaves, CeilingsLast, PTL DEF CeilingsHold

-----------------------------------------------------------------------------
\* The rows of every component keep their types, whichever moves.
THEOREM PlatformTypes == Spec => []TypeOK
<1>1. L!Spec => []L!TypeOK
  BY L!TypeCorrect, UploadAssumption, PlaceholderAssumption, PTL
<1>2. L!TypeOK => Local!TypeOK
  BY DEF L!TypeOK, Local!TypeOK, L!SessionRow, Local!SessionRow, L!Beginnings, Local!Beginnings,
         L!File, Local!File, L!Object, Local!Object, L!UploadRow, Local!UploadRow
<1>3. I!Spec => []I!TypeOK
  BY I!TypeCorrect, AccountAssumption, PlaceholderAssumption, PTL
<1>4. I!TypeOK => Identity!TypeOK
  BY DEF I!TypeOK, Identity!TypeOK, I!Numbers, Identity!Numbers, I!Ids, Identity!Ids, I!Binding,
         Identity!Binding
<1>5. E!Spec => []E!TypeOK
  BY E!EngagementTypes, EngagementAssumption, PTL
<1>6. E!TypeOK => Social!TypeOK
  BY DEF E!TypeOK, Social!TypeOK, E!Ids, Social!Ids, E!Comment, Social!Comment, E!Keys, Social!Keys
<1> QED BY <1>1, <1>2, <1>3, <1>4, <1>5, <1>6, StoreTypes, GraphTypes, ChannelTypes, SeedTypes,
           LocalBehaves, IdentityBehaves, SocialBehaves, StoreBehaves, GraphBehaves,
           ChannelsBehave, SeedBehaves, PTL DEF TypeOK
=============================================================================
