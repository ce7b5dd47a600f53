------------------------ MODULE CreatorVersionsProofs ------------------------
(***************************************************************************)
(* Theorems of what makes the versions of a creation: of CreatorVersions,  *)
(* its type correctness, and that a creation is published once; and of the *)
(* Story that MCCreatorVersions puts beside it, that it is whole.          *)
(***************************************************************************)
EXTENDS MCCreatorVersions, TLAPS, FiniteSetTheorems, SequenceTheorems, WellFoundedInduction

(***************************************************************************)
(* The first and the last of some numbers.                                 *)
(***************************************************************************)
\* Version numbers have a least one.
LEMMA LeastIn ==
  ASSUME NEW A, A \subseteq Numbers, A # {}
  PROVE  \E z \in A : \A y \in A : z =< y
<1>1. A \subseteq Nat
  BY ConstantsAssumption DEF Numbers
<1> DEFINE R == OpToRel(<, Nat)
<1>2. IsWellFoundedOn(R, Nat)
  BY NatLessThanWellFounded
<1>3. \A x, y \in Nat : y < x => <<y, x>> \in R
  BY DEF OpToRel
<1> HIDE DEF R
<1>4. PICK x \in A : \A y \in A : ~ (<<y, x>> \in R)
  BY <1>1, <1>2, WFMin
<1>5. ASSUME NEW y \in A PROVE x =< y
  <2>1. x \in Nat /\ y \in Nat
    BY <1>1
  <2>2. ~ (y < x)
    BY <2>1, <1>3, <1>4
  <2> QED BY <2>1, <2>2
<1> QED BY <1>5

\* Min of a set of version numbers is one of them.
LEMMA MinIn ==
  ASSUME NEW A, A \subseteq Numbers, A # {}
  PROVE  Min(A) \in A
  BY LeastIn DEF Min

\* So is Max.
LEMMA MaxIn ==
  ASSUME NEW A, A \subseteq Numbers, A # {}
  PROVE  Max(A) \in A
<1> DEFINE B == {n \in Numbers : MaxVersions - n + 1 \in A}
<1>1. B # {}
  <2>1. PICK x \in A : TRUE
    OBVIOUS
  <2>2. MaxVersions - x + 1 \in B
    BY <2>1, ConstantsAssumption DEF Numbers
  <2> QED BY <2>2
<1>2. PICK b \in B : \A y \in B : b =< y
  <2>1. B \subseteq Numbers
    OBVIOUS
  <2> HIDE DEF B
  <2> QED BY <1>1, <2>1, LeastIn
<1>3. \A y \in A : MaxVersions - y + 1 \in B /\ y \in Numbers
  BY ConstantsAssumption DEF Numbers
<1>4. \A y \in A : MaxVersions - b + 1 >= y
  BY <1>2, <1>3, ConstantsAssumption DEF Numbers
<1>5. \E z \in A : \A y \in A : z >= y
  BY <1>2, <1>4
<1> QED BY <1>5 DEF Max

(***************************************************************************)
(* Sessions.  A session is quiet when it publishes nothing: what it holds  *)
(* as published was published in its snapshot.                             *)
(***************************************************************************)
Quiet(S, T) ==
  /\ T \in Database
  /\ T.draft.published = S.draft.published
  /\ \A n \in Numbers : T.version[n].status = "published" =>
                          S.version[n].status = "published"

\* The published versions are one, and then there is a video.
Single ==
  \A m, n \in Numbers :
    version[m].status = "published" /\ version[n].status = "published" =>
      m = n /\ draft.published

Good == TypeOK /\ Single

\* A consistent read of well-typed rows is well-typed.
LEMMA SnapshotType ==
  ASSUME TypeOK
  PROVE  Snapshot \in Database
  BY DEF TypeOK, Snapshot, Database

\* Merging the changed columns of a row into the current row.
LEMMA FlushType ==
  /\ \A r, w, q \in VersionRow :
       /\ FlushRow(r, w, q) \in VersionRow
       /\ FlushRow(r, w, q).status =
            IF w.status = r.status THEN q.status ELSE w.status
  /\ \A r, w, q \in DraftRow :
       /\ FlushRow(r, w, q) \in DraftRow
       /\ FlushRow(r, w, q).published =
            IF w.published = r.published THEN q.published ELSE w.published
<1>1. ASSUME NEW r \in VersionRow, NEW w \in VersionRow, NEW q \in VersionRow
      PROVE  /\ FlushRow(r, w, q) \in VersionRow
             /\ FlushRow(r, w, q).status =
                  IF w.status = r.status THEN q.status ELSE w.status
  BY <1>1 DEF FlushRow, VersionRow
<1>2. ASSUME NEW r \in DraftRow, NEW w \in DraftRow, NEW q \in DraftRow
      PROVE  /\ FlushRow(r, w, q) \in DraftRow
             /\ FlushRow(r, w, q).published =
                  IF w.published = r.published THEN q.published ELSE w.published
  BY <1>2 DEF FlushRow, DraftRow
<1> QED BY <1>1, <1>2

\* A commit of a well-typed session leaves well-typed rows.
LEMMA CommitType ==
  ASSUME TypeOK, NEW S \in Database, NEW T \in Database, Commit(S, T)
  PROVE  /\ version' \in [Numbers -> VersionRow]
         /\ draft' \in DraftRow
         /\ upload' \in {"pending", "ready", "failed"}
         /\ \A n \in Numbers : version'[n].status =
              IF T.version[n].status = S.version[n].status
              THEN version[n].status ELSE T.version[n].status
         /\ draft'.published =
              IF T.draft.published = S.draft.published
              THEN draft.published ELSE T.draft.published
<1>1. /\ version \in [Numbers -> VersionRow]
      /\ S.version \in [Numbers -> VersionRow]
      /\ T.version \in [Numbers -> VersionRow]
      /\ draft \in DraftRow /\ S.draft \in DraftRow /\ T.draft \in DraftRow
  BY DEF TypeOK, Database
<1>2. version' = [v \in Numbers |-> FlushRow(S.version[v], T.version[v], version[v])]
  BY DEF Commit
<1>3. draft' = FlushRow(S.draft, T.draft, draft)
  BY DEF Commit
<1>4. upload' = upload
  BY DEF Commit
<1> QED BY <1>1, <1>2, <1>3, <1>4, FlushType DEF TypeOK

\* The commit of a quiet session publishes nothing.
LEMMA QuietCommit ==
  ASSUME Good, NEW S \in Database, NEW T, Quiet(S, T), Commit(S, T)
  PROVE  Single'
<1>1. \A n \in Numbers : version'[n].status = "published" =>
                            version[n].status = "published"
  BY CommitType DEF Good, Quiet
<1>2. draft'.published = draft.published
  BY CommitType DEF Good, Quiet
<1> QED BY <1>1, <1>2 DEF Good, Single

(***************************************************************************)
(* What handlers and coordinator write.                                    *)
(***************************************************************************)
\* One version's status changed.
LEMMA StatusQuiet ==
  ASSUME NEW S \in Database, NEW v \in Numbers,
         NEW x \in VersionStatus \ {"published"}
  PROVE  /\ Quiet(S, [S EXCEPT !.version[v].status = x])
         /\ [S EXCEPT !.version[v].status = x].version[v].status = x
<1> DEFINE T == [S EXCEPT !.version[v].status = x]
<1>1. \A r \in VersionRow : /\ [r EXCEPT !.status = x] \in VersionRow
                             /\ [r EXCEPT !.status = x].status = x
  BY DEF VersionRow
<1>2. /\ S.version \in [Numbers -> VersionRow] /\ S.draft \in DraftRow
      /\ T.draft = S.draft
      /\ T.version = [S.version EXCEPT ![v] = [S.version[v] EXCEPT !.status = x]]
  BY DEF Database
<1>3. T \in Database
  BY <1>1, <1>2 DEF Database
<1> QED BY <1>1, <1>2, <1>3 DEF Quiet

\* The creation's status changed after a quiet session.
LEMMA DraftQuiet ==
  ASSUME NEW S \in Database, NEW T, Quiet(S, T), NEW x \in DraftStatus
  PROVE  Quiet(S, [T EXCEPT !.draft.status = x])
<1>1. \A d \in DraftRow : /\ [d EXCEPT !.status = x] \in DraftRow
                           /\ [d EXCEPT !.status = x].published = d.published
  BY DEF DraftRow
<1>2. T.draft \in DraftRow
  BY DEF Quiet, Database
<1> QED BY <1>1, <1>2 DEF Quiet, Database

\* A version that exists shows a status a creation can have.
LEMMA ShownStatus ==
  VersionStatus \ {"none"} \subseteq DraftStatus
  BY DEF VersionStatus, DraftStatus, Closed, Active

\* _sync_creation publishes nothing.
LEMMA SyncQuiet ==
  ASSUME NEW S \in Database, NEW T, Quiet(S, T), Existing(T) # {}
  PROVE  Quiet(S, Sync(T))
<1> DEFINE current == IF With(T, Active) # {} THEN Min(With(T, Active))
                      ELSE Max(Existing(T))
<1>1. current \in Existing(T)
  <2>1. /\ With(T, Active) \subseteq Existing(T)
        /\ With(T, Active) \subseteq Numbers
        /\ Existing(T) \subseteq Numbers
    BY DEF With, Existing, Active
  <2> QED BY <2>1, MinIn, MaxIn
<1>2. T.version[current].status \in DraftStatus
  BY <1>1, ShownStatus DEF Existing, Quiet, Database, VersionRow
<1>3. Quiet(S, [T EXCEPT !.draft.status = T.version[current].status])
  BY <1>2, DraftQuiet
<1>4. \/ Sync(T) = T
      \/ Sync(T) = [T EXCEPT !.draft.status = T.version[current].status]
  BY DEF Sync
<1> QED BY <1>3, <1>4

\* A transition of a version by the coordinator publishes nothing.
LEMMA TurnedQuiet ==
  ASSUME NEW S \in Database, NEW v \in Numbers,
         NEW x \in VersionStatus \ {"published", "none"}
  PROVE  Quiet(S, Turned(S, v, x))
<1> DEFINE T == [S EXCEPT !.version[v].status = x]
<1>1. Quiet(S, T) /\ T.version[v].status = x
  BY StatusQuiet
<1>2. v \in Existing(T)
  BY <1>1 DEF Existing
<1> HIDE DEF T
<1>3. Quiet(S, Sync(T))
  BY <1>1, <1>2, SyncQuiet
<1> QED BY <1>3 DEF Turned, T

\* A row written by a handler that does not publish.
LEMMA RowQuiet ==
  ASSUME NEW S \in Database, NEW v \in Numbers, NEW r \in VersionRow,
         r.status # "published", NEW x \in DraftStatus
  PROVE  Quiet(S, [S EXCEPT !.version[v] = r, !.draft.status = x])
<1> DEFINE T == [S EXCEPT !.version[v] = r]
<1>1. /\ T.version = [S.version EXCEPT ![v] = r] /\ T.draft = S.draft
      /\ T \in Database
  BY DEF Database
<1>2. Quiet(S, T)
  BY <1>1 DEF Quiet, Database
<1>3. Quiet(S, [T EXCEPT !.draft.status = x])
  BY <1>2, DraftQuiet
<1>4. [S EXCEPT !.version[v] = r, !.draft.status = x] = [T EXCEPT !.draft.status = x]
  BY DEF Database
<1> QED BY <1>3, <1>4

\* Adding a version.
LEMMA AddedQuiet ==
  ASSUME NEW S \in Database, NEW n \in Numbers, NEW x \in {"queued", "ready"}
  PROVE  Quiet(S, Added(S, n, x))
<1> DEFINE r == [NoVersion EXCEPT !.status = x]
<1>1. 0 \in Retries
  BY ConstantsAssumption DEF Retries
<1>2. r \in VersionRow /\ r.status = x
  BY <1>1 DEF NoVersion, VersionRow, VersionStatus, Active
<1>3. x \in DraftStatus
  BY DEF DraftStatus, Active
<1> HIDE DEF r
<1>4. Quiet(S, [S EXCEPT !.version[n] = r, !.draft.status = x])
  BY <1>2, <1>3, RowQuiet
<1> QED BY <1>4 DEF Added, r

\* Cancelling a version.
LEMMA CancelQuiet ==
  ASSUME NEW S \in Database, NEW v \in Numbers
  PROVE  /\ Quiet(S, CancelVersionRow(S, v))
         /\ S.version[v].status # "none" =>
              CancelVersionRow(S, v).version[v].status # "none"
<1> DEFINE T == [S EXCEPT !.version[v].cancel = TRUE]
<1>1. \A r \in VersionRow : /\ [r EXCEPT !.cancel = TRUE] \in VersionRow
                             /\ [r EXCEPT !.cancel = TRUE].status = r.status
  BY DEF VersionRow
<1>2. /\ S.version \in [Numbers -> VersionRow] /\ S.draft \in DraftRow
      /\ T.draft = S.draft
      /\ T.version = [S.version EXCEPT ![v] = [S.version[v] EXCEPT !.cancel = TRUE]]
  BY DEF Database
<1>3. T \in Database
  BY <1>1, <1>2 DEF Database
<1>4. Quiet(S, T) /\ T.version[v].status = S.version[v].status
  BY <1>1, <1>2, <1>3 DEF Quiet
<1>5. Quiet(S, S)
  BY DEF Quiet
<1>6. /\ Quiet(S, [S EXCEPT !.version[v].status = "cancelled"])
      /\ [S EXCEPT !.version[v].status = "cancelled"].version[v].status = "cancelled"
  BY StatusQuiet DEF VersionStatus
<1> HIDE DEF T
<1>7. CancelVersionRow(S, v) \in {S, T, [S EXCEPT !.version[v].status = "cancelled"]}
  BY DEF CancelVersionRow, T
<1> QED BY <1>4, <1>5, <1>6, <1>7

\* Cancelling every active version of an abandoned creation.
LEMMA AbandonQuiet ==
  ASSUME NEW S \in Database
  PROVE  Quiet(S, [S EXCEPT
           !.version = [v \in Numbers |-> CancelVersionRow(S, v).version[v]],
           !.draft.status = "abandoned"])
<1>1. PICK W : W = [v \in Numbers |-> CancelVersionRow(S, v).version[v]]
  OBVIOUS
<1>2. ASSUME NEW n \in Numbers
      PROVE  /\ W[n] \in VersionRow
             /\ W[n].status = "published" => S.version[n].status = "published"
  <2>1. Quiet(S, CancelVersionRow(S, n))
    BY CancelQuiet
  <2>2. W[n] = CancelVersionRow(S, n).version[n]
    BY <1>1
  <2> QED BY <2>1, <2>2 DEF Quiet, Database
<1>3. W = [n \in Numbers |-> W[n]]
  BY <1>1
<1>4. W \in [Numbers -> VersionRow]
  BY <1>2, <1>3
<1> DEFINE T == [S EXCEPT !.version = W]
<1>5. T.version = W /\ T.draft = S.draft /\ T \in Database
  BY <1>4 DEF Database
<1>6. Quiet(S, T)
  BY <1>2, <1>5 DEF Quiet
<1>7. Quiet(S, [T EXCEPT !.draft.status = "abandoned"])
  BY <1>6, DraftQuiet DEF DraftStatus, Closed
<1>8. [T EXCEPT !.draft.status = "abandoned"]
        = [S EXCEPT !.version = W, !.draft.status = "abandoned"]
  BY DEF Database
<1> QED BY <1>1, <1>7, <1>8

\* A request that publishes nothing.
LEMMA RespondQuiet ==
  ASSUME Good, NEW c \in Clients, session[c] \in Database,
         NEW T, Quiet(session[c], T), Respond(c, T)
  PROVE  Good'
<1>1. Commit(session[c], T) /\ T \in Database
  BY DEF Respond, Quiet
<1>2. Single'
  BY <1>1, QuietCommit
<1>3. /\ version' \in [Numbers -> VersionRow] /\ draft' \in DraftRow
      /\ upload' \in {"pending", "ready", "failed"}
  BY <1>1, CommitType DEF Good
<1>4. TypeOK'
  BY <1>3 DEF Respond, Good, TypeOK
<1> QED BY <1>2, <1>4 DEF Good

\* The session of a publication, by its rows.
LEMMA PublishedSession ==
  ASSUME NEW S \in Database, NEW v \in Numbers
  PROVE  [S EXCEPT !.version[v].status = "published",
                   !.draft = [status |-> "pending_review", published |-> TRUE]]
           = [version |-> [S.version EXCEPT ![v] =
                             [S.version[v] EXCEPT !.status = "published"]],
              draft |-> [status |-> "pending_review", published |-> TRUE]]
<1> DEFINE X == [S EXCEPT !.version[v].status = "published"]
           d == [status |-> "pending_review", published |-> TRUE]
<1>1. [S EXCEPT !.version[v].status = "published", !.draft = d]
        = [X EXCEPT !.draft = d]
  BY DEF Database
<1>2. X = [version |-> [S.version EXCEPT ![v] =
                          [S.version[v] EXCEPT !.status = "published"]],
           draft |-> S.draft]
  BY DEF Database
<1> HIDE DEF X, d
<1>3. [X EXCEPT !.draft = d]
        = [version |-> [S.version EXCEPT ![v] =
                          [S.version[v] EXCEPT !.status = "published"]],
           draft |-> d]
  BY <1>2
<1> QED BY <1>1, <1>3 DEF d

\* A request that publishes makes the video, and nothing was published before:
\* the handler saw no video, and the video's key was still free.
LEMMA PublishGood ==
  ASSUME Good, NEW c \in Clients, NEW v \in Numbers, PublishCreation(c, v)
  PROVE  Good'
<1> DEFINE S == session[c]
           d == [status |-> "pending_review", published |-> TRUE]
           T == [S EXCEPT !.version[v].status = "published", !.draft = d]
<1>1. S \in Database /\ ~ S.draft.published /\ Respond(c, T)
  BY DEF PublishCreation, Publishable, Good, TypeOK
<1>2. /\ S.version \in [Numbers -> VersionRow] /\ S.draft \in DraftRow
      /\ T.version = [S.version EXCEPT ![v] = [S.version[v] EXCEPT !.status = "published"]]
      /\ T.draft = d
      /\ T = [version |-> T.version, draft |-> T.draft]
  <2>1. /\ S = [version |-> S.version, draft |-> S.draft]
        /\ S.version \in [Numbers -> VersionRow] /\ S.draft \in DraftRow
    BY <1>1 DEF Database
  <2>2. T = [version |-> [S.version EXCEPT ![v] =
                            [S.version[v] EXCEPT !.status = "published"]],
             draft |-> d]
    BY <1>1, PublishedSession
  <2> HIDE DEF T, d
  <2> QED BY <2>1, <2>2
<1>3. d \in DraftRow /\ d.published
  BY <1>2 DEF DraftRow, DraftStatus, Closed
<1>4. T.version \in [Numbers -> VersionRow]
  <2>1. \A r \in VersionRow : [r EXCEPT !.status = "published"] \in VersionRow
    BY DEF VersionRow, VersionStatus
  <2> QED BY <1>2, <2>1
<1>5. T \in Database
  BY <1>2, <1>3, <1>4 DEF Database
<1>6. Commit(S, T)
  BY <1>1 DEF Respond
<1>7. ~ draft.published
  BY <1>1, <1>2, <1>3, <1>6 DEF Commit, Conflict, Good, TypeOK, DraftRow
<1>8. \A n \in Numbers : version[n].status # "published"
  BY <1>7 DEF Good, Single
<1>9. \A n \in Numbers \ {v} : T.version[n] = S.version[n]
  BY <1>2
<1> HIDE DEF T
<1>10. /\ version' \in [Numbers -> VersionRow] /\ draft' \in DraftRow
       /\ upload' \in {"pending", "ready", "failed"}
       /\ draft'.published
       /\ \A n \in Numbers \ {v} : version'[n].status = version[n].status
  <2>1. /\ version' \in [Numbers -> VersionRow] /\ draft' \in DraftRow
        /\ upload' \in {"pending", "ready", "failed"}
        /\ \A n \in Numbers : version'[n].status =
             IF T.version[n].status = S.version[n].status
             THEN version[n].status ELSE T.version[n].status
        /\ draft'.published =
             IF T.draft.published = S.draft.published
             THEN draft.published ELSE T.draft.published
    BY <1>1, <1>5, <1>6, CommitType DEF Good
  <2>2. T.draft.published /\ S.draft.published = FALSE
    BY <1>1, <1>2, <1>3 DEF DraftRow
  <2>3. draft'.published
    BY <2>1, <2>2
  <2> QED BY <1>9, <2>1, <2>3
<1>11. Single'
  BY <1>8, <1>10 DEF Single
<1>12. TypeOK'
  BY <1>1, <1>10 DEF Respond, Good, TypeOK
<1> QED BY <1>11, <1>12 DEF Good

\* Every handler.
LEMMA HandlerGood ==
  ASSUME Good, NEW c \in Clients, Handler(c)
  PROVE  Good'
<1> DEFINE S == session[c]
<1>1. S # None => S \in Database
  BY DEF Good, TypeOK
<1>2. CASE CreateVersion(c)
  <2>1. Quiet(S, Added(S, NextNumber(S), "queued"))
    BY <1>1, <1>2, AddedQuiet DEF CreateVersion
  <2> QED BY <1>1, <1>2, <2>1, RespondQuiet DEF CreateVersion
<1>3. CASE SaveManualEdits(c)
  <2>1. Quiet(S, Added(S, NextNumber(S), "ready"))
    BY <1>1, <1>3, AddedQuiet DEF SaveManualEdits
  <2> QED BY <1>1, <1>3, <2>1, RespondQuiet DEF SaveManualEdits
<1>4. ASSUME NEW v \in Numbers, CancelVersion(c, v)
      PROVE  Good'
  <2> DEFINE T == CancelVersionRow(S, v)
  <2>1. S \in Database /\ S.version[v].status # "none"
    BY <1>1, <1>4 DEF CancelVersion, With, Active
  <2>2. Quiet(S, T) /\ T.version[v].status # "none"
    BY <2>1, CancelQuiet
  <2>3. T.version[v].status \in DraftStatus
    BY <2>2, ShownStatus DEF Quiet, Database, VersionRow
  <2>4. Quiet(S, [T EXCEPT !.draft.status = T.version[v].status])
    BY <2>1, <2>2, <2>3, DraftQuiet
  <2> QED BY <1>4, <2>1, <2>4, RespondQuiet DEF CancelVersion
<1>5. CASE CancelCreation(c)
  <2>1. Min(With(S, Active)) \in Numbers
    BY <1>5, MinIn DEF CancelCreation, With
  <2> QED BY <1>4, <1>5, <2>1 DEF CancelCreation
<1>6. CASE AbandonCreation(c)
  <2> DEFINE T == [S EXCEPT
                    !.version = [v \in Numbers |-> CancelVersionRow(S, v).version[v]],
                    !.draft.status = "abandoned"]
  <2>1. S \in Database
    BY <1>1, <1>6 DEF AbandonCreation
  <2>2. Quiet(S, T)
    BY <2>1, AbandonQuiet
  <2>3. Respond(c, T)
    BY <1>6 DEF AbandonCreation
  <2> QED BY <2>1, <2>2, <2>3, RespondQuiet
<1>7. ASSUME NEW v \in Numbers, RetryVersion(c, v)
      PROVE  Good'
  <2> DEFINE r == [NoVersion EXCEPT !.status = "queued",
                                    !.retry = S.version[v].retry + 1]
  <2>1. S \in Database
    BY <1>1, <1>7 DEF RetryVersion
  <2>2. S.version[v].retry + 1 \in Retries
    BY <1>7, <2>1, ConstantsAssumption
       DEF RetryVersion, Database, VersionRow, Retries
  <2>3. r \in VersionRow /\ r.status = "queued"
    BY <2>2 DEF NoVersion, VersionRow, VersionStatus, Active
  <2>4. "queued" \in DraftStatus
    BY DEF DraftStatus, Active
  <2> HIDE DEF r
  <2>5. Quiet(S, [S EXCEPT !.version[v] = r, !.draft.status = "queued"])
    BY <2>1, <2>3, <2>4, RowQuiet
  <2>6. Respond(c, [S EXCEPT !.version[v] = r, !.draft.status = "queued"])
    BY <1>7 DEF RetryVersion, r
  <2> QED BY <2>1, <2>5, <2>6, RespondQuiet
<1> QED
  BY <1>2, <1>3, <1>4, <1>5, <1>6, <1>7, PublishGood DEF Handler

(***************************************************************************)
(* The coordinator.                                                        *)
(***************************************************************************)
\* A coordinator that has a transaction open holds its snapshot.
LEMMA WorkerType ==
  ASSUME TypeOK
  PROVE  /\ worker.pc # "idle" => worker \in Work /\ worker.v \in Numbers
         /\ worker.pc \in {"work", "replied", "failing"} => worker.snap \in Database
         /\ worker.pc = "replied" => worker.reply \in Replies
<1>1. CASE worker \in Work
  BY <1>1 DEF Work
<1>2. CASE worker = NoWork
  BY <1>2 DEF NoWork
<1> QED BY <1>1, <1>2 DEF TypeOK

\* A change of the worker alone.
LEMMA GotoGood ==
  ASSUME Good, UNCHANGED <<db, remote, session, crashes>>,
         worker' \in Work \cup {NoWork}
  PROVE  Good'
  BY DEF Good, TypeOK, Single, db

\* A commit of the coordinator that publishes nothing.
LEMMA DoneGood ==
  ASSUME Good, worker.snap \in Database, NEW T, Quiet(worker.snap, T), Done(T)
  PROVE  Good'
<1>1. Commit(worker.snap, T) /\ T \in Database
  BY DEF Done, Quiet
<1>2. Single'
  BY <1>1, QuietCommit
<1>3. /\ version' \in [Numbers -> VersionRow] /\ draft' \in DraftRow
      /\ upload' \in {"pending", "ready", "failed"}
  BY <1>1, CommitType DEF Good
<1>4. TypeOK'
  BY <1>3 DEF Done, Good, TypeOK
<1> QED BY <1>2, <1>4 DEF Good

\* A tick that records a status of its version.
LEMMA TurnGood ==
  ASSUME Good, worker.pc \in {"work", "replied", "failing"},
         NEW x \in VersionStatus \ {"published", "none"},
         Done(Turned(worker.snap, worker.v, x))
  PROVE  Good'
<1>1. worker.snap \in Database /\ worker.v \in Numbers
  BY WorkerType DEF Good
<1>2. Quiet(worker.snap, Turned(worker.snap, worker.v, x))
  BY <1>1, TurnedQuiet
<1> QED BY <1>1, <1>2, DoneGood

\* The next state of the coordinator, when it goes on.
LEMMA GotoType ==
  ASSUME Good, worker.pc # "idle", NEW pc, NEW locked \in BOOLEAN, NEW snap,
         Goto(pc, locked, snap, "none"),
         \/ pc \in {"work", "failing"} /\ snap \in Database
         \/ pc \in {"claimed", "fail"} /\ snap = None /\ locked = FALSE
  PROVE  worker' \in Work
  BY WorkerType DEF Good, Goto, Work

\* Claiming a version.
LEMMA ClaimGood ==
  ASSUME Good, Claim
  PROVE  Good'
<1> DEFINE v == Min(With(Snapshot, Active))
<1>1. v \in Numbers /\ Snapshot \in Database
  BY MinIn, SnapshotType DEF Claim, With, Good
<1>2. "running" \in VersionStatus \ {"published", "none"}
  BY DEF VersionStatus, Active
<1>3. CASE /\ Commit(Snapshot, Turned(Snapshot, v, "running"))
           /\ worker' = [NoWork EXCEPT !.pc = "claimed", !.v = v]
  <2>1. Quiet(Snapshot, Turned(Snapshot, v, "running"))
    BY <1>1, <1>2, TurnedQuiet
  <2>2. Single'
    BY <1>1, <1>3, <2>1, QuietCommit
  <2>3. /\ version' \in [Numbers -> VersionRow] /\ draft' \in DraftRow
        /\ upload' \in {"pending", "ready", "failed"}
    BY <1>1, <1>3, <2>1, CommitType DEF Good, Quiet
  <2>4. worker' \in Work
    BY <1>1, <1>2, <1>3 DEF NoWork, Work
  <2>5. TypeOK'
    BY <2>3, <2>4 DEF Claim, Good, TypeOK
  <2> QED BY <2>2, <2>5 DEF Good
<1>4. CASE /\ worker' = [pc |-> "work", v |-> v, locked |-> TRUE,
                         snap |-> Snapshot, reply |-> "none"]
           /\ UNCHANGED db
  <2>1. worker' \in Work
    BY <1>1, <1>2, <1>4 DEF Work
  <2> QED BY <1>4, <2>1, GotoGood DEF Claim
<1> QED BY <1>3, <1>4 DEF Claim

\* The call to ivadmin.
LEMMA CallGood ==
  ASSUME Good, CallIvadmin
  PROVE  Good'
<1> DEFINE r == worker.snap.version[worker.v]
           k == <<worker.v, JobOf(r)>>
<1>1. worker \in Work /\ worker.v \in Numbers /\ worker.snap \in Database
  BY WorkerType DEF CallIvadmin, Good
<1>2. JobOf(r) \in Retries
  BY <1>1 DEF JobOf, Database, VersionRow
<1>3. remote \in [Numbers \X Retries -> RemoteStatus] /\ k \in Numbers \X Retries
  BY <1>1, <1>2 DEF Good, TypeOK
<1> HIDE DEF k, r
<1>4. remote' \in [Numbers \X Retries -> RemoteStatus]
  <2>1. \/ \E x \in RemoteStatus : remote' = [remote EXCEPT ![k] = x]
        \/ remote' = remote
    BY <1>3 DEF CallIvadmin, RemoteStatus, k, r
  <2> QED BY <1>3, <2>1
<1>5. worker' \in Work
  <2>1. \A x \in Replies : [worker EXCEPT !.pc = "replied", !.reply = x] \in Work
    BY <1>1 DEF CallIvadmin, Work
  <2>2. \E x \in Replies : worker' = [worker EXCEPT !.pc = "replied", !.reply = x]
    BY <1>3 DEF CallIvadmin, Replies, RemoteStatus, k, r
  <2> QED BY <2>1, <2>2
<1> QED BY <1>4, <1>5 DEF CallIvadmin, Good, TypeOK, Single, db

\* Recording ivadmin's answer.
LEMMA ReplyGood ==
  ASSUME Good, ApplyReply
  PROVE  Good'
<1> DEFINE v == worker.v
           S == worker.snap
           j == JobOf(S.version[v])
           U == [S EXCEPT !.version[v].job = j]
<1>1. worker \in Work /\ v \in Numbers /\ S \in Database
  BY WorkerType DEF ApplyReply, Good
<1>2. j \in Retries
  BY <1>1 DEF JobOf, Database, VersionRow
<1>3. \A r \in VersionRow : /\ [r EXCEPT !.job = j] \in VersionRow
                             /\ [r EXCEPT !.job = j].status = r.status
  BY <1>2 DEF VersionRow
<1>4. /\ S.version \in [Numbers -> VersionRow] /\ S.draft \in DraftRow
      /\ U.draft = S.draft
      /\ U.version = [S.version EXCEPT ![v] = [S.version[v] EXCEPT !.job = j]]
  BY <1>1 DEF Database
<1>5. U \in Database
  BY <1>1, <1>3, <1>4 DEF Database
<1>6. Quiet(S, U)
  BY <1>1, <1>3, <1>4, <1>5 DEF Quiet
<1>7. worker.reply \in VersionStatus \ {"published", "none"}
  BY WorkerType
     DEF Good, ApplyReply, Replies, RemoteStatus, VersionStatus, Active
<1> HIDE DEF U
<1>8. Quiet(U, Turned(U, v, worker.reply))
  BY <1>1, <1>5, <1>7, TurnedQuiet
<1>9. Quiet(S, Turned(U, v, worker.reply))
  BY <1>6, <1>8 DEF Quiet
<1>10. Done(Turned(U, v, worker.reply))
  BY DEF ApplyReply, U
<1> QED BY <1>1, <1>9, <1>10, DoneGood

\* Every step of a tick.
LEMMA TickGood ==
  ASSUME Good, Tick
  PROVE  Good'
<1>1. CASE Refresh
  <2>1. worker' \in Work
    BY <1>1, GotoType, SnapshotType DEF Refresh, Good
  <2> QED BY <1>1, <2>1, GotoGood DEF Refresh
<1>2. {"running", "cancelled", "failed"} \subseteq VersionStatus \ {"published", "none"}
  BY DEF VersionStatus, Active
<1>3. CASE AwaitUpload
  BY <1>2, <1>3, TurnGood DEF AwaitUpload
<1>4. CASE CancelLocally
  BY <1>2, <1>4, TurnGood DEF CancelLocally
<1>5. CASE UploadMissing
  <2>1. worker' \in Work \cup {NoWork}
    BY <1>5, GotoType DEF UploadMissing
  <2> QED BY <1>5, <2>1, GotoGood DEF UploadMissing
<1>6. CASE CallLost
  BY <1>6, GotoGood DEF CallLost
<1>7. CASE CallRejected
  <2>1. worker' \in Work
    BY <1>7, GotoType DEF CallRejected
  <2> QED BY <1>7, <2>1, GotoGood DEF CallRejected
<1>8. CASE FailRead
  <2>1. worker' \in Work
    BY <1>8, GotoType, SnapshotType DEF FailRead, Good
  <2> QED BY <1>8, <2>1, GotoGood DEF FailRead
<1>9. CASE FailCommit
  BY <1>2, <1>9, TurnGood DEF FailCommit
<1> QED
  BY <1>1, <1>3, <1>4, <1>5, <1>6, <1>7, <1>8, <1>9, CallGood, ReplyGood DEF Tick

\* The inductive invariant.
LEMMA GoodStep ==
  ASSUME Good, [Next]_vars
  PROVE  Good'
<1>1. CASE UNCHANGED vars
  BY <1>1 DEF Good, TypeOK, Single, vars
<1>2. ASSUME NEW c \in Clients, Begin(c)
      PROVE  Good'
  BY <1>2, SnapshotType DEF Begin, Good, TypeOK, Single, db
<1>3. ASSUME NEW c \in Clients, RequestEnds(c)
      PROVE  Good'
  BY <1>3 DEF RequestEnds, Good, TypeOK, Single, db
<1>4. CASE DeadlockVictim
  <2>1. worker' \in Work
    BY <1>4, GotoType DEF DeadlockVictim
  <2> QED BY <1>4, <2>1, GotoGood DEF DeadlockVictim
<1>5. CASE NormalizeUpload
  BY <1>5 DEF NormalizeUpload, Good, TypeOK, Single
<1>6. CASE Crash
  BY <1>6, ConstantsAssumption DEF Crash, Good, TypeOK, Single, db
<1> QED
  BY <1>1, <1>2, <1>3, <1>4, <1>5, <1>6, HandlerGood, ClaimGood, TickGood DEF Next

LEMMA GoodInit ==
  ASSUME Init
  PROVE  Good
<1>1. 0 \in Retries /\ 0 \in 0..MaxCrashes
  BY ConstantsAssumption DEF Retries
<1>2. NoVersion \in VersionRow /\ NoVersion.status = "none"
  BY <1>1 DEF NoVersion, VersionRow, VersionStatus
<1>3. draft \in DraftRow
  BY DEF Init, DraftRow, DraftStatus
<1>4. TypeOK
  BY <1>1, <1>2, <1>3 DEF Init, TypeOK, RemoteStatus
<1>5. Single
  BY <1>2 DEF Init, Single
<1> QED BY <1>4, <1>5 DEF Good

LEMMA GoodInvariant == Spec => []Good
<1>1. Init => Good
  BY GoodInit
<1>2. Good /\ [Next]_vars => Good'
  BY GoodStep
<1> QED BY <1>1, <1>2, PTL DEF Spec

\* Every reachable state is well-typed, and so is what every request and the
\* coordinator hold of the rows they read.
THEOREM TypeCorrect == Spec => []TypeOK
<1>1. Good => TypeOK
  BY DEF Good
<1> QED BY <1>1, GoodInvariant, PTL

\* A creation is published once, however many requests with however old
\* snapshots overlap: publish_creation inserts the video under the creation's
\* id, and nothing else publishes a version.
THEOREM PublishedIsOnce == Spec => []PublishedOnce
<1>1. ASSUME Good
      PROVE  PublishedOnce
  <2> DEFINE P == With(Snapshot, {"published"})
  <2>1. P = {n \in Numbers : version[n].status = "published"}
    BY DEF With, Snapshot
  <2>2. CASE P = {}
    BY <2>2, FS_EmptySet DEF PublishedOnce
  <2>3. ASSUME NEW n \in P
        PROVE  PublishedOnce
    <3>1. P = {n} /\ draft.published
      BY <1>1, <2>1, <2>3 DEF Good, Single
    <3>2. Cardinality(P) = 1
      BY <3>1, FS_Singleton
    <3> QED BY <3>1, <3>2 DEF PublishedOnce
  <2> QED BY <2>2, <2>3
<1> QED BY <1>1, GoodInvariant, PTL

-----------------------------------------------------------------------------
(***************************************************************************)
(* The Story.  Rows are sound as long as no request has decided blindly:   *)
(* StoryInv says so of the rows, of what the requests have read of them    *)
(* and of what the tick has.  A Story is on its way as long as nothing has *)
(* been decided blindly: WayInv.                                           *)
(***************************************************************************)
\* The rows of a Story.
CreationRow == [status : {"source_ready", "running", "ready", "pending_review", "abandoned"},
                story : BOOLEAN, active : Nat]
StoryRows == [plan : Story!Plan \cup {NoRow}, creation : CreationRow,
              gen : [Story!Gens -> Story!Gen],
              versions : Seq(Story!Version)]
StoryTyped(d) == /\ d \in StoryRows
                 /\ \A g \in Story!Gens : d.gen[g].status = "none" => d.gen[g] = Story!NoGen

\* A version of the clips that plan p names.
Matches(v, p) == v.rev = p.rev /\ v.ids = p.ids /\ v.cut = p.cut

\* All the clips of the plan are there.
ClipsAreThere(d) ==
    /\ d.plan.cut # NoRow
    /\ \A role \in Story!Roles \ {d.plan.values.owner} :
          d.plan.ids[role] # NoRow /\ d.gen[d.plan.ids[role]].status = "ready"

\* The endings that a plan names are made from what it says.
PlanIsMade(d) ==
    d.plan # NoRow => \A role \in Story!Roles :
        /\ role = d.plan.values.owner => d.plan.ids[role] = NoRow
        /\ d.plan.ids[role] # NoRow =>
              /\ d.plan.ids[role] \in Story!Gens
              /\ d.gen[d.plan.ids[role]].status # "none"
              /\ d.gen[d.plan.ids[role]].input = Story!VideoInput(d.plan.values, role)

\* Versions are of the plan's revision, with its cut, or of earlier ones.
VersionIsMade(d, v) ==
    /\ v.cut # NoRow
    /\ v.rev =< d.plan.rev
    /\ v.rev = d.plan.rev => v.cut = d.plan.cut
    /\ \A role \in Story!Roles : v.ids[role] # NoRow =>
          v.ids[role] \in Story!Gens /\ d.gen[v.ids[role]].status # "none"

\* Once a version is of the plan's clips, the plan is ready and so are all later versions.
VersionsAreMade(d) ==
    /\ \A n \in DOMAIN d.versions :
          /\ d.plan # NoRow
          /\ VersionIsMade(d, d.versions[n])
          /\ Matches(d.versions[n], d.plan) => d.plan.status = "ready"
    /\ \A m, n \in DOMAIN d.versions :
          m < n /\ Matches(d.versions[m], d.plan) => Matches(d.versions[n], d.plan)

ReadyIsMade(d) ==
    /\ d.creation.active =< Len(d.versions)
    /\ d.creation.status = "ready" => d.plan # NoRow /\ d.plan.status = "ready"
    /\ d.plan # NoRow /\ d.plan.status = "ready" =>
          /\ d.creation.status \in {"ready", "pending_review", "abandoned"}
          /\ ClipsAreThere(d)
          /\ d.creation.active \in DOMAIN d.versions
          /\ Matches(d.versions[d.creation.active], d.plan)

StorySound(d) == StoryTyped(d) /\ PlanIsMade(d) /\ VersionsAreMade(d) /\ ReadyIsMade(d)

\* What rows d keep of rows s that were there before.
Earlier(s, d) ==
    /\ \A g \in Story!Gens : s.gen[g].status # "none" =>
          d.gen[g].status # "none" /\ d.gen[g].input = s.gen[g].input
    /\ \A g \in Story!Gens : s.gen[g].status = "ready" => d.gen[g].status = "ready"
    /\ Len(s.versions) =< Len(d.versions)
    /\ \A n \in DOMAIN s.versions : Story!MadeOf(s.versions[n]) = Story!MadeOf(d.versions[n])
    /\ s.creation.story => d.creation.story

\* The coordinator's tick.
WithSnapshot == {"read", "cutting", "work", "failing"}
TickRow == [pc : {"idle", "claimed", "read", "cutting", "cut", "work", "fail", "failing"},
            g : Story!Gens \cup {NoRow}, locked : BOOLEAN, held : BOOLEAN, db : {tick.db}]
TickIsSound ==
    /\ tick.pc # "idle" => tick.g \in Story!Gens /\ rows.gen[tick.g].status = "running"
    /\ tick.pc \in WithSnapshot =>
          /\ StoryTyped(tick.db) /\ Earlier(tick.db, rows)
          /\ tick.db.gen[tick.g].status = "running"
          /\ \A g \in Story!Gens : rows.gen[g].status = "ready" => tick.db.gen[g].status = "ready"
    /\ tick.pc = "cutting" => tick.held /\ rows.plan # NoRow /\ Story!NeedsCut(rows.plan)

StoryShape == /\ req = [r \in Requests |-> req[r]]
              /\ tick \in TickRow

StoryInv ==
    /\ StoryShape
    /\ "request" \notin blind =>
          /\ StorySound(rows)
          /\ \A r \in Requests : req[r] # NoRow => StorySound(req[r]) /\ Earlier(req[r], rows)
          /\ TickIsSound

\* What a Story that is being generated waits for, and what has become of one that is not
\* edited any more.
OnItsWay(d) ==
    /\ d.plan # NoRow /\ Story!Editable(d) /\ d.plan.status = "generating" =>
          \/ d.plan.cut = NoRow
          \/ \E role \in Story!Roles \ {d.plan.values.owner} : Story!ClipStatus(d, role) =
               "pending"
          \/ \E g \in Story!Gens : d.gen[g].status \in Story!Active
    /\ d.creation.status = "pending_review" => d.plan # NoRow /\ d.plan.status = "ready"
    /\ d.plan # NoRow /\ d.creation.status = "abandoned" =>
          \A role \in Story!Roles : d.plan.ids[role] # NoRow =>
             d.plan.ids[role] \in Story!Gens /\ d.gen[d.plan.ids[role]].status # "queued"

\* A plan is one of a Story, and a queued ending has not been submitted.
Started(d) == /\ d.plan # NoRow => d.creation.story
              /\ \A g \in Story!Gens : d.gen[g].status = "queued" => ~d.gen[g].job

WayInv ==
    blind = {} => /\ OnItsWay(rows) /\ Started(rows)
                  /\ \A r \in Requests : req[r] # NoRow => Started(req[r])

\* What a request does to the way that rows s are on.
Starts(s, t) ==
    Started(s) => /\ Started(t)
                  /\ \A g \in Story!Gens : t.gen[g].status = "queued" =>
                                     t.gen[g] = s.gen[g] \/ s.gen[g].status = "none"
WayStays(s, t) == Starts(s, t) /\ (OnItsWay(s) /\ Started(s) => OnItsWay(t))

\* What a step leaves of the Story's way, if nothing has been decided blindly.
Goes(s, d) == blind' = {} /\ OnItsWay(rows) /\ Started(rows) /\ Started(s) => OnItsWay(d)
/\ Started(d)

-----------------------------------------------------------------------------
\* What rows keep of rows they keep something of.
LEMMA EarlierStill ==
  ASSUME NEW s, NEW c, NEW d, StoryTyped(s), StoryTyped(c), StoryTyped(d),
         Earlier(s, c), Earlier(c, d)
  PROVE  Earlier(s, d)
<1>1. s.versions \in Seq(Story!Version) /\ c.versions \in Seq(Story!Version)
      /\ d.versions \in Seq(Story!Version)
  BY DEF StoryTyped, StoryRows
<1>2. Len(s.versions) \in Nat /\ Len(c.versions) \in Nat /\ Len(d.versions) \in Nat
  BY <1>1, LenProperties
<1>3. Len(s.versions) =< Len(d.versions)
  BY <1>2 DEF Earlier
<1>4. ASSUME NEW n \in DOMAIN s.versions
      PROVE Story!MadeOf(s.versions[n]) = Story!MadeOf(d.versions[n])
  <2>1. DOMAIN s.versions = 1..Len(s.versions) /\ DOMAIN c.versions = 1..Len(c.versions)
    BY <1>1, LenProperties
  <2>2. n \in DOMAIN c.versions
    BY <1>2, <2>1 DEF Earlier
  <2> QED BY <2>2 DEF Earlier
<1>5. \A g \in Story!Gens : s.gen[g].status # "none" =>
          d.gen[g].status # "none" /\ d.gen[g].input = s.gen[g].input
  BY DEF Earlier
<1>6. \A g \in Story!Gens : s.gen[g].status = "ready" => d.gen[g].status = "ready"
  BY DEF Earlier
<1>7. s.creation.story => d.creation.story
  BY DEF Earlier
<1> QED BY <1>3, <1>4, <1>5, <1>6, <1>7 DEF Earlier

\* Rows that have new clips, or keep theirs and may have a version of them more, are sound
\* as to their versions.
LEMMA VersionsStay ==
  ASSUME NEW c, NEW d, StoryTyped(c), StoryTyped(d), VersionsAreMade(c), Earlier(c, d),
         c.plan # NoRow => d.plan # NoRow,
         \/ /\ Len(d.versions) = Len(c.versions)
            /\ c.plan # NoRow => c.plan.rev =< d.plan.rev
            /\ c.plan # NoRow /\ c.plan.rev = d.plan.rev =>
                    c.plan.cut = NoRow \/ c.plan.cut = d.plan.cut
            /\ c.plan # NoRow => \A n \in DOMAIN c.versions : ~Matches(c.versions[n], d.plan)
         \/ /\ c.plan # NoRow
            /\ d.plan.rev = c.plan.rev /\ d.plan.ids = c.plan.ids /\ d.plan.cut = c.plan.cut
            /\ c.plan.status = "ready" => d.plan.status = "ready"
            /\ \/ Len(d.versions) = Len(c.versions)
               \/ /\ Len(d.versions) = Len(c.versions) + 1
                  /\ d.plan.status = "ready"
                  /\ VersionIsMade(d, d.versions[Len(d.versions)])
                  /\ Matches(d.versions[Len(d.versions)], d.plan)
         \/ /\ d.plan = c.plan
            /\ Len(d.versions) = Len(c.versions)
  PROVE  VersionsAreMade(d)
<1> DEFINE L == Len(c.versions)
           Made1(n) == /\ d.plan # NoRow
                       /\ VersionIsMade(d, d.versions[n])
                       /\ Matches(d.versions[n], d.plan) => d.plan.status = "ready"
<1>1. /\ DOMAIN c.versions = 1..L /\ DOMAIN d.versions = 1..Len(d.versions)
      /\ L \in Nat /\ Len(d.versions) \in Nat
  BY LenProperties DEF StoryTyped, StoryRows
<1>2. L =< Len(d.versions)
  BY DEF Earlier
<1>3. ASSUME NEW n \in 1..L
      PROVE  /\ n \in DOMAIN c.versions /\ n \in DOMAIN d.versions
             /\ c.versions[n].rev = d.versions[n].rev
             /\ c.versions[n].ids = d.versions[n].ids
             /\ c.versions[n].cut = d.versions[n].cut
             /\ c.versions[n].rev \in Nat /\ c.plan # NoRow /\ c.plan \in Story!Plan
                /\ c.plan.rev \in Nat
             /\ VersionIsMade(c, c.versions[n])
             /\ Matches(c.versions[n], c.plan) => c.plan.status = "ready"
  <2>1. n \in DOMAIN c.versions /\ n \in DOMAIN d.versions
    BY <1>1, <1>2
  <2>2. Story!MadeOf(c.versions[n]) = Story!MadeOf(d.versions[n])
    BY <2>1 DEF Earlier
  <2>3. /\ c.versions[n].rev = d.versions[n].rev
        /\ c.versions[n].ids = d.versions[n].ids
        /\ c.versions[n].cut = d.versions[n].cut
    BY <2>2 DEF Story!MadeOf
  <2>4. c.versions[n] \in Story!Version
    BY <2>1, <1>1, ElementOfSeq DEF StoryTyped, StoryRows
  <2>5. c.plan # NoRow /\ VersionIsMade(c, c.versions[n])
        /\ (Matches(c.versions[n], c.plan) => c.plan.status = "ready")
    BY <2>1 DEF VersionsAreMade
  <2>6. c.plan \in Story!Plan /\ c.plan.rev \in Nat
    BY <2>5 DEF StoryTyped, StoryRows, Story!Plan
  <2>7. c.versions[n].rev \in Nat
    BY <2>4 DEF Story!Version
  <2> QED BY <2>1, <2>3, <2>5, <2>6, <2>7
<1>4. c.plan # NoRow => d.plan \in Story!Plan /\ d.plan.rev \in Nat
  BY DEF StoryTyped, StoryRows, Story!Plan
<1>5. ASSUME NEW n \in 1..L PROVE Made1(n)
  <2>1. /\ d.plan # NoRow /\ d.plan.rev \in Nat
    BY <1>3, <1>4
  <2>2. d.versions[n].cut # NoRow
    BY <1>3 DEF VersionIsMade
  <2>3. \A role \in Story!Roles : d.versions[n].ids[role] # NoRow =>
          d.versions[n].ids[role] \in Story!Gens /\ d.gen[d.versions[n].ids[role]].status # "none"
    BY <1>3 DEF VersionIsMade, Earlier
  <2>4. d.versions[n].rev =< d.plan.rev
    <3>1. c.versions[n].rev =< c.plan.rev
      BY <1>3 DEF VersionIsMade
    <3>2. c.plan.rev =< d.plan.rev
      BY <1>3
    <3> QED BY <3>1, <3>2, <2>1, <1>3
  <2>5. ASSUME d.versions[n].rev = d.plan.rev PROVE d.versions[n].cut = d.plan.cut
    <3>1. c.versions[n].rev =< c.plan.rev /\ c.versions[n].cut # NoRow
          /\ (c.versions[n].rev = c.plan.rev => c.versions[n].cut = c.plan.cut)
      BY <1>3 DEF VersionIsMade
    <3>2. c.plan.rev =< d.plan.rev /\ (c.plan.rev = d.plan.rev =>
                                          c.plan.cut = NoRow \/ c.plan.cut = d.plan.cut)
      BY <1>3
    <3>3. c.plan.rev = d.plan.rev
      BY <3>1, <3>2, <2>5, <2>1, <1>3
    <3>4. c.versions[n].cut = c.plan.cut
      BY <3>1, <3>3, <2>5, <1>3
    <3> QED BY <3>1, <3>2, <3>3, <3>4, <1>3
  <2>6. Matches(d.versions[n], d.plan) => d.plan.status = "ready"
    BY <1>3 DEF Matches
  <2> QED BY <2>1, <2>2, <2>3, <2>4, <2>5, <2>6 DEF VersionIsMade
<1>6. ASSUME NEW m \in 1..L, NEW n \in 1..L, m < n, Matches(d.versions[m], d.plan)
      PROVE  Matches(d.versions[n], d.plan)
  <2>1. Matches(c.versions[m], d.plan)
    BY <1>3, <1>6 DEF Matches
  <2>2. Matches(c.versions[m], c.plan)
    BY <2>1, <1>3 DEF Matches
  <2>3. d.plan.rev = c.plan.rev /\ d.plan.ids = c.plan.ids /\ d.plan.cut = c.plan.cut
    BY <2>1, <1>3
  <2>4. Matches(c.versions[n], c.plan)
    BY <2>2, <1>3, <1>6 DEF VersionsAreMade
  <2> QED BY <2>3, <2>4, <1>3 DEF Matches
<1>7. ASSUME NEW n \in DOMAIN d.versions, n \notin 1..L
      PROVE  n = Len(d.versions) /\ Made1(n) /\ Matches(d.versions[n], d.plan)
  <2>1. Len(d.versions) = L + 1 /\ n = L + 1
    BY <1>1, <1>2, <1>7
  <2> QED BY <2>1, <1>1
<1>8. \A n \in DOMAIN d.versions : Made1(n)
  BY <1>5, <1>7
<1> HIDE DEF Made1
<1>9. ASSUME NEW m \in DOMAIN d.versions, NEW n \in DOMAIN d.versions,
             m < n, Matches(d.versions[m], d.plan)
      PROVE  Matches(d.versions[n], d.plan)
  <2>1. CASE n \in 1..L
    <3>1. m \in 1..L
      BY <2>1, <1>1, <1>9
    <3> QED BY <2>1, <3>1, <1>6, <1>9
  <2>2. CASE n \notin 1..L
    BY <2>2, <1>7
  <2> QED BY <2>1, <2>2
<1> QED BY <1>8, <1>9 DEF VersionsAreMade, Made1

-----------------------------------------------------------------------------
\* A row that is written keeps the type of its columns.
LEMMA GenRowFlushed ==
  ASSUME NEW s \in Story!Gen, NEW t \in Story!Gen, NEW c \in Story!Gen
  PROVE  /\ Story!FlushRow(s, t, c) \in Story!Gen
         /\ Story!FlushRow(s, t, c).status = Story!Flush(s.status, t.status, c.status)
         /\ Story!FlushRow(s, t, c).input = Story!Flush(s.input, t.input, c.input)
         /\ s = t => Story!FlushRow(s, t, c) = c
         /\ s = c => Story!FlushRow(s, t, c) = t
<1>1. DOMAIN s = {"status", "cancel", "job", "upload", "hold", "input"} /\ DOMAIN t = DOMAIN s
      /\ DOMAIN c = DOMAIN s
  BY DEF Story!Gen
<1>2. Story!FlushRow(s, t, c) = [x \in DOMAIN c |-> Story!Flush(s[x], t[x], c[x])]
  BY <1>1 DEF Story!FlushRow
<1>3. Story!FlushRow(s, t, c) = [status |-> Story!Flush(s.status, t.status, c.status),
                           cancel |-> Story!Flush(s.cancel, t.cancel, c.cancel),
                           job |-> Story!Flush(s.job, t.job, c.job),
                           upload |-> Story!Flush(s.upload, t.upload, c.upload),
                           hold |-> Story!Flush(s.hold, t.hold, c.hold),
                           input |-> Story!Flush(s.input, t.input, c.input)]
  BY <1>1, <1>2
<1>4. Story!FlushRow(s, t, c) \in Story!Gen
  BY <1>3 DEF Story!Gen, Story!Flush
<1>5. s = t => Story!FlushRow(s, t, c) = c
  BY <1>1, <1>2 DEF Story!Flush, Story!Gen
<1>6. s = c => Story!FlushRow(s, t, c) = t
  BY <1>1, <1>2 DEF Story!Flush, Story!Gen
<1> QED BY <1>3, <1>4, <1>5, <1>6

\* A creation's row that a session leaves is of that type, column by column.
LEMMA CreationRowFlushed ==
  ASSUME NEW s \in CreationRow, NEW t \in CreationRow, NEW c \in CreationRow
  PROVE  /\ Story!FlushRow(s, t, c) \in CreationRow
         /\ Story!FlushRow(s, t, c).status = Story!Flush(s.status, t.status, c.status)
         /\ Story!FlushRow(s, t, c).story = Story!Flush(s.story, t.story, c.story)
         /\ Story!FlushRow(s, t, c).active = Story!Flush(s.active, t.active, c.active)
<1>1. DOMAIN s = {"status", "story", "active"} /\ DOMAIN c = DOMAIN s
  BY DEF CreationRow
<1>2. Story!FlushRow(s, t, c) = [x \in DOMAIN c |-> Story!Flush(s[x], t[x], c[x])]
  BY <1>1 DEF Story!FlushRow
<1>3. Story!FlushRow(s, t, c) = [status |-> Story!Flush(s.status, t.status, c.status),
                           story |-> Story!Flush(s.story, t.story, c.story),
                           active |-> Story!Flush(s.active, t.active, c.active)]
  BY <1>1, <1>2
<1>4. Story!FlushRow(s, t, c) \in CreationRow
  BY <1>3 DEF CreationRow, Story!Flush
<1> QED BY <1>3, <1>4

\* So is a version, and it stays of its clips if both sides are of the same.
LEMMA VersionFlushed ==
  ASSUME NEW s \in Story!Version, NEW t \in Story!Version, NEW c \in Story!Version,
         Story!MadeOf(s) = Story!MadeOf(t), Story!MadeOf(s) = Story!MadeOf(c)
  PROVE  Story!FlushRow(s, t, c) \in Story!Version
         /\ Story!MadeOf(Story!FlushRow(s, t, c)) = Story!MadeOf(c)
<1>1. DOMAIN c = {"cut", "ids", "preset", "rev", "edited", "seen", "status"}
      /\ DOMAIN s = DOMAIN c
  BY DEF Story!Version
<1>2. Story!FlushRow(s, t, c) = [x \in DOMAIN c |-> Story!Flush(s[x], t[x], c[x])]
  BY <1>1 DEF Story!FlushRow
<1>3. Story!FlushRow(s, t, c) = [cut |-> Story!Flush(s.cut, t.cut, c.cut),
                               ids |-> Story!Flush(s.ids, t.ids, c.ids),
                           preset |-> Story!Flush(s.preset, t.preset, c.preset),
                           rev |-> Story!Flush(s.rev, t.rev, c.rev),
                           edited |-> Story!Flush(s.edited, t.edited, c.edited),
                           seen |-> Story!Flush(s.seen, t.seen, c.seen),
                           status |-> Story!Flush(s.status, t.status, c.status)]
  BY <1>1, <1>2
<1>4. /\ s.cut = t.cut /\ s.ids = t.ids /\ s.preset = t.preset /\ s.rev = t.rev
         /\ s.edited = t.edited
      /\ s.cut = c.cut /\ s.ids = c.ids /\ s.preset = c.preset /\ s.rev = c.rev
         /\ s.edited = c.edited
  BY DEF Story!MadeOf
<1>5. Story!FlushRow(s, t, c) \in Story!Version
  BY <1>3 DEF Story!Version, Story!Flush
<1>6. Story!MadeOf(Story!FlushRow(s, t, c)) = Story!MadeOf(c)
  BY <1>3, <1>4 DEF Story!MadeOf, Story!Flush
<1> QED BY <1>5, <1>6

\* The versions after a commit: those of the database, and the one that has been added.
LEMMA VersionsFlushed ==
  ASSUME NEW s, NEW t, StoryTyped(s), StoryTyped(t), StoryTyped(rows),
         Earlier(s, rows), Earlier(s, t), ~Story!Conflict(s, t),
         Len(t.versions) =< Len(s.versions) + 1,
         NEW d, d = Story!FlushVersions(s, t)
  PROVE  /\ d \in Seq(Story!Version)
         /\ \A n \in DOMAIN rows.versions : n \in DOMAIN d
            /\ Story!MadeOf(rows.versions[n]) = Story!MadeOf(d[n])
         /\ Len(t.versions) = Len(s.versions) => Len(d) = Len(rows.versions)
         /\ Len(t.versions) # Len(s.versions) =>
               /\ Len(t.versions) = Len(s.versions) + 1
               /\ Len(d) = Len(t.versions) /\ Len(rows.versions) = Len(s.versions)
               /\ d[Len(d)] = t.versions[Len(d)]
         /\ Len(t.versions) =< Len(d) /\ Len(rows.versions) =< Len(d)
<1> DEFINE longer == IF Len(t.versions) > Len(s.versions) THEN t.versions ELSE rows.versions
           El(n) == IF n > Len(s.versions) THEN longer[n]
                    ELSE Story!FlushRow(s.versions[n], t.versions[n], rows.versions[n])
<1>1. s.versions \in Seq(Story!Version) /\ t.versions \in Seq(Story!Version)
      /\ rows.versions \in Seq(Story!Version)
  BY DEF StoryTyped, StoryRows
<1>2. /\ DOMAIN s.versions = 1..Len(s.versions) /\ DOMAIN t.versions = 1..Len(t.versions)
      /\ DOMAIN rows.versions = 1..Len(rows.versions)
      /\ Len(s.versions) \in Nat /\ Len(t.versions) \in Nat /\ Len(rows.versions) \in Nat
  BY <1>1, LenProperties
<1>3. Len(s.versions) =< Len(t.versions) /\ Len(s.versions) =< Len(rows.versions)
  BY DEF Earlier
<1>4. Len(t.versions) # Len(s.versions) =>
        Len(t.versions) = Len(s.versions) + 1 /\ Len(rows.versions) = Len(s.versions)
  BY <1>2, <1>3 DEF Story!Conflict
<1>5. longer \in Seq(Story!Version) /\ DOMAIN longer = 1..Len(longer) /\ Len(longer) \in Nat
  BY <1>1, LenProperties
<1>6. /\ Len(t.versions) = Len(s.versions) => longer = rows.versions
      /\ Len(t.versions) # Len(s.versions) => longer = t.versions
  BY <1>2, <1>3
<1>7. Len(s.versions) =< Len(longer) /\ Len(t.versions) =< Len(longer)
      /\ Len(rows.versions) =< Len(longer)
  BY <1>2, <1>3, <1>4, <1>6
<1>8. d = [n \in DOMAIN longer |-> El(n)]
  BY DEF Story!FlushVersions
<1> HIDE DEF longer
<1>9. ASSUME NEW n \in 1..Len(s.versions)
      PROVE  Story!FlushRow(s.versions[n], t.versions[n], rows.versions[n]) \in Story!Version
             /\ Story!MadeOf(Story!FlushRow(s.versions[n], t.versions[n], rows.versions[n])) =
                  Story!MadeOf(rows.versions[n])
  <2>1. n \in DOMAIN s.versions /\ n \in DOMAIN t.versions /\ n \in DOMAIN rows.versions
    BY <1>2, <1>3
  <2>2. s.versions[n] \in Story!Version /\ t.versions[n] \in Story!Version
        /\ rows.versions[n] \in Story!Version
    BY <2>1, <1>1, <1>2, ElementOfSeq
  <2>3. Story!MadeOf(s.versions[n]) = Story!MadeOf(t.versions[n])
        /\ Story!MadeOf(s.versions[n]) = Story!MadeOf(rows.versions[n])
    BY <2>1 DEF Earlier
  <2> QED BY <2>2, <2>3, VersionFlushed
<1>10. \A n \in 1..Len(longer) : El(n) \in Story!Version
  <2> SUFFICES ASSUME NEW n \in 1..Len(longer) PROVE El(n) \in Story!Version
    OBVIOUS
  <2>1. CASE n > Len(s.versions)
    <3>1. longer[n] \in Story!Version
      BY <1>5, ElementOfSeq
    <3> QED BY <2>1, <3>1
  <2>2. CASE ~(n > Len(s.versions))
    <3>1. n \in 1..Len(s.versions)
      BY <2>2, <1>2
    <3> QED BY <2>2, <3>1, <1>9
  <2> QED BY <2>1, <2>2
<1>11. \A n \in DOMAIN rows.versions : El(n) \in Story!Version
         => Story!MadeOf(El(n)) = Story!MadeOf(rows.versions[n])
  <2> SUFFICES ASSUME NEW n \in DOMAIN rows.versions
               PROVE Story!MadeOf(El(n)) = Story!MadeOf(rows.versions[n])
    OBVIOUS
  <2>1. CASE n > Len(s.versions)
    <3>1. longer = rows.versions
      BY <2>1, <1>2, <1>4, <1>6
    <3> QED BY <2>1, <3>1
  <2>2. CASE ~(n > Len(s.versions))
    <3>1. n \in 1..Len(s.versions)
      BY <2>2, <1>2
    <3> QED BY <2>2, <3>1, <1>9
  <2> QED BY <2>1, <2>2
<1>12. Len(t.versions) # Len(s.versions) => El(Len(longer)) = t.versions[Len(longer)]
  BY <1>2, <1>4, <1>6
<1> HIDE DEF El
<1>13. DOMAIN d = 1..Len(longer) /\ \A n \in 1..Len(longer) : d[n] = El(n)
  BY <1>8, <1>5
<1>14. d \in Seq(Story!Version) /\ Len(d) = Len(longer)
  <2>1. d = [n \in 1..Len(longer) |-> El(n)]
    BY <1>8, <1>5
  <2>2. d \in [1..Len(longer) -> Story!Version]
    BY <2>1, <1>10
  <2>3. d \in Seq(Story!Version)
    BY <2>2, <1>5, SeqDef
  <2> QED BY <2>3, <1>13, <1>5, LenProperties
<1>15. \A n \in DOMAIN rows.versions : n \in DOMAIN d
       /\ Story!MadeOf(rows.versions[n]) = Story!MadeOf(d[n])
  BY <1>2, <1>7, <1>10, <1>11, <1>13, <1>5
<1>16. Len(t.versions) = Len(s.versions) => Len(d) = Len(rows.versions)
  BY <1>14, <1>6
<1>17. Len(t.versions) # Len(s.versions) =>
               /\ Len(t.versions) = Len(s.versions) + 1
               /\ Len(d) = Len(t.versions) /\ Len(rows.versions) = Len(s.versions)
               /\ d[Len(d)] = t.versions[Len(d)]
  BY <1>4, <1>6, <1>12, <1>13, <1>14, <1>2
<1> QED BY <1>14, <1>15, <1>16, <1>17, <1>7

\* What a commit leaves of rows s, as the session has them in t.
Commits(s, t, d) ==
    /\ StoryTyped(d) /\ Earlier(rows, d)
    /\ d.plan = Story!Flush(s.plan, t.plan, rows.plan)
    /\ d.creation.status = Story!Flush(s.creation.status, t.creation.status, rows.creation.status)
    /\ d.creation.story = Story!Flush(s.creation.story, t.creation.story, rows.creation.story)
    /\ d.creation.active = Story!Flush(s.creation.active, t.creation.active, rows.creation.active)
    /\ \A g \in Story!Gens :
          /\ d.gen[g].status = Story!Flush(s.gen[g].status, t.gen[g].status, rows.gen[g].status)
          /\ s.gen[g] = t.gen[g] => d.gen[g] = rows.gen[g]
          /\ s.gen[g] = rows.gen[g] => d.gen[g] = t.gen[g]
          /\ t.gen[g].status # "none" =>
                d.gen[g].status # "none" /\ d.gen[g].input = t.gen[g].input
    /\ Len(t.versions) =< Len(d.versions)
    /\ Len(t.versions) = Len(s.versions) => Len(d.versions) = Len(rows.versions)
    /\ Len(t.versions) # Len(s.versions) =>
          /\ Len(t.versions) = Len(s.versions) + 1
          /\ Len(d.versions) = Len(t.versions) /\ Len(rows.versions) = Len(s.versions)
          /\ d.versions[Len(d.versions)] = t.versions[Len(d.versions)]

\* What the commit of a session that read s and holds t leaves of the rows.
LEMMA RowsCommitted ==
  ASSUME NEW s, NEW t, StoryTyped(s), StoryTyped(t), StoryTyped(rows),
         Earlier(s, rows), Earlier(s, t), ~Story!Conflict(s, t),
         Len(t.versions) =< Len(s.versions) + 1,
         \A g \in Story!Gens : t.gen[g].status # s.gen[g].status
           => rows.gen[g].status = s.gen[g].status,
         NEW d, d = Story!Committed(s, t)
  PROVE  Commits(s, t, d)
<1>1. d = [plan |-> Story!Flush(s.plan, t.plan, rows.plan),
           creation |-> Story!FlushRow(s.creation, t.creation, rows.creation),
           gen |-> [g \in Story!Gens |-> Story!FlushRow(s.gen[g], t.gen[g], rows.gen[g])],
           versions |-> Story!FlushVersions(s, t)]
  BY DEF Story!Committed
<1> DEFINE vs == Story!FlushVersions(s, t)
<1>2. /\ vs \in Seq(Story!Version)
      /\ \A n \in DOMAIN rows.versions : n \in DOMAIN vs
         /\ Story!MadeOf(rows.versions[n]) = Story!MadeOf(vs[n])
      /\ Len(t.versions) = Len(s.versions) => Len(vs) = Len(rows.versions)
      /\ Len(t.versions) # Len(s.versions) =>
            /\ Len(t.versions) = Len(s.versions) + 1
            /\ Len(vs) = Len(t.versions) /\ Len(rows.versions) = Len(s.versions)
            /\ vs[Len(vs)] = t.versions[Len(vs)]
      /\ Len(t.versions) =< Len(vs) /\ Len(rows.versions) =< Len(vs)
  BY VersionsFlushed
<1>3. d.versions = vs
  BY <1>1
<1> HIDE DEF vs
<1>4. \A g \in Story!Gens : s.gen[g] \in Story!Gen /\ t.gen[g] \in Story!Gen
      /\ rows.gen[g] \in Story!Gen
  BY DEF StoryTyped, StoryRows
<1>5. \A g \in Story!Gens : d.gen[g] = Story!FlushRow(s.gen[g], t.gen[g], rows.gen[g])
  BY <1>1
<1>6. \A g \in Story!Gens :
         /\ d.gen[g] \in Story!Gen
         /\ d.gen[g].status = Story!Flush(s.gen[g].status, t.gen[g].status, rows.gen[g].status)
         /\ d.gen[g].input = Story!Flush(s.gen[g].input, t.gen[g].input, rows.gen[g].input)
         /\ s.gen[g] = t.gen[g] => d.gen[g] = rows.gen[g]
         /\ s.gen[g] = rows.gen[g] => d.gen[g] = t.gen[g]
  BY <1>4, <1>5, GenRowFlushed
<1>7. s.creation \in CreationRow /\ t.creation \in CreationRow /\ rows.creation \in CreationRow
  BY DEF StoryTyped, StoryRows
<1>8. /\ d.creation \in CreationRow
      /\ d.creation.status = Story!Flush(s.creation.status, t.creation.status,
                                         rows.creation.status)
      /\ d.creation.story = Story!Flush(s.creation.story, t.creation.story, rows.creation.story)
      /\ d.creation.active = Story!Flush(s.creation.active, t.creation.active,
                                         rows.creation.active)
  BY <1>7, <1>1, CreationRowFlushed
<1>9. d.plan = Story!Flush(s.plan, t.plan, rows.plan) /\ d.plan \in Story!Plan \cup {NoRow}
  BY <1>1 DEF StoryTyped, StoryRows, Story!Flush
<1>10. d.gen \in [Story!Gens -> Story!Gen]
  BY <1>1, <1>6
<1>11. d \in StoryRows
  <2>1. d = [plan |-> d.plan, creation |-> d.creation, gen |-> d.gen, versions |-> d.versions]
    BY <1>1
  <2> QED BY <2>1, <1>2, <1>3, <1>8, <1>9, <1>10 DEF StoryRows
<1>12. Len(t.versions) =< Len(d.versions)
  BY <1>2, <1>3
<1>13. ASSUME NEW g \in Story!Gens, s.gen[g].status = "none"
       PROVE  /\ s.gen[g] = Story!NoGen
              /\ t.gen[g].status # "none" => rows.gen[g] = Story!NoGen
              /\ t.gen[g].status = "none" => t.gen[g] = Story!NoGen
  <2>1. t.gen[g].status # "none" => g \in Story!Added(s, t)
    BY <1>13 DEF Story!Added
  <2>2. rows.gen[g].status # "none" => g \in Story!Added(s, rows)
    BY <1>13 DEF Story!Added
  <2>3. t.gen[g].status # "none" => rows.gen[g].status = "none"
    BY <2>1, <2>2 DEF Story!Conflict
  <2> QED BY <1>13, <2>3 DEF StoryTyped
<1>14. ASSUME NEW g \in Story!Gens, t.gen[g].status # "none"
       PROVE  d.gen[g].status # "none" /\ d.gen[g].input = t.gen[g].input
  <2>1. CASE s.gen[g].status = "none"
    <3>1. s.gen[g] = rows.gen[g]
      BY <2>1, <1>13, <1>14
    <3> QED BY <3>1, <1>6, <1>14
  <2>2. CASE s.gen[g].status # "none"
    <3>1. t.gen[g].input = s.gen[g].input /\ rows.gen[g].input = s.gen[g].input
          /\ rows.gen[g].status # "none"
      BY <2>2 DEF Earlier
    <3> QED BY <3>1, <1>6, <1>14 DEF Story!Flush
  <2> QED BY <2>1, <2>2
<1>15. ASSUME NEW g \in Story!Gens, d.gen[g].status = "none"
       PROVE  d.gen[g] = Story!NoGen
  <2>1. t.gen[g].status = "none"
    BY <1>14, <1>15
  <2>2. s.gen[g].status = "none"
    BY <2>1 DEF Earlier
  <2>3. s.gen[g] = t.gen[g]
    BY <2>1, <2>2, <1>13
  <2>4. d.gen[g] = rows.gen[g]
    BY <2>3, <1>6
  <2> QED BY <2>4, <1>15 DEF StoryTyped
<1>16. StoryTyped(d)
  BY <1>11, <1>15 DEF StoryTyped
<1>17. ASSUME NEW g \in Story!Gens, rows.gen[g].status # "none"
       PROVE  d.gen[g].status # "none" /\ d.gen[g].input = rows.gen[g].input
  <2>1. CASE t.gen[g].status # "none"
    <3>1. s.gen[g].status # "none"
      BY <2>1, <1>13, <1>17 DEF Story!NoGen
    <3>2. rows.gen[g].input = s.gen[g].input /\ t.gen[g].input = s.gen[g].input
      BY <3>1 DEF Earlier
    <3> QED BY <2>1, <3>2, <1>14
  <2>2. CASE t.gen[g].status = "none"
    <3>1. s.gen[g].status = "none"
      BY <2>2 DEF Earlier
    <3>2. s.gen[g] = t.gen[g]
      BY <3>1, <2>2, <1>13
    <3> QED BY <3>2, <1>6, <1>17
  <2> QED BY <2>1, <2>2
<1>18. ASSUME NEW g \in Story!Gens, rows.gen[g].status = "ready" PROVE d.gen[g].status = "ready"
  <2>1. CASE t.gen[g].status = s.gen[g].status
    BY <2>1, <1>6, <1>18 DEF Story!Flush
  <2>2. CASE t.gen[g].status # s.gen[g].status
    <3>1. s.gen[g].status = "ready"
      BY <2>2, <1>18
    <3>2. t.gen[g].status = "ready"
      BY <3>1 DEF Earlier
    <3> QED BY <2>2, <3>1, <3>2
  <2> QED BY <2>1, <2>2
<1>19. rows.creation.story => d.creation.story
  <2>1. s.creation.story \in BOOLEAN /\ t.creation.story \in BOOLEAN
    BY <1>7 DEF CreationRow
  <2>2. s.creation.story => t.creation.story
    BY DEF Earlier
  <2> QED BY <2>1, <2>2, <1>8 DEF Story!Flush
<1>20. Earlier(rows, d)
  <2>1. \A n \in DOMAIN rows.versions : Story!MadeOf(rows.versions[n]) =
          Story!MadeOf(d.versions[n])
    BY <1>2, <1>3
  <2>2. Len(rows.versions) =< Len(d.versions)
    BY <1>2, <1>3
  <2>3. \A g \in Story!Gens : rows.gen[g].status # "none" =>
          d.gen[g].status # "none" /\ d.gen[g].input = rows.gen[g].input
    BY <1>17
  <2>4. \A g \in Story!Gens : rows.gen[g].status = "ready" => d.gen[g].status = "ready"
    BY <1>18
  <2> QED BY <2>1, <2>2, <2>3, <2>4, <1>19 DEF Earlier
<1>21. /\ Len(t.versions) = Len(s.versions) => Len(d.versions) = Len(rows.versions)
       /\ Len(t.versions) # Len(s.versions) =>
               /\ Len(t.versions) = Len(s.versions) + 1
               /\ Len(d.versions) = Len(t.versions) /\ Len(rows.versions) = Len(s.versions)
               /\ d.versions[Len(d.versions)] = t.versions[Len(d.versions)]
  BY <1>2, <1>3
<1> QED BY <1>6, <1>8, <1>9, <1>12, <1>14, <1>16, <1>20, <1>21 DEF Commits

-----------------------------------------------------------------------------
\* A row that is missing is no plan and no ending.
LEMMA NoRowIsNoPlan == NoRow \notin Story!Plan /\ NoRow \notin Story!Gens
<1>1. {"whole", NoRow} \cup Story!Roles = {"whole", NoRow, "B", "C"} /\ Story!Roles = {"B", "C"}
  BY DEF Story!Roles
<1>2. Story!Gens = RequestIds \X {"B", "C"}
  BY <1>1 DEF Story!Gens
<1> QED BY <1>1, <1>2, StoryAssumption DEF Story!Plan

\* A plan of the same clips with another status.
SamePlan(p, q) == q.rev = p.rev /\ q.values = p.values /\ q.ids = p.ids /\ q.cut = p.cut

\* Such a plan is one.
LEMMA PlanOfStatus ==
  ASSUME NEW p \in Story!Plan, NEW st \in {"draft", "generating", "partial_failure", "ready"},
         NEW q, q = [p EXCEPT !.status = st]
  PROVE  q \in Story!Plan /\ q # NoRow /\ q.status = st /\ SamePlan(p, q)
<1>1. q \in Story!Plan
  BY DEF Story!Plan
<1>2. q.status = st /\ SamePlan(p, q)
  BY DEF Story!Plan, SamePlan
<1> QED BY <1>1, <1>2, NoRowIsNoPlan

\* sync_story leaves a Story alone that is not under way.
StoryIsIdle(d) == \/ ~d.creation.story \/ d.plan = NoRow
                  \/ d.creation.status \in {"abandoned", "pending_review"}
                  \/ d.plan.status = "draft"

\* The version that sync_story makes is of the plan's clips.
LEMMA VersionIsTyped ==
  ASSUME NEW d, StoryTyped(d), d.plan \in Story!Plan, d.plan.cut # NoRow
  PROVE  Story!NewVersion(d) \in Story!Version
         /\ Story!MadeOf(Story!NewVersion(d)) = Story!Made(d.plan)
<1>1. d.plan.cut \in {"whole"} \cup Story!Roles
      /\ d.plan.ids \in [Story!Roles -> Story!Gens \cup {NoRow}]
      /\ d.plan.preset \in Presets /\ d.plan.rev \in 1..MaxRevisions
  BY DEF Story!Plan
<1> QED BY <1>1 DEF Story!NewVersion, Story!Version, Story!MadeOf, Story!Made

\* The number that sync_story gives the version of a plan.
LEMMA NumberOfVersion ==
  ASSUME NEW d, StoryTyped(d)
  PROVE  \/ Story!Numbered(d) = Len(d.versions) + 1
         \/ Story!Numbered(d) \in DOMAIN d.versions
            /\ Story!MadeOf(d.versions[Story!Numbered(d)]) = Story!Made(d.plan)
<1> DEFINE same == {n \in DOMAIN d.versions : Story!MadeOf(d.versions[n]) = Story!Made(d.plan)}
<1>1. Story!Numbered(d) = IF same = {} THEN Len(d.versions) + 1 ELSE CHOOSE n \in same : TRUE
  BY DEF Story!Numbered
<1>2. same # {} => (CHOOSE n \in same : TRUE) \in same
  OBVIOUS
<1> QED BY <1>1, <1>2

\* What sync_story makes of rows d.
Synced(d, t) ==
    /\ StoryTyped(t) /\ t.gen = d.gen /\ t.creation.story = d.creation.story
    /\ \/ StoryIsIdle(d) /\ t = d
       \/ /\ ~StoryIsIdle(d) /\ d.plan \in Story!Plan /\ t.plan # NoRow
             /\ SamePlan(d.plan, t.plan)
          /\ t.versions = d.versions /\ t.creation.active = d.creation.active
          /\ \/ /\ t.plan.status = "partial_failure" /\ t.creation.status = "source_ready"
                /\ \E role \in Story!Roles : Story!ClipStatus(d, role) \in Story!Lost
             \/ /\ t.plan.status = "generating" /\ t.creation.status = "running"
                /\ \A role \in Story!Roles : Story!ClipStatus(d, role) \notin Story!Lost
                /\ d.plan.cut = NoRow
                   \/ \E role \in Story!Roles : Story!ClipStatus(d, role) # "ready"
       \/ /\ ~StoryIsIdle(d) /\ d.plan \in Story!Plan /\ t.plan # NoRow
             /\ SamePlan(d.plan, t.plan)
          /\ t.plan.status = "ready" /\ t.creation.status = "ready"
          /\ d.plan.cut # NoRow /\ \A role \in Story!Roles : Story!ClipStatus(d, role) = "ready"
          /\ \/ /\ t.versions = d.versions /\ t.creation.active \in DOMAIN d.versions
                /\ Story!MadeOf(d.versions[t.creation.active]) = Story!Made(d.plan)
             \/ /\ t.versions = Append(d.versions, Story!NewVersion(d))
                /\ t.creation.active = Len(d.versions) + 1

\* sync_story does what Synced says.
LEMMA StoryIsSynced ==
  ASSUME NEW d, StoryTyped(d)
  PROVE  Synced(d, Story!SyncStory(d))
<1> DEFINE t == Story!SyncStory(d)
           lost == \E role \in Story!Roles : Story!ClipStatus(d, role) \in Story!Lost
           there == d.plan.cut # NoRow
           /\ \A role \in Story!Roles : Story!ClipStatus(d, role) = "ready"
           k == Story!Numbered(d)
           vs == IF k > Len(d.versions) THEN Append(d.versions, Story!NewVersion(d))
             ELSE d.versions
<1>1. /\ d \in StoryRows /\ d.creation \in CreationRow /\ d.gen \in [Story!Gens -> Story!Gen]
      /\ d.versions \in Seq(Story!Version) /\ d.plan \in Story!Plan \cup {NoRow}
      /\ Len(d.versions) \in Nat /\ DOMAIN d.versions = 1..Len(d.versions)
  BY LenProperties DEF StoryTyped, StoryRows
<1>2. CASE StoryIsIdle(d)
  <2>1. t = d
    <3>1. CASE \/ ~d.creation.story \/ d.plan = NoRow
               \/ d.creation.status \in {"abandoned", "pending_review"}
      BY <3>1 DEF Story!SyncStory
    <3>2. CASE ~(\/ ~d.creation.story \/ d.plan = NoRow
                 \/ d.creation.status \in {"abandoned", "pending_review"})
      <4>1. d.plan.status = "draft"
        BY <3>2, <1>2 DEF StoryIsIdle
      <4> QED BY <3>2, <4>1 DEF Story!SyncStory
    <3> QED BY <3>1, <3>2
  <2> QED BY <1>2, <2>1 DEF Synced
<1>3. CASE ~StoryIsIdle(d)
  <2>1. d.plan \in Story!Plan /\ d.plan # NoRow
    BY <1>1, <1>3 DEF StoryIsIdle
  <2>2. CASE lost
    <3>1. t = [d EXCEPT !.plan.status = "partial_failure", !.creation.status = "source_ready"]
      BY <1>3, <2>2 DEF Story!SyncStory, StoryIsIdle
    <3>2. t.plan = [d.plan EXCEPT !.status = "partial_failure"]
      BY <3>1, <1>1 DEF StoryRows
    <3>3. t.creation = [d.creation EXCEPT !.status = "source_ready"]
      BY <3>1, <1>1 DEF StoryRows
    <3>4. t.gen = d.gen /\ t.versions = d.versions
      BY <3>1, <1>1 DEF StoryRows
    <3>5. t.plan \in Story!Plan /\ t.plan # NoRow /\ t.plan.status = "partial_failure"
          /\ SamePlan(d.plan, t.plan)
      BY <3>2, <2>1, PlanOfStatus
    <3>6. /\ t.creation \in CreationRow /\ t.creation.status = "source_ready"
          /\ t.creation.story = d.creation.story /\ t.creation.active = d.creation.active
      BY <3>3, <1>1 DEF CreationRow
    <3>7. t = [plan |-> t.plan, creation |-> t.creation, gen |-> t.gen, versions |-> t.versions]
      BY <3>1, <1>1 DEF StoryRows
    <3>8. StoryTyped(t)
      BY <3>4, <3>5, <3>6, <3>7, <1>1 DEF StoryTyped, StoryRows
    <3> HIDE DEF t
    <3>20. Synced(d, t)
      BY <1>3, <2>1, <2>2, <3>4, <3>5, <3>6, <3>8 DEF Synced
    <3> QED BY <3>20 DEF t
  <2>3. CASE ~lost /\ there
    <3>1. t = [d EXCEPT !.plan.status = "ready", !.creation.status = "ready",
                   !.creation.active = Story!Numbered(d),
                   !.versions = IF Story!Numbered(d) > Len(@) THEN Append(@, Story!NewVersion(d))
                     ELSE @]
      BY <1>3, <2>3 DEF Story!SyncStory, StoryIsIdle
    <3>2. t.plan = [d.plan EXCEPT !.status = "ready"]
      BY <3>1, <1>1 DEF StoryRows
    <3>3. t.creation = [d.creation EXCEPT !.status = "ready", !.active = k]
      BY <3>1, <1>1 DEF StoryRows
    <3>4. t.gen = d.gen
      BY <3>1, <1>1 DEF StoryRows
    <3>5. t.versions = vs
      BY <3>1, <1>1 DEF StoryRows
    <3>6. t.plan \in Story!Plan /\ t.plan # NoRow /\ t.plan.status = "ready"
          /\ SamePlan(d.plan, t.plan)
      BY <3>2, <2>1, PlanOfStatus
    <3>7. \/ k = Len(d.versions) + 1
          \/ k \in DOMAIN d.versions /\ Story!MadeOf(d.versions[k]) = Story!Made(d.plan)
      BY NumberOfVersion
    <3>8. k \in Nat
      BY <3>7, <1>1
    <3>9. /\ t.creation \in CreationRow /\ t.creation.status = "ready"
          /\ t.creation.story = d.creation.story /\ t.creation.active = k
      BY <3>3, <3>8, <1>1 DEF CreationRow
    <3>10. t = [plan |-> t.plan, creation |-> t.creation, gen |-> t.gen, versions |-> t.versions]
      BY <3>1, <1>1 DEF StoryRows
    <3>11. Story!NewVersion(d) \in Story!Version
      BY <2>1, <2>3, VersionIsTyped
    <3>12. Append(d.versions, Story!NewVersion(d)) \in Seq(Story!Version)
           /\ Len(Append(d.versions, Story!NewVersion(d))) = Len(d.versions) + 1
      BY <3>11, <1>1, AppendProperties
    <3>13. \/ vs = d.versions /\ k \in DOMAIN d.versions
              /\ Story!MadeOf(d.versions[k]) = Story!Made(d.plan)
           \/ vs = Append(d.versions, Story!NewVersion(d)) /\ k = Len(d.versions) + 1
      BY <3>7, <1>1
    <3>14. t.versions \in Seq(Story!Version)
      BY <3>5, <3>12, <3>13, <1>1
    <3>15. StoryTyped(t)
      BY <3>4, <3>6, <3>9, <3>10, <3>14, <1>1 DEF StoryTyped, StoryRows
    <3>16. \/ /\ t.versions = d.versions /\ t.creation.active \in DOMAIN d.versions
              /\ Story!MadeOf(d.versions[t.creation.active]) = Story!Made(d.plan)
           \/ /\ t.versions = Append(d.versions, Story!NewVersion(d))
              /\ t.creation.active = Len(d.versions) + 1
      BY <3>5, <3>9, <3>13
    <3> HIDE DEF t, vs, k
    <3>20. Synced(d, t)
      BY <1>3, <2>1, <2>3, <3>4, <3>6, <3>9, <3>15, <3>16 DEF Synced
    <3> QED BY <3>20 DEF t
  <2>4. CASE ~lost /\ ~there
    <3>1. t = [d EXCEPT !.plan.status = "generating", !.creation.status = "running"]
      BY <1>3, <2>4 DEF Story!SyncStory, StoryIsIdle
    <3>2. t.plan = [d.plan EXCEPT !.status = "generating"]
      BY <3>1, <1>1 DEF StoryRows
    <3>3. t.creation = [d.creation EXCEPT !.status = "running"]
      BY <3>1, <1>1 DEF StoryRows
    <3>4. t.gen = d.gen /\ t.versions = d.versions
      BY <3>1, <1>1 DEF StoryRows
    <3>5. t.plan \in Story!Plan /\ t.plan # NoRow /\ t.plan.status = "generating"
          /\ SamePlan(d.plan, t.plan)
      BY <3>2, <2>1, PlanOfStatus
    <3>6. /\ t.creation \in CreationRow /\ t.creation.status = "running"
          /\ t.creation.story = d.creation.story /\ t.creation.active = d.creation.active
      BY <3>3, <1>1 DEF CreationRow
    <3>7. t = [plan |-> t.plan, creation |-> t.creation, gen |-> t.gen, versions |-> t.versions]
      BY <3>1, <1>1 DEF StoryRows
    <3>8. StoryTyped(t)
      BY <3>4, <3>5, <3>6, <3>7, <1>1 DEF StoryTyped, StoryRows
    <3> HIDE DEF t
    <3>20. Synced(d, t)
      BY <1>3, <2>1, <2>4, <3>4, <3>5, <3>6, <3>8 DEF Synced
    <3> QED BY <3>20 DEF t
  <2> QED BY <2>2, <2>3, <2>4
<1> QED BY <1>2, <1>3

-----------------------------------------------------------------------------
\* How far the clips of a plan are.
LEMMA ClipsOfPlan ==
  ASSUME NEW d, StoryTyped(d), d.plan \in Story!Plan, NEW role \in Story!Roles
  PROVE  /\ role = d.plan.values.owner =>
              Story!ClipStatus(d, role) = IF d.plan.cut = NoRow THEN "pending" ELSE "ready"
         /\ role # d.plan.values.owner =>
              \/ /\ d.plan.ids[role] = NoRow \/ d.gen[d.plan.ids[role]].status = "none"
                 /\ Story!ClipStatus(d, role) = "pending"
              \/ /\ d.plan.ids[role] # NoRow /\ d.plan.ids[role] \in Story!Gens
                 /\ Story!ClipStatus(d, role) = d.gen[d.plan.ids[role]].status
                 /\ Story!ClipStatus(d, role) \in {"ready"} \cup Story!Active \cup Story!Lost
<1>1. d.plan.ids[role] \in Story!Gens \cup {NoRow}
  BY DEF Story!Plan
<1>2. CASE role = d.plan.values.owner
  BY <1>2 DEF Story!ClipStatus
<1>3. CASE role # d.plan.values.owner
  <2>1. CASE d.plan.ids[role] = NoRow \/ d.gen[d.plan.ids[role]].status = "none"
    BY <1>3, <2>1 DEF Story!ClipStatus
  <2>2. CASE ~(d.plan.ids[role] = NoRow \/ d.gen[d.plan.ids[role]].status = "none")
    <3>1. Story!ClipStatus(d, role) = d.gen[d.plan.ids[role]].status
      BY <1>3, <2>2 DEF Story!ClipStatus
    <3>2. d.plan.ids[role] \in Story!Gens /\ d.gen[d.plan.ids[role]] \in Story!Gen
      BY <1>1, <2>2 DEF StoryTyped, StoryRows
    <3>3. d.gen[d.plan.ids[role]].status \in {"ready"} \cup Story!Active \cup Story!Lost
      BY <3>2, <2>2 DEF Story!Gen
    <3> QED BY <1>3, <2>2, <3>1, <3>2, <3>3
  <2> QED BY <2>1, <2>2
<1> QED BY <1>2, <1>3

\* The clips are all there if sync_story finds them so, and then it does.
LEMMA ClipsAreFound ==
  ASSUME NEW d, StoryTyped(d), d.plan \in Story!Plan
  PROVE  ClipsAreThere(d) <=>
            d.plan.cut # NoRow /\ \A role \in Story!Roles : Story!ClipStatus(d, role) = "ready"
<1>1. ASSUME ClipsAreThere(d), NEW role \in Story!Roles PROVE Story!ClipStatus(d, role) = "ready"
  <2>1. CASE role = d.plan.values.owner
    BY <2>1, <1>1, ClipsOfPlan DEF ClipsAreThere
  <2>2. CASE role # d.plan.values.owner
    <3>1. d.plan.ids[role] # NoRow /\ d.gen[d.plan.ids[role]].status = "ready"
      BY <1>1, <2>2 DEF ClipsAreThere
    <3>2. \/ /\ d.plan.ids[role] = NoRow \/ d.gen[d.plan.ids[role]].status = "none"
             /\ Story!ClipStatus(d, role) = "pending"
          \/ Story!ClipStatus(d, role) = d.gen[d.plan.ids[role]].status
      BY <2>2, ClipsOfPlan
    <3> QED BY <3>1, <3>2
  <2> QED BY <2>1, <2>2
<1>2. ASSUME \A role \in Story!Roles : Story!ClipStatus(d, role) = "ready",
             NEW role \in Story!Roles \ {d.plan.values.owner}
      PROVE  d.plan.ids[role] # NoRow /\ d.gen[d.plan.ids[role]].status = "ready"
  <2>1. \/ Story!ClipStatus(d, role) = "pending"
        \/ d.plan.ids[role] # NoRow /\ Story!ClipStatus(d, role) = d.gen[d.plan.ids[role]].status
    BY ClipsOfPlan
  <2> QED BY <2>1, <1>2
<1> QED BY <1>1, <1>2 DEF ClipsAreThere

\* The endings stay what the plan says.
LEMMA PlanStaysMade ==
  ASSUME NEW c, NEW d, PlanIsMade(c), Earlier(c, d),
         d.plan = c.plan \/ (c.plan # NoRow /\ SamePlan(c.plan, d.plan))
  PROVE  PlanIsMade(d)
BY DEF PlanIsMade, Earlier, SamePlan

\* Ready rows stay so.
LEMMA ReadyStaysMade ==
  ASSUME NEW c, NEW d, StoryTyped(c), StoryTyped(d), ReadyIsMade(c), Earlier(c, d),
         PlanIsMade(c),
         d.plan = c.plan \/ (c.plan # NoRow /\ d.plan # NoRow /\ SamePlan(c.plan, d.plan)
                             /\ d.plan.status = c.plan.status),
         d.creation.status \in {c.creation.status, "pending_review", "abandoned"},
         d.creation.active = c.creation.active
  PROVE  ReadyIsMade(d)
<1>1. /\ c.versions \in Seq(Story!Version) /\ d.versions \in Seq(Story!Version)
      /\ Len(c.versions) \in Nat /\ Len(d.versions) \in Nat /\ c.creation.active \in Nat
      /\ DOMAIN c.versions = 1..Len(c.versions) /\ DOMAIN d.versions = 1..Len(d.versions)
  BY LenProperties DEF StoryTyped, StoryRows, CreationRow
<1>2. d.creation.active =< Len(d.versions)
  BY <1>1 DEF ReadyIsMade, Earlier
<1>3. d.creation.status = "ready" => d.plan # NoRow /\ d.plan.status = "ready"
  BY DEF ReadyIsMade
<1>4. ASSUME d.plan # NoRow, d.plan.status = "ready"
      PROVE  /\ d.creation.status \in {"ready", "pending_review", "abandoned"}
             /\ ClipsAreThere(d)
             /\ d.creation.active \in DOMAIN d.versions
             /\ Matches(d.versions[d.creation.active], d.plan)
  <2>1. c.plan # NoRow /\ c.plan.status = "ready"
    BY <1>4
  <2>2. /\ c.creation.status \in {"ready", "pending_review", "abandoned"}
        /\ ClipsAreThere(c)
        /\ c.creation.active \in DOMAIN c.versions
        /\ Matches(c.versions[c.creation.active], c.plan)
    BY <2>1 DEF ReadyIsMade
  <2>3. d.plan.cut = c.plan.cut /\ d.plan.ids = c.plan.ids /\ d.plan.rev = c.plan.rev
        /\ d.plan.values = c.plan.values
    BY DEF SamePlan
  <2>4. ClipsAreThere(d)
    BY <2>1, <2>2, <2>3 DEF ClipsAreThere, Earlier, PlanIsMade
  <2>5. d.creation.active \in DOMAIN d.versions
    BY <2>2, <1>1 DEF Earlier
  <2>6. Story!MadeOf(c.versions[c.creation.active]) = Story!MadeOf(d.versions[d.creation.active])
    BY <2>2 DEF Earlier
  <2>7. Matches(d.versions[d.creation.active], d.plan)
    BY <2>2, <2>3, <2>6 DEF Matches, Story!MadeOf
  <2> QED BY <2>2, <2>4, <2>5, <2>7
<1> QED BY <1>2, <1>3, <1>4 DEF ReadyIsMade

-----------------------------------------------------------------------------
\* The tick's session.
LEMMA ViewIsTyped ==
  ASSUME StorySound(rows), TickIsSound, tick.pc \in WithSnapshot
  PROVE  /\ StoryTyped(Story!View) /\ Earlier(Story!View, rows)
         /\ Story!View.plan = rows.plan /\ Story!View.creation = rows.creation
         /\ Story!View.gen = tick.db.gen /\ Story!View.versions = tick.db.versions
<1>1. StoryTyped(tick.db) /\ StoryTyped(rows) /\ Earlier(tick.db, rows)
  BY DEF TickIsSound, StorySound
<1>2. /\ Story!View.plan = rows.plan /\ Story!View.creation = rows.creation
      /\ Story!View.gen = tick.db.gen /\ Story!View.versions = tick.db.versions
  BY <1>1 DEF Story!View, StoryTyped, StoryRows
<1>3. Story!View = [plan |-> Story!View.plan, creation |-> Story!View.creation,
                    gen |-> Story!View.gen,
              versions |-> Story!View.versions]
  <2>1. tick.db \in StoryRows
    BY <1>1 DEF StoryTyped
  <2>2. DOMAIN Story!View = {"plan", "creation", "gen", "versions"}
        /\ Story!View = [c \in DOMAIN Story!View |-> Story!View[c]]
    BY <2>1 DEF Story!View, StoryRows
  <2> QED BY <2>2
<1>4. StoryTyped(Story!View)
  BY <1>1, <1>2, <1>3 DEF StoryTyped, StoryRows
<1>5. Earlier(Story!View, rows)
  BY <1>1, <1>2 DEF Earlier
<1> QED BY <1>2, <1>4, <1>5

\* The rows that a tick hands to sync_story.
Works(m, row) == /\ StoryTyped(m) /\ m.plan = rows.plan /\ m.creation = rows.creation
                 /\ m.gen[tick.g] = row
                 /\ \A g \in Story!Gens : g # tick.g => m.gen[g] = Story!View.gen[g]

\* A tick that ends leaves the Story sound.
LEMMA TickLeavesSound ==
  ASSUME StorySound(rows), TickIsSound, tick.pc \in WithSnapshot,
         NEW row \in Story!Gen, row.status # "none", row.input = Story!View.gen[tick.g].input,
         NEW t, t = Story!SyncStory([Story!View EXCEPT !.gen[tick.g] = row]),
         ~Story!Conflict(Story!View, t),
         NEW d, d = Story!Committed(Story!View, t)
  PROVE  /\ StorySound(d) /\ Earlier(rows, d)
         /\ \A g \in Story!Gens : g # tick.g => d.gen[g] = rows.gen[g]
         /\ Commits(Story!View, t, d) /\ \E m : Works(m, row) /\ Synced(m, t)
<1> DEFINE g == tick.g
           s == Story!View
           m == [s EXCEPT !.gen[g] = row]
<1>1. /\ StoryTyped(s) /\ Earlier(s, rows) /\ s.plan = rows.plan /\ s.creation = rows.creation
      /\ s.gen = tick.db.gen /\ s.versions = tick.db.versions
  BY ViewIsTyped
<1>2. /\ g \in Story!Gens /\ rows.gen[g].status = "running" /\ s.gen[g].status = "running"
      /\ \A x \in Story!Gens : rows.gen[x].status = "ready" => s.gen[x].status = "ready"
  BY <1>1 DEF TickIsSound, WithSnapshot
<1>3. StoryTyped(rows) /\ PlanIsMade(rows) /\ VersionsAreMade(rows) /\ ReadyIsMade(rows)
  BY DEF StorySound
<1> HIDE DEF s
<1>4. /\ m.plan = s.plan /\ m.creation = s.creation /\ m.versions = s.versions
      /\ m.gen = [s.gen EXCEPT ![g] = row]
      /\ m = [plan |-> m.plan, creation |-> m.creation, gen |-> m.gen, versions |-> m.versions]
  BY <1>1 DEF StoryTyped, StoryRows
<1>5. s.gen \in [Story!Gens -> Story!Gen]
  BY <1>1 DEF StoryTyped, StoryRows
<1>6. m.gen \in [Story!Gens -> Story!Gen] /\ m.gen[g] = row
      /\ \A x \in Story!Gens : x # g => m.gen[x] = s.gen[x]
  BY <1>4, <1>5, <1>2
<1>7. StoryTyped(m)
  BY <1>1, <1>4, <1>6 DEF StoryTyped, StoryRows
<1>8. t = Story!SyncStory(m)
  BY DEF s
<1>24. Works(m, row)
  BY <1>1, <1>4, <1>6, <1>7 DEF Works, s
<1> HIDE DEF m
<1>9. Synced(m, t)
  BY <1>7, <1>8, StoryIsSynced
<1>10. StoryTyped(t) /\ t.gen = m.gen /\ t.creation.story = s.creation.story
  BY <1>9, <1>4 DEF Synced
<1>11. /\ s.versions \in Seq(Story!Version) /\ Len(s.versions) \in Nat
       /\ DOMAIN s.versions = 1..Len(s.versions) /\ rows.versions \in Seq(Story!Version)
       /\ Len(rows.versions) \in Nat /\ DOMAIN rows.versions = 1..Len(rows.versions)
  BY <1>1, <1>3, LenProperties DEF StoryTyped, StoryRows
<1>12. \/ t.versions = s.versions
       \/ /\ t.versions = Append(s.versions, Story!NewVersion(m)) /\ m.plan \in Story!Plan
             /\ m.plan.cut # NoRow
          /\ t.creation.active = Len(s.versions) + 1
  BY <1>9, <1>4 DEF Synced
<1>13. t.versions # s.versions =>
         /\ Story!NewVersion(m) \in Story!Version
            /\ Story!MadeOf(Story!NewVersion(m)) = Story!Made(m.plan)
         /\ Len(t.versions) = Len(s.versions) + 1
         /\ t.versions[Len(s.versions) + 1] = Story!NewVersion(m)
         /\ \A n \in DOMAIN s.versions : t.versions[n] = s.versions[n]
  <2>1. SUFFICES ASSUME t.versions # s.versions
        PROVE /\ Story!NewVersion(m) \in Story!Version
              /\ Story!MadeOf(Story!NewVersion(m)) = Story!Made(m.plan)
              /\ Len(t.versions) = Len(s.versions) + 1
              /\ t.versions[Len(s.versions) + 1] = Story!NewVersion(m)
              /\ \A n \in DOMAIN s.versions : t.versions[n] = s.versions[n]
    OBVIOUS
  <2>2. Story!NewVersion(m) \in Story!Version
        /\ Story!MadeOf(Story!NewVersion(m)) = Story!Made(m.plan)
    BY <2>1, <1>12, <1>7, VersionIsTyped
  <2> QED BY <2>1, <2>2, <1>11, <1>12, AppendProperties
<1>14. Earlier(s, t) /\ Len(t.versions) =< Len(s.versions) + 1
  <2>1. \A x \in Story!Gens : s.gen[x].status # "none" =>
          t.gen[x].status # "none" /\ t.gen[x].input = s.gen[x].input
    BY <1>6, <1>10 DEF s
  <2>2. \A x \in Story!Gens : s.gen[x].status = "ready" => t.gen[x].status = "ready"
    BY <1>2, <1>6, <1>10
  <2>3. \A n \in DOMAIN s.versions : Story!MadeOf(s.versions[n]) = Story!MadeOf(t.versions[n])
    BY <1>13
  <2>4. Len(s.versions) =< Len(t.versions) /\ Len(t.versions) =< Len(s.versions) + 1
    BY <1>11, <1>13
  <2> QED BY <2>1, <2>2, <2>3, <2>4, <1>10 DEF Earlier
<1>15. \A x \in Story!Gens : t.gen[x].status # s.gen[x].status
         => rows.gen[x].status = s.gen[x].status
  BY <1>2, <1>6, <1>10
<1>16. ~Story!Conflict(s, t) /\ d = Story!Committed(s, t)
  BY DEF s
<1>0. Commits(s, t, d)
  BY <1>1, <1>3, <1>10, <1>14, <1>15, <1>16, RowsCommitted
<1>17. /\ StoryTyped(d) /\ Earlier(rows, d)
       /\ d.plan = Story!Flush(s.plan, t.plan, rows.plan)
       /\ d.creation.status = Story!Flush(s.creation.status, t.creation.status,
                                          rows.creation.status)
       /\ d.creation.story = Story!Flush(s.creation.story, t.creation.story, rows.creation.story)
       /\ d.creation.active = Story!Flush(s.creation.active, t.creation.active,
                                          rows.creation.active)
       /\ \A x \in Story!Gens :
             /\ d.gen[x].status = Story!Flush(s.gen[x].status, t.gen[x].status,
                                              rows.gen[x].status)
             /\ s.gen[x] = t.gen[x] => d.gen[x] = rows.gen[x]
             /\ s.gen[x] = rows.gen[x] => d.gen[x] = t.gen[x]
             /\ t.gen[x].status # "none" =>
                   d.gen[x].status # "none" /\ d.gen[x].input = t.gen[x].input
       /\ Len(t.versions) =< Len(d.versions)
       /\ Len(t.versions) = Len(s.versions) => Len(d.versions) = Len(rows.versions)
       /\ Len(t.versions) # Len(s.versions) =>
             /\ Len(t.versions) = Len(s.versions) + 1
             /\ Len(d.versions) = Len(t.versions) /\ Len(rows.versions) = Len(s.versions)
             /\ d.versions[Len(d.versions)] = t.versions[Len(d.versions)]
  BY <1>0 DEF Commits
<1>18. d.plan = t.plan /\ d.creation.status = t.creation.status
       /\ d.creation.active = t.creation.active
  BY <1>1, <1>17 DEF Story!Flush
<1>19. \A x \in Story!Gens : x # g => d.gen[x] = rows.gen[x]
  BY <1>6, <1>10, <1>17
<1>20. \A x \in Story!Gens : t.gen[x].status = "ready" => d.gen[x].status = "ready"
  <2>1. \A x \in Story!Gens : s.gen[x].status = "ready" => rows.gen[x].status = "ready"
    BY <1>1 DEF Earlier
  <2> QED BY <2>1, <1>17 DEF Story!Flush
\* The plan is only ready if its clips are.
<1>21. ASSUME rows.plan # NoRow, rows.plan.status = "ready" PROVE ClipsAreThere(m)
  <2>1. ClipsAreThere(rows)
    BY <1>21, <1>3 DEF ReadyIsMade
  <2>2. PlanIsMade(rows)
    BY <1>3
  <2>3. ASSUME NEW role \in Story!Roles \ {m.plan.values.owner}
        PROVE  m.plan.ids[role] # NoRow /\ m.gen[m.plan.ids[role]].status = "ready"
    <3>1. rows.plan.ids[role] # NoRow /\ rows.gen[rows.plan.ids[role]].status = "ready"
      BY <2>1, <2>3, <1>1, <1>4 DEF ClipsAreThere
    <3>2. rows.plan.ids[role] \in Story!Gens
      BY <3>1, <2>2, <1>21 DEF PlanIsMade
    <3>3. rows.plan.ids[role] # g
      BY <3>1, <1>2
    <3> QED BY <3>1, <3>2, <3>3, <1>1, <1>2, <1>4, <1>6
  <2> QED BY <2>1, <2>3, <1>1, <1>4 DEF ClipsAreThere
<1>22. ASSUME StoryIsIdle(m) PROVE StorySound(d)
  <2>1. t = m
    BY <1>9, <1>22 DEF Synced
  <2>2. d.plan = rows.plan /\ d.creation.status = rows.creation.status
        /\ d.creation.active = rows.creation.active /\ Len(d.versions) = Len(rows.versions)
    BY <2>1, <1>1, <1>4, <1>17, <1>18
  <2>3. PlanIsMade(d)
    BY <2>2, <1>3, <1>17, PlanStaysMade
  <2>4. VersionsAreMade(d)
    BY <2>2, <1>3, <1>17, VersionsStay
  <2>5. ReadyIsMade(d)
    BY <2>2, <1>3, <1>17, ReadyStaysMade
  <2> QED BY <2>3, <2>4, <2>5, <1>17 DEF StorySound
<1>23. ASSUME ~StoryIsIdle(m) PROVE StorySound(d)
  <2>1. /\ m.plan \in Story!Plan /\ rows.plan = m.plan /\ rows.plan # NoRow
        /\ t.plan # NoRow /\ SamePlan(m.plan, t.plan)
    BY <1>1, <1>4, <1>9, <1>23 DEF Synced, StoryIsIdle
  <2>2. PlanIsMade(d)
    BY <2>1, <1>3, <1>17, <1>18, PlanStaysMade
  <2>3. /\ d.plan # NoRow /\ d.plan.rev = rows.plan.rev /\ d.plan.ids = rows.plan.ids
        /\ d.plan.cut = rows.plan.cut /\ d.plan.values = rows.plan.values
    BY <2>1, <1>18 DEF SamePlan
  <2>4. CASE t.plan.status # "ready"
    <3>1. /\ t.versions = s.versions /\ t.creation.active = s.creation.active
          /\ t.creation.status \in {"source_ready", "running"}
          /\ ~(m.plan.cut # NoRow
               /\ \A role \in Story!Roles : Story!ClipStatus(m, role) = "ready")
      BY <2>4, <1>4, <1>9, <1>23 DEF Synced, Story!Lost
    <3>2. ~ClipsAreThere(m)
      BY <3>1, <2>1, <1>7, ClipsAreFound
    <3>3. rows.plan.status # "ready"
      BY <3>2, <2>1, <1>21
    <3>4. Len(d.versions) = Len(rows.versions)
      BY <3>1, <1>17
    <3>5. VersionsAreMade(d)
      BY <2>1, <2>3, <3>3, <3>4, <1>3, <1>17, VersionsStay
    <3>6. ReadyIsMade(d)
      <4>1. d.creation.active =< Len(rows.versions)
        BY <3>1, <1>1, <1>3, <1>18 DEF ReadyIsMade
      <4> QED BY <4>1, <3>1, <3>4, <2>4, <1>18 DEF ReadyIsMade
    <3> QED BY <2>2, <3>5, <3>6, <1>17 DEF StorySound
  <2>5. CASE t.plan.status = "ready"
    <3>1. /\ t.creation.status = "ready" /\ m.plan.cut # NoRow
          /\ \A role \in Story!Roles : Story!ClipStatus(m, role) = "ready"
          /\ \/ /\ t.versions = s.versions /\ t.creation.active \in DOMAIN s.versions
                /\ Story!MadeOf(s.versions[t.creation.active]) = Story!Made(m.plan)
             \/ /\ t.versions = Append(s.versions, Story!NewVersion(m))
                /\ t.creation.active = Len(s.versions) + 1
      BY <2>5, <1>4, <1>9, <1>23 DEF Synced
    <3>2. ClipsAreThere(m)
      BY <3>1, <2>1, <1>7, ClipsAreFound
    <3>3. ClipsAreThere(d)
      <4>1. ASSUME NEW role \in Story!Roles \ {d.plan.values.owner}
            PROVE  d.plan.ids[role] # NoRow /\ d.gen[d.plan.ids[role]].status = "ready"
        <5>1. m.plan.ids[role] # NoRow /\ m.gen[m.plan.ids[role]].status = "ready"
          BY <4>1, <3>2, <2>1, <2>3 DEF ClipsAreThere
        <5>2. m.plan.ids[role] \in Story!Gens
          BY <5>1, <2>1 DEF Story!Plan
        <5> QED BY <5>1, <5>2, <1>10, <1>20, <2>1, <2>3
      <4> QED BY <4>1, <3>1, <2>1, <2>3 DEF ClipsAreThere
    <3>4. CASE t.versions = s.versions
      <4>1. Len(d.versions) = Len(rows.versions)
        BY <3>4, <1>17
      <4>2. VersionsAreMade(d)
        BY <2>1, <2>3, <2>5, <4>1, <1>3, <1>17, <1>18, VersionsStay
      <4>3. t.creation.active \in DOMAIN s.versions
            /\ Story!MadeOf(s.versions[t.creation.active]) = Story!Made(m.plan)
        <5>1. Len(Append(s.versions, Story!NewVersion(m))) # Len(s.versions)
              \/ Append(s.versions, Story!NewVersion(m)) # s.versions
          BY <3>1, <3>2, <2>1, <1>7, <1>11, VersionIsTyped, AppendProperties
        <5> QED BY <3>1, <3>4, <5>1
      <4>4. d.creation.active \in DOMAIN rows.versions /\ d.creation.active \in DOMAIN d.versions
            /\ d.creation.active =< Len(d.versions)
        <5>1. DOMAIN d.versions = 1..Len(d.versions)
          BY <1>17, LenProperties DEF StoryTyped, StoryRows
        <5>2. Len(s.versions) =< Len(rows.versions)
          BY <1>1 DEF Earlier
        <5>3. d.creation.active \in 1..Len(s.versions)
          BY <4>3, <1>11, <1>18
        <5> QED BY <5>1, <5>2, <5>3, <4>1, <1>11
      <4>5. Story!MadeOf(d.versions[d.creation.active]) = Story!Made(m.plan)
        <5>1. Story!MadeOf(rows.versions[t.creation.active]) = Story!Made(m.plan)
          BY <4>3, <1>1 DEF Earlier
        <5>2. Story!MadeOf(d.versions[t.creation.active]) =
                Story!MadeOf(rows.versions[t.creation.active])
          BY <4>4, <1>17, <1>18 DEF Earlier
        <5> QED BY <5>1, <5>2, <1>18
      <4>6. Matches(d.versions[d.creation.active], d.plan)
        BY <4>5, <2>1, <2>3 DEF Matches, Story!MadeOf, Story!Made
      <4>7. ReadyIsMade(d)
        BY <4>4, <4>6, <3>1, <3>3, <2>3, <2>5, <1>18 DEF ReadyIsMade
      <4> QED BY <2>2, <4>2, <4>7, <1>17 DEF StorySound
    <3>5. CASE t.versions # s.versions
      <4>1. /\ Story!NewVersion(m) \in Story!Version
               /\ Story!MadeOf(Story!NewVersion(m)) = Story!Made(m.plan)
            /\ Len(t.versions) = Len(s.versions) + 1
            /\ t.versions[Len(s.versions) + 1] = Story!NewVersion(m)
            /\ t.creation.active = Len(s.versions) + 1
        BY <3>5, <1>12, <1>13
      <4>2. /\ Len(d.versions) = Len(rows.versions) + 1 /\ Len(d.versions) = Len(s.versions) + 1
            /\ d.versions[Len(d.versions)] = Story!NewVersion(m)
        <5>1. Len(t.versions) # Len(s.versions)
          BY <4>1, <1>11
        <5>2. /\ Len(d.versions) = Len(t.versions) /\ Len(rows.versions) = Len(s.versions)
              /\ d.versions[Len(d.versions)] = t.versions[Len(d.versions)]
          BY <5>1, <1>17
        <5> QED BY <5>2, <4>1
      <4>3. Matches(Story!NewVersion(m), d.plan) /\ Story!NewVersion(m).cut # NoRow
        BY <2>1, <2>3, <3>1 DEF Matches, Story!NewVersion
      <4>4. VersionIsMade(d, Story!NewVersion(m))
        <5>1. \A role \in Story!Roles : d.plan.ids[role] # NoRow =>
                d.plan.ids[role] \in Story!Gens /\ d.gen[d.plan.ids[role]].status # "none"
          BY <2>2, <2>3 DEF PlanIsMade
        <5>2. d.plan.rev \in Nat
          BY <2>1, <2>3 DEF Story!Plan
        <5> QED BY <5>1, <5>2, <4>3 DEF VersionIsMade, Matches
      <4>5. VersionsAreMade(d)
        BY <2>1, <2>3, <2>5, <4>2, <4>3, <4>4, <1>3, <1>17, <1>18, VersionsStay
      <4>6. d.creation.active = Len(d.versions) /\ d.creation.active \in DOMAIN d.versions
            /\ d.creation.active =< Len(d.versions)
        <5>1. DOMAIN d.versions = 1..Len(d.versions)
          BY <1>17, LenProperties DEF StoryTyped, StoryRows
        <5> QED BY <5>1, <4>1, <4>2, <1>11, <1>18
      <4>7. ReadyIsMade(d)
        BY <4>2, <4>3, <4>6, <3>1, <3>3, <2>3, <2>5, <1>18 DEF ReadyIsMade
      <4> QED BY <2>2, <4>5, <4>7, <1>17 DEF StorySound
    <3> QED BY <3>4, <3>5
  <2> QED BY <2>4, <2>5
<1>25. Commits(Story!View, t, d)
  BY <1>0 DEF s
<1> QED BY <1>9, <1>17, <1>19, <1>22, <1>23, <1>24, <1>25

-----------------------------------------------------------------------------
\* The request that read s finds plan and endings as it read them.
Fresh(s) == rows.plan = s.plan /\ \A g \in Story!Gens : rows.gen[g].status = s.gen[g].status

\* What a request can do to endings.
StopsOrStarts(s, t) ==
    \A g \in Story!Gens : t.gen[g].status # s.gen[g].status =>
        \/ s.gen[g].status = "queued" /\ t.gen[g].status = "cancelled"
        \/ s.gen[g].status = "none" /\ t.gen[g].status = "queued"

\* The endings that the tick relies on.
RunningStay(d) ==
    \A g \in Story!Gens : /\ rows.gen[g].status = "running" => d.gen[g].status = "running"
                          /\ d.gen[g].status = "ready" => rows.gen[g].status = "ready"

\* A request commits what it has changed, on what it has read, or only versions.
LEMMA RequestCommits ==
  ASSUME NEW r \in Requests, NEW s, s = req[r], StorySound(rows), StorySound(s), Earlier(s, rows),
         NEW t, StoryTyped(t), Earlier(s, t), Len(t.versions) =< Len(s.versions) + 1,
         StopsOrStarts(s, t), Story!Respond(r, t), "request" \notin blind'
  PROVE  /\ Commits(s, t, rows')
         /\ Fresh(s) \/ (t.plan = s.plan /\ t.gen = s.gen /\ t.creation = s.creation)
         /\ RunningStay(rows')
         /\ tick.held => rows'.plan = rows.plan
<1>1. Fresh(s) \/ (t.plan = s.plan /\ t.gen = s.gen /\ t.creation = s.creation)
  BY DEF Story!Respond, Story!Blind, Fresh
<1>2. ~Story!Conflict(s, t) /\ rows' = Story!Committed(s, t) /\ ~Story!Waits(s, t)
  BY DEF Story!Respond
<1>3. \A g \in Story!Gens : t.gen[g].status # s.gen[g].status
        => rows.gen[g].status = s.gen[g].status
  BY <1>1 DEF Fresh
<1>4. Commits(s, t, rows')
  BY <1>2, <1>3, RowsCommitted DEF StorySound
<1>5. \A g \in Story!Gens : rows'.gen[g].status = Story!Flush(s.gen[g].status, t.gen[g].status,
                                                              rows.gen[g].status)
  BY <1>4 DEF Commits
<1>6. RunningStay(rows')
  <2>1. ASSUME NEW g \in Story!Gens
        PROVE  /\ rows.gen[g].status = "running" => rows'.gen[g].status = "running"
               /\ rows'.gen[g].status = "ready" => rows.gen[g].status = "ready"
    <3>1. CASE t.gen[g].status = s.gen[g].status
      BY <3>1, <1>5 DEF Story!Flush
    <3>2. CASE t.gen[g].status # s.gen[g].status
      <4>1. rows'.gen[g].status = t.gen[g].status /\ rows.gen[g].status = s.gen[g].status
        BY <3>2, <1>3, <1>5 DEF Story!Flush
      <4> QED BY <4>1, <3>2 DEF StopsOrStarts
    <3> QED BY <3>1, <3>2
  <2> QED BY <2>1 DEF RunningStay
<1>7. tick.held => rows'.plan = rows.plan
  <2>1. SUFFICES ASSUME tick.held PROVE rows'.plan = rows.plan
    OBVIOUS
  <2>2. [t EXCEPT !.versions = s.versions] = s
    BY <2>1, <1>2 DEF Story!Waits
  <2>3. [t EXCEPT !.versions = s.versions].plan = t.plan
    BY DEF StoryTyped, StoryRows
  <2>4. t.plan = s.plan
    BY <2>2, <2>3
  <2>5. rows'.plan = Story!Flush(s.plan, t.plan, rows.plan)
    BY <1>4 DEF Commits
  <2> QED BY <2>4, <2>5 DEF Story!Flush
<1> QED BY <1>1, <1>4, <1>6, <1>7

\* A request that leaves the plan alone leaves the Story sound.
LEMMA PlanUntouched ==
  ASSUME NEW s, NEW t, NEW d, StorySound(rows), Earlier(s, rows), Commits(s, t, d),
         t.plan = s.plan,
         Len(t.versions) = Len(s.versions), t.creation.active = s.creation.active,
         t.creation.status \in {s.creation.status, "pending_review", "abandoned"}
  PROVE  StorySound(d)
<1>1. /\ StoryTyped(d) /\ Earlier(rows, d) /\ d.plan = rows.plan
      /\ d.creation.status \in {rows.creation.status, "pending_review", "abandoned"}
      /\ d.creation.active = rows.creation.active
      /\ Len(d.versions) = Len(rows.versions)
  BY DEF Commits, Story!Flush
<1>2. StoryTyped(rows) /\ PlanIsMade(rows) /\ VersionsAreMade(rows) /\ ReadyIsMade(rows)
  BY DEF StorySound
<1>3. PlanIsMade(d)
  BY <1>1, <1>2, PlanStaysMade
<1>4. VersionsAreMade(d)
  BY <1>1, <1>2, VersionsStay
<1>5. ReadyIsMade(d)
  BY <1>1, <1>2, ReadyStaysMade
<1> QED BY <1>1, <1>3, <1>4, <1>5 DEF StorySound

\* A creation that a request leaves unfinished does not show as ready.
LEMMA UnfinishedIsNotReady ==
  ASSUME NEW s, NEW t, NEW d, StorySound(rows), StorySound(s), Fresh(s), Commits(s, t, d),
         t.plan # NoRow, t.plan.status # "ready", t.plan # s.plan \/ rows.plan.status # "ready",
         t.creation.active = s.creation.active, t.creation.status \in {"source_ready", "running"}
  PROVE  d.plan = t.plan /\ ReadyIsMade(d)
<1>1. d.plan = t.plan
  BY DEF Commits, Story!Flush, Fresh
<1>2. d.creation.active =< Len(d.versions)
  <2>1. d.creation.active = rows.creation.active /\ rows.creation.active =< Len(rows.versions)
        /\ Len(rows.versions) =< Len(d.versions)
    BY DEF Commits, Story!Flush, StorySound, ReadyIsMade, Earlier
  <2>2. rows.creation.active \in Nat /\ Len(rows.versions) \in Nat /\ Len(d.versions) \in Nat
    BY LenProperties DEF StorySound, StoryTyped, StoryRows, CreationRow, Commits
  <2> QED BY <2>1, <2>2
<1>3. d.creation.status # "ready"
  <2>1. CASE t.creation.status # s.creation.status
    BY <2>1 DEF Commits, Story!Flush
  <2>2. CASE t.creation.status = s.creation.status
    <3>1. d.creation.status = rows.creation.status
      BY <2>2 DEF Commits, Story!Flush
    <3>2. rows.creation.status = "ready" => s.plan # NoRow /\ s.plan.status = "ready"
      BY DEF StorySound, ReadyIsMade, Fresh
    <3>3. s.plan # NoRow /\ s.plan.status = "ready" =>
             s.creation.status \in {"ready", "pending_review", "abandoned"}
      BY DEF StorySound, ReadyIsMade
    <3> QED BY <3>1, <3>2, <3>3, <2>2
  <2> QED BY <2>1, <2>2
<1> QED BY <1>1, <1>2, <1>3 DEF ReadyIsMade

-----------------------------------------------------------------------------
\* What sync_story adds to rows m.
LEMMA SyncKeepsRows ==
  ASSUME NEW m, NEW t, StoryTyped(m), Synced(m, t)
  PROVE  /\ Earlier(m, t) /\ Len(t.versions) =< Len(m.versions) + 1
         /\ t.versions # m.versions =>
               /\ Story!NewVersion(m) \in Story!Version
                  /\ Story!MadeOf(Story!NewVersion(m)) = Story!Made(m.plan)
               /\ Len(t.versions) = Len(m.versions) + 1
               /\ t.versions[Len(m.versions) + 1] = Story!NewVersion(m)
               /\ t.creation.active = Len(m.versions) + 1
               /\ t.plan.status = "ready"
<1>1. /\ m.versions \in Seq(Story!Version) /\ Len(m.versions) \in Nat
      /\ DOMAIN m.versions = 1..Len(m.versions)
  BY LenProperties DEF StoryTyped, StoryRows
<1>2. t.gen = m.gen /\ t.creation.story = m.creation.story
  BY DEF Synced
<1>3. \/ t.versions = m.versions
      \/ /\ t.versions = Append(m.versions, Story!NewVersion(m)) /\ m.plan \in Story!Plan
            /\ m.plan.cut # NoRow
         /\ t.creation.active = Len(m.versions) + 1 /\ t.plan.status = "ready"
  BY DEF Synced
<1>4. ASSUME t.versions # m.versions
      PROVE  /\ Story!NewVersion(m) \in Story!Version
                /\ Story!MadeOf(Story!NewVersion(m)) = Story!Made(m.plan)
             /\ Len(t.versions) = Len(m.versions) + 1
             /\ t.versions[Len(m.versions) + 1] = Story!NewVersion(m)
             /\ \A n \in DOMAIN m.versions : t.versions[n] = m.versions[n]
  <2>1. Story!NewVersion(m) \in Story!Version
        /\ Story!MadeOf(Story!NewVersion(m)) = Story!Made(m.plan)
    BY <1>3, <1>4, VersionIsTyped
  <2> QED BY <2>1, <1>1, <1>3, <1>4, AppendProperties
<1>5. Earlier(m, t)
  <2>1. \A n \in DOMAIN m.versions : Story!MadeOf(m.versions[n]) = Story!MadeOf(t.versions[n])
    BY <1>4
  <2>2. Len(m.versions) =< Len(t.versions)
    BY <1>1, <1>4
  <2> QED BY <2>1, <2>2, <1>2 DEF Earlier
<1>6. Len(t.versions) =< Len(m.versions) + 1
  BY <1>1, <1>4
<1> QED BY <1>3, <1>4, <1>5, <1>6

\* sync_story, by a session whose plan and endings are as it read them, leaves the Story
\* sound.
LEMMA SyncLeavesSound ==
  ASSUME NEW s, StorySound(rows), StorySound(s), Earlier(s, rows), Fresh(s), s.plan # NoRow,
         NEW m, StoryTyped(m), PlanIsMade(m), ~StoryIsIdle(m),
         m.versions = s.versions, m.creation.active = s.creation.active,
         m.plan.rev = s.plan.rev, m.plan.cut = s.plan.cut, m.plan.values = s.plan.values,
         \/ m.plan.ids = s.plan.ids /\ (s.plan.status = "ready" => ClipsAreThere(m))
         \/ ~ClipsAreThere(m)
            /\ \A n \in DOMAIN rows.versions : ~Matches(rows.versions[n], m.plan),
         NEW t, Synced(m, t), NEW d, Commits(s, t, d)
  PROVE  StorySound(d)
<1>1. /\ m.plan \in Story!Plan /\ m.plan # NoRow /\ t.plan # NoRow /\ SamePlan(m.plan, t.plan)
      /\ t.gen = m.gen
  BY DEF Synced, StoryIsIdle
<1>2. StoryTyped(d) /\ Earlier(rows, d) /\ d.plan = t.plan
  BY DEF Commits, Story!Flush, Fresh
<1>3. StoryTyped(rows) /\ PlanIsMade(rows) /\ VersionsAreMade(rows) /\ ReadyIsMade(rows)
      /\ StoryTyped(s) /\ ReadyIsMade(s) /\ rows.plan = s.plan
  BY DEF StorySound, Fresh
<1>4. /\ d.plan # NoRow /\ d.plan.rev = m.plan.rev /\ d.plan.cut = m.plan.cut
      /\ d.plan.ids = m.plan.ids /\ d.plan.values = m.plan.values
      /\ d.plan.rev = rows.plan.rev /\ d.plan.cut = rows.plan.cut
         /\ d.plan.values = rows.plan.values
  BY <1>1, <1>2, <1>3 DEF SamePlan
<1>5. \A g \in Story!Gens : /\ m.gen[g].status # "none" =>
                                  d.gen[g].status # "none" /\ d.gen[g].input = m.gen[g].input
                            /\ m.gen[g].status = "ready" => d.gen[g].status = "ready"
  BY <1>1 DEF Commits, Story!Flush, Fresh
<1>6. PlanIsMade(d)
  BY <1>1, <1>4, <1>5 DEF PlanIsMade
<1>7. /\ s.versions \in Seq(Story!Version) /\ rows.versions \in Seq(Story!Version)
         /\ d.versions \in Seq(Story!Version)
      /\ Len(s.versions) \in Nat /\ Len(rows.versions) \in Nat /\ Len(d.versions) \in Nat
      /\ DOMAIN s.versions = 1..Len(s.versions) /\ DOMAIN rows.versions = 1..Len(rows.versions)
      /\ DOMAIN d.versions = 1..Len(d.versions)
      /\ s.creation.active \in Nat /\ rows.creation.active \in Nat
  BY <1>2, <1>3, LenProperties DEF StoryTyped, StoryRows, CreationRow
<1>8. Len(s.versions) =< Len(rows.versions) /\ Len(rows.versions) =< Len(d.versions)
  BY <1>2 DEF Earlier
\* A plan that was not ready has no version yet.
<1>9. rows.plan.status # "ready"
        => \A n \in DOMAIN rows.versions : ~Matches(rows.versions[n], d.plan)
  BY <1>3, <1>4 DEF VersionsAreMade, Matches
<1>10. ASSUME NEW n \in DOMAIN s.versions
       PROVE  n \in DOMAIN rows.versions /\ n \in DOMAIN d.versions
              /\ Story!MadeOf(s.versions[n]) = Story!MadeOf(rows.versions[n])
              /\ Story!MadeOf(s.versions[n]) = Story!MadeOf(d.versions[n])
  BY <1>2, <1>7, <1>8 DEF Earlier
<1>11. CASE t.plan.status # "ready"
  <2>1. /\ t.versions = s.versions /\ t.creation.active = s.creation.active
        /\ t.creation.status \in {"source_ready", "running"} /\ ~ClipsAreThere(m)
    BY <1>1, <1>11, ClipsAreFound DEF Synced, Story!Lost
  <2>2. \A n \in DOMAIN rows.versions : ~Matches(rows.versions[n], d.plan)
    BY <2>1, <1>3, <1>4, <1>9 DEF Matches
  <2>3. Len(d.versions) = Len(rows.versions)
    BY <2>1 DEF Commits
  <2>4. VersionsAreMade(d)
    <3>1. rows.plan.rev =< d.plan.rev /\ rows.plan # NoRow
      BY <1>1, <1>3, <1>4 DEF Story!Plan
    <3> QED BY <3>1, <2>2, <2>3, <1>2, <1>3, <1>4, VersionsStay
  <2>5. t.plan # s.plan \/ rows.plan.status # "ready"
    BY <1>3, <1>11
  <2>6. ReadyIsMade(d)
    BY <2>1, <2>5, <1>1, <1>11, UnfinishedIsNotReady
  <2> QED BY <2>4, <2>6, <1>2, <1>6 DEF StorySound
<1>12. CASE t.plan.status = "ready"
  <2>1. /\ t.creation.status = "ready" /\ m.plan.cut # NoRow
        /\ \A role \in Story!Roles : Story!ClipStatus(m, role) = "ready"
        /\ \/ /\ t.versions = s.versions /\ t.creation.active \in DOMAIN s.versions
              /\ Story!MadeOf(s.versions[t.creation.active]) = Story!Made(m.plan)
           \/ /\ t.versions = Append(s.versions, Story!NewVersion(m))
              /\ t.creation.active = Len(s.versions) + 1
    BY <1>12 DEF Synced
  <2>2. ClipsAreThere(m)
    BY <2>1, <1>1, ClipsAreFound
  <2>3. ClipsAreThere(d)
    BY <2>2, <1>1, <1>4, <1>5 DEF ClipsAreThere, Story!Plan
  <2>4. d.creation.status \in {"ready", "pending_review", "abandoned"}
    <3>1. s.creation.status = "ready"
            => rows.creation.status \in {"ready", "pending_review", "abandoned"}
      BY <1>3 DEF ReadyIsMade
    <3> QED BY <3>1, <2>1 DEF Commits, Story!Flush
  <2>5. CASE t.versions = s.versions
    <3>1. t.creation.active \in DOMAIN s.versions
          /\ Story!MadeOf(s.versions[t.creation.active]) = Story!Made(m.plan)
      <4>1. Story!NewVersion(m) \in Story!Version
        BY <2>1, <1>1, VersionIsTyped
      <4>2. Len(Append(s.versions, Story!NewVersion(m))) = Len(s.versions) + 1
        BY <4>1, <1>7, AppendProperties
      <4>3. t.versions # Append(s.versions, Story!NewVersion(m))
        BY <4>2, <2>5, <1>7
      <4> QED BY <4>3, <2>1
    <3>2. Matches(rows.versions[t.creation.active], d.plan)
          /\ t.creation.active \in DOMAIN rows.versions
          /\ Matches(d.versions[t.creation.active], d.plan)
             /\ t.creation.active \in DOMAIN d.versions
      BY <3>1, <1>4, <1>10 DEF Story!MadeOf, Story!Made, Matches
    <3>3. rows.plan.status = "ready" /\ d.plan.ids = rows.plan.ids
      BY <3>2, <1>3, <1>4, <1>9 DEF Matches
    <3>4. Len(d.versions) = Len(rows.versions)
      BY <2>5 DEF Commits
    <3>5. VersionsAreMade(d)
      BY <3>3, <3>4, <1>2, <1>3, <1>4, <1>12, VersionsStay
    <3>6. d.creation.active \in {t.creation.active, rows.creation.active}
      BY DEF Commits, Story!Flush
    <3>7. rows.creation.active \in DOMAIN rows.versions
          /\ Matches(rows.versions[rows.creation.active], rows.plan)
      BY <3>3, <1>3 DEF ReadyIsMade
    <3>8. rows.creation.active \in DOMAIN d.versions
          /\ Matches(d.versions[rows.creation.active], d.plan)
      <4>1. rows.creation.active \in DOMAIN d.versions
        BY <3>7, <1>7, <1>8
      <4>2. Story!MadeOf(rows.versions[rows.creation.active]) =
              Story!MadeOf(d.versions[rows.creation.active])
        BY <3>7, <1>2 DEF Earlier
      <4> QED BY <4>1, <4>2, <3>3, <3>7, <1>4 DEF Story!MadeOf, Matches
    <3>9. ReadyIsMade(d)
      <4>1. d.creation.active \in DOMAIN d.versions
            /\ Matches(d.versions[d.creation.active], d.plan)
        BY <3>2, <3>6, <3>8
      <4>2. d.creation.active =< Len(d.versions)
        BY <4>1, <1>7
      <4> QED BY <4>1, <4>2, <2>3, <2>4, <1>2, <1>4, <1>12 DEF ReadyIsMade
    <3> QED BY <3>5, <3>9, <1>2, <1>6 DEF StorySound
  <2>6. CASE t.versions # s.versions
    <3>1. /\ Story!NewVersion(m) \in Story!Version /\ Len(t.versions) = Len(s.versions) + 1
          /\ t.versions[Len(s.versions) + 1] = Story!NewVersion(m)
          /\ t.creation.active = Len(s.versions) + 1
      BY <2>6, SyncKeepsRows
    <3>2. /\ Len(d.versions) = Len(rows.versions) + 1 /\ Len(d.versions) = Len(s.versions) + 1
          /\ d.versions[Len(d.versions)] = Story!NewVersion(m)
      <4>1. Len(t.versions) # Len(s.versions)
        BY <3>1, <1>7
      <4>2. /\ Len(d.versions) = Len(t.versions) /\ Len(rows.versions) = Len(s.versions)
            /\ d.versions[Len(d.versions)] = t.versions[Len(d.versions)]
        BY <4>1 DEF Commits
      <4> QED BY <4>2, <3>1
    <3>3. Matches(Story!NewVersion(m), d.plan) /\ Story!NewVersion(m).cut # NoRow
      BY <2>1, <1>4 DEF Matches, Story!NewVersion
    <3>4. VersionIsMade(d, Story!NewVersion(m))
      <4>1. \A role \in Story!Roles : d.plan.ids[role] # NoRow =>
              d.plan.ids[role] \in Story!Gens /\ d.gen[d.plan.ids[role]].status # "none"
        BY <1>4, <1>6 DEF PlanIsMade
      <4>2. d.plan.rev \in Nat
        BY <1>1, <1>4 DEF Story!Plan
      <4> QED BY <4>1, <4>2, <3>3 DEF VersionIsMade, Matches
    <3>5. VersionsAreMade(d)
      <4>1. d.plan.ids = rows.plan.ids
        BY <2>2, <1>3, <1>4
      <4> QED BY <4>1, <3>2, <3>3, <3>4, <1>2, <1>3, <1>4, <1>12, VersionsStay
    <3>6. d.creation.active = Len(d.versions)
      <4>1. s.creation.active =< Len(s.versions)
        BY <1>3 DEF ReadyIsMade
      <4>2. t.creation.active # s.creation.active
        BY <4>1, <3>1, <1>7
      <4> QED BY <4>2, <3>1, <3>2 DEF Commits, Story!Flush
    <3>7. ReadyIsMade(d)
      BY <3>2, <3>3, <3>6, <2>3, <2>4, <1>2, <1>4, <1>7, <1>12 DEF ReadyIsMade
    <3> QED BY <3>5, <3>7, <1>2, <1>6 DEF StorySound
  <2> QED BY <2>5, <2>6
<1> QED BY <1>11, <1>12

-----------------------------------------------------------------------------
\* What _cancel_pending_story_generations leaves of the endings.
LEMMA EndingsAreStopped ==
  ASSUME NEW s, StoryTyped(s), NEW t, t = Story!CancelPending(s)
  PROVE  /\ StoryTyped(t) /\ Earlier(s, t) /\ StopsOrStarts(s, t)
         /\ t.plan = s.plan /\ t.creation = s.creation /\ t.versions = s.versions
         /\ \A g \in Story!Gens : t.gen[g].status = "ready" <=> s.gen[g].status = "ready"
         /\ Starts(s, t)
         /\ Started(s) /\ s.plan # NoRow =>
               \A g \in Story!Gens : g \in Story!Current(s) => t.gen[g].status # "queued"
<1>1. ASSUME NEW row \in Story!Gen
      PROVE  /\ Story!Stopped(row) \in Story!Gen /\ Story!Stopped(row).input = row.input
             /\ \/ Story!Stopped(row).status = row.status
                \/ row.status = "queued" /\ Story!Stopped(row).status = "cancelled"
             /\ row.status = "none" => Story!Stopped(row) = row
             /\ row.status = "queued" /\ ~row.job => Story!Stopped(row).status = "cancelled"
  <2>1. CASE row.status = "queued" /\ ~row.job
    <3>1. Story!Stopped(row) = Story!Release([row EXCEPT !.status = "cancelled"])
      BY <2>1 DEF Story!Stopped
    <3>2. [row EXCEPT !.status = "cancelled"] \in Story!Gen
      BY DEF Story!Gen, Story!Lost
    <3> QED BY <2>1, <3>1, <3>2 DEF Story!Gen, Story!Release
  <2>2. CASE ~(row.status = "queued" /\ ~row.job) /\ row.status \in Story!Active
    <3>1. Story!Stopped(row) = [row EXCEPT !.cancel = TRUE]
      BY <2>2 DEF Story!Stopped
    <3> QED BY <2>2, <3>1 DEF Story!Gen, Story!Active
  <2>3. CASE ~(row.status = "queued" /\ ~row.job) /\ row.status \notin Story!Active
    BY <2>3 DEF Story!Stopped
  <2> QED BY <2>1, <2>2, <2>3
<1>2. CASE s.plan = NoRow
  BY <1>2 DEF Story!CancelPending, Earlier, StopsOrStarts, StoryTyped, StoryRows, Starts
<1>3. CASE s.plan # NoRow
  <2>1. t = [s EXCEPT !.gen =
             [g \in Story!Gens |-> IF g \in Story!Current(s) THEN Story!Stopped(@[g]) ELSE @[g]]]
    BY <1>3 DEF Story!CancelPending
  <2>2. /\ t.plan = s.plan /\ t.creation = s.creation /\ t.versions = s.versions
        /\ t.gen = [g \in Story!Gens |-> IF g \in Story!Current(s) THEN Story!Stopped(s.gen[g])
                    ELSE s.gen[g]]
        /\ t = [plan |-> t.plan, creation |-> t.creation, gen |-> t.gen, versions |-> t.versions]
    BY <2>1 DEF StoryTyped, StoryRows
  <2>3. \A g \in Story!Gens : s.gen[g] \in Story!Gen
    BY DEF StoryTyped, StoryRows
  <2>4. \A g \in Story!Gens :
          /\ t.gen[g] \in Story!Gen /\ t.gen[g].input = s.gen[g].input
          /\ \/ t.gen[g].status = s.gen[g].status
             \/ s.gen[g].status = "queued" /\ t.gen[g].status = "cancelled"
          /\ s.gen[g].status = "none" => t.gen[g] = s.gen[g]
          /\ g \notin Story!Current(s) => t.gen[g] = s.gen[g]
          /\ g \in Story!Current(s) /\ s.gen[g].status = "queued" /\ ~s.gen[g].job =>
                t.gen[g].status = "cancelled"
    BY <2>2, <2>3, <1>1
  <2>5. t.gen \in [Story!Gens -> Story!Gen]
    BY <2>2, <2>4
  <2>6. StoryTyped(t)
    <3>1. \A g \in Story!Gens : t.gen[g].status = "none" => t.gen[g] = Story!NoGen
      BY <2>4 DEF StoryTyped
    <3> QED BY <3>1, <2>2, <2>5 DEF StoryTyped, StoryRows
  <2>7. Earlier(s, t)
    <3>1. Len(s.versions) \in Nat
      BY LenProperties DEF StoryTyped, StoryRows
    <3> QED BY <3>1, <2>2, <2>4 DEF Earlier
  <2>8. StopsOrStarts(s, t)
    BY <2>4 DEF StopsOrStarts
  <2>9. \A g \in Story!Gens : t.gen[g].status = "ready" <=> s.gen[g].status = "ready"
    BY <2>4
  <2>10. ASSUME Started(s), NEW g \in Story!Gens, g \in Story!Current(s)
         PROVE t.gen[g].status # "queued"
    BY <2>4, <2>10 DEF Started
  <2>11. Starts(s, t)
    <3>1. ASSUME Started(s), NEW g \in Story!Gens, t.gen[g].status = "queued"
          PROVE  t.gen[g] = s.gen[g]
      BY <3>1, <2>4, <2>10
    <3> QED BY <3>1, <2>2 DEF Starts, Started
  <2> QED BY <2>2, <2>6, <2>7, <2>8, <2>9, <2>10, <2>11
<1> QED BY <1>2, <1>3

-----------------------------------------------------------------------------
\* What a step leaves, and what the tick relies on.
Keeps(d) == /\ StorySound(d) /\ Earlier(rows, d) /\ RunningStay(d)
            /\ tick.held => d.plan = rows.plan

\* The way is told by the plan and by what is there.
LEMMA SameWay ==
  ASSUME NEW c, NEW d, OnItsWay(c), d.plan = c.plan, d.creation.status = c.creation.status,
         \A g \in Story!Gens : d.gen[g].status = c.gen[g].status, StoryTyped(c)
  PROVE  OnItsWay(d)
<1>1. ASSUME NEW role \in Story!Roles, c.plan # NoRow
      PROVE Story!ClipStatus(d, role) = Story!ClipStatus(c, role)
  <2>1. c.plan \in Story!Plan
    BY <1>1 DEF StoryTyped, StoryRows
  <2>2. c.plan.ids[role] \in Story!Gens \cup {NoRow}
    BY <2>1 DEF Story!Plan
  <2> QED BY <2>2 DEF Story!ClipStatus
<1>2. ASSUME d.plan # NoRow, Story!Editable(d), d.plan.status = "generating"
      PROVE  \/ d.plan.cut = NoRow
             \/ \E role \in Story!Roles \ {d.plan.values.owner} : Story!ClipStatus(d, role) =
                  "pending"
             \/ \E g \in Story!Gens : d.gen[g].status \in Story!Active
  <2>1. \/ c.plan.cut = NoRow
        \/ \E role \in Story!Roles \ {c.plan.values.owner} : Story!ClipStatus(c, role) = "pending"
        \/ \E g \in Story!Gens : c.gen[g].status \in Story!Active
    BY <1>2 DEF OnItsWay, Story!Editable
  <2> QED BY <2>1, <1>1, <1>2
<1>3. d.creation.status = "pending_review" => d.plan # NoRow /\ d.plan.status = "ready"
  BY DEF OnItsWay
<1>4. d.plan # NoRow /\ d.creation.status = "abandoned" =>
          \A role \in Story!Roles : d.plan.ids[role] # NoRow =>
             d.plan.ids[role] \in Story!Gens /\ d.gen[d.plan.ids[role]].status # "queued"
  BY DEF OnItsWay
<1> QED BY <1>2, <1>3, <1>4 DEF OnItsWay

\* sync_story leaves a Story on its way.
LEMMA SyncedIsOnItsWay ==
  ASSUME NEW m, StoryTyped(m), ~StoryIsIdle(m), NEW t, Synced(m, t)
  PROVE  OnItsWay(t)
<1>1. /\ m.plan \in Story!Plan /\ t.plan # NoRow /\ SamePlan(m.plan, t.plan) /\ t.gen = m.gen
      /\ t.creation.status \in {"source_ready", "running", "ready"}
  BY DEF Synced
<1>2. ASSUME t.plan.status = "generating"
      PROVE  \/ t.plan.cut = NoRow
             \/ \E role \in Story!Roles \ {t.plan.values.owner} : Story!ClipStatus(t, role) =
                  "pending"
             \/ \E g \in Story!Gens : t.gen[g].status \in Story!Active
  <2>1. /\ \A role \in Story!Roles : Story!ClipStatus(m, role) \notin Story!Lost
        /\ m.plan.cut = NoRow \/ \E role \in Story!Roles : Story!ClipStatus(m, role) # "ready"
    BY <1>2 DEF Synced
  <2>2. CASE m.plan.cut = NoRow
    BY <2>2, <1>1 DEF SamePlan
  <2>3. CASE m.plan.cut # NoRow
    <3>1. PICK role \in Story!Roles : Story!ClipStatus(m, role) # "ready"
      BY <2>1, <2>3
    <3>2. role # m.plan.values.owner
      BY <2>3, <3>1, <1>1, ClipsOfPlan
    <3>3. \/ Story!ClipStatus(m, role) = "pending"
          \/ /\ m.plan.ids[role] \in Story!Gens
             /\ Story!ClipStatus(m, role) = m.gen[m.plan.ids[role]].status
             /\ Story!ClipStatus(m, role) \in {"ready"} \cup Story!Active \cup Story!Lost
      BY <3>2, <1>1, ClipsOfPlan
    <3>4. role # t.plan.values.owner /\ Story!ClipStatus(t, role) = Story!ClipStatus(m, role)
      BY <3>2, <1>1 DEF SamePlan, Story!ClipStatus
    <3> QED BY <3>1, <3>3, <3>4, <2>1, <1>1
  <2> QED BY <2>2, <2>3
<1> QED BY <1>1, <1>2 DEF OnItsWay

\* A request leaves the Story on its way if it does so in what it has read.
LEMMA RequestGoes ==
  ASSUME NEW r \in Requests, NEW s, s = req[r], StorySound(rows), StorySound(s), Earlier(s, rows),
         NEW t, StoryTyped(t), Story!Respond(r, t), WayStays(s, t), NEW d, Commits(s, t, d)
  PROVE  Goes(s, d)
<1> SUFFICES ASSUME blind' = {}, OnItsWay(rows), Started(rows), Started(s)
             PROVE  OnItsWay(d) /\ Started(d)
  BY DEF Goes
<1>1. \/ t.plan = s.plan /\ t.gen = s.gen /\ t.creation = s.creation
      \/ Fresh(s) /\ rows.creation.status = s.creation.status
  BY DEF Story!Respond, Story!Blind, Fresh
<1>2. StoryTyped(rows) /\ StoryTyped(s) /\ PlanIsMade(rows)
  BY DEF StorySound
<1>3. CASE t.plan = s.plan /\ t.gen = s.gen /\ t.creation = s.creation
  <2>1. /\ d.plan = rows.plan /\ d.creation.status = rows.creation.status
        /\ d.creation.story = rows.creation.story /\ \A g \in Story!Gens : d.gen[g] = rows.gen[g]
    BY <1>3 DEF Commits, Story!Flush
  <2> QED BY <2>1, <1>2, SameWay DEF Started
<1>4. CASE Fresh(s) /\ rows.creation.status = s.creation.status
  <2>1. OnItsWay(s)
    BY <1>2, <1>4, SameWay DEF Fresh
  <2>2. OnItsWay(t) /\ Started(t)
        /\ \A g \in Story!Gens : t.gen[g].status = "queued" => t.gen[g] = s.gen[g]
           \/ s.gen[g].status = "none"
    BY <2>1 DEF WayStays, Starts
  <2>3. /\ d.plan = t.plan /\ d.creation.status = t.creation.status
        /\ \A g \in Story!Gens : d.gen[g].status = t.gen[g].status
    BY <1>4 DEF Commits, Story!Flush, Fresh
  <2>4. d.plan # NoRow => d.creation.story
    <3>1. ASSUME d.plan # NoRow PROVE d.creation.story
      <4>1. t.creation.story
        BY <3>1, <2>2, <2>3 DEF Started
      <4>2. t.creation.story = TRUE /\ s.creation.story \in BOOLEAN
        BY <4>1, <1>2 DEF StoryTyped, StoryRows, CreationRow
      <4>3. CASE s.creation.story = TRUE
        BY <4>2, <4>3 DEF Commits, Story!Flush, Earlier
      <4>4. CASE s.creation.story # TRUE
        BY <4>2, <4>4 DEF Commits, Story!Flush
      <4> QED BY <4>3, <4>4
    <3> QED BY <3>1
  <2>5. ASSUME NEW g \in Story!Gens, d.gen[g].status = "queued" PROVE ~d.gen[g].job
    <3>1. CASE t.gen[g] = s.gen[g]
      <4>1. d.gen[g] = rows.gen[g]
        BY <3>1 DEF Commits
      <4> QED BY <4>1, <2>5 DEF Started
    <3>2. CASE s.gen[g].status = "none"
      <4>1. s.gen[g] = Story!NoGen /\ rows.gen[g] = Story!NoGen
        BY <3>2, <1>2, <1>4 DEF StoryTyped, Fresh
      <4>2. d.gen[g] = t.gen[g]
        BY <4>1 DEF Commits
      <4> QED BY <4>2, <2>2, <2>5 DEF Started
    <3> QED BY <3>1, <3>2, <2>2, <2>3, <2>5
  <2>6. OnItsWay(d)
    BY <2>2, <2>3, SameWay
  <2> QED BY <2>4, <2>5, <2>6 DEF Started
<1> QED BY <1>1, <1>3, <1>4

\* A request that leaves the plan alone.
LEMMA RequestKeepsPlan ==
  ASSUME NEW r \in Requests, NEW s, s = req[r], StorySound(rows), StorySound(s), Earlier(s, rows),
         NEW t, StoryTyped(t), Earlier(s, t), StopsOrStarts(s, t), Story!Respond(r, t),
         "request" \notin blind', t.plan = s.plan,
         Len(t.versions) = Len(s.versions), t.creation.active = s.creation.active,
         t.creation.status \in {s.creation.status, "pending_review", "abandoned"},
         WayStays(s, t)
  PROVE  Keeps(rows') /\ Goes(s, rows')
<1>1. Len(s.versions) \in Nat
  BY LenProperties DEF StorySound, StoryTyped, StoryRows
<1>2. Commits(s, t, rows') /\ RunningStay(rows') /\ (tick.held => rows'.plan = rows.plan)
  BY <1>1, RequestCommits
<1>3. StorySound(rows')
  BY <1>2, PlanUntouched
<1>4. Earlier(rows, rows')
  BY <1>2 DEF Commits
<1>5. Goes(s, rows')
  BY <1>2, RequestGoes
<1> QED BY <1>2, <1>3, <1>4, <1>5 DEF Keeps

\* A request that ends with sync_story.
LEMMA RequestSyncs ==
  ASSUME NEW r \in Requests, NEW s, s = req[r], StorySound(rows), StorySound(s), Earlier(s, rows),
         s.plan # NoRow,
         NEW m, StoryTyped(m), Earlier(s, m), StopsOrStarts(s, m), PlanIsMade(m), ~StoryIsIdle(m),
         m.versions = s.versions, m.creation.active = s.creation.active,
         m.plan.rev = s.plan.rev, m.plan.cut = s.plan.cut, m.plan.values = s.plan.values,
         Fresh(s) =>
            \/ m.plan.ids = s.plan.ids /\ (s.plan.status = "ready" => ClipsAreThere(m))
            \/ ~ClipsAreThere(m)
               /\ \A n \in DOMAIN rows.versions : ~Matches(rows.versions[n], m.plan),
         NEW t, t = Story!SyncStory(m), Story!Respond(r, t), "request" \notin blind', Starts(s, m)
  PROVE  Keeps(rows') /\ Goes(s, rows')
<1>1. StoryTyped(s) /\ ReadyIsMade(s)
  BY DEF StorySound
<1>2. Len(s.versions) \in Nat /\ s.creation.active \in Nat
  BY <1>1, LenProperties DEF StoryTyped, StoryRows, CreationRow
<1>3. Synced(m, t)
  BY StoryIsSynced
<1>4. StoryTyped(t) /\ t.gen = m.gen
  BY <1>3 DEF Synced
<1>5. Earlier(m, t) /\ Len(t.versions) =< Len(s.versions) + 1
      /\ (t.versions # s.versions => t.creation.active = Len(s.versions) + 1)
  BY <1>3, SyncKeepsRows
<1>6. Earlier(s, t)
  BY <1>1, <1>4, <1>5, EarlierStill
<1>7. StopsOrStarts(s, t)
  BY <1>4 DEF StopsOrStarts
<1>8. /\ Commits(s, t, rows') /\ RunningStay(rows') /\ (tick.held => rows'.plan = rows.plan)
      /\ Fresh(s) \/ (t.plan = s.plan /\ t.gen = s.gen /\ t.creation = s.creation)
  BY <1>4, <1>5, <1>6, <1>7, RequestCommits
<1>9. StorySound(rows')
  <2>1. CASE Fresh(s)
    BY <2>1, <1>3, <1>8, SyncLeavesSound
  <2>2. CASE ~Fresh(s)
    <3>1. t.plan = s.plan /\ t.creation = s.creation
      BY <2>2, <1>8
    <3>2. t.versions = s.versions
      BY <3>1, <1>1, <1>2, <1>5 DEF ReadyIsMade
    <3> QED BY <3>1, <3>2, <1>8, PlanUntouched
  <2> QED BY <2>1, <2>2
<1>10. Earlier(rows, rows')
  BY <1>8 DEF Commits
<1>11. WayStays(s, t)
  <2>1. OnItsWay(t)
    BY <1>3, SyncedIsOnItsWay
  <2>2. t.creation.story = m.creation.story /\ m.plan # NoRow
    BY <1>3 DEF Synced, StoryIsIdle
  <2>3. Starts(s, t)
    BY <2>2, <1>4 DEF Starts, Started
  <2> QED BY <2>1, <2>3 DEF WayStays
<1>12. Goes(s, rows')
  BY <1>4, <1>8, <1>11, RequestGoes
<1> QED BY <1>8, <1>9, <1>10, <1>12 DEF Keeps

-----------------------------------------------------------------------------
\* What a request begins with.
Reads(r, s) == /\ r \in Requests /\ s = req[r] /\ s # NoRow
               /\ StorySound(rows) /\ StorySound(s) /\ Earlier(s, rows)

\* save_plan makes a draft of the next revision.
LEMMA NewPlanIsTyped ==
  ASSUME NEW p \in Story!Plan \cup {NoRow}, NEW v \in PlanValues, NEW preset \in Presets,
         p # NoRow => p.rev < MaxRevisions
  PROVE  /\ Story!Planned(p, v, preset) \in Story!Plan /\ Story!Planned(p, v, preset) # NoRow
         /\ Story!Planned(p, v, preset) # p /\ Story!Planned(p, v, preset).status = "draft"
<1> DEFINE q == Story!Planned(p, v, preset)
<1>1. /\ q.rev = (IF p = NoRow THEN 1 ELSE p.rev + 1) /\ q.values = v /\ q.preset = preset
      /\ q.status = "draft" /\ q.ids = Story!Kept(p, v)
      /\ q.requests = IF p = NoRow THEN {} ELSE p.requests
      /\ q.cut = IF v.owner = NoRow THEN "whole"
                 ELSE IF p # NoRow /\ p.values.owner = v.owner THEN p.cut ELSE NoRow
      /\ q = [rev |-> q.rev, values |-> q.values, preset |-> q.preset, status |-> q.status,
              ids |-> q.ids, cut |-> q.cut, requests |-> q.requests]
  BY DEF Story!Planned
<1> HIDE DEF q
<1>2. p # NoRow => p.rev \in 1..MaxRevisions /\ p.ids \in [Story!Roles -> Story!Gens \cup {NoRow}]
                   /\ p.cut \in {"whole", NoRow} \cup Story!Roles
                      /\ p.requests \in SUBSET RequestIds
  BY DEF Story!Plan
<1>3. q.rev \in 1..MaxRevisions /\ (p # NoRow => q.rev # p.rev)
  BY <1>1, <1>2, StoryAssumption
<1>4. q.ids \in [Story!Roles -> Story!Gens \cup {NoRow}]
  BY <1>1, <1>2 DEF Story!Kept
<1>5. q.cut \in {"whole", NoRow} \cup Story!Roles
  BY <1>1, <1>2
<1>6. q.requests \in SUBSET RequestIds
  BY <1>1, <1>2
<1>7. q \in Story!Plan
  BY <1>1, <1>3, <1>4, <1>5, <1>6 DEF Story!Plan
<1>8. q # NoRow
  BY <1>7, NoRowIsNoPlan
<1>9. q # p
  BY <1>3, <1>8
<1> QED BY <1>1, <1>7, <1>8, <1>9 DEF q

\* save_plan: a plan saved again stays, and a new one is a draft that no version is of.
LEMMA PlanIsSaved ==
  ASSUME NEW r \in Requests, NEW s, Reads(r, s), "request" \notin blind',
         NEW v \in PlanValues, NEW preset \in Presets, Story!SaveStoryPlan(r, v, preset)
  PROVE  Keeps(rows') /\ Goes(s, rows')
<1>1. /\ s = req[r] /\ StorySound(rows) /\ StorySound(s) /\ Earlier(s, rows) /\ StoryTyped(s)
      /\ PlanIsMade(s) /\ s.creation \in CreationRow /\ s.plan \in Story!Plan \cup {NoRow}
      /\ s.gen \in [Story!Gens -> Story!Gen] /\ s.versions \in Seq(Story!Version)
         /\ Len(s.versions) \in Nat
  BY LenProperties DEF Reads, StorySound, StoryTyped, StoryRows
<1>4. s \in StoryRows
  BY <1>1 DEF StoryTyped
<1>2. CASE s.plan # NoRow /\ s.plan.values = v /\ s.plan.preset = preset
  <2> DEFINE t == [s EXCEPT !.creation.story = TRUE]
  <2>1. Story!Respond(r, t)
    BY <1>1, <1>2 DEF Story!SaveStoryPlan
  <2>0. t = [s EXCEPT !.creation.story = TRUE]
    OBVIOUS
  <2> HIDE DEF t
  <2>2. /\ t.plan = s.plan /\ t.gen = s.gen /\ t.versions = s.versions
        /\ t.creation = [s.creation EXCEPT !.story = TRUE]
        /\ t = [plan |-> t.plan, creation |-> t.creation, gen |-> t.gen, versions |-> t.versions]
    <3>1. t.plan = s.plan /\ t.gen = s.gen /\ t.versions = s.versions
      BY <2>0, <1>4 DEF StoryRows
    <3>2. t.creation = [s.creation EXCEPT !.story = TRUE]
      BY <2>0, <1>4 DEF StoryRows
    <3>3. t = [plan |-> t.plan, creation |-> t.creation, gen |-> t.gen, versions |-> t.versions]
      BY <2>0, <1>4 DEF StoryRows
    <3> QED BY <3>1, <3>2, <3>3
  <2>3. /\ t.creation \in CreationRow /\ t.creation.story = TRUE
        /\ t.creation.status = s.creation.status /\ t.creation.active = s.creation.active
    BY <2>2, <1>1 DEF CreationRow
  <2>4. StoryTyped(t)
    BY <2>2, <2>3, <1>1 DEF StoryTyped, StoryRows
  <2>5. Earlier(s, t) /\ StopsOrStarts(s, t)
    BY <2>2, <2>3, <1>1 DEF Earlier, StopsOrStarts
  <2>6. WayStays(s, t)
    <3>1. Starts(s, t)
      BY <2>2, <2>3 DEF Starts, Started
    <3>2. OnItsWay(s) => OnItsWay(t)
      BY <2>2, <2>3, <1>1, SameWay
    <3> QED BY <3>1, <3>2 DEF WayStays
  <2> QED BY <2>1, <2>2, <2>3, <2>4, <2>5, <2>6, <1>1, RequestKeepsPlan
<1>3. CASE ~(s.plan # NoRow /\ s.plan.values = v /\ s.plan.preset = preset)
  <2> DEFINE p == Story!Planned(s.plan, v, preset)
             t == [s EXCEPT !.plan = p, !.creation.story = TRUE,
                   !.creation.status = "source_ready"]
  <2>1. Story!Respond(r, t) /\ (s.plan # NoRow => s.plan.rev < MaxRevisions)
    BY <1>1, <1>3 DEF Story!SaveStoryPlan
  <2>2. p \in Story!Plan /\ p # NoRow /\ p # s.plan /\ p.status = "draft"
    BY <2>1, <1>1, NewPlanIsTyped
  <2>3. /\ p.rev = (IF s.plan = NoRow THEN 1 ELSE s.plan.rev + 1) /\ p.values = v
        /\ p.ids = Story!Kept(s.plan, v)
    BY DEF Story!Planned
  <2>0. t = [s EXCEPT !.plan = p, !.creation.story = TRUE, !.creation.status = "source_ready"]
    OBVIOUS
  <2> HIDE DEF p, t
  <2>4. /\ t.plan = p /\ t.gen = s.gen /\ t.versions = s.versions
        /\ t.creation = [s.creation EXCEPT !.story = TRUE, !.status = "source_ready"]
        /\ t = [plan |-> t.plan, creation |-> t.creation, gen |-> t.gen, versions |-> t.versions]
    <3>1. t.plan = p
      BY <2>0, <1>4 DEF StoryRows
    <3>2. t.gen = s.gen /\ t.versions = s.versions
      BY <2>0, <1>4 DEF StoryRows
    <3>3. t.creation = [s.creation EXCEPT !.story = TRUE, !.status = "source_ready"]
      BY <2>0, <1>4 DEF StoryRows
    <3>4. t = [plan |-> t.plan, creation |-> t.creation, gen |-> t.gen, versions |-> t.versions]
      BY <2>0, <1>4 DEF StoryRows
    <3> QED BY <3>1, <3>2, <3>3, <3>4
  <2>5. /\ t.creation \in CreationRow /\ t.creation.story = TRUE
        /\ t.creation.status = "source_ready" /\ t.creation.active = s.creation.active
    BY <2>4, <1>1 DEF CreationRow
  <2>6. StoryTyped(t)
    BY <2>2, <2>4, <2>5, <1>1 DEF StoryTyped, StoryRows
  <2>7. Earlier(s, t) /\ StopsOrStarts(s, t) /\ Len(t.versions) =< Len(s.versions) + 1
    BY <2>4, <2>5, <1>1 DEF Earlier, StopsOrStarts
  <2>8. /\ Commits(s, t, rows') /\ RunningStay(rows') /\ (tick.held => rows'.plan = rows.plan)
        /\ Fresh(s)
    BY <2>1, <2>2, <2>4, <2>6, <2>7, <1>1, RequestCommits
  <2>9. /\ StoryTyped(rows') /\ Earlier(rows, rows') /\ rows'.plan = p /\ rows.plan = s.plan
        /\ Len(rows'.versions) = Len(rows.versions)
    BY <2>4, <2>8 DEF Commits, Fresh, Story!Flush
  <2>10. PlanIsMade(rows')
    <3>1. ASSUME NEW role \in Story!Roles
          PROVE  /\ role = p.values.owner => p.ids[role] = NoRow
                 /\ p.ids[role] # NoRow =>
                      /\ p.ids[role] \in Story!Gens
                      /\ rows'.gen[p.ids[role]].status # "none"
                      /\ rows'.gen[p.ids[role]].input = Story!VideoInput(p.values, role)
      <4>1. CASE p.ids[role] = NoRow
        BY <4>1
      <4>2. CASE p.ids[role] # NoRow
        <5>1. s.plan # NoRow /\ p.ids[role] = s.plan.ids[role]
              /\ Story!VideoInput(s.plan.values, role) = Story!VideoInput(v, role)
          BY <4>2, <2>3 DEF Story!Kept
        <5>2. s.plan.values.owner = v.owner
          BY <5>1 DEF Story!VideoInput
        <5>3. /\ role # s.plan.values.owner /\ p.ids[role] \in Story!Gens
              /\ rows.gen[p.ids[role]].status # "none"
              /\ rows.gen[p.ids[role]].input = Story!VideoInput(s.plan.values, role)
          BY <5>1, <4>2, <1>1, <2>9 DEF StorySound, PlanIsMade
        <5> QED BY <5>1, <5>2, <5>3, <2>3, <2>9 DEF Earlier
      <4> QED BY <4>1, <4>2
    <3> QED BY <3>1, <2>9 DEF PlanIsMade
  <2>11. VersionsAreMade(rows')
    <3>1. StoryTyped(rows) /\ VersionsAreMade(rows)
      BY <1>1 DEF StorySound
    <3>2. rows.plan # NoRow => rows.plan.rev \in Nat /\ p.rev = rows.plan.rev + 1
      BY <2>3, <2>9, <1>1 DEF Story!Plan
    <3>3. rows.plan # NoRow
            => \A n \in DOMAIN rows.versions : ~Matches(rows.versions[n], rows'.plan)
      <4>1. ASSUME rows.plan # NoRow, NEW n \in DOMAIN rows.versions
            PROVE  ~Matches(rows.versions[n], rows'.plan)
        <5>1. rows.versions[n].rev =< rows.plan.rev
          BY <3>1, <4>1 DEF VersionsAreMade, VersionIsMade
        <5>2. rows.versions[n].rev \in Nat
          <6>1. rows.versions[n] \in Story!Version
            BY <3>1, <4>1, ElementOfSeq, LenProperties DEF StoryTyped, StoryRows
          <6> QED BY <6>1 DEF Story!Version
        <5> QED BY <5>1, <5>2, <3>2, <4>1, <2>9 DEF Matches
      <4> QED BY <4>1
    <3>4. rows.plan # NoRow => rows.plan.rev =< rows'.plan.rev /\ rows.plan.rev # rows'.plan.rev
      BY <3>2, <2>9
    <3> QED BY <3>1, <3>3, <3>4, <2>2, <2>9, VersionsStay
  <2>12. ReadyIsMade(rows')
    BY <2>2, <2>4, <2>5, <2>8, <1>1, UnfinishedIsNotReady
  <2>13. StorySound(rows')
    BY <2>9, <2>10, <2>11, <2>12 DEF StorySound
  <2>14. Keeps(rows')
    BY <2>8, <2>9, <2>13 DEF Keeps
  <2>15. WayStays(s, t)
    <3>1. Starts(s, t)
      BY <2>4, <2>5 DEF Starts, Started
    <3>2. OnItsWay(t)
      BY <2>2, <2>4, <2>5 DEF OnItsWay
    <3> QED BY <3>1, <3>2 DEF WayStays
  <2>16. Goes(s, rows')
    BY <2>1, <2>6, <2>8, <2>15, <1>1, RequestGoes
  <2> QED BY <2>14, <2>16
<1> QED BY <1>2, <1>3

\* start_generation names new endings, or none.
LEMMA EndingsAreGenerated ==
  ASSUME NEW s, StorySound(s), s.plan # NoRow,
         NEW id \in RequestIds, NEW chosen \in SUBSET Story!Roles,
         \A role \in chosen : role # s.plan.values.owner /\ s.gen[<<id, role>>].status = "none",
         s.creation.status \notin {"pending_review", "abandoned"},
         s.plan.values \in PlanValues,
         NEW m, m = Story!Generated(s, id, chosen)
  PROVE  /\ StoryTyped(m) /\ Earlier(s, m) /\ StopsOrStarts(s, m) /\ PlanIsMade(m)
         /\ ~StoryIsIdle(m) /\ m.versions = s.versions /\ m.creation.active = s.creation.active
         /\ m.plan.rev = s.plan.rev /\ m.plan.cut = s.plan.cut /\ m.plan.values = s.plan.values
         /\ \A role \in Story!Roles :
               m.plan.ids[role] = IF role \in chosen THEN <<id, role>> ELSE s.plan.ids[role]
         /\ \A role \in chosen : m.gen[<<id, role>>].status = "queued"
         /\ chosen = {} => m.gen = s.gen /\ m.plan.ids = s.plan.ids
         /\ Starts(s, m)
<1> DEFINE ng == [g \in Story!Gens |->
                         IF g \in {id} \X chosen
                         THEN [Story!NoGen EXCEPT !.status = "queued", !.hold = "reserved",
                                            !.input = Story!VideoInput(s.plan.values, g[2])]
                         ELSE s.gen[g]]
           ni == [role \in Story!Roles |-> IF role \in chosen THEN <<id,
                  role>> ELSE s.plan.ids[role]]
<1>1. /\ StoryTyped(s) /\ PlanIsMade(s) /\ s \in StoryRows /\ s.plan \in Story!Plan
      /\ s.creation \in CreationRow /\ s.gen \in [Story!Gens -> Story!Gen]
         /\ s.versions \in Seq(Story!Version)
      /\ Len(s.versions) \in Nat /\ s.plan.ids \in [Story!Roles -> Story!Gens \cup {NoRow}]
      /\ s.plan.requests \in SUBSET RequestIds
  BY LenProperties DEF StorySound, StoryTyped, StoryRows, Story!Plan
<1>2. m = Story!Generated(s, id, chosen)
  OBVIOUS
<1>3. m.versions = s.versions /\ m.gen = ng
  BY <1>1, <1>2 DEF Story!Generated, StoryRows
<1>4. m.plan = [s.plan EXCEPT !.ids = ni, !.requests = @ \cup {id}, !.status = "generating"]
  BY <1>1, <1>2 DEF Story!Generated, StoryRows, Story!Plan
<1>5. m.creation = [s.creation EXCEPT !.story = TRUE, !.status = "running"]
  BY <1>1, <1>2 DEF Story!Generated, StoryRows
<1>6. m = [plan |-> m.plan, creation |-> m.creation, gen |-> m.gen, versions |-> m.versions]
  BY <1>1, <1>2 DEF Story!Generated, StoryRows
<1> HIDE DEF ng, ni
<1>7. ni \in [Story!Roles -> Story!Gens \cup {NoRow}]
  BY <1>1 DEF ni, Story!Gens
<1>8. /\ m.plan \in Story!Plan /\ m.plan.ids = ni /\ m.plan.status = "generating"
      /\ m.plan.rev = s.plan.rev /\ m.plan.cut = s.plan.cut /\ m.plan.values = s.plan.values
  <2>1. s.plan.requests \cup {id} \in SUBSET RequestIds
    BY <1>1
  <2> QED BY <1>1, <1>4, <1>7, <2>1 DEF Story!Plan
<1>9. m.plan # NoRow
  BY <1>8, NoRowIsNoPlan
<1>10. /\ m.creation \in CreationRow /\ m.creation.story = TRUE /\ m.creation.status = "running"
       /\ m.creation.active = s.creation.active
  BY <1>1, <1>5 DEF CreationRow
<1>11. ASSUME NEW g \in Story!Gens, g \in {id} \X chosen
       PROVE  /\ ng[g] \in Story!Gen /\ ng[g].status = "queued" /\ s.gen[g].status = "none"
              /\ ng[g].job = FALSE
              /\ ng[g].input = Story!VideoInput(s.plan.values, g[2])
  <2>1. ng[g] = [Story!NoGen EXCEPT !.status = "queued", !.hold = "reserved",
                             !.input = Story!VideoInput(s.plan.values, g[2])]
    BY <1>11 DEF ng
  <2>2. g[2] \in chosen /\ g[2] \in Story!Roles /\ g = <<id, g[2]>>
    BY <1>11
  <2>3. Story!VideoInput(s.plan.values, g[2]) \in Story!Input
    BY <2>2 DEF Story!Input
  <2>4. s.gen[g].status = "none"
    BY <2>2
  <2>5. ng[g] = [status |-> "queued", cancel |-> FALSE, job |-> FALSE, upload |-> FALSE,
                hold |-> "reserved", input |-> Story!VideoInput(s.plan.values, g[2])]
    BY <2>1 DEF Story!NoGen
  <2>6. ng[g] \in Story!Gen
    BY <2>3, <2>5 DEF Story!Gen, Story!Active
  <2> QED BY <2>4, <2>5, <2>6
<1>12. \A g \in Story!Gens : g \notin {id} \X chosen => ng[g] = s.gen[g]
  BY DEF ng
<1>13. ng \in [Story!Gens -> Story!Gen]
  <2>1. \A g \in Story!Gens : ng[g] \in Story!Gen
    BY <1>1, <1>11, <1>12
  <2>2. DOMAIN ng = Story!Gens /\ ng = [g \in Story!Gens |-> ng[g]]
    BY DEF ng
  <2> QED BY <2>1, <2>2
<1>14. StoryTyped(m)
  <2>1. \A g \in Story!Gens : ng[g].status = "none" => ng[g] = Story!NoGen
    BY <1>1, <1>11, <1>12 DEF StoryTyped
  <2> QED BY <2>1, <1>1, <1>3, <1>6, <1>8, <1>10, <1>13 DEF StoryTyped, StoryRows
<1>15. Earlier(s, m)
  BY <1>1, <1>3, <1>10, <1>11, <1>12 DEF Earlier
<1>16. StopsOrStarts(s, m)
  BY <1>3, <1>11, <1>12 DEF StopsOrStarts
<1>17. \A role \in Story!Roles :
               m.plan.ids[role] = IF role \in chosen THEN <<id, role>> ELSE s.plan.ids[role]
  BY <1>8 DEF ni
<1>18. \A role \in chosen : m.gen[<<id, role>>].status = "queued" /\ <<id, role>> \in Story!Gens
                            /\ m.gen[<<id, role>>].input = Story!VideoInput(s.plan.values, role)
  <2>1. ASSUME NEW role \in chosen
        PROVE  m.gen[<<id, role>>].status = "queued" /\ <<id, role>> \in Story!Gens
               /\ m.gen[<<id, role>>].input = Story!VideoInput(s.plan.values, role)
    <3>1. <<id, role>> \in Story!Gens /\ <<id, role>> \in {id} \X chosen /\ <<id, role>>[2] = role
      BY DEF Story!Gens
    <3> QED BY <3>1, <1>3, <1>11
  <2> QED BY <2>1
<1>19. PlanIsMade(m)
  <2>1. ASSUME NEW role \in Story!Roles
        PROVE  /\ role = m.plan.values.owner => m.plan.ids[role] = NoRow
               /\ m.plan.ids[role] # NoRow =>
                    /\ m.plan.ids[role] \in Story!Gens
                    /\ m.gen[m.plan.ids[role]].status # "none"
                    /\ m.gen[m.plan.ids[role]].input = Story!VideoInput(m.plan.values, role)
    <3>1. CASE role \in chosen
      BY <3>1, <1>8, <1>17, <1>18
    <3>2. CASE role \notin chosen
      <4>1. m.plan.ids[role] = s.plan.ids[role]
        BY <3>2, <1>17
      <4> QED BY <4>1, <1>1, <1>8, <1>15 DEF PlanIsMade, Earlier
    <3> QED BY <3>1, <3>2
  <2> QED BY <2>1 DEF PlanIsMade
<1>20. ~StoryIsIdle(m)
  BY <1>8, <1>9, <1>10 DEF StoryIsIdle
<1>21. ASSUME chosen = {} PROVE m.gen = s.gen /\ m.plan.ids = s.plan.ids
  <2>1. m.gen = s.gen
    BY <1>21, <1>1, <1>3 DEF ng
  <2>2. ni = s.plan.ids
    BY <1>21, <1>1 DEF ni
  <2> QED BY <2>1, <2>2, <1>8
<1>22. Starts(s, m)
  <2>1. \A g \in Story!Gens : m.gen[g] = s.gen[g]
        \/ (m.gen[g].job = FALSE /\ s.gen[g].status = "none")
    BY <1>3, <1>11, <1>12
  <2> QED BY <2>1, <1>10 DEF Starts, Started
<1> QED BY <1>3, <1>8, <1>10, <1>14, <1>15, <1>16, <1>17, <1>18, <1>19, <1>20, <1>21, <1>22

\* start_generation: a plan with a new ending is of no version yet.
LEMMA GenerationIsStarted ==
  ASSUME NEW r \in Requests, NEW s, Reads(r, s), "request" \notin blind',
         NEW id \in RequestIds, NEW targets \in SUBSET Story!Roles, NEW operation,
         Story!GenerateStoryEndings(r, id, targets, operation)
  PROVE  Keeps(rows') /\ Goes(s, rows')
<1> DEFINE chosen == Story!Selected(s, targets, operation)
           m == Story!Generated(s, id, chosen)
<1>1. /\ s = req[r] /\ StorySound(rows) /\ StorySound(s) /\ Earlier(s, rows)
  BY DEF Reads
<1>2. /\ Story!Editable(s) /\ s.plan # NoRow
         /\ \A role \in chosen : s.gen[<<id, role>>].status = "none"
      /\ Story!Respond(r, Story!SyncStory(m))
  BY <1>1 DEF Story!GenerateStoryEndings
<1>3. chosen \in SUBSET Story!Roles /\ \A role \in chosen : role # s.plan.values.owner
  BY DEF Story!Selected
<1>4. s.creation.status \notin {"pending_review", "abandoned"}
  BY <1>2 DEF Story!Editable
<1>5. s.plan.values \in PlanValues /\ s.plan \in Story!Plan
  BY <1>1, <1>2 DEF StorySound, StoryTyped, StoryRows, Story!Plan
<1> HIDE DEF chosen
<1>6. /\ StoryTyped(m) /\ Earlier(s, m) /\ StopsOrStarts(s, m) /\ PlanIsMade(m)
      /\ ~StoryIsIdle(m) /\ m.versions = s.versions /\ m.creation.active = s.creation.active
      /\ m.plan.rev = s.plan.rev /\ m.plan.cut = s.plan.cut /\ m.plan.values = s.plan.values
      /\ \A role \in Story!Roles :
               m.plan.ids[role] = IF role \in chosen THEN <<id, role>> ELSE s.plan.ids[role]
      /\ \A role \in chosen : m.gen[<<id, role>>].status = "queued"
      /\ chosen = {} => m.gen = s.gen /\ m.plan.ids = s.plan.ids
      /\ Starts(s, m)
  BY <1>1, <1>2, <1>3, <1>4, <1>5, EndingsAreGenerated
<1> HIDE DEF m
<1>7. ASSUME Fresh(s)
      PROVE  \/ m.plan.ids = s.plan.ids /\ (s.plan.status = "ready" => ClipsAreThere(m))
             \/ ~ClipsAreThere(m)
                /\ \A n \in DOMAIN rows.versions : ~Matches(rows.versions[n], m.plan)
  <2>1. CASE chosen = {}
    <3>1. s.plan.status = "ready" => ClipsAreThere(s)
      BY <1>1, <1>2 DEF StorySound, ReadyIsMade
    <3> QED BY <3>1, <2>1, <1>6 DEF ClipsAreThere
  <2>2. CASE chosen # {}
    <3>1. PICK role \in chosen : TRUE
      BY <2>2
    <3>2. /\ role \in Story!Roles \ {m.plan.values.owner} /\ m.plan.ids[role] = <<id, role>>
          /\ <<id, role>> \in Story!Gens /\ <<id, role>> # NoRow
      <4>1. <<id, role>> \in Story!Gens /\ role \in Story!Roles
        BY <1>3 DEF Story!Gens
      <4> QED BY <4>1, <1>3, <1>6, NoRowIsNoPlan
    <3>3. ~ClipsAreThere(m)
      BY <3>2, <1>6 DEF ClipsAreThere
    <3>4. rows.gen[<<id, role>>].status = "none"
      BY <3>2, <1>2, <1>7 DEF Fresh
    <3>5. ASSUME NEW n \in DOMAIN rows.versions PROVE ~Matches(rows.versions[n], m.plan)
      <4>1. VersionIsMade(rows, rows.versions[n])
        BY <1>1 DEF StorySound, VersionsAreMade
      <4>2. rows.versions[n].ids # m.plan.ids
        BY <4>1, <3>2, <3>4 DEF VersionIsMade
      <4> QED BY <4>2 DEF Matches
    <3> QED BY <3>3, <3>5
  <2> QED BY <2>1, <2>2
<1>8. Story!Respond(r, Story!SyncStory(m))
  BY <1>2
<1> QED BY <1>1, <1>2, <1>6, <1>7, <1>8, RequestSyncs

\* A version that a request writes to stays of its clips.
LEMMA VersionIsMarked ==
  ASSUME NEW s, StorySound(s), NEW n \in DOMAIN s.versions, NEW v \in Story!Version,
         Story!MadeOf(v) = Story!MadeOf(s.versions[n]),
         NEW t, t = [s EXCEPT !.versions[n] = v]
  PROVE  /\ StoryTyped(t) /\ Earlier(s, t) /\ StopsOrStarts(s, t)
         /\ t.plan = s.plan /\ t.gen = s.gen /\ t.creation = s.creation
         /\ Len(t.versions) = Len(s.versions) /\ WayStays(s, t)
<1>1. /\ StoryTyped(s) /\ s \in StoryRows /\ s.versions \in Seq(Story!Version)
         /\ Len(s.versions) \in Nat
      /\ DOMAIN s.versions = 1..Len(s.versions)
         /\ s.versions \in [1..Len(s.versions) -> Story!Version]
  BY LenProperties DEF StorySound, StoryTyped, StoryRows
<1>2. t.plan = s.plan /\ t.gen = s.gen /\ t.creation = s.creation
  BY <1>1 DEF StoryRows
<1>3. t.versions = [s.versions EXCEPT ![n] = v]
  BY <1>1 DEF StoryRows
<1>4. t = [plan |-> t.plan, creation |-> t.creation, gen |-> t.gen, versions |-> t.versions]
  BY <1>1 DEF StoryRows
<1>5. t.versions \in [1..Len(s.versions) -> Story!Version]
  BY <1>1, <1>3
<1>6. t.versions \in Seq(Story!Version) /\ Len(t.versions) = Len(s.versions)
  BY <1>1, <1>5, SeqDef, LenProperties
<1>7. \A k \in DOMAIN s.versions : Story!MadeOf(s.versions[k]) = Story!MadeOf(t.versions[k])
  BY <1>1, <1>3
<1>8. StoryTyped(t)
  BY <1>1, <1>2, <1>4, <1>6 DEF StoryTyped, StoryRows
<1>9. Earlier(s, t) /\ StopsOrStarts(s, t)
  BY <1>1, <1>2, <1>6, <1>7 DEF Earlier, StopsOrStarts
<1>10. WayStays(s, t)
  <2>1. Starts(s, t)
    BY <1>2 DEF Starts, Started
  <2>2. OnItsWay(s) => OnItsWay(t)
    BY <1>1, <1>2, SameWay
  <2> QED BY <2>1, <2>2 DEF WayStays
<1> QED BY <1>2, <1>6, <1>8, <1>9, <1>10

\* The version that shows is there.
LEMMA VersionsAreTyped ==
  ASSUME NEW s, StorySound(s), s.creation.active # 0
  PROVE  /\ s.creation.active \in DOMAIN s.versions
         /\ s.versions[s.creation.active] \in Story!Version
<1>1. /\ s.versions \in Seq(Story!Version) /\ Len(s.versions) \in Nat
      /\ DOMAIN s.versions = 1..Len(s.versions) /\ s.creation.active \in Nat
  BY LenProperties DEF StorySound, StoryTyped, StoryRows, CreationRow
<1>2. s.creation.active =< Len(s.versions)
  BY DEF StorySound, ReadyIsMade
<1>3. s.creation.active \in 1..Len(s.versions)
  BY <1>1, <1>2
<1> QED BY <1>1, <1>3, ElementOfSeq

\* confirm_story_preview marks a version.
LEMMA PreviewIsConfirmed ==
  ASSUME NEW r \in Requests, NEW s, Reads(r, s), "request" \notin blind',
         NEW path \in Story!Roles, Story!ConfirmStoryPreview(r, path)
  PROVE  Keeps(rows') /\ Goes(s, rows')
<1> DEFINE n == s.creation.active
           v == [s.versions[n] EXCEPT !.seen = @ \cup {path}]
           t == [s EXCEPT !.versions[n] = v]
<1>1. /\ s = req[r] /\ StorySound(rows) /\ StorySound(s) /\ Earlier(s, rows)
  BY DEF Reads
<1>2. n # 0 /\ Story!Respond(r, t)
  BY <1>1 DEF Story!ConfirmStoryPreview
<1>3. n \in DOMAIN s.versions /\ s.versions[n] \in Story!Version
  BY <1>1, <1>2, VersionsAreTyped
<1>4. v \in Story!Version /\ Story!MadeOf(v) = Story!MadeOf(s.versions[n])
  BY <1>3 DEF Story!Version, Story!MadeOf
<1>5. t = [s EXCEPT !.versions[n] = v]
  OBVIOUS
<1> HIDE DEF v, t
<1>6. /\ StoryTyped(t) /\ Earlier(s, t) /\ StopsOrStarts(s, t)
      /\ t.plan = s.plan /\ t.gen = s.gen /\ t.creation = s.creation
      /\ Len(t.versions) = Len(s.versions) /\ WayStays(s, t)
  BY <1>1, <1>3, <1>4, <1>5, VersionIsMarked
<1> QED BY <1>1, <1>2, <1>6, RequestKeepsPlan

\* The status of the creation is written.
LEMMA StatusIsWritten ==
  ASSUME NEW s, StoryTyped(s),
         NEW st \in {"source_ready", "running", "ready", "pending_review", "abandoned"},
         NEW t, t = [s EXCEPT !.creation.status = st]
  PROVE  /\ StoryTyped(t) /\ Earlier(s, t)
         /\ t.plan = s.plan /\ t.gen = s.gen /\ t.versions = s.versions
         /\ t.creation.status = st /\ t.creation.active = s.creation.active
         /\ t.creation.story = s.creation.story
<1>1. s \in StoryRows /\ s.creation \in CreationRow /\ Len(s.versions) \in Nat
  BY LenProperties DEF StoryTyped, StoryRows
<1>2. t.plan = s.plan /\ t.gen = s.gen /\ t.versions = s.versions
  BY <1>1 DEF StoryRows
<1>3. t.creation = [s.creation EXCEPT !.status = st]
  BY <1>1 DEF StoryRows
<1>4. t = [plan |-> t.plan, creation |-> t.creation, gen |-> t.gen, versions |-> t.versions]
  BY <1>1 DEF StoryRows
<1>5. /\ t.creation \in CreationRow /\ t.creation.status = st
      /\ t.creation.active = s.creation.active /\ t.creation.story = s.creation.story
  BY <1>1, <1>3 DEF CreationRow
<1>6. StoryTyped(t)
  BY <1>1, <1>2, <1>4, <1>5 DEF StoryTyped, StoryRows
<1>7. Earlier(s, t)
  BY <1>1, <1>2, <1>5 DEF Earlier
<1> QED BY <1>2, <1>5, <1>6, <1>7

\* An abandoned creation has no queued ending left.
LEMMA CreationIsAbandoned ==
  ASSUME NEW r \in Requests, NEW s, Reads(r, s), "request" \notin blind', Story!AbandonCreation(r)
  PROVE  Keeps(rows') /\ Goes(s, rows')
<1> DEFINE m == Story!CancelPending(s)
           t == [m EXCEPT !.creation.status = "abandoned"]
<1>1. /\ s = req[r] /\ StorySound(rows) /\ StorySound(s) /\ Earlier(s, rows) /\ StoryTyped(s)
  BY DEF Reads, StorySound
<1>2. Story!Respond(r, t)
  BY <1>1 DEF Story!AbandonCreation
<1>3. /\ StoryTyped(m) /\ Earlier(s, m) /\ StopsOrStarts(s, m)
      /\ m.plan = s.plan /\ m.creation = s.creation /\ m.versions = s.versions
      /\ Starts(s, m)
      /\ Started(s) /\ s.plan # NoRow =>
            \A g \in Story!Gens : g \in Story!Current(s) => m.gen[g].status # "queued"
  BY <1>1, EndingsAreStopped
<1>4. t = [m EXCEPT !.creation.status = "abandoned"]
  OBVIOUS
<1> HIDE DEF m, t
<1>5. /\ StoryTyped(t) /\ Earlier(m, t)
      /\ t.plan = m.plan /\ t.gen = m.gen /\ t.versions = m.versions
      /\ t.creation.status = "abandoned" /\ t.creation.active = m.creation.active
      /\ t.creation.story = m.creation.story
  BY <1>3, <1>4, StatusIsWritten
<1>6. Earlier(s, t) /\ StopsOrStarts(s, t)
  BY <1>1, <1>3, <1>5, EarlierStill DEF StopsOrStarts
<1>7. WayStays(s, t)
  <2>1. Starts(s, t)
    BY <1>3, <1>5 DEF Starts, Started
  <2>2. ASSUME Started(s), s.plan # NoRow, NEW role \in Story!Roles, s.plan.ids[role] # NoRow
        PROVE  s.plan.ids[role] \in Story!Gens /\ t.gen[s.plan.ids[role]].status # "queued"
    <3>1. s.plan.ids[role] \in Story!Gens
      BY <1>1, <2>2 DEF StorySound, PlanIsMade
    <3>2. s.plan.ids[role] \in Story!Current(s)
      BY <2>2 DEF Story!Current
    <3> QED BY <3>1, <3>2, <2>2, <1>3, <1>5
  <2>3. Started(s) => OnItsWay(t)
    BY <2>2, <1>3, <1>5 DEF OnItsWay, Story!Editable
  <2> QED BY <2>1, <2>3 DEF WayStays
<1> QED BY <1>1, <1>2, <1>3, <1>5, <1>6, <1>7, RequestKeepsPlan

\* Only a creation whose plan is ready is submitted.
LEMMA CreationIsPublished ==
  ASSUME NEW r \in Requests, NEW s, Reads(r, s), "request" \notin blind', Story!PublishCreation(r)
  PROVE  Keeps(rows') /\ Goes(s, rows')
<1> DEFINE n == s.creation.active
           v == [s.versions[n] EXCEPT !.status = "published"]
           m == [s EXCEPT !.versions[n] = v]
           t == [m EXCEPT !.creation.status = "pending_review"]
<1>1. /\ s = req[r] /\ StorySound(rows) /\ StorySound(s) /\ Earlier(s, rows) /\ StoryTyped(s)
      /\ s \in StoryRows
  BY DEF Reads, StorySound, StoryTyped
<1>2. n # 0 /\ Story!Respond(r,
                             [s EXCEPT !.creation.status = "pending_review",
                              !.versions[n].status = "published"])
  BY <1>1 DEF Story!PublishCreation, Story!Publishable
<1>3. n \in DOMAIN s.versions /\ s.versions[n] \in Story!Version
  BY <1>1, <1>2, VersionsAreTyped
<1>4. v \in Story!Version /\ Story!MadeOf(v) = Story!MadeOf(s.versions[n])
  BY <1>3 DEF Story!Version, Story!MadeOf
<1>5. [s EXCEPT !.creation.status = "pending_review", !.versions[n].status = "published"] = t
  BY <1>1 DEF StoryRows
<1>6. m = [s EXCEPT !.versions[n] = v]
  OBVIOUS
<1>11. t = [m EXCEPT !.creation.status = "pending_review"]
  OBVIOUS
<1>7. Story!Respond(r, t)
  BY <1>2, <1>5
<1> HIDE DEF v, m, t
<1>8. /\ StoryTyped(m) /\ Earlier(s, m) /\ StopsOrStarts(s, m)
      /\ m.plan = s.plan /\ m.gen = s.gen /\ m.creation = s.creation
      /\ Len(m.versions) = Len(s.versions) /\ WayStays(s, m)
  BY <1>1, <1>3, <1>4, <1>6, VersionIsMarked
<1>9. /\ StoryTyped(t) /\ Earlier(m, t)
      /\ t.plan = m.plan /\ t.gen = m.gen /\ t.versions = m.versions
      /\ t.creation.status = "pending_review" /\ t.creation.active = m.creation.active
      /\ t.creation.story = m.creation.story
  BY <1>8, <1>11, StatusIsWritten
<1>10. Earlier(s, t) /\ StopsOrStarts(s, t)
  BY <1>1, <1>8, <1>9, EarlierStill DEF StopsOrStarts
<1>12. WayStays(s, t)
  <2>1. Starts(s, t)
    BY <1>8, <1>9 DEF Starts, Started
  <2>2. s.plan # NoRow /\ s.plan.status = "ready"
    <3>1. s.creation.status = "ready"
      BY <1>1 DEF Story!PublishCreation, Story!Publishable
    <3> QED BY <3>1, <1>1 DEF StorySound, ReadyIsMade
  <2>3. OnItsWay(t)
    BY <2>2, <1>8, <1>9 DEF OnItsWay
  <2> QED BY <2>1, <2>3 DEF WayStays
<1> QED BY <1>1, <1>7, <1>8, <1>9, <1>10, <1>12, RequestKeepsPlan

\* save_manual_edits adds a version of the clips of the latest, which are the plan's.
LEMMA EditsAreSaved ==
  ASSUME NEW r \in Requests, NEW s, Reads(r, s), "request" \notin blind',
         NEW preset \in Presets, Story!SaveManualEdits(r, preset)
  PROVE  Keeps(rows') /\ Goes(s, rows')
<1> DEFINE n == Len(s.versions)
           v == [s.versions[n] EXCEPT !.preset = preset, !.edited = TRUE, !.seen = Story!Roles]
           t == [s EXCEPT !.versions = Append(@, [@[n] EXCEPT !.preset = preset,
                                                       !.edited = TRUE, !.seen = Story!Roles]),
                          !.creation.active = n + 1, !.creation.status = "ready",
                          !.plan.preset = preset]
           d == rows'
<1>1. /\ s = req[r] /\ StorySound(rows) /\ StorySound(s) /\ Earlier(s, rows) /\ StoryTyped(s)
      /\ s \in StoryRows /\ s.creation \in CreationRow /\ s.plan \in Story!Plan \cup {NoRow}
      /\ s.gen \in [Story!Gens -> Story!Gen] /\ s.versions \in Seq(Story!Version) /\ n \in Nat
      /\ DOMAIN s.versions = 1..n /\ s.creation.active \in Nat
  BY LenProperties DEF Reads, StorySound, StoryTyped, StoryRows, CreationRow
<1>2. s.creation.status = "ready" /\ n > 0 /\ Story!Respond(r, t)
  BY <1>1 DEF Story!SaveManualEdits
\* The creation is ready: the latest version is of the plan's clips.
<1>3. /\ s.plan # NoRow /\ s.plan.status = "ready" /\ s.plan \in Story!Plan
      /\ s.creation.active \in DOMAIN s.versions
      /\ Matches(s.versions[s.creation.active], s.plan)
      /\ s.plan.cut # NoRow
  BY <1>1, <1>2 DEF StorySound, ReadyIsMade, ClipsAreThere
<1>4. n \in DOMAIN s.versions /\ Matches(s.versions[n], s.plan)
  <2>1. n \in DOMAIN s.versions
    BY <1>1, <1>2
  <2>2. s.creation.active = n \/ s.creation.active < n
    BY <1>1, <1>3
  <2> QED BY <2>1, <2>2, <1>1, <1>3 DEF StorySound, VersionsAreMade
<1>5. s.versions[n] \in Story!Version
  BY <1>1, <1>4, ElementOfSeq
<1>6. v \in Story!Version /\ Matches(v, s.plan)
  <2>1. v \in Story!Version
    BY <1>5 DEF Story!Version
  <2>2. v.rev = s.versions[n].rev /\ v.ids = s.versions[n].ids /\ v.cut = s.versions[n].cut
    BY <1>5 DEF Story!Version
  <2> QED BY <2>1, <2>2, <1>4 DEF Matches
<1>7. t = [s EXCEPT !.versions = Append(@, [@[n] EXCEPT !.preset = preset,
                                                       !.edited = TRUE, !.seen = Story!Roles]),
                    !.creation.active = n + 1, !.creation.status = "ready",
                    !.plan.preset = preset]
  OBVIOUS
<1>8. t.versions = Append(s.versions, v)
  BY <1>1 DEF StoryRows
<1> HIDE DEF t, v
<1>9. t.gen = s.gen
  BY <1>1, <1>7 DEF StoryRows
<1>10. t.creation = [s.creation EXCEPT !.active = n + 1, !.status = "ready"]
  BY <1>1, <1>7 DEF StoryRows
<1>11. t.plan = [s.plan EXCEPT !.preset = preset]
  BY <1>1, <1>7 DEF StoryRows
<1>12. t = [plan |-> t.plan, creation |-> t.creation, gen |-> t.gen, versions |-> t.versions]
  BY <1>1, <1>7 DEF StoryRows
<1>13. /\ t.plan \in Story!Plan /\ t.plan.status = "ready" /\ SamePlan(s.plan, t.plan)
  BY <1>3, <1>11 DEF Story!Plan, SamePlan
<1>14. t.plan # NoRow
  BY <1>13, NoRowIsNoPlan
<1>15. /\ t.creation \in CreationRow /\ t.creation.status = "ready" /\ t.creation.active = n + 1
       /\ t.creation.story = s.creation.story
  <2>1. n + 1 \in Nat /\ s.creation \in CreationRow
    BY <1>1
  <2> HIDE DEF n
  <2> QED BY <2>1, <1>10 DEF CreationRow
<1>16. /\ t.versions \in Seq(Story!Version) /\ Len(t.versions) = n + 1 /\ t.versions[n + 1] = v
       /\ \A k \in DOMAIN s.versions : t.versions[k] = s.versions[k]
  BY <1>1, <1>6, <1>8, AppendProperties
<1>17. StoryTyped(t)
  BY <1>1, <1>9, <1>12, <1>13, <1>15, <1>16 DEF StoryTyped, StoryRows
<1>18. Earlier(s, t) /\ StopsOrStarts(s, t) /\ Len(t.versions) =< Len(s.versions) + 1
  BY <1>1, <1>9, <1>15, <1>16 DEF Earlier, StopsOrStarts
<1>19. t.creation # s.creation
  <2>1. s.creation.active =< n
    BY <1>1 DEF StorySound, ReadyIsMade
  <2> QED BY <2>1, <1>1, <1>15
<1>20. /\ Commits(s, t, d) /\ RunningStay(d) /\ (tick.held => d.plan = rows.plan) /\ Fresh(s)
  BY <1>1, <1>2, <1>17, <1>18, <1>19, RequestCommits
<1>21. Len(t.versions) # Len(s.versions)
  BY <1>1, <1>16
<1>22. /\ StoryTyped(d) /\ Earlier(rows, d) /\ d.plan = t.plan /\ rows.plan = s.plan
       /\ d.creation.active = t.creation.active
       /\ d.creation.status = rows.creation.status
       /\ Len(d.versions) = Len(t.versions) /\ Len(rows.versions) = Len(s.versions)
       /\ d.versions[Len(d.versions)] = t.versions[Len(d.versions)]
  <2>1. d.creation.active = t.creation.active
    <3>1. t.creation.active # s.creation.active
      <4>1. s.creation.active =< n
        BY <1>1 DEF StorySound, ReadyIsMade
      <4> QED BY <4>1, <1>1, <1>15
    <3> QED BY <3>1, <1>20 DEF Commits, Story!Flush
  <2>2. d.creation.status = rows.creation.status
    BY <1>2, <1>15, <1>20 DEF Commits, Story!Flush
  <2> QED BY <2>1, <2>2, <1>20, <1>21 DEF Commits, Story!Flush, Fresh
<1> HIDE DEF d
<1>23. /\ d.plan # NoRow /\ d.plan.status = "ready" /\ SamePlan(rows.plan, d.plan)
       /\ rows.plan # NoRow /\ rows.plan.status = "ready" /\ d.plan.cut # NoRow
  BY <1>3, <1>13, <1>14, <1>22 DEF SamePlan
<1>24. PlanIsMade(d)
  BY <1>1, <1>22, <1>23, PlanStaysMade DEF StorySound
<1>25. Matches(d.versions[Len(d.versions)], d.plan) /\ Len(d.versions) = Len(rows.versions) + 1
  BY <1>6, <1>13, <1>16, <1>22 DEF Matches, SamePlan
<1>26. VersionIsMade(d, d.versions[Len(d.versions)])
  <2>1. \A role \in Story!Roles : d.plan.ids[role] # NoRow =>
          d.plan.ids[role] \in Story!Gens /\ d.gen[d.plan.ids[role]].status # "none"
    BY <1>23, <1>24 DEF PlanIsMade
  <2>2. d.plan.rev \in Nat
    BY <1>13, <1>22 DEF Story!Plan
  <2> QED BY <2>1, <2>2, <1>23, <1>25 DEF VersionIsMade, Matches
<1>27. VersionsAreMade(d)
  BY <1>1, <1>22, <1>23, <1>25, <1>26, VersionsStay DEF StorySound, SamePlan
<1>28. ReadyIsMade(d)
  <2>1. /\ rows.creation.status \in {"ready", "pending_review", "abandoned"}
           /\ ClipsAreThere(rows)
        /\ PlanIsMade(rows)
    BY <1>1, <1>23 DEF StorySound, ReadyIsMade
  <2>2. ClipsAreThere(d)
    BY <2>1, <1>22, <1>23 DEF ClipsAreThere, Earlier, SamePlan, PlanIsMade
  <2>3. Len(d.versions) \in DOMAIN d.versions /\ Len(d.versions) \in Nat
    BY <1>1, <1>16, <1>22, LenProperties DEF StoryTyped, StoryRows
  <2> QED BY <2>1, <2>2, <2>3, <1>15, <1>16, <1>22, <1>23, <1>25 DEF ReadyIsMade
<1>29. Keeps(d)
  BY <1>20, <1>22, <1>24, <1>27, <1>28 DEF Keeps, StorySound
<1>30. WayStays(s, t)
  <2>1. Starts(s, t)
    BY <1>3, <1>9, <1>15 DEF Starts, Started
  <2>2. OnItsWay(t)
    BY <1>13, <1>15 DEF OnItsWay
  <2> QED BY <2>1, <2>2 DEF WayStays
<1>31. Goes(s, d)
  BY <1>1, <1>2, <1>17, <1>20, <1>30, RequestGoes
<1> QED BY <1>29, <1>31 DEF d

\* cancel_creation: an ending of the plan is under way, so that no version is of its clips.
LEMMA EndingsAreCancelled ==
  ASSUME NEW r \in Requests, NEW s, Reads(r, s), "request" \notin blind', Story!CancelCreation(r)
  PROVE  Keeps(rows') /\ Goes(s, rows')
<1> DEFINE m == Story!CancelPending(s)
           t == Story!SyncStory(m)
           u == [t EXCEPT !.creation.status = "running"]
           d == rows'
<1>1. /\ s = req[r] /\ StorySound(rows) /\ StorySound(s) /\ Earlier(s, rows) /\ StoryTyped(s)
      /\ s.plan \in Story!Plan \cup {NoRow} /\ Len(s.versions) \in Nat
  BY LenProperties DEF Reads, StorySound, StoryTyped, StoryRows
<1>2. /\ s.plan # NoRow /\ \E g \in Story!Current(s) : s.gen[g].status \in Story!Active
      /\ Story!Respond(r, t) \/ Story!Respond(r, u)
  BY <1>1 DEF Story!CancelCreation
<1>3. /\ StoryTyped(m) /\ Earlier(s, m) /\ StopsOrStarts(s, m)
      /\ m.plan = s.plan /\ m.creation = s.creation /\ m.versions = s.versions
      /\ \A g \in Story!Gens : m.gen[g].status = "ready" <=> s.gen[g].status = "ready"
      /\ Starts(s, m)
      /\ Started(s) /\ s.plan # NoRow =>
            \A g \in Story!Gens : g \in Story!Current(s) => m.gen[g].status # "queued"
  BY <1>1, EndingsAreStopped
\* An ending of the plan is not ready.
<1>4. ~ClipsAreThere(m) /\ ~ClipsAreThere(s)
  <2>1. PICK role \in Story!Roles : s.plan.ids[role] # NoRow
        /\ s.gen[s.plan.ids[role]].status \in Story!Active
    BY <1>2 DEF Story!Current
  <2>2. role # s.plan.values.owner /\ s.plan.ids[role] \in Story!Gens
    BY <2>1, <1>1, <1>2 DEF StorySound, PlanIsMade
  <2>3. s.gen[s.plan.ids[role]].status # "ready"
    BY <2>1 DEF Story!Active
  <2> QED BY <2>1, <2>2, <2>3, <1>3 DEF ClipsAreThere
<1>5. s.plan.status # "ready"
  BY <1>1, <1>2, <1>4 DEF StorySound, ReadyIsMade
<1>6. PlanIsMade(m)
  BY <1>1, <1>3, PlanStaysMade DEF StorySound
\* An ending that has been abandoned with the Story is running.
<1>12. ASSUME StoryIsIdle(m), OnItsWay(s), Started(s)
       PROVE  /\ OnItsWay(m)
              /\ m.plan.status = "draft" \/ \E g \in Story!Gens : m.gen[g].status \in Story!Active
  <2>1. /\ s.creation.story
        /\ s.creation.status # "pending_review"
        /\ s.creation.status = "abandoned" \/ s.plan.status = "draft"
    BY <1>2, <1>3, <1>5, <1>12 DEF OnItsWay, Started, StoryIsIdle
  <2>2. ASSUME NEW role \in Story!Roles, s.plan.ids[role] # NoRow
        PROVE  s.plan.ids[role] \in Story!Gens /\ m.gen[s.plan.ids[role]].status # "queued"
    <3>1. s.plan.ids[role] \in Story!Gens /\ s.plan.ids[role] \in Story!Current(s)
      BY <1>1, <1>2, <2>2 DEF StorySound, PlanIsMade, Story!Current
    <3> QED BY <3>1, <1>2, <1>3, <1>12
  <2>3. OnItsWay(m)
    BY <2>1, <2>2, <1>3 DEF OnItsWay, Story!Editable
  <2>4. CASE s.creation.status = "abandoned"
    <3>1. PICK role \in Story!Roles : s.plan.ids[role] # NoRow
          /\ s.gen[s.plan.ids[role]].status \in Story!Active
      BY <1>2 DEF Story!Current
    <3>2. s.plan.ids[role] \in Story!Gens /\ s.gen[s.plan.ids[role]].status = "running"
      BY <3>1, <2>4, <1>2, <1>12 DEF OnItsWay, Story!Active
    <3>3. m.gen[s.plan.ids[role]].status = "running"
      BY <3>2, <1>3 DEF StopsOrStarts
    <3> QED BY <2>3, <3>2, <3>3 DEF Story!Active
  <2> QED BY <2>1, <2>3, <2>4, <1>3
<1> HIDE DEF m
<1>7. Synced(m, t)
  BY <1>3, StoryIsSynced
<1>8. t = Story!SyncStory(m) /\ u = [t EXCEPT !.creation.status = "running"]
  OBVIOUS
<1> HIDE DEF t, u
<1>9. CASE Story!Respond(r, t) /\ ~StoryIsIdle(m)
  BY <1>1, <1>2, <1>3, <1>5, <1>6, <1>8, <1>9, RequestSyncs
<1>10. CASE Story!Respond(r, t) /\ StoryIsIdle(m)
  <2>1. t = m
    BY <1>7, <1>10 DEF Synced
  <2>2. WayStays(s, m)
    BY <1>3, <1>10, <1>12 DEF WayStays
  <2> QED BY <2>1, <2>2, <1>1, <1>3, <1>10, RequestKeepsPlan
<1>11. CASE Story!Respond(r, u)
  <2>1. /\ StoryTyped(t) /\ t.gen = m.gen /\ t.plan # NoRow /\ t.plan.status # "ready"
        /\ SamePlan(s.plan, t.plan) /\ t.versions = s.versions
        /\ t.creation.active = s.creation.active /\ Earlier(m, t)
        /\ t.plan = s.plan \/ t.creation.status \in {"source_ready", "running"}
    <3>1. CASE StoryIsIdle(m)
      BY <3>1, <1>2, <1>3, <1>5, <1>7, SyncKeepsRows DEF Synced, SamePlan
    <3>2. CASE ~StoryIsIdle(m)
      <4>1. ~(m.plan.cut # NoRow /\ \A role \in Story!Roles : Story!ClipStatus(m, role) = "ready")
        BY <1>1, <1>2, <1>3, <1>4, ClipsAreFound
      <4> QED BY <3>2, <4>1, <1>3, <1>7, SyncKeepsRows DEF Synced
    <3> QED BY <3>1, <3>2
  <2>2. /\ StoryTyped(u) /\ Earlier(t, u)
        /\ u.plan = t.plan /\ u.gen = t.gen /\ u.versions = t.versions
        /\ u.creation.status = "running" /\ u.creation.active = t.creation.active
        /\ u.creation.story = t.creation.story
    BY <2>1, <1>8, StatusIsWritten
  <2>3. Earlier(s, u) /\ StopsOrStarts(s, u) /\ Len(u.versions) =< Len(s.versions) + 1
    <3>1. Earlier(s, t)
      BY <2>1, <1>1, <1>3, EarlierStill
    <3>2. Earlier(s, u)
      BY <3>1, <2>1, <2>2, <1>1, EarlierStill
    <3> QED BY <3>2, <2>1, <2>2, <1>1, <1>3 DEF StopsOrStarts
  <2>4. /\ Commits(s, u, d) /\ RunningStay(d) /\ (tick.held => d.plan = rows.plan)
        /\ Fresh(s) \/ (u.plan = s.plan /\ u.gen = s.gen /\ u.creation = s.creation)
    BY <2>2, <2>3, <1>1, <1>11, RequestCommits
  <2> HIDE DEF d
  <2>5. StorySound(d)
    <3>1. CASE ~Fresh(s)
      <4>1. Len(u.versions) = Len(s.versions)
        BY <2>1, <2>2
      <4> QED BY <3>1, <4>1, <2>1, <2>2, <2>4, <1>1, PlanUntouched
    <3>2. CASE Fresh(s)
      <4>1. /\ StoryTyped(d) /\ Earlier(rows, d) /\ d.plan = u.plan /\ rows.plan = s.plan
            /\ Len(d.versions) = Len(rows.versions)
        BY <3>2, <2>1, <2>2, <2>4 DEF Commits, Story!Flush, Fresh
      <4>2. d.plan # NoRow /\ rows.plan # NoRow /\ SamePlan(rows.plan, d.plan)
        BY <4>1, <2>1, <2>2, <1>2
      <4>3. PlanIsMade(d)
        BY <4>1, <4>2, <1>1, PlanStaysMade DEF StorySound
      <4>4. VersionsAreMade(d)
        BY <4>1, <4>2, <1>1, <1>5, VersionsStay DEF StorySound, SamePlan
      <4>5. ReadyIsMade(d)
        BY <3>2, <4>1, <2>1, <2>2, <2>4, <1>1, <1>5, UnfinishedIsNotReady
      <4> QED BY <4>1, <4>3, <4>4, <4>5 DEF StorySound
    <3> QED BY <3>1, <3>2
  <2>6. Keeps(d)
    BY <2>4, <2>5 DEF Keeps, Commits
  <2>7. WayStays(s, u)
    <3>1. u.creation.story = m.creation.story /\ u.gen = m.gen
      BY <2>2, <1>7 DEF Synced
    <3>2. Starts(s, u)
      BY <3>1, <1>2, <1>3 DEF Starts, Started
    <3>3. ASSUME OnItsWay(s), Started(s) PROVE OnItsWay(u)
      <4>1. CASE StoryIsIdle(m)
        <5>1. t = m
          BY <4>1, <1>7 DEF Synced
        <5> QED BY <5>1, <4>1, <3>1, <3>3, <2>2, <1>12 DEF OnItsWay
      <4>2. CASE ~StoryIsIdle(m)
        <5>1. OnItsWay(t)
          BY <4>2, <1>3, <1>7, SyncedIsOnItsWay
        <5>2. Story!Editable(t)
          BY <4>2, <1>7 DEF Synced, Story!Editable
        <5>3. \A role : Story!ClipStatus(u, role) = Story!ClipStatus(t, role)
          BY <2>2 DEF Story!ClipStatus
        <5> QED BY <5>1, <5>2, <5>3, <2>2 DEF OnItsWay
      <4> QED BY <4>1, <4>2
    <3> QED BY <3>2, <3>3 DEF WayStays
  <2>8. Goes(s, d)
    BY <2>2, <2>4, <2>7, <1>1, <1>11, RequestGoes
  <2> QED BY <2>6, <2>8 DEF d
<1> QED BY <1>2, <1>9, <1>10, <1>11

-----------------------------------------------------------------------------
\* A session that has read what is there leaves what it has made.
LEMMA CommitsItself ==
  ASSUME NEW t, StoryTyped(t), Earlier(rows, t), Len(t.versions) =< Len(rows.versions) + 1,
         StoryTyped(rows)
  PROVE  Commits(rows, t, t) /\ Fresh(rows)
<1>1. Len(t.versions) \in Nat /\ Len(rows.versions) \in Nat
      /\ Len(rows.versions) =< Len(t.versions)
  BY LenProperties DEF StoryTyped, StoryRows, Earlier
<1>2. Len(t.versions) # Len(rows.versions) => Len(t.versions) = Len(rows.versions) + 1
  BY <1>1
<1> QED BY <1>1, <1>2 DEF Commits, Story!Flush, Fresh

\* What a step of the coordinator leaves.
TickKeeps(d) == StorySound(d) /\ Earlier(rows, d) /\ TickIsSound' /\ Goes(rows, d)

\* Rows keep what they have.
LEMMA EarlierIsSame ==
  ASSUME NEW d, StoryTyped(d) PROVE Earlier(d, d)
BY LenProperties DEF Earlier, StoryTyped, StoryRows

\* A claim of a queued ending.
LEMMA QueuedIsClaimed ==
  ASSUME StorySound(rows), NEW g \in Story!Gens, Story!ClaimQueued(g)
  PROVE  TickKeeps(rows')
<1> DEFINE m == [rows EXCEPT !.gen[g].status = "running"]
           t == Story!SyncStory(m)
<1>1. /\ StoryTyped(rows) /\ PlanIsMade(rows) /\ rows \in StoryRows
         /\ rows.gen \in [Story!Gens -> Story!Gen]
      /\ Len(rows.versions) \in Nat
  BY LenProperties DEF StorySound, StoryTyped, StoryRows
<1>2. /\ rows.gen[g].status = "queued" /\ rows' = t
      /\ tick' = [Story!NoTick EXCEPT !.pc = "claimed", !.g = g]
  BY DEF Story!ClaimQueued
<1>3. /\ m.plan = rows.plan /\ m.creation = rows.creation /\ m.versions = rows.versions
      /\ m.gen = [rows.gen EXCEPT ![g].status = "running"]
  BY <1>1 DEF StoryRows
<1>0. m = [rows EXCEPT !.gen[g].status = "running"] /\ t = Story!SyncStory(m)
  OBVIOUS
<1> HIDE DEF m
<1>4. m = [plan |-> m.plan, creation |-> m.creation, gen |-> m.gen, versions |-> m.versions]
  BY <1>0, <1>1 DEF StoryRows
<1>5. /\ m.gen \in [Story!Gens -> Story!Gen] /\ m.gen[g].status = "running"
         /\ m.gen[g].input = rows.gen[g].input
      /\ \A x \in Story!Gens : x # g => m.gen[x] = rows.gen[x]
  BY <1>1, <1>3 DEF Story!Gen, Story!Active
<1>6. StoryTyped(m)
  BY <1>1, <1>3, <1>4, <1>5 DEF StoryTyped, StoryRows
<1>7. Earlier(rows, m)
  BY <1>1, <1>2, <1>3, <1>5 DEF Earlier
<1>8. PlanIsMade(m)
  BY <1>1, <1>3, <1>7, PlanStaysMade
<1>9. Synced(m, t)
  BY <1>6, StoryIsSynced
<1> HIDE DEF t
<1>10. StoryTyped(t) /\ t.gen = m.gen
  BY <1>9 DEF Synced
<1>11. Earlier(m, t) /\ Len(t.versions) =< Len(rows.versions) + 1
  BY <1>3, <1>6, <1>9, SyncKeepsRows
<1>12. Earlier(rows, t)
  BY <1>1, <1>6, <1>7, <1>10, <1>11, EarlierStill
<1>13. Commits(rows, t, t) /\ Fresh(rows) /\ Earlier(rows, rows)
  BY <1>1, <1>10, <1>11, <1>12, CommitsItself, EarlierIsSame
<1>14. StorySound(t)
  <2>1. CASE StoryIsIdle(m)
    <3>1. t = m
      BY <2>1, <1>9 DEF Synced
    <3> QED BY <3>1, <1>3, <1>13, PlanUntouched
  <2>2. CASE ~StoryIsIdle(m)
    <3>1. rows.plan # NoRow
      BY <2>2, <1>3 DEF StoryIsIdle
    <3>2. ASSUME rows.plan.status = "ready" PROVE ClipsAreThere(m)
      <4>1. ClipsAreThere(rows)
        BY <3>1, <3>2 DEF StorySound, ReadyIsMade
      <4> QED BY <4>1, <3>1, <1>1, <1>2, <1>3, <1>5 DEF ClipsAreThere, PlanIsMade
    <3> QED BY <2>2, <3>1, <3>2, <1>3, <1>6, <1>8, <1>9, <1>13, SyncLeavesSound
  <2> QED BY <2>1, <2>2
<1>15. TickIsSound'
  BY <1>2, <1>5, <1>10 DEF TickIsSound, Story!NoTick, WithSnapshot
<1>16. ASSUME OnItsWay(rows), Started(rows) PROVE OnItsWay(t) /\ Started(t)
  <2>1. OnItsWay(t)
    <3>1. CASE StoryIsIdle(m)
      <4>1. t = m
        BY <3>1, <1>9 DEF Synced
      <4>2. OnItsWay(m)
        BY <3>1, <1>2, <1>3, <1>5, <1>16 DEF OnItsWay, Started, StoryIsIdle, Story!Editable
      <4> QED BY <4>1, <4>2
    <3>2. CASE ~StoryIsIdle(m)
      BY <3>2, <1>6, <1>9, SyncedIsOnItsWay
    <3> QED BY <3>1, <3>2
  <2>2. t.plan # NoRow => t.creation.story
    BY <1>3, <1>9, <1>16 DEF Synced, StoryIsIdle, Started
  <2>3. ASSUME NEW x \in Story!Gens, t.gen[x].status = "queued" PROVE ~t.gen[x].job
    <3>1. x # g /\ t.gen[x] = rows.gen[x]
      BY <2>3, <1>5, <1>10
    <3> QED BY <3>1, <2>3, <1>16 DEF Started
  <2> QED BY <2>1, <2>2, <2>3 DEF Started
<1>17. Goes(rows, t)
  BY <1>16 DEF Goes
<1> QED BY <1>2, <1>12, <1>14, <1>15, <1>17 DEF TickKeeps

\* A transaction of the tick reads the rows as they are.
LEMMA TickReads ==
  ASSUME StorySound(rows), TickIsSound, tick \in TickRow, Story!Read
  PROVE  TickKeeps(rows')
<1>1. rows' = rows /\ StoryTyped(rows) /\ Earlier(rows, rows)
  BY EarlierIsSame DEF Story!Read, StorySound
<1>2. /\ tick'.pc \in {"read", "work", "failing"} /\ tick'.db = rows /\ tick'.g \in Story!Gens
      /\ rows.gen[tick'.g].status = "running"
  <2>1. CASE tick.pc \in DOMAIN Story!After
        /\ tick' = [tick EXCEPT !.pc = Story!After[@], !.db = rows]
    <3>1. tick.pc \in {"claimed", "cut", "fail"}
      BY <2>1 DEF Story!After
    <3>2. Story!After[tick.pc] \in {"read", "work", "failing"}
      BY <3>1 DEF Story!After
    <3>3. tick'.pc = Story!After[tick.pc] /\ tick'.db = rows /\ tick'.g = tick.g
      BY <2>1 DEF TickRow
    <3>4. tick.g \in Story!Gens /\ rows.gen[tick.g].status = "running"
      BY <3>1 DEF TickIsSound
    <3> QED BY <3>2, <3>3, <3>4
  <2>2. CASE \E g \in Story!Gens :
             /\ tick.pc = "idle" /\ rows.gen[g].status = "running"
             /\ tick' = [pc |-> "read", g |-> g, locked |-> TRUE, held |-> FALSE, db |-> rows]
    BY <2>2
  <2> QED BY <2>1, <2>2 DEF Story!Read
<1>3. TickIsSound'
  BY <1>1, <1>2 DEF TickIsSound
<1> QED BY <1>1, <1>3 DEF TickKeeps, Goes

\* The lock of the creation keeps its plan as it is found.
LEMMA TickPrepares ==
  ASSUME StorySound(rows), TickIsSound, tick \in TickRow, Story!Prepare
  PROVE  TickKeeps(rows')
<1>1. rows' = rows /\ StoryTyped(rows) /\ Earlier(rows, rows) /\ tick.pc = "read"
  BY EarlierIsSame DEF Story!Prepare, StorySound
<1>2. /\ tick'.db = tick.db /\ tick'.g = tick.g /\ tick'.held
      /\ \/ tick'.pc = "work"
         \/ tick'.pc = "cutting" /\ rows.plan # NoRow /\ Story!NeedsCut(rows.plan)
  BY <1>1 DEF Story!Prepare, TickRow
<1>3. TickIsSound'
  BY <1>1, <1>2 DEF TickIsSound, WithSnapshot
<1> QED BY <1>1, <1>3 DEF TickKeeps, Goes

\* A cut is kept for the revision it was made of, which has no version yet.
LEMMA CutIsKept ==
  ASSUME StorySound(rows), TickIsSound, tick \in TickRow, Story!CutDone
  PROVE  TickKeeps(rows')
<1> DEFINE d == [rows EXCEPT !.plan.cut = rows.plan.values.owner]
<1>1. /\ StoryTyped(rows) /\ PlanIsMade(rows) /\ VersionsAreMade(rows) /\ ReadyIsMade(rows)
      /\ rows \in StoryRows /\ rows.plan \in Story!Plan \cup {NoRow} /\ Len(rows.versions) \in Nat
      /\ Earlier(rows, rows)
  BY LenProperties, EarlierIsSame DEF StorySound, StoryTyped, StoryRows
<1>2. /\ tick.pc = "cutting" /\ tick.g \in Story!Gens /\ rows.gen[tick.g].status = "running"
      /\ rows.plan # NoRow /\ Story!NeedsCut(rows.plan) /\ rows.plan \in Story!Plan
  BY <1>1 DEF Story!CutDone, TickIsSound
<1>3. CASE rows' = d /\ tick' = [Story!NoTick EXCEPT !.pc = "cut", !.g = tick.g]
  <2>1. d.creation = rows.creation /\ d.gen = rows.gen /\ d.versions = rows.versions
    BY <1>1 DEF StoryRows
  <2>2. d.plan = [rows.plan EXCEPT !.cut = rows.plan.values.owner]
    BY <1>1 DEF StoryRows
  <2>0. d = [rows EXCEPT !.plan.cut = rows.plan.values.owner]
    OBVIOUS
  <2> HIDE DEF d
  <2>3. d = [plan |-> d.plan, creation |-> d.creation, gen |-> d.gen, versions |-> d.versions]
    BY <2>0, <1>1 DEF StoryRows
  <2>4. rows.plan.values.owner \in Story!Roles /\ rows.plan.cut = NoRow
    <3>1. rows.plan.values \in PlanValues /\ rows.plan.values.owner # NoRow
          /\ rows.plan.cut = NoRow
      BY <1>2 DEF Story!NeedsCut, Story!Plan
    <3> QED BY <3>1, StoryAssumption DEF Story!Roles
  <2>5. /\ d.plan \in Story!Plan /\ d.plan.rev = rows.plan.rev /\ d.plan.ids = rows.plan.ids
        /\ d.plan.values = rows.plan.values /\ d.plan.status = rows.plan.status
    BY <2>2, <2>4, <1>2 DEF Story!Plan
  <2>6. d.plan # NoRow
    BY <2>5, NoRowIsNoPlan
  <2>7. StoryTyped(d) /\ Earlier(rows, d)
    BY <2>1, <2>3, <2>5, <1>1 DEF StoryTyped, StoryRows, Earlier
  <2>8. PlanIsMade(d)
    BY <2>1, <2>5, <1>1, <1>2 DEF PlanIsMade
  <2>9. VersionsAreMade(d)
    <3>1. \A n \in DOMAIN rows.versions : ~Matches(rows.versions[n], d.plan)
      BY <2>4, <2>5, <1>1 DEF VersionsAreMade, VersionIsMade, Matches
    <3>2. rows.plan.rev =< d.plan.rev
      BY <2>5, <1>2 DEF Story!Plan
    <3> QED BY <3>1, <3>2, <2>1, <2>4, <2>6, <2>7, <1>1, VersionsStay
  <2>10. ReadyIsMade(d)
    <3>1. rows.plan.status # "ready"
      BY <2>4, <1>1, <1>2 DEF ReadyIsMade, ClipsAreThere
    <3> QED BY <3>1, <2>1, <2>5, <1>1 DEF ReadyIsMade
  <2>11. TickIsSound'
    BY <2>1, <1>2, <1>3 DEF TickIsSound, Story!NoTick, WithSnapshot
  <2>12. ASSUME OnItsWay(rows), Started(rows) PROVE OnItsWay(d) /\ Started(d)
    <3>1. d.gen[tick.g].status \in Story!Active
      BY <2>1, <1>2 DEF Story!Active
    <3>2. OnItsWay(d)
      BY <3>1, <2>1, <2>5, <2>6, <2>12, <1>2 DEF OnItsWay
    <3> QED BY <3>2, <2>1, <2>12, <1>2 DEF Started
  <2>13. Goes(rows, d)
    BY <2>12 DEF Goes
  <2> QED BY <2>7, <2>8, <2>9, <2>10, <2>11, <2>13, <1>3 DEF TickKeeps, StorySound
<1>4. CASE rows' = rows /\ tick' = [tick EXCEPT !.pc = "work"]
  <2>1. tick'.pc = "work" /\ tick'.db = tick.db /\ tick'.g = tick.g
    BY <1>4 DEF TickRow
  <2>2. TickIsSound'
    BY <2>1, <1>2, <1>4 DEF TickIsSound, WithSnapshot
  <2> QED BY <2>2, <1>1, <1>4 DEF TickKeeps, Goes
<1> QED BY <1>3, <1>4 DEF Story!CutDone

\* A tick that stops writes nothing.
LEMMA TickStops ==
  ASSUME StorySound(rows), TickIsSound, Story!Unanswered \/ Story!Refused
  PROVE  TickKeeps(rows')
<1>1. rows' = rows /\ Earlier(rows, rows)
  BY EarlierIsSame DEF Story!Unanswered, Story!Refused, StorySound
<1>2. TickIsSound'
  <2>1. CASE Story!Unanswered
    BY <2>1 DEF Story!Unanswered, Story!NoTick, TickIsSound, WithSnapshot
  <2>2. CASE Story!Refused
    BY <2>2 DEF Story!Refused, Story!NoTick, TickIsSound, WithSnapshot
  <2> QED BY <2>1, <2>2
<1> QED BY <1>1, <1>2 DEF TickKeeps, Goes

\* What the tick writes is of the same input.
LEMMA AnswersAreTyped ==
  ASSUME NEW c \in Story!Gen, c.status = "running",
         NEW row \in Story!Answers(c) \cup {Story!Release([c EXCEPT !.status = "failed"])}
  PROVE  row \in Story!Gen /\ row.status \notin {"none", "queued"} /\ row.input = c.input
<1> DEFINE Fits(x) == x \in Story!Gen /\ x.status \notin {"none", "queued"} /\ x.input = c.input
<1>1. ASSUME NEW x, Fits(x)
      PROVE  Fits(Story!Release(x)) /\ Fits(Story!Settle(x)) /\ Fits([x EXCEPT !.job = TRUE])
             /\ Fits([x EXCEPT !.upload = TRUE])
             /\ \A st \in {"ready", "failed", "cancelled"} : Fits([x EXCEPT !.status = st])
  BY <1>1 DEF Story!Gen, Story!Release, Story!Settle, Story!Lost
<1>2. Fits(c)
  OBVIOUS
<1>3. [c EXCEPT !.job = TRUE, !.upload = TRUE] = [[c EXCEPT !.job = TRUE] EXCEPT !.upload = TRUE]
      /\ [c EXCEPT !.job = TRUE, !.status = "failed"] =
           [[c EXCEPT !.job = TRUE] EXCEPT !.status = "failed"]
  OBVIOUS
<1> HIDE DEF Fits
<1>4. \A st \in {"ready", "failed", "cancelled"} : Fits([c EXCEPT !.status = st])
  BY <1>1, <1>2
<1>5. Fits([c EXCEPT !.job = TRUE])
  BY <1>1, <1>2
<1>6. Fits([c EXCEPT !.job = TRUE, !.upload = TRUE])
      /\ Fits([c EXCEPT !.job = TRUE, !.status = "failed"])
  BY <1>1, <1>3, <1>5
<1>7. /\ Fits(Story!Release([c EXCEPT !.status = "cancelled"]))
         /\ Fits(Story!Settle([c EXCEPT !.status = "ready"]))
      /\ Fits(Story!Release([c EXCEPT !.status = "failed"]))
      /\ Fits(Story!Release([c EXCEPT !.job = TRUE, !.status = "failed"]))
  BY <1>1, <1>4, <1>6
<1>8. row \in {c, Story!Release([c EXCEPT !.status = "cancelled"]),
               Story!Settle([c EXCEPT !.status = "ready"]),
               Story!Release([c EXCEPT !.status = "failed"]), [c EXCEPT !.job = TRUE],
               [c EXCEPT !.job = TRUE, !.upload = TRUE],
               Story!Release([c EXCEPT !.job = TRUE, !.status = "failed"])}
  BY DEF Story!Answers
<1>9. Fits(row)
  BY <1>2, <1>5, <1>6, <1>7, <1>8
<1> QED BY <1>9 DEF Fits

\* A tick that ends leaves the Story on its way.
LEMMA TickGoes ==
  ASSUME StorySound(rows), TickIsSound, tick.pc \in WithSnapshot,
         NEW row \in Story!Gen, row.status # "queued",
         NEW t, NEW d, StorySound(d), Commits(Story!View, t, d),
         blind' = Story!Blind("tick", Story!View, t),
         \A g \in Story!Gens : g # tick.g => d.gen[g] = rows.gen[g],
         NEW m, Works(m, row), Synced(m, t)
  PROVE  Goes(rows, d)
<1> SUFFICES ASSUME blind' = {}, OnItsWay(rows), Started(rows)
             PROVE  OnItsWay(d) /\ Started(d)
  BY DEF Goes
<1>1. /\ StoryTyped(Story!View) /\ Story!View.plan = rows.plan
         /\ Story!View.creation = rows.creation
      /\ Story!View.gen = tick.db.gen
  BY ViewIsTyped
<1>2. /\ tick.g \in Story!Gens /\ rows.gen[tick.g].status = "running"
         /\ Story!View.gen[tick.g].status = "running"
  BY <1>1 DEF TickIsSound, WithSnapshot
<1>3. /\ StoryTyped(m) /\ m.plan = rows.plan /\ m.creation = rows.creation /\ m.gen[tick.g] = row
      /\ \A g \in Story!Gens : g # tick.g => m.gen[g] = Story!View.gen[g]
  BY DEF Works
<1>4. StoryTyped(t) /\ t.gen = m.gen /\ t.creation.story = m.creation.story
  BY DEF Synced
<1>5. /\ d.plan = t.plan /\ d.creation.status = t.creation.status
      /\ d.creation.story = rows.creation.story
      /\ \A g \in Story!Gens : d.gen[g].status = Story!Flush(Story!View.gen[g].status,
                                                             t.gen[g].status, rows.gen[g].status)
  BY <1>1, <1>3, <1>4 DEF Commits, Story!Flush
<1>6. \/ t.plan = Story!View.plan /\ t.gen = Story!View.gen /\ t.creation = Story!View.creation
      \/ \A g \in Story!Gens : rows.gen[g].status = Story!View.gen[g].status
  BY DEF Story!Blind
<1>7. d.gen[tick.g].status = row.status
  BY <1>2, <1>3, <1>4, <1>5 DEF Story!Flush
<1>8. Started(d)
  <2>1. d.plan # NoRow => d.creation.story
    BY <1>3, <1>5 DEF Synced, StoryIsIdle, Started
  <2>2. \A g \in Story!Gens : d.gen[g].status = "queued" => ~d.gen[g].job
    BY <1>7 DEF Started
  <2> QED BY <2>1, <2>2 DEF Started
<1>9. CASE t.plan = Story!View.plan /\ t.gen = Story!View.gen /\ t.creation = Story!View.creation
  <2>1. \A g \in Story!Gens : d.gen[g].status = rows.gen[g].status
    BY <1>5, <1>9 DEF Story!Flush
  <2>2. StoryTyped(rows)
    BY DEF StorySound
  <2> QED BY <2>1, <2>2, <1>1, <1>5, <1>8, <1>9, SameWay
<1>10. CASE \A g \in Story!Gens : rows.gen[g].status = Story!View.gen[g].status
  <2>1. OnItsWay(t)
    <3>1. CASE StoryIsIdle(m)
      <4>1. t = m
        BY <3>1 DEF Synced
      <4>2. \A g \in Story!Gens : m.gen[g].status = "queued" => rows.gen[g].status = "queued"
        BY <1>3, <1>10
      <4>3. OnItsWay(m)
        BY <3>1, <4>2, <1>3 DEF OnItsWay, Started, StoryIsIdle, Story!Editable
      <4> QED BY <4>1, <4>3
    <3>2. CASE ~StoryIsIdle(m)
      BY <3>2, <1>3, SyncedIsOnItsWay
    <3> QED BY <3>1, <3>2
  <2>2. \A g \in Story!Gens : d.gen[g].status = t.gen[g].status
    BY <1>5, <1>10 DEF Story!Flush
  <2> QED BY <2>1, <2>2, <1>4, <1>5, <1>8, SameWay
<1> QED BY <1>6, <1>9, <1>10

\* The commit of a tick, or of its failure.
LEMMA TickEnds ==
  ASSUME StorySound(rows), TickIsSound, tick \in TickRow, Story!Apply \/ Story!Fail
  PROVE  TickKeeps(rows')
<1>1. /\ Earlier(rows, rows) /\ tick.pc \in WithSnapshot
  BY EarlierIsSame DEF Story!Apply, Story!Fail, StorySound, WithSnapshot
<1>2. /\ tick.g \in Story!Gens /\ rows.gen[tick.g].status = "running"
         /\ Story!View.gen[tick.g] \in Story!Gen
      /\ Story!View.gen[tick.g].status = "running"
  <2>1. StoryTyped(Story!View) /\ Story!View.gen = tick.db.gen
    BY <1>1, ViewIsTyped
  <2>2. tick.g \in Story!Gens /\ rows.gen[tick.g].status = "running"
        /\ tick.db.gen[tick.g].status = "running"
    BY <1>1 DEF TickIsSound, WithSnapshot
  <2> QED BY <2>1, <2>2 DEF StoryTyped, StoryRows
<1> DEFINE c == Story!View.gen[tick.g]
<1>3. CASE rows' = rows
      /\ tick' \in {Story!NoTick, [Story!NoTick EXCEPT !.pc = "fail", !.g = tick.g]}
  <2>0. tick'.pc = "idle" \/ (tick'.pc = "fail" /\ tick'.g = tick.g)
    <3>1. CASE tick' = Story!NoTick
      BY <3>1 DEF Story!NoTick
    <3>2. CASE tick' = [Story!NoTick EXCEPT !.pc = "fail", !.g = tick.g]
      BY <3>2 DEF Story!NoTick
    <3> QED BY <3>1, <3>2, <1>3
  <2>1. TickIsSound'
    BY <2>0, <1>2, <1>3 DEF TickIsSound, WithSnapshot
  <2> QED BY <2>1, <1>1, <1>3 DEF TickKeeps, Goes
<1>4. ASSUME NEW row \in Story!Answers(c) \cup {Story!Release([c EXCEPT !.status = "failed"])},
             NEW t, t = Story!SyncStory([Story!View EXCEPT !.gen[tick.g] = row]),
             ~Story!Conflict(Story!View, t),
             rows' = Story!Committed(Story!View, t), tick' = Story!NoTick,
             blind' = Story!Blind("tick", Story!View, t)
      PROVE  TickKeeps(rows')
  <2>1. row \in Story!Gen /\ row.status \notin {"none", "queued"} /\ row.input = c.input
    BY <1>2, AnswersAreTyped
  <2>2. /\ StorySound(rows') /\ Earlier(rows, rows') /\ Commits(Story!View, t, rows')
        /\ \A g \in Story!Gens : g # tick.g => rows'.gen[g] = rows.gen[g]
        /\ \E m : Works(m, row) /\ Synced(m, t)
    BY <2>1, <1>1, <1>4, TickLeavesSound
  <2>3. TickIsSound'
    BY <1>4 DEF TickIsSound, Story!NoTick, WithSnapshot
  <2>4. Goes(rows, rows')
    <3>1. PICK m : Works(m, row) /\ Synced(m, t)
      BY <2>2
    <3> QED BY <3>1, <2>1, <2>2, <1>1, <1>4, TickGoes
  <2> QED BY <2>2, <2>3, <2>4 DEF TickKeeps
<1>5. CASE Story!Apply
  <2>1. PICK row \in Story!Answers(c) :
          LET t == Story!SyncStory([Story!View EXCEPT !.gen[tick.g] = row])
          IN  IF Story!Conflict(Story!View, t)
              THEN /\ tick' = [Story!NoTick EXCEPT !.pc = "fail", !.g = tick.g]
                   /\ UNCHANGED <<rows, blind>>
              ELSE /\ rows' = Story!Committed(Story!View, t)
                   /\ tick' = Story!NoTick
                   /\ blind' = Story!Blind("tick", Story!View, t)
    BY <1>5 DEF Story!Apply
  <2> QED BY <2>1, <1>3, <1>4
<1>6. CASE Story!Fail
  <2> DEFINE row == Story!Release([c EXCEPT !.status = "failed"])
             t == Story!SyncStory([Story!View EXCEPT !.gen[tick.g] =
                                   Story!Release([@ EXCEPT !.status = "failed"])])
  <2>1. t = Story!SyncStory([Story!View EXCEPT !.gen[tick.g] = row])
    <3>1. Story!View.gen \in [Story!Gens -> Story!Gen]
          /\ DOMAIN Story!View = {"plan", "creation", "gen", "versions"}
      BY <1>1, ViewIsTyped DEF StoryTyped, StoryRows
    <3>2. [Story!View EXCEPT !.gen[tick.g] = Story!Release([@ EXCEPT !.status = "failed"])]
            = [Story!View EXCEPT !.gen[tick.g] = row]
      BY <3>1
    <3> QED BY <3>2
  <2>2. tick' = Story!NoTick /\ (IF Story!Conflict(Story!View, t) THEN rows' = rows
                                 ELSE rows' = Story!Committed(Story!View, t)
                                 /\ blind' = Story!Blind("tick", Story!View, t))
    BY <1>6 DEF Story!Fail
  <2>3. row \in Story!Answers(c) \cup {Story!Release([c EXCEPT !.status = "failed"])}
    OBVIOUS
  <2> HIDE DEF row, t
  <2> QED BY <2>1, <2>2, <2>3, <1>3, <1>4
<1> QED BY <1>5, <1>6

-----------------------------------------------------------------------------
\* What a request leaves the tick and the other requests with.
LEMMA OthersStay ==
  ASSUME StorySound(rows), TickIsSound, tick' = tick, Keeps(rows'),
         NEW s, StorySound(s), Earlier(s, rows)
  PROVE  TickIsSound' /\ Earlier(s, rows')
<1>1. /\ StorySound(rows') /\ Earlier(rows, rows') /\ StoryTyped(rows) /\ StoryTyped(rows')
      /\ tick.held => rows'.plan = rows.plan
  BY DEF Keeps, StorySound
<1>2. \A g \in Story!Gens : /\ rows.gen[g].status = "running" => rows'.gen[g].status = "running"
                            /\ rows'.gen[g].status = "ready" => rows.gen[g].status = "ready"
  BY DEF Keeps, RunningStay
<1>3. Earlier(s, rows')
  BY <1>1, EarlierStill DEF StorySound
<1>4. tick.pc \in WithSnapshot => Earlier(tick.db, rows')
  BY <1>1, EarlierStill DEF TickIsSound
<1>5. TickIsSound'
  BY <1>1, <1>2, <1>4 DEF TickIsSound, WithSnapshot
<1> QED BY <1>3, <1>5

\* The steps of requests and those of the coordinator.
Requested(r) ==
    \/ Story!Begin(r) \/ Story!RequestEnds(r)
    \/ \E v \in PlanValues, preset \in Presets : Story!SaveStoryPlan(r, v, preset)
    \/ \E id \in RequestIds, targets \in (SUBSET Story!Roles) \ {{}},
          operation \in {"generate", "retry", "regenerate"} :
           Story!GenerateStoryEndings(r, id, targets, operation)
    \/ \E path \in Story!Roles : Story!ConfirmStoryPreview(r, path)
    \/ \E preset \in Presets : Story!SaveManualEdits(r, preset)
    \/ Story!CancelCreation(r) \/ Story!AbandonCreation(r) \/ Story!PublishCreation(r)
Ticked == \/ \E g \in Story!Gens : Story!ClaimQueued(g)
          \/ Story!Read \/ Story!Prepare \/ Story!CutDone \/ Story!Unanswered
             \/ Story!Refused \/ Story!Apply \/ Story!Fail

\* What a request does when it ends.
LEMMA RequestsEnd ==
  ASSUME NEW r \in Requests, Requested(r)
  PROVE  /\ req' = [req EXCEPT ![r] = rows] \/ req' = [req EXCEPT ![r] = NoRow]
         /\ tick' = tick /\ blind \subseteq blind'
<1> DEFINE Ends == /\ req' = [req EXCEPT ![r] = rows] \/ req' = [req EXCEPT ![r] = NoRow]
                   /\ tick' = tick /\ blind \subseteq blind'
<1>1. ASSUME NEW t, Story!Respond(r, t) PROVE Ends
  BY <1>1 DEF Story!Respond, Story!Blind
<1>2. Story!Begin(r) \/ Story!RequestEnds(r) => Ends
  BY DEF Story!Begin, Story!RequestEnds
<1> HIDE DEF Ends
<1>3. ASSUME NEW v, NEW preset, Story!SaveStoryPlan(r, v, preset) PROVE Ends
  BY <1>1, <1>3 DEF Story!SaveStoryPlan
<1>4. ASSUME NEW id, NEW targets, NEW operation,
             Story!GenerateStoryEndings(r, id, targets, operation)
      PROVE  Ends
  BY <1>1, <1>4 DEF Story!GenerateStoryEndings
<1>5. ASSUME NEW path, Story!ConfirmStoryPreview(r, path) PROVE Ends
  BY <1>1, <1>5 DEF Story!ConfirmStoryPreview
<1>6. ASSUME NEW preset, Story!SaveManualEdits(r, preset) PROVE Ends
  BY <1>1, <1>6 DEF Story!SaveManualEdits
<1>7. Story!CancelCreation(r) => Ends
  BY <1>1 DEF Story!CancelCreation
<1>8. Story!AbandonCreation(r) => Ends
  BY <1>1 DEF Story!AbandonCreation
<1>9. Story!PublishCreation(r) => Ends
  BY <1>1 DEF Story!PublishCreation
<1>10. Ends
  BY <1>2, <1>3, <1>4, <1>5, <1>6, <1>7, <1>8, <1>9 DEF Requested
<1> QED BY <1>10 DEF Ends

\* What the coordinator leaves of the requests and of its tick.
LEMMA TicksGoOn ==
  ASSUME tick \in TickRow, Ticked
  PROVE  req' = req /\ blind \subseteq blind' /\ tick' \in TickRow'
<1> DEFINE Gone == req' = req /\ blind \subseteq blind' /\ tick' \in TickRow'
<1>1. tick.g \in Story!Gens \cup {NoRow}
  BY DEF TickRow
<1>2. Story!NoTick \in [pc : {"idle"}, g : {NoRow}, locked : {FALSE}, held : {FALSE},
                        db : {NoRow}]
  BY DEF Story!NoTick
<1>3. ASSUME NEW x \in {"claimed", "cut", "fail"}, NEW g \in Story!Gens \cup {NoRow},
             tick' = [Story!NoTick EXCEPT !.pc = x, !.g = g] \/ tick' = Story!NoTick
      PROVE  tick' \in TickRow'
  <2>1. CASE tick' = Story!NoTick
    BY <2>1 DEF TickRow, Story!NoTick
  <2>2. CASE tick' = [Story!NoTick EXCEPT !.pc = x, !.g = g]
    <3>1. tick' = [pc |-> x, g |-> g, locked |-> FALSE, held |-> FALSE, db |-> NoRow]
      BY <2>2 DEF Story!NoTick
    <3> QED BY <3>1 DEF TickRow
  <2> QED BY <2>1, <2>2, <1>3
<1>4. ASSUME NEW g \in Story!Gens, Story!ClaimQueued(g) PROVE Gone
  BY <1>3, <1>4 DEF Story!ClaimQueued
<1>5. CASE Story!Read
  <2>1. CASE tick.pc \in DOMAIN Story!After
        /\ tick' = [tick EXCEPT !.pc = Story!After[@], !.db = rows]
    <3>1. Story!After[tick.pc] \in {"read", "work", "failing"}
      BY <2>1 DEF Story!After
    <3>2. tick' \in TickRow'
      BY <2>1, <3>1 DEF TickRow
    <3> QED BY <1>5, <3>2 DEF Story!Read
  <2>2. CASE \E g \in Story!Gens :
               tick' = [pc |-> "read", g |-> g, locked |-> TRUE, held |-> FALSE, db |-> rows]
    <3>1. tick' \in TickRow'
      BY <2>2 DEF TickRow
    <3> QED BY <1>5, <3>1 DEF Story!Read
  <2> QED BY <1>5, <2>1, <2>2 DEF Story!Read
<1>6. CASE Story!Prepare
  BY <1>6 DEF Story!Prepare, TickRow
<1>7. CASE Story!CutDone
  <2>1. CASE tick' = [Story!NoTick EXCEPT !.pc = "cut", !.g = tick.g]
    BY <1>1, <1>3, <1>7, <2>1 DEF Story!CutDone
  <2>2. CASE tick' = [tick EXCEPT !.pc = "work"]
    <3>1. tick' \in TickRow'
      BY <2>2 DEF TickRow
    <3> QED BY <1>7, <3>1 DEF Story!CutDone
  <2> QED BY <1>7, <2>1, <2>2 DEF Story!CutDone
<1>8. CASE Story!Unanswered
  BY <1>1, <1>3, <1>8 DEF Story!Unanswered
<1>9. CASE Story!Refused
  BY <1>1, <1>3, <1>9 DEF Story!Refused
<1>10. \A who, s, t : blind \subseteq Story!Blind(who, s, t)
  BY DEF Story!Blind
<1>11. CASE Story!Apply
  BY <1>1, <1>3, <1>10, <1>11 DEF Story!Apply
<1>12. CASE Story!Fail
  BY <1>1, <1>3, <1>10, <1>12 DEF Story!Fail
<1>13. Gone
  BY <1>4, <1>5, <1>6, <1>7, <1>8, <1>9, <1>11, <1>12 DEF Ticked
<1> QED BY <1>13

-----------------------------------------------------------------------------
\* A Story begins with no plan, no ending and no version.
LEMMA StoryBegins == Story!Init => StoryInv
<1> SUFFICES ASSUME Story!Init PROVE StoryInv
  OBVIOUS
<1>1. /\ rows.plan = NoRow /\ rows.versions = <<>>
         /\ rows.gen = [g \in Story!Gens |-> Story!NoGen]
      /\ rows.creation = [status |-> "source_ready", story |-> FALSE, active |-> 0]
      /\ rows = [plan |-> rows.plan, creation |-> rows.creation, gen |-> rows.gen,
                 versions |-> rows.versions]
      /\ req = [r \in Requests |-> NoRow] /\ tick = Story!NoTick /\ blind = {}
  BY DEF Story!Init
<1>2. Story!NoGen \in Story!Gen
  BY DEF Story!NoGen, Story!Gen
<1>3. rows.versions \in Seq(Story!Version) /\ Len(rows.versions) = 0 /\ DOMAIN rows.versions = {}
  BY <1>1, LenProperties
<1>4. rows.creation \in CreationRow
  BY <1>1 DEF CreationRow
<1>5. StoryTyped(rows)
  BY <1>1, <1>2, <1>3, <1>4 DEF StoryTyped, StoryRows
<1>6. PlanIsMade(rows) /\ VersionsAreMade(rows) /\ ReadyIsMade(rows)
  BY <1>1, <1>3 DEF PlanIsMade, VersionsAreMade, ReadyIsMade
<1>7. TickIsSound
  BY <1>1 DEF TickIsSound, Story!NoTick, WithSnapshot
<1>8. StoryShape
  BY <1>1 DEF StoryShape, TickRow, Story!NoTick
<1> QED BY <1>1, <1>5, <1>6, <1>7, <1>8 DEF StoryInv, StorySound

\* Every step is a request's or the coordinator's.
LEMMA StepsAreKnown == Story!Next => Ticked \/ \E r \in Requests : Requested(r)
BY DEF Story!Next, Ticked, Requested

\* What a request that changes rows leaves.
LEMMA RequestsKeep ==
  ASSUME StoryInv, NEW r \in Requests, Requested(r), "request" \notin blind', rows' # rows
  PROVE  /\ req[r] # NoRow /\ req' = [req EXCEPT ![r] = NoRow]
         /\ Keeps(rows') /\ Goes(req[r], rows')
<1>1. "request" \notin blind
  BY RequestsEnd
<1>2. req[r] # NoRow /\ req' = [req EXCEPT ![r] = NoRow]
  BY DEF Requested, Story!Begin, Story!RequestEnds, Story!SaveStoryPlan,
         Story!GenerateStoryEndings, Story!ConfirmStoryPreview, Story!SaveManualEdits,
         Story!CancelCreation, Story!AbandonCreation, Story!PublishCreation, Story!Respond
<1>3. Reads(r, req[r])
  BY <1>1, <1>2 DEF Reads, StoryInv
<1>4. Keeps(rows') /\ Goes(req[r], rows')
  BY <1>3, PlanIsSaved, GenerationIsStarted, PreviewIsConfirmed, EditsAreSaved,
     EndingsAreCancelled, CreationIsAbandoned, CreationIsPublished DEF Requested, Story!Begin,
         Story!RequestEnds
<1> QED BY <1>2, <1>4

\* What a step of the coordinator leaves.
LEMMA TicksKeep ==
  ASSUME StoryInv, Ticked, "request" \notin blind'
  PROVE  TickKeeps(rows')
<1>1. tick \in TickRow
  BY DEF StoryInv, StoryShape
<1>2. "request" \notin blind
  BY <1>1, TicksGoOn
<1>3. StorySound(rows) /\ TickIsSound
  BY <1>2 DEF StoryInv
<1> QED BY <1>1, <1>3, QueuedIsClaimed, TickReads, TickPrepares, CutIsKept, TickStops, TickEnds
           DEF Ticked

\* Rows stay sound, and so does what has been read of them.
LEMMA StoryGoesOn == StoryInv /\ [Story!Next]_Story!vars => StoryInv'
<1> SUFFICES ASSUME StoryInv, [Story!Next]_Story!vars PROVE StoryInv'
  OBVIOUS
<1> DEFINE Snapshots == \A r \in Requests :
                          req[r] # NoRow => StorySound(req[r]) /\ Earlier(req[r], rows)
           Sound == StorySound(rows) /\ Snapshots /\ TickIsSound
<1>1. StoryShape /\ tick \in TickRow /\ req = [r \in Requests |-> req[r]]
  BY DEF StoryInv, StoryShape
<1>2. "request" \notin blind => Sound
  BY DEF StoryInv
<1>3. ASSUME UNCHANGED Story!vars PROVE StoryInv'
  <2>1. StoryShape'
    BY <1>1, <1>3 DEF StoryShape, Story!vars, TickRow
  <2>2. "request" \notin blind' => Sound'
    BY <1>2, <1>3 DEF Story!vars, TickIsSound
  <2> QED BY <2>1, <2>2 DEF StoryInv
<1>4. ASSUME NEW r \in Requests, Requested(r) PROVE StoryInv'
  <2>1. /\ req' = [req EXCEPT ![r] = rows] \/ req' = [req EXCEPT ![r] = NoRow]
        /\ tick' = tick /\ blind \subseteq blind'
    BY <1>4, RequestsEnd
  <2>2. StoryShape'
    BY <2>1, <1>1 DEF StoryShape, TickRow
  <2> SUFFICES ASSUME "request" \notin blind' PROVE Sound'
    BY <2>2 DEF StoryInv
  <2>3. StorySound(rows) /\ Snapshots /\ TickIsSound
    BY <2>1, <1>2
  <2>4. CASE rows' = rows
    <3>1. TickIsSound'
      BY <2>1, <2>3, <2>4 DEF TickIsSound
    <3>2. ASSUME NEW x \in Requests, req'[x] # NoRow
          PROVE StorySound(req'[x]) /\ Earlier(req'[x], rows)
      <4>1. Earlier(rows, rows)
        BY <2>3, EarlierIsSame DEF StorySound
      <4>2. req'[x] = rows \/ req'[x] = req[x]
        BY <2>1, <1>1, <3>2
      <4> QED BY <4>1, <4>2, <2>3, <3>2
    <3> QED BY <3>1, <3>2, <2>3, <2>4
  <2>5. CASE rows' # rows
    <3>1. req[r] # NoRow /\ req' = [req EXCEPT ![r] = NoRow] /\ Keeps(rows')
      BY <2>5, <1>4, RequestsKeep
    <3>2. Reads(r, req[r])
      BY <2>3, <3>1 DEF Reads
    <3>4. TickIsSound'
      BY <3>1, <3>2, <2>1, <2>3, OthersStay DEF Reads
    <3>5. ASSUME NEW x \in Requests, req'[x] # NoRow
          PROVE StorySound(req'[x]) /\ Earlier(req'[x], rows')
      <4>1. req'[x] = req[x]
        BY <3>1, <3>5, <1>1
      <4> QED BY <4>1, <2>1, <2>3, <3>1, <3>5, OthersStay
    <3> QED BY <3>1, <3>4, <3>5 DEF Keeps
  <2> QED BY <2>4, <2>5
<1>5. ASSUME Ticked PROVE StoryInv'
  <2>1. req' = req /\ blind \subseteq blind' /\ tick' \in TickRow'
    BY <1>1, <1>5, TicksGoOn
  <2>2. StoryShape'
    BY <2>1, <1>1 DEF StoryShape
  <2> SUFFICES ASSUME "request" \notin blind' PROVE Sound'
    BY <2>2 DEF StoryInv
  <2>3. StorySound(rows) /\ Snapshots /\ TickIsSound
    BY <2>1, <1>2
  <2>4. TickKeeps(rows')
    BY <1>5, TicksKeep
  <2>5. StorySound(rows') /\ Earlier(rows, rows') /\ TickIsSound'
    BY <2>4 DEF TickKeeps
  <2>6. ASSUME NEW x \in Requests, req[x] # NoRow
        PROVE StorySound(req[x]) /\ Earlier(req[x], rows')
    <3>1. StorySound(req[x]) /\ Earlier(req[x], rows)
      BY <2>3, <2>6
    <3> QED BY <3>1, <2>3, <2>5, EarlierStill DEF StorySound
  <2> QED BY <2>1, <2>5, <2>6
<1> QED BY <1>3, <1>4, <1>5, StepsAreKnown

\* A Story that is sound is made of its plan's clips when it shows as ready.
LEMMA SoundStoryIsItsPlan == StorySound(rows) => Story!ReadyStoryIsItsPlan
<1> SUFFICES ASSUME StorySound(rows), rows.creation.status = "ready"
             PROVE Story!ReadyStoryIsItsPlan
  BY DEF Story!ReadyStoryIsItsPlan
<1>1. /\ rows.plan # NoRow /\ ClipsAreThere(rows) /\ PlanIsMade(rows)
      /\ Matches(rows.versions[rows.creation.active], rows.plan)
  BY DEF StorySound, ReadyIsMade
<1> DEFINE v == rows.versions[rows.creation.active]
<1>2. v.cut = rows.plan.cut /\ v.ids = rows.plan.ids
  BY <1>1 DEF Matches
<1>3. \A role \in Story!Roles \ {rows.plan.values.owner} :
         /\ rows.gen[v.ids[role]].status = "ready"
         /\ rows.gen[v.ids[role]].input = Story!VideoInput(rows.plan.values, role)
  BY <1>1, <1>2 DEF ClipsAreThere, PlanIsMade
<1> QED BY <1>2, <1>3 DEF Story!ReadyStoryIsItsPlan

-----------------------------------------------------------------------------
\* There is nothing to be on its way yet.
LEMMA WayBegins == Story!Init => WayInv
BY DEF Story!Init, WayInv, OnItsWay, Started, Story!NoGen

\* A Story stays on its way.
LEMMA WayGoesOn == StoryInv /\ WayInv /\ [Story!Next]_Story!vars => WayInv'
<1> SUFFICES ASSUME StoryInv, WayInv, [Story!Next]_Story!vars, blind' = {}
             PROVE  /\ OnItsWay(rows') /\ Started(rows')
                    /\ \A r \in Requests : req'[r] # NoRow => Started(req'[r])
  BY DEF WayInv, OnItsWay, Started, Story!ClipStatus, Story!Editable
<1>1. req = [r \in Requests |-> req[r]] /\ tick \in TickRow
  BY DEF StoryInv, StoryShape
<1>2. blind = {} => /\ OnItsWay(rows) /\ Started(rows)
                    /\ \A r \in Requests : req[r] # NoRow => Started(req[r])
  BY DEF WayInv
<1>3. CASE UNCHANGED Story!vars
  BY <1>2, <1>3 DEF Story!vars
<1>4. ASSUME NEW r \in Requests, Requested(r)
      PROVE  /\ OnItsWay(rows') /\ Started(rows')
             /\ \A x \in Requests : req'[x] # NoRow => Started(req'[x])
  <2>1. /\ req' = [req EXCEPT ![r] = rows] \/ req' = [req EXCEPT ![r] = NoRow]
        /\ blind = {}
    BY <1>4, RequestsEnd
  <2>2. OnItsWay(rows') /\ Started(rows')
    <3>1. CASE rows' = rows
      BY <3>1, <2>1, <1>2
    <3>2. CASE rows' # rows
      <4>1. req[r] # NoRow /\ Goes(req[r], rows')
        BY <3>2, <1>4, RequestsKeep
      <4> QED BY <4>1, <2>1, <1>2 DEF Goes
    <3> QED BY <3>1, <3>2
  <2>3. ASSUME NEW x \in Requests, req'[x] # NoRow PROVE Started(req'[x])
    <3>1. req'[x] = rows \/ req'[x] = req[x]
      BY <2>1, <2>3, <1>1
    <3> QED BY <3>1, <2>1, <2>3, <1>2
  <2> QED BY <2>2, <2>3
<1>5. CASE Ticked
  <2>1. req' = req /\ blind = {}
    BY <1>1, <1>5, TicksGoOn
  <2>2. Goes(rows, rows')
    BY <1>5, TicksKeep DEF TickKeeps
  <2> QED BY <2>1, <2>2, <1>2 DEF Goes
<1> QED BY <1>3, <1>4, <1>5, StepsAreKnown

\* A Story that is on its way is under way.
LEMMA StoryOnItsWay == OnItsWay(rows) => Story!StoryIsUnderWay
BY DEF OnItsWay, Story!StoryIsUnderWay

\* The Story of the instance begins and goes on as StoryEndings says.
LEMMA WholeStories == MCSpec => [](svc = "story" => StoryInv /\ WayInv)
<1>1. MCInit => (svc = "story" => StoryInv /\ WayInv)
  BY StoryBegins, WayBegins DEF MCInit
<1>2. (svc = "story" => StoryInv /\ WayInv) /\ [MCNext]_<<svc, vars, storyVars>>
         => (svc = "story" => StoryInv /\ WayInv)'
  <2> SUFFICES ASSUME svc = "story" => StoryInv /\ WayInv, [MCNext]_<<svc, vars, storyVars>>,
                      svc' = "story"
               PROVE  StoryInv' /\ WayInv'
    OBVIOUS
  <2>1. svc = "story" /\ [Story!Next]_Story!vars
    BY DEF MCNext, storyVars, Story!vars
  <2> QED BY <2>1, StoryGoesOn, WayGoesOn
<1> QED BY <1>1, <1>2, PTL DEF MCSpec

\* However the requests about a Story and the ticks of its endings interleave, whatever its
\* plans, and however many requests there are: if it shows as ready it is what its plan says,
\* unless a request has written to a plan or to endings that had changed since it read them
\* (app/creator_story.py, sync_story and its callers), and if it shows as being generated there is
\* something it waits for, unless a request or a tick has decided on what had changed.
THEOREM StoriesAreWhole == MCSpec => []StoryIsWhole
<1>1. StoryInv /\ WayInv => Story!StoryIsWhole
  BY SoundStoryIsItsPlan, StoryOnItsWay DEF StoryInv, WayInv, Story!StoryIsWhole
<1>2. (svc = "story" => StoryInv /\ WayInv) => StoryIsWhole
  BY <1>1 DEF StoryIsWhole
<1> QED BY <1>2, WholeStories, PTL
=============================================================================
