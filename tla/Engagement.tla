---------------------------- MODULE Engagement ----------------------------
(***************************************************************************)
(* Likes and comments of one published video, by people and by seed        *)
(* accounts, the counters kept beside them, moderation, account deletion   *)
(* and the reconciliation of the counters.                                 *)
(*                                                                         *)
(* A request works on the snapshot its first read takes; the video's row   *)
(* is read again, and locked, only by the likes and the comments.  Its     *)
(* commit writes the columns that it changed, with values computed from    *)
(* what it read.  A refusal (a block, a rate limit, a hidden video, seed   *)
(* preview switched off) ends a request without a trace.                   *)
(***************************************************************************)
EXTENDS Naturals, FiniteSets, EngagementParameters

VARIABLES
    db,      \* the rows: see Init
    req,     \* req[r]: a request under way
    begun,   \* requests begun
    exact    \* history: nothing that may make the counters drift has happened
             \* since the last undisturbed reconciliation

vars == <<db, req, begun, exact>>

Ids == 1..MaxComments
Keys == {"none", "key"}
Idle == [op |-> [kind |-> "idle"]]

Comment == [author : Users, root : 0..MaxComments, key : Keys, deleted : BOOLEAN,
            status : {"visible", "hidden", "removed"}, likes : Nat, replies : Nat]

TypeOK ==
    /\ db.users \subseteq Users /\ db.video \in {"shown", "withdrawn", "gone"}
    /\ db.likes \subseteq Users /\ db.liked \subseteq Ids \X Users
    /\ db.comments \in [Ids -> Comment \cup {NoRow}]
    /\ db.counts \in [{"likes", "seedLikes", "comments", "seedComments"} -> Nat]
    /\ begun \in 0..MaxRequests
    /\ exact \in BOOLEAN

Init ==
    /\ db = [users |-> Users,         \* accounts that exist
             video |-> "shown",       \* published_videos: shown, withdrawn, gone
             likes |-> {},            \* video_likes: who likes it
             comments |-> [c \in Ids |-> NoRow],
             liked |-> {},            \* comment_likes: <<comment, user>>
             notes |-> {},            \* social_notifications: <<to, from, kind, target>>
             counts |-> [likes |-> 0, seedLikes |-> 0, comments |-> 0, seedComments |-> 0]]
    /\ req = [r \in Requests |-> Idle]
    /\ begun = 0 /\ exact = TRUE

OneField(u) == "comments"

\* is_seed_user decides which counter of the video an account moves.
LikeField(u) == IF u \in Seeds THEN "seedLikes" ELSE "likes"
CommentField(u) == IF u \in Seeds THEN "seedComments" ELSE "comments"

Minus(n) == n - 1

Dec(n) == IF n = 0 THEN 0 ELSE n - 1

\* The session writes a column only when the request changed it.
Write(current, read, new) == IF new = read THEN current ELSE new

Rows(d) == {c \in Ids : d.comments[c] # NoRow}
Visible(d, c) == d.comments[c].status = "visible" /\ ~d.comments[c].deleted

-----------------------------------------------------------------------------
(* Requests                                                                *)

Ops == [kind : {"like"}, actor : Users, active : BOOLEAN]
       \cup [kind : {"comment"}, actor : Users, root : 0..MaxComments, key : Keys]
       \cup [kind : {"like comment"}, actor : Users, comment : Ids, active : BOOLEAN]
       \cup [kind : {"remove"}, actor : Users, comment : Ids, hide : BOOLEAN]
       \cup [kind : {"decide"}, comment : Ids]
       \cup [kind : {"withdraw", "reconcile"}]
       \cup [kind : {"delete"}, actor : Users]

Running == {r \in Requests : req[r] # Idle}

Begin(r, op) ==
    /\ r \notin Running /\ begun < MaxRequests
    /\ "actor" \in DOMAIN op => op.actor \in db.users
    /\ "comment" \in DOMAIN op => op.comment \in Rows(db)
    /\ begun' = begun + 1
    /\ req' = [q \in Requests |->
          IF q = r THEN [op |-> op, db |-> db, alone |-> Running = {}]
          ELSE IF q \in Running THEN [req[q] EXCEPT !.alone = FALSE] ELSE req[q]]
    /\ UNCHANGED <<db, exact>>

Refuse(r) ==
    /\ r \in Running
    /\ req' = [req EXCEPT ![r] = Idle]
    /\ UNCHANGED <<db, begun, exact>>

Done(r) ==
    /\ req' = [req EXCEPT ![r] = Idle]
    /\ UNCHANGED begun

\* Whether the counters may have drifted: the request overlapped another, or the comment it
\* took out of the count was not in it.
Counted(r, again) ==
    /\ exact' = (exact /\ req[r].alone /\ ~again)
    /\ Done(r)

\* _notify: one row for a recipient, an actor, a kind and a target.
Note(s, to, from, kind, target) ==
    IF to = from THEN {} ELSE {<<to, from, kind, target>>} \ s.notes

\* visible_video reads the video's row again, under a lock that the commit releases.
LockedCounts(r) == db.counts

-----------------------------------------------------------------------------
(* Likes and comments                                                      *)

\* mutate_video_like: the unique keys refuse a like, or a notification, made since the
\* snapshot; then nothing is written.
LikeVideo(r) ==
    LET op == req[r].op
        s == req[r].db
        f == LikeField(op.actor)
        note == IF op.actor \in Seeds THEN {} ELSE Note(s, Owner, op.actor, "like", 0)
    IN  /\ op.kind = "like" /\ db.video = "shown"
        /\ db' = IF op.active /\ op.actor \notin s.likes
                    THEN IF op.actor \in db.likes \/ note \cap db.notes # {} THEN db
                         ELSE [db EXCEPT !.likes = @ \cup {op.actor},
                                         !.counts[f] = LockedCounts(r)[f] + 1,
                                         !.notes = @ \cup note]
                 ELSE IF ~op.active /\ op.actor \in s.likes
                    THEN [db EXCEPT !.likes = @ \ {op.actor},
                                    !.counts[f] = Dec(LockedCounts(r)[f])]
                 ELSE db
        /\ Counted(r, FALSE)

Keyed(d, u, key) == {c \in Rows(d) : key # "none" /\ d.comments[c].author = u
                                     /\ d.comments[c].key = key}

NoKey(u, key) == FALSE

\* The unique key of comments: an author uses a key once.
KeyTaken(u, key) == Keyed(db, u, key) # {}

\* create_comment: a comment of this key is the answer, whether the snapshot or the unique
\* key shows it.
CreateComment(r) ==
    LET op == req[r].op
        s == req[r].db
        u == op.actor
        seed == u \in Seeds
        to == IF op.root = 0 THEN Owner ELSE s.comments[op.root].author
        Row == [author |-> u, root |-> op.root, key |-> op.key, status |-> "visible",
                deleted |-> FALSE, likes |-> 0, replies |-> 0]
    IN  /\ op.kind = "comment"
        /\ seed => op.root = 0 /\ op.key # "none"
        /\ \/ Keyed(s, u, op.key) # {} /\ db' = db
           \/ /\ Keyed(s, u, op.key) = {} /\ db.video = "shown"
              /\ op.root # 0 => /\ op.root \in Rows(s) /\ s.comments[op.root].root = 0
                                /\ s.comments[op.root].status # "hidden"
              /\ \/ KeyTaken(u, op.key) /\ db' = db
                 \/ /\ ~KeyTaken(u, op.key)
                    /\ \E c \in Ids \ Rows(db) :
                          /\ \A d \in 1..(c - 1) : d \in Rows(db)
                          /\ db' = [db EXCEPT
                                !.comments = [d \in Ids |->
                                    IF d = c THEN Row
                                    ELSE IF d = op.root
                                    THEN [db.comments[d] EXCEPT
                                            !.replies = s.comments[d].replies + 1]
                                    ELSE db.comments[d]],
                                !.counts[CommentField(u)] = LockedCounts(r)[CommentField(u)] + 1,
                                !.notes = @ \cup (IF seed THEN {} ELSE
                                    Note(s, to, u, IF op.root = 0 THEN "comment" ELSE "reply", c))]
        /\ Counted(r, FALSE)

LikeComment(r) ==
    LET op == req[r].op
        s == req[r].db
        c == op.comment
        pair == <<c, op.actor>>
        author == s.comments[c].author
        note == IF author \in Seeds THEN {} ELSE Note(s, author, op.actor, "comment like", c)
    IN  /\ op.kind = "like comment"
        /\ Visible(s, c) /\ s.video = "shown" /\ c \in Rows(db)
        /\ db' = IF op.active /\ pair \notin s.liked
                    THEN IF pair \in db.liked \/ note \cap db.notes # {} THEN db
                         ELSE [db EXCEPT !.liked = @ \cup {pair}, !.notes = @ \cup note,
                                         !.comments[c].likes = s.comments[c].likes + 1]
                 ELSE IF ~op.active /\ pair \in s.liked
                    THEN [db EXCEPT !.liked = @ \ {pair},
                              !.comments[c].likes = Write(@, s.comments[c].likes,
                                                          Dec(s.comments[c].likes))]
                 ELSE db
        /\ Counted(r, FALSE)

-----------------------------------------------------------------------------
(* Moderation                                                              *)

\* The comment leaves the count of the video and that of its root, whether it is in them or
\* not.
TakeOut(s, c, row) ==
    LET f == CommentField(row.author)
        replies(d) == Write(db.comments[d].replies, s.comments[d].replies,
                            Dec(s.comments[d].replies))
    IN  [db EXCEPT
            !.comments = [d \in Ids |->
                IF d = c THEN row
                ELSE IF d = row.root /\ d \in Rows(db)
                THEN [db.comments[d] EXCEPT !.replies = replies(d)]
                ELSE db.comments[d]],
            !.counts[f] = Write(@, s.counts[f], Dec(s.counts[f]))]

\* _remove_comment: hidden by the author of the video, or deleted by its own.
RemoveComment(r) ==
    LET op == req[r].op
        s == req[r].db
        c == op.comment
    IN  /\ op.kind = "remove" /\ db.video # "gone" /\ c \in Rows(db)
        /\ IF op.hide THEN op.actor = Owner /\ s.comments[c].author # Owner
           ELSE op.actor = s.comments[c].author
        /\ db' = TakeOut(s, c, [db.comments[c] EXCEPT
                      !.status = Write(@, s.comments[c].status, IF op.hide THEN "hidden" ELSE "removed"),
                      !.deleted = @ \/ ~op.hide])
        /\ Counted(r, ~Visible(s, c))

\* decide_report, remove_comment.
DecideReport(r) ==
    LET s == req[r].db
        c == req[r].op.comment
    IN  /\ req[r].op.kind = "decide" /\ db.video # "gone" /\ c \in Rows(db)
        /\ db' = IF s.comments[c].deleted THEN db
                 ELSE TakeOut(s, c, [db.comments[c] EXCEPT
                          !.status = Write(@, s.comments[c].status, "removed"), !.deleted = TRUE])
        /\ Counted(r, ~s.comments[c].deleted /\ ~Visible(s, c))

\* decide_report, remove_content.
WithdrawVideo(r) ==
    /\ req[r].op.kind = "withdraw" /\ db.video # "gone"
    /\ db' = [db EXCEPT !.video = "withdrawn"]
    /\ UNCHANGED exact
    /\ Done(r)

-----------------------------------------------------------------------------
(* Account deletion and reconciliation                                     *)

OwnCommentLikes(s, u) == {p \in s.liked : p[2] = u}

Own(s, u) == {c \in Rows(s) : s.comments[c].author = u}
Seen(s, u) == {c \in Own(s, u) : Visible(s, c)}

Lower(n, k) == IF n < k THEN 0 ELSE n - k

\* Comment c without what an account that is deleted had there.
Without(s, u, c) ==
    LET now == db.comments[c]
        row == s.comments[c]
        read == Cardinality({d \in Seen(s, u) : s.comments[d].root = c})
        mine == IF <<c, u>> \in s.liked THEN 1 ELSE 0
    IN  [now EXCEPT
            !.likes = Write(now.likes, row.likes, Lower(row.likes, mine)),
            !.replies = Write(now.replies, row.replies, Lower(row.replies, read)),
            !.status = IF c \in Own(s, u) THEN Write(now.status, row.status, "removed")
                       ELSE now.status,
            !.deleted = now.deleted \/ c \in Own(s, u)]

\* delete_account_data: the account's video goes with everything on it; of its likes and
\* comments elsewhere, those in the snapshot go, and are taken out of the counts.
DeleteAccount(r) ==
    LET u == req[r].op.actor
        s == req[r].db
        kept == {n \in db.notes : n[1] # u /\ n[2] # u}
        less == [likes |-> IF u \in s.likes THEN 1 ELSE 0, comments |-> Cardinality(Seen(s, u))]
        lf == LikeField(u)
        cf == CommentField(u)
    IN  /\ req[r].op.kind = "delete"
        /\ db' = IF u = Owner
             THEN [db EXCEPT !.users = @ \ {u}, !.video = "gone", !.likes = {}, !.liked = {},
                             !.notes = {}, !.comments = [c \in Ids |-> NoRow]]
             ELSE [db EXCEPT
                 !.users = @ \ {u}, !.notes = kept,
                 !.likes = @ \ (s.likes \cap {u}),
                 !.liked = @ \ OwnCommentLikes(s, u),
                 !.comments = [c \in Ids |->
                    IF c \notin Rows(s) \/ c \notin Rows(db) THEN db.comments[c]
                    ELSE Without(s, u, c)],
                 !.counts[lf] = Write(@, s.counts[lf], Lower(s.counts[lf], less.likes)),
                 !.counts[cf] = Write(@, s.counts[cf], Lower(s.counts[cf], less.comments))]
        /\ Counted(r, FALSE)

Likers(d, seed) == Cardinality({u \in d.likes : (u \in Seeds) = seed})
Counting(d, seed) ==
    Cardinality({c \in Rows(d) : Visible(d, c) /\ (d.comments[c].author \in Seeds) = seed})
CommentLikes(d, c) == Cardinality({p \in d.liked : p[1] = c})
Replies(d, c) ==
    Cardinality({e \in Rows(d) : /\ d.comments[e].root = c /\ Visible(d, e)
                                 /\ d.comments[e].author \notin Seeds})
Counts(d) == [likes |-> Likers(d, FALSE), seedLikes |-> Likers(d, TRUE),
              comments |-> Counting(d, FALSE), seedComments |-> Counting(d, TRUE)]

\* reconcile_counts
Reconcile(r) ==
    LET s == req[r].db IN
    /\ req[r].op.kind = "reconcile"
    /\ db' = [db EXCEPT
          !.counts = IF db.video = "gone" \/ s.video = "gone" THEN @ ELSE
                     [f \in DOMAIN @ |-> Write(@[f], s.counts[f], Counts(s)[f])],
          !.comments = [c \in Ids |->
              IF c \notin Rows(s) \/ c \notin Rows(db) THEN db.comments[c]
              ELSE LET now == db.comments[c] IN
                   [now EXCEPT
                       !.likes = Write(now.likes, s.comments[c].likes, CommentLikes(s, c)),
                       !.replies = Write(now.replies, s.comments[c].replies, Replies(s, c))]]]
    /\ exact' = req[r].alone
    /\ Done(r)

Next ==
    \E r \in Requests :
        \/ \E op \in Ops : Begin(r, op)
        \/ /\ r \in Running
           /\ \/ LikeVideo(r) \/ CreateComment(r) \/ LikeComment(r) \/ RemoveComment(r)
              \/ DecideReport(r) \/ WithdrawVideo(r) \/ DeleteAccount(r) \/ Reconcile(r)
        \/ Refuse(r)

Spec == Init /\ [][Next]_vars

-----------------------------------------------------------------------------
\* Every counter shown beside the video and its comments says how many rows there are,
\* through likes, comments, moderation and account deletions, seed accounts or not, one
\* after the other, and again after one reconciliation, whatever overlapped before it.
CountsAreRight ==
    exact /\ db.video # "gone" =>
        /\ db.counts = Counts(db)
        /\ \A c \in Rows(db) : /\ db.comments[c].likes = CommentLikes(db, c)
                               /\ db.comments[c].replies = Replies(db, c)

\* A comment sent again with its key, at the same time or later, is stored once.
KeyedCommentIsOne == \A u \in Users : Cardinality(Keyed(db, u, "key")) <= 1
=============================================================================
