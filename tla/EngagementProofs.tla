-------------------------- MODULE EngagementProofs --------------------------
(***************************************************************************)
(* Theorems of Engagement: the types of its rows and requests, that every  *)
(* counter beside a video and its comments is the number of rows it counts *)
(* wherever requests have come one after the other or a reconciliation has *)
(* run since, and that a comment sent again with its key is stored once.   *)
(*                                                                         *)
(* The counters are changed by one, clamped at zero, on rows that a        *)
(* request read before: that they stay exact is an invariant of the rows   *)
(* (a reply hangs under a comment that is there) and of what a request     *)
(* that runs alone has read (Request below).                               *)
(***************************************************************************)
EXTENDS Engagement, FiniteSetTheorems, TLAPS

\* The counters of a video: likes and comments, those of the seed accounts apart.
Fields == {"likes", "seedLikes", "comments", "seedComments"}

\* A state of the rows, as the database has it or a request has read it.
Snapshot(d) ==
    /\ d \in [users : SUBSET Users, video : {"shown", "withdrawn", "gone"},
              likes : SUBSET Users, comments : [Ids -> Comment \cup {NoRow}],
              liked : SUBSET (Ids \X Users), notes : {d.notes}, counts : [Fields -> Nat]]
    /\ IsFiniteSet(d.likes) /\ IsFiniteSet(d.liked)
    /\ \A p \in d.liked : p[1] \in Rows(d)
    /\ \A c \in Rows(d) : /\ d.comments[c].root \in (Rows(d) \ {c}) \cup {0}
                          /\ d.comments[c].author \in Seeds => d.comments[c].root = 0

\* A request under way: what it has read, and what may have changed since.
Request(r) == req[r] # Idle =>
    /\ req[r] \in [op : Ops, db : {req[r].db}, alone : BOOLEAN]
    /\ Snapshot(req[r].db)
    /\ req[r].op.kind \in {"like comment", "remove", "decide"}
         => req[r].op.comment \in Rows(req[r].db)
    /\ db.video # "gone" => Rows(req[r].db) \subseteq Rows(db)
    /\ \A c \in Rows(req[r].db) \cap Rows(db) : req[r].db.comments[c].root = db.comments[c].root
    /\ req[r].alone => req[r].db = db /\ \A q \in Requests : q # r => req[q] = Idle

Typed ==
    /\ Snapshot(db)
    /\ req \in [Requests -> {req[r] : r \in Requests}]
    /\ \A r \in Requests : Request(r)
    /\ begun \in 0..MaxRequests
    /\ exact \in BOOLEAN

-----------------------------------------------------------------------------
\* What a step does to the rows that others have read.
Grown(e) ==
    /\ e.video # "gone" => db.video # "gone" /\ Rows(db) \subseteq Rows(e)
    /\ db.video = "gone" => Rows(e) \subseteq Rows(db)
    /\ \A c \in Rows(e) \cap Rows(db) : /\ e.comments[c].root = db.comments[c].root
                                        /\ e.comments[c].author = db.comments[c].author
                                        /\ e.comments[c].key = db.comments[c].key

\* What is known of a request under way.
LEMMA RunningRequest ==
  ASSUME Typed, NEW r \in Requests, req[r] # Idle
  PROVE  /\ req[r] \in [op : Ops, db : {req[r].db}, alone : BOOLEAN]
         /\ Snapshot(req[r].db)
         /\ req[r].op.kind \in {"like comment", "remove", "decide"}
              => req[r].op.comment \in Rows(req[r].db)
         /\ db.video # "gone" => Rows(req[r].db) \subseteq Rows(db)
         /\ \A c \in Rows(req[r].db) \cap Rows(db) : req[r].db.comments[c].root =
              db.comments[c].root
         /\ req[r].alone => req[r].db = db /\ \A q \in Requests : q # r => req[q] = Idle
BY DEF Typed, Request

\* The end of a request leaves the others what they are.
LEMMA TypedEnd ==
  ASSUME Typed, NEW r \in Requests, req[r] # Idle, req' = [req EXCEPT ![r] = Idle],
         UNCHANGED begun, exact' \in BOOLEAN,
         Snapshot(db'), Grown(db')
  PROVE  Typed'
<1>1. req' \in [Requests -> {req'[q] : q \in Requests}]
  BY DEF Typed
<1>2. ASSUME NEW q \in Requests PROVE Request(q)'
  <2>1. CASE q = r
    BY <2>1 DEF Request, Typed
  <2>2. CASE q # r
    <3>1. req'[q] = req[q]
      BY <2>2 DEF Typed
    <3>2. req[q] # Idle => ~req[q].alone
      BY <2>2 DEF Typed, Request
    <3>3. ASSUME req[q] # Idle
          PROVE  /\ db'.video # "gone" => Rows(req[q].db) \subseteq Rows(db')
                 /\ \A c \in Rows(req[q].db) \cap Rows(db') :
                       req[q].db.comments[c].root = db'.comments[c].root
      <4>1. /\ db.video # "gone" => Rows(req[q].db) \subseteq Rows(db)
            /\ \A c \in Rows(req[q].db) \cap Rows(db) : req[q].db.comments[c].root =
                 db.comments[c].root
        BY <3>3, RunningRequest
      <4> QED BY <4>1 DEF Grown
    <3>4. req[q] # Idle =>
            /\ req[q] \in [op : Ops, db : {req[q].db}, alone : BOOLEAN]
            /\ Snapshot(req[q].db)
            /\ req[q].op.kind \in {"like comment", "remove", "decide"}
                 => req[q].op.comment \in Rows(req[q].db)
      BY RunningRequest
    <3> QED BY <3>1, <3>2, <3>3, <3>4 DEF Request
  <2> QED BY <2>1, <2>2
<1> QED BY <1>1, <1>2 DEF Typed

\* A request that begins reads the rows as they are.
LEMMA TypedBegin ==
  ASSUME Typed, NEW r \in Requests, NEW op \in Ops, Begin(r, op)
  PROVE  Typed'
<1>0. /\ req[r] = Idle
      /\ req' = [q \in Requests |->
            IF q = r THEN [op |-> op, db |-> db, alone |-> Running = {}]
            ELSE IF q \in Running THEN [req[q] EXCEPT !.alone = FALSE] ELSE req[q]]
      /\ UNCHANGED <<db, exact>>
      /\ "comment" \in DOMAIN op => op.comment \in Rows(db)
  BY DEF Begin, Running
<1>1. req' \in [Requests -> {req'[q] : q \in Requests}]
  BY <1>0
<1>2. ASSUME NEW q \in Requests PROVE Request(q)'
  <2>1. CASE q = r
    <3>1. req'[q] = [op |-> op, db |-> db, alone |-> Running = {}]
      BY <1>0, <2>1
    <3>2. op.kind \in {"like comment", "remove", "decide"} => "comment" \in DOMAIN op
      BY DEF Ops
    <3>3. Running = {} => \A p \in Requests : p # r => req'[p] = Idle
      BY <1>0 DEF Running
    <3> HIDE DEF Running
    <3> QED BY <1>0, <2>1, <3>1, <3>2, <3>3 DEF Request, Typed
  <2>2. CASE q # r /\ req[q] # Idle
    <3> DEFINE new == [req[q] EXCEPT !.alone = FALSE]
    <3>1. req'[q] = new
      BY <1>0, <2>2 DEF Running
    <3>2. new \in [op : Ops, db : {req[q].db}, alone : BOOLEAN] /\ new.op = req[q].op
          /\ new.db = req[q].db
          /\ new.alone = FALSE
      BY <2>2, RunningRequest
    <3> HIDE DEF new
    <3>3. /\ Snapshot(req[q].db)
          /\ req[q].op.kind \in {"like comment", "remove", "decide"}
               => req[q].op.comment \in Rows(req[q].db)
          /\ db.video # "gone" => Rows(req[q].db) \subseteq Rows(db)
          /\ \A c \in Rows(req[q].db) \cap Rows(db) : req[q].db.comments[c].root =
               db.comments[c].root
      BY <2>2, RunningRequest
    <3> QED BY <1>0, <3>1, <3>2, <3>3 DEF Request
  <2>3. CASE q # r /\ req[q] = Idle
    <3>1. req'[q] = Idle
      BY <1>0, <2>3 DEF Running
    <3> QED BY <3>1 DEF Request
  <2> QED BY <2>1, <2>2, <2>3
<1>3. begun' \in 0..MaxRequests
  BY EngagementAssumption DEF Begin, Typed
<1> QED BY <1>0, <1>1, <1>2, <1>3 DEF Typed

-----------------------------------------------------------------------------
\* The form of the rows.
Form(d) ==
    d \in [users : SUBSET Users, video : {"shown", "withdrawn", "gone"},
           likes : SUBSET Users, comments : [Ids -> Comment \cup {NoRow}],
           liked : SUBSET (Ids \X Users), notes : {d.notes}, counts : [Fields -> Nat]]

\* The comments keep their authors and roots.
SameRows(e) ==
    /\ Rows(e) = Rows(db)
    /\ \A c \in Rows(db) : /\ e.comments[c].root = db.comments[c].root
                           /\ e.comments[c].author = db.comments[c].author
                           /\ e.comments[c].key = db.comments[c].key

\* Rows that are written over keep what a snapshot promises.
LEMMA KeptForm ==
  ASSUME Snapshot(db), NEW e, Form(e), SameRows(e), e.video = "gone" <=> db.video = "gone",
         IsFiniteSet(e.likes), IsFiniteSet(e.liked), \A p \in e.liked : p[1] \in Rows(db)
  PROVE  Snapshot(e) /\ Grown(e) /\ Rows(e) \subseteq Rows(db)
BY DEF Snapshot, Form, SameRows, Grown

\* A comment of the form that it has is a row.
LEMMA CommentRow ==
  ASSUME NEW d, Form(d), NEW c \in Ids
  PROVE  /\ c \in Rows(d) <=> d.comments[c] \in Comment
         /\ c \notin Rows(d) <=> d.comments[c] = NoRow
BY EngagementAssumption DEF Form, Rows, Comment, Keys

\* Requests that end: those that read or write the rows.
LEMMA FormLikes ==
  ASSUME Typed, NEW r \in Requests, req[r] # Idle, LikeVideo(r)
  PROVE  Snapshot(db') /\ Grown(db') /\ Rows(db') \subseteq Rows(db)
<1> DEFINE u == req[r].op.actor
           f == LikeField(req[r].op.actor)
<1>1. Snapshot(req[r].db) /\ Snapshot(db) /\ req[r].op \in Ops /\ req[r].op.kind = "like"
  BY RunningRequest DEF Typed, LikeVideo
<1>2. u \in Users /\ f \in Fields
  BY <1>1 DEF Ops, LikeField, Fields
<1>3. \/ db' = db
      \/ \E n \in Nat : \E notes : db' = [db EXCEPT !.likes = @ \cup {u}, !.counts[f] = n,
                                          !.notes = notes]
      \/ \E n \in Nat : db' = [db EXCEPT !.likes = @ \ {u}, !.counts[f] = n]
  <2>1. db.counts[f] + 1 \in Nat /\ Dec(db.counts[f]) \in Nat
    BY <1>1, <1>2 DEF Snapshot, Dec
  <2> QED BY <2>1 DEF LikeVideo, LockedCounts
<1> HIDE DEF u, f
<1>4. /\ IsFiniteSet(db.likes \cup {u}) /\ IsFiniteSet(db.likes \ {u})
  BY <1>1, FS_AddElement, FS_RemoveElement DEF Snapshot
<1>5. Form(db') /\ db'.comments = db.comments /\ db'.liked = db.liked /\ db'.video = db.video
      /\ db'.likes \in {db.likes, db.likes \cup {u}, db.likes \ {u}}
  <2>0. Form(db)
    BY <1>1 DEF Snapshot, Form
  <2>1. CASE db' = db
    BY <2>0, <2>1
  <2>2. ASSUME NEW n \in Nat, NEW notes,
               db' = [db EXCEPT !.likes = @ \cup {u}, !.counts[f] = n, !.notes = notes]
        PROVE  /\ Form(db') /\ db'.comments = db.comments /\ db'.liked = db.liked
               /\ db'.video = db.video /\ db'.likes = db.likes \cup {u}
    BY <1>2, <2>0, <2>2 DEF Form
  <2>3. ASSUME NEW n \in Nat, db' = [db EXCEPT !.likes = @ \ {u}, !.counts[f] = n]
        PROVE  /\ Form(db') /\ db'.comments = db.comments /\ db'.liked = db.liked
               /\ db'.video = db.video /\ db'.likes = db.likes \ {u}
    BY <1>2, <2>0, <2>3 DEF Form
  <2> QED BY <1>3, <2>0, <2>1, <2>2, <2>3
<1>6. SameRows(db')
  BY <1>5 DEF SameRows, Rows
<1> QED BY <1>1, <1>4, <1>5, <1>6, KeptForm DEF Snapshot

\* The same for a like of a comment.
LEMMA FormCommentLikes ==
  ASSUME Typed, NEW r \in Requests, req[r] # Idle, LikeComment(r)
  PROVE  Snapshot(db') /\ Grown(db') /\ Rows(db') \subseteq Rows(db)
<1> DEFINE u == req[r].op.actor
           c == req[r].op.comment
           s == req[r].db
<1>1. /\ Snapshot(s) /\ Snapshot(db) /\ req[r].op \in Ops /\ req[r].op.kind = "like comment"
      /\ c \in Rows(s) /\ c \in Rows(db)
  BY RunningRequest DEF Typed, LikeComment
<1>2. u \in Users /\ c \in Ids
  BY <1>1 DEF Ops
<1>3. s.comments[c] \in Comment /\ db.comments[c] \in Comment /\ Form(db)
  BY <1>1, <1>2, CommentRow DEF Snapshot, Form
<1>4. \/ db' = db
      \/ \E n \in Nat : \E notes : db' = [db EXCEPT !.liked = @ \cup {<<c, u>>}, !.notes = notes,
                                                !.comments[c].likes = n]
      \/ \E n \in Nat : db' = [db EXCEPT !.liked = @ \ {<<c, u>>}, !.comments[c].likes = n]
  <2>1. s.comments[c].likes + 1 \in Nat
        /\ Write(db.comments[c].likes, s.comments[c].likes, Dec(s.comments[c].likes)) \in Nat
    BY <1>3 DEF Comment, Write, Dec
  <2>2. [db EXCEPT !.liked = @ \ {<<c, u>>},
              !.comments[c].likes = Write(@, s.comments[c].likes, Dec(s.comments[c].likes))]
        = [db EXCEPT !.liked = @ \ {<<c, u>>},
              !.comments[c].likes = Write(db.comments[c].likes, s.comments[c].likes,
                                          Dec(s.comments[c].likes))]
    OBVIOUS
  <2> QED BY <2>1, <2>2 DEF LikeComment
<1> HIDE DEF u, c, s
<1>5. IsFiniteSet(db.liked \cup {<<c, u>>}) /\ IsFiniteSet(db.liked \ {<<c, u>>})
  BY <1>1, FS_AddElement, FS_RemoveElement DEF Snapshot
<1>6. \A n \in Nat : [db.comments[c] EXCEPT !.likes = n] \in Comment
  BY <1>3 DEF Comment
<1>7. /\ Form(db') /\ db'.likes = db.likes /\ db'.video = db.video
      /\ db'.liked \in {db.liked, db.liked \cup {<<c, u>>}, db.liked \ {<<c, u>>}}
      /\ \/ db'.comments = db.comments
         \/ \E n \in Nat : db'.comments =
              [db.comments EXCEPT ![c] = [db.comments[c] EXCEPT !.likes = n]]
  <2>1. CASE db' = db
    BY <1>3, <2>1
  <2>2. ASSUME NEW n \in Nat, NEW notes,
               NEW liked \in {db.liked \cup {<<c, u>>}, db.liked \ {<<c, u>>}},
               \/ db' = [db EXCEPT !.liked = liked, !.notes = notes, !.comments[c].likes = n]
               \/ db' = [db EXCEPT !.liked = liked, !.comments[c].likes = n]
        PROVE  /\ Form(db') /\ db'.likes = db.likes /\ db'.video = db.video
               /\ db'.liked = liked
               /\ db'.comments = [db.comments EXCEPT ![c] = [db.comments[c] EXCEPT !.likes = n]]
    <3> DEFINE comments == [db.comments EXCEPT ![c] = [db.comments[c] EXCEPT !.likes = n]]
    <3>1. comments \in [Ids -> Comment \cup {NoRow}]
      BY <1>3, <1>6 DEF Form
    <3>2. \/ db' = [db EXCEPT !.liked = liked, !.notes = notes, !.comments = comments]
          \/ db' = [db EXCEPT !.liked = liked, !.comments = comments]
      BY <2>2
    <3> HIDE DEF comments
    <3>3. liked \in SUBSET (Ids \X Users)
      BY <1>2, <1>3 DEF Form
    <3>4. /\ Form(db') /\ db'.likes = db.likes /\ db'.video = db.video
          /\ db'.liked = liked /\ db'.comments = comments
      BY <1>3, <3>1, <3>2, <3>3 DEF Form
    <3> QED BY <3>4 DEF comments
  <2> QED BY <1>4, <2>1, <2>2
<1>8. SameRows(db')
  <2>1. \A d \in Ids : d # c => db'.comments[d] = db.comments[d]
    BY <1>7 DEF Form
  <2>2. db'.comments[c] \in Comment /\ db'.comments[c].root = db.comments[c].root
        /\ db'.comments[c].author = db.comments[c].author
        /\ db'.comments[c].key = db.comments[c].key
    BY <1>2, <1>3, <1>6, <1>7 DEF Form, Comment
  <2>3. \A d \in Ids : d \in Rows(db') <=> d \in Rows(db)
    BY <1>1, <1>3, <1>7, <2>1, <2>2, CommentRow DEF Rows
  <2>4. Rows(db') = Rows(db)
    BY <2>3 DEF Rows
  <2> QED BY <2>1, <2>2, <2>4 DEF SameRows, Rows
<1>9. ASSUME NEW p \in db'.liked PROVE p[1] \in Rows(db)
  <2>1. CASE p = <<c, u>>
    BY <1>1, <2>1
  <2>2. CASE p # <<c, u>>
    <3>1. p \in db.liked
      BY <1>7, <2>2
    <3> QED BY <1>1, <3>1 DEF Snapshot
  <2> QED BY <2>1, <2>2
<1>10. IsFiniteSet(db'.likes) /\ IsFiniteSet(db'.liked)
  BY <1>1, <1>5, <1>7 DEF Snapshot
<1>11. Form(db') /\ (db'.video = "gone" <=> db.video = "gone")
  BY <1>7
<1> QED BY <1>1, <1>8, <1>9, <1>10, <1>11, KeptForm, Zenon

\* Rows that are written one by one: each is a row if it was one, with its author and root.
LEMMA KeptRows ==
  ASSUME Snapshot(db), NEW e, Form(e), e.video = "gone" <=> db.video = "gone",
         IsFiniteSet(e.likes), IsFiniteSet(e.liked), e.liked \subseteq db.liked,
         \A c \in Ids : IF c \in Rows(db)
                        THEN /\ e.comments[c] \in Comment
                             /\ e.comments[c].root = db.comments[c].root
                             /\ e.comments[c].author = db.comments[c].author
                             /\ e.comments[c].key = db.comments[c].key
                        ELSE e.comments[c] = NoRow
  PROVE  Snapshot(e) /\ Grown(e) /\ Rows(e) \subseteq Rows(db)
<1>1. \A c \in Ids : c \in Rows(e) <=> c \in Rows(db)
  BY CommentRow
<1>2. SameRows(e)
  BY <1>1 DEF SameRows, Rows
<1>3. \A p \in e.liked : p[1] \in Rows(db)
  BY DEF Snapshot
<1> QED BY <1>2, <1>3, KeptForm

\* What TakeOut writes.
TakenRow(s, c, row, d) ==
    IF d = c THEN row
    ELSE IF d = row.root /\ d \in Rows(db)
    THEN [db.comments[d] EXCEPT !.replies =
            Write(db.comments[d].replies, s.comments[d].replies, Dec(s.comments[d].replies))]
    ELSE db.comments[d]

\* What is left then.
TakesOut(s, c, row) ==
    LET e == TakeOut(s, c, row)
        f == CommentField(row.author)
    IN  /\ Snapshot(e) /\ Grown(e) /\ Rows(e) \subseteq Rows(db)
        /\ e.likes = db.likes /\ e.liked = db.liked /\ e.video = db.video
        /\ e.counts = [db.counts EXCEPT ![f] = Write(@, s.counts[f], Dec(s.counts[f]))]
        /\ \A d \in Ids : e.comments[d] = TakenRow(s, c, row, d)

\* A comment taken out leaves rows of the same authors, roots and keys.
LEMMA FormTakeOut ==
  ASSUME Typed, NEW r \in Requests, req[r] # Idle, NEW c \in Rows(req[r].db) \cap Rows(db),
         NEW row \in Comment, row.root = db.comments[c].root, row.author = db.comments[c].author,
         row.key = db.comments[c].key
  PROVE  TakesOut(req[r].db, c, row)
<1> DEFINE s == req[r].db
           f == CommentField(row.author)
           e == TakeOut(s, c, row)
           n == Write(db.counts[f], s.counts[f], Dec(s.counts[f]))
           comments == [d \in Ids |-> TakenRow(s, c, row, d)]
<1>1. /\ Snapshot(s) /\ Snapshot(db) /\ Form(s) /\ Form(db) /\ f \in Fields /\ c \in Ids
      /\ s.comments[c].root = db.comments[c].root
  BY RunningRequest DEF Typed, Snapshot, Form, CommentField, Fields, Rows
<1>2. n \in Nat
  BY <1>1 DEF Form, Write, Dec
<1>3. ASSUME NEW d \in Ids
      PROVE  IF d \in Rows(db)
             THEN /\ TakenRow(s, c, row, d) \in Comment
                  /\ TakenRow(s, c, row, d).root = db.comments[d].root
                  /\ TakenRow(s, c, row, d).author = db.comments[d].author
                  /\ TakenRow(s, c, row, d).key = db.comments[d].key
             ELSE TakenRow(s, c, row, d) = NoRow
  <2>1. CASE d = c
    BY <1>1, <2>1 DEF TakenRow
  <2>2. CASE d # c /\ d = row.root /\ d \in Rows(db)
    <3>1. d \in Rows(s)
      BY <1>1, <2>2 DEF Snapshot, Ids
    <3>2. s.comments[d] \in Comment /\ db.comments[d] \in Comment
      BY <1>1, <2>2, <3>1, CommentRow
    <3>3. Write(db.comments[d].replies, s.comments[d].replies, Dec(s.comments[d].replies)) \in Nat
      BY <3>2 DEF Comment, Write, Dec
    <3> QED BY <2>2, <3>2, <3>3 DEF TakenRow, Comment
  <2>3. CASE d # c /\ ~(d = row.root /\ d \in Rows(db))
    <3>1. TakenRow(s, c, row, d) = db.comments[d]
      BY <2>3 DEF TakenRow
    <3> QED BY <1>1, <3>1, CommentRow
  <2> QED BY <2>1, <2>2, <2>3
<1>4. comments \in [Ids -> Comment \cup {NoRow}]
  BY <1>3
<1>5. e = [db EXCEPT !.comments = comments, !.counts = [db.counts EXCEPT ![f] = n]]
  <2>1. e = [db EXCEPT !.comments = comments,
             !.counts[f] = Write(@, s.counts[f], Dec(s.counts[f]))]
    BY Zenon DEF TakeOut, TakenRow
  <2> HIDE DEF e, comments
  <2> QED BY <2>1
<1>6. [db.counts EXCEPT ![f] = n] \in [Fields -> Nat]
  BY <1>1, <1>2 DEF Form
<1>7. \A d \in Ids : comments[d] = TakenRow(s, c, row, d)
  OBVIOUS
<1> DEFINE counts == [db.counts EXCEPT ![f] = n]
<1>8. counts = [db.counts EXCEPT ![f] = Write(@, s.counts[f], Dec(s.counts[f]))]
  OBVIOUS
<1> HIDE DEF comments, n, e, counts, f, s
<1>9. /\ Form(e) /\ e.likes = db.likes /\ e.liked = db.liked /\ e.video = db.video
      /\ e.counts = counts /\ e.comments = comments
  BY <1>1, <1>4, <1>5, <1>6 DEF Form, counts
<1>10. IsFiniteSet(e.likes) /\ IsFiniteSet(e.liked)
  BY <1>1, <1>9 DEF Snapshot
<1>11. Snapshot(e) /\ Grown(e) /\ Rows(e) \subseteq Rows(db)
  BY <1>1, <1>3, <1>7, <1>9, <1>10, KeptRows
<1> QED BY <1>7, <1>8, <1>9, <1>11 DEF e, s, f, TakesOut

\* The same for moderation.
LEMMA FormModerates ==
  ASSUME Typed, NEW r \in Requests, req[r] # Idle, RemoveComment(r) \/ DecideReport(r)
         \/ WithdrawVideo(r)
  PROVE  Snapshot(db') /\ Grown(db') /\ Rows(db') \subseteq Rows(db)
<1> DEFINE s == req[r].db
           c == req[r].op.comment
<1>0. /\ Snapshot(s) /\ Snapshot(db) /\ Form(s) /\ Form(db)
  BY RunningRequest DEF Typed, Snapshot, Form
<1>1. CASE RemoveComment(r)
  <2>1. c \in Rows(s) \cap Rows(db) /\ c \in Ids
    <3>1. req[r].op.kind = "remove" /\ c \in Rows(db)
      BY <1>1 DEF RemoveComment
    <3> QED BY <3>1, RunningRequest DEF Rows
  <2>2. s.comments[c] \in Comment /\ db.comments[c] \in Comment
    BY <1>0, <2>1, CommentRow
  <2> DEFINE row == [db.comments[c] EXCEPT
                !.status = Write(@, s.comments[c].status,
                                 IF req[r].op.hide THEN "hidden" ELSE "removed"),
                !.deleted = @ \/ ~req[r].op.hide]
  <2>3. row \in Comment /\ row.root = db.comments[c].root /\ row.author = db.comments[c].author
        /\ row.key = db.comments[c].key
    BY <2>2 DEF Comment, Write
  <2>4. db' = TakeOut(s, c, row)
    BY <1>1 DEF RemoveComment
  <2> HIDE DEF row
  <2> QED BY <2>1, <2>3, <2>4, FormTakeOut DEF TakesOut
<1>2. CASE DecideReport(r)
  <2>1. c \in Rows(s) \cap Rows(db) /\ c \in Ids
    <3>1. req[r].op.kind = "decide" /\ c \in Rows(db)
      BY <1>2 DEF DecideReport
    <3> QED BY <3>1, RunningRequest DEF Rows
  <2>2. s.comments[c] \in Comment /\ db.comments[c] \in Comment
    BY <1>0, <2>1, CommentRow
  <2> DEFINE row == [db.comments[c] EXCEPT !.status = Write(@, s.comments[c].status, "removed"),
                                           !.deleted = TRUE]
  <2>3. row \in Comment /\ row.root = db.comments[c].root /\ row.author = db.comments[c].author
        /\ row.key = db.comments[c].key
    BY <2>2 DEF Comment, Write
  <2>4. db' = TakeOut(s, c, row) \/ db' = db
    BY <1>2 DEF DecideReport
  <2> HIDE DEF row
  <2>5. Grown(db)
    BY DEF Grown
  <2>6. CASE db' = TakeOut(s, c, row)
    BY <2>1, <2>3, <2>6, FormTakeOut DEF TakesOut
  <2>7. CASE db' = db
    BY <1>0, <2>5, <2>7
  <2> QED BY <2>4, <2>6, <2>7
<1>3. CASE WithdrawVideo(r)
  <2>1. db' = [db EXCEPT !.video = "withdrawn"] /\ db.video # "gone"
    BY <1>3 DEF WithdrawVideo
  <2>2. Form(db') /\ db'.likes = db.likes /\ db'.liked = db.liked /\ db'.comments = db.comments
        /\ db'.video = "withdrawn"
    BY <1>0, <2>1 DEF Form
  <2>3. Rows(db') = Rows(db)
    BY <2>2 DEF Rows
  <2> QED BY <1>0, <2>1, <2>2, <2>3 DEF Snapshot, Form, Grown
<1> QED BY <1>1, <1>2, <1>3

\* A comment made for request r as row c.
Created(r, c) ==
    [author |-> req[r].op.actor, root |-> req[r].op.root, key |-> req[r].op.key,
     status |-> "visible", deleted |-> FALSE, likes |-> 0, replies |-> 0]

CreatedRow(r, c, d) ==
    IF d = c THEN Created(r, c)
    ELSE IF d = req[r].op.root
    THEN [db.comments[d] EXCEPT !.replies = req[r].db.comments[d].replies + 1]
    ELSE db.comments[d]

Creates(r, c) ==
    /\ c \in Ids \ Rows(db) /\ db.video = "shown"
    /\ ~KeyTaken(req[r].op.actor, req[r].op.key)
    /\ req[r].op.actor \in Seeds => req[r].op.root = 0
    /\ req[r].op.root # 0 => req[r].op.root \in Rows(req[r].db) /\ req[r].op.root \in Rows(db)
    /\ db'.video = db.video /\ db'.likes = db.likes /\ db'.liked = db.liked
    /\ Form(db')
    /\ \A d \in Ids : db'.comments[d] = CreatedRow(r, c, d)
    /\ db'.counts = [db.counts EXCEPT ![CommentField(req[r].op.actor)] = @ + 1]

\* A comment is made as one new row, or nothing is written.
LEMMA CreatesOne ==
  ASSUME Typed, NEW r \in Requests, req[r] # Idle, CreateComment(r)
  PROVE  db' = db \/ \E c \in Ids \ Rows(db) : Creates(r, c)
<1> DEFINE s == req[r].db
           op == req[r].op
           f == CommentField(op.actor)
<1>0. /\ Snapshot(s) /\ Snapshot(db) /\ Form(s) /\ Form(db) /\ op \in Ops /\ op.kind = "comment"
      /\ db.video # "gone" => Rows(s) \subseteq Rows(db)
  BY RunningRequest DEF Typed, Snapshot, Form, CreateComment
<1>1. op.actor \in Users /\ op.root \in 0..MaxComments /\ op.key \in Keys /\ f \in Fields
  BY <1>0 DEF Ops, CommentField, Fields
<1>2. SUFFICES ASSUME db' # db
               PROVE  \E c \in Ids \ Rows(db) : Creates(r, c)
  OBVIOUS
<1>3. /\ db.video = "shown" /\ ~KeyTaken(op.actor, op.key)
      /\ op.actor \in Seeds => op.root = 0
      /\ op.root # 0 => op.root \in Rows(s)
  BY <1>2 DEF CreateComment
<1>4. PICK c \in Ids \ Rows(db) : \E notes :
         db' = [db EXCEPT !.comments = [d \in Ids |-> CreatedRow(r, c, d)],
                          !.counts[f] = db.counts[f] + 1, !.notes = notes]
  BY <1>2, Zenon DEF CreateComment, CreatedRow, Created, LockedCounts
<1>5. op.root # 0 => op.root \in Rows(db)
  BY <1>0, <1>3
<1>6. ASSUME NEW d \in Ids PROVE CreatedRow(r, c, d) \in Comment \cup {NoRow}
  <2>1. CASE d = c
    BY <1>1, <2>1 DEF CreatedRow, Created, Comment
  <2>2. CASE d # c /\ d = op.root
    <3>1. d \in Rows(s) /\ d \in Rows(db)
      BY <1>3, <1>5, <2>2 DEF Ids
    <3>2. s.comments[d] \in Comment /\ db.comments[d] \in Comment
      BY <1>0, <3>1, CommentRow
    <3> QED BY <2>2, <3>2 DEF CreatedRow, Comment
  <2>3. CASE d # c /\ d # op.root
    BY <1>0, <2>3 DEF CreatedRow, Form
  <2> QED BY <2>1, <2>2, <2>3
<1> DEFINE comments == [d \in Ids |-> CreatedRow(r, c, d)]
           counts == [db.counts EXCEPT ![f] = @ + 1]
<1>7. comments \in [Ids -> Comment \cup {NoRow}]
      /\ \A d \in Ids : comments[d] = CreatedRow(r, c, d)
  BY <1>6
<1>8. counts \in [Fields -> Nat]
  BY <1>0, <1>1 DEF Form
<1>9. \E notes : db' = [db EXCEPT !.comments = comments, !.counts = counts, !.notes = notes]
  <2> HIDE DEF comments
  <2>1. PICK notes : db' = [db EXCEPT !.comments = comments, !.counts[f] = db.counts[f] + 1,
                                      !.notes = notes]
    BY <1>4 DEF comments
  <2> QED BY <2>1
<1> HIDE DEF comments, counts
<1>10. /\ Form(db') /\ db'.comments = comments /\ db'.counts = counts
       /\ db'.video = db.video /\ db'.likes = db.likes /\ db'.liked = db.liked
  BY <1>0, <1>7, <1>8, <1>9 DEF Form
<1> QED BY <1>3, <1>5, <1>7, <1>10 DEF Creates, counts

\* The rows after it.
LEMMA CreatesRows ==
  ASSUME Typed, NEW r \in Requests, req[r] # Idle, req[r].op \in Ops, req[r].op.kind = "comment",
         NEW c \in Ids \ Rows(db), Creates(r, c)
  PROVE  /\ Rows(db') = Rows(db) \cup {c}
         /\ db'.comments[c] = Created(r, c) /\ Created(r, c) \in Comment
         /\ \A d \in Rows(db) : /\ db'.comments[d] \in Comment /\ d # c
                                /\ db'.comments[d].author = db.comments[d].author
                                /\ db'.comments[d].root = db.comments[d].root
                                /\ db'.comments[d].key = db.comments[d].key
                                /\ db'.comments[d].status = db.comments[d].status
                                /\ db'.comments[d].deleted = db.comments[d].deleted
<1>0. Form(db) /\ Form(req[r].db) /\ c \in Ids
  BY RunningRequest DEF Typed, Snapshot, Form
<1>1. Created(r, c) \in Comment
  <2>1. req[r].op.actor \in Users /\ req[r].op.root \in 0..MaxComments /\ req[r].op.key \in Keys
    BY DEF Ops
  <2> QED BY <2>1 DEF Created, Comment
<1>2. db'.comments[c] = Created(r, c)
  BY <1>0 DEF Creates, CreatedRow
<1>3. ASSUME NEW d \in Rows(db)
      PROVE  /\ db'.comments[d] \in Comment /\ d # c
             /\ db'.comments[d].author = db.comments[d].author
             /\ db'.comments[d].root = db.comments[d].root
             /\ db'.comments[d].key = db.comments[d].key
             /\ db'.comments[d].status = db.comments[d].status
             /\ db'.comments[d].deleted = db.comments[d].deleted
  <2>1. d \in Ids /\ d # c /\ db.comments[d] \in Comment
    BY <1>0, CommentRow DEF Rows
  <2>2. CASE d = req[r].op.root
    <3>1. req[r].db.comments[d] \in Comment
      BY <1>0, <2>1, <2>2, CommentRow DEF Creates, Ids
    <3>2. db'.comments[d] = [db.comments[d] EXCEPT !.replies = req[r].db.comments[d].replies + 1]
      BY <2>1, <2>2 DEF Creates, CreatedRow
    <3> QED BY <2>1, <3>1, <3>2 DEF Comment
  <2>3. CASE d # req[r].op.root
    BY <2>1, <2>3 DEF Creates, CreatedRow
  <2> QED BY <2>1, <2>2, <2>3
<1>4. ASSUME NEW d \in Ids PROVE d \in Rows(db') <=> d \in Rows(db) \cup {c}
  <2>1. Form(db')
    BY DEF Creates
  <2>2. CASE d \in Rows(db) \cup {c}
    BY <1>1, <1>2, <1>3, <2>1, <2>2, CommentRow
  <2>3. CASE d \notin Rows(db) \cup {c}
    <3>1. db'.comments[d] = db.comments[d]
      <4>1. d \notin Rows(db) /\ d # req[r].op.root /\ d # c
        BY <2>3, EngagementAssumption DEF Creates, Ids
      <4> QED BY <4>1 DEF Creates, CreatedRow
    <3> QED BY <1>0, <2>1, <2>3, <3>1, CommentRow
  <2> QED BY <2>2, <2>3
<1>5. Rows(db') = Rows(db) \cup {c}
  BY <1>0, <1>4 DEF Rows
<1> QED BY <1>1, <1>2, <1>3, <1>5

\* The same for a new comment.
LEMMA FormCreates ==
  ASSUME Typed, NEW r \in Requests, req[r] # Idle, CreateComment(r)
  PROVE  Snapshot(db') /\ Grown(db')
<1>0. Snapshot(db) /\ req[r].op \in Ops /\ req[r].op.kind = "comment"
  BY RunningRequest DEF Typed, CreateComment
<1>1. CASE db' = db
  BY <1>0, <1>1 DEF Grown
<1>2. ASSUME NEW c \in Ids \ Rows(db), Creates(r, c) PROVE Snapshot(db') /\ Grown(db')
  <2>1. /\ Rows(db') = Rows(db) \cup {c}
        /\ db'.comments[c] = Created(r, c)
        /\ \A d \in Rows(db) : /\ d # c /\ db'.comments[d].author = db.comments[d].author
                               /\ db'.comments[d].root = db.comments[d].root
                               /\ db'.comments[d].key = db.comments[d].key
    BY <1>0, <1>2, CreatesRows
  <2>2. Created(r, c).root \in Rows(db) \cup {0}
        /\ (Created(r, c).author \in Seeds => Created(r, c).root = 0)
    BY <1>0, <1>2 DEF Creates, Created
  <2>3. db'.liked = db.liked /\ db'.likes = db.likes /\ Form(db') /\ db.video = "shown"
    BY <1>2 DEF Creates
  <2> QED BY <1>0, <2>1, <2>2, <2>3 DEF Snapshot, Form, Grown
<1> QED BY <1>1, <1>2, CreatesOne

-----------------------------------------------------------------------------
\* Sets of comments, and of what a state of the rows holds, are finite.
LEMMA FiniteIds ==
  ASSUME NEW S \in SUBSET Ids
  PROVE  IsFiniteSet(S) /\ Cardinality(S) \in Nat
<1>1. IsFiniteSet(Ids)
  BY EngagementAssumption, FS_Interval DEF Ids
<1> QED BY <1>1, FS_Subset, FS_CardinalityType

\* A part of a finite set is finite.
LEMMA FinitePart ==
  ASSUME NEW S, IsFiniteSet(S), NEW T, T \subseteq S
  PROVE  IsFiniteSet(T) /\ Cardinality(T) \in Nat
BY FS_Subset, FS_CardinalityType

\* The counts are numbers.
LEMMA CountsNat ==
  ASSUME NEW d, Snapshot(d)
  PROVE  /\ Counts(d) \in [Fields -> Nat]
         /\ \A c \in Ids : CommentLikes(d, c) \in Nat /\ Replies(d, c) \in Nat
<1>1. ASSUME NEW seed PROVE Likers(d, seed) \in Nat /\ Counting(d, seed) \in Nat
  <2>1. Likers(d, seed) \in Nat
    BY FinitePart DEF Snapshot, Likers
  <2>2. {c \in Rows(d) : Visible(d, c) /\ (d.comments[c].author \in Seeds) = seed} \in SUBSET Ids
    BY DEF Rows
  <2> QED BY <2>1, <2>2, FiniteIds DEF Counting
<1>2. ASSUME NEW c \in Ids PROVE CommentLikes(d, c) \in Nat /\ Replies(d, c) \in Nat
  <2>1. CommentLikes(d, c) \in Nat
    BY FinitePart DEF Snapshot, CommentLikes
  <2>2. {e \in Rows(d) : d.comments[e].root = c /\ Visible(d, e)
         /\ d.comments[e].author \notin Seeds} \in SUBSET Ids
    BY DEF Rows
  <2> QED BY <2>1, <2>2, FiniteIds DEF Replies
<1>3. Counts(d) \in [Fields -> Nat]
  <2>1. Likers(d, FALSE) \in Nat /\ Likers(d, TRUE) \in Nat
        /\ Counting(d, FALSE) \in Nat /\ Counting(d, TRUE) \in Nat
    BY <1>1
  <2>2. \A k, l, m, n \in Nat :
           [likes |-> k, seedLikes |-> l, comments |-> m, seedComments |-> n] \in [Fields -> Nat]
    BY DEF Fields
  <2> QED BY <2>1, <2>2, Zenon DEF Counts
<1> QED BY <1>2, <1>3

\* What a deletion does to the rows that stay.
Deleted(r, u) ==
    /\ Form(db') /\ db'.video = db.video
    /\ db'.likes = db.likes \ (req[r].db.likes \cap {u})
    /\ db'.liked = db.liked \ OwnCommentLikes(req[r].db, u)
    /\ \A c \in Ids : db'.comments[c] =
          IF c \notin Rows(req[r].db) \/ c \notin Rows(db) THEN db.comments[c]
          ELSE Without(req[r].db, u, c)
    /\ LET s == req[r].db
           counts == [db.counts EXCEPT ![LikeField(u)] =
                         Write(@, s.counts[LikeField(u)],
                               Lower(s.counts[LikeField(u)], IF u \in s.likes THEN 1 ELSE 0))]
       IN  db'.counts = [counts EXCEPT ![CommentField(u)] =
                            Write(db.counts[CommentField(u)], s.counts[CommentField(u)],
                                  Lower(s.counts[CommentField(u)], Cardinality(Seen(s, u))))]

\* A comment without what an account had there is a comment of the same author and root.
\* What Without changes in a row.
LosesRow(s, u, c) ==
    LET new == Without(s, u, c)
        now == db.comments[c]
        row == s.comments[c]
    IN  /\ new \in Comment /\ new.root = now.root /\ new.author = now.author /\ new.key = now.key
        /\ new.status = IF c \in Own(s, u) THEN Write(now.status, row.status, "removed")
                        ELSE now.status
        /\ new.deleted <=> (now.deleted \/ c \in Own(s, u))
        /\ new.likes = Write(now.likes, row.likes,
                             Lower(row.likes, IF <<c, u>> \in s.liked THEN 1 ELSE 0))
        /\ new.replies = Write(now.replies, row.replies,
                               Lower(row.replies,
                                     Cardinality({d \in Seen(s, u) : s.comments[d].root = c})))

LEMMA WithoutRow ==
  ASSUME Typed, NEW r \in Requests, req[r] # Idle, NEW u, NEW c \in Rows(req[r].db) \cap Rows(db)
  PROVE  LosesRow(req[r].db, u, c)
<1> DEFINE s == req[r].db
           now == db.comments[c]
           row == s.comments[c]
           read == Cardinality({d \in Seen(s, u) : s.comments[d].root = c})
           mine == IF <<c, u>> \in s.liked THEN 1 ELSE 0
           likes == Write(now.likes, row.likes, Lower(row.likes, mine))
           replies == Write(now.replies, row.replies, Lower(row.replies, read))
           status == IF c \in Own(s, u) THEN Write(now.status, row.status, "removed")
             ELSE now.status
           deleted == now.deleted \/ c \in Own(s, u)
<1>1. now \in Comment /\ row \in Comment
  BY RunningRequest, CommentRow DEF Typed, Snapshot, Form, Rows
<1>2. read \in Nat
  <2>1. {d \in Seen(s, u) : s.comments[d].root = c} \in SUBSET Ids
    BY DEF Seen, Own, Rows
  <2> QED BY <2>1, FiniteIds
<1>3. mine \in Nat
  OBVIOUS
<1> HIDE DEF read, mine
<1>4. likes \in Nat /\ replies \in Nat /\ status \in {"visible", "hidden", "removed"}
      /\ deleted \in BOOLEAN
  BY <1>1, <1>2, <1>3 DEF Comment, Write, Lower
<1>5. Without(s, u, c) = [now EXCEPT !.likes = likes, !.replies = replies, !.status = status,
                                     !.deleted = deleted]
  BY DEF Without, read, mine
<1> DEFINE new == Without(s, u, c)
<1> HIDE DEF likes, replies, status, deleted, now, s, row, new
<1>6. /\ new \in Comment /\ new.root = now.root /\ new.author = now.author /\ new.key = now.key
      /\ new.status = status /\ new.deleted = deleted /\ new.likes = likes
         /\ new.replies = replies
  BY <1>1, <1>4, <1>5 DEF Comment, new
<1> QED BY <1>6 DEF LosesRow, likes, replies, status, deleted, now, s, row, new, read, mine

\* The same, without what changes.
LEMMA WithoutKeeps ==
  ASSUME Typed, NEW r \in Requests, req[r] # Idle, NEW u, NEW c \in Rows(req[r].db) \cap Rows(db)
  PROVE  /\ Without(req[r].db, u, c) \in Comment
         /\ Without(req[r].db, u, c).root = db.comments[c].root
         /\ Without(req[r].db, u, c).author = db.comments[c].author
         /\ Without(req[r].db, u, c).key = db.comments[c].key
<1>1. LosesRow(req[r].db, u, c)
  BY WithoutRow
<1> QED BY <1>1, Zenon DEF LosesRow

\* A deletion ends the video, or takes out what the account had there.
LEMMA DeletesOne ==
  ASSUME Typed, NEW r \in Requests, req[r] # Idle, DeleteAccount(r)
  PROVE  IF req[r].op.actor = Owner
         THEN /\ Form(db') /\ db'.video = "gone" /\ db'.likes = {} /\ db'.liked = {}
              /\ db'.comments = [c \in Ids |-> NoRow]
         ELSE Deleted(r, req[r].op.actor)
<1> DEFINE s == req[r].db
           u == req[r].op.actor
           lf == LikeField(u)
           cf == CommentField(u)
           less == IF u \in s.likes THEN 1 ELSE 0
           seen == Cardinality(Seen(s, u))
           first == [db.counts EXCEPT ![lf] = Write(@, s.counts[lf], Lower(s.counts[lf], less))]
           counts == [first EXCEPT ![cf] = Write(db.counts[cf], s.counts[cf],
                                                 Lower(s.counts[cf], seen))]
           comments == [c \in Ids |-> IF c \notin Rows(s) \/ c \notin Rows(db) THEN db.comments[c]
                                      ELSE Without(s, u, c)]
<1>0. /\ Snapshot(s) /\ Form(db) /\ Form(s)
  BY RunningRequest DEF Typed, Snapshot, Form
<1>1. CASE u = Owner
  <2> DEFINE none == [c \in Ids |-> NoRow]
  <2>1. none \in [Ids -> Comment \cup {NoRow}]
    OBVIOUS
  <2>2. db' = [db EXCEPT !.users = @ \ {u}, !.video = "gone", !.likes = {}, !.liked = {},
                         !.notes = {}, !.comments = none]
    BY <1>1 DEF DeleteAccount
  <2> HIDE DEF none, u
  <2>3. Form(db') /\ db'.video = "gone" /\ db'.likes = {} /\ db'.liked = {} /\ db'.comments = none
    BY <1>0, <2>1, <2>2 DEF Form
  <2> QED BY <1>1, <2>3 DEF u, none
<1>2. CASE u # Owner
  <2>1. db' = [db EXCEPT !.users = @ \ {u}, !.notes = {n \in db.notes : n[1] # u /\ n[2] # u},
                         !.likes = @ \ (s.likes \cap {u}), !.liked = @ \ OwnCommentLikes(s, u),
                         !.comments = comments,
                         !.counts[lf] = Write(@, s.counts[lf], Lower(s.counts[lf], less)),
                         !.counts[cf] = Write(@, s.counts[cf], Lower(s.counts[cf], seen))]
    BY <1>2, Zenon DEF DeleteAccount
  <2>2. comments \in [Ids -> Comment \cup {NoRow}]
    <3> SUFFICES ASSUME NEW c \in Ids PROVE comments[c] \in Comment \cup {NoRow}
      OBVIOUS
    <3>1. CASE c \in Rows(s) \cap Rows(db)
      BY <3>1, WithoutKeeps
    <3>2. CASE c \notin Rows(s) \cap Rows(db)
      BY <1>0, <3>2 DEF Form
    <3> QED BY <3>1, <3>2
  <2>3. counts \in [Fields -> Nat]
    <3>1. seen \in Nat
      <4>1. Seen(s, u) \in SUBSET Ids
        BY DEF Seen, Own, Rows
      <4> QED BY <4>1, FiniteIds
    <3>2. less \in Nat /\ lf \in Fields /\ cf \in Fields
      BY DEF LikeField, CommentField, Fields
    <3> HIDE DEF seen, less, lf, cf, s
    <3>3. /\ Write(db.counts[lf], s.counts[lf], Lower(s.counts[lf], less)) \in Nat
      BY <1>0, <3>2 DEF Form, Write, Lower
    <3>4. first \in [Fields -> Nat]
      BY <1>0, <3>3 DEF Form
    <3> HIDE DEF first
    <3>5. Write(db.counts[cf], s.counts[cf], Lower(s.counts[cf], seen)) \in Nat
      BY <1>0, <3>1, <3>2 DEF Form, Write, Lower
    <3> QED BY <3>4, <3>5
  <2> HIDE DEF comments, s, u, lf, cf, less, seen
  <2> DEFINE mid == [db EXCEPT !.users = @ \ {u}, !.notes = {n \in db.notes : n[1] # u /\ n[2] # u},
                         !.likes = @ \ (s.likes \cap {u}), !.liked = @ \ OwnCommentLikes(s, u),
                         !.comments = comments,
                         !.counts[lf] = Write(@, s.counts[lf], Lower(s.counts[lf], less))]
  <2>8. db' = [mid EXCEPT !.counts = [mid.counts EXCEPT ![cf] =
                                         Write(db.counts[cf], s.counts[cf],
                                               Lower(s.counts[cf], seen))]]
    BY <2>1, Zenon
  <2>9. mid = [db EXCEPT !.users = @ \ {u}, !.notes = {n \in db.notes : n[1] # u /\ n[2] # u},
                         !.likes = @ \ (s.likes \cap {u}), !.liked = @ \ OwnCommentLikes(s, u),
                         !.comments = comments, !.counts = first]
    <3> HIDE DEF first
    <3>1. first = [db.counts EXCEPT ![lf] = Write(@, s.counts[lf], Lower(s.counts[lf], less))]
      BY DEF first
    <3> QED BY <1>0, <3>1 DEF Form
  <2> HIDE DEF mid, first
  <2>10. /\ mid \in [users : SUBSET Users, video : {"shown", "withdrawn", "gone"},
                     likes : SUBSET Users, comments : [Ids -> Comment \cup {NoRow}],
                     liked : SUBSET (Ids \X Users), notes : {mid.notes}, counts : {first}]
         /\ mid.counts = first /\ mid.video = db.video
            /\ mid.likes = db.likes \ (s.likes \cap {u})
         /\ mid.liked = db.liked \ OwnCommentLikes(s, u) /\ mid.comments = comments
    BY <1>0, <2>2, <2>9 DEF Form
  <2>4. db' = [mid EXCEPT !.counts = counts]
    BY <2>8, <2>10
  <2> HIDE DEF counts
  <2>5. /\ Form(db') /\ db'.video = db.video /\ db'.likes = db.likes \ (s.likes \cap {u})
        /\ db'.liked = db.liked \ OwnCommentLikes(s, u) /\ db'.comments = comments
        /\ db'.counts = counts
    BY <2>3, <2>4, <2>10 DEF Form
  <2>6. \A c \in Ids : db'.comments[c] =
            IF c \notin Rows(s) \/ c \notin Rows(db) THEN db.comments[c] ELSE Without(s, u, c)
    BY <2>5 DEF comments
  <2>7. Deleted(r, u)
    BY <2>5, <2>6 DEF Deleted, counts, first, s, lf, cf, less, seen
  <2> QED BY <1>2, <2>7 DEF u
<1> QED BY <1>1, <1>2

\* The same for a deletion.
LEMMA FormDeletes ==
  ASSUME Typed, NEW r \in Requests, req[r] # Idle, DeleteAccount(r)
  PROVE  Snapshot(db') /\ Grown(db') /\ Rows(db') \subseteq Rows(db)
<1> DEFINE s == req[r].db
           u == req[r].op.actor
<1>0. Snapshot(db) /\ Form(db)
  BY DEF Typed, Snapshot, Form
<1>1. CASE u = Owner
  <2>1. Form(db') /\ db'.video = "gone" /\ db'.likes = {} /\ db'.liked = {}
        /\ db'.comments = [c \in Ids |-> NoRow]
    BY <1>1, DeletesOne
  <2>2. Rows(db') = {}
    BY <2>1 DEF Rows
  <2> QED BY <2>1, <2>2, FS_EmptySet DEF Snapshot, Form, Grown
<1>2. CASE u # Owner
  <2>1. Deleted(r, u)
    BY <1>2, DeletesOne
  <2> HIDE DEF u
  <2>2. /\ Form(db') /\ db'.video = db.video /\ db'.likes \subseteq db.likes
        /\ db'.liked \subseteq db.liked
    BY <2>1 DEF Deleted
  <2>3. IsFiniteSet(db'.likes) /\ IsFiniteSet(db'.liked)
    BY <1>0, <2>2, FinitePart DEF Snapshot
  <2>4. ASSUME NEW c \in Ids
        PROVE  IF c \in Rows(db)
               THEN /\ db'.comments[c] \in Comment
                    /\ db'.comments[c].root = db.comments[c].root
                    /\ db'.comments[c].author = db.comments[c].author
                    /\ db'.comments[c].key = db.comments[c].key
               ELSE db'.comments[c] = NoRow
    <3>1. CASE c \in Rows(s) /\ c \in Rows(db)
      <4>1. db'.comments[c] = Without(req[r].db, u, c)
        BY <2>1, <3>1 DEF Deleted
      <4>2. /\ Without(req[r].db, u, c) \in Comment
            /\ Without(req[r].db, u, c).root = db.comments[c].root
            /\ Without(req[r].db, u, c).author = db.comments[c].author
            /\ Without(req[r].db, u, c).key = db.comments[c].key
        <5>1. c \in Rows(req[r].db) \cap Rows(db)
          BY <3>1
        <5> QED BY <5>1, WithoutKeeps
      <4> QED BY <3>1, <4>1, <4>2
    <3>2. CASE c \notin Rows(s) \/ c \notin Rows(db)
      BY <1>0, <2>1, <3>2, CommentRow DEF Deleted
    <3> QED BY <3>1, <3>2
  <2> QED BY <1>0, <2>2, <2>3, <2>4, KeptRows
<1> QED BY <1>1, <1>2

\* What the reconciliation writes.
CountedRow(s, c) ==
    [db.comments[c] EXCEPT
        !.likes = Write(db.comments[c].likes, s.comments[c].likes, CommentLikes(s, c)),
        !.replies = Write(db.comments[c].replies, s.comments[c].replies, Replies(s, c))]

\* A reconciliation writes the counts of the snapshot, and nothing else.
LEMMA ReconcilesAll ==
  ASSUME Typed, NEW r \in Requests, req[r] # Idle, Reconcile(r)
  PROVE  /\ Form(db') /\ db'.video = db.video /\ db'.likes = db.likes /\ db'.liked = db.liked
         /\ \A c \in Ids : db'.comments[c] =
               IF c \notin Rows(req[r].db) \/ c \notin Rows(db) THEN db.comments[c]
               ELSE CountedRow(req[r].db, c)
         /\ \A c \in Ids : IF c \in Rows(db)
                           THEN /\ db'.comments[c] \in Comment
                                /\ db'.comments[c].root = db.comments[c].root
                                /\ db'.comments[c].author = db.comments[c].author
                                /\ db'.comments[c].key = db.comments[c].key
                           ELSE db'.comments[c] = NoRow
         /\ db.video # "gone" /\ req[r].db.video # "gone" =>
               \A f \in Fields : db'.counts[f] =
                  Write(db.counts[f], req[r].db.counts[f], Counts(req[r].db)[f])
<1> DEFINE s == req[r].db
           comments == [c \in Ids |-> IF c \notin Rows(s) \/ c \notin Rows(db) THEN db.comments[c]
                                      ELSE CountedRow(s, c)]
           counts == IF db.video = "gone" \/ s.video = "gone" THEN db.counts ELSE
                     [f \in DOMAIN db.counts |-> Write(db.counts[f], s.counts[f], Counts(s)[f])]
<1>0. /\ Snapshot(s) /\ Form(db) /\ Form(s)
  BY RunningRequest DEF Typed, Snapshot, Form
<1>1. db' = [db EXCEPT !.counts = counts, !.comments = comments]
  BY Zenon DEF Reconcile, CountedRow
<1>2. counts \in [Fields -> Nat]
  <2>1. \A f \in Fields : Counts(s)[f] \in Nat
    BY <1>0, CountsNat
  <2> QED BY <1>0, <2>1 DEF Form, Write
<1>3. ASSUME NEW c \in Rows(s) \cap Rows(db)
      PROVE  /\ CountedRow(s, c) \in Comment
             /\ CountedRow(s, c).root = db.comments[c].root
             /\ CountedRow(s, c).author = db.comments[c].author
             /\ CountedRow(s, c).key = db.comments[c].key
  <2>1. db.comments[c] \in Comment /\ CommentLikes(s, c) \in Nat /\ Replies(s, c) \in Nat
    BY <1>0, CommentRow, CountsNat DEF Rows
  <2>2. /\ Write(db.comments[c].likes, s.comments[c].likes, CommentLikes(s, c)) \in Nat
        /\ Write(db.comments[c].replies, s.comments[c].replies, Replies(s, c)) \in Nat
    BY <2>1 DEF Write, Comment
  <2> QED BY <2>1, <2>2 DEF CountedRow, Comment
<1>4. \A c \in Ids : comments[c] = IF c \notin Rows(s) \/ c \notin Rows(db) THEN db.comments[c]
                                   ELSE CountedRow(s, c)
  OBVIOUS
<1>5. comments \in [Ids -> Comment \cup {NoRow}]
  BY <1>0, <1>3 DEF Form
<1>6. db.video # "gone" /\ s.video # "gone" =>
         \A f \in Fields : counts[f] = Write(db.counts[f], s.counts[f], Counts(s)[f])
  BY <1>0 DEF Form
<1> HIDE DEF comments, counts, s
<1>7. /\ Form(db') /\ db'.video = db.video /\ db'.likes = db.likes /\ db'.liked = db.liked
      /\ db'.comments = comments /\ db'.counts = counts
  BY <1>0, <1>1, <1>2, <1>5 DEF Form
<1>8. \A c \in Ids : IF c \in Rows(db)
                     THEN /\ db'.comments[c] \in Comment
                          /\ db'.comments[c].root = db.comments[c].root
                          /\ db'.comments[c].author = db.comments[c].author
                          /\ db'.comments[c].key = db.comments[c].key
                     ELSE db'.comments[c] = NoRow
  BY <1>0, <1>3, <1>4, <1>7, CommentRow
<1> QED BY <1>4, <1>6, <1>7, <1>8 DEF s

\* The same for a reconciliation.
LEMMA FormReconciles ==
  ASSUME Typed, NEW r \in Requests, req[r] # Idle, Reconcile(r)
  PROVE  Snapshot(db') /\ Grown(db') /\ Rows(db') \subseteq Rows(db)
<1>0. Snapshot(db)
  BY DEF Typed
<1>1. /\ Form(db') /\ db'.video = db.video /\ db'.likes = db.likes /\ db'.liked = db.liked
      /\ \A c \in Ids : IF c \in Rows(db)
                        THEN /\ db'.comments[c] \in Comment
                             /\ db'.comments[c].root = db.comments[c].root
                             /\ db'.comments[c].author = db.comments[c].author
                             /\ db'.comments[c].key = db.comments[c].key
                        ELSE db'.comments[c] = NoRow
  BY ReconcilesAll
<1>2. IsFiniteSet(db'.likes) /\ IsFiniteSet(db'.liked)
  BY <1>0, <1>1 DEF Snapshot
<1> QED BY <1>0, <1>1, <1>2, KeptRows

\* Every step keeps the rows and the requests in form.
LEMMA TypedNext == Typed /\ [Next]_vars => Typed'
<1> SUFFICES ASSUME Typed, [Next]_vars PROVE Typed'
  OBVIOUS
<1>1. ASSUME NEW r \in Requests, NEW op \in Ops, Begin(r, op) PROVE Typed'
  BY <1>1, TypedBegin
<1>2. ASSUME NEW r \in Requests, req[r] # Idle,
             \/ LikeVideo(r) \/ CreateComment(r) \/ LikeComment(r) \/ RemoveComment(r)
             \/ DecideReport(r) \/ WithdrawVideo(r) \/ DeleteAccount(r) \/ Reconcile(r)
      PROVE  Typed'
  <2>1. Snapshot(db') /\ Grown(db')
    BY <1>2, FormLikes, FormCreates, FormCommentLikes, FormModerates, FormDeletes, FormReconciles
  <2>2. req' = [req EXCEPT ![r] = Idle] /\ UNCHANGED begun
    BY <1>2 DEF LikeVideo, CreateComment, LikeComment, RemoveComment, DecideReport, WithdrawVideo,
                DeleteAccount, Reconcile, Counted, Done
  <2>3. exact' \in BOOLEAN
    <3>1. exact \in BOOLEAN /\ req[r].alone \in BOOLEAN
      BY <1>2, RunningRequest DEF Typed
    <3> QED BY <1>2, <3>1 DEF LikeVideo, CreateComment, LikeComment, RemoveComment, DecideReport,
                WithdrawVideo, DeleteAccount, Reconcile, Counted
  <2> QED BY <1>2, <2>1, <2>2, <2>3, TypedEnd
<1>3. ASSUME NEW r \in Requests, Refuse(r) PROVE Typed'
  <2>1. /\ req[r] # Idle /\ req' = [req EXCEPT ![r] = Idle] /\ UNCHANGED <<db, begun, exact>>
    BY <1>3 DEF Refuse, Running
  <2>2. Snapshot(db) /\ Grown(db) /\ exact \in BOOLEAN
    BY DEF Typed, Grown
  <2> QED BY <2>1, <2>2, TypedEnd
<1>4. CASE UNCHANGED vars
  BY <1>4 DEF vars, Typed, Request
<1> QED BY <1>1, <1>2, <1>3, <1>4 DEF Next, Running

\* So they are at the start.
LEMMA TypedInit == Init => Typed
<1> SUFFICES ASSUME Init PROVE Typed
  OBVIOUS
<1>1. Form(db) /\ db.likes = {} /\ db.liked = {} /\ Rows(db) = {}
  BY DEF Init, Form, Fields, Rows
<1>2. Snapshot(db)
  BY <1>1, FS_EmptySet DEF Snapshot, Form
<1>3. req \in [Requests -> {req[r] : r \in Requests}] /\ \A r \in Requests : Request(r)
  BY DEF Init, Request
<1> QED BY <1>2, <1>3, EngagementAssumption DEF Init, Typed

\* The types of the component follow.
LEMMA TypesHold == Typed => TypeOK
BY DEF Typed, Snapshot, TypeOK, Fields

-----------------------------------------------------------------------------
\* An author uses a key once.
OneKey ==
    \A c, d \in Rows(db) :
        /\ db.comments[c].author = db.comments[d].author
        /\ db.comments[c].key = db.comments[d].key /\ db.comments[c].key # "none"
        => c = d

\* No step makes a second comment of an author and a key.
LEMMA KeyNext == Typed /\ OneKey /\ [Next]_vars => OneKey'
<1> SUFFICES ASSUME Typed, OneKey, [Next]_vars PROVE OneKey'
  OBVIOUS
<1>1. CASE UNCHANGED db
  BY <1>1 DEF OneKey, Rows
<1>2. ASSUME NEW r \in Requests, req[r] # Idle,
             \/ LikeVideo(r) \/ LikeComment(r) \/ RemoveComment(r) \/ DecideReport(r)
             \/ WithdrawVideo(r) \/ DeleteAccount(r) \/ Reconcile(r)
      PROVE  OneKey'
  <2>1. Grown(db') /\ Rows(db') \subseteq Rows(db)
    BY <1>2, FormLikes, FormCommentLikes, FormModerates, FormDeletes, FormReconciles
  <2>2. \A c \in Rows(db') : /\ c \in Rows(db) /\ db'.comments[c].author = db.comments[c].author
                             /\ db'.comments[c].key = db.comments[c].key
    BY <2>1 DEF Grown
  <2> QED BY <2>2 DEF OneKey
<1>3. ASSUME NEW r \in Requests, req[r] # Idle, CreateComment(r) PROVE OneKey'
  <2>1. req[r].op \in Ops /\ req[r].op.kind = "comment"
    BY <1>3, RunningRequest DEF CreateComment
  <2>2. ASSUME NEW c \in Ids \ Rows(db), Creates(r, c) PROVE OneKey'
    <3>1. /\ Rows(db') = Rows(db) \cup {c}
          /\ db'.comments[c] = Created(r, c)
          /\ \A d \in Rows(db) : /\ db'.comments[d].author = db.comments[d].author
                                 /\ db'.comments[d].key = db.comments[d].key
      BY <1>3, <2>1, <2>2, CreatesRows
    <3>2. ASSUME NEW d \in Rows(db), db.comments[d].author = req[r].op.actor,
                 db.comments[d].key = req[r].op.key, req[r].op.key # "none"
          PROVE  FALSE
      BY <2>2, <3>2 DEF Creates, KeyTaken, Keyed
    <3>3. Created(r, c).author = req[r].op.actor /\ Created(r, c).key = req[r].op.key
      BY DEF Created
    <3> QED BY <3>1, <3>2, <3>3 DEF OneKey
  <2> QED BY <1>1, <1>3, <2>2, CreatesOne
<1>4. CASE \E r \in Requests : (\E op \in Ops : Begin(r, op)) \/ Refuse(r)
  BY <1>1, <1>4 DEF Begin, Refuse
<1>5. CASE UNCHANGED vars
  BY <1>1, <1>5 DEF vars
<1> QED BY <1>2, <1>3, <1>4, <1>5 DEF Next, Running

\* Two comments of an account and a key would be one.
LEMMA KeyedOne == Typed /\ OneKey => KeyedCommentIsOne
<1> SUFFICES ASSUME Typed, OneKey, NEW u \in Users
             PROVE  Cardinality(Keyed(db, u, "key")) <= 1
  BY DEF KeyedCommentIsOne
<1> DEFINE S == Keyed(db, u, "key")
<1>1. \A c, d \in S : c = d
  BY DEF OneKey, Keyed
<1>2. S = {} \/ \E c : S = {c}
  BY <1>1
<1> HIDE DEF S
<1>3. CASE S = {}
  <2>1. Cardinality(S) = 0
    BY <1>3, FS_EmptySet
  <2> QED BY <2>1 DEF S
<1>4. ASSUME NEW c, S = {c} PROVE Cardinality(S) <= 1
  <2>1. Cardinality({c}) = 1
    BY FS_Singleton
  <2> QED BY <1>4, <2>1
<1> QED BY <1>2, <1>3, <1>4 DEF S

\* A comment sent again with its key, at the same time or later, is stored once.
THEOREM KeysAreUsedOnce == Spec => []KeyedCommentIsOne
<1>1. Init => OneKey
  BY DEF Init, OneKey, Rows
<1> QED BY <1>1, TypedInit, TypedNext, KeyNext, KeyedOne, PTL DEF Spec

-----------------------------------------------------------------------------
\* What the counters count.
LikersIn(d, f) == {u \in d.likes : LikeField(u) = f}
CommentsIn(d, f) == {c \in Rows(d) : Visible(d, c) /\ CommentField(d.comments[c].author) = f}
LikesOf(d, c) == {p \in d.liked : p[1] = c}
AnswersTo(d, c) == {e \in Rows(d) : d.comments[e].root = c /\ Visible(d, e)}

LikeFields == {"likes", "seedLikes"}
CommentFields == {"comments", "seedComments"}

RightRow(d, c) == /\ d.comments[c].likes = Cardinality(LikesOf(d, c))
                  /\ d.comments[c].replies = Cardinality(AnswersTo(d, c))

Right(d) ==
    /\ \A f \in LikeFields : d.counts[f] = Cardinality(LikersIn(d, f))
    /\ \A f \in CommentFields : d.counts[f] = Cardinality(CommentsIn(d, f))
    /\ \A c \in Rows(d) : RightRow(d, c)

\* The counts of the model are the sizes of those sets.
LEMMA CountsOf ==
  ASSUME NEW d, Snapshot(d)
  PROVE  /\ \A f \in LikeFields : Counts(d)[f] = Cardinality(LikersIn(d, f))
         /\ \A f \in CommentFields : Counts(d)[f] = Cardinality(CommentsIn(d, f))
         /\ \A c \in Rows(d) : /\ CommentLikes(d, c) = Cardinality(LikesOf(d, c))
                               /\ Replies(d, c) = Cardinality(AnswersTo(d, c))
<1>1. LikersIn(d, "likes") = {u \in d.likes : (u \in Seeds) = FALSE}
  BY DEF LikersIn, LikeField
<1>2. LikersIn(d, "seedLikes") = {u \in d.likes : (u \in Seeds) = TRUE}
  BY DEF LikersIn, LikeField
<1>3. CommentsIn(d, "comments")
         = {c \in Rows(d) : Visible(d, c) /\ (d.comments[c].author \in Seeds) = FALSE}
  BY DEF CommentsIn, CommentField
<1>4. CommentsIn(d, "seedComments")
         = {c \in Rows(d) : Visible(d, c) /\ (d.comments[c].author \in Seeds) = TRUE}
  BY DEF CommentsIn, CommentField
<1>5. ASSUME NEW c \in Rows(d)
      PROVE  /\ LikesOf(d, c) = {p \in d.liked : p[1] = c}
             /\ AnswersTo(d, c) = {e \in Rows(d) : /\ d.comments[e].root = c /\ Visible(d, e)
                                                   /\ d.comments[e].author \notin Seeds}
  <2>1. c # 0
    BY EngagementAssumption DEF Rows, Ids
  <2>2. \A e \in Rows(d) : d.comments[e].root = c => d.comments[e].author \notin Seeds
    BY <2>1 DEF Snapshot
  <2>3. \A e : /\ e \in Rows(d) /\ d.comments[e].root = c /\ Visible(d, e)
               <=> /\ e \in Rows(d)
                   /\ d.comments[e].root = c /\ Visible(d, e) /\ d.comments[e].author \notin Seeds
    BY <2>2
  <2>4. AnswersTo(d, c) = {e \in Rows(d) : /\ d.comments[e].root = c /\ Visible(d, e)
                                           /\ d.comments[e].author \notin Seeds}
    BY <2>3 DEF AnswersTo
  <2>5. LikesOf(d, c) = {p \in d.liked : p[1] = c}
    BY Zenon DEF LikesOf
  <2> QED BY <2>4, <2>5, Zenon
<1>6. \A f \in LikeFields : Counts(d)[f] = Cardinality(LikersIn(d, f))
  BY <1>1, <1>2 DEF Counts, Likers, LikeFields
<1>7. \A f \in CommentFields : Counts(d)[f] = Cardinality(CommentsIn(d, f))
  BY <1>3, <1>4 DEF Counts, Counting, CommentFields
<1>8. \A c \in Rows(d) : /\ CommentLikes(d, c) = Cardinality(LikesOf(d, c))
                         /\ Replies(d, c) = Cardinality(AnswersTo(d, c))
  BY <1>5, Zenon DEF CommentLikes, Replies
<1> QED BY <1>6, <1>7, <1>8

\* The counters are right when they are those sizes.
LEMMA RightCounts ==
  ASSUME NEW d, Snapshot(d)
  PROVE  Right(d) <=> /\ d.counts = Counts(d)
                      /\ \A c \in Rows(d) : /\ d.comments[c].likes = CommentLikes(d, c)
                                            /\ d.comments[c].replies = Replies(d, c)
<1>1. d.counts = Counts(d) <=> \A f \in Fields : d.counts[f] = Counts(d)[f]
  <2>1. d.counts \in [Fields -> Nat] /\ Counts(d) \in [Fields -> Nat]
    BY CountsNat DEF Snapshot
  <2> QED BY <2>1
<1>2. Fields = LikeFields \cup CommentFields
  BY DEF Fields, LikeFields, CommentFields
<1> QED BY <1>1, <1>2, CountsOf DEF Right, RightRow

\* A set with one element more, and with one less.
LEMMA OneMore ==
  ASSUME NEW S, IsFiniteSet(S), NEW x, x \notin S
  PROVE  Cardinality(S \cup {x}) = Cardinality(S) + 1
BY FS_AddElement

LEMMA OneLess ==
  ASSUME NEW S, IsFiniteSet(S), NEW x, x \in S
  PROVE  Cardinality(S \ {x}) = Dec(Cardinality(S))
<1>1. Cardinality(S) \in Nat /\ Cardinality(S) # 0
  BY FS_CardinalityType, FS_EmptySet
<1> QED BY <1>1, FS_RemoveElement DEF Dec

LEMMA SomeLess ==
  ASSUME NEW S, IsFiniteSet(S), NEW T, T \subseteq S
  PROVE  Cardinality(S \ T) = Lower(Cardinality(S), Cardinality(T))
<1>1. S \cap T = T
  OBVIOUS
<1>2. Cardinality(S) \in Nat /\ Cardinality(T) \in Nat /\ Cardinality(T) <= Cardinality(S)
  BY FS_Subset, FS_CardinalityType
<1>3. Cardinality(S \ T) = Cardinality(S) - Cardinality(T)
  BY <1>1, FS_Difference
<1> QED BY <1>2, <1>3 DEF Lower

\* Those sets are finite.
LEMMA FiniteSets ==
  ASSUME NEW d, Snapshot(d)
  PROVE  /\ \A f : IsFiniteSet(LikersIn(d, f)) /\ IsFiniteSet(CommentsIn(d, f))
         /\ \A c : IsFiniteSet(LikesOf(d, c)) /\ IsFiniteSet(AnswersTo(d, c))
<1>1. \A f : IsFiniteSet(LikersIn(d, f))
  BY FinitePart DEF Snapshot, LikersIn
<1>2. \A f : CommentsIn(d, f) \in SUBSET Ids
  BY DEF CommentsIn, Rows
<1>3. \A c : IsFiniteSet(LikesOf(d, c))
  BY FinitePart DEF Snapshot, LikesOf
<1>4. \A c : AnswersTo(d, c) \in SUBSET Ids
  BY DEF AnswersTo, Rows
<1> QED BY <1>1, <1>2, <1>3, <1>4, FiniteIds

\* Rows that keep what counts: who made them, for which root, and whether they are visible.
LEMMA SameCounting ==
  ASSUME NEW d, NEW e, Rows(e) = Rows(d), e.likes = d.likes, e.liked = d.liked,
         \A c \in Rows(d) : /\ e.comments[c].author = d.comments[c].author
                            /\ e.comments[c].root = d.comments[c].root
                            /\ Visible(e, c) <=> Visible(d, c)
  PROVE  /\ \A f : LikersIn(e, f) = LikersIn(d, f) /\ CommentsIn(e, f) = CommentsIn(d, f)
         /\ \A c : LikesOf(e, c) = LikesOf(d, c) /\ AnswersTo(e, c) = AnswersTo(d, c)
BY DEF LikersIn, CommentsIn, LikesOf, AnswersTo

\* The counters after a like of the video.
LEMMA LikesOne ==
  ASSUME Typed, NEW r \in Requests, req[r] # Idle, LikeVideo(r), req[r].db = db
  PROVE  \/ db' = db
         \/ /\ Form(db') /\ db'.comments = db.comments /\ db'.liked = db.liked
            /\ LET u == req[r].op.actor
                   f == LikeField(u)
               IN  \/ /\ u \notin db.likes /\ db'.likes = db.likes \cup {u}
                      /\ db'.counts = [db.counts EXCEPT ![f] = db.counts[f] + 1]
                   \/ /\ u \in db.likes /\ db'.likes = db.likes \ {u}
                      /\ db'.counts = [db.counts EXCEPT ![f] = Dec(db.counts[f])]
<1> DEFINE u == req[r].op.actor
           f == LikeField(req[r].op.actor)
<1>1. Snapshot(db) /\ Form(db) /\ req[r].op \in Ops /\ req[r].op.kind = "like"
  BY RunningRequest DEF Typed, LikeVideo, Snapshot, Form
<1>2. u \in Users /\ f \in Fields
  BY <1>1 DEF Ops, LikeField, Fields
<1>3. \/ db' = db
      \/ /\ u \notin db.likes
         /\ \E notes : db' = [db EXCEPT !.likes = @ \cup {u}, !.counts[f] = db.counts[f] + 1,
                              !.notes = notes]
      \/ /\ u \in db.likes
         /\ db' = [db EXCEPT !.likes = @ \ {u}, !.counts[f] = Dec(db.counts[f])]
  BY DEF LikeVideo, LockedCounts
<1>4. db.counts[f] + 1 \in Nat /\ Dec(db.counts[f]) \in Nat
  BY <1>1, <1>2 DEF Form, Dec
<1> DEFINE more == [db.counts EXCEPT ![f] = db.counts[f] + 1]
           less == [db.counts EXCEPT ![f] = Dec(db.counts[f])]
<1>5. more \in [Fields -> Nat] /\ less \in [Fields -> Nat]
  BY <1>1, <1>2, <1>4 DEF Form
<1>6. ASSUME NEW notes, u \notin db.likes,
             db' = [db EXCEPT !.likes = @ \cup {u}, !.counts[f] = db.counts[f] + 1,
                    !.notes = notes]
      PROVE  /\ Form(db') /\ db'.comments = db.comments /\ db'.liked = db.liked
             /\ db'.likes = db.likes \cup {u} /\ db'.counts = more
  <2>1. db' = [db EXCEPT !.likes = @ \cup {u}, !.counts = more, !.notes = notes]
    BY <1>6
  <2> HIDE DEF more, u, f
  <2> QED BY <1>1, <1>2, <1>5, <2>1 DEF Form
<1>7. ASSUME u \in db.likes, db' = [db EXCEPT !.likes = @ \ {u}, !.counts[f] = Dec(db.counts[f])]
      PROVE  /\ Form(db') /\ db'.comments = db.comments /\ db'.liked = db.liked
             /\ db'.likes = db.likes \ {u} /\ db'.counts = less
  <2>1. db' = [db EXCEPT !.likes = @ \ {u}, !.counts = less]
    BY <1>7
  <2> HIDE DEF less, u, f
  <2> QED BY <1>1, <1>2, <1>5, <2>1 DEF Form
<1> QED BY <1>3, <1>6, <1>7

\* A like of the video keeps the counters right.
LEMMA RightLikes ==
  ASSUME Typed, NEW r \in Requests, req[r] # Idle, LikeVideo(r), req[r].db = db, Right(db)
  PROVE  Right(db')
<1> DEFINE u == req[r].op.actor
           f == LikeField(u)
<1>0. Snapshot(db) /\ Form(db)
  BY DEF Typed, Snapshot, Form
<1>1. CASE db' = db
  BY <1>1
<1>2. ASSUME Form(db'), db'.comments = db.comments, db'.liked = db.liked,
             \/ /\ u \notin db.likes /\ db'.likes = db.likes \cup {u}
                /\ db'.counts = [db.counts EXCEPT ![f] = db.counts[f] + 1]
             \/ /\ u \in db.likes /\ db'.likes = db.likes \ {u}
                /\ db'.counts = [db.counts EXCEPT ![f] = Dec(db.counts[f])]
      PROVE  Right(db')
  <2>1. /\ \A g : CommentsIn(db', g) = CommentsIn(db, g)
        /\ \A c : LikesOf(db', c) = LikesOf(db, c) /\ AnswersTo(db', c) = AnswersTo(db, c)
        /\ Rows(db') = Rows(db)
    BY <1>2 DEF CommentsIn, LikesOf, AnswersTo, Rows, Visible
  <2>2. f \in LikeFields /\ LikeFields \subseteq Fields /\ CommentFields \subseteq Fields
        /\ f \notin CommentFields
    BY DEF LikeField, LikeFields, CommentFields, Fields
  <2>3. \A g \in Fields \ {f} : db'.counts[g] = db.counts[g]
    BY <1>0, <1>2 DEF Form
  <2>4. \A g : g # f => LikersIn(db', g) = LikersIn(db, g)
    BY <1>2 DEF LikersIn
  <2>5. db'.counts[f] = Cardinality(LikersIn(db', f))
    <3>0. db.counts[f] = Cardinality(LikersIn(db, f)) /\ IsFiniteSet(LikersIn(db, f))
      BY <1>0, <2>2, FiniteSets DEF Right
    <3>1. CASE u \notin db.likes
      <4>1. LikersIn(db', f) = LikersIn(db, f) \cup {u} /\ u \notin LikersIn(db, f)
        BY <1>2, <3>1 DEF LikersIn
      <4>2. db'.counts[f] = db.counts[f] + 1
        BY <1>0, <1>2, <2>2, <3>1 DEF Form
      <4> QED BY <3>0, <4>1, <4>2, OneMore
    <3>2. CASE u \in db.likes
      <4>1. LikersIn(db', f) = LikersIn(db, f) \ {u} /\ u \in LikersIn(db, f)
        BY <1>2, <3>2 DEF LikersIn
      <4>2. db'.counts[f] = Dec(db.counts[f])
        BY <1>0, <1>2, <2>2, <3>2 DEF Form
      <4> QED BY <3>0, <4>1, <4>2, OneLess
    <3> QED BY <3>1, <3>2
  <2>6. \A c \in Rows(db') : RightRow(db', c)
    BY <1>2, <2>1 DEF Right, RightRow
  <2>7. \A g \in LikeFields : db'.counts[g] = Cardinality(LikersIn(db', g))
    BY <2>2, <2>3, <2>4, <2>5 DEF Right
  <2>8. \A g \in CommentFields : db'.counts[g] = Cardinality(CommentsIn(db', g))
    BY <2>1, <2>2, <2>3 DEF Right
  <2> QED BY <2>6, <2>7, <2>8 DEF Right
<1> QED BY <1>1, <1>2, LikesOne

\* So does a new comment: it counts for the video and for its root.
LEMMA RightCreates ==
  ASSUME Typed, NEW r \in Requests, req[r] # Idle, CreateComment(r), req[r].db = db, Right(db)
  PROVE  Right(db')
<1> DEFINE u == req[r].op.actor
           f == CommentField(u)
           root == req[r].op.root
<1>0. Snapshot(db) /\ Form(db) /\ req[r].op \in Ops /\ req[r].op.kind = "comment"
  BY RunningRequest DEF Typed, Snapshot, Form, CreateComment
<1>1. CASE db' = db
  BY <1>1
<1>2. ASSUME NEW c \in Ids \ Rows(db), Creates(r, c) PROVE Right(db')
  <2>1. /\ Rows(db') = Rows(db) \cup {c}
        /\ db'.comments[c] = Created(r, c) /\ Created(r, c) \in Comment
        /\ \A d \in Rows(db) : /\ db'.comments[d] \in Comment /\ d # c
                               /\ db'.comments[d].author = db.comments[d].author
                               /\ db'.comments[d].root = db.comments[d].root
                               /\ db'.comments[d].status = db.comments[d].status
                               /\ db'.comments[d].deleted = db.comments[d].deleted
    BY <1>0, <1>2, CreatesRows
  <2>2. /\ db'.likes = db.likes /\ db'.liked = db.liked /\ Form(db')
        /\ db'.counts = [db.counts EXCEPT ![f] = @ + 1]
        /\ root # 0 => root \in Rows(db)
    BY <1>2 DEF Creates
  <2>3. f \in CommentFields /\ LikeFields \subseteq Fields /\ CommentFields \subseteq Fields
        /\ f \notin LikeFields
    BY DEF CommentField, LikeFields, CommentFields, Fields
  <2>4. Created(r, c).author = u /\ Created(r, c).root = root /\ Visible(db', c)
        /\ Created(r, c).likes = 0 /\ Created(r, c).replies = 0
    BY <2>1 DEF Created, Visible
  <2>5. \A d \in Rows(db) : Visible(db', d) <=> Visible(db, d)
    BY <2>1 DEF Visible
  <2>6. \A g \in LikeFields : db'.counts[g] = Cardinality(LikersIn(db', g))
    <3>1. \A g : LikersIn(db', g) = LikersIn(db, g)
      BY <2>2 DEF LikersIn
    <3>2. \A g \in LikeFields : db'.counts[g] = db.counts[g]
      BY <1>0, <2>2, <2>3 DEF Form
    <3> QED BY <3>1, <3>2 DEF Right
  <2>7. ASSUME NEW g \in CommentFields PROVE db'.counts[g] = Cardinality(CommentsIn(db', g))
    <3>0. db.counts[g] = Cardinality(CommentsIn(db, g)) /\ IsFiniteSet(CommentsIn(db, g))
      BY <1>0, FiniteSets DEF Right
    <3>1. CASE g = f
      <4>1. c \notin CommentsIn(db, g) /\ CommentsIn(db', g) = CommentsIn(db, g) \cup {c}
        BY <2>1, <2>4, <2>5, <3>1 DEF CommentsIn
      <4>2. db'.counts[g] = db.counts[g] + 1
        BY <1>0, <2>2, <2>3, <3>1 DEF Form
      <4> QED BY <3>0, <4>1, <4>2, OneMore
    <3>2. CASE g # f
      <4>1. CommentsIn(db', g) = CommentsIn(db, g)
        BY <2>1, <2>4, <2>5, <3>2 DEF CommentsIn
      <4>2. db'.counts[g] = db.counts[g]
        BY <1>0, <2>2, <2>3, <3>2 DEF Form
      <4> QED BY <3>0, <4>1, <4>2
    <3> QED BY <3>1, <3>2
  <2>8. ASSUME NEW d \in Rows(db') PROVE RightRow(db', d)
    <3>1. CASE d = c
      <4>1. \A p \in db.liked : p[1] # c
        BY <1>0 DEF Snapshot
      <4>2. LikesOf(db', c) = {}
        BY <2>2, <4>1 DEF LikesOf
      <4>3. AnswersTo(db', c) = {}
        <5>1. c # 0
          BY EngagementAssumption DEF Ids
        <5>2. root # c
          BY <2>2, <5>1
        <5>3. \A e \in Rows(db) : db.comments[e].root # c
          BY <1>0, <5>1 DEF Snapshot
        <5> QED BY <2>1, <2>4, <5>2, <5>3 DEF AnswersTo
      <4> QED BY <2>1, <2>4, <3>1, <4>2, <4>3, FS_EmptySet DEF RightRow
    <3>2. CASE d # c
      <4>0. d \in Rows(db) /\ db.comments[d] \in Comment /\ RightRow(db, d)
            /\ IsFiniteSet(AnswersTo(db, d))
        BY <1>0, <2>1, <3>2, CommentRow, FiniteSets DEF Rows, Right
      <4>1. LikesOf(db', d) = LikesOf(db, d)
        BY <2>2 DEF LikesOf
      <4>2. CASE d = root
        <5>1. AnswersTo(db', d) = AnswersTo(db, d) \cup {c} /\ c \notin AnswersTo(db, d)
          BY <2>1, <2>4, <2>5, <4>2 DEF AnswersTo
        <5>2. db'.comments[d] = [db.comments[d] EXCEPT !.replies = db.comments[d].replies + 1]
          BY <1>2, <3>2, <4>0, <4>2 DEF Creates, CreatedRow, Rows
        <5>3. db'.comments[d].likes = db.comments[d].likes
              /\ db'.comments[d].replies = db.comments[d].replies + 1
          BY <4>0, <5>2 DEF Comment
        <5> QED BY <4>0, <4>1, <5>1, <5>3, OneMore DEF RightRow
      <4>3. CASE d # root
        <5>1. AnswersTo(db', d) = AnswersTo(db, d)
          BY <2>1, <2>4, <2>5, <4>3 DEF AnswersTo
        <5>2. db'.comments[d] = db.comments[d]
          BY <1>2, <3>2, <4>0, <4>3 DEF Creates, CreatedRow, Rows
        <5> QED BY <4>0, <4>1, <5>1, <5>2 DEF RightRow
      <4> QED BY <4>2, <4>3
    <3> QED BY <3>1, <3>2
  <2> QED BY <2>6, <2>7, <2>8 DEF Right
<1> QED BY <1>1, <1>2, CreatesOne

\* A like of a comment, by request r.
LEMMA CommentLikesOne ==
  ASSUME Typed, NEW r \in Requests, req[r] # Idle, LikeComment(r), req[r].db = db
  PROVE  \/ db' = db
         \/ /\ Form(db') /\ db'.likes = db.likes /\ db'.counts = db.counts
            /\ LET c == req[r].op.comment
                   p == <<c, req[r].op.actor>>
                   n == db.comments[c].likes
               IN  /\ c \in Rows(db)
                   /\ \/ /\ p \notin db.liked /\ db'.liked = db.liked \cup {p}
                         /\ db'.comments = [db.comments EXCEPT ![c] =
                                            [db.comments[c] EXCEPT !.likes = n + 1]]
                      \/ /\ p \in db.liked /\ db'.liked = db.liked \ {p}
                         /\ db'.comments = [db.comments EXCEPT ![c] =
                                            [db.comments[c] EXCEPT !.likes = Dec(n)]]
<1> DEFINE u == req[r].op.actor
           c == req[r].op.comment
           p == <<c, u>>
           n == db.comments[c].likes
<1>1. /\ Snapshot(db) /\ Form(db) /\ req[r].op \in Ops /\ req[r].op.kind = "like comment"
      /\ c \in Rows(db)
  BY RunningRequest DEF Typed, LikeComment, Snapshot, Form
<1>2. u \in Users /\ c \in Ids
  BY <1>1 DEF Ops
<1>3. db.comments[c] \in Comment
  BY <1>1, CommentRow, <1>2
<1>4. n + 1 \in Nat /\ Dec(n) \in Nat /\ Write(n, n, Dec(n)) = Dec(n)
  BY <1>3 DEF Comment, Dec, Write
<1>5. \/ db' = db
      \/ /\ p \notin db.liked
         /\ \E notes : db' = [db EXCEPT !.liked = @ \cup {p}, !.notes = notes,
                              !.comments[c].likes = n + 1]
      \/ /\ p \in db.liked
         /\ db' = [db EXCEPT !.liked = @ \ {p}, !.comments[c].likes = Dec(n)]
  <2>1. [db EXCEPT !.liked = @ \ {p}, !.comments[c].likes = Write(@, n, Dec(n))]
        = [db EXCEPT !.liked = @ \ {p}, !.comments[c].likes = Write(n, n, Dec(n))]
    OBVIOUS
  <2> QED BY <1>4, <2>1 DEF LikeComment
<1> DEFINE with(k) == [db.comments EXCEPT ![c] = [db.comments[c] EXCEPT !.likes = k]]
<1>6. ASSUME NEW k \in Nat PROVE with(k) \in [Ids -> Comment \cup {NoRow}]
  <2>1. [db.comments[c] EXCEPT !.likes = k] \in Comment
    BY <1>3 DEF Comment
  <2> QED BY <1>1, <2>1 DEF Form
<1>7. ASSUME NEW k \in Nat, NEW notes, NEW liked \in {db.liked \cup {p}, db.liked \ {p}},
             \/ db' = [db EXCEPT !.liked = liked, !.notes = notes, !.comments[c].likes = k]
             \/ db' = [db EXCEPT !.liked = liked, !.comments[c].likes = k]
      PROVE  /\ Form(db') /\ db'.likes = db.likes /\ db'.counts = db.counts /\ db'.liked = liked
             /\ db'.comments = with(k)
  <2>1. \/ db' = [db EXCEPT !.liked = liked, !.notes = notes, !.comments = with(k)]
        \/ db' = [db EXCEPT !.liked = liked, !.comments = with(k)]
    BY <1>7
  <2>2. with(k) \in [Ids -> Comment \cup {NoRow}]
    BY <1>6
  <2>3. liked \in SUBSET (Ids \X Users)
    <3>1. p \in Ids \X Users /\ db.liked \in SUBSET (Ids \X Users)
      BY <1>1, <1>2 DEF Form
    <3> HIDE DEF p
    <3> QED BY <3>1
  <2> DEFINE new == with(k)
  <2>4. new = with(k)
    OBVIOUS
  <2> HIDE DEF new, with, p, n, c, u
  <2>5. new \in [Ids -> Comment \cup {NoRow}]
    BY <2>2, <2>4
  <2>6. \/ db' = [db EXCEPT !.liked = liked, !.notes = notes, !.comments = new]
        \/ db' = [db EXCEPT !.liked = liked, !.comments = new]
    BY <2>1, <2>4
  <2>7. /\ Form(db') /\ db'.likes = db.likes /\ db'.counts = db.counts /\ db'.liked = liked
        /\ db'.comments = new
    BY <1>1, <2>3, <2>5, <2>6 DEF Form
  <2> QED BY <2>4, <2>7
<1>8. CASE db' = db
  BY <1>8
<1>9. ASSUME p \notin db.liked,
             NEW notes, db' = [db EXCEPT !.liked = @ \cup {p}, !.notes = notes,
                               !.comments[c].likes = n + 1]
      PROVE  /\ Form(db') /\ db'.likes = db.likes /\ db'.counts = db.counts
             /\ db'.liked = db.liked \cup {p} /\ db'.comments = with(n + 1)
  <2>1. db' = [db EXCEPT !.liked = db.liked \cup {p}, !.notes = notes,
               !.comments[c].likes = n + 1]
    BY <1>9
  <2> HIDE DEF with, p, n, c
  <2> QED BY <1>4, <1>7, <2>1
<1>10. ASSUME p \in db.liked, db' = [db EXCEPT !.liked = @ \ {p}, !.comments[c].likes = Dec(n)]
      PROVE  /\ Form(db') /\ db'.likes = db.likes /\ db'.counts = db.counts
             /\ db'.liked = db.liked \ {p} /\ db'.comments = with(Dec(n))
  <2>1. db' = [db EXCEPT !.liked = db.liked \ {p}, !.comments[c].likes = Dec(n)]
    BY <1>10
  <2> HIDE DEF with, p, n, c
  <2> QED BY <1>4, <1>7, <2>1
<1>11. \A k : with(k) = [db.comments EXCEPT ![c] = [db.comments[c] EXCEPT !.likes = k]]
  OBVIOUS
<1> HIDE DEF with
<1> QED BY <1>1, <1>5, <1>8, <1>9, <1>10, <1>11

\* So does a like of a comment.
LEMMA RightCommentLikes ==
  ASSUME Typed, NEW r \in Requests, req[r] # Idle, LikeComment(r), req[r].db = db, Right(db)
  PROVE  Right(db')
<1> DEFINE c == req[r].op.comment
           p == <<c, req[r].op.actor>>
           n == db.comments[c].likes
<1>0. Snapshot(db) /\ Form(db)
  BY DEF Typed, Snapshot, Form
<1>1. CASE db' = db
  BY <1>1
<1>2. ASSUME Form(db'), db'.likes = db.likes, db'.counts = db.counts, c \in Rows(db),
             NEW k \in Nat,
             db'.comments = [db.comments EXCEPT ![c] = [db.comments[c] EXCEPT !.likes = k]],
             \/ p \notin db.liked /\ db'.liked = db.liked \cup {p} /\ k = n + 1
             \/ p \in db.liked /\ db'.liked = db.liked \ {p} /\ k = Dec(n)
      PROVE  Right(db')
  <2>0. c \in Ids /\ db.comments[c] \in Comment
    BY <1>0, <1>2, CommentRow DEF Rows
  <2>1. db'.comments[c] = [db.comments[c] EXCEPT !.likes = k]
        /\ \A d \in Ids : d # c => db'.comments[d] = db.comments[d]
    BY <1>0, <1>2, <2>0 DEF Form
  <2>2. /\ db'.comments[c] \in Comment
        /\ db'.comments[c].author = db.comments[c].author
        /\ db'.comments[c].root = db.comments[c].root
        /\ db'.comments[c].status = db.comments[c].status
        /\ db'.comments[c].deleted = db.comments[c].deleted
        /\ db'.comments[c].replies = db.comments[c].replies
        /\ db'.comments[c].likes = k
    BY <1>2, <2>0, <2>1 DEF Comment
  <2>3. Rows(db') = Rows(db)
    <3>1. ASSUME NEW d \in Ids PROVE d \in Rows(db') <=> d \in Rows(db)
      <4>1. CASE d = c
        BY <1>2, <2>0, <2>2, <4>1, CommentRow
      <4>2. CASE d # c
        BY <2>1, <4>2 DEF Rows
      <4> QED BY <4>1, <4>2
    <3> QED BY <3>1 DEF Rows
  <2>4. \A d \in Rows(db) : /\ db'.comments[d].author = db.comments[d].author
                            /\ db'.comments[d].root = db.comments[d].root
                            /\ Visible(db', d) <=> Visible(db, d)
    BY <2>1, <2>2 DEF Visible, Rows
  <2>5. /\ \A f : LikersIn(db', f) = LikersIn(db, f) /\ CommentsIn(db', f) = CommentsIn(db, f)
        /\ \A d : AnswersTo(db', d) = AnswersTo(db, d)
    <3>1. \A f : LikersIn(db', f) = LikersIn(db, f)
      BY <1>2 DEF LikersIn
    <3>2. ASSUME NEW f PROVE CommentsIn(db', f) = CommentsIn(db, f)
      BY <2>3, <2>4 DEF CommentsIn
    <3>3. ASSUME NEW d PROVE AnswersTo(db', d) = AnswersTo(db, d)
      BY <2>3, <2>4 DEF AnswersTo
    <3> QED BY <3>1, <3>2, <3>3
  <2>6. k = Cardinality(LikesOf(db', c))
    <3>0. n = Cardinality(LikesOf(db, c)) /\ IsFiniteSet(LikesOf(db, c)) /\ p[1] = c
      BY <1>0, <1>2, FiniteSets DEF Right, RightRow
    <3>1. CASE p \notin db.liked
      <4>1. LikesOf(db', c) = LikesOf(db, c) \cup {p} /\ p \notin LikesOf(db, c)
        <5> HIDE DEF p, c
        <5> QED BY <1>2, <3>0, <3>1 DEF LikesOf
      <4> QED BY <1>2, <3>0, <3>1, <4>1, OneMore
    <3>2. CASE p \in db.liked
      <4>1. LikesOf(db', c) = LikesOf(db, c) \ {p} /\ p \in LikesOf(db, c)
        <5> HIDE DEF p, c
        <5> QED BY <1>2, <3>0, <3>2 DEF LikesOf
      <4> QED BY <1>2, <3>0, <3>2, <4>1, OneLess
    <3> QED BY <3>1, <3>2
  <2>7. ASSUME NEW d \in Rows(db') PROVE RightRow(db', d)
    <3>1. CASE d = c
      <4>1. db'.comments[c].replies = Cardinality(AnswersTo(db', c))
        <5>1. db.comments[c].replies = Cardinality(AnswersTo(db, c))
          BY <1>2 DEF Right, RightRow
        <5>2. AnswersTo(db', c) = AnswersTo(db, c)
          BY <2>5
        <5> QED BY <2>2, <5>1, <5>2
      <4>2. db'.comments[c].likes = Cardinality(LikesOf(db', c))
        BY <2>2, <2>6
      <4> QED BY <3>1, <4>1, <4>2 DEF RightRow
    <3>2. CASE d # c
      <4>1. LikesOf(db', d) = LikesOf(db, d)
        <5>1. \A q : q[1] = d => (q \in db'.liked <=> q \in db.liked)
          <6>1. p[1] = c
            OBVIOUS
          <6> HIDE DEF p, c
          <6> QED BY <1>2, <3>2, <6>1
        <5> QED BY <5>1 DEF LikesOf
      <4>2. db'.comments[d] = db.comments[d] /\ d \in Rows(db)
        BY <2>1, <2>3, <3>2 DEF Rows
      <4> QED BY <2>5, <4>1, <4>2 DEF Right, RightRow
    <3> QED BY <3>1, <3>2
  <2> QED BY <1>2, <2>5, <2>7 DEF Right
<1>3. db.comments[c] \in Comment => n \in Nat /\ n + 1 \in Nat /\ Dec(n) \in Nat
  BY DEF Comment, Dec
<1>4. c \in Rows(db) => db.comments[c] \in Comment
  BY <1>0, CommentRow DEF Rows
<1> QED BY <1>1, <1>2, <1>3, <1>4, CommentLikesOne

\* A comment that is taken out of the counts, while nothing else moves.
LEMMA RightTakeOut ==
  ASSUME Typed, NEW r \in Requests, req[r] # Idle, req[r].db = db, Right(db),
         NEW c \in Rows(db), Visible(db, c),
         NEW row \in Comment, row.root = db.comments[c].root, row.author = db.comments[c].author,
         row.key = db.comments[c].key, row.likes = db.comments[c].likes,
         row.replies = db.comments[c].replies, row.deleted \/ row.status # "visible"
  PROVE  Right(TakeOut(db, c, row))
<1> DEFINE e == TakeOut(db, c, row)
           f == CommentField(row.author)
           root == row.root
<1>0. Snapshot(db) /\ Form(db) /\ c \in Ids /\ db.comments[c] \in Comment
  BY CommentRow DEF Typed, Snapshot, Form, Rows
<1>1. /\ Snapshot(e) /\ Form(e) /\ Rows(e) \subseteq Rows(db)
      /\ e.likes = db.likes /\ e.liked = db.liked
      /\ e.counts = [db.counts EXCEPT ![f] = Write(@, db.counts[f], Dec(db.counts[f]))]
      /\ \A d \in Ids : e.comments[d] = TakenRow(db, c, row, d)
  <2>1. c \in Rows(req[r].db) \cap Rows(db)
    OBVIOUS
  <2>2. TakesOut(req[r].db, c, row)
    BY <2>1, FormTakeOut
  <2>3. TakesOut(db, c, row)
    BY <2>2
  <2> QED BY <2>3 DEF TakesOut, Snapshot, Form
<1> HIDE DEF e
<1>2. /\ f \in CommentFields /\ LikeFields \subseteq Fields /\ CommentFields \subseteq Fields
      /\ f \notin LikeFields
  BY DEF CommentField, LikeFields, CommentFields, Fields
<1>3. e.comments[c] = row
  BY <1>0, <1>1 DEF TakenRow
<1>4. ASSUME NEW d \in Rows(db), d # c
      PROVE  /\ e.comments[d] \in Comment
             /\ e.comments[d].author = db.comments[d].author
             /\ e.comments[d].root = db.comments[d].root
             /\ e.comments[d].status = db.comments[d].status
             /\ e.comments[d].deleted = db.comments[d].deleted
             /\ e.comments[d].likes = db.comments[d].likes
             /\ e.comments[d].replies = IF d = root THEN Dec(db.comments[d].replies)
                                        ELSE db.comments[d].replies
  <2>0. d \in Ids /\ db.comments[d] \in Comment
    BY <1>0, CommentRow DEF Rows
  <2>1. CASE d = root
    <3> DEFINE n == db.comments[d].replies
    <3>1. n \in Nat /\ Write(n, n, Dec(n)) = Dec(n) /\ Dec(n) \in Nat
      BY <2>0 DEF Comment, Write, Dec
    <3>2. e.comments[d] = [db.comments[d] EXCEPT !.replies = Dec(n)]
      BY <1>1, <1>4, <2>0, <2>1, <3>1 DEF TakenRow
    <3> HIDE DEF n
    <3>3. /\ e.comments[d] \in Comment
          /\ e.comments[d].author = db.comments[d].author
          /\ e.comments[d].root = db.comments[d].root
          /\ e.comments[d].status = db.comments[d].status
          /\ e.comments[d].deleted = db.comments[d].deleted
          /\ e.comments[d].likes = db.comments[d].likes
          /\ e.comments[d].replies = Dec(n)
      BY <2>0, <3>1, <3>2 DEF Comment
    <3> QED BY <2>1, <3>3 DEF n
  <2>2. CASE d # root
    BY <1>1, <1>4, <2>0, <2>2 DEF TakenRow
  <2> QED BY <2>1, <2>2
<1>5. Rows(e) = Rows(db)
  <2>1. ASSUME NEW d \in Rows(db) PROVE d \in Rows(e)
    <3>1. d \in Ids
      BY DEF Rows
    <3>2. CASE d = c
      BY <1>1, <1>3, <3>1, <3>2, CommentRow
    <3>3. CASE d # c
      BY <1>1, <1>4, <3>1, <3>3, CommentRow
    <3> QED BY <3>2, <3>3
  <2> QED BY <1>1, <2>1
<1>6. ~Visible(e, c) /\ \A d \in Rows(db) : d # c => (Visible(e, d) <=> Visible(db, d))
  <2>1. ~Visible(e, c)
    BY <1>3 DEF Visible
  <2> QED BY <1>4, <2>1 DEF Visible
<1>7. \A d \in Rows(db) : /\ e.comments[d].author = db.comments[d].author
                          /\ e.comments[d].root = db.comments[d].root
  BY <1>3, <1>4
<1>8. \A g \in LikeFields : e.counts[g] = Cardinality(LikersIn(e, g))
  <2>1. \A g : LikersIn(e, g) = LikersIn(db, g)
    BY <1>1 DEF LikersIn
  <2>2. \A g \in LikeFields : e.counts[g] = db.counts[g]
    BY <1>0, <1>1, <1>2 DEF Form
  <2> QED BY <2>1, <2>2 DEF Right
<1>9. ASSUME NEW g \in CommentFields PROVE e.counts[g] = Cardinality(CommentsIn(e, g))
  <2>0. db.counts[g] = Cardinality(CommentsIn(db, g)) /\ IsFiniteSet(CommentsIn(db, g))
        /\ db.counts[g] \in Nat
    BY <1>0, <1>2, FiniteSets DEF Right, Form
  <2>1. CASE g = f
    <3>1. c \in CommentsIn(db, g) /\ CommentsIn(e, g) = CommentsIn(db, g) \ {c}
      BY <1>5, <1>6, <1>7, <2>1 DEF CommentsIn
    <3>2. e.counts[g] = Write(db.counts[g], db.counts[g], Dec(db.counts[g]))
      BY <1>0, <1>1, <1>2, <2>1 DEF Form
    <3>3. e.counts[g] = Dec(db.counts[g])
      BY <3>2 DEF Write
    <3> QED BY <2>0, <3>1, <3>3, OneLess
  <2>2. CASE g # f
    <3>1. CommentsIn(e, g) = CommentsIn(db, g)
      BY <1>5, <1>6, <1>7, <2>2 DEF CommentsIn
    <3>2. e.counts[g] = db.counts[g]
      BY <1>0, <1>1, <1>2, <2>2 DEF Form
    <3> QED BY <2>0, <3>1, <3>2
  <2> QED BY <2>1, <2>2
<1>10. ASSUME NEW d \in Rows(e) PROVE RightRow(e, d)
  <2>0. /\ d \in Rows(db) /\ RightRow(db, d) /\ IsFiniteSet(AnswersTo(db, d))
        /\ LikesOf(e, d) = LikesOf(db, d)
    BY <1>0, <1>1, <1>5, FiniteSets DEF Right, LikesOf
  <2>1. CASE d = root
    <3>0. d # c
      BY <1>0, <2>1, EngagementAssumption DEF Snapshot, Ids
    <3>1. c \in AnswersTo(db, d) /\ AnswersTo(e, d) = AnswersTo(db, d) \ {c}
      BY <1>5, <1>6, <1>7, <2>1 DEF AnswersTo
    <3> QED BY <1>4, <2>0, <2>1, <3>0, <3>1, OneLess DEF RightRow
  <2>2. CASE d # root
    <3>1. AnswersTo(e, d) = AnswersTo(db, d)
      BY <1>5, <1>6, <1>7, <2>2 DEF AnswersTo
    <3>2. e.comments[d].likes = db.comments[d].likes
          /\ e.comments[d].replies = db.comments[d].replies
      BY <1>3, <1>4, <2>0, <2>2
    <3> QED BY <2>0, <3>1, <3>2 DEF RightRow
  <2> QED BY <2>1, <2>2
<1> QED BY <1>8, <1>9, <1>10 DEF Right, e

\* So does moderation.
LEMMA RightModerates ==
  ASSUME Typed, NEW r \in Requests, req[r] # Idle, req[r].db = db, Right(db),
         \/ RemoveComment(r) /\ Visible(db, req[r].op.comment)
         \/ DecideReport(r) /\ (db.comments[req[r].op.comment].deleted
                                \/ Visible(db, req[r].op.comment))
  PROVE  Right(db')
<1> DEFINE c == req[r].op.comment
           now == db.comments[c]
<1>0. Snapshot(db) /\ Form(db) /\ c \in Rows(db)
  BY DEF Typed, Snapshot, Form, RemoveComment, DecideReport
<1>1. now \in Comment
  BY <1>0, CommentRow DEF Rows
<1>2. CASE RemoveComment(r) /\ Visible(db, c)
  <2> DEFINE status == Write(now.status, now.status, IF req[r].op.hide THEN "hidden" ELSE "removed")
             deleted == now.deleted \/ ~req[r].op.hide
             row == [now EXCEPT !.status = status, !.deleted = deleted]
  <2>1. db' = TakeOut(db, c, row)
    BY <1>2 DEF RemoveComment
  <2>2. status \in {"hidden", "removed"} /\ deleted \in BOOLEAN
    BY <1>1, <1>2 DEF Write, Comment, Visible
  <2> HIDE DEF status, deleted, now
  <2>3. row \in Comment /\ row.root = now.root /\ row.author = now.author /\ row.key = now.key
        /\ row.likes = now.likes /\ row.replies = now.replies /\ row.status # "visible"
    BY <1>1, <2>2 DEF Comment
  <2> QED BY <1>0, <1>2, <2>1, <2>3, RightTakeOut DEF now
<1>3. CASE DecideReport(r)
  <2> DEFINE status == Write(now.status, now.status, "removed")
             row == [now EXCEPT !.status = status, !.deleted = TRUE]
  <2>1. IF now.deleted THEN db' = db ELSE db' = TakeOut(db, c, row)
    BY <1>3 DEF DecideReport
  <2>2. status \in {"visible", "hidden", "removed"}
    BY <1>1 DEF Write, Comment
  <2>4. now.deleted \/ Visible(db, c)
    BY <1>0 DEF Visible, DecideReport, RemoveComment
  <2> HIDE DEF status, now
  <2>3. row \in Comment /\ row.root = now.root /\ row.author = now.author /\ row.key = now.key
        /\ row.likes = now.likes /\ row.replies = now.replies /\ row.deleted
    BY <1>1, <2>2 DEF Comment
  <2> HIDE DEF row
  <2>5. CASE now.deleted
    BY <2>1, <2>5
  <2>6. CASE ~now.deleted
    BY <1>0, <2>1, <2>3, <2>4, <2>6, RightTakeOut DEF now
  <2> QED BY <2>5, <2>6
<1> QED BY <1>2, <1>3

\* So does a deletion: what it takes out of the rows, it takes out of the counts.
LEMMA RightDeletes ==
  ASSUME Typed, NEW r \in Requests, req[r] # Idle, req[r].db = db, Right(db),
         NEW u \in Users, Deleted(r, u)
  PROVE  Right(db')
<1> DEFINE lf == LikeField(u)
           cf == CommentField(u)
           mine == IF u \in db.likes THEN 1 ELSE 0
           seen == Seen(db, u)
           kept == {c \in Rows(db) : c \notin Own(db, u)}
           first == [db.counts EXCEPT ![lf] = Write(@, db.counts[lf], Lower(db.counts[lf], mine))]
<1>0. Snapshot(db) /\ Form(db)
  BY DEF Typed, Snapshot, Form
<1>1. /\ Form(db') /\ db'.likes = db.likes \ (db.likes \cap {u})
      /\ db'.liked = db.liked \ OwnCommentLikes(db, u)
      /\ \A c \in Ids : db'.comments[c] = IF c \notin Rows(db) THEN db.comments[c]
           ELSE Without(db, u, c)
      /\ db'.counts = [first EXCEPT ![cf] = Write(db.counts[cf], db.counts[cf],
                                                  Lower(db.counts[cf], Cardinality(seen)))]
  BY DEF Deleted
<1>2. /\ lf \in LikeFields /\ cf \in CommentFields /\ LikeFields \subseteq Fields
      /\ CommentFields \subseteq Fields /\ LikeFields \cap CommentFields = {}
  BY DEF LikeField, CommentField, LikeFields, CommentFields, Fields
<1>3. ASSUME NEW c \in Rows(db)
      PROVE  /\ db'.comments[c] \in Comment
             /\ db'.comments[c].author = db.comments[c].author
             /\ db'.comments[c].root = db.comments[c].root
             /\ Visible(db', c) <=> Visible(db, c) /\ c \notin Own(db, u)
             /\ db'.comments[c].likes =
                   Lower(db.comments[c].likes, IF <<c, u>> \in db.liked THEN 1 ELSE 0)
             /\ db'.comments[c].replies =
                   Lower(db.comments[c].replies,
                         Cardinality({d \in seen : db.comments[d].root = c}))
  <2>1. db'.comments[c] = Without(db, u, c) /\ c \in Rows(req[r].db) \cap Rows(db)
    BY <1>1 DEF Rows
  <2>2. /\ Without(db, u, c) \in Comment
        /\ Without(db, u, c).root = db.comments[c].root
        /\ Without(db, u, c).author = db.comments[c].author
        /\ Without(db, u, c).status =
              IF c \in Own(db, u)
                THEN Write(db.comments[c].status, db.comments[c].status, "removed")
              ELSE db.comments[c].status
        /\ Without(db, u, c).deleted <=> (db.comments[c].deleted \/ c \in Own(db, u))
        /\ Without(db, u, c).likes =
              Write(db.comments[c].likes, db.comments[c].likes,
                    Lower(db.comments[c].likes, IF <<c, u>> \in db.liked THEN 1 ELSE 0))
        /\ Without(db, u, c).replies =
              Write(db.comments[c].replies, db.comments[c].replies,
                    Lower(db.comments[c].replies,
                          Cardinality({d \in Seen(db, u) : db.comments[d].root = c})))
    <3>1. LosesRow(req[r].db, u, c)
      BY <2>1, WithoutRow
    <3>2. LosesRow(db, u, c)
      BY <3>1
    <3> QED BY <3>2 DEF LosesRow
  <2>3. \A m, n : Write(m, m, n) = n
    BY DEF Write
  <2>4. Visible(db', c) <=> Visible(db, c) /\ c \notin Own(db, u)
    BY <2>1, <2>2 DEF Visible
  <2> QED BY <2>1, <2>2, <2>3, <2>4
<1>4. Rows(db') = Rows(db)
  <2>1. ASSUME NEW c \in Ids PROVE c \in Rows(db') <=> c \in Rows(db)
    <3>1. CASE c \in Rows(db)
      BY <1>1, <1>3, <3>1, CommentRow
    <3>2. CASE c \notin Rows(db)
      BY <1>1, <3>2 DEF Rows
    <3> QED BY <3>1, <3>2
  <2> QED BY <2>1 DEF Rows
<1>5. \A m, n : Write(m, m, n) = n
  BY DEF Write
<1>6. ASSUME NEW g \in LikeFields PROVE db'.counts[g] = Cardinality(LikersIn(db', g))
  <2>0. db.counts[g] = Cardinality(LikersIn(db, g)) /\ IsFiniteSet(LikersIn(db, g))
        /\ db.counts[g] \in Nat
    BY <1>0, <1>2, FiniteSets DEF Right, Form
  <2>1. CASE g = lf
    <3>1. db'.counts[g] = Lower(db.counts[g], mine)
      BY <1>0, <1>1, <1>2, <1>5, <2>1 DEF Form
    <3>2. LikersIn(db', g) = LikersIn(db, g) \ (db.likes \cap {u})
          /\ db.likes \cap {u} \subseteq LikersIn(db, g)
      BY <1>1, <2>1 DEF LikersIn
    <3>3. Cardinality(db.likes \cap {u}) = mine
      <4>1. CASE u \in db.likes
        <5>1. db.likes \cap {u} = {u}
          BY <4>1
        <5> QED BY <4>1, <5>1, FS_Singleton
      <4>2. CASE u \notin db.likes
        <5>1. db.likes \cap {u} = {}
          BY <4>2
        <5> QED BY <4>2, <5>1, FS_EmptySet
      <4> QED BY <4>1, <4>2
    <3> QED BY <2>0, <3>1, <3>2, <3>3, SomeLess
  <2>2. CASE g # lf
    <3>1. db'.counts[g] = db.counts[g]
      BY <1>0, <1>1, <1>2, <2>2 DEF Form
    <3>2. LikersIn(db', g) = LikersIn(db, g)
      BY <1>1, <2>2 DEF LikersIn
    <3> QED BY <2>0, <3>1, <3>2
  <2> QED BY <2>1, <2>2
<1>7. ASSUME NEW g \in CommentFields PROVE db'.counts[g] = Cardinality(CommentsIn(db', g))
  <2>0. db.counts[g] = Cardinality(CommentsIn(db, g)) /\ IsFiniteSet(CommentsIn(db, g))
        /\ db.counts[g] \in Nat
    BY <1>0, <1>2, FiniteSets DEF Right, Form
  <2>1. CASE g = cf
    <3>1. db'.counts[g] = Lower(db.counts[g], Cardinality(seen))
      BY <1>0, <1>1, <1>2, <1>5, <2>1 DEF Form
    <3>2. CommentsIn(db', g) = CommentsIn(db, g) \ seen /\ seen \subseteq CommentsIn(db, g)
      BY <1>3, <1>4, <2>1 DEF CommentsIn, Seen, Own
    <3> HIDE DEF seen
    <3> QED BY <2>0, <3>1, <3>2, SomeLess
  <2>2. CASE g # cf
    <3>1. db'.counts[g] = db.counts[g]
      BY <1>0, <1>1, <1>2, <2>2 DEF Form
    <3>2. CommentsIn(db', g) = CommentsIn(db, g)
      <4>1. \A c \in Rows(db) : CommentField(db.comments[c].author) = g => c \notin Own(db, u)
        BY <2>2 DEF Own
      <4>2. \A c \in Rows(db) : /\ db'.comments[c].author = db.comments[c].author
                                /\ Visible(db', c) <=> Visible(db, c) /\ c \notin Own(db, u)
        BY <1>3
      <4> QED BY <1>4, <4>1, <4>2 DEF CommentsIn
    <3> QED BY <2>0, <3>1, <3>2
  <2> QED BY <2>1, <2>2
<1>8. ASSUME NEW c \in Rows(db') PROVE RightRow(db', c)
  <2>0. /\ c \in Rows(db) /\ RightRow(db, c)
        /\ IsFiniteSet(LikesOf(db, c)) /\ IsFiniteSet(AnswersTo(db, c))
    BY <1>0, <1>4, FiniteSets DEF Right
  <2>1. db'.comments[c].replies = Cardinality(AnswersTo(db', c))
    <3> DEFINE less == {d \in seen : db.comments[d].root = c}
    <3>1. less \subseteq AnswersTo(db, c)
      BY DEF AnswersTo, Seen, Own
    <3>2. AnswersTo(db', c) = AnswersTo(db, c) \ less
      BY <1>3, <1>4 DEF AnswersTo, Seen, Own
    <3>3. db'.comments[c].replies = Lower(db.comments[c].replies, Cardinality(less))
      BY <1>3, <2>0
    <3> HIDE DEF less
    <3> QED BY <2>0, <3>1, <3>2, <3>3, SomeLess DEF RightRow
  <2>2. db'.comments[c].likes = Cardinality(LikesOf(db', c))
    <3> DEFINE less == db.liked \cap {<<c, u>>}
    <3>1. less \subseteq LikesOf(db, c)
      BY DEF LikesOf
    <3>2. LikesOf(db', c) = LikesOf(db, c) \ less
      <4>1. ASSUME NEW p \in db.liked, p[1] = c PROVE p[2] = u <=> p = <<c, u>>
        BY <1>0, <4>1 DEF Form
      <4> QED BY <1>1, <4>1 DEF LikesOf, OwnCommentLikes
    <3>3. Cardinality(less) = IF <<c, u>> \in db.liked THEN 1 ELSE 0
      <4>1. CASE <<c, u>> \in db.liked
        <5>1. less = {<<c, u>>}
          BY <4>1
        <5> HIDE DEF less
        <5> QED BY <4>1, <5>1, FS_Singleton
      <4>2. CASE <<c, u>> \notin db.liked
        <5>1. less = {}
          BY <4>2
        <5> HIDE DEF less
        <5> QED BY <4>2, <5>1, FS_EmptySet
      <4> HIDE DEF less
      <4> QED BY <4>1, <4>2
    <3>4. db'.comments[c].likes = Lower(db.comments[c].likes, Cardinality(less))
      <4> HIDE DEF less
      <4> QED BY <1>3, <2>0, <3>3
    <3> HIDE DEF less
    <3> QED BY <2>0, <3>1, <3>2, <3>4, SomeLess DEF RightRow
  <2> QED BY <2>1, <2>2 DEF RightRow
<1> QED BY <1>6, <1>7, <1>8 DEF Right

\* After a reconciliation that nothing overlaps, they are right.
LEMMA RightReconciles ==
  ASSUME Typed, NEW r \in Requests, req[r] # Idle, req[r].db = db, Reconcile(r), db.video # "gone"
  PROVE  Right(db')
<1>0. Snapshot(db) /\ Form(db)
  BY DEF Typed, Snapshot, Form
<1>1. /\ Form(db') /\ db'.likes = db.likes /\ db'.liked = db.liked
      /\ \A c \in Ids : db'.comments[c] =
            IF c \notin Rows(db) THEN db.comments[c] ELSE CountedRow(db, c)
      /\ \A c \in Ids : IF c \in Rows(db) THEN db'.comments[c] \in Comment
                        ELSE db'.comments[c] = NoRow
      /\ \A f \in Fields : db'.counts[f] = Write(db.counts[f], db.counts[f], Counts(db)[f])
  BY ReconcilesAll
<1>2. \A m, n : Write(m, m, n) = n
  BY DEF Write
<1>3. Rows(db') = Rows(db)
  BY <1>1, CommentRow DEF Rows
<1>4. ASSUME NEW c \in Rows(db)
      PROVE  /\ db'.comments[c].author = db.comments[c].author
             /\ db'.comments[c].root = db.comments[c].root
             /\ Visible(db', c) <=> Visible(db, c)
             /\ db'.comments[c].likes = CommentLikes(db, c)
             /\ db'.comments[c].replies = Replies(db, c)
  <2>1. c \in Ids /\ db.comments[c] \in Comment
    BY <1>0, CommentRow DEF Rows
  <2> DEFINE likes == CommentLikes(db, c)
             replies == Replies(db, c)
  <2>2. db'.comments[c] = [db.comments[c] EXCEPT !.likes = likes, !.replies = replies]
    <3>1. db'.comments[c] = CountedRow(db, c)
      BY <1>1, <2>1
    <3>2. /\ Write(db.comments[c].likes, db.comments[c].likes, likes) = likes
          /\ Write(db.comments[c].replies, db.comments[c].replies, replies) = replies
      BY <1>2
    <3> QED BY <3>1, <3>2, Zenon DEF CountedRow
  <2> HIDE DEF likes, replies
  <2>3. /\ db'.comments[c].author = db.comments[c].author
        /\ db'.comments[c].root = db.comments[c].root
        /\ db'.comments[c].status = db.comments[c].status
        /\ db'.comments[c].deleted = db.comments[c].deleted
        /\ db'.comments[c].likes = likes
        /\ db'.comments[c].replies = replies
    BY <2>1, <2>2 DEF Comment
  <2> QED BY <2>3 DEF likes, replies, Visible
<1>5. /\ \A f : LikersIn(db', f) = LikersIn(db, f) /\ CommentsIn(db', f) = CommentsIn(db, f)
      /\ \A c : LikesOf(db', c) = LikesOf(db, c) /\ AnswersTo(db', c) = AnswersTo(db, c)
  BY <1>1, <1>3, <1>4, SameCounting
<1>6. LikeFields \subseteq Fields /\ CommentFields \subseteq Fields
  BY DEF LikeFields, CommentFields, Fields
<1>7. /\ \A f \in LikeFields : db'.counts[f] = Cardinality(LikersIn(db, f))
      /\ \A f \in CommentFields : db'.counts[f] = Cardinality(CommentsIn(db, f))
  BY <1>0, <1>1, <1>2, <1>6, CountsOf
<1>8. \A c \in Rows(db) : /\ db'.comments[c].likes = Cardinality(LikesOf(db, c))
                          /\ db'.comments[c].replies = Cardinality(AnswersTo(db, c))
  BY <1>0, <1>4, CountsOf
<1> QED BY <1>3, <1>5, <1>7, <1>8 DEF Right, RightRow

-----------------------------------------------------------------------------
\* Unless something may have made them drift, the counters are right.
CountInv == exact /\ db.video # "gone" => Right(db)

\* Every step keeps them so.
LEMMA CountNext == Typed /\ CountInv /\ [Next]_vars => CountInv'
<1> SUFFICES ASSUME Typed, CountInv, [Next]_vars, exact', db'.video # "gone" PROVE Right(db')
  BY DEF CountInv, Right, RightRow, LikersIn, CommentsIn, LikesOf, AnswersTo, Rows, Visible
<1>1. CASE UNCHANGED <<db, exact>>
  BY <1>1 DEF CountInv
<1>2. ASSUME NEW r \in Requests, req[r] # Idle,
             \/ LikeVideo(r) \/ LikeComment(r) \/ CreateComment(r) \/ RemoveComment(r)
             \/ DecideReport(r) \/ DeleteAccount(r)
      PROVE  Right(db')
  <2>1. db.video # "gone"
    BY <1>2, FormLikes, FormCreates, FormCommentLikes, FormModerates, FormDeletes DEF Grown
  <2>2. exact /\ req[r].alone
    BY <1>2 DEF LikeVideo, CreateComment, LikeComment, RemoveComment, DecideReport, DeleteAccount,
                Counted
  <2>3. req[r].db = db /\ Right(db)
    BY <1>2, <2>1, <2>2, RunningRequest DEF CountInv
  <2>4. CASE LikeVideo(r)
    BY <1>2, <2>3, <2>4, RightLikes
  <2>5. CASE LikeComment(r)
    BY <1>2, <2>3, <2>5, RightCommentLikes
  <2>6. CASE CreateComment(r)
    BY <1>2, <2>3, <2>6, RightCreates
  <2>7. CASE RemoveComment(r)
    <3>1. Visible(db, req[r].op.comment)
      BY <2>3, <2>7 DEF RemoveComment, Counted
    <3> QED BY <1>2, <2>3, <2>7, <3>1, RightModerates
  <2>8. CASE DecideReport(r)
    <3>1. db.comments[req[r].op.comment].deleted \/ Visible(db, req[r].op.comment)
      BY <2>3, <2>8 DEF DecideReport, Counted
    <3> QED BY <1>2, <2>3, <2>8, <3>1, RightModerates
  <2>9. CASE DeleteAccount(r)
    <3>1. req[r].op.actor \in Users
      BY <1>2, <2>9, RunningRequest DEF DeleteAccount, Ops
    <3>2. Deleted(r, req[r].op.actor)
      BY <1>2, <2>9, DeletesOne
    <3> QED BY <1>2, <2>3, <3>1, <3>2, RightDeletes
  <2> QED BY <1>2, <2>4, <2>5, <2>6, <2>7, <2>8, <2>9
<1>3. ASSUME NEW r \in Requests, req[r] # Idle, WithdrawVideo(r) PROVE Right(db')
  <2>1. db' = [db EXCEPT !.video = "withdrawn"] /\ db.video # "gone" /\ exact
    BY <1>3 DEF WithdrawVideo
  <2>2. db'.likes = db.likes /\ db'.liked = db.liked /\ db'.comments = db.comments
        /\ db'.counts = db.counts
    BY <2>1 DEF Typed, Snapshot
  <2>3. Right(db)
    BY <2>1 DEF CountInv
  <2> QED BY <2>2, <2>3 DEF Right, RightRow, LikersIn, CommentsIn, LikesOf, AnswersTo, Rows,
      Visible
<1>4. ASSUME NEW r \in Requests, req[r] # Idle, Reconcile(r) PROVE Right(db')
  <2>1. req[r].alone /\ db.video # "gone"
    BY <1>4, FormReconciles DEF Reconcile, Grown
  <2> QED BY <1>4, <2>1, RunningRequest, RightReconciles
<1>5. CASE \E r \in Requests : (\E op \in Ops : Begin(r, op)) \/ Refuse(r)
  BY <1>1, <1>5 DEF Begin, Refuse
<1>6. CASE UNCHANGED vars
  BY <1>1, <1>6 DEF vars
<1> QED BY <1>2, <1>3, <1>4, <1>5, <1>6 DEF Next, Running

\* They are right at the start.
LEMMA CountInit == Init => CountInv
<1> SUFFICES ASSUME Init PROVE Right(db)
  BY DEF CountInv
<1>1. Rows(db) = {} /\ db.likes = {}
      /\ db.counts = [likes |-> 0, seedLikes |-> 0, comments |-> 0, seedComments |-> 0]
  BY DEF Init, Rows
<1>2. \A f : LikersIn(db, f) = {} /\ CommentsIn(db, f) = {}
  BY <1>1 DEF LikersIn, CommentsIn
<1> QED BY <1>1, <1>2, FS_EmptySet DEF Right, LikeFields, CommentFields

\* The counters say how many rows there are.
THEOREM CountersAreExact == Spec => []CountsAreRight
<1>1. Typed /\ CountInv => CountsAreRight
  BY RightCounts DEF CountInv, CountsAreRight, Typed
<1> QED BY <1>1, TypedInit, TypedNext, CountInit, CountNext, PTL DEF Spec

\* The rows, the counters and the requests keep their types.
THEOREM EngagementTypes == Spec => []TypeOK
BY TypedInit, TypedNext, TypesHold, PTL DEF Spec
=============================================================================
