---------------------------- MODULE SocialGraph ----------------------------
(***************************************************************************)
(* Follows, blocks and reports between accounts, and the decisions on the  *)
(* reports.                                                                *)
(*                                                                         *)
(* A request checks what its snapshot shows and commits the rows and       *)
(* columns that it changes; a unique key refuses a row made meanwhile, and *)
(* a deletion by a condition takes what is there at its time.              *)
(***************************************************************************)
EXTENDS Naturals, FiniteSets, GraphParameters

VARIABLES
    db,       \* the rows: see Init
    req,      \* req[r]: a request under way
    begun,    \* requests begun
    crossed,  \* history: a follow and a block between two accounts have overlapped
    heard     \* history: reports not answered: no decision came after them

vars == <<db, req, begun, crossed, heard>>

Two == {p \in People \X People : p[1] # p[2]}
Idle == [op |-> [kind |-> "idle"]]

Report == [status : {"pending", "actioned", "dismissed"}, reviewed : BOOLEAN, crossed : BOOLEAN]

TypeOK ==
    /\ db.enabled \subseteq People /\ db.tokens \subseteq People
    /\ db.follows \subseteq Two /\ db.blocks \subseteq Two /\ db.notes \subseteq Two
    /\ db.reports \in [Two -> Report \cup {NoRow}]
    /\ begun \in 0..MaxBegun /\ crossed \in BOOLEAN /\ heard \subseteq Two

Init ==
    /\ db = [enabled |-> People,       \* users.enabled
             tokens |-> People,        \* user_tokens: who is logged in
             follows |-> {},           \* follows: <<follower, followee>>
             blocks |-> {},            \* user_blocks: <<blocker, blocked>>
             notes |-> {},             \* social_notifications: <<recipient, follower>>
             reports |-> [p \in Two |-> NoRow]]  \* content_reports: <<reporter, target>>
    /\ req = [r \in Requests |-> Idle]
    /\ begun = 0 /\ crossed = FALSE /\ heard = {}

Back(p) == <<p[2], p[1]>>

\* users_blocked_between
BlockedBetween(d, p) == p \in d.blocks \/ Back(p) \in d.blocks

\* blocked_peer_ids: whose follows, comments, works and notifications a reader does not see.
Hidden(d, u) == {v \in People \ {u} : BlockedBetween(d, <<u, v>>)}

-----------------------------------------------------------------------------
(* Requests                                                                *)

Ops == [kind : {"follow", "unfollow", "block", "unblock"}, pair : Two]
       \cup [kind : {"report"}, pair : Two, comment : BOOLEAN]
       \cup [kind : {"decide"}, pair : Two, action : {"none", "dismiss", "disable"}]

Running == {r \in Requests : req[r] # Idle}

Begin(r, op) ==
    /\ req[r] = Idle /\ begun < MaxBegun
    /\ op.kind # "decide" => op.pair[1] \in db.tokens \cap db.enabled
    /\ begun' = begun + 1
    /\ req' = [req EXCEPT ![r] = [op |-> op, db |-> db]]
    /\ UNCHANGED <<db, crossed, heard>>

Refuse(r) ==
    /\ req[r] # Idle
    /\ req' = [req EXCEPT ![r] = Idle]
    /\ UNCHANGED <<db, begun, crossed, heard>>

Commit(r, new) ==
    /\ db' = new
    /\ req' = [req EXCEPT ![r] = Idle]
    /\ UNCHANGED begun

Involves(p, kinds) ==
    \E q \in Running : req[q].op.kind \in kinds /\ req[q].op.pair \in {p, Back(p)}

\* _notify: one notification per follower for ever, and none for a seed account.
FollowNote(s, p) == {Back(p)} \ (s.notes \cup (SeedPeople \X People))

\* post_follow and _follow: the second also notifies; an integrity error of either row loses
\* both.
Follow(r) ==
    LET p == req[r].op.pair
        s == req[r].db
        notes == FollowNote(s, p)
    IN  /\ req[r].op.kind = "follow"
        /\ p[2] \in s.enabled /\ ~BlockedBetween(s, p)
        /\ \E new \in {{}, notes} :
              Commit(r, IF p \in s.follows \/ p \in db.follows \/ new \cap db.notes # {} THEN db
                        ELSE [db EXCEPT !.follows = @ \cup {p}, !.notes = @ \cup new])
        /\ crossed' = (crossed \/ Involves(p, {"block"})
                       \/ BlockedBetween(db, p) # BlockedBetween(s, p))
        /\ UNCHANGED heard

Unfollow(r) ==
    /\ req[r].op.kind = "unfollow"
    /\ Commit(r, [db EXCEPT !.follows = @ \ {req[r].op.pair}])
    /\ UNCHANGED <<crossed, heard>>

BrokenOneWay(p) == {p}

Broken(p) == {p, Back(p)}

\* block_user ends the follows both ways.
Block(r) ==
    LET p == req[r].op.pair IN
    /\ req[r].op.kind = "block"
    /\ p[2] \in req[r].db.enabled
    /\ p \in req[r].db.blocks \/ p \notin db.blocks
    /\ Commit(r, [db EXCEPT !.blocks = IF p \in req[r].db.blocks THEN @ ELSE @ \cup {p},
                            !.follows = @ \ Broken(p)])
    /\ crossed' = (crossed \/ Involves(p, {"follow"}))
    /\ UNCHANGED heard

Unblock(r) ==
    /\ req[r].op.kind = "unblock"
    /\ Commit(r, [db EXCEPT !.blocks = @ \ {req[r].op.pair}])
    /\ UNCHANGED <<crossed, heard>>

-----------------------------------------------------------------------------
(* Reports                                                                 *)

ReopenedAsItWas(row) == row

\* What a report sent again changes; the report of a comment leaves the old review in it.
Reopened(row) == [row EXCEPT !.status = "pending"]

\* create_report and report_comment; a status that the snapshot shows as pending already is
\* not written.
SendReport(r) ==
    LET p == req[r].op.pair
        old == req[r].db.reports[p]
        row == db.reports[p]
        overlap == row # old \/ Involves(p, {"decide"})
        to == IF row = NoRow
                 THEN [status |-> "pending", reviewed |-> FALSE, crossed |-> FALSE]
              ELSE [(IF old.status = "pending" THEN row ELSE Reopened(row)) EXCEPT
                      !.reviewed = IF req[r].op.comment \/ ~old.reviewed THEN @ ELSE FALSE,
                      !.crossed = @ \/ overlap]
    IN  /\ req[r].op.kind = "report"
        /\ req[r].op.comment \/ p[2] \in req[r].db.enabled
        /\ (old = NoRow) = (row = NoRow)
        /\ Commit(r, [db EXCEPT !.reports[p] = to])
        /\ heard' = heard \cup {p}
        /\ UNCHANGED crossed

\* decide_report; disabling takes the sessions that are there at its time.
DecideReport(r) ==
    LET p == req[r].op.pair
        action == req[r].op.action
        status == IF action = "dismiss" THEN "dismissed" ELSE "actioned"
        old == req[r].db.reports[p]
        row == db.reports[p]
        off == IF action = "disable" THEN {p[2]} ELSE {}
        to == [row EXCEPT !.status = IF old.status = status THEN @ ELSE status,
                          !.reviewed = TRUE,
                          !.crossed = @ \/ row # old \/ Involves(p, {"report"})]
    IN  /\ req[r].op.kind = "decide"
        /\ old # NoRow
        /\ Commit(r, [db EXCEPT !.reports[p] = to, !.enabled = @ \ off, !.tokens = @ \ off])
        /\ heard' = heard \ {p}
        /\ UNCHANGED crossed

Next ==
    \E r \in Requests :
        \/ \E op \in Ops : Begin(r, op)
        \/ Refuse(r) \/ Follow(r) \/ Unfollow(r) \/ Block(r) \/ Unblock(r)
        \/ SendReport(r) \/ DecideReport(r)

Spec == Init /\ [][Next]_vars

-----------------------------------------------------------------------------
\* Nobody follows an account that has blocked them or that they have blocked, whatever was
\* followed, blocked and unblocked, unless a follow overlapped a block between the two.
BlockedDoNotFollow ==
    ~crossed => \A u \in People : \A v \in Hidden(db, u) : <<u, v>> \notin db.follows

\* A report that no decision has come after waits for one, however often it was sent and
\* decided before, unless sending it overlapped a decision on it.
ReportIsHeard ==
    \A p \in heard : ~db.reports[p].crossed => db.reports[p].status = "pending"
=============================================================================
