-------------------------- MODULE CreatorChannels --------------------------
(***************************************************************************)
(* A creator's public address, pinned works and topics.                    *)
(*                                                                         *)
(* An update of the channel is one transaction: what any of its fields     *)
(* fails on loses all of them.  It checks what its snapshot shows, and the *)
(* unique keys of users, aliases, pins and topics check again at its end.  *)
(***************************************************************************)
EXTENDS Naturals, Sequences, FiniteSets, SequencesExt, ChannelParameters

VARIABLES
    db,       \* the rows: see Init
    req,      \* req[r]: a request under way
    begun,    \* requests begun
    raced,    \* history: requests that write addresses have overlapped
    mixed     \* history: an archiving of a topic has overlapped another or a choice of topics

vars == <<db, req, begun, raced, mixed>>

Idle == [op |-> [kind |-> "idle"]]
Chosen == {t \in UNION {[1..n -> Topics] : n \in 0..MaxTopics} : IsInjective(t)}
Pinned(u) == {w \in UNION {[1..n -> {v \in Works : Author[v] = u}] : n \in 0..Cardinality(Works)} :
                IsInjective(w)}

TypeOK ==
    /\ db.users \subseteq Creators /\ db.left \subseteq Creators
    /\ db.cooling \subseteq Creators /\ db.public \subseteq Works
    /\ db.handle \in [Creators -> Handles \cup {NoRow}]
    /\ db.alias \in [Handles -> Creators \cup {NoRow, Gone}]
    /\ \A u \in Creators : db.pins[u].list \in Pinned(u) /\ db.topics[u].list \in Chosen
    /\ db.topic \in [Topics -> {"none", "active", "disabled", "archived"}]
    /\ begun \in 0..MaxWrites /\ raced \in BOOLEAN /\ mixed \in BOOLEAN

Init ==
    /\ db = [users |-> Legacy,                           \* users
             left |-> {},                                \* deleted accounts: no id is used again
             handle |-> [u \in Creators |-> NoRow],      \* users.handle
             cooling |-> {},                             \* handle_changed_at within 30 days
             alias |-> [h \in Handles |-> NoRow],        \* creator_handle_aliases.user_id
             public |-> {},                              \* visible_video_query
             pins |-> [u \in Creators |-> [list |-> <<>>, rev |-> 0]],    \* by position
             topics |-> [u \in Creators |-> [list |-> <<>>, rev |-> 0]],  \* by position
             topic |-> [t \in Topics |-> "none"]]        \* creator_topics
    /\ req = [r \in Requests |-> Idle]
    /\ begun = 0 /\ raced = FALSE /\ mixed = FALSE

Active(d) == {t \in Topics : d.topic[t] = "active"}

-----------------------------------------------------------------------------
(* Addresses                                                               *)

\* resolve_handle
HolderOf(h) ==
    LET holders == {u \in db.users : db.handle[u] = h} IN
    IF holders # {} THEN CHOOSE u \in holders : TRUE
    ELSE IF db.alias[h] \in Creators \ db.users THEN Gone ELSE db.alias[h]

TakenNow(d, h, u) == \E v \in d.users \ {u} : d.handle[v] = h

\* _handle_taken
Taken(d, h, u) == TakenNow(d, h, u) \/ d.alias[h] \notin {NoRow, u}

\* ensure_user_handle: the account's address, or the first free one of its own.
Ensured(d, u) ==
    LET free == {n \in DOMAIN AutoHandles[u] : ~Taken(d, AutoHandles[u][n], NoRow)} IN
    IF d.handle[u] # NoRow THEN d.handle[u]
    ELSE IF free = {} THEN NoRow
    ELSE AutoHandles[u][CHOOSE n \in free : \A m \in free : n <= m]

\* check_handle_availability answers HANDLE_AVAILABLE.
Available(d, h, u) == h # Ensured(d, u) /\ ~Taken(d, h, u) /\ u \notin d.cooling

\* The unique key of users.handle.
KeyHolds(h, u) == ~TakenNow(db, h, u)

ForgottenAlias(d, old, u) == d.alias

\* What change_handle does to the aliases.
AddedAlias(d, old, u) == IF old = NoRow THEN d.alias ELSE [d.alias EXCEPT ![old] = u]

-----------------------------------------------------------------------------
(* Pins                                                                    *)

\* The positions of the rows that stay.
Visible(d, list) == {n \in DOMAIN list : list[n] \in d.public}

\* A transaction writes the new positions before it deletes rows, so that the key of
\* creator_pinned_works refuses a row that moves up to the place of one that goes.
Moves(stay) == stay # 1..Cardinality(stay)

\* Without a move, the first rows stay.
Pins(stay, u, old) ==
    IF old = db.pins[u] THEN [old EXCEPT !.list = SubSeq(@, 1, Cardinality(stay))] ELSE db.pins[u]

-----------------------------------------------------------------------------
(* Requests                                                                *)

Fields(u) == [handle : Handles \cup {Same}, pins : Pinned(u) \cup {Same}, topics : Chosen \cup {Same}]

Updates == UNION {[kind : {"update"}, by : {u}, to : Fields(u)] : u \in Creators}

Ops ==
    {o \in Updates : Cardinality({k \in DOMAIN o.to : o.to[k] # Same}) \in 1..MaxParts}
    \cup [kind : {"register", "open", "delete"}, by : Creators]
    \cup [kind : {"takedown"}, work : Works]
    \cup [kind : {"archive"}, topic : Topics, way : {"none", "remove"} \cup Topics]

Addressing(o) ==
    \/ o.kind \in {"register", "open", "delete"}
    \/ o.kind = "update" /\ (o.to.handle # Same \/ db.handle[o.by] = NoRow)

OnTopics(o) == o.kind = "archive" \/ (o.kind = "update" /\ o.to.topics # Same)

Begin(r, o) ==
    LET others == {req[q].op : q \in {q \in Requests : req[q] # Idle}} IN
    /\ req[r] = Idle /\ begun < MaxWrites
    /\ o.kind \in {"update", "open", "delete"} => o.by \in db.users
    /\ begun' = begun + 1
    /\ req' = [req EXCEPT ![r] = [op |-> o, db |-> db]]
    /\ raced' = (raced \/ (Addressing(o) /\ \E p \in others : Addressing(p)))
    /\ mixed' = (mixed \/ \E p \in others : \/ o.kind = "archive" /\ OnTopics(p)
                                            \/ p.kind = "archive" /\ OnTopics(o))
    /\ UNCHANGED db

Commit(r, new) ==
    /\ db' = new
    /\ req' = [req EXCEPT ![r] = Idle]
    /\ UNCHANGED <<begun, raced, mixed>>

Refuse(r) ==
    /\ req[r] # Idle
    /\ Commit(r, db)

\* get_or_create_user and apply_user_update create an account with its address.
Register(r) ==
    LET u == req[r].op.by
        h == Ensured(req[r].db, u)
    IN  /\ req[r].op.kind = "register"
        /\ u \notin req[r].db.users \cup db.users \cup db.left
        /\ h # NoRow /\ KeyHolds(h, u)
        /\ Commit(r, [db EXCEPT !.users = @ \cup {u}, !.handle[u] = h])

\* get_channel, get_creator and list_creators: a read that cleans up what it finds.
Open(r) ==
    LET u == req[r].op.by
        s == req[r].db
        stay == Visible(s, s.pins[u].list)
        h == Ensured(s, u)
    IN  /\ req[r].op.kind = "open"
        /\ u \in db.users /\ h # NoRow /\ (s.handle[u] # NoRow \/ KeyHolds(h, u))
        /\ ~Moves(stay)
        /\ Commit(r, [db EXCEPT !.handle[u] = IF s.handle[u] = NoRow THEN h ELSE @,
                                !.pins[u] = Pins(stay, u, s.pins[u])])

AnyTopic(d, list) == Range(list) \subseteq {t \in Topics : d.topic[t] # "none"}

\* replace_topics chooses among the active ones.
Choosable(d, list) == Range(list) \subseteq Active(d)

\* _apply_update and, for topics alone, set_creator_topics.
Update(r) ==
    LET u == req[r].op.by
        to == req[r].op.to
        s == req[r].db
        old == Ensured(s, u)
        new == IF to.handle = Same THEN old ELSE to.handle
        renamed == new # old
        stay == Visible(s, s.pins[u].list)
    IN  /\ req[r].op.kind = "update"
        /\ u \in db.users /\ old # NoRow
        /\ renamed => Available(s, new, u)
        /\ to.topics # Same => Choosable(s, to.topics)
        /\ to.pins # Same => Range(to.pins) \subseteq s.public
        /\ ~Moves(stay)
        /\ KeyHolds(new, u) /\ (renamed => db.alias[old] = NoRow)
        /\ Commit(r, [db EXCEPT
              !.handle[u] = IF new = s.handle[u] THEN @ ELSE new,
              !.alias = IF renamed THEN AddedAlias(db, old, u) ELSE @,
              !.cooling = IF renamed THEN @ \cup {u} ELSE @,
              !.topics[u] = IF to.topics = Same THEN @ ELSE [list |-> to.topics, rev |-> begun],
              !.pins[u] = IF to.pins = Same THEN Pins(stay, u, s.pins[u])
                          ELSE [list |-> to.pins, rev |-> begun]])

\* Thirty days after a change.
Cooled(u) ==
    /\ u \in db.cooling
    /\ db' = [db EXCEPT !.cooling = @ \ {u}]
    /\ UNCHANGED <<req, begun, raced, mixed>>

\* delete_account_data keeps the address for nobody.
Delete(r) ==
    LET u == req[r].op.by
        h == req[r].db.handle[u]
        reserved == h # NoRow /\ req[r].db.alias[h] = NoRow
    IN  /\ req[r].op.kind = "delete"
        /\ u \in db.users /\ (reserved => db.alias[h] = NoRow)
        /\ Commit(r, [db EXCEPT
              !.users = @ \ {u}, !.left = @ \cup {u}, !.handle[u] = NoRow, !.cooling = @ \ {u},
              !.alias = IF reserved THEN [db.alias EXCEPT ![h] = Gone] ELSE db.alias,
              !.public = {w \in @ : Author[w] # u},
              !.pins[u] = [list |-> <<>>, rev |-> begun],
              !.topics[u] = [list |-> <<>>, rev |-> begun]])

-----------------------------------------------------------------------------
(* Works                                                                   *)

Publish(w) ==
    /\ Author[w] \in db.users /\ w \notin db.public
    /\ db' = [db EXCEPT !.public = @ \cup {w}]
    /\ UNCHANGED <<req, begun, raced, mixed>>

\* unpin_video with the takedown it is part of: by the creator, by an operator or by a report.
TakeDown(r) ==
    LET w == req[r].op.work
        u == Author[w]
        old == req[r].db.pins[u]
        stay == {n \in DOMAIN old.list : old.list[n] # w}
    IN  /\ req[r].op.kind = "takedown"
        /\ w \in req[r].db.public
        /\ IF Moves(stay)
           THEN Commit(r, db)
           ELSE Commit(r, [db EXCEPT !.public = @ \ {w}, !.pins[u] = Pins(stay, u, old)])

-----------------------------------------------------------------------------
(* Topics                                                                  *)

\* create_topic and update_topic, which also brings an archived topic back.
SetTopic(t, on) ==
    /\ on \/ db.topic[t] = "active"
    /\ db' = [db EXCEPT !.topic[t] = IF on THEN "active" ELSE "disabled"]
    /\ UNCHANGED <<req, begun, raced, mixed>>

\* archive_topic in the topics of one creator.
Reassigned(list, t, way) ==
    IF way \in Topics \ Range(list) THEN [n \in DOMAIN list |-> IF list[n] = t THEN way ELSE list[n]]
    ELSE RemoveAt(list, CHOOSE n \in DOMAIN list : list[n] = t)

\* A row rewritten that somebody has replaced meanwhile fails the transaction.
Archive(r) ==
    LET t == req[r].op.topic
        way == req[r].op.way
        old == req[r].db.topics
        users == {u \in Creators : t \in Range(old[u].list)}
        new(u) == Reassigned(old[u].list, t, way)
    IN  /\ req[r].op.kind = "archive" /\ req[r].db.topic[t] # "none"
        /\ users # {} => way # "none" /\ (way \in Topics => way # t /\ way \in Active(req[r].db))
        /\ \A u \in users : old[u] = db.topics[u] \/ IsPrefix(new(u), old[u].list)
        /\ Commit(r, [db EXCEPT
              !.topics = [u \in Creators |-> IF u \in users /\ old[u] = db.topics[u]
                                             THEN [list |-> new(u), rev |-> begun] ELSE @[u]],
              !.topic[t] = "archived"])

Next ==
    \/ \E r \in Requests :
          \/ \E o \in Ops : Begin(r, o)
          \/ Refuse(r) \/ Register(r) \/ Open(r) \/ Update(r) \/ Delete(r) \/ TakeDown(r)
          \/ Archive(r)
    \/ \E u \in Creators : Cooled(u)
    \/ \E w \in Works : Publish(w)
    \/ \E t \in Topics : \E on \in BOOLEAN : SetTopic(t, on)

Spec == Init /\ [][Next]_vars

-----------------------------------------------------------------------------
\* Once an address leads to a creator it leads to no other, however many times they rename
\* and after they leave, unless requests that write addresses have overlapped.
AddressesLast ==
    [][\A h \in Handles : ~raced' /\ HolderOf(h) # NoRow => HolderOf(h)' \in {HolderOf(h), Gone}]_vars

\* No creator keeps an archived topic, whatever was replaced by what, unless the archiving
\* overlapped another or a choice of topics.
ArchivedIsUnused ==
    ~mixed => \A u \in Creators : \A t \in Range(db.topics[u].list) : db.topic[t] # "archived"
=============================================================================
