------------------------ MODULE RecommendationCycle ------------------------
(***************************************************************************)
(* One account's recommendations where they come from the database: the    *)
(* pool in its order, the items played in this cycle and the last played   *)
(* ones in Redis, and the cursor row that the first pages move.            *)
(*                                                                         *)
(* A request reads the pool, reads the played items, perhaps ends the      *)
(* cycle, and serves a page; each reads what is there at its time.  A page *)
(* asked for with the cursor of an earlier one neither ends a cycle nor    *)
(* moves the row.                                                          *)
(***************************************************************************)
EXTENDS Naturals, Sequences, FiniteSets, FiniteSetsExt, SequencesExt, FeedParameters

VARIABLES
    pool,       \* what the query finds, in the order of the feed
    tutorial,   \* the item of the pool that is pinned, or 0
    seen,       \* impression:<user>: played in this cycle
    recent,     \* impression:recent:<user>: the last played, latest first
    cursor,     \* recommend_cursors
    redis,      \* whether Redis answers
    req,        \* req[r]: a request under way
    screen,     \* what the client was last given
    next,       \* the cursor it was given with it
    played,     \* history: played since the last reset
    alone,      \* history: no two requests overlapped, and nothing else moved while one was
                \* under way
    changes     \* changes of the pool and failures of Redis

vars == <<pool, tutorial, seen, recent, cursor, redis, req, screen, next, played, alone, changes>>

Ids == 1..MaxItems
Idle == [pc |-> "idle"]
Running == {r \in Requests : req[r] # Idle}

TypeOK ==
    /\ pool \in Seq(Ids) /\ tutorial \in Ids \cup {0}
    /\ seen \subseteq Ids /\ recent \in Seq(Ids) /\ cursor \in 0..MaxItems
    /\ redis \in BOOLEAN /\ alone \in BOOLEAN
    /\ screen \subseteq Ids /\ next \in 0..MaxItems \cup {NoRow} /\ played \subseteq Ids
    /\ \A r \in Running : req[r].pc \in {"pooled", "exhausted", "reset", "serve"}

Init ==
    /\ pool = <<>> /\ tutorial = 0 /\ seen = {} /\ recent = <<>> /\ cursor = 0
    /\ redis = TRUE
    /\ req = [r \in Requests |-> Idle]
    /\ screen = {} /\ next = NoRow
    /\ played = {} /\ alone = TRUE /\ changes = 0

Moved == alone' = (alone /\ Running = {})

\* Where an item is in a sequence that holds it once, and the sequence without it.
Place(seq, i) == CHOOSE n \in DOMAIN seq : seq[n] = i
Without(seq, i) == IF i \in Range(seq) THEN RemoveAt(seq, Place(seq, i)) ELSE seq

-----------------------------------------------------------------------------
(* The pool, Redis and the player                                          *)

\* An item appears, at the place its weight and age give it, or goes.
Publish(i, at) ==
    /\ changes < MaxChanges /\ i \notin Range(pool)
    /\ pool' = InsertAt(pool, at, i)
    /\ tutorial' \in {tutorial, i}
    /\ changes' = changes + 1
    /\ Moved
    /\ UNCHANGED <<seen, recent, cursor, redis, req, screen, next, played>>

Withdraw(i) ==
    /\ changes < MaxChanges
    /\ \E n \in DOMAIN pool : pool[n] = i /\ pool' = RemoveAt(pool, n)
    /\ tutorial' = IF tutorial = i THEN 0 ELSE tutorial
    /\ changes' = changes + 1
    /\ Moved
    /\ UNCHANGED <<seen, recent, cursor, redis, req, screen, next, played>>

RedisTurns ==
    /\ ~redis \/ changes < MaxChanges
    /\ redis' = ~redis
    /\ changes' = IF redis THEN changes + 1 ELSE changes
    /\ Moved
    /\ UNCHANGED <<pool, tutorial, seen, recent, cursor, req, screen, next, played>>

\* post_impression, mark_seen: the player reports an item it was given.
Impression(i) ==
    /\ i \in screen /\ i \in Range(pool) /\ redis
    /\ seen' = seen \cup {i}
    /\ recent' = LET l == <<i>> \o Without(recent, i) IN
                 SubSeq(l, 1, IF Len(l) < RecentLimit THEN Len(l) ELSE RecentLimit)
    /\ played' = played \cup {i}
    /\ Moved
    /\ UNCHANGED <<pool, tutorial, cursor, redis, req, screen, next, changes>>

-----------------------------------------------------------------------------
(* A page: post_video, _next_video_ids                                     *)

\* pin_tutorial
Pinned(seq, t) == IF t \in Range(seq) THEN <<t>> \o Without(seq, t) ELSE seq

\* build_feed_sequence: in the order of the pool.
Unseen(seq, s) == Range(seq) \ s

\* cursor_after_recent
AfterRecent(seq, last) ==
    LET at == {n \in DOMAIN seq : seq[n] \in Range(last)} IN
    IF at = {} THEN 0 ELSE Min(at) % Len(seq)

\* page_circular: the next items of those that are left, from the one in that place on.
Page(seq, left, from, limit) ==
    LET n == Cardinality(left)
        ahead(i) == Cardinality({j \in left : Place(seq, j) < Place(seq, i)})
    IN  {i \in left : (ahead(i) + n - (from % n)) % n < limit}

PageEnd(left, from, limit) ==
    LET n == Cardinality(left) IN
    IF left = {} THEN 0 ELSE ((from % n) + IF limit < n THEN limit ELSE n) % n

Ask(r, token) ==
    /\ req[r] = Idle
    /\ token \in {NoRow, next}
    /\ req' = [req EXCEPT ![r] =
          [pc |-> "pooled", token |-> token, pool |-> Pinned(pool, tutorial),
           seen |-> {}, from |-> NoRow]]
    /\ Moved
    /\ UNCHANGED <<pool, tutorial, seen, recent, cursor, redis, screen, next, played, changes>>

ExhaustedAnyPlayed(q) == q.token = NoRow /\ q.pool # <<>> /\ seen # {}

ExhaustedExactly(q) == q.token = NoRow /\ q.pool # <<>> /\ Range(q.pool) = seen

\* A cycle ends when all of the pool has been played, at a request without a cursor.
Exhausted(q) == q.token = NoRow /\ q.pool # <<>> /\ Range(q.pool) \subseteq seen

ListSeen(r) ==
    /\ req[r].pc = "pooled"
    /\ req' = [req EXCEPT ![r] =
          IF ~redis THEN [@ EXCEPT !.pc = "serve"]
          ELSE IF Exhausted(@) THEN [@ EXCEPT !.pc = "exhausted", !.seen = seen]
          ELSE [@ EXCEPT !.pc = "serve", !.seen = seen]]
    /\ UNCHANGED <<pool, tutorial, seen, recent, cursor, redis, screen, next, played, alone,
                   changes>>

\* Redis failing before the reset leaves the cycle as it was and the page whole.
ListRecent(r) ==
    /\ req[r].pc = "exhausted"
    /\ req' = IF redis THEN [req EXCEPT ![r].pc = "reset",
                                        ![r].from = AfterRecent(req[r].pool, recent)]
              ELSE [req EXCEPT ![r].pc = "serve", ![r].seen = {}]
    /\ UNCHANGED <<pool, tutorial, seen, recent, cursor, redis, screen, next, played, alone,
                   changes>>

\* clear_cycle
Reset(r) ==
    /\ req[r].pc = "reset"
    /\ seen' = IF redis THEN {} ELSE seen
    /\ played' = IF redis THEN {} ELSE played
    /\ req' = [req EXCEPT ![r].pc = "serve", ![r].seen = {}]
    /\ UNCHANGED <<pool, tutorial, recent, cursor, redis, screen, next, alone, changes>>

\* The page; without a cursor, the row is locked, read and moved in one transaction.
\* An empty page is an error, and the client is left with what it has.
Serve(r) ==
    LET q == req[r]
        left == Unseen(q.pool, q.seen)
        from == IF q.token # NoRow THEN q.token
                ELSE IF q.from # NoRow THEN q.from ELSE cursor
        end == PageEnd(left, from, Limit)
    IN  /\ q.pc = "serve"
        /\ req' = [req EXCEPT ![r] = Idle]
        /\ cursor' = IF q.token = NoRow THEN end ELSE cursor
        /\ screen' = IF left = {} THEN screen ELSE Page(q.pool, left, from, Limit)
        /\ next' = IF left = {} THEN next ELSE end
        /\ UNCHANGED <<pool, tutorial, seen, recent, redis, played, alone, changes>>

FirstPage(r) == Ask(r, NoRow)

Next ==
    \/ \E i \in Ids : \/ \E at \in 1..(Len(pool) + 1) : Publish(i, at)
                      \/ Withdraw(i) \/ Impression(i)
    \/ RedisTurns
    \/ \E r \in Requests :
          \/ \E token \in {NoRow} \cup 0..MaxItems : Ask(r, token)
          \/ ListSeen(r) \/ ListRecent(r) \/ Reset(r) \/ Serve(r)

Spec == Init /\ [][Next]_vars

\* A client that asks for a first page again and again, plays everything it is given, and is
\* answered.
Fairness ==
    /\ \A i \in Ids : SF_vars(Impression(i))
    /\ \E r \in Requests :
       /\ SF_vars(FirstPage(r)) /\ WF_vars(ListSeen(r)) /\ WF_vars(ListRecent(r))
       /\ WF_vars(Reset(r)) /\ WF_vars(Serve(r))

LiveSpec == Spec /\ Fairness

-----------------------------------------------------------------------------
\* A cycle that ends, when requests follow one another and nothing is played or published
\* within one, has played every item of the pool.
CycleIsWhole == [][seen # {} /\ seen' = {} /\ alone => Range(pool) \subseteq played]_vars

\* Every item that stays in the pool is given again and again.
EveryItemComesRound ==
    \A i \in Ids : <>[](i \in Range(pool) /\ redis) => []<>(i \in screen)
=============================================================================
