------------------------ MODULE RecommendationPools ------------------------
(***************************************************************************)
(* The recommendation pools in Redis: how workers rebuild them, and how    *)
(* one viewer's pages are drawn from them, recorded as seen and counted.   *)
(*                                                                         *)
(* A rebuild loads the published rows and then replaces, level by level,   *)
(* the pool and its set of new items through shadow keys that every        *)
(* rebuild shares.  A page is drawn level by level from whatever the pools *)
(* hold at that time.                                                      *)
(***************************************************************************)
EXTENDS Naturals, FiniteSets, FiniteSetsExt, FeedParameters

VARIABLES
    rows,      \* rows[i]: NoRow, or its level (0: not labelled), new or not, shown or not
    pool,      \* content:level:<l>
    fresh,     \* content:level:<l>:new
    shadow,    \* content:level:<l>:_shadow
    shadowNew, \* content:level:<l>:_shadow:new
    build,     \* build[w]: a rebuild under way
    built,     \* history: what the last promoted rebuild of a level loaded for it
    solo,      \* history: no two rebuilds have overlapped
    req,       \* req[r]: a page under way
    seen,      \* user:seen of the viewer: the key pages use and the key reports use
    counted,   \* rec:counted of the viewer
    stats,     \* recommend_stats
    calm,      \* history: no two pages overlapped, no page was lost on its way, and no
               \* record expired
    clientReport, \* feature_seen_client_report: only reports mark items as seen
    changes    \* changes, reports and failures so far

poolVars == <<rows, pool, fresh, shadow, shadowNew, build, built, solo>>
viewerVars == <<req, seen, counted, stats, calm, clientReport>>
vars == <<rows, pool, fresh, shadow, shadowNew, build, built, solo,
          req, seen, counted, stats, calm, clientReport, changes>>

Ids == 1..MaxItems
Levs == 1..Levels
Row == [level : 0..Levels, new : BOOLEAN, shown : BOOLEAN]
Idle == [pc |-> "idle"]
Building == {w \in Builders : build[w] # Idle}
Running == {r \in Requests : req[r] # Idle}

TypeOK ==
    /\ rows \in [Ids -> Row \cup {NoRow}]
    /\ pool \in [Levs -> SUBSET Ids] /\ fresh \in [Levs -> SUBSET Ids]
    /\ shadow \in [Levs -> SUBSET Ids] /\ shadowNew \in [Levs -> SUBSET Ids]
    /\ built \in [Levs -> SUBSET Ids] /\ {solo, calm, clientReport} \subseteq BOOLEAN
    /\ seen \in [{"page", "report"} -> SUBSET Ids] /\ counted \subseteq Ids
    /\ stats \in [Ids -> Nat] /\ changes \in 0..MaxChanges

Init ==
    /\ rows = [i \in Ids |-> NoRow]
    /\ pool = [l \in Levs |-> {}] /\ fresh = pool /\ shadow = pool /\ shadowNew = pool
    /\ built = pool /\ solo = TRUE
    /\ build = [w \in Builders |-> Idle]
    /\ req = [r \in Requests |-> Idle]
    /\ seen = [k \in {"page", "report"} |-> {}] /\ counted = {}
    /\ stats = [i \in Ids |-> 0]
    /\ clientReport \in BOOLEAN
    /\ calm = TRUE /\ changes = 0

Spend == changes < MaxChanges /\ changes' = changes + 1

\* A row is published, labelled, withdrawn, or grows older than the window.
ChangeRow(i, row) ==
    /\ Spend
    /\ row # rows[i]
    /\ rows' = [rows EXCEPT ![i] = row]
    /\ UNCHANGED <<pool, fresh, shadow, shadowNew, build, built, solo, viewerVars>>

-----------------------------------------------------------------------------
(* A rebuild                                                               *)

Shown == {i \in Ids : rows[i] # NoRow /\ rows[i].shown}
Bucket(l) == {i \in Shown : rows[i].level = l}

\* build_all_pools, with the rows that can be played.
Load(w) ==
    /\ build[w] = Idle
    /\ build' = [build EXCEPT ![w] =
          [pc |-> "clear", level |-> 1,
           all |-> [l \in Levs |-> Bucket(l)],
           new |-> [l \in Levs |-> {i \in Bucket(l) : rows[i].new}]]]
    /\ solo' = (solo /\ Building = {})
    /\ UNCHANGED <<rows, pool, fresh, shadow, shadowNew, built, viewerVars, changes>>

At(w, pc) == build[w].pc = pc
To(w, pc) == build' = [build EXCEPT ![w].pc = pc]
NextLevel(w) ==
    LET b == build[w] IN
    build' = [build EXCEPT ![w] = IF b.level = Levels THEN Idle
                                  ELSE [b EXCEPT !.pc = "clear", !.level = b.level + 1]]

\* shadow_rebuild
KeptShadow(keys, l) == keys

ClearedShadow(keys, l) == [keys EXCEPT ![l] = {}]

ClearShadow(w) ==
    LET l == build[w].level IN
    /\ At(w, "clear") /\ To(w, "fill")
    /\ shadow' = ClearedShadow(shadow, l)
    /\ shadowNew' = ClearedShadow(shadowNew, l)
    /\ UNCHANGED <<rows, pool, fresh, built, solo, viewerVars, changes>>

FillShadow(w) ==
    LET l == build[w].level IN
    /\ At(w, "fill") /\ To(w, "fill_new")
    /\ shadow' = [shadow EXCEPT ![l] = @ \cup build[w].all[l]]
    /\ UNCHANGED <<rows, pool, fresh, shadowNew, built, solo, viewerVars, changes>>

FillNew(w) ==
    LET l == build[w].level IN
    /\ At(w, "fill_new") /\ To(w, "validate")
    /\ shadowNew' = [shadowNew EXCEPT ![l] = @ \cup build[w].new[l]]
    /\ UNCHANGED <<rows, pool, fresh, shadow, built, solo, viewerVars, changes>>

\* shadow_validate: an empty level is passed over, and keeps its pool.
Validate(w) ==
    /\ At(w, "validate")
    /\ IF shadow[build[w].level] = {} THEN NextLevel(w) ELSE To(w, "exists")
    /\ UNCHANGED <<rows, pool, fresh, shadow, shadowNew, built, solo, viewerVars, changes>>

Exists(w) ==
    /\ At(w, "exists")
    /\ To(w, IF shadowNew[build[w].level] = {} THEN "promote" ELSE "promote_both")
    /\ UNCHANGED <<rows, pool, fresh, shadow, shadowNew, built, solo, viewerVars, changes>>

\* shadow_promote: a transaction of renames; one whose source is gone fails, the other is
\* done all the same, and the rebuild ends there.
Promote(w) ==
    LET l == build[w].level
        both == At(w, "promote_both")
        ok == shadow[l] # {} /\ (both => shadowNew[l] # {})
    IN  /\ At(w, "promote") \/ both
        /\ pool' = IF shadow[l] = {} THEN pool ELSE [pool EXCEPT ![l] = shadow[l]]
        /\ fresh' = IF ~both THEN [fresh EXCEPT ![l] = {}]
                    ELSE IF shadowNew[l] = {} THEN fresh
                    ELSE [fresh EXCEPT ![l] = shadowNew[l]]
        /\ shadow' = [shadow EXCEPT ![l] = {}]
        /\ shadowNew' = IF both THEN [shadowNew EXCEPT ![l] = {}] ELSE shadowNew
        /\ built' = [built EXCEPT ![l] = build[w].all[l]]
        /\ IF ok THEN NextLevel(w) ELSE build' = [build EXCEPT ![w] = Idle]
        /\ UNCHANGED <<rows, solo, viewerVars, changes>>

\* The worker dies, or Redis does not answer.
StopBuild(w) ==
    /\ build[w] # Idle
    /\ Spend
    /\ build' = [build EXCEPT ![w] = Idle]
    /\ UNCHANGED <<rows, pool, fresh, shadow, shadowNew, built, solo, viewerVars>>

-----------------------------------------------------------------------------
(* A page: post_video, _build_redis_recommend_ids                          *)

Ask(r) ==
    /\ req[r] = Idle
    /\ req' = [req EXCEPT ![r] = [pc |-> "draw", stage |-> 1, ids |-> {}, rewind |-> FALSE,
                                  items |-> {}, uncounted |-> {}]]
    /\ calm' = (calm /\ Running = {})
    /\ UNCHANGED <<poolVars, seen, counted, stats, clientReport, changes>>

\* The quotas level by level, then the gap from the highest level down, then again without
\* regard to what was seen.
StageLevel(n) == IF n <= Levels THEN n
                 ELSE IF n <= 2 * Levels THEN 2 * Levels + 1 - n ELSE n - 2 * Levels
Gap(q) == IF Cardinality(q.ids) < Target THEN Target - Cardinality(q.ids) ELSE 0
Need(q) == IF q.stage <= Levels THEN Quotas[q.stage] ELSE Gap(q)

Unseen(S) == S \ seen["page"]

\* _rec_sample_level, _rec_sample_from_key: a random draw that may find fewer than there are.
Sampled(q) ==
    LET l == StageLevel(q.stage)
        from == IF q.stage <= 2 * Levels THEN Unseen(fresh[l] \cup pool[l])
                ELSE pool[l]
    IN  {S \in SUBSET (from \ q.ids) : Cardinality(S) <= Need(q)}

Draw(r) ==
    LET q == req[r] IN
    /\ q.pc = "draw"
    /\ \E S \in Sampled(q) :
          req' = [req EXCEPT ![r] =
             LET ids == q.ids \cup S
                 done == q.stage = 3 * Levels
                         \/ (q.stage >= 2 * Levels /\ Cardinality(ids) >= Target)
             IN  [q EXCEPT !.ids = ids, !.stage = q.stage + 1,
                           !.rewind = q.stage > 2 * Levels,
                           !.pc = IF done THEN "build" ELSE "draw"]]
    /\ UNCHANGED <<poolVars, seen, counted, stats, calm, clientReport, changes>>

\* The template keeps the first Target of what was drawn; what cannot be built is left out,
\* and a page without items is an error.
BuildItems(r) ==
    LET q == req[r]
        drawn == {S \in SUBSET q.ids :
                     Cardinality(S) = IF Cardinality(q.ids) < Target THEN Cardinality(q.ids)
                                      ELSE Target}
    IN  /\ q.pc = "build"
        /\ \E S \in drawn :
              req' = [req EXCEPT ![r] = IF S \cap Shown = {} THEN Idle
                        ELSE [q EXCEPT !.pc = "mark", !.items = S \cap Shown]]
        /\ UNCHANGED <<poolVars, seen, counted, stats, calm, clientReport, changes>>

\* _write_user_seen of every item, unless the clients report what they play.
MarkSeen(r) ==
    LET q == req[r] IN
    /\ q.pc = "mark"
    /\ seen' = IF clientReport THEN seen ELSE [seen EXCEPT !["page"] = @ \cup q.items]
    /\ req' = [req EXCEPT ![r] = IF q.rewind THEN Idle ELSE [q EXCEPT !.pc = "filter"]]
    /\ UNCHANGED <<poolVars, counted, stats, calm, clientReport, changes>>

AllItems(items) == items

\* _record_recommend_stats, in three steps.
Uncounted(items) == items \ counted

FilterCounted(r) ==
    /\ req[r].pc = "filter"
    /\ req' = [req EXCEPT ![r].pc = "count", ![r].uncounted = Uncounted(req[r].items)]
    /\ UNCHANGED <<poolVars, seen, counted, stats, calm, clientReport, changes>>

Count(r) ==
    /\ req[r].pc = "count"
    /\ stats' = [i \in Ids |-> IF i \in req[r].uncounted THEN stats[i] + 1 ELSE stats[i]]
    /\ req' = [req EXCEPT ![r].pc = "mark_counted"]
    /\ UNCHANGED <<poolVars, seen, counted, calm, clientReport, changes>>

MarkCounted(r) ==
    /\ req[r].pc = "mark_counted"
    /\ counted' = counted \cup req[r].uncounted
    /\ req' = [req EXCEPT ![r] = Idle]
    /\ UNCHANGED <<poolVars, seen, stats, calm, clientReport, changes>>

\* The process dies, Redis or the database fails: the page, or the rest of its records, is
\* lost.
Lose(r) ==
    /\ req[r] # Idle
    /\ Spend
    /\ req' = [req EXCEPT ![r] = Idle]
    /\ calm' = FALSE
    /\ UNCHANGED <<poolVars, seen, counted, stats, clientReport>>

\* post_impression and post_seen record a play under the key without a locale.
Report(i) ==
    /\ Spend
    /\ i \in Shown
    /\ seen' = [seen EXCEPT !["report"] = @ \cup {i}]
    /\ UNCHANGED <<poolVars, req, counted, stats, calm, clientReport>>

\* clean_expired_seen and the time to live of the keys.
Expire(i) ==
    /\ Spend
    /\ seen' = [k \in DOMAIN seen |-> seen[k] \ {i}]
    /\ counted' = counted \ {i}
    /\ calm' = FALSE
    /\ UNCHANGED <<poolVars, req, stats, clientReport>>

Next ==
    \/ \E i \in Ids : \/ \E row \in Row : ChangeRow(i, row)
                      \/ Report(i) \/ Expire(i)
    \/ \E w \in Builders : \/ Load(w) \/ ClearShadow(w) \/ FillShadow(w) \/ FillNew(w)
                           \/ Validate(w) \/ Exists(w) \/ Promote(w) \/ StopBuild(w)
    \/ \E r \in Requests : \/ Ask(r) \/ Draw(r) \/ BuildItems(r) \/ MarkSeen(r)
                           \/ FilterCounted(r) \/ Count(r) \/ MarkCounted(r) \/ Lose(r)

Spec == Init /\ [][Next]_vars

-----------------------------------------------------------------------------
\* Readers never meet a pool that is half rebuilt: while rebuilds do not overlap, the pool of
\* a level is what one rebuild loaded for it, even when earlier rebuilds died on their way,
\* and its new items are among its items.
PoolsAreWhole == solo => \A l \in Levs : pool[l] = built[l] /\ fresh[l] \subseteq pool[l]

\* A viewer adds at most one to the count of an item, while the pages do not overlap and
\* none is lost between the count and its record.
CountedOnce == calm => \A i \in Ids : stats[i] <= 1
=============================================================================
