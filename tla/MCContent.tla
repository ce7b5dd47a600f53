------------------------------ MODULE MCContent ------------------------------
(***************************************************************************)
(* TLC instances of the components about published content: the feed, the  *)
(* recommendation, the localization of texts and the import of HTML works. *)
(* They share no state, so one run checks them side by side: svc, chosen   *)
(* at the start, is the component, or the part of it, that moves.          *)
(***************************************************************************)
EXTENDS FeedParameters, ContentParameters, HtmlParameters, TLC

CONSTANTS
    x, y, en, fr, u1, u2, u3, u4, c0, c1, c2, m,
    CycleItems,   \* bound: items published while viewers ask for pages
    CycleChanges, \* bound: changes to them
    PoolItems,    \* bound: items published while the pools are rebuilt
    PoolChanges   \* bound: changes to them, reports and failures

ASSUME BoundsAssumption ==
    CycleItems \in Nat /\ CycleChanges \in Nat /\ PoolItems \in Nat /\ PoolChanges \in Nat

MCSourceOf == x :> en @@ y :> fr
MCKinds == u1 :> "script" @@ u2 :> "style" @@ u3 :> "media" @@ u4 :> "media"
MCHome == [p \in Paths |-> u2]
Direct == [u \in Urls |-> u]
MCRedirects == {Direct, [Direct EXCEPT ![u3] = u1], [Direct EXCEPT ![u3] = u4]}
MCUses == c0 :> {} @@ c1 :> {} @@ c2 :> {m}
MCVerdicts == c0 :> "fails" @@ c1 :> "fails" @@ c2 :> "passes"
MCEarlier == {[copy |-> c2, caps |-> {}], [copy |-> c2, caps |-> {m}]}
MCQuotas == [l \in 1..Levels |-> 1]
OneRequest == {CHOOSE r \in Requests : TRUE}
OneAttempt == {CHOOSE a \in Attempts : TRUE}
OneBuilder == {CHOOSE w \in Builders : TRUE}

VARIABLES
    svc,
    fRows, now, scroll, kept, still, swamped, fChanges,
    yPool, tutorial, ySeen, recent, cursor, redis, yReq, screen, next, played, alone, yChanges,
    rows, pool, fresh, shadow, shadowNew, pBuild, built, solo, pReq, seen, counted, stats,
    pCalm, clientReport, pChanges,
    db, worker, scan, tChanges, tCalm, quiet,
    mentions, lands, build,
    active, att, packages, backup, approved, item, effects, iReq, begun, iCalm

Feed == INSTANCE PublishedFeed WITH rows <- fRows, changes <- fChanges
Cycle == INSTANCE RecommendationCycle
            WITH pool <- yPool, seen <- ySeen, req <- yReq, changes <- yChanges,
                 MaxItems <- CycleItems, MaxChanges <- CycleChanges
Pools == INSTANCE RecommendationPools
            WITH build <- pBuild, req <- pReq, calm <- pCalm, changes <- pChanges,
                 MaxItems <- PoolItems, MaxChanges <- PoolChanges
Localize == INSTANCE ContentTranslation WITH changes <- tChanges, calm <- tCalm
Package == INSTANCE HtmlPackaging
Import == INSTANCE HtmlImports WITH req <- iReq, calm <- iCalm

\* Item 1, labelled or on the first level.
FirstLevel(i) == {row \in Pools!Row : i = 1 /\ row.level =< 1}

Unmentioned == [t \in Package!TextFiles |-> {}]

feedVars == <<fRows, now, scroll, kept, still, swamped, fChanges>>
cycleVars ==
    <<yPool, tutorial, ySeen, recent, cursor, redis, yReq, screen, next, played, alone, yChanges>>
builderVars == <<rows, pool, fresh, shadow, shadowNew, pBuild, built, solo>>
viewerVars == <<pReq, seen, counted, stats, pCalm, clientReport>>
poolVars == <<builderVars, viewerVars, pChanges>>
textVars == <<db, worker, scan, tChanges, tCalm, quiet>>
packageVars == <<mentions, lands, build>>
importVars == <<active, att, packages, backup, approved, item, effects, iReq, begun, iCalm>>
vars == <<svc, feedVars, cycleVars, poolVars, textVars, packageVars, importVars>>

Init ==
    /\ svc \in {"feed", "cycle", "pools", "pages", "translation", "audit", "packaging",
                "imports", "publications"}
    /\ Feed!Init /\ Cycle!Init /\ Import!Init
    /\ Pools!Init /\ Localize!Init
    /\ svc # "pages" => clientReport
    /\ svc \notin {"translation", "audit"} => db.text = x
    /\ IF svc = "packaging" THEN TRUE ELSE lands = Direct /\ mentions = Unmentioned
    /\ Package!Init

Next ==
    /\ \/ /\ svc = "feed" /\ Feed!Next
          /\ UNCHANGED <<cycleVars, poolVars, textVars, packageVars, importVars>>
       \/ /\ svc = "cycle" /\ Cycle!Next
          /\ UNCHANGED <<feedVars, poolVars, textVars, packageVars, importVars>>
       \* Two workers rebuild the pools, or one does while one page is drawn.
       \/ /\ svc = "pools" /\ Pools!Next /\ UNCHANGED viewerVars
          /\ \A i \in Pools!Ids : rows'[i] \in {NoRow} \cup FirstLevel(i)
          /\ UNCHANGED <<feedVars, cycleVars, textVars, packageVars, importVars>>
       \/ /\ svc = "pages" /\ Pools!Next /\ solo' = solo /\ pChanges' < PoolChanges - 1
          /\ \A w \in Builders \ OneBuilder : pBuild'[w] = pBuild[w]
          /\ \A r \in Requests \ OneRequest : pReq'[r] = pReq[r]
          /\ UNCHANGED <<feedVars, cycleVars, textVars, packageVars, importVars>>
       \/ /\ svc = "translation" /\ Localize!Next /\ scan' = scan
          /\ UNCHANGED <<feedVars, cycleVars, poolVars, packageVars, importVars>>
       \/ /\ svc = "audit" /\ Localize!Next /\ worker' = worker
          /\ UNCHANGED <<feedVars, cycleVars, poolVars, packageVars, importVars>>
       \/ /\ svc = "packaging" /\ Package!Build
          /\ UNCHANGED <<feedVars, cycleVars, poolVars, textVars, importVars>>
       \* Attempts of one import, or approvals and publications of their packages.
       \/ /\ svc = "imports" /\ Import!Next /\ UNCHANGED <<iReq, approved>>
          /\ UNCHANGED <<feedVars, cycleVars, poolVars, textVars, packageVars>>
       \/ /\ svc = "publications" /\ Import!Next /\ UNCHANGED <<active, backup>>
          /\ \A a \in Attempts \ OneAttempt : att'[a] = att[a]
          /\ UNCHANGED <<feedVars, cycleVars, poolVars, textVars, packageVars>>
    /\ UNCHANGED svc

Spec == Init /\ [][Next]_vars

\* The types of all components.
TypeOK ==
    /\ svc = "feed" => Feed!TypeOK
    /\ svc = "cycle" => Cycle!TypeOK
    /\ svc \in {"pools", "pages"} => Pools!TypeOK
    /\ svc \in {"translation", "audit"} => Localize!TypeOK
    /\ svc = "packaging" => Package!TypeOK
    /\ svc \in {"imports", "publications"} => Import!TypeOK

\* PublishedFeed: a reader who scrolls to the end sees every item once.
ScrollIsExact == Feed!ScrollIsExact

\* RecommendationCycle: a cycle that ends has played the whole pool.
CycleIsWhole == Cycle!CycleIsWhole

\* RecommendationPools: readers meet no half-built pool.
PoolsAreWhole == Pools!PoolsAreWhole

\* RecommendationPools: a viewer adds at most one to the count of an item.
CountedOnce == Pools!CountedOnce

\* ContentTranslation: a ready job means that every locale is served.
ReadyIsServed == Localize!ReadyIsServed

\* ContentTranslation: the audit reports what is public.
AuditIsRight == Localize!AuditIsRight

\* HtmlPackaging: a finished package is closed.
PackageIsClosed == Package!PackageIsClosed

\* HtmlPackaging: a refusal names a reason that is in the source.
RefusalHasReason == Package!RefusalHasReason

\* HtmlImports: a preview passed in the browser and names the capabilities it uses.
PreviewIsChecked == Import!PreviewIsChecked

\* HtmlImports: a published version has one list of capabilities and one title.
VersionIsFixed == Import!VersionIsFixed
=============================================================================
