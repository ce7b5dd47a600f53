----------------------------- MODULE MCProgress -----------------------------
(***************************************************************************)
(* What must eventually happen, in the components whose loops the program  *)
(* keeps running: the coordinator's source generations, the normalization  *)
(* of uploads, the recommendation cycle and the localization of texts.     *)
(* They share no state, so one run checks them side by side: svc, chosen   *)
(* at the start, is the component that moves, under its own fairness.      *)
(***************************************************************************)
EXTENDS NormalizationParameters, FeedParameters, ContentParameters, TLC

CONSTANTS
    x, y, en, fr,
    Gens, Drafts, Clients, Cost, InitialCredits, MaxCrashes, None

MCSourceOf == x :> en @@ y :> fr
MCQuotas == [l \in 1..Levels |-> 1]

VARIABLES
    svc,
    gen, draft, hold, ledger, upload, remote, age, session, worker, crashes,
    norm, job, backup, nRemote,
    pool, tutorial, seen, recent, cursor, redis, req, screen, next, played, alone, changes,
    db, tWorker, scan, tChanges, calm, quiet

Source == INSTANCE SourceGeneration
Norm == INSTANCE UploadNormalization WITH remote <- nRemote
Cycle == INSTANCE RecommendationCycle
Localize == INSTANCE ContentTranslation WITH worker <- tWorker, changes <- tChanges

sourceVars == <<gen, draft, hold, ledger, upload, remote, age, session, worker, crashes>>
normVars == <<norm, job, backup, nRemote>>
cycleVars ==
    <<pool, tutorial, seen, recent, cursor, redis, req, screen, next, played, alone, changes>>
textVars == <<db, tWorker, scan, tChanges, calm, quiet>>
vars == <<svc, sourceVars, normVars, cycleVars, textVars>>

Init ==
    /\ svc \in {"source", "normalization", "cycle", "translation"}
    /\ Source!Init /\ Norm!Init /\ Cycle!Init /\ Localize!Init
    /\ svc # "translation" => db.text = x

OfSource(A) == svc = "source" /\ A /\ UNCHANGED <<svc, normVars, cycleVars, textVars>>
OfNorm(A) == svc = "normalization" /\ A /\ UNCHANGED <<svc, sourceVars, cycleVars, textVars>>
OfCycle(A) == svc = "cycle" /\ A /\ UNCHANGED <<svc, sourceVars, normVars, textVars>>
OfTexts(A) ==
    svc = "translation" /\ A /\ scan' = scan /\ UNCHANGED <<svc, sourceVars, normVars, cycleVars>>

Next == OfSource(Source!Next) \/ OfNorm(Norm!Next) \/ OfCycle(Cycle!Next) \/ OfTexts(Localize!Next)

\* The fairness that each module states.
Fairness ==
    /\ WF_vars(OfSource(Source!Tick))
    /\ WF_vars(OfSource(Source!ExpireCommit \/ Source!ExpireDeferred))
    /\ \A g \in Gens : /\ SF_vars(OfSource(Source!Claim(g)))
                       /\ WF_vars(OfSource(Source!TimePasses(g)))
    /\ \A u \in Norm!Uploads :
          /\ WF_vars(OfNorm(nRemote[u] = "running" /\ Norm!RemoteStep(u)))
          /\ WF_vars(OfNorm(Norm!Answered(u)))
    /\ \A i \in Cycle!Ids : SF_vars(OfCycle(Cycle!Impression(i)))
    /\ \A r \in Requests :
          /\ SF_vars(OfCycle(Cycle!FirstPage(r)))
          /\ WF_vars(OfCycle(Cycle!ListSeen(r))) /\ WF_vars(OfCycle(Cycle!ListRecent(r)))
          /\ WF_vars(OfCycle(Cycle!Reset(r))) /\ WF_vars(OfCycle(Cycle!Serve(r)))
    /\ WF_vars(OfTexts(Localize!Claim)) /\ WF_vars(OfTexts(Localize!Call))
    /\ WF_vars(OfTexts(Localize!Finish)) /\ WF_vars(OfTexts(Localize!Lapses))

Spec == Init /\ [][Next]_vars /\ Fairness

\* SourceGeneration: reserved Credits are settled or given back.
HoldResolves == Source!HoldResolves

\* UploadNormalization: every upload is normalized or fails.
NormalizationEnds == Norm!NormalizationEnds

\* RecommendationCycle: every item that stays in the pool is given again and again.
EveryItemComesRound == Cycle!EveryItemComesRound

\* ContentTranslation: every text that stays is translated or given up.
TextSettles == svc = "translation" => Localize!TextSettles
=============================================================================
