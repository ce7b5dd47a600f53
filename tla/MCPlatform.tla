----------------------------- MODULE MCPlatform -----------------------------
(***************************************************************************)
(* TLC instances of the components around the creator's jobs: uploads and  *)
(* stored media, accounts, engagement, the social graph, creator channels  *)
(* and the seed accounts.  They share no state here, so one run checks     *)
(* them side by side: svc, chosen at the start, is the component that      *)
(* moves, or the part of it that does.                                     *)
(***************************************************************************)
EXTENDS UploadParameters, ObjectParameters, AccountParameters, EngagementParameters,
        GraphParameters, ChannelParameters, SeedParameters, FiniteSets, TLC

CONSTANTS
    s1, s2, s3, o1, o2, o3, i1, i2, d1, d2, k1, k2, k3, k4, k5, x, y,
    a, b, h1, h2, h3

MCObjectsOf == s1 :> {o1} @@ s2 :> {o2} @@ s3 :> {o3}
MCKey == o1 :> k1 @@ o2 :> k1 @@ o3 :> k2 @@ i1 :> k3 @@ i2 :> k4 @@ d1 :> k5 @@ d2 :> k5
MCDeclared == o1 :> x @@ o2 :> y @@ o3 :> x @@ i1 :> x @@ i2 :> x @@ d1 :> x @@ d2 :> x

MCPolicies == {[inviter |-> 1, invitee |-> 0], [inviter |-> 0, invitee |-> 1]}
MCAuto == a :> <<h1, h2>> @@ b :> <<h1, h3>>
MCAuthor == [w \in Works |-> a]
MCElapsed == [n \in 0..HoursOfDay |-> n]

OneRequest == {CHOOSE r \in Requests : TRUE}

VARIABLES
    svc,
    session, expired, impatient, part, objects, upload, req, fin, told, count,
    oSession, row, staging, store, registered, renew, oFin, image, retire,
    provider, account, created, codes, sessions, handoff, binding, ledger, config, aReq,
    eDb, eReq, eBegun, exact,
    gDb, gReq, gBegun, crossed, heard,
    cDb, cReq, cBegun, raced, mixed,
    hour, enabled, likes, comments, run, begun, solo

Local == INSTANCE LocalUploads
Store == INSTANCE UploadSessions WITH session <- oSession, fin <- oFin
Identity == INSTANCE Accounts WITH req <- aReq
Social == INSTANCE Engagement WITH db <- eDb, req <- eReq, begun <- eBegun
Graph == INSTANCE SocialGraph WITH db <- gDb, req <- gReq, begun <- gBegun
Channels == INSTANCE CreatorChannels WITH db <- cDb, req <- cReq, begun <- cBegun
Seed == INSTANCE SocialSeed

localVars == <<session, expired, impatient, part, objects, upload, req, fin, told, count>>
storeVars == <<oSession, row, staging, store, registered, renew, oFin, image, retire>>
mediaVars == <<localVars, storeVars>>
accountVars ==
    <<provider, account, created, codes, sessions, handoff, binding, ledger, config, aReq>>
socialVars == <<eDb, eReq, eBegun, exact>>
graphVars == <<gDb, gReq, gBegun, crossed, heard>>
channelVars == <<cDb, cReq, cBegun, raced, mixed>>
seedVars == <<hour, enabled, likes, comments, run, begun, solo>>
peopleVars == <<accountVars, socialVars, graphVars, channelVars, seedVars>>
vars == <<svc, mediaVars, peopleVars>>

StoreParts == {"sessions", "images", "legacy"}
AccountParts == {"email", "google", "deletion"}
ChannelParts == {"addresses", "topics", "pins"}

Init ==
    /\ svc \in StoreParts \cup AccountParts \cup ChannelParts
               \cup {"local", "social", "graph", "seed"}
    /\ Local!Init /\ Store!Init
    /\ svc # "local" => session.declared /\ session.long /\ session.prepares /\ impatient
    /\ Identity!Init /\ Social!Init /\ Graph!Init /\ Channels!Init /\ Seed!Init
    /\ provider = "email" <=> svc = "email"
    /\ svc \notin AccountParts => config = CHOOSE p \in Policies : TRUE

StoreNext ==
    /\ Store!Next /\ UNCHANGED <<localVars, peopleVars>>
    \* Two finalize requests over the two sessions whose objects share a key.
    /\ svc = "sessions" => image' = image /\ oSession'[s3] = NoRow
    /\ svc = "images" => oSession' = oSession
    \* The objects of a legacy session are finalized and retired.
    /\ svc = "legacy" => image' = image /\ oSession'[s1] = NoRow /\ oSession'[s2] = NoRow

AccountsNext ==
    /\ Identity!Next
    /\ UNCHANGED <<mediaVars, socialVars, graphVars, channelVars, seedVars>>
    /\ svc = "email" => handoff' = handoff
    \* One account, with handoffs and changes of the policy.
    /\ svc = "google" /\ account # NoRow => account' = account
    /\ svc = "deletion" =>
          config' = config /\ (account # NoRow /\ account' # NoRow => account' = account)

\* The operations each part of the channels is about, and the fields that its updates name.
Kinds == [addresses |-> {"idle", "register", "open", "delete", "update"},
          topics |-> {"idle", "archive", "update"},
          pins |-> {"idle", "takedown", "delete", "update"}]
Named == [addresses |-> {"handle", "topics"}, topics |-> {"topics"}, pins |-> {"pins"}]

ChannelsNext ==
    /\ Channels!Next
    /\ UNCHANGED <<mediaVars, accountVars, socialVars, graphVars, seedVars>>
    /\ \A r \in Requests : LET o == cReq'[r].op IN
          /\ o.kind \in Kinds[svc]
          /\ o.kind = "update" => {k \in DOMAIN o.to : o.to[k] # Same} \subseteq Named[svc]
          /\ o.kind = "update" /\ svc = "addresses" => o.to.topics \in {Same, <<>>}
    /\ svc # "pins" => cDb'.public = cDb.public
    /\ svc # "topics" => cDb'.topic = cDb.topic
    /\ svc = "topics" => \A r \in Requests \ OneRequest : cReq'[r] = cReq[r]
    /\ svc = "pins" => cBegun' < MaxWrites

Next ==
    /\ \/ svc = "local" /\ Local!Next /\ UNCHANGED <<storeVars, peopleVars>>
       \/ svc \in StoreParts /\ StoreNext
       \/ svc \in AccountParts /\ AccountsNext
       \/ svc \in ChannelParts /\ ChannelsNext
       \/ /\ svc = "social" /\ Social!Next
          /\ UNCHANGED <<mediaVars, accountVars, graphVars, channelVars, seedVars>>
       \/ /\ svc = "graph" /\ Graph!Next
          /\ UNCHANGED <<mediaVars, accountVars, socialVars, channelVars, seedVars>>
       \/ /\ svc = "seed" /\ Seed!Next
          /\ UNCHANGED <<mediaVars, accountVars, socialVars, graphVars, channelVars>>
    /\ UNCHANGED svc

Spec == Init /\ [][Next]_vars

\* The types of all components.
TypeOK ==
    /\ svc = "local" => Local!TypeOK
    /\ svc \in StoreParts => Store!TypeOK
    /\ svc \in AccountParts => Identity!TypeOK
    /\ svc = "social" => Social!TypeOK
    /\ svc = "graph" => Graph!TypeOK
    /\ svc \in ChannelParts => Channels!TypeOK
    /\ svc = "seed" => Seed!TypeOK

\* LocalUploads: the staging file is a prefix of the client's file.
StagingIsPrefix == Local!StagingIsPrefix

\* LocalUploads: a finalized upload is the client's whole file.
UploadIsWhole == Local!UploadIsWhole

\* UploadSessions: the store holds what a ready row declares.
ReadyIsStored == Store!ReadyIsStored

\* UploadSessions: a ready object is neither taken back nor overwritten.
ReadyIsKept == Store!ReadyIsKept

\* Accounts: the ledger holds what referrals promised.
ReferralPaysWhatItPromised == Identity!ReferralPaysWhatItPromised

\* Engagement: the counters say how many rows there are.
CountsAreRight == Social!CountsAreRight

\* Engagement: a comment sent again with its key is stored once.
KeyedCommentIsOne == Social!KeyedCommentIsOne

\* SocialGraph: no follow between accounts one of which has blocked the other.
BlockedDoNotFollow == Graph!BlockedDoNotFollow

\* SocialGraph: a report that no decision has come after waits for one.
ReportIsHeard == Graph!ReportIsHeard

\* CreatorChannels: an address leads to the same creator for ever.
AddressesLast == Channels!AddressesLast

\* CreatorChannels: no creator keeps an archived topic.
ArchivedIsUnused == Channels!ArchivedIsUnused

\* SocialSeed: the ceilings hold from run to run.
CeilingsHold == Seed!CeilingsHold
=============================================================================
