---------------------------- MODULE StoryEndings ----------------------------
(***************************************************************************)
(* The Story of one creation whose source video is accepted: its plan, the *)
(* endings B and C generated for it, the cut that makes its opening A and, *)
(* if the source's tail is reused, one of the endings, the versions made   *)
(* of all three, and their edits, previews and publication.                *)
(*                                                                         *)
(* A request decides on the snapshot it took when its token was read and   *)
(* commits the columns it changed; the plan is one column.  The            *)
(* coordinator ticks one ending at a time: it locks the creation, reading  *)
(* its latest row, but sees the other endings and the versions as its      *)
(* snapshot has them, and lets go of its locks when it commits a cut.      *)
(***************************************************************************)
EXTENDS Naturals, Sequences, FiniteSets, StoryParameters

VARIABLES
    db,       \* the rows: see Init
    req,      \* req[r]: the snapshot of a request under way
    begun,    \* requests begun
    tick,     \* the coordinator's tick of one ending
    blind     \* history: what has been decided on a Story that had changed: see Blind

vars == <<db, req, begun, tick, blind>>

Roles == {"B", "C"}
Gens == RequestIds \X Roles  \* named by their request id "story:<request>:<role>"
Active == {"queued", "running"}
Lost == {"failed", "cancelled"}

NoGen == [status |-> "none", cancel |-> FALSE, job |-> FALSE, upload |-> FALSE,
          hold |-> "none", input |-> NoRow]
NoTick == [pc |-> "idle", g |-> NoRow, locked |-> FALSE, held |-> FALSE, db |-> NoRow]

\* video_input: what an ending is made from.
VideoInput(v, role) == [owner |-> v.owner, prompt |-> v.prompt[role]]

Plan == [rev : 1..MaxRevisions, values : PlanValues, preset : Presets,
         status : {"draft", "generating", "partial_failure", "ready"}, ids : [Roles -> Gens \cup {NoRow}],
         cut : {"whole", NoRow} \cup Roles, requests : SUBSET RequestIds]
Input == {VideoInput(v, role) : v \in PlanValues, role \in Roles}
Gen == [status : {"none", "ready"} \cup Active \cup Lost, cancel : BOOLEAN, job : BOOLEAN,
        upload : BOOLEAN, hold : {"none", "reserved", "settled", "released"},
        input : Input \cup {NoRow}]
Version == [cut : {"whole"} \cup Roles, ids : [Roles -> Gens \cup {NoRow}], preset : Presets,
            rev : 1..MaxRevisions, edited : BOOLEAN, seen : SUBSET Roles,
            status : {"ready", "published"}]

TypeOK ==
    /\ db.plan = NoRow \/ db.plan \in Plan
    /\ db.creation.status \in {"source_ready", "running", "ready", "pending_review", "abandoned"}
    /\ db.creation.story \in BOOLEAN
    /\ db.creation.active \in 0..Len(db.versions)
    /\ db.gen \in [Gens -> Gen]
    /\ \A n \in 1..Len(db.versions) : db.versions[n] \in Version
    /\ tick.pc \in {"idle", "claimed", "read", "cutting", "cut", "work", "fail", "failing"}

Init ==
    /\ db = [plan |-> NoRow,  \* story_plan
             creation |-> [status |-> "source_ready", story |-> FALSE, active |-> 0],
             gen |-> [g \in Gens |-> NoGen],  \* creator_source_generations of kind B and C
             versions |-> <<>>]               \* creator_versions, by number
    /\ req = [r \in Requests |-> NoRow]
    /\ begun = 0
    /\ tick = NoTick
    /\ blind = {}

-----------------------------------------------------------------------------
(* Sessions                                                                *)

\* A column, or a row, that the session that read s and wrote t leaves in the database.
Flush(s, t, current) == IF t = s THEN current ELSE t
FlushRow(s, t, current) == [c \in DOMAIN current |-> Flush(s[c], t[c], current[c])]

Added(s, t) == {g \in Gens : s.gen[g].status = "none" /\ t.gen[g].status # "none"}

\* Rows whose unique keys were taken meanwhile: the attempt or the request id of a
\* generation, the number of a version.
Conflict(s, t) ==
    \/ Added(s, t) # {} /\ Added(s, db) # {}
    \/ Len(t.versions) > Len(s.versions) /\ Len(db.versions) > Len(s.versions)

FlushVersions(s, t) ==
    LET longer == IF Len(t.versions) > Len(s.versions) THEN t.versions ELSE db.versions
    IN  [n \in DOMAIN longer |-> IF n > Len(s.versions) THEN longer[n]
                                 ELSE FlushRow(s.versions[n], t.versions[n], db.versions[n])]

Committed(s, t) ==
    [plan |-> Flush(s.plan, t.plan, db.plan),
     creation |-> FlushRow(s.creation, t.creation, db.creation),
     gen |-> [g \in Gens |-> FlushRow(s.gen[g], t.gen[g], db.gen[g])],
     versions |-> FlushVersions(s, t)]

-----------------------------------------------------------------------------
(* app/creator_story.py on a session's view d                              *)

Release(row) == [row EXCEPT !.hold = IF @ = "reserved" THEN "released" ELSE @]
Settle(row) == [row EXCEPT !.hold = IF @ = "reserved" THEN "settled" ELSE @]

\* story_out: how far the clip of a role is.
ClipStatus(d, role) ==
    IF role = d.plan.values.owner
    THEN IF d.plan.cut = NoRow THEN "pending" ELSE "ready"
    ELSE IF d.plan.ids[role] = NoRow \/ d.gen[d.plan.ids[role]].status = "none"
    THEN "pending" ELSE d.gen[d.plan.ids[role]].status

\* The version that sync_story makes of the plan's clips.
Made(p) == [cut |-> p.cut, ids |-> p.ids, preset |-> p.preset, rev |-> p.rev,
            edited |-> FALSE]
MadeOf(v) == [cut |-> v.cut, ids |-> v.ids, preset |-> v.preset, rev |-> v.rev,
              edited |-> v.edited]

\* The version of this signature, or the next one.
Numbered(d) ==
    LET same == {n \in DOMAIN d.versions : MadeOf(d.versions[n]) = Made(d.plan)}
    IN  IF same = {} THEN Len(d.versions) + 1 ELSE CHOOSE n \in same : TRUE

NewVersion(d) ==
    [cut |-> d.plan.cut, ids |-> d.plan.ids, preset |-> d.plan.preset,
     rev |-> d.plan.rev, edited |-> FALSE, seen |-> {}, status |-> "ready"]

SyncStory(d) ==
    IF \/ ~d.creation.story \/ d.plan = NoRow
       \/ d.creation.status \in {"abandoned", "pending_review"}
    THEN d
    ELSE IF d.plan.status = "draft" THEN d
    ELSE IF \E role \in Roles : ClipStatus(d, role) \in Lost
    THEN [d EXCEPT !.plan.status = "partial_failure", !.creation.status = "source_ready"]
    ELSE IF d.plan.cut # NoRow /\ \A role \in Roles : ClipStatus(d, role) = "ready"
    THEN [d EXCEPT !.plan.status = "ready", !.creation.status = "ready",
                   !.creation.active = Numbered(d),
                   !.versions = IF Numbered(d) > Len(@) THEN Append(@, NewVersion(d)) ELSE @]
    ELSE [d EXCEPT !.plan.status = "generating", !.creation.status = "running"]

-----------------------------------------------------------------------------
(* Requests                                                                *)

\* require_creator_user reads the token.
Begin(r) ==
    /\ req[r] = NoRow /\ begun < MaxHandled
    /\ req' = [req EXCEPT ![r] = db] /\ begun' = begun + 1
    /\ UNCHANGED <<db, tick, blind>>

\* Refused, conflicting, timed out waiting for a lock, or without effect.
RequestEnds(r) ==
    /\ req[r] # NoRow
    /\ req' = [req EXCEPT ![r] = NoRow]
    /\ UNCHANGED <<db, begun, tick, blind>>

\* Rows the coordinator has locked make the request's update wait.
Waits(s, t) == \/ tick.held /\ [t EXCEPT !.versions = s.versions] # s
               \/ tick.locked /\ t.gen[tick.g] # s.gen[tick.g]

\* What the Story is decided on, and who decided it, if that has changed meanwhile: its
\* plan or endings, or its status.
Blind(who, s, t) ==
    IF t.plan = s.plan /\ t.gen = s.gen /\ t.creation = s.creation THEN blind
    ELSE blind
         \cup (IF db.plan # s.plan \/ \E g \in Gens : db.gen[g].status # s.gen[g].status
                  THEN {who} ELSE {})
         \cup (IF db.creation.status # s.creation.status THEN {"status"} ELSE {})

Respond(r, t) ==
    /\ ~Waits(req[r], t) /\ ~Conflict(req[r], t)
    /\ db' = Committed(req[r], t)
    /\ req' = [req EXCEPT ![r] = NoRow]
    /\ blind' = Blind("request", req[r], t)
    /\ UNCHANGED <<begun, tick>>

Editable(d) == d.creation.status \notin {"pending_review", "abandoned"}

KeptAll(p, v) == [role \in Roles |-> IF p # NoRow THEN p.ids[role] ELSE NoRow]

\* The endings whose input the new values leave as it was.
Kept(p, v) ==
    [role \in Roles |-> IF p # NoRow
                           THEN IF VideoInput(p.values, role) = VideoInput(v, role)
                                   THEN p.ids[role] ELSE NoRow
                           ELSE NoRow]

\* save_plan from a client that has seen the revision it replaces.
Planned(p, v, preset) ==
    [rev |-> IF p = NoRow THEN 1 ELSE p.rev + 1, values |-> v, preset |-> preset,
     status |-> "draft", ids |-> Kept(p, v),
     cut |-> IF v.owner = NoRow THEN "whole"
             ELSE IF p # NoRow /\ p.values.owner = v.owner THEN p.cut ELSE NoRow,
     requests |-> IF p = NoRow THEN {} ELSE p.requests]

SaveStoryPlan(r, v, preset) ==
    LET s == req[r]
    IN  /\ s # NoRow /\ Editable(s)
        /\ IF s.plan # NoRow /\ s.plan.values = v /\ s.plan.preset = preset
              THEN Respond(r, [s EXCEPT !.creation.story = TRUE])
              ELSE /\ s.plan # NoRow => s.plan.rev < MaxRevisions
                   /\ Respond(r, [s EXCEPT !.plan = Planned(s.plan, v, preset),
                                           !.creation.story = TRUE, !.creation.status = "source_ready"])

\* The endings a request generates: not the source's tail, not one that is ready unless it
\* is to be made again.
Selected(d, targets, operation) ==
    {role \in targets \ {d.plan.values.owner} :
        operation = "regenerate" \/ ClipStatus(d, role) # "ready"}

Generated(d, id, chosen) ==
    [d EXCEPT !.gen = [g \in Gens |->
                         IF g \in {id} \X chosen
                         THEN [NoGen EXCEPT !.status = "queued", !.hold = "reserved",
                                            !.input = VideoInput(d.plan.values, g[2])]
                         ELSE @[g]],
              !.plan.ids = [role \in Roles |-> IF role \in chosen THEN <<id, role>> ELSE @[role]],
              !.plan.requests = @ \cup {id}, !.plan.status = "generating",
              !.creation.story = TRUE, !.creation.status = "running"]

\* start_generation for the plan's revision and an unused request id.
GenerateStoryEndings(r, id, targets, operation) ==
    LET s == req[r]
    IN  /\ s # NoRow /\ Editable(s) /\ s.plan # NoRow
        /\ id \notin s.plan.requests
        /\ \A role \in targets \ {s.plan.values.owner} :
              /\ ClipStatus(s, role) \notin Active
              /\ operation = "retry" => ClipStatus(s, role) \in Lost
        /\ LET chosen == Selected(s, targets, operation)
           IN  /\ \A role \in chosen : s.gen[<<id, role>>].status = "none"
               /\ Respond(r, SyncStory(Generated(s, id, chosen)))

\* confirm_story_preview: the list of paths is written whole.
ConfirmStoryPreview(r, path) ==
    LET s == req[r]
    IN  /\ s # NoRow
        /\ s.creation.status = "ready" /\ s.creation.active # 0
        /\ s.versions[s.creation.active].status = "ready"
        /\ Respond(r, [s EXCEPT !.versions[s.creation.active].seen = @ \cup {path}])

\* save_manual_edits of the latest version, whose paths the client says it has seen.
SaveManualEdits(r, preset) ==
    LET s == req[r]
        n == Len(s.versions)
    IN  /\ s # NoRow
        /\ s.creation.status = "ready"
        /\ n > 0 /\ s.versions[n].status = "ready"
        /\ Cardinality({k \in 1..n : s.versions[k].edited}) < MaxEdits
        /\ Respond(r, [s EXCEPT !.versions = Append(@, [@[n] EXCEPT !.preset = preset,
                                                       !.edited = TRUE, !.seen = Roles]),
                                !.creation.active = n + 1, !.creation.status = "ready",
                                !.plan.preset = preset])

\* _cancel_pending_story_generations
Stopped(row) ==
    IF row.status = "queued" /\ ~row.job
    THEN Release([row EXCEPT !.status = "cancelled"])
    ELSE IF row.status \in Active THEN [row EXCEPT !.cancel = TRUE] ELSE row

Current(d) == {d.plan.ids[role] : role \in Roles} \ {NoRow}

CancelPending(d) ==
    IF d.plan = NoRow THEN d
    ELSE [d EXCEPT !.gen = [g \in Gens |-> IF g \in Current(d) THEN Stopped(@[g]) ELSE @[g]]]

\* cancel_creation of a Story; a cancellation the coordinator has to carry out shows.
CancelCreation(r) ==
    LET s == req[r]
        t == SyncStory(CancelPending(s))
    IN  /\ s # NoRow /\ s.plan # NoRow
        /\ \E g \in Current(s) : s.gen[g].status \in Active
        /\ Respond(r, IF \E g \in Current(t) : t.gen[g].cancel
                         THEN [t EXCEPT !.creation.status = "running"] ELSE t)

AbandonCreation(r) ==
    LET s == req[r]
    IN  /\ s # NoRow /\ s.creation.status # "pending_review"
        /\ Respond(r, [CancelPending(s) EXCEPT !.creation.status = "abandoned"])

\* publish_creation of a Story.
Publishable(d) ==
    /\ d.creation.status = "ready" /\ d.creation.active # 0
    /\ d.versions[d.creation.active].status = "ready"
    /\ d.versions[d.creation.active].seen = Roles

PublishCreation(r) ==
    LET s == req[r]
    IN  /\ s # NoRow /\ Publishable(s)
        /\ Respond(r, [s EXCEPT !.creation.status = "pending_review",
                                !.versions[s.creation.active].status = "published"])

-----------------------------------------------------------------------------
(* The coordinator                                                         *)

\* The session of the tick: the creation's latest row, which it locks, and the rest as its
\* transaction first saw it.
View == [tick.db EXCEPT !.plan = db.plan, !.creation = db.creation]

\* _claim_next_source on a queued ending: committed, and the row let go.
ClaimQueued(g) ==
    /\ tick.pc = "idle" /\ db.gen[g].status = "queued"
    /\ db' = SyncStory([db EXCEPT !.gen[g].status = "running"])
    /\ tick' = [NoTick EXCEPT !.pc = "claimed", !.g = g]
    /\ UNCHANGED <<req, begun, blind>>

\* What a new transaction of the tick goes on with.
After == [claimed |-> "read", cut |-> "work", fail |-> "failing"]

\* A transaction of the tick takes its snapshot, in a claim of a running ending with the row
\* locked.
Read ==
    /\ \/ tick.pc \in DOMAIN After
          /\ tick' = [tick EXCEPT !.pc = After[@], !.db = db]
       \/ \E g \in Gens :
             /\ tick.pc = "idle" /\ db.gen[g].status = "running"
             /\ tick' = [pc |-> "read", g |-> g, locked |-> TRUE, held |-> FALSE, db |-> db]
    /\ UNCHANGED <<db, req, begun, blind>>

\* prepare_assets locks the creation and asks for the cut if the plan has none.
NeedsCut(p) == p # NoRow /\ p.status # "draft" /\ p.values.owner # NoRow /\ p.cut = NoRow

Prepare ==
    /\ tick.pc = "read"
    /\ tick' = [tick EXCEPT !.pc = IF db.plan # NoRow /\ NeedsCut(db.plan)
                                      THEN "cutting" ELSE "work",
                            !.held = TRUE]
    /\ UNCHANGED <<db, req, begun, blind>>

\* The cut is done.  It is kept unless the tick's snapshot shows another revision; its
\* commit lets go of the rows.
CutDone ==
    /\ tick.pc = "cutting"
    /\ IF tick.db.plan # NoRow /\ tick.db.plan.rev = db.plan.rev
          THEN /\ db' = [db EXCEPT !.plan.cut = db.plan.values.owner]
               /\ tick' = [NoTick EXCEPT !.pc = "cut", !.g = tick.g]
          ELSE /\ tick' = [tick EXCEPT !.pc = "work"]
               /\ UNCHANGED db
    /\ UNCHANGED <<req, begun, blind>>

\* The service cannot be reached, or the coordinator dies: the transaction is gone.
Unanswered ==
    /\ tick.pc # "idle"
    /\ tick' = NoTick
    /\ UNCHANGED <<db, req, begun, blind>>

\* The 2400 s are over, the service refuses, or the tick is the victim of a deadlock with a
\* request.
Refused ==
    /\ tick.pc \in {"read", "cutting", "work"}
    /\ tick' = [NoTick EXCEPT !.pc = "fail", !.g = tick.g]
    /\ UNCHANGED <<db, req, begun, blind>>

\* What the tick writes to its row, by what it finds.
Answers(row) ==
    IF row.cancel /\ (row.upload \/ ~row.job)
    THEN {Release([row EXCEPT !.status = "cancelled"])}
    ELSE IF row.upload
    THEN {row, Settle([row EXCEPT !.status = "ready"]), Release([row EXCEPT !.status = "failed"])}
    ELSE {[row EXCEPT !.job = TRUE], [row EXCEPT !.job = TRUE, !.upload = TRUE],
          Release([row EXCEPT !.job = TRUE, !.status = "failed"])}
         \cup (IF row.cancel THEN {Release([row EXCEPT !.status = "cancelled"])} ELSE {})

\* process_source_generation ends in one commit; a key taken meanwhile fails the ending.
Apply ==
    /\ tick.pc = "work"
    /\ \E row \in Answers(View.gen[tick.g]) :
          LET t == SyncStory([View EXCEPT !.gen[tick.g] = row])
          IN  IF Conflict(View, t)
              THEN /\ tick' = [NoTick EXCEPT !.pc = "fail", !.g = tick.g]
                   /\ UNCHANGED <<db, blind>>
              ELSE /\ db' = Committed(View, t)
                   /\ tick' = NoTick
                   /\ blind' = Blind("tick", View, t)
    /\ UNCHANGED <<req, begun>>

\* _fail_source; an error of its commit leaves the process.
Fail ==
    /\ tick.pc = "failing"
    /\ LET t == SyncStory([View EXCEPT !.gen[tick.g] = Release([@ EXCEPT !.status = "failed"])])
       IN  IF Conflict(View, t)
           THEN UNCHANGED <<db, blind>>
           ELSE /\ db' = Committed(View, t)
                /\ blind' = Blind("tick", View, t)
    /\ tick' = NoTick
    /\ UNCHANGED <<req, begun>>

-----------------------------------------------------------------------------
Next ==
    \/ \E r \in Requests :
          \/ Begin(r) \/ RequestEnds(r)
          \/ \E v \in PlanValues, preset \in Presets : SaveStoryPlan(r, v, preset)
          \/ \E id \in RequestIds, targets \in (SUBSET Roles) \ {{}},
               operation \in {"generate", "retry", "regenerate"} :
                GenerateStoryEndings(r, id, targets, operation)
          \/ \E path \in Roles : ConfirmStoryPreview(r, path)
          \/ \E preset \in Presets : SaveManualEdits(r, preset)
          \/ CancelCreation(r) \/ AbandonCreation(r) \/ PublishCreation(r)
    \/ \E g \in Gens : ClaimQueued(g)
    \/ Read \/ Prepare \/ CutDone \/ Unanswered \/ Refused \/ Apply \/ Fail

Spec == Init /\ [][Next]_vars

-----------------------------------------------------------------------------
\* A Story that shows as ready is made of the plan's clips: its opening is the plan's cut and
\* each ending is the one the plan names, ready, and made from what the plan says.
ReadyStoryIsItsPlan ==
    db.creation.status = "ready" =>
        LET v == db.versions[db.creation.active]
        IN  /\ v.cut = db.plan.cut /\ v.ids = db.plan.ids
            /\ \A role \in Roles \ {db.plan.values.owner} :
                  /\ db.gen[v.ids[role]].status = "ready"
                  /\ db.gen[v.ids[role]].input = VideoInput(db.plan.values, role)

\* A Story that is being generated waits for an ending, of its plan or of an earlier one,
\* for the user to ask for one, or for its cut, which only the tick of an ending makes.
StoryIsUnderWay ==
    db.plan # NoRow /\ Editable(db) =>
        (db.plan.status = "generating" =>
            \/ db.plan.cut = NoRow
            \/ \E role \in Roles \ {db.plan.values.owner} : ClipStatus(db, role) = "pending"
            \/ \E g \in Gens : db.gen[g].status \in Active)

\* However requests and ticks of both endings interleave, a Story that is ready is what its
\* plan says, unless a request has written to a Story whose plan or endings changed after it
\* had read them; and a Story whose endings are there is not left as being generated, unless
\* a request or, after the commit of a cut, a tick has decided so on a Story that had changed.
StoryIsWhole ==
    /\ "request" \notin blind => ReadyStoryIsItsPlan
    /\ blind = {} => StoryIsUnderWay
=============================================================================
