---------------------------- MODULE HtmlImports ----------------------------
(***************************************************************************)
(* The import of an HTML work: attempts at preparing it, the backup of its *)
(* source, and its publication.                                            *)
(*                                                                         *)
(* An attempt scans its working copy, writes a manifest of its own, builds *)
(* a package and tries it in a browser; a failure there may be repaired by *)
(* a model, and the copy built again.  It tells the administration service *)
(* of each stage, and is refused once another attempt has taken its place. *)
(* A package is known by what it holds.                                    *)
(***************************************************************************)
EXTENDS HtmlParameters

VARIABLES
    active,   \* the attempt that the administration service waits for, or NoRow
    att,      \* each attempt: see Idle
    packages, \* html_packages: the uploaded packages
    backup,   \* the source's backup in private storage and its row
    approved, \* packages that an operator has tried on a device
    item,     \* the published work, or NoRow
    effects,  \* what publications cause elsewhere
    req,      \* each publication under way
    begun,    \* publications begun
    calm      \* history: no two publications have overlapped

vars == <<active, att, packages, backup, approved, item, effects, req, begun, calm>>
publishing == <<item, effects, req, begun, calm>>
service == <<active, backup, approved>>

Package == [copy : Copies, caps : SUBSET Capabilities]
Published == [package : Package, caps : SUBSET Capabilities, title : Titles]
Stages == {"idle", "validating", "extracting", "scanning", "building", "trying", "repairing",
           "uploading", "finalizing", "answered", "failed"}

\* prepare_local_source, prepare_source and the publisher's command.
Ways == {"import", "archived", "operator"}

Idle == [way |-> "import", stage |-> "idle", told |-> FALSE,
         copy |-> NoRow,        \* the files of the working copy
         manifest |-> {},       \* the capabilities that its manifest asks for
         package |-> NoRow,     \* the package built last
         builds |-> 0]

NoRequest == [read |-> NoRow, new |-> NoRow]

TypeOK ==
    /\ active \in Attempts \cup {NoRow}
    /\ att \in [Attempts -> [way : Ways, stage : Stages, told : BOOLEAN,
                             copy : Copies \cup {NoRow},
                             manifest : SUBSET Capabilities, package : Package \cup {NoRow},
                             builds : 0..MaxBuilds]]
    /\ packages \subseteq Package /\ approved \subseteq Package
    /\ backup.stored \in BOOLEAN /\ backup.row \in BOOLEAN
    /\ item \in Published \cup {NoRow}
    /\ effects.prefetched \subseteq Package /\ effects.activated \in BOOLEAN
    /\ effects.described \in Titles \cup {NoRow}
    /\ begun \in 0..MaxPublished /\ calm \in BOOLEAN

Init ==
    /\ active = NoRow /\ att = [a \in Attempts |-> Idle]
    /\ packages = Earlier /\ approved = {}
    /\ backup = [stored |-> FALSE, row |-> FALSE]
    /\ item = NoRow /\ req = [r \in Requests |-> NoRequest] /\ begun = 0 /\ calm = TRUE
    /\ effects = [prefetched |-> {}, activated |-> FALSE, described |-> NoRow]

-----------------------------------------------------------------------------
(* The attempt                                                             *)

Move(a, new) == att' = [att EXCEPT ![a] = new]

\* The stage that follows has not been announced.
To(a, stage) == [att[a] EXCEPT !.stage = stage, !.told = FALSE]

Fail(a) ==
    /\ att[a].stage \notin {"idle", "answered", "failed"}
    /\ Move(a, To(a, "failed")) /\ UNCHANGED <<service, packages, publishing>>

\* The service starts an attempt; an archived source needs its row.  The command builds
\* with the manifest of its author.
Begin(a, way, c) ==
    /\ att[a].stage = "idle"
    /\ way = "archived" => backup.row
    /\ active' = IF way = "import" THEN a ELSE active
    /\ Move(a, [To(a, IF way = "operator" THEN "building" ELSE "validating") EXCEPT
                   !.way = way, !.copy = c,
                   !.manifest = IF way = "operator" THEN Asked ELSE {}])
    /\ UNCHANGED <<packages, backup, approved, publishing>>

\* _notify_progress: the service answers 409 to an attempt that it no longer waits for;
\* an answer that is lost, or a service that is down, changes nothing.
Tell(a) ==
    /\ att[a].stage \notin {"idle", "answered", "failed"} /\ ~att[a].told
    /\ \/ Move(a, [att[a] EXCEPT !.told = TRUE])
       \/ /\ att[a].way = "import" /\ active # a
          /\ Move(a, To(a, "failed"))
    /\ UNCHANGED <<service, packages, publishing>>

Told(a, stage) == att[a].stage = stage /\ att[a].told

Only(a, new) == Move(a, new) /\ UNCHANGED <<service, packages, publishing>>

\* The source has the size and digest that the service was told; every path of it is safe.
Validate(a) == Told(a, "validating") /\ Only(a, To(a, "extracting"))

Extract(a) == Told(a, "extracting") /\ Only(a, To(a, "scanning"))

AskedOnly(c, named) == Asked \cup named

\* What the files use, what the operator asks for and what the last repair names.
Granted(c, named) == Uses[c] \cup Asked \cup named

\* The manifest of the source is written over: it names no author and no capability.
Scan(a) ==
    /\ Told(a, "scanning")
    /\ Only(a, [To(a, "building") EXCEPT !.manifest = Granted(att[a].copy, {})])

Build(a) ==
    /\ Told(a, "building")
    /\ Only(a, [To(a, "trying") EXCEPT
                   !.builds = @ + 1,
                   !.package = [copy |-> att[a].copy, caps |-> att[a].manifest]])

Repairable(a) ==
    att[a].way = "import" /\ Verdicts[att[a].copy] = "fails" /\ att[a].builds < MaxBuilds

Try(a) ==
    /\ Told(a, "trying")
    /\ CASE Verdicts[att[a].package.copy] = "passes" -> Only(a, To(a, "uploading"))
         [] Repairable(a) -> Only(a, To(a, "repairing"))
         [] OTHER -> Only(a, To(a, "failed"))

\* Every edit is checked before the first is written.
Refused(a, c) == att[a].copy

\* _request_ai_patch and _apply_ai_patch: a patch gives another copy and may name
\* capabilities; one that is refused leaves the copy to be built again.
Repair(a) ==
    /\ Told(a, "repairing")
    /\ \E c \in Copies \ {att[a].copy} :
          \/ \E named \in SUBSET Capabilities :
                Only(a, [To(a, "building") EXCEPT !.copy = c, !.manifest = Granted(c, named)])
          \/ Only(a, [To(a, "building") EXCEPT !.copy = Refused(a, c)])

\* No patch, or an attempt whose place was taken.
GiveUp(a) == Told(a, "repairing") /\ Only(a, To(a, "failed"))

\* Files that are there already are left: the package's name is what it holds.
Upload(a) ==
    /\ Told(a, "uploading")
    /\ packages' = packages \cup {att[a].package}
    /\ Move(a, To(a, "finalizing")) /\ UNCHANGED <<service, publishing>>

Answer(a) == Told(a, "finalizing") /\ Only(a, To(a, "answered"))

-----------------------------------------------------------------------------
(* The backup of the source                                                *)

\* head_object finds the file of an earlier call, else it is uploaded.
StoreBackup ==
    /\ ~backup.row /\ backup' = [backup EXCEPT !.stored = TRUE]
    /\ UNCHANGED <<active, att, packages, approved, publishing>>

RecordBackup ==
    /\ backup.stored /\ ~backup.row /\ backup' = [backup EXCEPT !.row = TRUE]
    /\ UNCHANGED <<active, att, packages, approved, publishing>>

-----------------------------------------------------------------------------
(* Publication                                                             *)

\* The operator tries an uploaded package on a device and writes the approval file.
Approve(p) ==
    /\ p \in packages /\ approved' = approved \cup {p}
    /\ UNCHANGED <<active, att, packages, backup, publishing>>

Open(r, new) ==
    /\ req[r] = NoRequest /\ begun < MaxPublished
    /\ begun' = begun + 1
    /\ req' = [req EXCEPT ![r] = [read |-> item, new |-> new]]
    /\ calm' = (calm /\ \A q \in Requests : req[q] = NoRequest)
    /\ UNCHANGED <<service, att, packages, item, effects>>

\* publish_html reads the package and the row.
BeginPublish(r, new) == new.package \in packages /\ Open(r, new)

\* The publisher's command asks with its own package, once that one is approved.
BeginCommand(r, a) ==
    /\ att[a].way = "operator" /\ att[a].stage = "answered" /\ att[a].package \in approved
    /\ \E t \in Titles :
          Open(r, [package |-> att[a].package, caps |-> att[a].package.caps, title |-> t])

EveryVersion(r) == TRUE

\* The same version again must say the same; another version replaces the row.
Agrees(r) ==
    LET row == req[r].read
    IN row # NoRow /\ row.package = req[r].new.package => row = req[r].new

\* Only the columns that differ from the row that was read are written.
Over(old, new, now) ==
    [f \in {"package", "caps", "title"} |-> IF new[f] = old[f] THEN now[f] ELSE new[f]]

\* A first publication that meets another's row ends with a duplicate key.
Inserts(r) == req[r].read = NoRow

CommitPublish(r) ==
    /\ req[r] # NoRequest /\ Agrees(r)
    /\ Inserts(r) => item = NoRow
    /\ item' = IF Inserts(r) THEN req[r].new ELSE Over(req[r].read, req[r].new, item)
    /\ effects' = [prefetched |-> effects.prefetched \cup {req[r].new.package},
                   activated |-> TRUE, described |-> req[r].new.title]
    /\ req' = [req EXCEPT ![r] = NoRequest]
    /\ UNCHANGED <<service, att, packages, begun, calm>>

RefusePublish(r) ==
    /\ req[r] # NoRequest /\ req' = [req EXCEPT ![r] = NoRequest]
    /\ UNCHANGED <<service, att, packages, item, effects, begun, calm>>

Next ==
    \/ \E a \in Attempts :
          \/ \E way \in Ways, c \in Copies : Begin(a, way, c)
          \/ Tell(a) \/ Validate(a) \/ Extract(a) \/ Scan(a) \/ Build(a) \/ Try(a)
          \/ Repair(a) \/ GiveUp(a) \/ Upload(a) \/ Answer(a) \/ Fail(a)
    \/ StoreBackup \/ RecordBackup
    \/ \E p \in packages : Approve(p)
    \/ \E r \in Requests :
          \/ \E new \in Published : BeginPublish(r, new)
          \/ \E a \in Attempts : BeginCommand(r, a)
          \/ CommitPublish(r) \/ RefusePublish(r)

Spec == Init /\ [][Next]_vars

-----------------------------------------------------------------------------
(* Properties                                                              *)

\* A preview that an import answers holds files that passed in the browser, and its
\* manifest asks for every capability that those files use, after any number of repairs,
\* applied and refused (the loop of prepare_local_source).
PreviewIsChecked ==
    \A a \in Attempts : att[a].stage = "answered" =>
        /\ att[a].package \in packages
        /\ Verdicts[att[a].package.copy] = "passes"
        /\ att[a].way # "operator" => Uses[att[a].package.copy] \subseteq att[a].package.caps

\* While publications do not overlap, one version of a work is published with one list of
\* capabilities and one title: what a client has fetched under a version never changes
\* (the branches of publish_html).
VersionIsFixed ==
    [][calm /\ item # NoRow /\ item' # NoRow /\ item'.package = item.package
       => item' = item]_<<item, calm>>
=============================================================================
