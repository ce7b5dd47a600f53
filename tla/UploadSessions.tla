--------------------------- MODULE UploadSessions ---------------------------
(***************************************************************************)
(* Media objects in the object store (OSS): upload sessions with direct    *)
(* uploads to a staging key, finalize, which verifies every object and     *)
(* copies it to its immutable key, what is registered from a finalized     *)
(* session (an HTML package, a creator's upload), images the server stores *)
(* itself, and the retirement of legacy JSON objects.                      *)
(*                                                                         *)
(* The declaration of a session is fixed by its idempotency key, so it is  *)
(* a constant: the objects of the session, their keys and their content.   *)
(***************************************************************************)
EXTENDS Naturals, FiniteSets, ObjectParameters

VARIABLES
    session,    \* session[s]: the MediaUploadSession row, NoRow before it is created
    row,        \* row[o]: state of the MediaObject row
    staging,    \* staging[o]: content at the staging key
    store,      \* store[k]: content at a final key
    registered, \* sessions whose HtmlPackage or CreatorUpload row exists
    renew,      \* renew[s]: state of the row as a repeated creation request has read it
    fin,        \* fin[f]: a finalize request under way
    image,      \* image[o]: progress of a server-side image upload
    retire      \* the retirement request under way

vars == <<session, row, staging, store, registered, renew, fin, image, retire>>

SessionObjects == UNION {ObjectsOf[s] : s \in Sessions}
Objects == SessionObjects \cup Images
Keys == {Key[o] : o \in Objects}
LegacyObjects == UNION {ObjectsOf[s] : s \in LegacySessions}

SessionRow == [state : {"pending", "ready", "expired"}, late : BOOLEAN]
ObjectState == {"none", "declared", "ready", "retired"}
Idle == [pc |-> "idle"]

TypeOK ==
    /\ session \in [Sessions -> SessionRow \cup {NoRow}]
    /\ row \in [Objects -> ObjectState]
    /\ staging \in [SessionObjects -> Contents \cup {NoObject}]
    /\ store \in [Keys -> Contents \cup {NoObject}]
    /\ registered \subseteq Sessions
    /\ renew \in [Sessions -> {"none", "pending", "expired"}]
    /\ \A f \in Finalizers : fin[f].pc \in {"idle", "waiting", "verifying", "register"}
    /\ image \in [Images -> {"none", "absent", "stored", "lost", "done"}]
    /\ retire \in [deleted : SUBSET LegacyObjects]

Init ==
    /\ session = [s \in Sessions |-> NoRow]
    /\ row = [o \in Objects |-> "none"]
    /\ staging = [o \in SessionObjects |-> NoObject]
    /\ store = [k \in Keys |-> NoObject]
    /\ registered = {}
    /\ renew = [s \in Sessions |-> "none"]
    /\ fin = [f \in Finalizers |-> Idle]
    /\ image = [o \in Images |-> "none"]
    /\ retire = [deleted |-> {}]

-----------------------------------------------------------------------------
(* create_upload_session                                                   *)

\* No row owns one of the session's final keys, and no two of its objects share one.
KeysAreFree(s) ==
    /\ \A o \in ObjectsOf[s], q \in Objects : row[q] # "none" => Key[q] # Key[o]
    /\ \A o, q \in ObjectsOf[s] : Key[o] = Key[q] => o = q

CreateSession(s) ==
    /\ session[s] = NoRow
    /\ KeysAreFree(s)
    /\ session' = [session EXCEPT ![s] = [state |-> "pending", late |-> FALSE]]
    /\ row' = [o \in Objects |-> IF o \in ObjectsOf[s] THEN "declared" ELSE row[o]]
    /\ UNCHANGED <<staging, store, registered, renew, fin, image, retire>>

\* The same declaration again: the row is read without a lock ...
RenewRead(s) ==
    /\ session[s] # NoRow /\ session[s].state # "ready"
    /\ renew[s] = "none"
    /\ renew' = [renew EXCEPT ![s] = session[s].state]
    /\ UNCHANGED <<session, row, staging, store, registered, fin, image, retire>>

Locked(s) == \E f \in Finalizers : fin[f].pc = "verifying" /\ fin[f].s = s

\* ... and its state and expiry are written: a row read as pending keeps its state, a row
\* read as expired becomes pending whatever it is by now.
RenewWrite(s) ==
    /\ renew[s] # "none" /\ ~Locked(s)
    /\ session' = [session EXCEPT ![s].late = FALSE,
                                  ![s].state = IF renew[s] = "expired" THEN "pending" ELSE @]
    /\ renew' = [renew EXCEPT ![s] = "none"]
    /\ UNCHANGED <<row, staging, store, registered, fin, image, retire>>

\* A signed policy lets the client put one object of the declared size and type at the
\* staging key.  A trusted server puts what it declared.
ClientUpload(o, s, content) ==
    /\ o \in ObjectsOf[s] /\ session[s] # NoRow /\ ~session[s].late
    /\ staging[o] = NoObject
    /\ s \in Trusted => content = Declared[o]
    /\ staging' = [staging EXCEPT ![o] = content]
    /\ UNCHANGED <<session, row, store, registered, renew, fin, image, retire>>

Expire(s) ==
    /\ session[s] # NoRow /\ ~session[s].late
    /\ session' = [session EXCEPT ![s].late = TRUE]
    /\ UNCHANGED <<row, staging, store, registered, renew, fin, image, retire>>

-----------------------------------------------------------------------------
(* finalize_upload_session                                                 *)

\* The endpoint has read the session before it asks for the row lock, and that object is
\* what the locking query returns: state, expiry and objects are those of the snapshot.
FinalizeRead(f, s) ==
    /\ fin[f].pc = "idle" /\ session[s] # NoRow
    /\ fin' = [fin EXCEPT ![f] = [pc |-> "waiting", s |-> s, row |-> session[s],
                 pending |-> {o \in ObjectsOf[s] : row[o] # "ready"}, verified |-> {}]]
    /\ UNCHANGED <<session, row, staging, store, registered, renew, image, retire>>

FinalizeLock(f) ==
    LET s == fin[f].s IN
    /\ fin[f].pc = "waiting"
    /\ ~Locked(s)
    /\ \/ /\ fin[f].row.state = "ready"
          /\ fin' = [fin EXCEPT ![f].pc = "register"]
          /\ UNCHANGED session
       \/ /\ fin[f].row.state = "pending" \* time has passed since the row was read
          /\ session' = [session EXCEPT ![s].state = "expired"]
          /\ fin' = [fin EXCEPT ![f] = Idle]
       \/ /\ fin[f].row.state = "pending" /\ ~fin[f].row.late
          /\ fin' = [fin EXCEPT ![f].pc = "verifying"]
          /\ UNCHANGED session
       \/ /\ fin[f].row.state = "expired"
          /\ fin' = [fin EXCEPT ![f] = Idle]
          /\ UNCHANGED session
    /\ UNCHANGED <<row, staging, store, registered, renew, image, retire>>

Unread(o, s) == staging[o] # NoObject

\* The bytes are downloaded and hashed unless the session is trusted.
Verified(o, s) == s \in Trusted \/ staging[o] = Declared[o]

\* An immutable copy to an existing key is a conflict; it passes when the key holds the
\* same content.
Promoted(o) ==
    IF store[Key[o]] = NoObject THEN [store EXCEPT ![Key[o]] = staging[o]] ELSE store

VerifyAndPromote(f, o) ==
    LET s == fin[f].s IN
    /\ fin[f].pc = "verifying"
    /\ o \in fin[f].pending \ fin[f].verified
    /\ staging[o] # NoObject
    /\ Verified(o, s)
    /\ store[Key[o]] \in {NoObject, Declared[o]}
    /\ store' = Promoted(o)
    /\ fin' = [fin EXCEPT ![f].verified = @ \cup {o}]
    /\ UNCHANGED <<session, row, staging, registered, renew, image, retire>>

FinalizeCommit(f) ==
    LET s == fin[f].s IN
    /\ fin[f].pc = "verifying"
    /\ fin[f].verified = fin[f].pending
    /\ row' = [o \in Objects |-> IF o \in fin[f].verified THEN "ready" ELSE row[o]]
    /\ session' = [session EXCEPT ![s].state = "ready"]
    /\ fin' = [fin EXCEPT ![f].pc = "register"]
    /\ UNCHANGED <<staging, store, registered, renew, image, retire>>

\* An object is missing or differs, the store fails, or the API dies: the rows stay as they
\* were and copies already made stay in the store.
FinalizeFail(f) ==
    /\ fin[f].pc # "idle"
    /\ fin' = [fin EXCEPT ![f] = Idle]
    /\ UNCHANGED <<session, row, staging, store, registered, renew, image, retire>>

\* The package or the creator's upload is written in a transaction of its own; when another
\* request was first, its primary key stops this one.
Register(f) ==
    /\ fin[f].pc = "register"
    /\ fin[f].s \notin LegacySessions
    /\ registered' = registered \cup {fin[f].s}
    /\ fin' = [fin EXCEPT ![f] = Idle]
    /\ UNCHANGED <<session, row, staging, store, renew, image, retire>>

-----------------------------------------------------------------------------
(* Images stored by the server, and retirement                             *)

StoreImage(o) ==
    /\ o \notin References /\ image[o] = "none"
    /\ store' = [store EXCEPT ![Key[o]] = Declared[o]]
    /\ image' = [image EXCEPT ![o] = "stored"]
    /\ UNCHANGED <<session, row, staging, registered, renew, fin, retire>>

\* A cover with the content of a ready one is that one.
ReuseCover(o) ==
    /\ o \notin References /\ image[o] = "none"
    /\ \E q \in Images : row[q] = "ready" /\ Declared[q] = Declared[o]
    /\ image' = [image EXCEPT ![o] = "done"]
    /\ UNCHANGED <<session, row, staging, store, registered, renew, fin, retire>>

\* A reference image lies under the digest of its content: it is looked for, and stored
\* when it is absent.  The object is immutable, so of two requests one is refused.
LookForReference(o) ==
    /\ o \in References /\ image[o] = "none"
    /\ image' = [image EXCEPT ![o] = IF store[Key[o]] = NoObject THEN "absent" ELSE "done"]
    /\ UNCHANGED <<session, row, staging, store, registered, renew, fin, retire>>

PutReference(o) ==
    /\ image[o] = "absent"
    /\ \/ /\ store[Key[o]] = NoObject
          /\ store' = [store EXCEPT ![Key[o]] = Declared[o]]
          /\ image' = [image EXCEPT ![o] = "done"]
       \/ image' = [image EXCEPT ![o] = "lost"] /\ UNCHANGED store
    /\ UNCHANGED <<session, row, staging, registered, renew, fin, retire>>

CommitImage(o) ==
    /\ image[o] = "stored"
    /\ \/ image' = [image EXCEPT ![o] = "done"] /\ row' = [row EXCEPT ![o] = "ready"]
       \/ image' = [image EXCEPT ![o] = "lost"] /\ UNCHANGED row
    /\ UNCHANGED <<session, staging, store, registered, renew, fin, retire>>

AnyRow(o) == o \in SessionObjects /\ row[o] \notin {"none", "retired"}

Retireable(o) == o \in LegacyObjects /\ row[o] \notin {"none", "retired"}

RetireDelete(o) ==
    /\ Retireable(o) /\ o \notin retire.deleted
    /\ store' = [store EXCEPT ![Key[o]] = NoObject]
    /\ retire' = [retire EXCEPT !.deleted = @ \cup {o}]
    /\ UNCHANGED <<session, row, staging, registered, renew, fin, image>>

\* All rows are retired together, or a deletion fails and none is.
RetireEnd ==
    /\ retire.deleted # {}
    /\ retire' = [retire EXCEPT !.deleted = {}]
    /\ row' \in {row, [o \in Objects |-> IF o \in retire.deleted THEN "retired" ELSE row[o]]}
    /\ UNCHANGED <<session, staging, store, registered, renew, fin, image>>

Next ==
    \/ \E s \in Sessions : CreateSession(s) \/ RenewRead(s) \/ RenewWrite(s) \/ Expire(s)
    \/ \E s \in Sessions, c \in Contents : \E o \in ObjectsOf[s] : ClientUpload(o, s, c)
    \/ \E f \in Finalizers, s \in Sessions : FinalizeRead(f, s)
    \/ \E f \in Finalizers : \/ FinalizeLock(f) \/ FinalizeCommit(f) \/ FinalizeFail(f)
                             \/ Register(f)
                             \/ \E o \in SessionObjects : VerifyAndPromote(f, o)
    \/ \E o \in Images : StoreImage(o) \/ ReuseCover(o) \/ CommitImage(o)
                           \/ LookForReference(o) \/ PutReference(o)
    \/ \E o \in SessionObjects : RetireDelete(o)
    \/ RetireEnd

Spec == Init /\ [][Next]_vars

-----------------------------------------------------------------------------
\* What a ready row says is in the store: whatever finalize requests were repeated,
\* overlapped, failed half-way or ran on an old reading of the rows, the object of a ready
\* row that is not retired holds the declared content.  So does a reference image whose
\* address was given out.
ReadyIsStored ==
    /\ \A o \in Objects \ LegacyObjects : row[o] = "ready" => store[Key[o]] = Declared[o]
    /\ \A o \in References : image[o] = "done" => store[Key[o]] = Declared[o]

\* Uploaded objects are retained permanently: no request takes a ready object back or
\* changes the content under its key.
ReadyIsKept ==
    [][\A o \in Objects \ LegacyObjects : row[o] = "ready" =>
          row'[o] = "ready" /\ store'[Key[o]] = store[Key[o]]]_vars
=============================================================================
