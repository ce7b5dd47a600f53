-------------------------- MODULE ObjectParameters --------------------------
(***************************************************************************)
(* The declarations of the media objects UploadSessions works on.          *)
(***************************************************************************)
EXTENDS CommonParameters

CONSTANTS
    Sessions,        \* upload sessions, one for each idempotency key
    ObjectsOf,       \* ObjectsOf[s]: the objects session s declares
    Images,          \* images the server stores itself (avatars, backgrounds, covers, references)
    References,      \* the reference images among them, whose key is their digest
    Key,             \* Key[o]: the final key of an object
    Declared,        \* Declared[o]: the content its checksum stands for
    Contents,        \* contents an upload may have
    Trusted,         \* sessions of the authenticated server, whose bytes are not read again
    LegacySessions,  \* sessions of the first Run storage, with JSON objects to retire
    Finalizers,      \* finalize requests that may be under way at one time
    NoObject         \* nothing under a key

ASSUME ObjectAssumption ==
    /\ \A s \in Sessions : ObjectsOf[s] # {} /\ ObjectsOf[s] \cap Images = {}
    /\ \A s, t \in Sessions : s # t => ObjectsOf[s] \cap ObjectsOf[t] = {}
    /\ Trusted \subseteq Sessions /\ LegacySessions \subseteq Sessions
    /\ \A o \in Images \cup UNION {ObjectsOf[s] : s \in Sessions} :
          o \in DOMAIN Key /\ o \in DOMAIN Declared /\ Declared[o] \in Contents
    /\ References \subseteq Images
    /\ \A o \in Images : \A q \in DOMAIN Key \ {o} :
          Key[q] = Key[o] => {o, q} \subseteq References /\ Declared[q] = Declared[o]
    /\ NoObject \notin Contents
    /\ NoRow \notin [state : {"pending", "ready", "expired"}, late : BOOLEAN]
=============================================================================
