--------------------------- MODULE HtmlPackaging ---------------------------
(***************************************************************************)
(* prepare_package: the tree of an HTML work made whole in itself.         *)
(*                                                                         *)
(* The scripts and styles of the source are adapted, then its pages; every *)
(* external address that a text mentions is fetched from an approved       *)
(* origin into the tree.  What was fetched may be a text with mentions of  *)
(* its own, so passes are made until no text is left.  One script and one  *)
(* page stand for those of the source; a served text does not change       *)
(* during a build.                                                         *)
(***************************************************************************)
EXTENDS HtmlParameters

VARIABLES
    mentions, \* what each text mentions
    lands,    \* where each address ends
    build     \* the build: see Init

vars == <<mentions, lands, build>>

Own == {"script", "page"}
TextFiles == Own \cup {u \in Urls : Kinds[u] # "media"}
Reasons == {"none", "origin", "redirect", "fetch", "absent", "collision", "many", "unsafe"}

TypeOK ==
    /\ lands \in Redirects
    /\ \A t \in TextFiles : mentions[t] \subseteq Urls \cup Paths
    /\ build.phase \in {"scripts", "pages", "closing", "checking", "limits", "done", "refused"}
    /\ build.left \subseteq TextFiles /\ build.at \in TextFiles \cup {NoRow}
    /\ build.owed \subseteq Urls \cup Paths
    /\ build.staged \subseteq Urls /\ build.cache \subseteq Urls /\ build.adapted \subseteq TextFiles
    /\ build.reason \in Reasons

Init ==
    /\ mentions \in [TextFiles -> {M \in SUBSET (Urls \cup Paths) : Cardinality(M) <= MaxMentions}]
    /\ lands \in Redirects
    /\ build = [phase |-> "scripts", left |-> {"script"},
                at |-> NoRow,      \* the text being adapted
                owed |-> {},       \* its mentions still to rewrite
                staged |-> {},     \* vendored files, by the address that served them
                cache |-> {},      \* vendor_cache: addresses known by their file
                adapted |-> {},    \* processed_text_assets and pages
                reason |-> "none"]

Step(b) == build' = b /\ UNCHANGED <<mentions, lands>>

RefusedFor(why) == Step([build EXCEPT !.phase = "refused", !.reason = why])

-----------------------------------------------------------------------------
(* Mentions                                                                *)

\* A root-relative path in a vendored style belongs to the origin that served it; in
\* every other text, a vendored script included, it is looked up in the source.
Styles == {u \in Urls : Kinds[u] = "style"}

IsLocal(t, m) == m \in Paths /\ t \notin Styles

AddressOf(m) == IF m \in Paths THEN Home[m] ELSE m

\* The texts of the tree, a file served under another address included.
StagedTexts(b) == b.staged \cap TextFiles

\* What is in the file of a vendored text is no longer what was served.
Rewritten(b, f) == f \in b.adapted /\ mentions[f] # {}

Known(b, u) == u \in b.cache

ForgetsFinal(b, u) == b.cache \cup {u}

\* The file is found again by the address that was asked and by the one that served it.
Remembered(b, u) == b.cache \cup {u, lands[u]}

RewriteLocal(m) ==
    /\ IsLocal(build.at, m)
    /\ IF m \in Present THEN Step([build EXCEPT !.owed = @ \ {m}]) ELSE RefusedFor("absent")

UseCached(m) ==
    /\ ~IsLocal(build.at, m) /\ Known(build, AddressOf(m))
    /\ Step([build EXCEPT !.owed = @ \ {m}])

\* The answer is refused when it comes from another origin, and when a file with the same
\* name holds something else.
Vendor(m) ==
    LET u == AddressOf(m)
        f == lands[u]
    IN /\ ~IsLocal(build.at, m) /\ ~Known(build, u)
       /\ IF u \notin Approved THEN RefusedFor("origin")
          ELSE \/ RefusedFor("fetch")
               \/ /\ f \notin Approved
                  /\ RefusedFor("redirect")
               \/ /\ f \in Approved /\ Rewritten(build, f)
                  /\ RefusedFor("collision")
               \/ /\ f \in Approved /\ ~Rewritten(build, f)
                  /\ Step([build EXCEPT !.owed = @ \ {m}, !.staged = @ \cup {f},
                                        !.cache = Remembered(build, u)])

-----------------------------------------------------------------------------
(* Passes                                                                  *)

Take(t) == Step([build EXCEPT !.at = t, !.owed = mentions[t]])

TakeText(t) == build.at = NoRow /\ t \in build.left /\ t # "page" /\ Take(t)

\* A page without a head, or with a script before it, has no place for the host scripts.
TakePage ==
    /\ build.at = NoRow /\ "page" \in build.left
    /\ Take("page") \/ RefusedFor("unsafe")

Written == Step([build EXCEPT !.at = NoRow, !.left = @ \ {build.at}, !.adapted = @ \cup {build.at}])

WriteText == build.at \notin {NoRow, "page"} /\ build.owed = {} /\ Written

\* The policy of the page names only the tree itself, and the host scripts come first.
WritePage == build.at = "page" /\ build.owed = {} /\ Written

PassOver == build.at = NoRow /\ build.left = {}

PagesNext ==
    /\ PassOver /\ build.phase = "scripts"
    /\ Step([build EXCEPT !.phase = "pages", !.left = {"page"}])

AllFiles(b) == b.staged \ b.adapted

OnePass(b) == IF b.phase = "pages" THEN StagedTexts(b) ELSE {}

\* The texts that no pass has taken yet.
Pending(b) == StagedTexts(b) \ b.adapted

CloseNext ==
    /\ PassOver /\ build.phase \in {"pages", "closing"}
    /\ LET pending == Pending(build)
       IN IF pending = {} THEN Step([build EXCEPT !.phase = "checking"])
          ELSE IF Cardinality(build.adapted \ {"page"}) + Cardinality(pending) > MaxTexts
          THEN RefusedFor("many")
          ELSE Step([build EXCEPT !.phase = "closing", !.left = pending])

\* What no adaptation repairs refuses the package: popups, base addresses, literals of
\* another origin; a reference that leaves the tree or finds nothing in it.
ValidateTree ==
    /\ build.phase = "checking"
    /\ Step([build EXCEPT !.phase = "limits"]) \/ RefusedFor("unsafe")

RefuseReference == build.phase = "checking" /\ RefusedFor("unsafe")

ValidateLimits ==
    /\ build.phase = "limits"
    /\ Step([build EXCEPT !.phase = "done"]) \/ RefusedFor("many")

Next ==
    \/ \E t \in TextFiles : TakeText(t)
    \/ \E m \in build.owed : RewriteLocal(m) \/ UseCached(m) \/ Vendor(m)
    \/ TakePage \/ WriteText \/ WritePage \/ PagesNext \/ CloseNext
    \/ ValidateTree \/ RefuseReference \/ ValidateLimits

Running == build.phase \notin {"done", "refused"}

Build == Running /\ Next

Spec == Init /\ [][Build]_vars

-----------------------------------------------------------------------------
(* Properties                                                              *)

Needs(t) == {AddressOf(m) : m \in {x \in mentions[t] : ~IsLocal(t, x)}}

Closed(S) == \A t \in Own \cup ({lands[u] : u \in S} \cap TextFiles) : Needs(t) \subseteq S

\* The addresses that the source reaches, through what they serve.
Reach == {u \in Urls : \A S \in SUBSET Urls : Closed(S) => u \in S}

\* A finished package holds a file for each address that its texts reach and no other, and
\* each of its texts has been rewritten (the passes of prepare_package).
PackageIsClosed ==
    build.phase = "done" =>
        /\ build.staged = {lands[u] : u \in Reach}
        /\ Own \cup StagedTexts(build) \subseteq build.adapted

\* A source is refused for a reason that is in it: a mention of an address or a path that
\* may not be used, a fetch that failed, or a text reached through a redirection as well,
\* which is taken for a collision once its file has been rewritten; never a text asked for
\* again by its own address (the exceptions of _vendor_external_url and _rewrite_local_url).
RefusalHasReason ==
    /\ build.reason = "origin" => \E u \in Reach : u \notin Approved
    /\ build.reason = "redirect" => \E u \in Reach : lands[u] \notin Approved
    /\ build.reason = "absent" => \E m \in build.owed : m \notin Present
    /\ build.reason = "collision" =>
          \E m \in build.owed : lands[AddressOf(m)] \in TextFiles \ {AddressOf(m)}
=============================================================================
