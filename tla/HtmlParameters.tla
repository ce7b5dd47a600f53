-------------------------- MODULE HtmlParameters --------------------------
(* The packages of HTML works: what a source mentions, who imports it.     *)
EXTENDS Naturals, FiniteSets, CommonParameters

CONSTANTS
    Urls,        \* external addresses
    Approved,    \* those of an approved origin
    Paths,       \* root-relative paths that a text may mention
    Present,     \* those that are files of the source
    Home,        \* [Paths -> Urls]: the same path at the origin of a vendored text
    Kinds,       \* [Urls -> {"script", "style", "media"}]: what an address serves
    Redirects,   \* a set of functions: where each address may end, for good
    MaxMentions, \* mentions of one text
    MaxTexts,    \* 1000 text dependencies in the code
    Attempts,    \* runs of the preparation
    Copies,      \* the files of a source: as uploaded, or repaired
    Uses,        \* [Copies -> SUBSET Capabilities]: what a scan of the copy finds
    Verdicts,    \* [Copies -> {"passes", "fails", "breaks"}]: in the browser; only a
                 \* failure is one that a model may repair
    Capabilities,
    Asked,       \* the capabilities that the operator asks for
    MaxBuilds,   \* builds of one attempt: 6 in the code
    Earlier,     \* packages of earlier imports
    Titles,
    MaxPublished \* publications begun

ASSUME HtmlAssumption ==
    /\ Approved \subseteq Urls /\ Present \subseteq Paths /\ Home \in [Paths -> Urls]
    /\ Kinds \in [Urls -> {"script", "style", "media"}]
    /\ Redirects \subseteq [Urls -> Urls] /\ MaxMentions \in Nat /\ MaxTexts \in Nat
    /\ Uses \in [Copies -> SUBSET Capabilities]
    /\ Verdicts \in [Copies -> {"passes", "fails", "breaks"}] /\ Asked \subseteq Capabilities
    /\ MaxBuilds \in Nat \ {0} /\ MaxPublished \in Nat
    /\ Earlier \subseteq [copy : Copies, caps : SUBSET Capabilities]
    /\ \A ends \in Redirects, u \in Urls : ends[ends[u]] = ends[u]
    /\ Urls \cap {"script", "page"} = {}
    /\ NoRow \notin Attempts \cup Copies \cup Titles \cup Urls \cup Paths \cup {"script", "page"}
=============================================================================
