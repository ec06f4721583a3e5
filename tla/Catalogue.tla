----------------------------- MODULE Catalogue -----------------------------
(***************************************************************************)
(* One listing of the marketplace and its releases: publishing, review,    *)
(* withdrawal and suspension (MarketplaceService, GovernanceService).      *)
(* Releases are numbered in the order of their versions; those that ask    *)
(* for more than a low risk wait for a person.  The head of the listing,   *)
(* `latestVersion`, is what an install gets that names no version.         *)
(*                                                                         *)
(* A step is one statement.  What moves the head judges by the listing it  *)
(* read, and writes its status back with the head.  Manifests, signatures, *)
(* ratings, counters and advisories are not represented.                   *)
(***************************************************************************)
EXTENDS Naturals, FiniteSets

CONSTANTS
    MaxRelease,
    Reviewed,        \* releases that need a review
    MaxCtCalls       \* bound: calls, numbered as they begin

Releases  == 1 .. MaxRelease
NoRelease == 0                     \* "0.0.0"
CtCalls   == 1 .. MaxCtCalls

ASSUME CatalogueAssumption ==
    MaxRelease \in Nat \ {0} /\ MaxCtCalls \in Nat /\ Reviewed \subseteq Releases

VARIABLES
    listing,   \* the row
    release,   \* the rows
    ruling,    \* the governance reviews of the releases
    barred,    \* the publisher is suspended
    ctCall,
    misjudged  \* history: the head was moved by what had changed since it was read, or
               \* to a release withdrawn before, or a call that would move it stopped

ctVars == <<listing, release, ruling, barred, ctCall, misjudged>>

NoListing == [status |-> "DRAFT", head |-> NoRelease, published |-> FALSE]
NoCtCall  == [pc |-> "idle", op |-> "suspend", v |-> NoRelease, row |-> NoListing,
              outcome |-> "PENDING", best |-> NoRelease]

CtInit ==
    /\ listing = NoListing
    /\ release = [v \in Releases |-> [made |-> FALSE, review |-> "PENDING", yanked |-> FALSE]]
    /\ ruling = [v \in Releases |-> "none"]
    /\ barred = FALSE
    /\ ctCall = [c \in CtCalls |-> NoCtCall]
    /\ misjudged = FALSE

CtAt(c, step) == ctCall[c].pc = step
CtSet(c, r)   == ctCall' = [ctCall EXCEPT ![c] = r]
CtGo(c, step) == CtSet(c, IF step = "done" THEN [NoCtCall EXCEPT !.pc = "done"]
                          ELSE [ctCall[c] EXCEPT !.pc = step])
CtBegin(c, r) == CtAt(c, "idle") /\ (\A x \in 1 .. c - 1 : ~CtAt(x, "idle")) /\ CtSet(c, r)
CtGoing(c)    == ctCall[c].pc \notin {"idle", "done"}
\* Calls that have made, or unmade, a release that can be installed.
Movers        == {c \in CtCalls : ctCall[c].pc \in {"promote", "head", "best", "move"}}

Highest(V)  == IF V = {} THEN NoRelease ELSE CHOOSE v \in V : \A u \in V : u <= v
Offered     == {v \in Releases : release[v].made /\ ~release[v].yanked}
\* installable()
Installable == {v \in Offered : release[v].review = "APPROVED"}
-----------------------------------------------------------------------------
(* publishVersion()                                                         *)

\* The listing and its publisher are read.
Publish(c) ==
    /\ \E v \in Releases : CtBegin(c, [NoCtCall EXCEPT !.pc = "check", !.op = "publish", !.v = v, !.row = listing])
    /\ ~barred
    /\ UNCHANGED <<listing, release, ruling, barred, misjudged>>

\* The number is free, and above what is published and not withdrawn.
PublishCheck(c) ==
    LET v == ctCall[c].v IN
    /\ CtAt(c, "check")
    /\ CtGo(c, IF release[v].made \/ v <= Highest(Offered) THEN "done" ELSE "create")
    /\ UNCHANGED <<listing, release, ruling, barred, misjudged>>

\* If the number is taken by now this throws.
CreateRelease(c) ==
    LET v == ctCall[c].v IN
    /\ CtAt(c, "create")
    /\ \/ release[v].made /\ CtGo(c, "done") /\ UNCHANGED release
       \/ /\ ~release[v].made
          /\ release' = [release EXCEPT ![v] =
                           [@ EXCEPT !.made = TRUE, !.review = IF v \in Reviewed THEN "PENDING" ELSE "APPROVED"]]
          /\ CtGo(c, IF v \in Reviewed THEN "open" ELSE "promote")
    /\ UNCHANGED <<listing, ruling, barred, misjudged>>

OpenReview(c) ==
    /\ CtAt(c, "open")
    /\ ruling' = [ruling EXCEPT ![ctCall[c].v] = "PENDING"]
    /\ CtGo(c, "done")
    /\ UNCHANGED <<listing, release, barred, misjudged>>

\* (mutant) any release that becomes installable is the head
IsNewestAlways(row, v) == TRUE
IsNewest(row, v)       == row.head = NoRelease \/ v > row.head

\* promoteLatest(): by the listing that was read.
PromoteLatest(c) ==
    LET m == ctCall[c] IN
    /\ CtAt(c, "promote")
    /\ \/ ~IsNewest(m.row, m.v) /\ UNCHANGED listing
       \/ /\ IsNewest(m.row, m.v)
          /\ listing' = [head |-> m.v, published |-> TRUE,
                         status |-> IF m.row.status = "DRAFT" THEN "PUBLISHED" ELSE m.row.status]
    /\ misjudged' = (misjudged \/ m.row.head # listing.head \/ m.v \notin Installable)
    /\ CtGo(c, "done")
    /\ UNCHANGED <<release, ruling, barred>>
-----------------------------------------------------------------------------
(* decide() and onVersionApproved()                                         *)

DecideRelease(c) ==
    /\ \E v \in Releases, s \in {"APPROVED", "REJECTED", "CHANGES_REQUESTED"} :
          /\ ruling[v] = "PENDING"
          /\ CtBegin(c, [NoCtCall EXCEPT !.pc = "rule", !.op = "decide", !.v = v, !.outcome = s])
    /\ UNCHANGED <<listing, release, ruling, barred, misjudged>>

Rule(c) ==
    LET m == ctCall[c] IN
    /\ CtAt(c, "rule")
    /\ ruling' = [ruling EXCEPT ![m.v] = m.outcome]
    /\ CtGo(c, IF m.outcome = "APPROVED" THEN "find" ELSE "review")
    /\ UNCHANGED <<listing, release, barred, misjudged>>

FindListing(c) ==
    /\ CtAt(c, "find")
    /\ CtSet(c, [ctCall[c] EXCEPT !.pc = "review", !.row = listing])
    /\ UNCHANGED <<listing, release, ruling, barred, misjudged>>

\* Whether it was withdrawn meanwhile is not asked.
WriteReview(c) ==
    LET m == ctCall[c] IN
    /\ CtAt(c, "review")
    /\ release' = [release EXCEPT ![m.v].review = m.outcome]
    /\ misjudged' = (misjudged \/ (m.v \in Installable /\ m.outcome # "APPROVED"))
    /\ CtGo(c, IF m.outcome = "APPROVED" THEN "promote" ELSE "done")
    /\ UNCHANGED <<listing, ruling, barred>>
-----------------------------------------------------------------------------
(* yankVersion()                                                            *)

Yank(c) ==
    /\ \E v \in Releases :
          /\ release[v].made /\ CtBegin(c, [NoCtCall EXCEPT !.pc = "head", !.op = "yank", !.v = v])
          /\ release' = [release EXCEPT ![v].yanked = TRUE]
    /\ UNCHANGED <<listing, ruling, barred, misjudged>>

YankHead(c) ==
    /\ CtAt(c, "head")
    /\ CtGo(c, IF listing.head = ctCall[c].v THEN "best" ELSE "done")
    /\ UNCHANGED <<listing, release, ruling, barred, misjudged>>

YankBest(c) ==
    /\ CtAt(c, "best")
    /\ CtSet(c, [ctCall[c] EXCEPT !.pc = "move", !.best = Highest(Installable)])
    /\ UNCHANGED <<listing, release, ruling, barred, misjudged>>

MoveHead(c) ==
    /\ CtAt(c, "move")
    /\ listing' = [listing EXCEPT !.head = ctCall[c].best]
    /\ misjudged' = (misjudged \/ ctCall[c].v # listing.head \/ ctCall[c].best # Highest(Installable))
    /\ CtGo(c, "done")
    /\ UNCHANGED <<release, ruling, barred>>
-----------------------------------------------------------------------------
(* Moderation, failures                                                     *)

\* suspendPublisher(): its listings that are not suspended are read, then suspended.
SuspendPublisher(c) ==
    /\ CtBegin(c, [NoCtCall EXCEPT !.pc = "owned"])
    /\ barred' = TRUE
    /\ UNCHANGED <<listing, release, ruling, misjudged>>

SuspendOwned(c) ==
    /\ \/ CtAt(c, "owned") /\ CtGo(c, IF listing.status = "SUSPENDED" THEN "done" ELSE "suspend")
          /\ UNCHANGED listing
       \/ CtAt(c, "suspend") /\ listing' = [listing EXCEPT !.status = "SUSPENDED"] /\ CtGo(c, "done")
    /\ UNCHANGED <<release, ruling, barred, misjudged>>

\* suspendListing(), deprecateListing()
Moderate ==
    /\ \E s \in {"SUSPENDED", "DEPRECATED"} \ {listing.status} : listing' = [listing EXCEPT !.status = s]
    /\ UNCHANGED <<release, ruling, barred, ctCall, misjudged>>

\* A statement throws, or the process stops.
CtCallFails(c) ==
    /\ CtGoing(c)
    /\ CtGo(c, "done")
    /\ misjudged' = (misjudged \/ c \in Movers)
    /\ UNCHANGED <<listing, release, ruling, barred>>

CtNext ==
    \/ \E c \in CtCalls :
          \/ Publish(c) \/ PublishCheck(c) \/ CreateRelease(c) \/ OpenReview(c) \/ PromoteLatest(c)
          \/ DecideRelease(c) \/ Rule(c) \/ FindListing(c) \/ WriteReview(c)
          \/ Yank(c) \/ YankHead(c) \/ YankBest(c) \/ MoveHead(c)
          \/ SuspendPublisher(c) \/ SuspendOwned(c) \/ CtCallFails(c)
    \/ Moderate

CtSpec == CtInit /\ [][CtNext]_ctVars
-----------------------------------------------------------------------------
\* The listing, releases, reviews and calls are of their types.
CtTypeOK ==
    LET Listing == [status : {"DRAFT", "PUBLISHED", "SUSPENDED", "DEPRECATED"},
                    head : Releases \union {NoRelease}, published : BOOLEAN]
        Outcome == {"PENDING", "APPROVED", "REJECTED", "CHANGES_REQUESTED"}
    IN
    /\ listing \in Listing
    /\ release \in [Releases -> [made : BOOLEAN, review : Outcome, yanked : BOOLEAN]]
    /\ ruling \in [Releases -> Outcome \union {"none"}]
    /\ barred \in BOOLEAN /\ misjudged \in BOOLEAN
    /\ ctCall \in [CtCalls -> [pc : {"idle", "check", "create", "open", "promote", "rule", "find", "review",
                                     "head", "best", "move", "owned", "suspend", "done"},
                               op : {"suspend", "publish", "decide", "yank"},
                               v : Releases \union {NoRelease}, row : Listing, outcome : Outcome,
                               best : Releases \union {NoRelease}]]

\* The head of a listing is its highest release that can be installed, in
\* whatever order releases are published, reviewed and withdrawn, by calls that
\* may overlap; unless one of them moved it by what had changed since it was
\* read, stopped before it did, or approved what had been withdrawn ("Highest
\* published, non-yanked version", the schema's latestVersion).
HeadIsHighest ==
    Movers = {} /\ ~misjudged => listing.head = Highest(Installable)
=============================================================================
