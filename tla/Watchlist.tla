------------------------------ MODULE Watchlist ------------------------------
(* The watched pages of a project: their order, the tier each is in and the
   limits on the tiers (src/lib/watchlistOrder.ts, src/lib/watchCapacity.ts,
   the page mutations of src/lib/mutations.ts, what archiving and restoring
   do to the pages in src/lib/projects.ts).  Every mutation is one step: the
   stored document is read, changed and brought within the limits again, as
   src/lib/store/normalize.ts does at every read and write. *)
EXTENDS Naturals, Places, SequencesExt

CONSTANTS Listed,       \* the pages that can be on the list
          MaxActive,    \* MAX_ACTIVE_PAGES      (10 in the code)
          MaxPriority   \* MAX_PRIORITY_PAGES    (3 in the code)

ASSUME WatchlistAssumption ==
    /\ MaxActive \in Nat /\ MaxPriority \in Nat
    /\ MaxPriority <= MaxActive

VARIABLES pages,        \* the ids of the pages, in the stored order
          tier,         \* per page, its flag
          archivedTier, \* projectArchivePageFlags, empty while not archived
          removed       \* history: ids are random and never given twice

listVars == <<pages, tier, archivedTier, removed>>

Tiers == {"priority", "watching", "paused"}

On(list) == ToSet(list)

(* The pages of the list in the tiers S, and those that count as monitored. *)
InTier(list, tiers, S) == {p \in On(list) : tiers[p] \in S}
Monitored(list, tiers) == InTier(list, tiers, {"priority", "watching"})

-----------------------------------------------------------------------------
(* The tiers one after the other, each in the order it was in. *)
sortWatchlistPages(list, tiers) ==
    LET Of(t) == Picked(list, {i \in DOMAIN list : tiers[list[i]] = t})
    IN Of("priority") \o Of("watching") \o Of("paused")

(* The pages of the set S that come after the first n of them in the list. *)
Beyond(list, S, n) ==
    LET places == {i \in DOMAIN list : list[i] \in S}
    IN {list[i] : i \in {i \in places : Cardinality({j \in places : j <= i}) > n}}

(* What does not fit is moved down: first the priority pages too many become
   watching, then the active pages too many are paused. *)
normalizeWatchCapacity(list, tiers) ==
    LET demoted == Beyond(list, InTier(list, tiers, {"priority"}), MaxPriority)
        fewer == [p \in Listed |-> IF p \in demoted THEN "watching" ELSE tiers[p]]
        over == Beyond(list, Monitored(list, fewer), MaxActive)
    IN [p \in Listed |-> IF p \in over THEN "paused" ELSE fewer[p]]

(* What a mutation that leaves the document in this order and these tiers stores. *)
Store(list, tiers) ==
    LET fit == normalizeWatchCapacity(list, tiers)
    IN tier' = fit /\ pages' = sortWatchlistPages(list, fit)

MutFitsByPriorityOnly(p, flag) ==     \* the limit of monitored pages is not asked
    flag = "priority" =>
        Cardinality({q \in On(pages) \ {p} : tier[q] = "priority"}) < MaxPriority

(* flagCapacityError: the new flag of a page, or of a new one, does not fit. *)
Fits(p, flag) ==
    LET others == On(pages) \ {p}
        with(S) == Cardinality({q \in others : tier[q] \in S})
                      + (IF flag \in S THEN 1 ELSE 0)
    IN /\ with({"priority"}) <= MaxPriority
       /\ with({"priority", "watching"}) <= MaxActive

defaultNewPageFlag ==
    IF Cardinality(Monitored(pages, tier)) < MaxActive THEN "watching" ELSE "paused"

Without(list, p) == Picked(list, {i \in DOMAIN list : list[i] # p})

MutChangeToTheFront(list, p, flag) ==     \* the page is put first in its new tier
    IF tier[p] = flag THEN list ELSE <<p>> \o Without(list, p)

(* The page goes to the end of its new tier; a flag it has already moves nothing. *)
changePageFlagOrder(list, p, flag) ==
    IF tier[p] = flag THEN list ELSE Append(Without(list, p), p)

-----------------------------------------------------------------------------
InitWatchlist ==
    /\ pages = <<>>
    /\ tier = [p \in Listed |-> "paused"]
    /\ archivedTier = [p \in {} |-> "paused"]
    /\ removed = {}

(* A page is added without a flag, or by a caller that chooses one. *)
addPage(p, flag) ==
    /\ p \notin On(pages) \cup removed
    /\ flag = defaultNewPageFlag \/ Fits(p, flag)
    /\ Store(sortWatchlistPages(Append(pages, p), [tier EXCEPT ![p] = flag]),
             [tier EXCEPT ![p] = flag])
    /\ UNCHANGED <<archivedTier, removed>>

setPageFlag(p, flag) ==
    /\ p \in On(pages)
    /\ Fits(p, flag)
    /\ Store(changePageFlagOrder(pages, p, flag), [tier EXCEPT ![p] = flag])
    /\ UNCHANGED <<archivedTier, removed>>

removePage(p) ==
    /\ p \in On(pages)
    /\ Store(Without(pages, p), [tier EXCEPT ![p] = "paused"])
    /\ removed' = removed \cup {p}
    /\ UNCHANGED archivedTier

(* A tab sends the order it shows, with one page dragged elsewhere: any order
   of the pages, taken when the list still holds just these.  Where the tiers
   have changed since the tab was drawn, the tiers come first. *)
setPageOrder(order) ==
    /\ Len(order) = Len(pages) /\ On(order) = On(pages)
    /\ Store(sortWatchlistPages(order, tier), tier)
    /\ UNCHANGED <<archivedTier, removed>>

(* Archiving keeps the flags and pauses every page; the order is not touched. *)
pausePagesForArchive ==
    /\ pages # <<>> /\ DOMAIN archivedTier = {}
    /\ archivedTier' = [p \in On(pages) |-> tier[p]]
    /\ Store(pages, [p \in Listed |-> "paused"])
    /\ UNCHANGED removed

(* Restoring gives back the flags kept; a page added since keeps its own. *)
resumePagesAfterArchive ==
    /\ DOMAIN archivedTier # {}
    /\ Store(pages, [p \in Listed |-> IF p \in DOMAIN archivedTier \cap On(pages)
                                      THEN archivedTier[p] ELSE tier[p]])
    /\ archivedTier' = [p \in {} |-> "paused"]
    /\ UNCHANGED removed

NextWatchlist ==
    \/ \E p \in Listed, flag \in Tiers : addPage(p, flag) \/ setPageFlag(p, flag)
    \/ \E p \in Listed : removePage(p)
    \/ \E order \in SetToSeqs(On(pages)) : setPageOrder(order)
    \/ pausePagesForArchive
    \/ resumePagesAfterArchive

SpecWatchlist == InitWatchlist /\ [][NextWatchlist]_listVars

-----------------------------------------------------------------------------
(* The pages that are on the list before and after a step in other tiers. *)
Moved == {p \in On(pages) \cap On(pages') : tier'[p] # tier[p]}

(* Nothing is moved down behind anybody's back: the limits by which a request
   is refused and those within which the document is brought agree.  A request
   changes the tier of one page at most, that of an addition or a removal of no
   other page, and restoring puts every page back in the tier it was archived
   in, unless pages were added while the project was archived. *)
OthersKeepTheirTier ==
    [][IF archivedTier' = archivedTier
       THEN Cardinality(Moved) <= (IF On(pages') = On(pages) THEN 1 ELSE 0)
       ELSE DOMAIN archivedTier' = {} /\ On(pages) \subseteq DOMAIN archivedTier
            => \A p \in On(pages) : tier'[p] = archivedTier[p]]_listVars

(* The place of a page in a list it is on. *)
PlaceIn(list, p) == CHOOSE i \in DOMAIN list : list[i] = p

(* Two pages of a tier change places only by a reorder, which changes no tier;
   a page that joins a tier by a change of its flag goes behind those that are
   in it.  No addition, removal, archiving or restoring moves a page past
   another of its tier. *)
TiersKeepTheirOrder ==
    [][\A p, q \in On(pages) \cap On(pages') :
          /\ PlaceIn(pages, p) < PlaceIn(pages, q)
          /\ tier'[p] = tier'[q]
          /\ PlaceIn(pages', p) > PlaceIn(pages', q)
          => \/ On(pages') = On(pages) /\ tier' = tier
             \/ Moved = {p} /\ archivedTier' = archivedTier]_listVars
=============================================================================
