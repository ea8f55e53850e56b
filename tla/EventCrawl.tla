----------------------------- MODULE EventCrawl -----------------------------
(***************************************************************************)
(* scripts/crawl_events.py with the parsers and the cancellation heuristic *)
(* of events.py: the site, the raw pages on disk, the crawl state that     *)
(* says which page was accepted, and the snapshot that every crawl         *)
(* rewrites from its predecessor.  A crawl is one process that nothing     *)
(* else writes beside; it may die on the way out, between its two files or *)
(* in the middle of either.                                                *)
(*                                                                         *)
(* A body is a version, 1..LastVersion, and Kind[v] what parsing it comes  *)
(* to.  The site stamps a page with the version it serves (lastmod), or    *)
(* does not stamp it.  Time is the number of the crawl.                    *)
(***************************************************************************)
EXTENDS Integers

CONSTANTS Pages, LastVersion,
          Kind,            \* version -> "event", "broken" or "elsewhere"
          MissThreshold,
          MaxCrawls,       \* bound on the crawls of a behaviour
          Nothing, Unlisted

\* A raw page on disk, and a row of the snapshot.
Bodies == [v : 1..LastVersion, at : Nat]
Rows == [v : 1..LastVersion, misses : Nat, status : {"scheduled", "uncertain", "cancelled"}, at : Nat]

ASSUME CrawlAssumption ==
    /\ LastVersion \in Nat \ {0} /\ MissThreshold \in Nat \ {0} /\ MaxCrawls \in Nat
    /\ Kind \in [1..LastVersion -> {"event", "broken", "elsewhere"}]
    /\ Nothing # Unlisted /\ {Nothing, Unlisted} \cap Nat = {} /\ Nothing \notin Bodies \cup Rows

VARIABLES site,        \* [Pages -> body, stamped, on: the lists that name the page]
          copies,      \* raw pages on disk: the sitemap, the listing, the bodies
          accepted,    \* the crawl state file: [Pages -> lastmod, sha, failed]
          snap,        \* the snapshot: events, failures, at, generated; Nothing: no readable one
          crawls, rebuilt  \* crawls so far; one of them was --from-cache

crawlVars == <<site, copies, accepted, snap, crawls, rebuilt>>

NoEntry == [lastmod |-> Nothing, sha |-> Nothing, failed |-> FALSE]

CrawlInit ==
    /\ site \in [Pages -> [body : {1}, stamped : BOOLEAN, on : {{"sitemap"}, {"sitemap", "listing"}}]]
    /\ copies = [map |-> Nothing, listing |-> {}, body |-> [p \in Pages |-> Nothing]]
    /\ accepted = [p \in Pages |-> NoEntry]
    /\ snap = Nothing /\ crawls = 0 /\ rebuilt = FALSE

\* The site edits a page, or names it in other lists.
SiteChanges ==
    /\ crawls < MaxCrawls
    /\ \E p \in Pages :
          \/ \E v \in site[p].body + 1..LastVersion : site' = [site EXCEPT ![p].body = v]
          \/ \E s \in SUBSET {"sitemap", "listing"} \ {site[p].on} : site' = [site EXCEPT ![p].on = s]
    /\ UNCHANGED <<copies, accepted, snap, crawls, rebuilt>>
-----------------------------------------------------------------------------
Previous(p) == IF snap = Nothing THEN Nothing ELSE snap.events[p]

\* What a network read of the sitemap returns: every named page's lastmod.
SiteMap == [p \in Pages |-> IF "sitemap" \notin site[p].on THEN Unlisted
                            ELSE IF site[p].stamped THEN site[p].body ELSE Nothing]

\* The raw lists a crawl works from: cache.get_bytes_result serves the last copy of one that is down.
Lists(live, down) ==
    [map     |-> IF live /\ "sitemap" \notin down THEN SiteMap ELSE copies.map,
     listing |-> IF live /\ "listing" \notin down THEN {p \in Pages : "listing" \in site[p].on}
                                                  ELSE copies.listing]

\* Mutant: an unstamped page counts as unchanged once it was accepted.
UnchangedIfUnstamped(map, p) ==
    /\ accepted[p].sha # Nothing /\ ~accepted[p].failed
    /\ (IF map[p] = Unlisted THEN Nothing ELSE map[p]) = accepted[p].lastmod
    /\ copies.body[p] # Nothing /\ copies.body[p].v = accepted[p].sha

\* `unchanged`: stamped as accepted, and the accepted body is the one on disk.
Unchanged(map, p) ==
    /\ map[p] \notin {Nothing, Unlisted} /\ accepted[p].lastmod = map[p]
    /\ accepted[p].sha # Nothing /\ ~accepted[p].failed
    /\ copies.body[p] # Nothing /\ copies.body[p].v = accepted[p].sha

\* The outcome of one candidate page: what became of it, and the body it was judged by.
Outcome(live, down, map, p) ==
    LET same == Unchanged(map, p)
        body == IF same \/ ~live \/ p \in down THEN copies.body[p]
                ELSE [v |-> site[p].body, at |-> crawls + 1]
        was  == CASE same /\ live /\ Previous(p) # Nothing          -> "reused"
                  [] body = Nothing \/ (live /\ ~same /\ p \in down) -> "unfetched"
                  [] OTHER                                       -> Kind[body.v]
    IN  [was |-> was, body |-> body]

\* The row the snapshot gets: a page that failed keeps its last good one.
RowOf(out, p) ==
    CASE out.was = "event"     -> [v |-> out.body.v, misses |-> 0, status |-> "scheduled", at |-> out.body.at]
      [] out.was = "elsewhere" -> Nothing
      [] OTHER                 -> Previous(p)

\* The accepted state advances only after a parse; a pending marker if there is nothing to fall back to.
AcceptPage(live, out, lastmod, p) ==
    CASE out.was \in {"event", "elsewhere"} -> [lastmod |-> lastmod, sha |-> out.body.v, failed |-> FALSE]
      [] out.was = "broken"                 -> [accepted[p] EXCEPT !.failed = TRUE]
      [] out.was = "unfetched" /\ live /\ out.body # Nothing /\ Previous(p) = Nothing ->
             [lastmod |-> lastmod, sha |-> Nothing, failed |-> FALSE]
      [] OTHER                              -> accepted[p]

\* apply_miss_heuristic, for a row whose page no list names any more.
Missed(row, at) ==
    [row EXCEPT !.misses = row.misses + 1, !.at = at,
                !.status = IF row.misses + 1 >= MissThreshold THEN "cancelled" ELSE "uncertain"]

\* The times that make the snapshot's own: of the bodies judged, of the rows kept unjudged.
PageTimes(out, seen) ==
    {out[p].body.at : p \in {q \in seen : out[q].was \in {"event", "elsewhere", "broken"}}}
    \cup {Previous(p).at : p \in {q \in seen : out[q].was \in {"reused", "unfetched"} /\ Previous(q) # Nothing}}

Latest(times) == CHOOSE t \in times : \A u \in times : u <= t

\* One crawl: live or --from-cache, some of the site down, some pages disallowed by robots.txt.
\* `dies` is how far the writing got: "never" is a crawl that ends.
Crawl(live, down, blocked, dies) ==
    LET lists == Lists(live, down)
        seen  == {p \in Pages : lists.map[p] # Unlisted \/ p \in lists.listing} \ blocked
        out   == [p \in seen |-> Outcome(live, down, lists.map, p)]
        times == PageTimes(out, seen)
        at    == IF times # {} THEN Latest(times)
                 ELSE IF live THEN crawls + 1 ELSE IF snap = Nothing THEN Nothing ELSE snap.at
        gone  == {p \in Pages \ seen : lists.map[p] = Unlisted /\ Previous(p) # Nothing}
        fresh == [events   |-> [p \in Pages |-> IF p \in seen THEN RowOf(out[p], p)
                                                ELSE IF p \in gone THEN Missed(Previous(p), at) ELSE Nothing],
                  failures |-> {p \in seen : out[p].was \in {"unfetched", "broken"}},
                  at       |-> at,  generated |-> crawls + 1]
        lastmod(p) == IF lists.map[p] = Unlisted THEN Nothing ELSE lists.map[p]
    IN  /\ crawls < MaxCrawls /\ lists.map # Nothing
        /\ crawls' = crawls + 1
        /\ copies' = IF live THEN [map |-> lists.map, listing |-> lists.listing,
                                    body |-> [p \in Pages |-> IF p \in seen THEN out[p].body ELSE copies.body[p]]]
                             ELSE copies
        /\ snap' = CASE dies = "fetching" -> snap
                     [] dies = "in snapshot" -> Nothing
                     [] OTHER -> fresh
        /\ accepted' = CASE dies = "never" -> [p \in Pages |-> IF p \in seen THEN AcceptPage(live, out[p], lastmod(p), p)
                                                               ELSE accepted[p]]
                         [] dies = "in state" -> [p \in Pages |-> NoEntry]
                         [] OTHER -> accepted
        /\ rebuilt' = (rebuilt \/ ~live)
        /\ UNCHANGED site

Deaths == {"never", "fetching", "in snapshot", "before state", "in state"}
CrawlLive  == \E down \in SUBSET (Pages \cup {"sitemap", "listing"}), blocked \in SUBSET Pages, dies \in Deaths :
                  Crawl(TRUE, down, blocked, dies)
FromCache  == \E dies \in Deaths : Crawl(FALSE, {}, {}, dies)

CrawlNext == SiteChanges \/ CrawlLive \/ FromCache
CrawlSpec == CrawlInit /\ [][CrawlNext]_crawlVars
-----------------------------------------------------------------------------
\* A crawl wrote this step's snapshot.
Wrote == crawls' # crawls /\ snap' # Nothing /\ snap'.generated = crawls'

(* After crawls of the live site only, a row that no failure is recorded   *)
(* for is not older than the sitemap says, and exactly what an unstamped   *)
(* page serves ("a missing lastmod never freezes").                        *)
CleanIsCurrent ==
    \A p \in Pages : LET row == snap'.events[p]  map == copies'.map IN
        (row # Nothing /\ p \notin snap'.failures /\ map[p] # Unlisted) =>
            IF map[p] = Nothing THEN row.v = site[p].body ELSE row.v >= map[p]

(* A page that fails to load or parse keeps its row, and its status.       *)
FailureIsNoMiss ==
    \A p \in snap'.failures : snap'.events[p] = Previous(p)

(* A snapshot is not stamped newer than the newest body on disk (rows that *)
(* have been missed carry the stamp of the crawl that missed them).        *)
StampIsEarned ==
    LET rows == {p \in Pages : snap'.events[p] # Nothing}
    IN  rows # {} /\ (\A p \in rows : snap'.events[p].misses = 0)
        => \E p \in Pages : copies'.body[p] # Nothing /\ snap'.at <= copies'.body[p].at

(* A crawl does not vouch for what it did not get.                         *)
CrawlKeepsItsWord ==
    [][Wrote /\ ~rebuilt' => CleanIsCurrent /\ FailureIsNoMiss /\ StampIsEarned]_crawlVars
=============================================================================
