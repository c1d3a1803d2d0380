-------------------------- MODULE CatalogListing ---------------------------
(***************************************************************************)
(* A catalog connector (packages/catalog-connectors) and the listings its  *)
(* callers run on it, which may overlap: the paged generator of shopify.ts *)
(* or the single feed of generic-rest.ts.  Both validate every record and  *)
(* note the ones they drop in the connector's one list `skipped`, which    *)
(* every listing empties when it starts.                                   *)
(***************************************************************************)
EXTENDS Naturals, SequencesExt

CONSTANTS Records,  \* the raw records a server may send
          Listings, \* listings started on the connector
          Catalogs, \* the catalogs a server may hold: each a sequence of pages
          Limits,   \* the limits a caller may pass
          NoLimit,  \* the absence of a limit
          Nothing   \* the absence of a value

\* A listing's first page is there even if it is empty.
ASSUME ListingAssumption ==
  /\ Catalogs \subseteq Seq(Seq(Records)) \ {<<>>}
  /\ Limits \subseteq Nat /\ NoLimit \notin Nat
  /\ Nothing \notin Listings

VARIABLES
  source,  \* "shopify" or "rest"
  pages,   \* the server's catalog: a sequence of pages of raw records
  listing, \* [Listings -> progress]
  skipped, \* the ids of the records dropped and the urls of the pages refused
  latest,  \* the listing started last
  alone    \* whether no other listing was under way then

listingVars == <<source, pages, listing, skipped, latest, alone>>

-----------------------------------------------------------------------------
(* Records and their validation *)

\* An id that is neither a number nor a string, or is empty, is left Nothing.
ShopifyCandidate(raw) ==
  [id     |-> raw.id,
   title  |-> raw.title,
   images |-> raw.images \ {"other"},
   price  |-> IF raw.price = "garbage" THEN "absent" ELSE raw.price,
   vendor |-> IF raw.vendor = "empty" THEN "absent" ELSE raw.vendor]

\* The feed's prices count only if they are numbers, its vendors as they are.
RestCandidate(raw) ==
  [id     |-> raw.id,
   title  |-> raw.title,
   images |-> raw.images \ {"other"},
   price  |-> IF raw.price \in {"garbage", "negativeText"} THEN "absent" ELSE raw.price,
   vendor |-> raw.vendor]

Candidate(raw) == IF source = "shopify" THEN ShopifyCandidate(raw) ELSE RestCandidate(raw)

\* NormalizedProductSchema; a currency not of three characters is one more
\* reason to drop a record, and left out (product.ts:45).
ValidProduct(c) ==
  /\ c.id # Nothing
  /\ c.title
  /\ c.images # {} /\ c.images \subseteq {"https"}
  /\ c.price \in {"absent", "number"}
  /\ c.vendor # "empty"

Passes(raw) == ValidProduct(Candidate(raw))

\* The ids of the records that pass, and of those that do not, in order.
Kept(records) ==
  FlattenSeq([i \in DOMAIN records |-> IF Passes(records[i]) THEN <<records[i].id>> ELSE <<>>])
Dropped(records) ==
  FlattenSeq([i \in DOMAIN records |-> IF Passes(records[i]) THEN <<>> ELSE <<records[i].id>>])

-----------------------------------------------------------------------------
Active(l) == listing[l].step \in {"fetching", "yielded"}
New == [step |-> "new", page |-> 1, index |-> 1, emitted |-> 0, limit |-> NoLimit,
        sought |-> Nothing, got |-> <<>>, broken |-> "no"]

ListingInit ==
  /\ source \in {"shopify", "rest"}
  /\ pages \in Catalogs
  /\ listing = [l \in Listings |-> New]
  /\ skipped = <<>>
  /\ latest = Nothing
  /\ alone = TRUE

\* Each page has a url of its own.
Url(page) == <<"url", page>>

Advance(l, x) == listing' = [listing EXCEPT ![l] = x]

\* listProducts, called and first pulled, or getProduct, which seeks an id.
Start(l) ==
  /\ listing[l].step = "new"
  /\ \E limit \in Limits \cup {NoLimit}, sought \in {Nothing} \cup {pages[1][i].id : i \in DOMAIN pages[1]} :
       /\ sought # Nothing => limit = NoLimit
       /\ Advance(l, [New EXCEPT !.step = "fetching", !.limit = limit, !.sought = sought])
  /\ skipped' = <<>>
  /\ latest' = l
  /\ alone' = \A other \in Listings : ~Active(other)
  /\ UNCHANGED <<source, pages>>

Reached(x) == x.limit # NoLimit /\ x.emitted >= x.limit

Following(x) == IF x.page < Len(pages) THEN x.page + 1 ELSE 0

\* The generator from record x.index on: to its next product, to the next page,
\* or to its end.  A limit is looked at before each record, and so never
\* between the last record of a page and the fetch of the next page.
Scan(l, x) ==
  LET page == pages[x.page]
      ahead == x.index..Len(page)
      good == {i \in ahead : Passes(page[i])}
      stop == IF good = {} THEN Len(page) + 1 ELSE CHOOSE i \in good : \A j \in good : i <= j
      note == skipped' = skipped \o Dropped(SubSeq(page, x.index, stop - 1))
  IN IF ahead # {} /\ Reached(x)
     THEN Advance(l, [x EXCEPT !.step = "done"]) /\ UNCHANGED skipped
     ELSE IF good # {}
     THEN note /\ Advance(l, [x EXCEPT !.step = "yielded", !.index = stop + 1,
                                       !.got = Append(@, page[stop].id)])
     ELSE IF Following(x) = 0
     THEN note /\ Advance(l, [x EXCEPT !.step = "done", !.index = stop])
     ELSE note /\ Advance(l, [x EXCEPT !.step = "fetching", !.page = Following(x), !.index = 1])

\* The feed is judged record by record within one step.
Collect(l, x) ==
  LET feed == pages[1]
      enough(i) == Reached([x EXCEPT !.emitted = Len(Kept(SubSeq(feed, 1, i)))])
      ends == {i \in 0..Len(feed) : enough(i) \/ i = Len(feed)}
      end == CHOOSE i \in ends : \A j \in ends : i <= j
  IN /\ skipped' = skipped \o Dropped(SubSeq(feed, 1, end))
     /\ Advance(l, [x EXCEPT !.step = "done", !.index = end + 1, !.got = Kept(SubSeq(feed, 1, end))])

PageArrives(l) ==
  /\ listing[l].step = "fetching"
  /\ IF source = "shopify" THEN Scan(l, listing[l]) ELSE Collect(l, listing[l])
  /\ UNCHANGED <<source, pages, latest, alone>>

\* A listing breaks off where it is.
BreakOff(l, how) == Advance(l, [listing[l] EXCEPT !.step = "done", !.broken = how])

\* A request lost or a body that is no JSON ends the listing with an exception.
PageLost(l) ==
  /\ listing[l].step = "fetching"
  /\ BreakOff(l, "lost")
  /\ UNCHANGED <<source, pages, skipped, latest, alone>>

\* Mutant: a refused page goes unmentioned.
PageUnmentioned(x) == skipped

PageNoted(x) == Append(skipped, Url(x.page))

\* A page refused ends the listing and is noted by its url with the records.
PageRefused(l) ==
  /\ listing[l].step = "fetching"
  /\ BreakOff(l, "refused")
  /\ skipped' = PageNoted(listing[l])
  /\ UNCHANGED <<source, pages, latest, alone>>

\* Mutant: the count of emitted products is left behind.
ResumedUncounted(x) == x

Resumed(x) == [x EXCEPT !.emitted = @ + 1]

\* The caller takes a product: a seeker may have what it wants, others go on.
Pull(l) ==
  LET x == listing[l] IN
  /\ x.step = "yielded"
  /\ IF x.sought # Nothing /\ x.sought = x.got[Len(x.got)]
     THEN Advance(l, [x EXCEPT !.step = "done"]) /\ UNCHANGED skipped
     ELSE Scan(l, Resumed(x))
  /\ UNCHANGED <<source, pages, latest, alone>>

\* A caller may leave its loop, which closes the generator.
Abandon(l) ==
  /\ listing[l].step = "yielded"
  /\ BreakOff(l, "left")
  /\ UNCHANGED <<source, pages, skipped, latest, alone>>

ListingNext ==
  \E l \in Listings : Start(l) \/ PageArrives(l) \/ PageLost(l) \/ PageRefused(l) \/ Pull(l) \/ Abandon(l)

ListingSpec == ListingInit /\ [][ListingNext]_listingVars

-----------------------------------------------------------------------------
Whole == IF source = "shopify" THEN FlattenSeq(pages) ELSE pages[1]

\* The records a listing has passed so far.
Passed(x) ==
  FlattenSeq(SubSeq(pages, 1, x.page - 1)) \o SubSeq(pages[x.page], 1, x.index - 1)

(* Whatever other listings do, a listing yields the catalog's valid        *)
(* products in order, no more than its limit, and when it ends of itself   *)
(* all of them up to the limit (listProducts of both connectors).          *)
YieldsAreTheValidProducts ==
  \A l \in Listings :
    LET x == listing[l]
        most == IF x.limit # NoLimit /\ x.limit < Len(Kept(Whole)) THEN x.limit ELSE Len(Kept(Whole))
    IN /\ IsPrefix(x.got, Kept(Whole)) /\ Len(x.got) <= most
       /\ x.step = "done" /\ x.broken = "no" /\ x.sought = Nothing => Len(x.got) = most

(* shopify.ts `skipped`, generic-rest.ts `skipped`: unless another listing *)
(* was under way when it began, the latest listing's report names exactly  *)
(* the records it has passed over, in order, and after them the page the   *)
(* server refused, if one was.  A page that is lost, and one the caller    *)
(* left, are not named.                                                    *)
SkipsAreReported ==
  latest # Nothing /\ alone =>
    LET x == listing[latest]
        noted == Dropped(Passed(x))
    IN skipped = IF x.broken = "refused" THEN Append(noted, Url(x.page)) ELSE noted
=============================================================================
