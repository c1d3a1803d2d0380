-------------------------- MODULE MCCatalogListing --------------------------
(***************************************************************************)
(* Two listings that may overlap, on catalogs of up to three pages: with a *)
(* bad record first, last or alone on a page, an empty page, and records   *)
(* the two connectors judge differently.                                   *)
(***************************************************************************)
EXTENDS CatalogListing

CONSTANTS shoe, hat, sock, scarf, belt, first, second

Raw(id, images, price, vendor) ==
  [id |-> id, title |-> TRUE, images |-> images, price |-> price, vendor |-> vendor]

Shoe == Raw(shoe, {"https", "other"}, "number", "named")
Hat == Raw(hat, {"https"}, "garbage", "absent")
Sock == Raw(sock, {"https", "http"}, "number", "named")   \* dropped by both
Scarf == Raw(scarf, {"https"}, "negativeText", "named")   \* dropped by Shopify
Belt == Raw(belt, {"https"}, "number", "empty")           \* dropped by the feed

MCRecords == {Shoe, Hat, Sock, Scarf, Belt}
MCListings == {first, second}
MCCatalogs == {<<<<Shoe, Sock, Hat>>, <<Scarf>>>>, <<<<Sock, Belt>>, <<>>, <<Hat, Scarf>>>>,
               <<<<Shoe, Hat>>, <<Belt>>>>}
MCLimits == {0, 1, 2}
=============================================================================
