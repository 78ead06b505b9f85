------------------------------- MODULE MCSuite -------------------------------
(* The suite of README.md:418-466 (create, update, get and delete an item,  *)
(* with a price in the initial context), and a suite with an always-run     *)
(* endpoint in the middle.                                                 *)
EXTENDS Suite

CONSTANTS price, itemId

ItemKeys == {price, itemId}
PriceOnly == {price}
ItemUses == <<{price}, {itemId}, {itemId}, {itemId}>>
ItemStores == <<{itemId}, {}, {}, {}>>
ItemCleanup == {4}

MiddleUses == <<{}, {price}, {itemId}>>
MiddleStores == <<{itemId}, {itemId, price}, {}>>
MiddleCleanup == {2}
=============================================================================
