------------------------------ MODULE ShopBag -------------------------------
(***************************************************************************)
(* cartReducer (apps/demo-shop CartProvider.tsx): the lines of the bag, a  *)
(* sequence with one line per product and size.                            *)
(***************************************************************************)
EXTENDS Sequences, Integers, SequencesExt

HasLine(lines, key) == \E i \in DOMAIN lines : lines[i].key = key

\* The quantity a line shows, from which the drawer's buttons step.
CountOf(lines, key) ==
  IF HasLine(lines, key) THEN lines[CHOOSE i \in DOMAIN lines : lines[i].key = key].quantity ELSE 0

WithQuantity(lines, key, quantity) ==
  [i \in DOMAIN lines |->
     IF lines[i].key = key THEN [lines[i] EXCEPT !.quantity = quantity] ELSE lines[i]]

\* Mutant: every addition makes a line of its own.
AddLineAlways(lines, key) == Append(lines, [key |-> key, quantity |-> 1])

AddLine(lines, key) ==
  IF HasLine(lines, key) THEN WithQuantity(lines, key, CountOf(lines, key) + 1)
  ELSE Append(lines, [key |-> key, quantity |-> 1])

Keep(kept, line, key) == IF line.key = key THEN kept ELSE Append(kept, line)

RemoveLine(lines, key) == FoldLeft(LAMBDA kept, line : Keep(kept, line, key), << >>, lines)

SetQuantity(lines, key, quantity) ==
  IF quantity <= 0 THEN RemoveLine(lines, key) ELSE WithQuantity(lines, key, quantity)
=============================================================================
