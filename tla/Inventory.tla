----------------------------- MODULE Inventory -----------------------------
(***************************************************************************)
(* The stock of one warehouse: balances with a moving average cost, and    *)
(* the append-only ledger behind them (modules/inventory, post_movement).  *)
(*                                                                         *)
(* A movement locks the balance row it changes, so it is one step.  The    *)
(* look for an earlier entry of the same source is made before the lock    *)
(* and only answers early: of two calls that both found none, the unique   *)
(* constraint lets one commit.                                             *)
(*                                                                         *)
(* Costs are counted in the smallest unit a balance can store (four        *)
(* decimals), quantities in whole units.                                   *)
(***************************************************************************)
EXTENDS Integers, Sequences, SequencesExt

CONSTANTS
  Item,      \* stock items
  Source     \* values of the columns of stock_source_fact_uniq

VARIABLE
  books  \* Item -> [onHand, average, entries], the balance and its ledger;
         \* an entry is [source, quantity, after, worth], worth (history) being
         \* what all goods moved so far are worth at the cost they moved at

EmptyBooks == books = [i \in Item |-> [onHand |-> 0, average |-> 0, entries |-> <<>>]]

BooksTypeOK ==
  books \in [Item -> [onHand : Nat, average : Nat,
                      entries : Seq([source : Source, quantity : Int, after : Nat,
                                     worth : Int])]]

Posted(b) == {n \in Source : \E i \in Item : \E k \in DOMAIN b[i].entries :
                               b[i].entries[k].source = n}

Worth(book) == IF book.entries = <<>> THEN 0 ELSE Last(book.entries).worth

\* The checks on the new balance: it is not negative, and full_clean refuses
\* an average that does not end within four decimals.
Admissible(book, mv) ==
  /\ book.onHand + mv.quantity >= 0
  /\ mv.quantity > 0 =>
       (book.onHand * book.average + mv.quantity * mv.cost) % (book.onHand + mv.quantity) = 0

\* Mutant: goods that leave lower the average as goods that arrive raise it.
NewAverageOfAll(book, mv) ==
  IF book.onHand + mv.quantity = 0 THEN 0
  ELSE (book.onHand * book.average + mv.quantity * mv.cost) \div (book.onHand + mv.quantity)

\* Only arriving goods move the average.
NewAverage(book, mv) ==
  IF mv.quantity < 0 THEN book.average
  ELSE (book.onHand * book.average + mv.quantity * mv.cost) \div (book.onHand + mv.quantity)

\* Mutant: the entry keeps the balance there was before the movement.
EntryBefore(book, mv) ==
  [source |-> mv.source, quantity |-> mv.quantity, after |-> book.onHand,
   worth |-> Worth(book) + mv.quantity *
               (IF mv.quantity > 0 THEN mv.cost ELSE book.average)]

StockEntry(book, mv) ==
  [source |-> mv.source, quantity |-> mv.quantity, after |-> book.onHand + mv.quantity,
   worth |-> Worth(book) + mv.quantity *
               (IF mv.quantity > 0 THEN mv.cost ELSE book.average)]

\* What Post makes of the books when post_movement raises.
Refused == <<>>

\* post_movement: the books after it.  What a source has booked it does not
\* book again.
Post(mv, b) ==
  IF b = Refused \/ mv.source \in Posted(b) THEN b
  ELSE LET book == b[mv.item] IN
    IF ~Admissible(book, mv) THEN Refused
    ELSE [b EXCEPT ![mv.item] =
           [onHand |-> book.onHand + mv.quantity,
            average |-> NewAverage(book, mv),
            entries |-> Append(book.entries, StockEntry(book, mv))]]

\* A movement posted by hand.
PostMovement(mv) ==
  /\ books' = Post(mv, books)
  /\ books' # Refused

-----------------------------------------------------------------------------
(* Properties.                                                             *)

\* The balance is what the ledger says: balance_after runs through the
\* quantities without a gap and never below zero, and ends in the quantity on
\* hand; no source is booked twice, on this item or another.
StockIsLedger ==
  \A i \in Item : LET e == books[i].entries IN
    /\ \A k \in DOMAIN e :
         /\ e[k].after = (IF k = 1 THEN 0 ELSE e[k - 1].after) + e[k].quantity
         /\ e[k].after >= 0
         /\ \A j \in Item : \A n \in DOMAIN books[j].entries :
              books[j].entries[n].source = e[k].source => i = j /\ k = n
    /\ books[i].onHand = IF e = <<>> THEN 0 ELSE Last(e).after

\* The moving average neither makes nor loses value: quantity times average
\* cost is what came in, at its cost, less what went out, at the average then.
ValueIsConserved ==
  \A i \in Item : books[i].onHand * books[i].average = Worth(books[i])
=============================================================================
