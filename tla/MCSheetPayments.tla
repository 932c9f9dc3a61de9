-------------------------- MODULE MCSheetPayments --------------------------
(* A small ledger for TLC.  Dates are chosen so that the month clamp, gaps *)
(* between payments and payments made in advance all occur.                *)
EXTENDS SheetPayments, TLC

Jan15 == 14
Jan31 == 30
Mar31 == 62 + 30

Spread     == {Jan15, Mar31}
Balance    == {Jan31}

Symmetry ==
  Permutations(PaymentIds) \cup Permutations(Refs) \cup Permutations(Panels)
============================================================================
