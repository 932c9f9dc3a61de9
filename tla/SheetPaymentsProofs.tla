------------------------ MODULE SheetPaymentsProofs ------------------------
(***************************************************************************)
(* Proofs about the payment ledger, for every set of payments, members and *)
(* provider ids and any number of operations: what adding a month does,    *)
(* that the ledger is idempotent, and that the terms it leads to are those *)
(* a replay of its payments computes.                                      *)
(***************************************************************************)
EXTENDS SheetPayments, WellFoundedInduction, TLAPS

-----------------------------------------------------------------------------
(* The calendar.                                                           *)

LEMMA MonthLengths == \A m \in Nat : DaysInMonth(m) \in {28, 29, 30, 31}
BY DEF DaysInMonth

(* A month number and a day of the month make up one date number.          *)
LEMMA DateParts ==
  ASSUME NEW m \in Nat, NEW k \in 0 .. 30
  PROVE  (31 * m + k) \div 31 = m /\ (31 * m + k) % 31 = k
OBVIOUS

LEMMA NextMonthDay ==
  ASSUME NEW d \in Date
  PROVE  /\ d \div 31 \in Nat /\ d % 31 \in 0 .. 30
         /\ d = 31 * (d \div 31) + (d % 31)
         /\ MinDay(d % 31, DaysInMonth(d \div 31 + 1) - 1) \in 0 .. 30
         /\ MinDay(d % 31, DaysInMonth(d \div 31 + 1) - 1)
              < DaysInMonth(d \div 31 + 1)
<1>1. d \in Nat
  BY DEF Date
<1>2. d \div 31 \in Nat /\ d % 31 \in 0 .. 30 /\ d = 31 * (d \div 31) + (d % 31)
  BY <1>1
<1> DEFINE m == d \div 31
           k == d % 31
           l == DaysInMonth(m + 1)
<1>3. l \in 28 .. 31
  BY <1>2, MonthLengths
<1>4. k \in 0 .. 30
  BY <1>2
<1> HIDE DEF m, k, l
<1>5. MinDay(k, l - 1) \in 0 .. 30 /\ MinDay(k, l - 1) < l
  BY <1>3, <1>4 DEF MinDay
<1> QED BY <1>2, <1>5 DEF m, k, l

(* Adding a month to a date gives a later date that exists.                *)
THEOREM AddedMonthIsLater ==
  \A d \in Date : AddCalendarMonth(d) \in Date /\ AddCalendarMonth(d) > d
<1> SUFFICES ASSUME NEW d \in Date
             PROVE  AddCalendarMonth(d) \in Date /\ AddCalendarMonth(d) > d
  OBVIOUS
<1> DEFINE m == d \div 31 + 1
           k == MinDay(d % 31, DaysInMonth(m) - 1)
<1>1. /\ m \in Nat /\ k \in 0 .. 30 /\ k < DaysInMonth(m)
      /\ d = 31 * (m - 1) + (d % 31) /\ d % 31 \in 0 .. 30
  BY NextMonthDay
<1>2. AddCalendarMonth(d) = 31 * m + k
  BY DEF AddCalendarMonth
<1> HIDE DEF m, k
<1>3. 31 * m + k \in Date
  <2>1. (31 * m + k) \div 31 = m /\ (31 * m + k) % 31 = k
    BY <1>1, DateParts
  <2>2. 31 * m + k \in Nat
    BY <1>1
  <2> QED BY <1>1, <2>1, <2>2 DEF Date
<1>4. 31 * m + k > d
  BY <1>1
<1> QED BY <1>2, <1>3, <1>4

(* Adding a month keeps the order of dates.                                *)
THEOREM AddedMonthsKeepOrder ==
  \A d, e \in Date : d <= e => AddCalendarMonth(d) <= AddCalendarMonth(e)
<1> SUFFICES ASSUME NEW d \in Date, NEW e \in Date, d <= e
             PROVE  AddCalendarMonth(d) <= AddCalendarMonth(e)
  OBVIOUS
<1> DEFINE md == d \div 31
           me == e \div 31
           kd == MinDay(d % 31, DaysInMonth(md + 1) - 1)
           ke == MinDay(e % 31, DaysInMonth(me + 1) - 1)
<1>1. /\ md \in Nat /\ d % 31 \in 0 .. 30 /\ d = 31 * md + (d % 31)
      /\ kd \in 0 .. 30
  BY NextMonthDay
<1>2. /\ me \in Nat /\ e % 31 \in 0 .. 30 /\ e = 31 * me + (e % 31)
      /\ ke \in 0 .. 30
  BY NextMonthDay
<1>3. AddCalendarMonth(d) = 31 * (md + 1) + kd
      /\ AddCalendarMonth(e) = 31 * (me + 1) + ke
  BY DEF AddCalendarMonth
<1>4. CASE md = me
  <2> DEFINE rd == d % 31
             re == e % 31
             l  == DaysInMonth(md + 1)
  <2>1. l \in Nat
    BY <1>1, MonthLengths
  <2>2. kd = MinDay(rd, l - 1) /\ ke = MinDay(re, l - 1)
    BY <1>4
  <2>3. rd \in Nat /\ re \in Nat /\ rd <= re
    BY <1>1, <1>2, <1>4
  <2> HIDE DEF rd, re, l
  <2>4. MinDay(rd, l - 1) <= MinDay(re, l - 1)
    BY <2>1, <2>3 DEF MinDay
  <2>5. kd <= ke
    BY <2>2, <2>4
  <2> HIDE DEF md, me, kd, ke
  <2> QED BY <1>1, <1>2, <1>3, <1>4, <2>5
<1>5. CASE md # me
  <2> DEFINE rd == d % 31
             re == e % 31
  <2> HIDE DEF md, me, kd, ke, rd, re
  <2>3. /\ md \in Nat /\ rd \in 0 .. 30 /\ d = 31 * md + rd /\ kd \in 0 .. 30
        /\ me \in Nat /\ re \in 0 .. 30 /\ e = 31 * me + re /\ ke \in 0 .. 30
    BY <1>1, <1>2 DEF rd, re
  <2>4. md < me
    BY <2>3, <1>5
  <2> QED BY <1>3, <2>3, <2>4
<1> QED BY <1>4, <1>5

-----------------------------------------------------------------------------
(* The rows of the ledger, and what an operation does to them.             *)

LedgerInv == LedgerTypeOK /\ EveryClaimHasOneResult /\ ProcessingCreditsOnce

(* What an operation does to the ledger: nothing, or one more row that was *)
(* Fresh, or another date and provider id for the row of a panel's form,   *)
(* or a processed row marked deleted.                                      *)
Unchanged ==
  results' = results /\ inbox' = inbox /\ corrections' = corrections

Added ==
  \E row \in Row, known \in BOOLEAN, status \in {"processed", "error"} :
    /\ Fresh(row)
    /\ results' = Append(results, [pid |-> row.pid, tid |-> row.tid,
         paidAt |-> row.paidAt, known |-> known, ref |-> row.ref,
         status |-> status])
    /\ inbox' = inbox \cup {row.pid}
    /\ corrections' = corrections

Corrected ==
  \E a \in Panels :
    LET f == panel[a]
    IN  /\ f # NoForm
        /\ results' = [results EXCEPT ![f.row].paidAt = f.paidAt,
                                      ![f.row].ref = f.ref]
        /\ inbox' = inbox
        /\ corrections' = Append(corrections, [pid |-> results[f.row].pid,
             tid |-> results[f.row].tid, kind |-> "correct"])

Deleted ==
  \E i \in DOMAIN results :
    /\ results[i].status = "processed"
    /\ results' = [results EXCEPT ![i].status = "deleted"]
    /\ inbox' = inbox
    /\ corrections' = Append(corrections,
         [pid |-> results[i].pid, tid |-> results[i].tid, kind |-> "delete"])

(* Every step of the specification is one of the four.                     *)
LEMMA StepKinds ==
  ASSUME [Next]_vars
  PROVE  Unchanged \/ Added \/ Corrected \/ Deleted
<1>1. ASSUME NEW row \in Row, Fresh(row), NEW until, Store(row, until)
      PROVE  Added
  <2>1. (row.tid \in users /\ row.paidAt # NoDate) \in BOOLEAN
    OBVIOUS
  <2>2. (IF KnownUser(row) /\ row.valid THEN "processed" ELSE "error")
          \in {"processed", "error"}
    OBVIOUS
  <2> QED BY <1>1, <2>1, <2>2, Zenon DEF Store, Added
<1>2. CASE ProcessSheetPayment
  <2>1. PICK row \in Row : ExtendTerm(row) \/ RejectRow(row)
    BY <1>2 DEF ProcessSheetPayment
  <2>2. Fresh(row) /\ \E until : Store(row, until)
    BY <2>1 DEF ExtendTerm, RejectRow
  <2> QED BY <1>1, <2>2
<1>3. CASE Correct
  <2>1. PICK a \in Panels :
          \/ \E i \in DOMAIN results, paidAt \in SheetDates :
               \E ref \in Refs \cup {results[i].ref} :
                 CheckCorrection(a, i, paidAt, ref)
          \/ WriteCorrection(a)
          \/ DropCorrection(a)
    BY <1>3 DEF Correct
  <2>2. CASE WriteCorrection(a)
    BY <2>2, Zenon DEF WriteCorrection, Corrected
  <2>3. CASE ~WriteCorrection(a)
    BY <2>1, <2>3, Zenon DEF CheckCorrection, DropCorrection, ledger, Unchanged
  <2> QED BY <2>2, <2>3
<1>4. CASE Delete
  BY <1>4 DEF Delete, DeletePayment, Deleted
<1>5. CASE \E u \in TelegramIds : CreateSheetUser(u)
  BY <1>5 DEF CreateSheetUser, ledger, Unchanged
<1>6. CASE \E u \in TelegramIds, until \in ImportDates : ImportUser(u, until)
  BY <1>6 DEF ImportUser, ledger, Unchanged
<1>7. CASE UNCHANGED vars
  BY <1>7 DEF vars, Unchanged
<1> QED BY <1>2, <1>3, <1>4, <1>5, <1>6, <1>7 DEF Next

-----------------------------------------------------------------------------
(* The ledger invariant.                                                   *)

LEMMA InitLedger == Init => LedgerInv
<1> SUFFICES ASSUME Init PROVE LedgerInv
  OBVIOUS
<1>1. CASE Installed
  BY <1>1, UserAssumption
  DEF Init, Installed, LedgerInv, LedgerTypeOK, PanelTypeOK,
      EveryClaimHasOneResult, ProcessingCreditsOnce, SameReference
<1>2. CASE Upgraded
  <2>1. PICK u \in InitialUsers, pid \in PaymentIds, d \in SheetDates :
          /\ users = InitialUsers
          /\ results = <<[pid |-> pid, tid |-> u, known |-> TRUE, paidAt |-> d,
                          ref |-> NoRef, status |-> "processed"]>>
          /\ inbox = {pid}
          /\ invites = {[kind |-> "payment", pid |-> pid, tid |-> u]}
    BY <1>2 DEF Upgraded
  <2>2. corrections = << >> /\ PanelTypeOK
    BY DEF Init, PanelTypeOK
  <2>3. results \in Seq(Result) /\ DOMAIN results = {1} /\ results[1].pid = pid
    BY <2>1, UserAssumption DEF Result
  <2>4. invites \subseteq InviteKey
    BY <2>1, UserAssumption DEF InviteKey
  <2> QED
    BY <2>1, <2>2, <2>3, <2>4, UserAssumption
    DEF LedgerInv, LedgerTypeOK, EveryClaimHasOneResult, ProcessingCreditsOnce,
        SameReference
<1> QED BY <1>1, <1>2 DEF Init

\* The ids of a stored row.
LEMMA ResultFields ==
  ASSUME NEW r \in Result
  PROVE  r.tid \in TelegramIds /\ r.pid \in PaymentIds
BY DEF Result

(* The part of the type invariant that only grows by well-formed entries.  *)
LEMMA EntriesTyped ==
  ASSUME LedgerTypeOK, [Next]_vars
  PROVE  /\ users' \subseteq TelegramIds
         /\ corrections' \in Seq(Correction)
         /\ invites' \subseteq InviteKey
<1> USE DEF LedgerTypeOK
<1>1. CASE ProcessSheetPayment
  <2>1. PICK row \in Row : ExtendTerm(row) \/ RejectRow(row)
    BY <1>1 DEF ProcessSheetPayment
  <2>2. users' = users /\ corrections' = corrections
    BY <2>1 DEF ExtendTerm, RejectRow, Store
  <2>3. invites' = invites \/ invites' = invites \cup
          {[kind |-> "payment", pid |-> row.pid, tid |-> row.tid]}
    BY <2>1 DEF ExtendTerm, RejectRow
  <2> QED BY <2>2, <2>3 DEF Row, InviteKey
<1>2. CASE Correct
  <2>1. PICK a \in Panels :
          \/ \E i \in DOMAIN results, paidAt \in SheetDates :
               \E ref \in Refs \cup {results[i].ref} :
                 CheckCorrection(a, i, paidAt, ref)
          \/ WriteCorrection(a)
          \/ DropCorrection(a)
    BY <1>2 DEF Correct
  <2>2. CASE WriteCorrection(a)
    <3>1. panel[a].row \in DOMAIN results
      BY <2>2 DEF WriteCorrection, PanelTypeOK
    <3>2. results[panel[a].row] \in Result
      BY <3>1
    <3>3. /\ results[panel[a].row].tid \in TelegramIds
          /\ results[panel[a].row].pid \in PaymentIds
      BY <3>2, ResultFields, Zenon
    <3>4. /\ users' = users
          /\ corrections' = Append(corrections, [pid |-> results[panel[a].row].pid,
               tid |-> results[panel[a].row].tid, kind |-> "correct"])
          /\ invites' = invites \cup {[kind |-> "correction",
               n |-> Len(corrections) + 1, tid |-> results[panel[a].row].tid]}
      BY <2>2 DEF WriteCorrection
    <3>5. Len(corrections) + 1 \in Nat
      OBVIOUS
    <3> QED BY <3>3, <3>4, <3>5 DEF Correction, InviteKey
  <2>3. CASE ~WriteCorrection(a)
    BY <2>1, <2>3 DEF CheckCorrection, DropCorrection, ledger
  <2> QED BY <2>2, <2>3
<1>3. CASE Delete
  <2>1. PICK i \in DOMAIN results : DeletePayment(i)
    BY <1>3 DEF Delete
  <2>a. results[i] \in Result
    OBVIOUS
  <2>2. results[i].tid \in TelegramIds /\ results[i].pid \in PaymentIds
    BY <2>a DEF Result
  <2>3. /\ users' = users /\ invites' = invites
        /\ corrections' = Append(corrections, [pid |-> results[i].pid,
             tid |-> results[i].tid, kind |-> "delete"])
    BY <2>1 DEF DeletePayment
  <2> QED BY <2>2, <2>3 DEF Correction
<1>4. CASE \E u \in TelegramIds : CreateSheetUser(u)
  BY <1>4 DEF CreateSheetUser, ledger
<1>5. CASE \E u \in TelegramIds, until \in ImportDates : ImportUser(u, until)
  <2>1. PICK u \in TelegramIds, until \in ImportDates : ImportUser(u, until)
    BY <1>5
  <2>2. until \in Date
    BY DateAssumption
  <2> QED BY <2>1, <2>2 DEF ImportUser, ledger, InviteKey
<1>6. CASE UNCHANGED vars
  BY <1>6 DEF vars
<1> QED BY <1>1, <1>2, <1>3, <1>4, <1>5, <1>6 DEF Next

(* A form names a row of the ledger, which never shrinks.                  *)
LEMMA RowsStay ==
  ASSUME LedgerTypeOK, [Next]_vars
  PROVE  DOMAIN results \subseteq DOMAIN results'
<1>1. results \in Seq(Result)
  BY DEF LedgerTypeOK
<1>2. CASE Added
  <2>1. PICK new : results' = Append(results, new)
    BY <1>2 DEF Added
  <2>2. Len(results') = Len(results) + 1 /\ Len(results) \in Nat
    BY <1>1, <2>1
  <2>3. DOMAIN results = 1 .. Len(results) /\ DOMAIN results' = 1 .. Len(results')
    BY <1>1, <2>1
  <2> QED BY <2>2, <2>3
<1> QED BY <1>1, <1>2, StepKinds DEF Unchanged, Corrected, Deleted

LEMMA FormsTyped ==
  ASSUME LedgerTypeOK, [Next]_vars
  PROVE  PanelTypeOK'
<1> USE DEF LedgerTypeOK, PanelTypeOK
<1>1. CASE panel' = panel
  BY <1>1, RowsStay
<1>2. ASSUME NEW a \in Panels, panel' = [panel EXCEPT ![a] = NoForm]
      PROVE  PanelTypeOK'
  BY <1>2, RowsStay
<1>3. ASSUME NEW a \in Panels, NEW i \in DOMAIN results, NEW d \in SheetDates,
             NEW ref \in Refs \cup {results[i].ref}, CheckCorrection(a, i, d, ref)
      PROVE  PanelTypeOK'
  <2>1. PICK until : panel' = [panel EXCEPT ![a] =
                       [row |-> i, paidAt |-> d, ref |-> ref, until |-> until]]
    BY <1>3 DEF CheckCorrection
  <2>2. results[i] \in Result
    OBVIOUS
  <2>3. ref \in Refs \cup {NoRef}
    BY <2>2 DEF Result
  <2> QED BY <2>1, <2>3, RowsStay
<1>4. CASE Correct
  BY <1>2, <1>3, <1>4 DEF Correct, WriteCorrection, DropCorrection
<1>5. CASE panel' # panel
  BY <1>4, <1>5
  DEF Next, vars, ProcessSheetPayment, ExtendTerm, RejectRow, Store, Delete,
      DeletePayment, CreateSheetUser, ImportUser
<1> QED BY <1>1, <1>5

LEMMA NextLedger == LedgerInv /\ [Next]_vars => LedgerInv'
<1> SUFFICES ASSUME LedgerInv, [Next]_vars PROVE LedgerInv'
  OBVIOUS
<1> USE DEF LedgerInv, LedgerTypeOK
<1>0. /\ users' \subseteq TelegramIds /\ corrections' \in Seq(Correction)
      /\ invites' \subseteq InviteKey /\ PanelTypeOK'
  BY EntriesTyped, FormsTyped
<1>1. CASE Unchanged
  BY <1>0, <1>1
  DEF Unchanged, EveryClaimHasOneResult, ProcessingCreditsOnce, SameReference,
      CorrectedRows
<1>2. CASE Added
  <2>1. PICK row \in Row, known \in BOOLEAN, status \in {"processed", "error"} :
          /\ Fresh(row)
          /\ results' = Append(results, [pid |-> row.pid, tid |-> row.tid,
               paidAt |-> row.paidAt, known |-> known, ref |-> row.ref,
               status |-> status])
          /\ inbox' = inbox \cup {row.pid}
          /\ corrections' = corrections
    BY <1>2 DEF Added
  <2> DEFINE new == [pid |-> row.pid, tid |-> row.tid, paidAt |-> row.paidAt,
                     known |-> known, ref |-> row.ref, status |-> status]
             n == Len(results) + 1
  <2>2. new \in Result
    BY DEF Row, Result
  <2> HIDE DEF new
  <2>3. results' = Append(results, new)
    BY <2>1 DEF new
  <2>4. /\ results' \in Seq(Result) /\ DOMAIN results' = DOMAIN results \cup {n}
        /\ results'[n] = new /\ \A i \in DOMAIN results : results'[i] = results[i]
        /\ n \notin DOMAIN results
    BY <2>2, <2>3
  <2>5. new.pid = row.pid /\ new.ref = row.ref
    BY DEF new
  <2>6. EveryClaimHasOneResult'
    BY <2>1, <2>4, <2>5 DEF EveryClaimHasOneResult, Fresh
  <2>7. ProcessingCreditsOnce'
    <3>1. CorrectedRows \subseteq CorrectedRows'
      BY <2>1, <2>4 DEF CorrectedRows
    <3>2. ASSUME NEW i \in DOMAIN results', NEW j \in DOMAIN results', SameReference(i, j)'
          PROVE  i \in DOMAIN results /\ j \in DOMAIN results
      BY <2>1, <2>4, <2>5, <3>2 DEF SameReference, Fresh
    <3>3. ASSUME NEW i \in DOMAIN results, NEW j \in DOMAIN results, SameReference(i, j)'
          PROVE  i \in CorrectedRows \/ j \in CorrectedRows
      BY <2>4, <3>3 DEF ProcessingCreditsOnce, SameReference
    <3> QED
      BY <3>1, <3>2, <3>3 DEF ProcessingCreditsOnce
  <2>8. inbox' \subseteq PaymentIds
    BY <2>1 DEF Row
  <2> QED BY <1>0, <2>4, <2>6, <2>7, <2>8
<1>3. CASE Corrected
  <2>1. PICK a \in Panels :
          /\ panel[a] # NoForm
          /\ results' = [results EXCEPT ![panel[a].row].paidAt = panel[a].paidAt,
                                        ![panel[a].row].ref = panel[a].ref]
          /\ inbox' = inbox
          /\ corrections' = Append(corrections, [pid |-> results[panel[a].row].pid,
               tid |-> results[panel[a].row].tid, kind |-> "correct"])
    BY <1>3 DEF Corrected
  <2> DEFINE i == panel[a].row
             new == [results[i] EXCEPT !.paidAt = panel[a].paidAt,
                                       !.ref = panel[a].ref]
             entry == [pid |-> results[i].pid, tid |-> results[i].tid,
                       kind |-> "correct"]
             m == Len(corrections) + 1
  <2>2. /\ i \in DOMAIN results /\ panel[a].paidAt \in SheetDates
        /\ panel[a].ref \in Refs \cup {NoRef}
    BY <2>1 DEF PanelTypeOK
  <2>3. results[i] \in Result
    BY <2>2
  <2>4. new \in Result /\ new.pid = results[i].pid
    BY <2>2, <2>3 DEF Result
  <2>5. results' = [results EXCEPT ![i] = new]
    BY <2>1, <2>2, <2>3 DEF Result
  <2>6. entry.pid = results[i].pid /\ entry.kind = "correct"
    OBVIOUS
  <2>7. corrections' = Append(corrections, entry)
    BY <2>1
  <2> HIDE DEF new, i, entry
  <2>8. /\ results' \in Seq(Result) /\ DOMAIN results' = DOMAIN results
        /\ results'[i] = new
        /\ \A j \in DOMAIN results \ {i} : results'[j] = results[j]
    BY <2>2, <2>4, <2>5
  <2>9. /\ \A k \in DOMAIN corrections :
             k \in DOMAIN corrections' /\ corrections'[k] = corrections[k]
        /\ m \in DOMAIN corrections' /\ corrections'[m] = entry
    <3>1. corrections \in Seq(Correction)
      OBVIOUS
    <3> QED BY <2>7, <3>1
  <2>10. EveryClaimHasOneResult'
    <3>1. \A j \in DOMAIN results : results'[j].pid = results[j].pid
      BY <2>4, <2>8
    <3> QED BY <2>1, <2>8, <3>1 DEF EveryClaimHasOneResult
  <2>11. CorrectedRows \subseteq CorrectedRows' /\ i \in CorrectedRows'
    BY <2>2, <2>4, <2>6, <2>8, <2>9 DEF CorrectedRows
  <2>12. ProcessingCreditsOnce'
    BY <2>8, <2>11 DEF ProcessingCreditsOnce, SameReference
  <2> QED BY <1>0, <2>1, <2>8, <2>10, <2>12
<1>4. CASE Deleted
  <2>1. PICK i \in DOMAIN results :
          /\ results' = [results EXCEPT ![i].status = "deleted"]
          /\ inbox' = inbox
          /\ corrections' = Append(corrections,
               [pid |-> results[i].pid, tid |-> results[i].tid, kind |-> "delete"])
    BY <1>4 DEF Deleted
  <2>2. results[i] \in Result
    OBVIOUS
  <2> DEFINE new == [results[i] EXCEPT !.status = "deleted"]
  <2>3. new \in Result /\ new.pid = results[i].pid /\ new.ref = results[i].ref
    BY <2>2 DEF Result
  <2>4. results' = [results EXCEPT ![i] = new]
    BY <2>1
  <2> HIDE DEF new
  <2>5. /\ results' \in Seq(Result) /\ DOMAIN results' = DOMAIN results
        /\ results'[i] = new
        /\ \A j \in DOMAIN results \ {i} : results'[j] = results[j]
    BY <2>3, <2>4
  <2>6. EveryClaimHasOneResult'
    <3>1. \A j \in DOMAIN results : results'[j].pid = results[j].pid
      BY <2>3, <2>5
    <3> QED BY <2>1, <2>5, <3>1 DEF EveryClaimHasOneResult
  <2>7. \A k \in DOMAIN corrections :
           k \in DOMAIN corrections' /\ corrections'[k] = corrections[k]
    <3>1. corrections \in Seq(Correction)
      OBVIOUS
    <3> QED BY <2>1, <3>1
  <2>8. CorrectedRows \subseteq CorrectedRows'
    BY <2>3, <2>5, <2>7 DEF CorrectedRows
  <2>9. ProcessingCreditsOnce'
    BY <2>3, <2>5, <2>8 DEF ProcessingCreditsOnce, SameReference
  <2> QED BY <1>0, <2>1, <2>5, <2>6, <2>9
<1> QED BY <1>1, <1>2, <1>3, <1>4, StepKinds

(* The ledger invariant holds in every reachable state.                    *)
LEMMA LedgerInvariant == Spec => []LedgerInv
BY InitLedger, NextLedger, PTL DEF Spec

(* The ledger's tables always hold well-formed rows.                       *)
THEOREM LedgerTyped == Spec => []LedgerTypeOK
BY LedgerInvariant, PTL DEF LedgerInv

(* Every claimed payment id has exactly one result, and no other payment   *)
(* id has one.                                                             *)
THEOREM OneResultPerClaim == Spec => []EveryClaimHasOneResult
BY LedgerInvariant, PTL DEF LedgerInv

(* A provider's payment is credited at most once, through any number of    *)
(* imports and deletions: only a correction may write its id once more.    *)
THEOREM NoDoubleCredit == Spec => []ProcessingCreditsOnce
BY LedgerInvariant, PTL DEF LedgerInv

-----------------------------------------------------------------------------
(* Deletion is final.                                                      *)

LEMMA DeletionFinal ==
  ASSUME LedgerInv, [Next]_vars,
         NEW i \in DOMAIN results, results[i].status = "deleted"
  PROVE  /\ i \in DOMAIN results' /\ results'[i].status = "deleted"
         /\ \A j \in DOMAIN results' \ {i} : results'[j].pid # results[i].pid
<1> USE DEF LedgerInv, LedgerTypeOK
<1>1. /\ i \in DOMAIN results' /\ results'[i].status = "deleted"
      /\ results'[i].pid = results[i].pid
  <2>0. results[i] \in Result
    OBVIOUS
  <2>1. CASE Unchanged
    BY <2>1 DEF Unchanged
  <2>2. CASE Added
    BY <2>2 DEF Added
  <2>3. CASE Corrected
    BY <2>0, <2>3 DEF Corrected, Result
  <2>4. CASE Deleted
    BY <2>0, <2>4 DEF Deleted, Result
  <2> QED BY <2>1, <2>2, <2>3, <2>4, StepKinds
<1>2. LedgerInv'
  BY NextLedger
<1> QED BY <1>1, <1>2 DEF EveryClaimHasOneResult

(* A deleted payment stays deleted, and no row repeats its payment id.     *)
THEOREM DeletionIsFinal == Spec => DeletedForever
<1>1. LedgerInv /\ [Next]_vars =>
        [\A i \in DOMAIN results : results[i].status = "deleted" =>
           /\ i \in DOMAIN results' /\ results'[i].status = "deleted"
           /\ \A j \in DOMAIN results' \ {i} :
                results'[j].pid # results[i].pid]_vars
  BY DeletionFinal
<1> QED BY <1>1, LedgerInvariant, PTL DEF Spec, DeletedForever

-----------------------------------------------------------------------------
(* The terms a replay computes, as a function of the rows alone.           *)

(* Induction over the rows: a set of numbers that has 0 and the successor  *)
(* of each of its members has every number; else there is a least that it  *)
(* lacks.                                                                  *)
LEMMA CountingSet ==
  ASSUME NEW S, 0 \in S, \A n \in Nat : n \in S => n + 1 \in S
  PROVE  \A n \in Nat : n \in S
<1> SUFFICES ASSUME Nat \ S # {} PROVE FALSE
  OBVIOUS
<1> DEFINE R == {ss \in Nat \X Nat : ss[1] < ss[2]}
<1>1. R = OpToRel(<, Nat)
  BY Zenon DEF OpToRel
<1>2. IsWellFoundedOn(R, Nat)
  BY <1>1, NatLessThanWellFounded
<1>3. PICK x \in Nat \ S : \A y \in Nat \ S : ~(<<y, x>> \in R)
  <2>1. Nat \ S \subseteq Nat
    OBVIOUS
  <2> HIDE DEF R
  <2> QED BY <1>2, <2>1, WFMin
<1>a. \A y \in Nat \ S : ~(y < x)
  BY <1>3
<1> HIDE DEF R
<1>4. x - 1 \in Nat /\ x = (x - 1) + 1
  BY <1>3
<1>5. x - 1 \in S
  BY <1>a, <1>4
<1> QED BY <1>4, <1>5

LEMMA Dates ==
  /\ Date \subseteq Nat /\ NoDate = -1 /\ NoDate \notin Date
  /\ OptionalDate = Date \cup {NoDate} /\ OptionalDate \subseteq Int
  /\ \A d \in OptionalDate : NoDate <= d
  /\ \A d \in OptionalDate, e \in Date : d >= e => d \in Date
BY DEF Date, NoDate, OptionalDate

LEMMA LaterDate ==
  ASSUME NEW d \in OptionalDate, NEW e \in OptionalDate
  PROVE  /\ MaxDate(d, e) \in OptionalDate /\ MaxDate(d, e) \in {d, e}
         /\ MaxDate(d, e) >= d /\ MaxDate(d, e) >= e
         /\ d \in Date => MaxDate(d, e) \in Date
BY Dates DEF MaxDate

(* One more payment: the new term is a date, after the term so far and     *)
(* after the payment, and a later term before it gives no earlier one.     *)
LEMMA OneMonth ==
  ASSUME NEW d \in Date, NEW e \in OptionalDate
  PROVE  /\ AddCalendarMonth(MaxDate(d, e)) \in Date
         /\ AddCalendarMonth(MaxDate(d, e)) > e
         /\ AddCalendarMonth(MaxDate(d, e)) > d
         /\ \A f \in OptionalDate : e <= f =>
              AddCalendarMonth(MaxDate(d, e)) <= AddCalendarMonth(MaxDate(d, f))
<1>1. MaxDate(d, e) \in Date /\ MaxDate(d, e) >= d /\ MaxDate(d, e) >= e
  BY LaterDate, Dates
<1>2. AddCalendarMonth(MaxDate(d, e)) \in Date
      /\ AddCalendarMonth(MaxDate(d, e)) > MaxDate(d, e)
  BY <1>1, AddedMonthIsLater
<1>3. ASSUME NEW f \in OptionalDate, e <= f
      PROVE  AddCalendarMonth(MaxDate(d, e)) <= AddCalendarMonth(MaxDate(d, f))
  <2>1. MaxDate(d, f) \in Date
    BY LaterDate, Dates
  <2>2. MaxDate(d, e) <= MaxDate(d, f)
    BY <1>3, Dates DEF MaxDate
  <2> QED BY <1>1, <2>1, <2>2, AddedMonthsKeepOrder
<1>4. /\ d \in Int /\ e \in Int /\ MaxDate(d, e) \in Int
      /\ AddCalendarMonth(MaxDate(d, e)) \in Int
  BY <1>1, <1>2, Dates
<1> HIDE DEF AddCalendarMonth
<1> QED BY <1>1, <1>2, <1>3, <1>4

(* The largest of some dates, none of them at all included.                *)
LEMMA LatestIs ==
  ASSUME NEW S, S \subseteq OptionalDate,
         NEW m \in S \cup {NoDate}, \A d \in S : d <= m
  PROVE  Latest(S) = m
<1>1. \A d \in S \cup {NoDate} : d \in Int /\ m >= d
  BY Dates
<1> QED BY <1>1 DEF Latest, Max

LEMMA LatestOfRows ==
  ASSUME NEW n \in Nat, NEW f, NEW is, is \subseteq 1 .. n,
         \A i \in is : f[i] \in OptionalDate
  PROVE  /\ Latest({f[i] : i \in is}) \in {f[i] : i \in is} \cup {NoDate}
         /\ Latest({f[i] : i \in is}) \in OptionalDate
         /\ \A j \in is : f[j] <= Latest({f[i] : i \in is})
<1> DEFINE Top(m, k) == /\ m \in {f[i] : i \in is} \cup {NoDate}
                        /\ \A j \in is : j <= k => f[j] <= m
           S == {k \in Nat : \E m : Top(m, k)}
<1>1. 0 \in S
  <2>1. \A i \in is : ~(i <= 0)
    OBVIOUS
  <2>2. Top(NoDate, 0)
    BY <2>1
  <2> QED BY <2>2
<1>2. ASSUME NEW k \in Nat, k \in S PROVE k + 1 \in S
  <2>1. PICK m : Top(m, k)
    BY <1>2
  <2>2. m \in OptionalDate
    BY <2>1, Dates
  <2>3. CASE k + 1 \in is
    <3>1. f[k + 1] \in OptionalDate
      BY <2>3
    <3>2. \A i \in is : i <= k + 1 => i <= k \/ i = k + 1
      OBVIOUS
    <3>3. MaxDate(m, f[k + 1]) \in {m, f[k + 1]} /\ m <= MaxDate(m, f[k + 1])
          /\ f[k + 1] <= MaxDate(m, f[k + 1])
      BY <2>2, <3>1, LaterDate, Dates
    <3>4. \A i \in is : i <= k + 1 => f[i] <= MaxDate(m, f[k + 1])
      <4> SUFFICES ASSUME NEW i \in is, i <= k + 1
                   PROVE  f[i] <= MaxDate(m, f[k + 1])
        OBVIOUS
      <4>1. CASE i = k + 1
        BY <3>3, <4>1
      <4>2. CASE i <= k
        <5>1. f[i] <= m /\ f[i] \in Int /\ m \in Int /\ f[k + 1] \in Int
          BY <2>1, <2>2, <3>1, <4>2, Dates
        <5> QED BY <3>3, <5>1
      <4> QED BY <3>2, <4>1, <4>2
    <3>5. Top(MaxDate(m, f[k + 1]), k + 1)
      BY <2>1, <2>3, <3>3, <3>4
    <3> QED BY <3>5
  <2>4. CASE k + 1 \notin is
    <3>1. \A i \in is : i <= k + 1 => i <= k
      BY <2>4
    <3>2. Top(m, k + 1)
      BY <2>1, <3>1
    <3> QED BY <3>2
  <2> QED BY <2>3, <2>4
<1>3. n \in S
  <2> HIDE DEF S
  <2> QED BY <1>1, <1>2, CountingSet
<1>4. PICK m : Top(m, n)
  BY <1>3
<1> DEFINE D == {f[i] : i \in is}
<1>5. (\A d \in D : d <= m) /\ (\A i \in is : f[i] \in D)
  BY <1>4
<1>6. D \subseteq OptionalDate /\ m \in D \cup {NoDate}
  BY <1>4
<1> HIDE DEF D, Top
<1>7. Latest(D) = m
  BY <1>5, <1>6, LatestIs
<1>8. m \in OptionalDate
  BY <1>6, Dates
<1>9. \A i \in is : f[i] <= Latest(D)
  BY <1>5, <1>7
<1> QED BY <1>6, <1>7, <1>8, <1>9 DEF D
-----------------------------------------------------------------------------
(* The replay, as a function of the rows.                                  *)

TermsOf(rs, base, is) ==
  LET term[i \in 0 .. Len(rs)] ==
        IF i = 0 THEN base
        ELSE IF i \in is
             THEN AddCalendarMonth(MaxDate(rs[i].paidAt, term[i - 1]))
             ELSE term[i - 1]
  IN  term

LEMMA ReplayIsTermsOf ==
  /\ \A base, is : Replay(base, is) = TermsOf(results, base, is)
  /\ \A base, is : Replay(base, is)' = TermsOf(results', base, is)
BY DEF Replay, TermsOf

\* What TermsOf is defined to be: t follows the rule up to row n.
NextTerm(rs, is, t, i) ==
  IF i \in is THEN AddCalendarMonth(MaxDate(rs[i].paidAt, t[i - 1])) ELSE t[i - 1]

Follows(t, rs, base, is, n) ==
  /\ t = [i \in 0 .. n |-> t[i]] /\ t[0] = base
  /\ \A i \in 1 .. n : t[i] = NextTerm(rs, is, t, i)

LEMMA TermsExist ==
  ASSUME NEW rs, NEW base, NEW is
  PROVE  \A n \in Nat : \E t : Follows(t, rs, base, is, n)
<1> DEFINE S == {n \in Nat : \E t : Follows(t, rs, base, is, n)}
<1>1. 0 \in S
  <2>1. Follows([i \in 0 .. 0 |-> base], rs, base, is, 0)
    BY DEF Follows
  <2> QED BY <2>1
<1>2. ASSUME NEW n \in Nat, n \in S PROVE n + 1 \in S
  <2>1. PICK t : Follows(t, rs, base, is, n)
    BY <1>2
  <2> DEFINE u == [i \in 0 .. n + 1 |-> IF i = n + 1 THEN NextTerm(rs, is, t, n + 1) ELSE t[i]]
  <2>2. u = [i \in 0 .. n + 1 |-> u[i]]
    OBVIOUS
  <2>3. (\A i \in 0 .. n : u[i] = t[i]) /\ u[n + 1] = NextTerm(rs, is, t, n + 1)
    OBVIOUS
  <2> HIDE DEF u
  <2>4. \A i \in 1 .. n + 1 : i - 1 \in 0 .. n /\ (i \in 1 .. n \/ i = n + 1)
    OBVIOUS
  <2>5. \A i \in 1 .. n + 1 : NextTerm(rs, is, u, i) = NextTerm(rs, is, t, i)
    BY <2>3, <2>4 DEF NextTerm
  <2>6. \A i \in 1 .. n : u[i] = NextTerm(rs, is, t, i)
    BY <2>1, <2>3 DEF Follows
  <2>7. \A i \in 1 .. n + 1 : u[i] = NextTerm(rs, is, u, i)
    BY <2>3, <2>4, <2>5, <2>6
  <2>8. u[0] = base
    BY <2>1, <2>3 DEF Follows
  <2>9. Follows(u, rs, base, is, n + 1)
    BY <2>2, <2>7, <2>8 DEF Follows
  <2> QED BY <2>9
<1> HIDE DEF S
<1>3. \A n \in Nat : n \in S
  BY <1>1, <1>2, CountingSet
<1> QED BY <1>3 DEF S

LEMMA TermsFollow ==
  ASSUME NEW rs, Len(rs) \in Nat, NEW base, NEW is
  PROVE  Follows(TermsOf(rs, base, is), rs, base, is, Len(rs))
<1> DEFINE n == Len(rs)
           Rule(t) == [i \in 0 .. n |-> IF i = 0 THEN base ELSE
                         IF i \in is THEN AddCalendarMonth(MaxDate(rs[i].paidAt, t[i - 1]))
                         ELSE t[i - 1]]
<1>1. PICK t : Follows(t, rs, base, is, n)
  BY TermsExist
<1>2. t = Rule(t)
  <2>1. \A i \in 0 .. n : t[i] = Rule(t)[i]
    <3>1. \A i \in 1 .. n : t[i] = Rule(t)[i]
      BY <1>1 DEF Follows, NextTerm
    <3>2. t[0] = Rule(t)[0]
      BY <1>1 DEF Follows
    <3>3. \A i \in 0 .. n : i = 0 \/ i \in 1 .. n
      OBVIOUS
    <3> HIDE DEF Rule
    <3> QED BY <3>1, <3>2, <3>3
  <2>2. t = [i \in 0 .. n |-> t[i]]
    BY <1>1 DEF Follows
  <2>3. Rule(t) = [i \in 0 .. n |-> Rule(t)[i]]
    OBVIOUS
  <2> HIDE DEF Rule
  <2> QED BY <2>1, <2>2, <2>3
<1>3. TermsOf(rs, base, is) = Rule(TermsOf(rs, base, is))
  <2>1. TermsOf(rs, base, is) = CHOOSE f : f = Rule(f)
    BY Zenon DEF TermsOf
  <2> HIDE DEF Rule
  <2> QED BY <1>2, <2>1
<1> DEFINE v == TermsOf(rs, base, is)
<1>4. v = Rule(v)
  BY <1>3
<1> HIDE DEF v
<1>5. /\ v = [i \in 0 .. n |-> v[i]] /\ v[0] = base
      /\ \A i \in 1 .. n : v[i] = NextTerm(rs, is, v, i)
  BY <1>4 DEF NextTerm
<1> QED BY <1>5 DEF v, Follows

\* The payments of is can be replayed.
Payable(rs, base, is) ==
  /\ Len(rs) \in Nat /\ base \in OptionalDate /\ is \subseteq 1 .. Len(rs)
  /\ \A i \in is : rs[i].paidAt \in Date

LEMMA TermsStep ==
  ASSUME NEW rs, NEW base, NEW is, Payable(rs, base, is),
         NEW i \in 1 .. Len(rs), NEW t, t = TermsOf(rs, base, is)
  PROVE  /\ t[0] = base
         /\ i \notin is => t[i] = t[i - 1]
         /\ i \in is => t[i] = AddCalendarMonth(MaxDate(rs[i].paidAt, t[i - 1]))
BY TermsFollow DEF Follows, NextTerm, Payable

(* Every term is a date or none, and payments never shorten it.            *)
LEMMA TermsGrow ==
  ASSUME NEW rs, NEW base, NEW is, Payable(rs, base, is),
         NEW t, t = TermsOf(rs, base, is)
  PROVE  /\ t = [i \in 0 .. Len(rs) |-> t[i]] /\ t[0] = base
         /\ \A n \in 0 .. Len(rs) : t[n] \in OptionalDate
         /\ \A n \in 0 .. Len(rs) : \A j \in 0 .. n : t[j] <= t[n]
         /\ \A i \in is : t[i] \in Date
<1>0. t = [i \in 0 .. Len(rs) |-> t[i]] /\ t[0] = base
  BY TermsFollow DEF Follows, Payable
<1>n. Len(rs) \in Nat
  BY DEF Payable
<1> DEFINE S == {n \in Nat : n <= Len(rs) =>
                   t[n] \in OptionalDate /\ \A j \in 0 .. n : t[j] \in Int /\ t[j] <= t[n]}
<1>1. 0 \in S
  <2>1. t[0] \in OptionalDate
    BY <1>0 DEF Payable
  <2>a. t[0] \in Int
    BY <2>1, Dates
  <2>2. t[0] \in Int /\ t[0] <= t[0]
    BY <2>a
  <2>3. \A j \in 0 .. 0 : t[j] \in Int /\ t[j] <= t[0]
    BY <2>2
  <2> QED BY <2>1, <2>3
<1>2. ASSUME NEW n \in Nat, n \in S PROVE n + 1 \in S
  <2> SUFFICES ASSUME n + 1 <= Len(rs)
               PROVE  /\ t[n + 1] \in OptionalDate
                      /\ \A j \in 0 .. n + 1 : t[j] \in Int /\ t[j] <= t[n + 1]
    OBVIOUS
  <2>0. n + 1 \in 1 .. Len(rs) /\ n <= Len(rs) /\ (n + 1) - 1 = n
    BY <1>n
  <2>1. t[n] \in OptionalDate /\ \A j \in 0 .. n : t[j] \in Int /\ t[j] <= t[n]
    BY <1>2, <2>0
  <2>2. t[n + 1] \in OptionalDate /\ t[n] <= t[n + 1]
    <3>1. CASE n + 1 \in is
      <4>1. rs[n + 1].paidAt \in Date
        BY <3>1 DEF Payable
      <4>2. t[n + 1] = AddCalendarMonth(MaxDate(rs[n + 1].paidAt, t[n]))
        BY <2>0, <3>1, TermsStep
      <4> HIDE DEF S
      <4>3. t[n + 1] \in Date /\ t[n + 1] > t[n]
        BY <2>1, <4>1, <4>2, OneMonth
      <4>4. t[n] \in Int /\ t[n + 1] \in Int
        BY <2>1, <4>3, Dates
      <4> QED BY <4>3, <4>4, Dates
    <3>2. CASE n + 1 \notin is
      BY <2>0, <2>1, <3>2, TermsStep, Dates
    <3> QED BY <3>1, <3>2
  <2>3. t[n] \in Int /\ t[n + 1] \in Int
    BY <2>1, <2>2, Dates
  <2>4. ASSUME NEW j \in 0 .. n + 1 PROVE t[j] \in Int /\ t[j] <= t[n + 1]
    <3>1. CASE j = n + 1
      BY <2>3, <3>1
    <3>2. CASE j \in 0 .. n
      BY <2>1, <2>2, <2>3, <3>2
    <3> QED BY <3>1, <3>2
  <2> QED BY <2>2, <2>4
<1> HIDE DEF S
<1>3. \A n \in Nat : n \in S
  BY <1>1, <1>2, CountingSet
<1>4. /\ \A n \in 0 .. Len(rs) : t[n] \in OptionalDate
      /\ \A n \in 0 .. Len(rs) : \A j \in 0 .. n : t[j] <= t[n]
  BY <1>3, <1>n DEF S
<1>5. \A i \in is : t[i] \in Date
  <2> SUFFICES ASSUME NEW i \in is PROVE t[i] \in Date
    OBVIOUS
  <2>1. i \in 1 .. Len(rs) /\ i - 1 \in 0 .. Len(rs) /\ rs[i].paidAt \in Date
    BY DEF Payable
  <2>2. t[i] = AddCalendarMonth(MaxDate(rs[i].paidAt, t[i - 1]))
    BY <2>1, TermsStep
  <2> QED BY <1>4, <2>1, <2>2, OneMonth
<1> QED BY <1>0, <1>4, <1>5

(* Replays of the same payments up to row n, with the same date each, show *)
(* the same terms up to there.                                             *)
LEMMA TermsAgree ==
  ASSUME NEW rs, NEW base, NEW is, Payable(rs, base, is),
         NEW ss, NEW js, Payable(ss, base, js),
         NEW n \in Nat, n <= Len(rs), n <= Len(ss),
         \A i \in 1 .. n : i \in is <=> i \in js,
         \A i \in 1 .. n : i \in is => ss[i].paidAt = rs[i].paidAt
  PROVE  \A i \in 0 .. n : TermsOf(ss, base, js)[i] = TermsOf(rs, base, is)[i]
<1>1. PICK t : t = TermsOf(rs, base, is)
  OBVIOUS
<1>2. PICK u : u = TermsOf(ss, base, js)
  OBVIOUS
<1>3. Len(rs) \in Nat /\ Len(ss) \in Nat
  BY DEF Payable
<1> DEFINE S == {i \in Nat : i <= n => u[i] = t[i]}
<1>4. 0 \in S
  BY <1>1, <1>2, TermsGrow
<1>5. ASSUME NEW i \in Nat, i \in S PROVE i + 1 \in S
  <2> SUFFICES ASSUME i + 1 <= n PROVE u[i + 1] = t[i + 1]
    OBVIOUS
  <2>1. /\ i + 1 \in 1 .. n /\ i + 1 \in 1 .. Len(rs) /\ i + 1 \in 1 .. Len(ss)
        /\ (i + 1) - 1 = i /\ u[i] = t[i]
    BY <1>3, <1>5
  <2> HIDE DEF S
  <2>2. CASE i + 1 \in is
    <3>1. t[i + 1] = AddCalendarMonth(MaxDate(rs[i + 1].paidAt, t[i]))
      BY <1>1, <2>1, <2>2, TermsStep
    <3>2. u[i + 1] = AddCalendarMonth(MaxDate(ss[i + 1].paidAt, u[i]))
      BY <1>2, <2>1, <2>2, TermsStep
    <3> QED BY <2>1, <2>2, <3>1, <3>2
  <2>3. CASE i + 1 \notin is
    <3>1. t[i + 1] = t[i]
      BY <1>1, <2>1, <2>3, TermsStep
    <3>2. u[i + 1] = u[i]
      BY <1>2, <2>1, <2>3, TermsStep
    <3> QED BY <2>1, <3>1, <3>2
  <2> QED BY <2>2, <2>3
<1> HIDE DEF S
<1>6. \A i \in Nat : i \in S
  BY <1>4, <1>5, CountingSet
<1> QED BY <1>1, <1>2, <1>6 DEF S

(* Fewer payments never make a later term.                                 *)
LEMMA FewerTerms ==
  ASSUME NEW rs, NEW base, NEW is, Payable(rs, base, is), NEW js, js \subseteq is
  PROVE  TermsOf(rs, base, js)[Len(rs)] <= TermsOf(rs, base, is)[Len(rs)]
<1>0. Payable(rs, base, js) /\ Len(rs) \in Nat
  BY DEF Payable
<1>1. PICK t : t = TermsOf(rs, base, is)
  OBVIOUS
<1>2. PICK u : u = TermsOf(rs, base, js)
  OBVIOUS
<1>3. \A n \in 0 .. Len(rs) : t[n] \in OptionalDate /\ u[n] \in OptionalDate
  BY <1>0, <1>1, <1>2, TermsGrow
<1> DEFINE S == {n \in Nat : n <= Len(rs) => u[n] <= t[n]}
<1>4. 0 \in S
  <2>1. u[0] = t[0] /\ 0 \in 0 .. Len(rs)
    BY <1>0, <1>1, <1>2, TermsGrow
  <2>a. t[0] \in Int
    BY <1>3, <2>1, Dates
  <2>2. u[0] <= t[0]
    BY <2>1, <2>a
  <2> QED BY <2>2
<1>5. ASSUME NEW n \in Nat, n \in S PROVE n + 1 \in S
  <2> SUFFICES ASSUME n + 1 <= Len(rs) PROVE u[n + 1] <= t[n + 1]
    OBVIOUS
  <2>1. n + 1 \in 1 .. Len(rs) /\ n + 1 \in 0 .. Len(rs) /\ n \in 0 .. Len(rs)
        /\ (n + 1) - 1 = n /\ u[n] <= t[n]
    BY <1>0, <1>5
  <2> HIDE DEF S
  <2>2. t[n] \in OptionalDate /\ u[n] \in OptionalDate
    BY <1>3, <2>1
  <2>3. CASE n + 1 \in is
    <3>a. rs[n + 1].paidAt \in Date
      BY <2>3 DEF Payable
    <3>b. t[n + 1] = AddCalendarMonth(MaxDate(rs[n + 1].paidAt, t[n]))
      BY <1>1, <2>1, <2>3, TermsStep
    <3>1. t[n + 1] = AddCalendarMonth(MaxDate(rs[n + 1].paidAt, t[n]))
          /\ rs[n + 1].paidAt \in Date
      BY <3>a, <3>b
    <3>2. CASE n + 1 \in js
      <4>1. u[n + 1] = AddCalendarMonth(MaxDate(rs[n + 1].paidAt, u[n]))
        BY <1>0, <1>2, <2>1, <3>2, TermsStep
      <4> QED BY <2>1, <2>2, <3>1, <4>1, OneMonth
    <3>3. CASE n + 1 \notin js
      <4>1. u[n + 1] = u[n]
        BY <1>0, <1>2, <2>1, <3>3, TermsStep
      <4>2. t[n + 1] > t[n] /\ t[n + 1] \in Date
        BY <2>2, <3>1, OneMonth
      <4>3. t[n + 1] \in Int /\ t[n] \in Int /\ u[n] \in Int
        BY <2>2, <4>2, Dates
      <4> QED BY <2>1, <4>1, <4>2, <4>3
    <3> QED BY <3>2, <3>3
  <2>4. CASE n + 1 \notin is
    <3>1. t[n + 1] = t[n]
      BY <1>1, <2>1, <2>4, TermsStep
    <3>2. u[n + 1] = u[n]
      BY <1>0, <1>2, <2>1, <2>4, TermsStep
    <3> QED BY <2>1, <3>1, <3>2
  <2> QED BY <2>3, <2>4
<1> HIDE DEF S
<1>6. Len(rs) \in S
  BY <1>0, <1>4, <1>5, CountingSet
<1>7. Len(rs) <= Len(rs)
  BY <1>0
<1>8. u[Len(rs)] <= t[Len(rs)]
  BY <1>6, <1>7 DEF S
<1> QED BY <1>1, <1>2, <1>8

(* The latest of the terms of the payments is the term of the last row.    *)
LEMMA LastTerm ==
  ASSUME NEW rs, NEW base, NEW is, Payable(rs, base, is), is # {},
         NEW t, t = TermsOf(rs, base, is)
  PROVE  Latest({t[i] : i \in is}) = t[Len(rs)] /\ t[Len(rs)] \in Date
<1>0. Len(rs) \in Nat /\ is \subseteq 1 .. Len(rs)
  BY DEF Payable
<1>1. /\ \A n \in 0 .. Len(rs) : t[n] \in OptionalDate
      /\ \A n \in 0 .. Len(rs) : \A j \in 0 .. n : t[j] <= t[n]
      /\ \A i \in is : t[i] \in Date
  BY TermsGrow
<1> DEFINE S == {n \in Nat : n <= Len(rs) =>
                   \/ \A i \in is : i > n
                   \/ \E i \in is : t[i] = t[n]}
<1>2. 0 \in S
  BY <1>0
<1>3. ASSUME NEW n \in Nat, n \in S PROVE n + 1 \in S
  <2> SUFFICES ASSUME n + 1 <= Len(rs)
               PROVE  \/ \A i \in is : i > n + 1
                      \/ \E i \in is : t[i] = t[n + 1]
    OBVIOUS
  <2>1. CASE n + 1 \in is
    BY <2>1
  <2>2. CASE n + 1 \notin is
    <3>1. n + 1 \in 1 .. Len(rs) /\ (n + 1) - 1 = n
      BY <1>0
    <3>2. t[n + 1] = t[n]
      BY <2>2, <3>1, TermsStep
    <3>3. (\A i \in is : i > n) \/ \E i \in is : t[i] = t[n]
      BY <1>0, <1>3
    <3>4. ASSUME \A i \in is : i > n PROVE \A i \in is : i > n + 1
      BY <1>0, <2>2, <3>4
    <3> QED BY <3>2, <3>3, <3>4
  <2> QED BY <2>1, <2>2
<1> HIDE DEF S
<1>4. Len(rs) \in S
  BY <1>0, <1>2, <1>3, CountingSet
<1>5. PICK k \in is : k \in 1 .. Len(rs)
  BY <1>0
<1>6. PICK i \in is : t[i] = t[Len(rs)]
  BY <1>0, <1>4, <1>5 DEF S
<1> DEFINE D == {t[j] : j \in is}
<1>7. D \subseteq OptionalDate /\ t[Len(rs)] \in D
  BY <1>0, <1>1, <1>6, Dates
<1>8. \A d \in D : d <= t[Len(rs)]
  BY <1>0, <1>1
<1> HIDE DEF D
<1>9. Latest(D) = t[Len(rs)]
  BY <1>7, <1>8, LatestIs
<1> QED BY <1>1, <1>6, <1>9 DEF D
-----------------------------------------------------------------------------
(* What the queries return.                                                *)

TermsTyped ==
  /\ applied \in Seq(OptionalDate) /\ Len(applied) = Len(results)
  /\ baseline \in [TelegramIds -> OptionalDate \cup {Unset}]
  /\ sub \in [TelegramIds -> [Providers -> Subscription]]
  /\ newest \in [TelegramIds -> Providers \cup {"none"}]
  /\ panel \in [Panels -> Form]

\* A row that names a member has a date.
Dated == \A i \in DOMAIN results : results[i].known => results[i].paidAt \in Date

\* A member with processed payments is paid; an unpaid term has no date.
PaidWhenProcessed ==
  \A u \in TelegramIds : Processed(u) # {} => sub[u]["sheet"].status = "paid"
UnpaidIsEmpty ==
  \A u \in TelegramIds : sub[u]["sheet"].status # "paid" => sub[u]["sheet"].until = NoDate

\* An imported balance is in the balance the ledger started from, or was
\* imported since.
LegacyOnRecord ==
  \A u \in TelegramIds :
    baseline[u] # Unset /\ sub[u]["legacy"].status = "paid" =>
      \/ sub[u]["legacy"].until <= baseline[u]
      \/ \E k \in Imports : k.tid = u /\ sub[u]["legacy"].until <= k.until

TermInv ==
  /\ LedgerInv /\ TermsTyped /\ Dated
  /\ PaidWhenProcessed /\ UnpaidIsEmpty /\ LegacyOnRecord
  /\ TermMatchesLedger /\ TermReplaysLedger

LEMMA LatestOfTwo ==
  ASSUME NEW S, S \subseteq OptionalDate, NEW a, NEW b, S \subseteq {a, b}
  PROVE  /\ Latest(S) \in S \cup {NoDate} /\ Latest(S) \in OptionalDate
         /\ \A d \in S : d <= Latest(S)
<1>1. \E m \in S \cup {NoDate} : \A d \in S : d <= m
  <2>1. CASE S = {}
    BY <2>1
  <2>2. CASE S = {a}
    <3>1. a \in S /\ a <= a
      BY <2>2, Dates
    <3> QED BY <2>2, <3>1
  <2>3. CASE S = {b}
    <3>1. b \in S /\ b <= b
      BY <2>3, Dates
    <3> QED BY <2>3, <3>1
  <2>4. CASE a \in S /\ b \in S
    <3>1. a \in OptionalDate /\ b \in OptionalDate
      BY <2>4
    <3>2. MaxDate(a, b) \in {a, b} /\ MaxDate(a, b) >= a /\ MaxDate(a, b) >= b
          /\ MaxDate(a, b) \in Int /\ a \in Int /\ b \in Int
      BY <3>1, LaterDate, Dates
    <3>3. \A d \in S : d <= MaxDate(a, b)
      BY <3>2
    <3> QED BY <2>4, <3>2, <3>3
  <2> QED BY <2>1, <2>2, <2>3, <2>4
<1>2. PICK m \in S \cup {NoDate} : \A d \in S : d <= m
  BY <1>1
<1>3. Latest(S) = m
  BY <1>2, LatestIs
<1> QED BY <1>2, <1>3, Dates

\* The fields of a subscription.
LEMMA SubscriptionOf ==
  ASSUME NEW f, f \in [TelegramIds -> [Providers -> Subscription]],
         NEW u \in TelegramIds, NEW p \in Providers
  PROVE  /\ f[u] = [q \in Providers |-> f[u][q]] /\ f[u][p] \in Subscription
         /\ f[u][p] = [status |-> f[u][p].status, until |-> f[u][p].until]
         /\ f[u][p].status \in {"absent", "paid", "pending"}
         /\ f[u][p].until \in OptionalDate
<1>1. f[u][p] \in Subscription
  OBVIOUS
<1> QED BY <1>1 DEF Subscription

LEMMA PaidUntilOf ==
  ASSUME TermsTyped, NEW u \in TelegramIds, NEW ps, ps \subseteq Providers
  PROVE  /\ PaidUntil(u, ps) \in OptionalDate
         /\ \A p \in ps : sub[u][p].status = "paid" => sub[u][p].until <= PaidUntil(u, ps)
         /\ \/ PaidUntil(u, ps) = NoDate
            \/ \E p \in ps : sub[u][p].status = "paid" /\ sub[u][p].until = PaidUntil(u, ps)
<1> DEFINE S == {sub[u][p].until : p \in {q \in ps : sub[u][q].status = "paid"}}
<1>1. \A p \in Providers : sub[u][p].until \in OptionalDate
  BY SubscriptionOf DEF TermsTyped
<1>2. S \subseteq OptionalDate /\ S \subseteq {sub[u]["sheet"].until, sub[u]["legacy"].until}
  BY <1>1 DEF Providers
<1>3. /\ \A p \in ps : sub[u][p].status = "paid" => sub[u][p].until \in S
      /\ \A d \in S : \E p \in ps : sub[u][p].status = "paid" /\ sub[u][p].until = d
  OBVIOUS
<1> HIDE DEF S
<1>4. Latest(S) \in S \cup {NoDate} /\ Latest(S) \in OptionalDate /\ \A d \in S : d <= Latest(S)
  BY <1>2, LatestOfTwo
<1>5. PaidUntil(u, ps) = Latest(S)
  BY DEF PaidUntil, S
<1> QED BY <1>3, <1>4, <1>5

LEMMA MaxEitherWay ==
  ASSUME NEW d \in OptionalDate, NEW e \in OptionalDate
  PROVE  MaxDate(d, e) = MaxDate(e, d)
BY Dates DEF MaxDate

LEMMA NoTerms ==
  ASSUME NEW rs, NEW base, Payable(rs, base, {}), NEW n \in 0 .. Len(rs)
  PROVE  TermsOf(rs, base, {})[n] = base
<1>0. Len(rs) \in Nat
  BY DEF Payable
<1>1. PICK t : t = TermsOf(rs, base, {})
  OBVIOUS
<1> DEFINE S == {k \in Nat : k <= Len(rs) => t[k] = base}
<1>2. 0 \in S
  BY <1>1, TermsGrow
<1>3. ASSUME NEW k \in Nat, k \in S PROVE k + 1 \in S
  <2> SUFFICES ASSUME k + 1 <= Len(rs) PROVE t[k + 1] = base
    OBVIOUS
  <2>1. k + 1 \in 1 .. Len(rs) /\ (k + 1) - 1 = k /\ t[k] = base
    BY <1>0, <1>3
  <2>2. t[k + 1] = t[k]
    BY <1>1, <2>1, TermsStep
  <2> QED BY <2>1, <2>2
<1> HIDE DEF S
<1>4. n \in Nat /\ n <= Len(rs)
  BY <1>0
<1>5. n \in S
  BY <1>2, <1>3, <1>4, CountingSet
<1> QED BY <1>1, <1>4, <1>5 DEF S

-----------------------------------------------------------------------------
(* The rows of the ledger.                                                 *)

LEMMA RowsOf ==
  ASSUME LedgerInv, TermsTyped
  PROVE  /\ Len(results) \in Nat /\ DOMAIN results = 1 .. Len(results)
         /\ \A i \in DOMAIN results : results[i] \in Result /\ results[i].tid \in TelegramIds
         /\ DOMAIN applied = DOMAIN results
         /\ \A i \in DOMAIN results : applied[i] \in OptionalDate
         /\ \A u : Processed(u) \subseteq 1 .. Len(results)
<1>1. results \in Seq(Result) /\ applied \in Seq(OptionalDate) /\ Len(applied) = Len(results)
  BY DEF LedgerInv, LedgerTypeOK, TermsTyped
<1>2. /\ Len(results) \in Nat /\ DOMAIN results = 1 .. Len(results)
      /\ DOMAIN applied = 1 .. Len(applied)
      /\ \A i \in DOMAIN results : results[i] \in Result
      /\ \A i \in DOMAIN applied : applied[i] \in OptionalDate
  BY <1>1
<1>3. \A i \in DOMAIN results : results[i].tid \in TelegramIds
  BY <1>2, ResultFields
<1>4. \A u : Processed(u) \subseteq DOMAIN results
  BY DEF Processed
<1> QED BY <1>1, <1>2, <1>3, <1>4

\* Some payments of a member can be replayed from any balance.
LEMMA PaymentsPayable ==
  ASSUME LedgerInv, TermsTyped, Dated, NEW u, NEW is, is \subseteq Processed(u),
         NEW base \in OptionalDate
  PROVE  Payable(results, base, is)
BY RowsOf DEF Payable, Processed, Dated

\* What storing a row of the sheet does.
Stored(row, until, n) ==
  /\ n \in Nat /\ n \notin DOMAIN results
  /\ results' \in Seq(Result) /\ Len(results') = n
  /\ DOMAIN results' = DOMAIN results \cup {n}
  /\ \A i \in DOMAIN results : results'[i] = results[i]
  /\ results'[n].tid = row.tid /\ results'[n].paidAt = row.paidAt
  /\ results'[n].known = KnownUser(row)
  /\ results'[n].status = IF KnownUser(row) /\ row.valid THEN "processed" ELSE "error"
  /\ applied' \in Seq(OptionalDate) /\ Len(applied') = n
  /\ \A i \in DOMAIN results : applied'[i] = applied[i]
  /\ applied'[n] = until

LEMMA RowStored ==
  ASSUME LedgerInv, TermsTyped, Dated, NEW row \in Row, NEW until \in OptionalDate,
         Store(row, until), NEW n, n = Len(results) + 1
  PROVE  Stored(row, until, n)
<1> DEFINE new == [pid |-> row.pid, tid |-> row.tid, paidAt |-> row.paidAt,
        known |-> row.tid \in users /\ row.paidAt # NoDate, ref |-> row.ref,
        status |-> IF KnownUser(row) /\ row.valid THEN "processed" ELSE "error"]
<1>1. results' = Append(results, new) /\ applied' = Append(applied, until)
  BY DEF Store
<1>2. new \in Result
  <2>1. (row.tid \in users /\ row.paidAt # NoDate) \in BOOLEAN
    OBVIOUS
  <2>2. (IF KnownUser(row) /\ row.valid THEN "processed" ELSE "error") \in {"processed", "error"}
    OBVIOUS
  <2> HIDE DEF KnownUser
  <2> QED BY <2>1, <2>2 DEF Row, Result
<1>3. /\ new.tid = row.tid /\ new.paidAt = row.paidAt /\ new.known = KnownUser(row)
      /\ new.status = IF KnownUser(row) /\ row.valid THEN "processed" ELSE "error"
  BY DEF KnownUser
<1> HIDE DEF new
<1>4. results \in Seq(Result) /\ applied \in Seq(OptionalDate) /\ Len(applied) = Len(results)
  BY DEF LedgerInv, LedgerTypeOK, TermsTyped
<1>5. /\ results' \in Seq(Result) /\ Len(results') = n
      /\ DOMAIN results' = DOMAIN results \cup {n} /\ n \in Nat /\ n \notin DOMAIN results
      /\ \A i \in DOMAIN results : results'[i] = results[i]
      /\ results'[n] = new
  BY <1>1, <1>2, <1>4
<1>6. /\ applied' \in Seq(OptionalDate) /\ Len(applied') = n
      /\ \A i \in DOMAIN results : applied'[i] = applied[i]
      /\ applied'[n] = until
  BY <1>1, <1>4
<1> QED BY <1>3, <1>5, <1>6 DEF Stored

LEMMA RowCounted ==
  ASSUME LedgerInv, TermsTyped, Dated, NEW row \in Row, NEW until \in OptionalDate,
         Store(row, until), NEW n, n = Len(results) + 1, NEW v
  PROVE  /\ Dated'
         /\ v = row.tid /\ KnownUser(row) /\ row.valid => Processed(v)' = Processed(v) \cup {n}
         /\ ~(v = row.tid /\ KnownUser(row) /\ row.valid) => Processed(v)' = Processed(v)
         /\ NoCreditedError(v)' =>
              NoCreditedError(v) /\ ~(v = row.tid /\ KnownUser(row) /\ ~row.valid)
<1>1. /\ n \in Nat /\ n \notin DOMAIN results
      /\ DOMAIN results' = DOMAIN results \cup {n}
      /\ \A i \in DOMAIN results : results'[i] = results[i]
      /\ results'[n].tid = row.tid /\ results'[n].paidAt = row.paidAt
      /\ results'[n].known = KnownUser(row)
      /\ results'[n].status = IF KnownUser(row) /\ row.valid THEN "processed" ELSE "error"
  <2>1. Stored(row, until, n)
    BY RowStored
  <2> QED BY <2>1 DEF Stored
<1>2. KnownUser(row) => row.paidAt \in Date
  BY DateAssumption DEF KnownUser, Row
<1>3. Dated'
  BY <1>1, <1>2 DEF Dated
<1> HIDE DEF KnownUser
<1>4. v = row.tid /\ KnownUser(row) /\ row.valid => Processed(v)' = Processed(v) \cup {n}
  BY <1>1 DEF Processed
<1>5. ~(v = row.tid /\ KnownUser(row) /\ row.valid) => Processed(v)' = Processed(v)
  BY <1>1 DEF Processed
<1>6. NoCreditedError(v)' =>
              NoCreditedError(v) /\ ~(v = row.tid /\ KnownUser(row) /\ ~row.valid)
  BY <1>1 DEF NoCreditedError
<1> QED BY <1>3, <1>4, <1>5, <1>6

LEMMA FormsShaped ==
  ASSUME LedgerInv, TermsTyped, NEW a \in Panels
  PROVE  /\ [panel EXCEPT ![a] = NoForm] \in [Panels -> Form]
         /\ \A i \in DOMAIN results, d \in SheetDates, ref \in Refs \cup {NoRef}, until \in OptionalDate :
              [panel EXCEPT ![a] = [row |-> i, paidAt |-> d, ref |-> ref, until |-> until]]
                \in [Panels -> Form]
<1>1. NoForm \in Form
  BY Dates DEF NoForm, Form
<1>2. \A i \in DOMAIN results : i \in Nat
  BY RowsOf
<1>3. \A i \in DOMAIN results, d \in SheetDates, ref \in Refs \cup {NoRef}, until \in OptionalDate :
        [row |-> i, paidAt |-> d, ref |-> ref, until |-> until] \in Form
  BY <1>2 DEF Form
<1> HIDE DEF NoForm, Form
<1> QED BY <1>1, <1>3 DEF TermsTyped

\* Replayed, as a relation of the rows, the terms shown and the term reached.
Shown(rs, terms, base, is, last) ==
  /\ last = TermsOf(rs, base, is)[Len(rs)]
  /\ \A i \in is : terms[i] = TermsOf(rs, base, is)[i]

LEMMA ReplayedIsShown ==
  ASSUME NEW u
  PROVE  /\ Replayed(u) = Shown(results, applied, baseline[u], Processed(u),
                                sub[u]["sheet"].until)
         /\ Replayed(u)' = Shown(results', applied', baseline'[u], Processed(u)',
                                 sub'[u]["sheet"].until)
<1>1. Replay(baseline[u], Processed(u)) = TermsOf(results, baseline[u], Processed(u))
  BY DEF Replay, TermsOf
<1>2. Replay(baseline[u], Processed(u))' = TermsOf(results', baseline'[u], Processed(u)')
  BY DEF Replay, TermsOf
<1>3. Replayed(u) = Shown(results, applied, baseline[u], Processed(u), sub[u]["sheet"].until)
  BY <1>1, Zenon DEF Replayed, Shown
<1>4. Replayed(u)' = Shown(results', applied', baseline'[u], Processed(u)',
                           sub'[u]["sheet"].until)
  BY <1>2, Zenon DEF Replayed, Shown
<1> QED BY <1>3, <1>4

\* The forms and the installed terms are as before.
Steady == UNCHANGED <<results, applied, corrections, baseline, sub, newest>>

LEMMA SteadyTerms ==
  ASSUME TermInv, Steady, Imports' = Imports, panel' \in [Panels -> Form], LedgerInv'
  PROVE  TermInv'
<1>1. TermsTyped'
  BY DEF TermInv, Steady, TermsTyped
<1>2. /\ Dated' /\ PaidWhenProcessed' /\ UnpaidIsEmpty'
      /\ \A u : Processed(u)' = Processed(u)
  BY DEF TermInv, Steady, Dated, PaidWhenProcessed, UnpaidIsEmpty, Processed
<1>3. LegacyOnRecord'
  BY DEF TermInv, Steady, LegacyOnRecord
<1>4. \A u : NoCreditedError(u)' = NoCreditedError(u)
  BY DEF Steady, NoCreditedError
<1>5. TermMatchesLedger'
  BY <1>2, <1>4 DEF TermInv, Steady, TermMatchesLedger
<1>6. \A u : Undisturbed(u)' = Undisturbed(u)
  BY <1>4 DEF Steady, Undisturbed, ImportsWithinBaseline
<1>7. \A u : Replayed(u)' = Replayed(u)
  BY <1>2, ReplayedIsShown DEF Steady
<1>8. TermReplaysLedger'
  BY <1>6, <1>7 DEF TermInv, Steady, TermReplaysLedger
<1> QED BY <1>1, <1>2, <1>3, <1>5, <1>8 DEF TermInv
-----------------------------------------------------------------------------
(* A payment.                                                              *)

Upserted(u, p, s, d) ==
  /\ sub' \in [TelegramIds -> [Providers -> Subscription]]
  /\ sub'[u][p].status = s /\ sub'[u][p].until = d
  /\ sub'[u][p] = [status |-> s, until |-> d]
  /\ \A q \in Providers \ {p} : sub'[u][q] = sub[u][q]
  /\ \A v \in TelegramIds \ {u} : sub'[v] = sub[v]

LEMMA UpsertTyped ==
  ASSUME TermsTyped, NEW u \in TelegramIds, NEW p \in Providers, NEW d \in OptionalDate,
         NEW s \in {"absent", "paid", "pending"},
         sub' = [sub EXCEPT ![u][p] = [status |-> s, until |-> d]]
  PROVE  Upserted(u, p, s, d)
<1>1. [status |-> s, until |-> d] \in Subscription
  BY DEF Subscription
<1> DEFINE row == [status |-> s, until |-> d]
<1>2. row \in Subscription /\ row.status = s /\ row.until = d
  BY <1>1
<1>3. sub' = [sub EXCEPT ![u][p] = row]
  OBVIOUS
<1> HIDE DEF row
<1>4. /\ sub' \in [TelegramIds -> [Providers -> Subscription]] /\ sub'[u][p] = row
      /\ \A q \in Providers \ {p} : sub'[u][q] = sub[u][q]
      /\ \A v \in TelegramIds \ {u} : sub'[v] = sub[v]
  BY <1>2, <1>3 DEF TermsTyped
<1> QED BY <1>2, <1>4 DEF row, Upserted

\* What a payment of u writes, with the balance before it and the new term.
Credited(row, current, until) ==
  /\ row.tid \in TelegramIds /\ row.paidAt \in Date /\ KnownUser(row)
  /\ current = PaidUntil(row.tid, Providers) /\ current \in OptionalDate
  /\ until = AddCalendarMonth(MaxDate(row.paidAt, current))
  /\ until \in Date /\ until > current
  /\ Store(row, until)
  /\ sub' = [sub EXCEPT ![row.tid]["sheet"] = Paid(until)]
  /\ newest' \in [TelegramIds -> Providers \cup {"none"}]
  /\ Imports' = Imports

\* A balance is noted before the first payment that counts.
FirstOf(u) ==
  \A i \in DOMAIN results : results[i].known /\ results[i].tid = u => results[i].status = "error"
Noted(u, current) ==
  baseline' = IF FirstOf(u) /\ baseline[u] = Unset
              THEN [baseline EXCEPT ![u] = current] ELSE baseline

LEMMA PaymentCredits ==
  ASSUME TermInv, NEW row \in Row, ExtendTerm(row)
  PROVE  \E current, until : Credited(row, current, until) /\ Noted(row.tid, current)
<1> DEFINE u == row.tid
           current == PaidUntil(u, Providers)
           until == AddCalendarMonth(MaxDate(current, row.paidAt))
<1>1. u \in TelegramIds /\ row.paidAt \in Date /\ KnownUser(row)
  BY DateAssumption DEF ExtendTerm, KnownUser, Row
<1>2. current \in OptionalDate
  BY <1>1, PaidUntilOf DEF TermInv
<1>3. /\ until = AddCalendarMonth(MaxDate(row.paidAt, current))
      /\ until \in Date /\ until > current
  <2> HIDE DEF current
  <2>1. MaxDate(current, row.paidAt) = MaxDate(row.paidAt, current)
    BY <1>1, <1>2, MaxEitherWay, Dates
  <2> QED BY <1>1, <1>2, <2>1, OneMonth
<1>4. Store(row, until) /\ Noted(u, current)
  BY Zenon DEF ExtendTerm, Noted, FirstOf
<1>5. Upsert(u, "sheet", Paid(until))
  BY Zenon DEF ExtendTerm
<1>6. sub' = [sub EXCEPT ![u]["sheet"] = Paid(until)]
  BY <1>5 DEF Upsert
<1>7. newest' \in [TelegramIds -> Providers \cup {"none"}]
  BY <1>1, <1>5 DEF Upsert, TermInv, TermsTyped, Providers
<1>8. invites' = invites \cup {[kind |-> "payment", pid |-> row.pid, tid |-> row.tid]}
  BY Zenon DEF ExtendTerm
<1>9. Imports' = Imports
  BY <1>8 DEF Imports
<1>10. Credited(row, current, until)
  BY <1>1, <1>2, <1>3, <1>4, <1>6, <1>7, <1>9 DEF Credited
<1> QED BY <1>4, <1>10

LEMMA CreditedTyped ==
  ASSUME TermInv, NEW row \in Row, NEW current, NEW until,
         Credited(row, current, until), Noted(row.tid, current)
  PROVE  /\ TermsTyped'
         /\ sub'[row.tid]["sheet"] = Paid(until)
         /\ sub'[row.tid]["sheet"].status = "paid" /\ sub'[row.tid]["sheet"].until = until
         /\ sub'[row.tid]["legacy"] = sub[row.tid]["legacy"]
         /\ \A v \in TelegramIds \ {row.tid} : sub'[v] = sub[v] /\ baseline'[v] = baseline[v]
         /\ IF FirstOf(row.tid) /\ baseline[row.tid] = Unset
            THEN baseline'[row.tid] = current ELSE baseline'[row.tid] = baseline[row.tid]
<1>1. /\ row.tid \in TelegramIds /\ current \in OptionalDate /\ until \in OptionalDate
      /\ Store(row, until) /\ newest' \in [TelegramIds -> Providers \cup {"none"}]
      /\ sub' = [sub EXCEPT ![row.tid]["sheet"] = Paid(until)]
  BY Dates DEF Credited
<1>2. /\ sub' \in [TelegramIds -> [Providers -> Subscription]]
      /\ sub'[row.tid]["sheet"] = Paid(until)
      /\ sub'[row.tid]["sheet"].status = "paid" /\ sub'[row.tid]["sheet"].until = until
      /\ sub'[row.tid]["legacy"] = sub[row.tid]["legacy"]
      /\ \A v \in TelegramIds \ {row.tid} : sub'[v] = sub[v]
  <2>1. /\ TermsTyped /\ "sheet" \in Providers /\ "legacy" \in Providers \ {"sheet"}
        /\ Paid(until) = [status |-> "paid", until |-> until]
    BY DEF Paid, Providers, TermInv
  <2>2. sub' = [sub EXCEPT ![row.tid]["sheet"] = [status |-> "paid", until |-> until]]
    BY <1>1, <2>1
  <2>3. "paid" \in {"absent", "paid", "pending"}
    OBVIOUS
  <2>4. Upserted(row.tid, "sheet", "paid", until)
    BY <1>1, <2>1, <2>2, <2>3, UpsertTyped
  <2> QED BY <2>1, <2>4 DEF Upserted
<1>3. applied' \in Seq(OptionalDate) /\ Len(applied') = Len(results')
  <2>1. PICK n : n = Len(results) + 1
    OBVIOUS
  <2>2. LedgerInv /\ TermsTyped /\ Dated
    BY DEF TermInv
  <2>3. Stored(row, until, n)
    BY <1>1, <2>1, <2>2, RowStored
  <2>4. Len(results') = n /\ applied' \in Seq(OptionalDate) /\ Len(applied') = n
    BY <2>3 DEF Stored
  <2> QED BY <2>4
<1>4. baseline \in [TelegramIds -> OptionalDate \cup {Unset}]
  BY DEF TermInv, TermsTyped
<1>5. /\ baseline' \in [TelegramIds -> OptionalDate \cup {Unset}]
      /\ \A v \in TelegramIds \ {row.tid} : baseline'[v] = baseline[v]
      /\ IF FirstOf(row.tid) /\ baseline[row.tid] = Unset
            THEN baseline'[row.tid] = current ELSE baseline'[row.tid] = baseline[row.tid]
  BY <1>1, <1>4 DEF Noted
<1>6. panel' \in [Panels -> Form]
  BY <1>1 DEF Store, TermInv, TermsTyped
<1> QED BY <1>1, <1>2, <1>3, <1>5, <1>6 DEF TermsTyped

LEMMA CreditedMatches ==
  ASSUME TermInv, NEW row \in Row, NEW current, NEW until,
         Credited(row, current, until), Noted(row.tid, current)
  PROVE  TermMatchesLedger'
<1> SUFFICES ASSUME NEW v \in TelegramIds, NoCreditedError(v)', Processed(v)' # {}
             PROVE  sub'[v]["sheet"] = Paid(Latest({applied'[i] : i \in Processed(v)'}))
  BY DEF TermMatchesLedger
<1>1. PICK n : n = Len(results) + 1
  OBVIOUS
<1>2. until \in OptionalDate /\ Store(row, until) /\ KnownUser(row) /\ row.tid \in TelegramIds
  BY Dates DEF Credited
<1>3. /\ v = row.tid /\ row.valid => Processed(v)' = Processed(v) \cup {n}
      /\ v # row.tid => Processed(v)' = Processed(v)
      /\ NoCreditedError(v) /\ (v = row.tid => row.valid)
  <2> HIDE DEF KnownUser, NoCreditedError
  <2>1. row.valid \in BOOLEAN
    BY DEF Row
  <2> QED BY <1>1, <1>2, <2>1, RowCounted DEF TermInv
<1>4. /\ \A i \in DOMAIN results : applied'[i] = applied[i] /\ applied[i] \in OptionalDate
      /\ applied'[n] = until
      /\ Processed(v) \subseteq DOMAIN results
  <2>1. LedgerInv /\ TermsTyped /\ Dated
    BY DEF TermInv
  <2>2. Stored(row, until, n)
    BY <1>1, <1>2, <2>1, RowStored
  <2>3. (\A i \in DOMAIN results : applied'[i] = applied[i]) /\ applied'[n] = until
    BY <2>2 DEF Stored
  <2> QED BY <2>1, <2>3, RowsOf
<1>5. CASE v # row.tid
  <2>1. {applied'[i] : i \in Processed(v)'} = {applied[i] : i \in Processed(v)}
    BY <1>3, <1>4, <1>5
  <2>2. sub'[v] = sub[v]
    BY <1>5, CreditedTyped
  <2> QED BY <1>3, <1>5, <2>1, <2>2 DEF TermInv, TermMatchesLedger
<1>6. CASE v = row.tid
  <2> DEFINE D == {applied'[i] : i \in Processed(v)'}
  <2>1. Processed(v)' = Processed(v) \cup {n}
    BY <1>3, <1>6
  <2>2. D \subseteq OptionalDate /\ until \in D
    BY <1>2, <1>4, <2>1
  <2>3. \A d \in D : d <= until
    <3> SUFFICES ASSUME NEW i \in Processed(v) PROVE applied[i] <= until
      <4>1. until <= until
        BY <1>2, Dates
      <4> QED BY <1>4, <2>1, <4>1
    <3> DEFINE latest == Latest({applied[j] : j \in Processed(v)})
    <3>1. applied[i] <= latest /\ latest \in OptionalDate
      BY <1>4, RowsOf, LatestOfRows DEF TermInv
    <3>2. sub[v]["sheet"] = Paid(latest)
      BY <1>3 DEF TermInv, TermMatchesLedger
    <3> HIDE DEF latest
    <3>3. sub[v]["sheet"].status = "paid" /\ sub[v]["sheet"].until = latest
      BY <3>2 DEF Paid
    <3>4. latest <= current
      BY <1>6, <3>3, PaidUntilOf DEF Credited, TermInv, Providers
    <3>5. current \in Int /\ until \in Int /\ latest \in Int /\ applied[i] \in Int /\ current < until
      BY <1>4, <3>1, Dates DEF Credited
    <3> QED BY <3>1, <3>4, <3>5
  <2> HIDE DEF D
  <2>4. Latest(D) = until
    BY <2>2, <2>3, LatestIs
  <2>5. sub'[v]["sheet"] = Paid(until)
    BY <1>6, CreditedTyped
  <2> QED BY <2>4, <2>5 DEF D
<1> QED BY <1>5, <1>6

\* One more row of the ledger: one that does not count, and one that does.
LEMMA ShownLonger ==
  ASSUME NEW rs, NEW base, NEW is, Payable(rs, base, is),
         NEW ss, Len(ss) = Len(rs) + 1, \A i \in is : ss[i].paidAt = rs[i].paidAt,
         NEW terms, NEW shown, \A i \in is : shown[i] = terms[i],
         NEW last, Shown(rs, terms, base, is, last)
  PROVE  Shown(ss, shown, base, is, last)
<1>0. Len(rs) \in Nat /\ Len(ss) \in Nat /\ Len(rs) <= Len(ss) /\ is \subseteq 1 .. Len(rs)
  BY DEF Payable
<1>1. Payable(ss, base, is)
  BY <1>0 DEF Payable
<1>2. PICK t : t = TermsOf(rs, base, is)
  OBVIOUS
<1>3. PICK u : u = TermsOf(ss, base, is)
  OBVIOUS
<1>4. \A i \in 1 .. Len(rs) : i \in is => ss[i].paidAt = rs[i].paidAt
  OBVIOUS
<1>5. Len(rs) <= Len(rs)
  BY <1>0
<1>6. \A i \in 0 .. Len(rs) : u[i] = t[i]
  BY <1>0, <1>1, <1>2, <1>3, <1>4, <1>5, TermsAgree
<1>7. /\ Len(ss) \in 1 .. Len(ss) /\ Len(ss) - 1 = Len(rs) /\ Len(ss) \notin is
      /\ Len(rs) \in 0 .. Len(rs)
  BY <1>0
<1>8. u[Len(ss)] = u[Len(ss) - 1]
  BY <1>1, <1>3, <1>7, TermsStep
<1>9. last = u[Len(ss)]
  BY <1>2, <1>6, <1>7, <1>8 DEF Shown
<1>10. \A i \in is : shown[i] = u[i]
  BY <1>0, <1>2, <1>6 DEF Shown
<1> QED BY <1>3, <1>9, <1>10 DEF Shown

LEMMA ShownOneMore ==
  ASSUME NEW rs, NEW base, NEW is, Payable(rs, base, is),
         NEW ss, NEW n, n = Len(rs) + 1, Len(ss) = n,
         \A i \in is : ss[i].paidAt = rs[i].paidAt, ss[n].paidAt \in Date,
         NEW terms, NEW shown, \A i \in is : shown[i] = terms[i],
         NEW last, Shown(rs, terms, base, is, last),
         shown[n] = AddCalendarMonth(MaxDate(ss[n].paidAt, last))
  PROVE  Shown(ss, shown, base, is \cup {n}, shown[n])
<1>0. /\ Len(rs) \in Nat /\ Len(ss) \in Nat /\ Len(rs) <= Len(ss) /\ is \subseteq 1 .. Len(rs)
      /\ n \in Nat /\ n \in 1 .. Len(ss) /\ n - 1 = Len(rs) /\ Len(rs) \in 0 .. Len(rs)
  BY DEF Payable
<1> DEFINE js == is \cup {n}
<1>1. Payable(ss, base, js)
  <2>1. \A i \in is : ss[i].paidAt \in Date
    BY DEF Payable
  <2>a. 1 .. Len(rs) \subseteq 1 .. Len(ss)
    BY <1>0
  <2>2. js \subseteq 1 .. Len(ss)
    BY <1>0, <2>a
  <2> QED BY <1>0, <2>1, <2>2 DEF Payable
<1>2. PICK t : t = TermsOf(rs, base, is)
  OBVIOUS
<1>3. PICK u : u = TermsOf(ss, base, js)
  OBVIOUS
<1>4. /\ \A i \in 1 .. Len(rs) : i \in is <=> i \in js
      /\ \A i \in 1 .. Len(rs) : i \in is => ss[i].paidAt = rs[i].paidAt
      /\ n \in js
  BY <1>0
<1> HIDE DEF js
<1>5. Len(rs) <= Len(rs)
  BY <1>0
<1>6. \A i \in 0 .. Len(rs) : u[i] = t[i]
  BY <1>0, <1>1, <1>2, <1>3, <1>4, <1>5, TermsAgree
<1>7. u[n] = AddCalendarMonth(MaxDate(ss[n].paidAt, u[n - 1]))
  BY <1>0, <1>1, <1>3, <1>4, TermsStep
<1>8. u[n] = shown[n]
  BY <1>0, <1>2, <1>6, <1>7 DEF Shown
<1>9. \A i \in js : shown[i] = u[i]
  BY <1>0, <1>2, <1>6, <1>8 DEF Shown, js
<1> QED BY <1>3, <1>8, <1>9 DEF Shown, js

\* A balance no import has gone past is what a replay ends on.
LEMMA BalanceIsTerm ==
  ASSUME TermInv, NEW u \in TelegramIds, baseline[u] # Unset, Undisturbed(u)
  PROVE  PaidUntil(u, Providers) = sub[u]["sheet"].until
<1> DEFINE base == baseline[u]
           last == sub[u]["sheet"].until
           all == PaidUntil(u, Providers)
<1>0. LedgerInv /\ TermsTyped /\ Dated
  BY DEF TermInv
<1>1. base \in OptionalDate
  BY <1>0 DEF TermsTyped
<1>2. Payable(results, base, Processed(u)) /\ Len(results) \in Nat
  BY <1>0, <1>1, PaymentsPayable DEF Payable
<1>3. last = TermsOf(results, base, Processed(u))[Len(results)]
  BY ReplayedIsShown DEF TermInv, TermReplaysLedger, Shown
<1>4. base <= last
  <2>1. PICK t : t = TermsOf(results, base, Processed(u))
    OBVIOUS
  <2>2. t[0] = base /\ \A n \in 0 .. Len(results) : \A j \in 0 .. n : t[j] <= t[n]
    BY <1>2, <2>1, TermsGrow
  <2>3. Len(results) \in 0 .. Len(results) /\ 0 \in 0 .. Len(results)
    BY <1>2
  <2> QED BY <1>3, <2>1, <2>2, <2>3
<1>5. all \in OptionalDate /\ last \in OptionalDate /\ sub[u]["legacy"].until \in OptionalDate
  BY <1>0, PaidUntilOf, SubscriptionOf DEF TermsTyped, Providers
<1>6. sub[u]["legacy"].status = "paid" => sub[u]["legacy"].until <= last
  <2> SUFFICES ASSUME sub[u]["legacy"].status = "paid"
               PROVE  sub[u]["legacy"].until <= last
    OBVIOUS
  <2>1. sub[u]["legacy"].until <= base
    <3>1. CASE sub[u]["legacy"].until <= base
      BY <3>1
    <3>2. ASSUME NEW k \in Imports, k.tid = u, sub[u]["legacy"].until <= k.until
          PROVE  sub[u]["legacy"].until <= base
      <4>1. k.until <= base
        BY <3>2 DEF Undisturbed, ImportsWithinBaseline
      <4>2. k.until \in Date
        BY <1>0 DEF Imports, LedgerInv, LedgerTypeOK, InviteKey
      <4>3. k.until \in Int /\ base \in Int /\ sub[u]["legacy"].until \in Int
        BY <1>1, <1>5, <4>2, Dates
      <4> QED BY <3>2, <4>1, <4>3
    <3> QED BY <3>1, <3>2 DEF TermInv, LegacyOnRecord
  <2>2. base \in Int /\ last \in Int /\ sub[u]["legacy"].until \in Int
    BY <1>1, <1>5, Dates
  <2> HIDE DEF base, last
  <2> QED BY <1>4, <2>1, <2>2
<1>7. sub[u]["sheet"].status # "paid" => last = NoDate
  BY DEF TermInv, UnpaidIsEmpty
<1>8. /\ sub[u]["sheet"].status = "paid" => last <= all
      /\ \/ all = NoDate \/ all = last
         \/ sub[u]["legacy"].status = "paid" /\ sub[u]["legacy"].until = all
  BY <1>0, PaidUntilOf DEF Providers
<1>9. all \in Int /\ last \in Int /\ NoDate <= all /\ NoDate <= last /\ NoDate \in Int
  BY <1>5, Dates
<1> HIDE DEF all, last
<1>10. last <= all /\ all <= last
  BY <1>6, <1>7, <1>8, <1>9
<1>11. all = last
  BY <1>9, <1>10
<1> QED BY <1>11 DEF all, last

LEMMA CreditedReplays ==
  ASSUME TermInv, NEW row \in Row, NEW current, NEW until,
         Credited(row, current, until), Noted(row.tid, current)
  PROVE  TermReplaysLedger'
<1> SUFFICES ASSUME NEW v \in TelegramIds, baseline'[v] # Unset, Undisturbed(v)'
             PROVE  Replayed(v)'
  BY DEF TermReplaysLedger
<1>0. LedgerInv /\ TermsTyped /\ Dated
  BY DEF TermInv
<1>1. PICK n : n = Len(results) + 1
  OBVIOUS
<1>2. /\ until \in OptionalDate /\ Store(row, until) /\ KnownUser(row) /\ row.paidAt \in Date
      /\ row.tid \in TelegramIds /\ Imports' = Imports /\ corrections' = corrections
      /\ current \in OptionalDate
  BY Dates DEF Credited, Store
<1>3. /\ v = row.tid /\ row.valid => Processed(v)' = Processed(v) \cup {n}
      /\ v # row.tid => Processed(v)' = Processed(v)
      /\ NoCreditedError(v) /\ (v = row.tid => row.valid)
  <2> HIDE DEF KnownUser, NoCreditedError
  <2>1. row.valid \in BOOLEAN /\ NoCreditedError(v)'
    BY DEF Row, Undisturbed
  <2> QED BY <1>0, <1>1, <1>2, <2>1, RowCounted
<1>4. Stored(row, until, n)
  BY <1>0, <1>1, <1>2, RowStored
<1>5. /\ Len(results') = Len(results) + 1 /\ Processed(v) \subseteq DOMAIN results
      /\ \A i \in DOMAIN results : results'[i] = results[i] /\ applied'[i] = applied[i]
      /\ results'[n].paidAt = row.paidAt /\ applied'[n] = until
  BY <1>0, <1>1, <1>4, RowsOf DEF Stored
<1>6. /\ \A i \in Processed(v) : results'[i].paidAt = results[i].paidAt
      /\ \A i \in Processed(v) : applied'[i] = applied[i]
  BY <1>5
<1>7. ImportsWithinBaseline(v)' /\ baseline'[v] = baseline[v] => ImportsWithinBaseline(v)
  BY <1>2 DEF ImportsWithinBaseline
<1>8. baseline'[v] = baseline[v] => Undisturbed(v)
  BY <1>2, <1>3, <1>7 DEF Undisturbed
<1>9. CASE v # row.tid
  <2>1. baseline'[v] = baseline[v] /\ sub'[v] = sub[v] /\ Processed(v)' = Processed(v)
    BY <1>3, <1>9, CreditedTyped
  <2>2. Shown(results, applied, baseline[v], Processed(v), sub[v]["sheet"].until)
    BY <1>8, <2>1, ReplayedIsShown DEF TermInv, TermReplaysLedger
  <2>3. baseline[v] \in OptionalDate
    BY <1>0, <2>1 DEF TermsTyped
  <2>4. Payable(results, baseline[v], Processed(v))
    BY <1>0, <2>3, PaymentsPayable
  <2>5. Shown(results', applied', baseline[v], Processed(v), sub[v]["sheet"].until)
    BY <1>5, <1>6, <2>2, <2>4, ShownLonger
  <2> QED BY <2>1, <2>5, ReplayedIsShown
<1>10. CASE v = row.tid
  <2>1. /\ Processed(v)' = Processed(v) \cup {n} /\ sub'[v]["sheet"].until = until
        /\ IF FirstOf(v) /\ baseline[v] = Unset
           THEN baseline'[v] = current ELSE baseline'[v] = baseline[v]
    BY <1>3, <1>10, CreditedTyped
  <2>2. Shown(results, applied, baseline'[v], Processed(v), current) /\ baseline'[v] \in OptionalDate
    <3>1. CASE baseline[v] # Unset
      <4>1. baseline'[v] = baseline[v] /\ baseline[v] \in OptionalDate
        BY <1>0, <2>1, <3>1 DEF TermsTyped
      <4>2. Undisturbed(v)
        BY <1>8, <4>1
      <4>3. current = sub[v]["sheet"].until
        BY <1>10, <3>1, <4>2, BalanceIsTerm DEF Credited
      <4>4. Shown(results, applied, baseline[v], Processed(v), sub[v]["sheet"].until)
        BY <3>1, <4>2, ReplayedIsShown DEF TermInv, TermReplaysLedger
      <4> QED BY <4>1, <4>3, <4>4
    <3>2. CASE baseline[v] = Unset
      <4>1. baseline'[v] = current /\ FirstOf(v)
        BY <2>1, <3>2
      <4>2. Processed(v) = {}
        BY <1>3, <4>1 DEF NoCreditedError, FirstOf, Processed
      <4>3. Payable(results, current, {}) /\ Len(results) \in 0 .. Len(results)
        BY <1>0, <1>2, <4>2, PaymentsPayable, RowsOf
      <4>4. TermsOf(results, current, {})[Len(results)] = current
        BY <4>3, NoTerms
      <4>5. Shown(results, applied, current, {}, current)
        BY <4>4 DEF Shown
      <4> QED BY <1>2, <4>1, <4>2, <4>5
    <3> QED BY <3>1, <3>2
  <2>3. Payable(results, baseline'[v], Processed(v))
    BY <1>0, <2>2, PaymentsPayable
  <2>4. applied'[n] = AddCalendarMonth(MaxDate(results'[n].paidAt, current))
    BY <1>5 DEF Credited
  <2>5. results'[n].paidAt \in Date /\ Len(results') = n
    BY <1>1, <1>2, <1>5
  <2>6. PICK base : base = baseline'[v]
    OBVIOUS
  <2>7. Shown(results', applied', base, Processed(v) \cup {n}, applied'[n])
    BY <1>1, <1>6, <2>2, <2>3, <2>4, <2>5, <2>6, ShownOneMore
  <2> QED BY <1>5, <2>1, <2>6, <2>7, ReplayedIsShown
<1> QED BY <1>9, <1>10

LEMMA CreditedKeeps ==
  ASSUME TermInv, NEW row \in Row, ExtendTerm(row), LedgerInv'
  PROVE  TermInv'
<1>1. PICK current, until : Credited(row, current, until) /\ Noted(row.tid, current)
  BY PaymentCredits
<1>2. /\ LedgerInv' /\ TermsTyped' /\ TermMatchesLedger' /\ TermReplaysLedger'
  BY <1>1, CreditedTyped, CreditedMatches, CreditedReplays
<1>3. LedgerInv /\ TermsTyped /\ Dated
  BY DEF TermInv
<1>4. PICK n : n = Len(results) + 1
  OBVIOUS
<1>5. /\ until \in OptionalDate /\ Store(row, until) /\ KnownUser(row) /\ row.tid \in TelegramIds
      /\ Imports' = Imports
  BY <1>1, Dates DEF Credited
<1>6. Dated' /\ \A v : v # row.tid => Processed(v)' = Processed(v)
  BY <1>3, <1>4, <1>5, RowCounted
<1>7. /\ sub'[row.tid]["sheet"].status = "paid"
      /\ sub'[row.tid]["legacy"] = sub[row.tid]["legacy"]
      /\ \A v \in TelegramIds \ {row.tid} : sub'[v] = sub[v] /\ baseline'[v] = baseline[v]
      /\ IF FirstOf(row.tid) /\ baseline[row.tid] = Unset
         THEN baseline'[row.tid] = current ELSE baseline'[row.tid] = baseline[row.tid]
  BY <1>1, CreditedTyped
<1>8. PaidWhenProcessed'
  BY <1>6, <1>7 DEF PaidWhenProcessed, TermInv
<1>9. UnpaidIsEmpty'
  BY <1>7 DEF UnpaidIsEmpty, TermInv
<1>10. LegacyOnRecord'
  <2> SUFFICES ASSUME NEW v \in TelegramIds, baseline'[v] # Unset,
                      sub'[v]["legacy"].status = "paid"
               PROVE  \/ sub'[v]["legacy"].until <= baseline'[v]
                      \/ \E k \in Imports : k.tid = v /\ sub'[v]["legacy"].until <= k.until
    BY <1>5 DEF LegacyOnRecord
  <2>1. sub'[v]["legacy"] = sub[v]["legacy"]
    BY <1>7
  <2>2. CASE baseline'[v] = baseline[v]
    BY <2>1, <2>2 DEF TermInv, LegacyOnRecord
  <2>3. CASE baseline'[v] # baseline[v]
    <3>1. v = row.tid /\ baseline'[v] = current
      BY <1>7, <2>3
    <3>2. sub[v]["legacy"].until <= PaidUntil(v, Providers)
      BY <1>3, <2>1, PaidUntilOf DEF Providers
    <3> QED BY <1>1, <2>1, <3>1, <3>2 DEF Credited
  <2> QED BY <2>2, <2>3
<1> QED BY <1>2, <1>6, <1>8, <1>9, <1>10 DEF TermInv

\* A rejected row.
LEMMA RejectedKeeps ==
  ASSUME TermInv, NEW row \in Row, RejectRow(row), LedgerInv'
  PROVE  TermInv'
<1>0. LedgerInv /\ TermsTyped /\ Dated
  BY DEF TermInv
<1>1. PICK n : n = Len(results) + 1
  OBVIOUS
<1>2. /\ ~KnownUser(row) /\ Store(row, NoDate) /\ NoDate \in OptionalDate
      /\ UNCHANGED <<baseline, sub, newest, invites, corrections, panel>> /\ Imports' = Imports
  BY Dates, Zenon DEF RejectRow, Store, Imports
<1>3. Dated' /\ \A v : Processed(v)' = Processed(v) /\ (NoCreditedError(v)' => NoCreditedError(v))
  <2> HIDE DEF KnownUser, NoCreditedError
  <2> QED BY <1>0, <1>1, <1>2, RowCounted
<1>4. Stored(row, NoDate, n)
  BY <1>0, <1>1, <1>2, RowStored
<1>5. /\ Len(results') = Len(results) + 1 /\ \A v : Processed(v) \subseteq DOMAIN results
      /\ \A i \in DOMAIN results : results'[i] = results[i] /\ applied'[i] = applied[i]
      /\ applied' \in Seq(OptionalDate) /\ Len(applied') = Len(results')
  BY <1>0, <1>1, <1>4, RowsOf DEF Stored
<1>6. TermsTyped'
  BY <1>0, <1>2, <1>5 DEF TermsTyped
<1>7. PaidWhenProcessed' /\ UnpaidIsEmpty' /\ LegacyOnRecord'
  BY <1>2, <1>3 DEF TermInv, PaidWhenProcessed, UnpaidIsEmpty, LegacyOnRecord
<1>8. TermMatchesLedger'
  <2> SUFFICES ASSUME NEW v \in TelegramIds, NoCreditedError(v)', Processed(v)' # {}
               PROVE  sub'[v]["sheet"] = Paid(Latest({applied'[i] : i \in Processed(v)'}))
    BY DEF TermMatchesLedger
  <2>1. {applied'[i] : i \in Processed(v)'} = {applied[i] : i \in Processed(v)}
    BY <1>3, <1>5
  <2>2. NoCreditedError(v) /\ Processed(v) # {}
    BY <1>3
  <2> QED BY <1>2, <2>1, <2>2 DEF TermInv, TermMatchesLedger
<1>9. TermReplaysLedger'
  <2> SUFFICES ASSUME NEW v \in TelegramIds, baseline'[v] # Unset, Undisturbed(v)'
               PROVE  Replayed(v)'
    BY DEF TermReplaysLedger
  <2>1. Undisturbed(v)
    BY <1>2, <1>3 DEF Undisturbed, ImportsWithinBaseline
  <2>2. Shown(results, applied, baseline[v], Processed(v), sub[v]["sheet"].until)
    BY <1>2, <2>1, ReplayedIsShown DEF TermInv, TermReplaysLedger
  <2>3. baseline[v] \in OptionalDate
    BY <1>0, <1>2 DEF TermsTyped
  <2>4. Payable(results, baseline[v], Processed(v))
    BY <1>0, <2>3, PaymentsPayable
  <2>5. /\ \A i \in Processed(v) : results'[i].paidAt = results[i].paidAt
        /\ \A i \in Processed(v) : applied'[i] = applied[i]
    BY <1>5
  <2>6. Shown(results', applied', baseline[v], Processed(v), sub[v]["sheet"].until)
    BY <1>5, <2>2, <2>4, <2>5, ShownLonger
  <2> QED BY <1>2, <1>3, <2>6, ReplayedIsShown
<1> QED BY <1>3, <1>6, <1>7, <1>8, <1>9 DEF TermInv

-----------------------------------------------------------------------------
(* A correction, a deletion, an import.                                    *)

\* Rows whose member, date, status and knownness stay count as before.
SameCount(u) ==
  /\ Processed(u)' = Processed(u) /\ (NoCreditedError(u)' <=> NoCreditedError(u))

\* A replay looks at the dates of the payments in it, and no further.
LEMMA ShownAgain ==
  ASSUME NEW rs, NEW base, NEW is, Payable(rs, base, is),
         NEW ss, Len(ss) = Len(rs), \A i \in is : ss[i].paidAt = rs[i].paidAt,
         NEW terms, NEW shown, \A i \in is : shown[i] = terms[i],
         NEW last, Shown(rs, terms, base, is, last)
  PROVE  Shown(ss, shown, base, is, last)
<1>0. Len(rs) \in Nat /\ is \subseteq 1 .. Len(rs) /\ Len(rs) \in 0 .. Len(rs) /\ Len(rs) <= Len(ss)
      /\ Len(rs) <= Len(rs)
  BY DEF Payable
<1>1. Payable(ss, base, is)
  BY <1>0 DEF Payable
<1>2. PICK t : t = TermsOf(rs, base, is)
  OBVIOUS
<1>3. PICK u : u = TermsOf(ss, base, is)
  OBVIOUS
<1>4. \A i \in 1 .. Len(rs) : i \in is => ss[i].paidAt = rs[i].paidAt
  OBVIOUS
<1>6. \A i \in 0 .. Len(rs) : u[i] = t[i]
  BY <1>0, <1>1, <1>2, <1>3, <1>4, TermsAgree
<1>7. last = u[Len(ss)]
  BY <1>0, <1>2, <1>6 DEF Shown
<1>8. \A i \in is : u[i] = t[i]
  BY <1>0, <1>6
<1>9. \A i \in is : terms[i] = t[i]
  BY <1>2 DEF Shown
<1>10. \A i \in is : shown[i] = u[i]
  BY <1>8, <1>9, Zenon
<1> QED BY <1>3, <1>7, <1>10 DEF Shown

\* What writing the correction of form f does to the ledger.
Rewritten(f, u, latest) ==
  /\ f \in Form /\ f.row \in DOMAIN results /\ f.paidAt \in SheetDates
  /\ u = results[f.row].tid /\ u \in TelegramIds /\ Processed(u) # {}
  /\ results' = [results EXCEPT ![f.row].paidAt = f.paidAt, ![f.row].ref = f.ref]
  /\ applied' = [applied EXCEPT ![f.row] = f.until]
  /\ latest = Latest({applied'[j] : j \in Processed(u)})
  /\ sub' = [sub EXCEPT ![u]["sheet"].until = latest]
  /\ corrections' = Append(corrections,
       [pid |-> results[f.row].pid, tid |-> u, kind |-> "correct"])
  /\ Imports' = Imports /\ UNCHANGED <<baseline, newest>>

LEMMA WriteRewrites ==
  ASSUME TermInv, NEW a \in Panels, WriteCorrection(a)
  PROVE  \E f, u, latest : Rewritten(f, u, latest) /\ panel' = [panel EXCEPT ![a] = NoForm]
<1> DEFINE f == panel[a]
           u == results[f.row].tid
           now == [applied EXCEPT ![f.row] = f.until]
           latest == Latest({now[j] : j \in Processed(u)})
<1>0. LedgerInv /\ TermsTyped /\ Dated
  BY DEF TermInv
<1>1. f \in Form /\ f.row \in DOMAIN results /\ f.paidAt \in SheetDates
  BY <1>0 DEF WriteCorrection, TermsTyped, LedgerInv, LedgerTypeOK, PanelTypeOK
<1>2. u \in TelegramIds
  BY <1>0, <1>1, RowsOf
<1>3. /\ Processed(u) # {}
      /\ results' = [results EXCEPT ![f.row].paidAt = f.paidAt, ![f.row].ref = f.ref]
      /\ applied' = now
      /\ sub' = [sub EXCEPT ![u]["sheet"].until = latest]
      /\ corrections' = Append(corrections, [pid |-> results[f.row].pid, tid |-> u, kind |-> "correct"])
      /\ invites' = invites \cup
           {[kind |-> "correction", n |-> Len(corrections) + 1, tid |-> u]}
      /\ panel' = [panel EXCEPT ![a] = NoForm] /\ UNCHANGED <<baseline, newest>>
  BY Zenon DEF WriteCorrection
<1>4. Imports' = Imports
  <2>1. PICK k : /\ k = [kind |-> "correction", n |-> Len(corrections) + 1, tid |-> u]
                 /\ invites' = invites \cup {k}
    BY Zenon DEF WriteCorrection
  <2>2. k.kind # "import"
    BY <2>1
  <2> QED BY <2>1, <2>2, Zenon DEF Imports
<1>5. latest = Latest({applied'[j] : j \in Processed(u)})
  <2>1. applied' = now
    BY Zenon DEF WriteCorrection
  <2> QED BY <2>1, Zenon
<1>6. Rewritten(f, u, latest)
  BY <1>1, <1>2, <1>3, <1>4, <1>5, Zenon DEF Rewritten
<1> QED BY <1>3, <1>6

LEMMA RewrittenRows ==
  ASSUME LedgerInv, TermsTyped, Dated, NEW f, NEW u, NEW latest, Rewritten(f, u, latest)
  PROVE  /\ Len(results') = Len(results) /\ DOMAIN results' = DOMAIN results
         /\ \A i \in DOMAIN results : /\ results'[i].tid = results[i].tid
                                      /\ results'[i].known = results[i].known
                                      /\ results'[i].status = results[i].status
         /\ \A i \in DOMAIN results \ {f.row} :
              results'[i].paidAt = results[i].paidAt /\ applied'[i] = applied[i]
         /\ results'[f.row].paidAt \in Date
         /\ applied' \in Seq(OptionalDate) /\ Len(applied') = Len(results')
<1>1. /\ f.row \in DOMAIN results /\ f.paidAt \in Date /\ f.until \in OptionalDate
      /\ results \in Seq(Result) /\ results[f.row] \in Result
      /\ applied \in Seq(OptionalDate) /\ Len(applied) = Len(results) /\ f.row \in DOMAIN applied
      /\ \A i \in DOMAIN results : results[i] \in Result
  BY DateAssumption, RowsOf DEF Rewritten, Form, LedgerInv, LedgerTypeOK, TermsTyped
<1>2. PICK r, d, ref, until : r = f.row /\ d = f.paidAt /\ ref = f.ref /\ until = f.until
  OBVIOUS
<1> DEFINE new == [results[r] EXCEPT !.paidAt = d, !.ref = ref]
<1>3. results' = [results EXCEPT ![r] = new]
  BY <1>1, <1>2 DEF Rewritten
<1>4. /\ new.tid = results[r].tid /\ new.known = results[r].known
      /\ new.status = results[r].status /\ new.paidAt = d
  BY <1>1, <1>2 DEF Result
<1> HIDE DEF new
<1>5. /\ Len(results') = Len(results) /\ DOMAIN results' = DOMAIN results
      /\ results'[r] = new /\ \A i \in DOMAIN results \ {r} : results'[i] = results[i]
  BY <1>1, <1>2, <1>3
<1>6. /\ applied' \in Seq(OptionalDate) /\ Len(applied') = Len(applied)
      /\ \A i \in DOMAIN applied \ {r} : applied'[i] = applied[i]
  BY <1>1, <1>2 DEF Rewritten
<1>7. DOMAIN applied = DOMAIN results
  BY RowsOf
<1> QED BY <1>1, <1>2, <1>4, <1>5, <1>6, <1>7

LEMMA RewrittenCount ==
  ASSUME LedgerInv, TermsTyped, Dated, NEW f, NEW u, NEW latest, Rewritten(f, u, latest), NEW v
  PROVE  Dated' /\ SameCount(v)
<1>1. /\ DOMAIN results' = DOMAIN results
      /\ \A i \in DOMAIN results : /\ results'[i].tid = results[i].tid
                                   /\ results'[i].known = results[i].known
                                   /\ results'[i].status = results[i].status
  BY RewrittenRows
<1>2. \A i \in DOMAIN results : results'[i].paidAt = results[i].paidAt \/ results'[i].paidAt \in Date
  BY RewrittenRows
<1>3. Dated'
  BY <1>1, <1>2 DEF Dated
<1>4. SameCount(v)
  BY <1>1 DEF SameCount, Processed, NoCreditedError
<1> QED BY <1>3, <1>4

LEMMA WrittenKeeps ==
  ASSUME TermInv, NEW a \in Panels, WriteCorrection(a), LedgerInv'
  PROVE  TermInv'
<1>0. LedgerInv /\ TermsTyped /\ Dated
  BY DEF TermInv
<1>1. PICK f, u, latest : Rewritten(f, u, latest) /\ panel' = [panel EXCEPT ![a] = NoForm]
  BY WriteRewrites
<1>2. /\ u \in TelegramIds /\ Processed(u) # {} /\ Imports' = Imports
      /\ sub' = [sub EXCEPT ![u]["sheet"].until = latest] /\ UNCHANGED <<baseline, newest>>
      /\ latest = Latest({applied'[j] : j \in Processed(u)})
      /\ corrections' = Append(corrections,
           [pid |-> results[f.row].pid, tid |-> u, kind |-> "correct"])
  BY <1>1 DEF Rewritten
<1>3. /\ Len(results') = Len(results) /\ DOMAIN results' = DOMAIN results
      /\ \A i \in DOMAIN results \ {f.row} :
           results'[i].paidAt = results[i].paidAt /\ applied'[i] = applied[i]
      /\ applied' \in Seq(OptionalDate) /\ Len(applied') = Len(results')
  BY <1>0, <1>1, RewrittenRows
<1>4. Dated' /\ \A v : SameCount(v)
  BY <1>0, <1>1, RewrittenCount
<1>5. latest \in OptionalDate
  <2>1. Len(results) \in Nat /\ Processed(u) \subseteq 1 .. Len(results)
    BY <1>0, RowsOf
  <2>2. \A i \in Processed(u) : applied'[i] \in OptionalDate
    BY <1>3, <2>1
  <2>3. PICK shown, is : shown = applied' /\ is = Processed(u)
    OBVIOUS
  <2>a. is \subseteq 1 .. Len(results) /\ \A i \in is : shown[i] \in OptionalDate
    BY <2>1, <2>2, <2>3
  <2>4. Latest({shown[i] : i \in is}) \in OptionalDate
    BY <2>1, <2>a, LatestOfRows
  <2> QED BY <1>2, <2>3, <2>4
<1>6. sub[u]["sheet"].status = "paid"
  BY <1>2 DEF TermInv, PaidWhenProcessed
<1>7. Upserted(u, "sheet", "paid", latest)
  <2>1. sub \in [TelegramIds -> [Providers -> Subscription]] /\ "sheet" \in Providers
    BY <1>0 DEF TermsTyped, Providers
  <2>2. sub[u]["sheet"] = [status |-> "paid", until |-> sub[u]["sheet"].until]
    BY <1>2, <1>6, <2>1, SubscriptionOf
  <2>3. [sub[u]["sheet"] EXCEPT !.until = latest] = [status |-> "paid", until |-> latest]
    BY <2>2
  <2>4. sub' = [sub EXCEPT ![u]["sheet"] = [status |-> "paid", until |-> latest]]
    BY <1>2, <2>1, <2>3
  <2>5. "paid" \in {"absent", "paid", "pending"}
    OBVIOUS
  <2> QED BY <1>0, <1>2, <1>5, <2>1, <2>4, <2>5, UpsertTyped
<1>8. /\ sub' \in [TelegramIds -> [Providers -> Subscription]]
      /\ sub'[u]["sheet"].status = "paid" /\ sub'[u]["sheet"] = Paid(latest)
      /\ sub'[u]["legacy"] = sub[u]["legacy"]
      /\ \A v \in TelegramIds \ {u} : sub'[v] = sub[v]
  BY <1>7 DEF Upserted, Paid, Providers
<1>9. TermsTyped'
  BY <1>0, <1>1, <1>2, <1>3, <1>8, FormsShaped DEF TermsTyped
<1>10. PaidWhenProcessed' /\ UnpaidIsEmpty'
  BY <1>4, <1>8 DEF TermInv, PaidWhenProcessed, UnpaidIsEmpty, SameCount
<1>11. LegacyOnRecord'
  <2>1. \A v \in TelegramIds : sub'[v]["legacy"] = sub[v]["legacy"]
    BY <1>8
  <2> QED BY <1>2, <2>1 DEF TermInv, LegacyOnRecord
<1>12. \A v \in TelegramIds \ {u} : \A i \in Processed(v) : i \in DOMAIN results \ {f.row}
  BY <1>1 DEF Processed, Rewritten
<1>13. TermMatchesLedger'
  <2> SUFFICES ASSUME NEW v \in TelegramIds, NoCreditedError(v)', Processed(v)' # {}
               PROVE  sub'[v]["sheet"] = Paid(Latest({applied'[i] : i \in Processed(v)'}))
    BY DEF TermMatchesLedger
  <2>1. Processed(v)' = Processed(v) /\ NoCreditedError(v)
    BY <1>4 DEF SameCount
  <2>2. CASE v = u
    BY <1>2, <1>8, <2>1, <2>2
  <2>3. CASE v # u
    <3>1. {applied'[i] : i \in Processed(v)} = {applied[i] : i \in Processed(v)}
      BY <1>3, <1>12, <2>3
    <3>2. sub'[v] = sub[v]
      BY <1>8, <2>3
    <3> QED BY <2>1, <3>1, <3>2 DEF TermInv, TermMatchesLedger
  <2> QED BY <2>2, <2>3
<1>14. corrections \in Seq(Correction)
  BY <1>0 DEF LedgerInv, LedgerTypeOK
<1>15. /\ Len(corrections) + 1 \in DOMAIN corrections'
       /\ corrections'[Len(corrections) + 1].tid = u
       /\ corrections'[Len(corrections) + 1].kind = "correct"
       /\ \A n \in DOMAIN corrections : n \in DOMAIN corrections' /\ corrections'[n] = corrections[n]
  BY <1>2, <1>14
<1>16. TermReplaysLedger'
  <2> SUFFICES ASSUME NEW v \in TelegramIds, baseline'[v] # Unset, Undisturbed(v)'
               PROVE  Replayed(v)'
    BY DEF TermReplaysLedger
  <2>1. v # u
    BY <1>15 DEF Undisturbed
  <2>2. Undisturbed(v)
    BY <1>2, <1>4, <1>15 DEF Undisturbed, ImportsWithinBaseline, SameCount
  <2>3. Shown(results, applied, baseline[v], Processed(v), sub[v]["sheet"].until)
    BY <1>2, <2>2, ReplayedIsShown DEF TermInv, TermReplaysLedger
  <2>4. baseline[v] \in OptionalDate
    BY <1>0, <1>2 DEF TermsTyped
  <2>5. Payable(results, baseline[v], Processed(v))
    BY <1>0, <2>4, PaymentsPayable
  <2>6. /\ \A i \in Processed(v) : results'[i].paidAt = results[i].paidAt
        /\ \A i \in Processed(v) : applied'[i] = applied[i]
    BY <1>3, <1>12, <2>1
  <2>a. PICK is, base, last, shown, terms :
          /\ is = Processed(v) /\ base = baseline[v] /\ last = sub[v]["sheet"].until
          /\ shown = applied' /\ terms = applied
    OBVIOUS
  <2>b. /\ Payable(results, base, is) /\ Shown(results, terms, base, is, last)
        /\ \A i \in is : results'[i].paidAt = results[i].paidAt
        /\ \A i \in is : shown[i] = terms[i]
    BY <2>3, <2>5, <2>6, <2>a
  <2>c. Shown(results', shown, base, is, last)
    BY <1>3, <2>b, ShownAgain
  <2>7. Shown(results', applied', baseline[v], Processed(v), sub[v]["sheet"].until)
    BY <2>a, <2>c
  <2>8. baseline'[v] = baseline[v] /\ sub'[v] = sub[v] /\ Processed(v)' = Processed(v)
    BY <1>2, <1>4, <1>8, <2>1 DEF SameCount
  <2> QED BY <2>7, <2>8, ReplayedIsShown
<1> QED BY <1>4, <1>9, <1>10, <1>11, <1>13, <1>16 DEF TermInv

\* What deleting payment i of member u does, t being the replay of those left.
Removed(i, u, base, left, t, last) ==
  /\ i \in DOMAIN results /\ results[i].status = "processed"
  /\ u = results[i].tid /\ u \in TelegramIds
  /\ base \in OptionalDate /\ left = Processed(u) \ {i}
  /\ base = IF baseline[u] = Unset THEN ImportedBalance(u) ELSE baseline[u]
  /\ t = TermsOf(results, base, left) /\ last = t[Len(results)]
  /\ baseline' = [baseline EXCEPT ![u] = base]
  /\ results' = [results EXCEPT ![i].status = "deleted"]
  /\ applied' = [j \in DOMAIN applied |-> IF j = i THEN NoDate
                                          ELSE IF j \in left THEN t[j] ELSE applied[j]]
  /\ sub' = [sub EXCEPT ![u]["sheet"] =
               [status |-> IF last = NoDate THEN "pending" ELSE "paid", until |-> last]]
  /\ corrections' = Append(corrections, [pid |-> results[i].pid, tid |-> u, kind |-> "delete"])
  /\ UNCHANGED <<newest, panel, invites>>

LEMMA DeletionRemoves ==
  ASSUME TermInv, NEW i \in DOMAIN results, DeletePayment(i)
  PROVE  \E u, base, left, t, last : Removed(i, u, base, left, t, last)
<1> DEFINE u == results[i].tid
           base == IF baseline[u] = Unset THEN ImportedBalance(u) ELSE baseline[u]
           left == Processed(u) \ {i}
           t == Replay(base, left)
           last == t[Len(results)]
<1>0. LedgerInv /\ TermsTyped /\ Dated
  BY DEF TermInv
<1>1. u \in TelegramIds
  BY <1>0, RowsOf
<1>2. base \in OptionalDate
  <2>1. ImportedBalance(u) \in OptionalDate
    <3>1. (Providers \ {"sheet"}) \subseteq Providers
      OBVIOUS
    <3> QED BY <1>0, <1>1, <3>1, PaidUntilOf DEF ImportedBalance
  <2>2. baseline[u] # Unset => baseline[u] \in OptionalDate
    BY <1>0, <1>1 DEF TermsTyped
  <2> QED BY <2>1, <2>2
<1>3. t = TermsOf(results, base, left)
  BY ReplayIsTermsOf
<1>4. /\ results[i].status = "processed"
      /\ baseline' = [baseline EXCEPT ![u] = base]
      /\ results' = [results EXCEPT ![i].status = "deleted"]
      /\ applied' = [j \in DOMAIN applied |-> IF j = i THEN NoDate
                                              ELSE IF j \in left THEN t[j] ELSE applied[j]]
      /\ sub' = [sub EXCEPT ![u]["sheet"] =
                   [status |-> IF last = NoDate THEN "pending" ELSE "paid", until |-> last]]
      /\ corrections' = Append(corrections, [pid |-> results[i].pid, tid |-> u, kind |-> "delete"])
      /\ UNCHANGED <<newest, panel, invites>>
  BY Zenon DEF DeletePayment
<1> HIDE DEF t
<1>5. Removed(i, u, base, left, t, last)
  BY <1>1, <1>2, <1>3, <1>4, Zenon DEF Removed
<1> QED BY <1>5

LEMMA RemovedRows ==
  ASSUME LedgerInv, TermsTyped, Dated,
         NEW i, NEW u, NEW base, NEW left, NEW t, NEW last,
         Removed(i, u, base, left, t, last)
  PROVE  /\ Len(results') = Len(results) /\ DOMAIN results' = DOMAIN results
         /\ \A j \in DOMAIN results : /\ results'[j].tid = results[j].tid
                                      /\ results'[j].known = results[j].known
                                      /\ results'[j].paidAt = results[j].paidAt
                                      /\ j # i => results'[j].status = results[j].status
         /\ results'[i].status = "deleted"
         /\ Payable(results, base, left) /\ Len(results) \in 0 .. Len(results)
         /\ last \in OptionalDate
         /\ left # {} => last \in Date /\ last = Latest({t[j] : j \in left})
         /\ applied' \in Seq(OptionalDate) /\ Len(applied') = Len(results')
         /\ \A j \in left : applied'[j] = t[j]
         /\ \A j \in DOMAIN results : j # i /\ j \notin left => applied'[j] = applied[j]
<1>1. /\ i \in DOMAIN results /\ results \in Seq(Result) /\ results[i] \in Result
      /\ applied \in Seq(OptionalDate) /\ Len(applied) = Len(results)
      /\ DOMAIN applied = DOMAIN results /\ DOMAIN results = 1 .. Len(results)
      /\ Len(results) \in Nat
      /\ results' = [results EXCEPT ![i].status = "deleted"]
      /\ applied' = [j \in DOMAIN applied |-> IF j = i THEN NoDate
                                              ELSE IF j \in left THEN t[j] ELSE applied[j]]
  BY RowsOf DEF Removed, LedgerInv, LedgerTypeOK, TermsTyped
<1> DEFINE new == [results[i] EXCEPT !.status = "deleted"]
<1>2. /\ new.tid = results[i].tid /\ new.known = results[i].known
      /\ new.status = "deleted" /\ new.paidAt = results[i].paidAt
  BY <1>1 DEF Result
<1>3. results' = [results EXCEPT ![i] = new]
  BY <1>1
<1> HIDE DEF new
<1>4. /\ Len(results') = Len(results) /\ DOMAIN results' = DOMAIN results
      /\ results'[i] = new /\ \A j \in DOMAIN results \ {i} : results'[j] = results[j]
  BY <1>1, <1>3
<1>5. Payable(results, base, left) /\ Len(results) \in 0 .. Len(results)
  <2>1. left \subseteq Processed(u) /\ base \in OptionalDate
    BY DEF Removed
  <2>2. Payable(results, base, left)
    BY <2>1, PaymentsPayable
  <2> QED BY <1>1, <2>2
<1>6. t = TermsOf(results, base, left) /\ last = t[Len(results)]
  BY DEF Removed
<1>7. last \in OptionalDate /\ \A j \in left : t[j] \in OptionalDate
  BY <1>5, <1>6, TermsGrow, Dates
<1>8. left # {} => last \in Date /\ last = Latest({t[j] : j \in left})
  BY <1>5, <1>6, LastTerm
<1>9. /\ \A j \in left : j \in DOMAIN results /\ j # i
      /\ NoDate \in OptionalDate
  BY <1>1, RowsOf, Dates DEF Removed
<1>10. /\ \A j \in left : applied'[j] = t[j]
       /\ \A j \in DOMAIN results : j # i /\ j \notin left => applied'[j] = applied[j]
  BY <1>1, <1>9
<1>11. applied' \in Seq(OptionalDate) /\ Len(applied') = Len(results')
  <2>1. \A j \in DOMAIN applied : (IF j = i THEN NoDate
                                   ELSE IF j \in left THEN t[j] ELSE applied[j]) \in OptionalDate
    BY <1>1, <1>7, <1>9
  <2>2. applied' \in [1 .. Len(results) -> OptionalDate]
    BY <1>1, <2>1
  <2> QED BY <1>1, <1>4, <2>2
<1> QED BY <1>2, <1>4, <1>5, <1>7, <1>8, <1>10, <1>11

LEMMA RemovedCount ==
  ASSUME LedgerInv, TermsTyped, Dated,
         NEW i, NEW u, NEW base, NEW left, NEW t, NEW last,
         Removed(i, u, base, left, t, last), NEW v
  PROVE  /\ Dated' /\ (NoCreditedError(v)' <=> NoCreditedError(v))
         /\ v = u => Processed(v)' = left
         /\ v # u => Processed(v)' = Processed(v)
<1>1. /\ DOMAIN results' = DOMAIN results /\ results'[i].status = "deleted"
      /\ \A j \in DOMAIN results : /\ results'[j].tid = results[j].tid
                                   /\ results'[j].known = results[j].known
                                   /\ results'[j].paidAt = results[j].paidAt
                                   /\ j # i => results'[j].status = results[j].status
  BY RemovedRows, Zenon
<1>2. i \in DOMAIN results /\ results[i].status = "processed" /\ u = results[i].tid
      /\ left = Processed(u) \ {i}
  BY DEF Removed
<1>3. Dated'
  BY <1>1 DEF Dated
<1>4. NoCreditedError(v)' <=> NoCreditedError(v)
  BY <1>1, <1>2 DEF NoCreditedError
<1>5. Processed(v)' = Processed(v) \ {i}
  BY <1>1, <1>2 DEF Processed
<1>6. v # u => i \notin Processed(v)
  BY <1>2 DEF Processed
<1> QED BY <1>2, <1>3, <1>4, <1>5, <1>6

LEMMA DeletedKeeps ==
  ASSUME TermInv, NEW i \in DOMAIN results, DeletePayment(i), LedgerInv'
  PROVE  TermInv'
<1>0. LedgerInv /\ TermsTyped /\ Dated
  BY DEF TermInv
<1>1. PICK u, base, left, t, last : Removed(i, u, base, left, t, last)
  BY DeletionRemoves
<1>2. /\ u \in TelegramIds /\ base \in OptionalDate /\ left = Processed(u) \ {i}
      /\ base = IF baseline[u] = Unset THEN ImportedBalance(u) ELSE baseline[u]
      /\ baseline' = [baseline EXCEPT ![u] = base]
      /\ t = TermsOf(results, base, left) /\ last = t[Len(results)]
      /\ Imports' = Imports /\ UNCHANGED <<newest, panel, invites>>
  BY <1>1 DEF Removed, Imports
<1>3. /\ Len(results') = Len(results) /\ DOMAIN results' = DOMAIN results
      /\ \A j \in DOMAIN results : results'[j].paidAt = results[j].paidAt
      /\ Payable(results, base, left) /\ last \in OptionalDate
      /\ left # {} => last \in Date /\ last = Latest({t[j] : j \in left})
      /\ applied' \in Seq(OptionalDate) /\ Len(applied') = Len(results')
      /\ \A j \in left : applied'[j] = t[j]
      /\ \A j \in DOMAIN results : j # i /\ j \notin left => applied'[j] = applied[j]
  BY <1>0, <1>1, RemovedRows
<1>4. /\ Dated' /\ Processed(u)' = left
      /\ \A v : NoCreditedError(v)' <=> NoCreditedError(v)
      /\ \A v : v # u => Processed(v)' = Processed(v)
  BY <1>0, <1>1, RemovedCount
<1> DEFINE s == IF last = NoDate THEN "pending" ELSE "paid"
<1>5. Upserted(u, "sheet", s, last)
  <2>1. s \in {"absent", "paid", "pending"} /\ "sheet" \in Providers
    BY DEF Providers
  <2>2. sub' = [sub EXCEPT ![u]["sheet"] = [status |-> s, until |-> last]]
    BY <1>1 DEF Removed
  <2> HIDE DEF s
  <2> QED BY <1>0, <1>2, <1>3, <2>1, <2>2, UpsertTyped
<1>6. /\ sub' \in [TelegramIds -> [Providers -> Subscription]]
      /\ sub'[u]["sheet"].status = s /\ sub'[u]["sheet"].until = last
      /\ sub'[u]["sheet"] = [status |-> s, until |-> last]
      /\ sub'[u]["legacy"] = sub[u]["legacy"]
      /\ \A v \in TelegramIds \ {u} : sub'[v] = sub[v]
  BY <1>5 DEF Upserted, Providers
<1>7. left # {} => s = "paid"
  BY <1>3, Dates
<1>8. baseline \in [TelegramIds -> OptionalDate \cup {Unset}]
  BY <1>0 DEF TermsTyped
<1>9. /\ baseline' \in [TelegramIds -> OptionalDate \cup {Unset}] /\ baseline'[u] = base
      /\ \A v \in TelegramIds \ {u} : baseline'[v] = baseline[v]
  BY <1>2, <1>8
<1>10. TermsTyped'
  BY <1>0, <1>2, <1>3, <1>6, <1>9 DEF TermsTyped
<1>11. PaidWhenProcessed'
  BY <1>4, <1>6, <1>7 DEF TermInv, PaidWhenProcessed
<1>12. UnpaidIsEmpty'
  BY <1>6 DEF TermInv, UnpaidIsEmpty
<1>13. LegacyOnRecord'
  <2> SUFFICES ASSUME NEW v \in TelegramIds, baseline'[v] # Unset,
                      sub'[v]["legacy"].status = "paid"
               PROVE  \/ sub'[v]["legacy"].until <= baseline'[v]
                      \/ \E k \in Imports : k.tid = v /\ sub'[v]["legacy"].until <= k.until
    BY <1>2 DEF LegacyOnRecord
  <2>1. sub'[v]["legacy"] = sub[v]["legacy"]
    BY <1>6
  <2>2. CASE baseline'[v] = baseline[v]
    BY <2>1, <2>2 DEF TermInv, LegacyOnRecord
  <2>3. CASE baseline'[v] # baseline[v]
    <3>1. v = u /\ baseline'[v] = ImportedBalance(v)
      BY <1>2, <1>9, <2>3
    <3>2. Providers \ {"sheet"} \subseteq Providers /\ "legacy" \in Providers \ {"sheet"}
      BY DEF Providers
    <3>3. sub[v]["legacy"].until <= PaidUntil(v, Providers \ {"sheet"})
      BY <1>0, <2>1, <3>2, PaidUntilOf
    <3> QED BY <2>1, <3>1, <3>3 DEF ImportedBalance
  <2> QED BY <2>2, <2>3
<1>14. \A v \in TelegramIds \ {u} : \A j \in Processed(v) :
         j \in DOMAIN results /\ j # i /\ j \notin left
  BY <1>1, <1>2 DEF Processed, Removed
<1>15. \A v \in TelegramIds \ {u} : \A j \in Processed(v) : applied'[j] = applied[j]
  BY <1>3, <1>14
<1>16. TermMatchesLedger'
  <2> SUFFICES ASSUME NEW v \in TelegramIds, NoCreditedError(v)', Processed(v)' # {}
               PROVE  sub'[v]["sheet"] = Paid(Latest({applied'[j] : j \in Processed(v)'}))
    BY DEF TermMatchesLedger
  <2>1. CASE v = u
    <3>1. {applied'[j] : j \in Processed(v)'} = {t[j] : j \in left} /\ left # {}
      BY <1>3, <1>4, <2>1
    <3>2. sub'[v]["sheet"] = Paid(last)
      BY <1>6, <1>7, <2>1, <3>1 DEF Paid
    <3> QED BY <1>3, <3>1, <3>2
  <2>2. CASE v # u
    <3>1. {applied'[j] : j \in Processed(v)'} = {applied[j] : j \in Processed(v)}
      BY <1>4, <1>15, <2>2
    <3>2. sub'[v] = sub[v] /\ NoCreditedError(v) /\ Processed(v) # {}
      BY <1>4, <1>6, <2>2
    <3> QED BY <3>1, <3>2 DEF TermInv, TermMatchesLedger
  <2> QED BY <2>1, <2>2
<1>17. TermReplaysLedger'
  <2> SUFFICES ASSUME NEW v \in TelegramIds, baseline'[v] # Unset, Undisturbed(v)'
               PROVE  Replayed(v)'
    BY DEF TermReplaysLedger
  <2>1. PICK shown, terms : shown = applied' /\ terms = applied
    OBVIOUS
  <2>2. CASE v = u
    <3>1. Shown(results, shown, base, left, last)
      BY <1>2, <1>3, <2>1 DEF Shown
    <3>2. \A j \in left : results'[j].paidAt = results[j].paidAt
      BY <1>3 DEF Payable
    <3>3. Shown(results', shown, base, left, last)
      BY <1>3, <3>1, <3>2, ShownAgain
    <3> QED BY <1>4, <1>6, <1>9, <2>1, <2>2, <3>3, ReplayedIsShown
  <2>3. CASE v # u
    <3>0. corrections \in Seq(Correction)
      BY <1>0 DEF LedgerInv, LedgerTypeOK
    <3>1. \A n \in DOMAIN corrections : n \in DOMAIN corrections' /\ corrections'[n] = corrections[n]
      BY <1>1, <3>0 DEF Removed
    <3>2. Undisturbed(v)
      BY <1>2, <1>4, <1>9, <2>3, <3>1 DEF Undisturbed, ImportsWithinBaseline
    <3>3. PICK is, b, l : is = Processed(v) /\ b = baseline[v] /\ l = sub[v]["sheet"].until
      OBVIOUS
    <3>4. Shown(results, terms, b, is, l)
      BY <1>9, <2>1, <2>3, <3>2, <3>3, ReplayedIsShown DEF TermInv, TermReplaysLedger
    <3>5. b \in OptionalDate
      BY <1>8, <1>9, <2>3, <3>3
    <3>6. Payable(results, b, is)
      BY <1>0, <3>3, <3>5, PaymentsPayable
    <3>7. /\ \A j \in is : results'[j].paidAt = results[j].paidAt
          /\ \A j \in is : shown[j] = terms[j]
      BY <1>3, <1>14, <1>15, <2>1, <2>3, <3>3
    <3>8. Shown(results', shown, b, is, l)
      BY <1>3, <3>4, <3>6, <3>7, ShownAgain
    <3>9. baseline'[v] = b /\ Processed(v)' = is /\ sub'[v]["sheet"].until = l
      BY <1>4, <1>6, <1>9, <2>3, <3>3
    <3> QED BY <2>1, <3>8, <3>9, ReplayedIsShown
  <2> QED BY <2>2, <2>3
<1> QED BY <1>4, <1>10, <1>11, <1>12, <1>13, <1>16, <1>17 DEF TermInv

LEMMA ImportedKeeps ==
  ASSUME TermInv, NEW u \in TelegramIds, NEW until \in ImportDates, ImportUser(u, until),
         LedgerInv'
  PROVE  TermInv'
<1>0. LedgerInv /\ TermsTyped /\ Dated
  BY DEF TermInv
<1>1. /\ UNCHANGED <<results, applied, corrections, baseline, panel>>
      /\ Upsert(u, "legacy", Paid(until))
      /\ invites' = invites \cup {[kind |-> "import", until |-> until, tid |-> u]}
      /\ until \in OptionalDate
  BY DateAssumption, Dates DEF ImportUser, ledger
<1>2. Upserted(u, "legacy", "paid", until)
  <2>1. sub' = [sub EXCEPT ![u]["legacy"] = [status |-> "paid", until |-> until]]
    BY <1>1 DEF Upsert, Paid
  <2>2. "legacy" \in Providers /\ "paid" \in {"absent", "paid", "pending"}
    BY DEF Providers
  <2> QED BY <1>0, <1>1, <2>1, <2>2, UpsertTyped
<1>3. /\ sub' \in [TelegramIds -> [Providers -> Subscription]]
      /\ sub'[u]["legacy"].until = until /\ sub'[u]["sheet"] = sub[u]["sheet"]
      /\ \A v \in TelegramIds \ {u} : sub'[v] = sub[v]
  BY <1>2 DEF Upserted, Providers
<1>4. newest' \in [TelegramIds -> Providers \cup {"none"}]
  BY <1>0, <1>1 DEF Upsert, TermsTyped, Providers
<1>5. TermsTyped'
  BY <1>0, <1>1, <1>3, <1>4 DEF TermsTyped
<1>6. /\ Dated' /\ \A v : Processed(v)' = Processed(v) /\ NoCreditedError(v)' = NoCreditedError(v)
      /\ \A v \in TelegramIds : sub'[v]["sheet"] = sub[v]["sheet"]
  BY <1>0, <1>1, <1>3 DEF Dated, Processed, NoCreditedError
<1>7. PaidWhenProcessed' /\ UnpaidIsEmpty'
  BY <1>6 DEF TermInv, PaidWhenProcessed, UnpaidIsEmpty
<1>8. /\ Imports \subseteq Imports'
      /\ \E k \in Imports' : k.tid = u /\ k.until = until
  <2>1. PICK k : k = [kind |-> "import", until |-> until, tid |-> u]
    OBVIOUS
  <2>2. k.kind = "import" /\ k.tid = u /\ k.until = until
    BY <2>1
  <2>3. k \in invites' /\ invites \subseteq invites'
    BY <1>1, <2>1
  <2> QED BY <2>2, <2>3 DEF Imports
<1>9. LegacyOnRecord'
  <2> SUFFICES ASSUME NEW v \in TelegramIds, baseline'[v] # Unset,
                      sub'[v]["legacy"].status = "paid"
               PROVE  \/ sub'[v]["legacy"].until <= baseline'[v]
                      \/ \E k \in Imports' : k.tid = v /\ sub'[v]["legacy"].until <= k.until
    BY DEF LegacyOnRecord
  <2>1. CASE v = u
    <3>1. until \in Int
      BY <1>1, Dates
    <3>2. until <= until
      BY <3>1
    <3> QED BY <1>3, <1>8, <2>1, <3>2
  <2>2. CASE v # u
    <3>1. sub'[v] = sub[v] /\ baseline'[v] = baseline[v]
      BY <1>1, <1>3, <2>2
    <3> QED BY <1>8, <3>1 DEF TermInv, LegacyOnRecord
  <2> QED BY <2>1, <2>2
<1>10. TermMatchesLedger'
  BY <1>1, <1>6 DEF TermInv, TermMatchesLedger
<1>11. TermReplaysLedger'
  <2> SUFFICES ASSUME NEW v \in TelegramIds, baseline'[v] # Unset, Undisturbed(v)'
               PROVE  Replayed(v)'
    BY DEF TermReplaysLedger
  <2>1. Undisturbed(v)
    BY <1>1, <1>6, <1>8 DEF Undisturbed, ImportsWithinBaseline
  <2>2. Replayed(v)
    BY <1>1, <2>1 DEF TermInv, TermReplaysLedger
  <2> QED BY <1>1, <1>6, <2>2, ReplayedIsShown
<1> QED BY <1>5, <1>6, <1>7, <1>9, <1>10, <1>11 DEF TermInv

-----------------------------------------------------------------------------
(* The terms.                                                              *)

\* An installation upgraded with payment pid of u, on d, on top of a balance.
UpgradedWith(u, pid, d, balance) ==
    LET until == AddCalendarMonth(MaxDate(balance, d))
    IN  /\ users = InitialUsers
        /\ results = <<[pid |-> pid, tid |-> u, known |-> TRUE, paidAt |-> d,
                        ref |-> NoRef, status |-> "processed"]>>
        /\ applied = <<until>> /\ inbox = {pid}
        /\ sub = [v \in TelegramIds |-> [p \in Providers |->
                    IF v # u THEN Absent
                    ELSE IF p = "sheet" THEN Paid(until)
                    ELSE IF balance = NoDate THEN Absent ELSE Paid(balance)]]
        /\ newest = [v \in TelegramIds |-> IF v = u THEN "sheet" ELSE "none"]
        /\ invites = {[kind |-> "payment", pid |-> pid, tid |-> u]}

LEMMA InitTerms == Init => TermInv
<1> SUFFICES ASSUME Init PROVE TermInv
  OBVIOUS
<1>0. LedgerInv
  BY InitLedger
<1>1. /\ baseline \in [TelegramIds -> OptionalDate \cup {Unset}]
      /\ panel \in [Panels -> Form] /\ \A u \in TelegramIds : baseline[u] = Unset
  BY Dates DEF Init, Form, NoForm
<1>2. LegacyOnRecord /\ TermReplaysLedger
  BY <1>1 DEF LegacyOnRecord, TermReplaysLedger
<1>3. CASE Installed
  <2>1. /\ results = << >> /\ applied = << >>
        /\ sub = [u \in TelegramIds |-> [p \in Providers |-> Absent]]
        /\ newest = [u \in TelegramIds |-> "none"]
    BY <1>3 DEF Installed
  <2>2. Absent \in Subscription /\ Absent.until = NoDate
    BY Dates DEF Absent, Subscription
  <2>3. TermsTyped
    BY <1>1, <2>1, <2>2 DEF TermsTyped
  <2>4. \A u : Processed(u) = {}
    BY <2>1 DEF Processed
  <2>5. Dated /\ PaidWhenProcessed /\ UnpaidIsEmpty /\ TermMatchesLedger
    BY <2>1, <2>2, <2>4
    DEF Dated, PaidWhenProcessed, UnpaidIsEmpty, TermMatchesLedger, Providers
  <2> QED BY <1>0, <1>2, <2>3, <2>5 DEF TermInv
<1>4. CASE Upgraded
  <2>1. PICK u \in InitialUsers, pid \in PaymentIds, d \in SheetDates,
             balance \in ImportDates \cup {NoDate} : UpgradedWith(u, pid, d, balance)
    BY <1>4, Zenon DEF Upgraded, UpgradedWith
  <2>2. PICK until : until = AddCalendarMonth(MaxDate(balance, d))
    OBVIOUS
  <2>a. /\ results = <<[pid |-> pid, tid |-> u, known |-> TRUE, paidAt |-> d,
                        ref |-> NoRef, status |-> "processed"]>>
        /\ applied = <<until>>
        /\ sub = [v \in TelegramIds |-> [p \in Providers |->
                    IF v # u THEN Absent
                    ELSE IF p = "sheet" THEN Paid(until)
                    ELSE IF balance = NoDate THEN Absent ELSE Paid(balance)]]
        /\ newest = [v \in TelegramIds |-> IF v = u THEN "sheet" ELSE "none"]
    BY <2>1, <2>2, Zenon DEF UpgradedWith
  <2>3. u \in TelegramIds /\ d \in Date /\ balance \in OptionalDate
    BY UserAssumption, DateAssumption, Dates
  <2>4. until \in Date
    BY <2>2, <2>3, MaxEitherWay, OneMonth, Dates
  <2>5. /\ Absent \in Subscription /\ Absent.until = NoDate
        /\ Paid(until) \in Subscription /\ Paid(balance) \in Subscription
        /\ Paid(until).status = "paid"
    BY <2>3, <2>4, Dates DEF Absent, Paid, Subscription
  <2>6. /\ sub \in [TelegramIds -> [Providers -> Subscription]]
        /\ sub[u]["sheet"] = Paid(until)
        /\ \A v \in TelegramIds \ {u} : sub[v]["sheet"] = Absent
    BY <2>a, <2>3, <2>5 DEF Providers
  <2>7. PICK row : row = [pid |-> pid, tid |-> u, known |-> TRUE, paidAt |-> d,
                          ref |-> NoRef, status |-> "processed"]
    OBVIOUS
  <2>8. row.tid = u /\ row.known = TRUE /\ row.paidAt = d /\ row.status = "processed"
    BY <2>7
  <2>9. results = <<row>> /\ applied = <<until>>
    BY <2>a, <2>7
  <2>10. /\ DOMAIN results = {1} /\ results[1] = row /\ applied[1] = until
         /\ Len(results) = 1 /\ Len(applied) = 1
    BY <2>9
  <2>11. applied \in Seq(OptionalDate)
    BY <2>4, <2>9, Dates
  <2>12. newest \in [TelegramIds -> Providers \cup {"none"}]
    BY <2>a DEF Providers
  <2>13. TermsTyped
    BY <1>1, <2>6, <2>10, <2>11, <2>12 DEF TermsTyped
  <2>14. Processed(u) = {1} /\ \A v : v # u => Processed(v) = {}
    BY <2>8, <2>10 DEF Processed
  <2>15. Dated /\ PaidWhenProcessed /\ UnpaidIsEmpty
    BY <2>3, <2>5, <2>6, <2>8, <2>10, <2>14 DEF Dated, PaidWhenProcessed, UnpaidIsEmpty
  <2>16. Latest({applied[j] : j \in Processed(u)}) = until
    <3>1. {applied[j] : j \in Processed(u)} = {until}
      BY <2>10, <2>14
    <3>2. until \in OptionalDate /\ until <= until
      BY <2>4, Dates
    <3>3. {until} \subseteq OptionalDate /\ until \in {until} \cup {NoDate}
          /\ \A e \in {until} : e <= until
      BY <3>2
    <3>4. Latest({until}) = until
      BY <3>3, LatestIs
    <3> QED BY <3>1, <3>4
  <2>17. TermMatchesLedger
    BY <2>6, <2>14, <2>16 DEF TermMatchesLedger
  <2> QED BY <1>0, <1>2, <2>13, <2>15, <2>17 DEF TermInv
<1> QED BY <1>3, <1>4 DEF Init

\* What is left: a form is checked or dropped, a user is created.
LEMMA CheckedKeeps ==
  ASSUME TermInv, NEW a \in Panels, NEW i \in DOMAIN results, NEW d \in SheetDates,
         NEW ref \in Refs \cup {results[i].ref}, CheckCorrection(a, i, d, ref), LedgerInv'
  PROVE  TermInv'
<1>0. LedgerInv /\ TermsTyped /\ Dated
  BY DEF TermInv
<1> DEFINE earlier == {j \in Processed(results[i].tid) \ {i} : results[j].paidAt <= d}
           S == {applied[j] : j \in earlier} \cup {d}
           until == AddCalendarMonth(Latest(S))
<1>1. /\ Steady /\ invites' = invites
      /\ panel' = [panel EXCEPT ![a] = [row |-> i, paidAt |-> d, ref |-> ref, until |-> until]]
  BY Zenon DEF CheckCorrection, Steady, ledger
<1>2. until \in OptionalDate
  <2>1. d \in Date /\ d \in OptionalDate
    BY DateAssumption, Dates
  <2>2. earlier \subseteq 1 .. Len(results) /\ Len(results) \in Nat
        /\ \A j \in earlier : applied[j] \in OptionalDate
    BY <1>0, RowsOf
  <2>3. PICK is, shown, len : is = earlier /\ shown = applied /\ len = Len(results)
    OBVIOUS
  <2>a. is \subseteq 1 .. len /\ len \in Nat /\ \A j \in is : shown[j] \in OptionalDate
    BY <2>2, <2>3
  <2>4. PICK top : top = Latest({shown[j] : j \in is})
    OBVIOUS
  <2>5. /\ top \in {shown[j] : j \in is} \cup {NoDate} /\ top \in OptionalDate
        /\ \A j \in is : shown[j] <= top /\ shown[j] \in OptionalDate
    BY <2>a, <2>4, LatestOfRows
  <2>6. PICK m : m = MaxDate(d, top)
    OBVIOUS
  <2>7. m \in Date /\ m >= d /\ m >= top /\ m \in {d, top} /\ m # NoDate
    BY <2>1, <2>5, <2>6, LaterDate, Dates
  <2>8. S = {shown[j] : j \in is} \cup {d}
    BY <2>3
  <2>9. S \subseteq OptionalDate /\ m \in S
    BY <2>1, <2>5, <2>7, <2>8
  <2>10. \A e \in S : e <= m
    <3>1. d \in Int /\ m \in Int /\ top \in Int /\ \A j \in is : shown[j] \in Int
      BY <2>1, <2>5, <2>7, Dates
    <3> QED BY <2>5, <2>7, <2>8, <3>1
  <2> HIDE DEF S
  <2>11. Latest(S) = m
    BY <2>9, <2>10, LatestIs
  <2> QED BY <2>7, <2>11, AddedMonthIsLater, Dates
<1>3. ref \in Refs \cup {NoRef}
  <2>1. results[i] \in Result
    BY <1>0, RowsOf
  <2> QED BY <2>1 DEF Result
<1> HIDE DEF until
<1>4. panel' \in [Panels -> Form]
  BY <1>0, <1>1, <1>2, <1>3, FormsShaped
<1>5. Imports' = Imports
  BY <1>1 DEF Imports
<1> QED BY <1>1, <1>4, <1>5, SteadyTerms

LEMMA NextTerms == TermInv /\ [Next]_vars => TermInv'
<1> SUFFICES ASSUME TermInv, [Next]_vars PROVE TermInv'
  OBVIOUS
<1>0. LedgerInv /\ TermsTyped
  BY DEF TermInv
<1>1. LedgerInv'
  BY <1>0, NextLedger
<1>2. panel \in [Panels -> Form]
  BY <1>0 DEF TermsTyped
<1>3. CASE ProcessSheetPayment
  BY <1>1, <1>3, CreditedKeeps, RejectedKeeps DEF ProcessSheetPayment
<1>4. CASE Correct
  <2>1. PICK a \in Panels :
          \/ \E i \in DOMAIN results, paidAt \in SheetDates :
               \E ref \in Refs \cup {results[i].ref} : CheckCorrection(a, i, paidAt, ref)
          \/ WriteCorrection(a)
          \/ DropCorrection(a)
    BY <1>4 DEF Correct
  <2>2. CASE DropCorrection(a)
    <3>1. Steady /\ Imports' = Imports /\ panel' = [panel EXCEPT ![a] = NoForm]
      BY <2>2, Zenon DEF DropCorrection, Steady, ledger, Imports
    <3>2. panel' \in [Panels -> Form]
      BY <1>0, <3>1, FormsShaped
    <3> QED BY <1>1, <3>1, <3>2, SteadyTerms
  <2> QED BY <1>1, <2>1, <2>2, WrittenKeeps, CheckedKeeps
<1>5. CASE Delete
  BY <1>1, <1>5, DeletedKeeps DEF Delete
<1>6. CASE \E u \in TelegramIds : CreateSheetUser(u)
  <2>1. Steady /\ Imports' = Imports /\ panel' = panel
    BY <1>6, Zenon DEF CreateSheetUser, Steady, ledger, Imports
  <2> QED BY <1>1, <1>2, <2>1, SteadyTerms
<1>7. CASE \E u \in TelegramIds, until \in ImportDates : ImportUser(u, until)
  <2>1. PICK u \in TelegramIds, until \in ImportDates : ImportUser(u, until)
    BY <1>7
  <2> QED BY <1>1, <2>1, ImportedKeeps
<1>8. CASE UNCHANGED vars
  <2>1. Steady /\ Imports' = Imports /\ panel' = panel
    BY <1>8, Zenon DEF vars, Steady, Imports
  <2> QED BY <1>1, <1>2, <2>1, SteadyTerms
<1> QED BY <1>3, <1>4, <1>5, <1>6, <1>7, <1>8 DEF Next

(* Each replayed term is a date and agrees with the shown ones in every      *)
(* reachable state (sheets.py:92-212, 338-403).                            *)
THEOREM TermsInvariant == Spec => []TermInv
BY InitTerms, NextTerms, PTL DEF Spec

(* The tables and the forms hold values of their types, the computed terms *)
(* among them.                                                             *)
THEOREM TypesHold == Spec => []TypeOK
<1>1. TermInv => TypeOK
  BY DEF TermInv, LedgerInv, TermsTyped, TypeOK
<1> QED BY <1>1, TermsInvariant, PTL

(* A member's term is the latest term the ledger shows.                    *)
THEOREM TermIsLatestShown == Spec => []TermMatchesLedger
BY TermsInvariant, PTL DEF TermInv

(* Processing and deleting leave the terms that a replay of the payments   *)
(* left computes.                                                          *)
THEOREM TermIsReplayed == Spec => []TermReplaysLedger
BY TermsInvariant, PTL DEF TermInv

LEMMA DeletionShortens ==
  ASSUME TermInv, [Next]_vars, NEW i \in DOMAIN results,
         results[i].status = "processed", results'[i].status = "deleted",
         Undisturbed(results[i].tid), baseline[results[i].tid] # Unset
  PROVE  sub'[results[i].tid]["sheet"].until <= sub[results[i].tid]["sheet"].until
<1>0. LedgerInv /\ TermsTyped /\ Dated
  BY DEF TermInv
<1>r. PICK n : n = Len(results) + 1
  OBVIOUS
<1>1. ASSUME results'[i].status = results[i].status PROVE FALSE
  BY <1>1
<1>2. ASSUME NEW row \in Row, NEW until \in OptionalDate, Store(row, until) PROVE FALSE
  <2>1. Stored(row, until, n)
    BY <1>0, <1>2, <1>r, RowStored
  <2>2. results'[i] = results[i]
    BY <2>1 DEF Stored
  <2> QED BY <1>1, <2>2
<1>3. ~ProcessSheetPayment
  <2> SUFFICES ASSUME NEW row \in Row, ExtendTerm(row) \/ RejectRow(row) PROVE FALSE
    BY DEF ProcessSheetPayment
  <2>1. CASE ExtendTerm(row)
    <3>1. PICK current, until : Credited(row, current, until)
      BY <2>1, PaymentCredits
    <3> QED BY <1>2, <3>1, Dates DEF Credited
  <2>2. CASE RejectRow(row)
    BY <1>2, <2>2, Dates DEF RejectRow
  <2> QED BY <2>1, <2>2
<1>4. ASSUME NEW a \in Panels, WriteCorrection(a) PROVE FALSE
  <2>1. PICK f, u, latest : Rewritten(f, u, latest)
    BY <1>4, WriteRewrites
  <2> QED BY <1>0, <1>1, <2>1, RewrittenRows
<1>5. results' # results
  BY <1>1
<1>6. Delete
  BY <1>3, <1>4, <1>5, Zenon
  DEF Next, vars, Correct, CheckCorrection, DropCorrection, CreateSheetUser, ImportUser, ledger
<1>7. PICK k \in DOMAIN results : DeletePayment(k)
  BY <1>6 DEF Delete
<1>8. PICK u, base, left, t, last : Removed(k, u, base, left, t, last)
  BY <1>7, DeletionRemoves
<1>9. k = i
  <2>1. results' = [results EXCEPT ![k].status = "deleted"]
    BY <1>8 DEF Removed
  <2> QED BY <1>1, <2>1
<1>10. /\ u = results[i].tid /\ u \in TelegramIds /\ base = baseline[u] /\ left = Processed(u) \ {i}
       /\ base \in OptionalDate /\ t = TermsOf(results, base, left) /\ last = t[Len(results)]
       /\ sub' = [sub EXCEPT ![u]["sheet"] =
                    [status |-> IF last = NoDate THEN "pending" ELSE "paid", until |-> last]]
  BY <1>8, <1>9 DEF Removed
<1>11. sub'[u]["sheet"].until = last
  <2>1. sub \in [TelegramIds -> [Providers -> Subscription]] /\ "sheet" \in Providers
    BY <1>0 DEF TermsTyped, Providers
  <2> QED BY <1>10, <2>1
<1>12. sub[u]["sheet"].until = TermsOf(results, base, Processed(u))[Len(results)]
  BY <1>10, ReplayedIsShown DEF TermInv, TermReplaysLedger, Shown
<1>13. PICK is : is = Processed(u)
  OBVIOUS
<1>14. Payable(results, base, is) /\ left \subseteq is
  BY <1>0, <1>10, <1>13, PaymentsPayable
<1>15. TermsOf(results, base, left)[Len(results)] <= TermsOf(results, base, is)[Len(results)]
  BY <1>14, FewerTerms
<1> QED BY <1>10, <1>11, <1>12, <1>13, <1>15

(* Taking a payment away never lengthens the term.                         *)
THEOREM DeletionDoesNotExtend == Spec => DeletionNeverExtends
<1>1. TermInv /\ [Next]_vars =>
        [\A i \in DOMAIN results :
           /\ results[i].status = "processed" /\ results'[i].status = "deleted"
           /\ Undisturbed(results[i].tid) /\ baseline[results[i].tid] # Unset
           => sub'[results[i].tid]["sheet"].until <= sub[results[i].tid]["sheet"].until]_vars
  BY DeletionShortens
<1> QED BY <1>1, TermsInvariant, PTL DEF Spec, DeletionNeverExtends
=============================================================================
