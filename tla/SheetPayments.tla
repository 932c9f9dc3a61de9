--------------------------- MODULE SheetPayments ----------------------------
(***************************************************************************)
(* The payment ledger behind the sheet: rows of the Payments sheet become  *)
(* sheet_payment_results, each accepted row adds one calendar month to the *)
(* member's subscription, a mistaken row is corrected or deleted, and old  *)
(* balances are imported.  Operations are handlers in threads of their     *)
(* own.  A row, a deletion and a new user take SQLite's write lock before  *)
(* they read (BEGIN IMMEDIATE), and are one step.  So is an import, which  *)
(* locks at its first write and has read no more than the user's row till  *)
(* then.  The correction is not: it reads and checks first and locks at    *)
(* its first write, so that others may commit in between.                  *)
(***************************************************************************)
EXTENDS Calendar, Sequences, FiniteSetsExt

CONSTANTS
  PaymentIds,      \* payment_id values the sheet sends
  TelegramIds,     \* telegram_id values the sheet sends
  Refs, NoRef,     \* (payment_provider, provider_payment_id) pairs; none given
  SheetDates,      \* dates an administrator types
  ImportDates,     \* paid-until dates of an imported snapshot
  InitialUsers,    \* telegram ids that may be known before the first payment
  Panels,          \* open admin panels: each has one correction under way
  MaxCorrections,  \* bound on corrections and deletions
  MaxImports       \* bound on imports of a dated row

ASSUME NoRefAssumption == NoRef \notin Refs
ASSUME DateAssumption == SheetDates \subseteq Date /\ ImportDates \subseteq Date
ASSUME UserAssumption == InitialUsers \subseteq TelegramIds
ASSUME BoundAssumption == MaxCorrections \in Nat /\ MaxImports \in Nat

VARIABLES
  users,        \* telegram ids of the users table
  results,      \* sheet_payment_results, in id order
  applied,      \* applied_until of each row of results
  inbox,        \* external_event_id of inbox_events for the provider 'sheet'
  baseline,     \* sheet_payment_baselines, Unset where there is no row
  sub,          \* subscriptions, by user and provider
  newest,       \* provider of the user's subscription with the largest id
  corrections,  \* sheet_payment_corrections
  panel,        \* the checked correction of each panel that is not written yet
  invites       \* telegram.invite jobs put in outbox_jobs

ledger == <<results, applied, inbox, corrections>>
vars == <<users, results, applied, inbox, baseline, sub, newest, corrections,
          panel, invites>>

Providers == {"sheet", "legacy"}
Unset == -2

Row == [pid : PaymentIds, tid : TelegramIds, paidAt : SheetDates \cup {NoDate},
        valid : BOOLEAN, ref : Refs \cup {NoRef}]
\* A stored row; known says that the row's user_id column is not NULL.
Result == [pid : PaymentIds, tid : TelegramIds, known : BOOLEAN,
           paidAt : SheetDates \cup {NoDate}, ref : Refs \cup {NoRef},
           status : {"processed", "error", "deleted"}]
Subscription == [status : {"absent", "paid", "pending"}, until : OptionalDate]
Correction == [pid : PaymentIds, tid : TelegramIds, kind : {"correct", "delete"}]
InviteKey == [kind : {"payment"}, pid : PaymentIds, tid : TelegramIds]
             \cup [kind : {"correction"}, n : Nat, tid : TelegramIds]
             \cup [kind : {"import"}, until : Date, tid : TelegramIds]

\* A correction whose request was checked: the row it will write.
Form == [row : Nat, paidAt : SheetDates \cup {NoDate}, ref : Refs \cup {NoRef},
         until : OptionalDate]
NoForm == [row |-> 0, paidAt |-> NoDate, ref |-> NoRef, until |-> NoDate]

Absent == [status |-> "absent", until |-> NoDate]
Paid(d) == [status |-> "paid", until |-> d]

-----------------------------------------------------------------------------
(* What the queries of the handlers return.                                *)

Processed(u) == {i \in DOMAIN results : /\ results[i].known
                                        /\ results[i].tid = u
                                        /\ results[i].status = "processed"}

Latest(dates) == Max(dates \cup {NoDate})

\* The latest paid-until date among the user's paid subscriptions in ps.
PaidUntil(u, ps) ==
  Latest({sub[u][p].until : p \in {q \in ps : sub[u][q].status = "paid"}})

\* Mutant of Replay: each payment adds a month to its own date only.
ReplayOwnDates(base, is) ==
  [i \in 0 .. Len(results) |->
     IF i \in is THEN AddCalendarMonth(results[i].paidAt) ELSE base]

\* Mutant of Replay: it starts from the term of today, not from the balance.
ReplayFromToday(base, is) ==
  LET term[i \in 0 .. Len(results)] ==
        IF i = 0 THEN Latest(Range(applied) \cup {base})
        ELSE IF i \in is
             THEN AddCalendarMonth(MaxDate(results[i].paidAt, term[i - 1]))
             ELSE term[i - 1]
  IN  term

\* The term after each row of the ledger when the rows in is, in id order,
\* each add a month to the later of their date and the term before them.
Replay(base, is) ==
  LET term[i \in 0 .. Len(results)] ==
        IF i = 0 THEN base
        ELSE IF i \in is
             THEN AddCalendarMonth(MaxDate(results[i].paidAt, term[i - 1]))
             ELSE term[i - 1]
  IN  term

\* Mutant of Upsert: ON CONFLICT DO NOTHING.
UpsertOnce(u, p, row) ==
  /\ sub' = IF sub[u][p] = Absent THEN [sub EXCEPT ![u][p] = row] ELSE sub
  /\ newest' = IF sub[u][p] = Absent THEN [newest EXCEPT ![u] = p] ELSE newest

\* INSERT ... ON CONFLICT DO UPDATE: a subscription row keeps its id.
Upsert(u, p, row) ==
  /\ sub' = [sub EXCEPT ![u][p] = row]
  /\ newest' = IF sub[u][p] = Absent THEN [newest EXCEPT ![u] = p] ELSE newest

-----------------------------------------------------------------------------
(* A row of the Payments sheet.                                            *)

\* Mutants of Fresh: a row stored as an error may be sent again; the provider's
\* payment id is not looked up; a deleted row is forgotten.
FreshAfterError(row) ==
  /\ \A i \in DOMAIN results :
       results[i].pid = row.pid => results[i].status = "error"
  /\ row.ref # NoRef => \A i \in DOMAIN results : results[i].ref # row.ref

FreshAnyReference(row) ==
  row.pid \notin inbox /\ \A i \in DOMAIN results : results[i].pid # row.pid

FreshAfterDeletion(row) ==
  \A i \in DOMAIN results : results[i].status # "deleted" =>
    results[i].pid # row.pid /\ (row.ref # NoRef => results[i].ref # row.ref)

\* Neither the payment id nor the provider's payment id was seen before.
Fresh(row) ==
  /\ \A i \in DOMAIN results : results[i].pid # row.pid
  /\ row.ref # NoRef => \A i \in DOMAIN results : results[i].ref # row.ref
  /\ row.pid \notin inbox

KnownUser(row) == row.tid \in users /\ row.paidAt # NoDate

Store(row, until) ==
  /\ results' = Append(results,
       [pid |-> row.pid, tid |-> row.tid, paidAt |-> row.paidAt,
        known |-> row.tid \in users /\ row.paidAt # NoDate, ref |-> row.ref,
        status |-> IF KnownUser(row) /\ row.valid THEN "processed" ELSE "error"])
  /\ applied' = Append(applied, until)
  /\ inbox' = inbox \cup {row.pid}
  /\ UNCHANGED <<users, corrections, panel>>

\* The user and the date are good: the term grows by a month, whatever the
\* provider and the amount of the row are.
ExtendTerm(row) ==
  /\ Fresh(row)
  /\ KnownUser(row)
  /\ LET current == PaidUntil(row.tid, Providers)
         until   == AddCalendarMonth(MaxDate(current, row.paidAt))
         first   == \A i \in DOMAIN results :
                      results[i].known /\ results[i].tid = row.tid
                        => results[i].status = "error"
     IN  /\ Store(row, until)
         /\ baseline' = IF first /\ baseline[row.tid] = Unset
                        THEN [baseline EXCEPT ![row.tid] = current]
                        ELSE baseline
         /\ Upsert(row.tid, "sheet", Paid(until))
  /\ invites' = invites \cup
       {[kind |-> "payment", pid |-> row.pid, tid |-> row.tid]}

\* An unknown user or an unusable date: only the error is recorded.
RejectRow(row) ==
  /\ Fresh(row)
  /\ ~KnownUser(row)
  /\ Store(row, NoDate)
  /\ UNCHANGED <<baseline, sub, newest, invites>>

ProcessSheetPayment == \E row \in Row : ExtendTerm(row) \/ RejectRow(row)

-----------------------------------------------------------------------------
(* Correction and deletion of a stored payment.                            *)

\* correct_sheet_payment up to its first write: the new date and provider id
\* are checked, and the term is computed from the payments dated no later.
\* The three SELECTs are one step; others commit before it or after it.
CheckCorrection(a, i, paidAt, ref) ==
  /\ panel[a] = NoForm /\ Len(corrections) < MaxCorrections
  /\ results[i].status = "processed"
  /\ ref # NoRef => \A j \in DOMAIN results \ {i} : results[j].ref # ref
  /\ LET earlier == {j \in Processed(results[i].tid) \ {i} :
                       results[j].paidAt <= paidAt}
         until == AddCalendarMonth(Latest({applied[j] : j \in earlier} \cup {paidAt}))
     IN  panel' = [panel EXCEPT ![a] =
                     [row |-> i, paidAt |-> paidAt, ref |-> ref, until |-> until]]
  /\ UNCHANGED <<users, ledger, baseline, sub, newest, invites>>

\* Its writes: nothing is checked again.  Without a processed payment left,
\* max() of no terms raises an error and nothing is written.
WriteCorrection(a) ==
  /\ panel[a] # NoForm
  /\ LET f == panel[a]
         u == results[f.row].tid
         now == [applied EXCEPT ![f.row] = f.until]
     IN  /\ Processed(u) # {}
         /\ results' = [results EXCEPT ![f.row].paidAt = f.paidAt,
                                       ![f.row].ref = f.ref]
         /\ applied' = now
         /\ sub' = [sub EXCEPT ![u]["sheet"].until =
                      Latest({now[j] : j \in Processed(u)})]
         /\ corrections' = Append(corrections,
              [pid |-> results[f.row].pid, tid |-> u, kind |-> "correct"])
         /\ invites' = invites \cup
              {[kind |-> "correction", n |-> Len(corrections) + 1, tid |-> u]}
  /\ panel' = [panel EXCEPT ![a] = NoForm]
  /\ UNCHANGED <<users, inbox, baseline, newest>>

\* An error, a lock timeout or a restart before the commit.
DropCorrection(a) ==
  /\ panel[a] # NoForm
  /\ panel' = [panel EXCEPT ![a] = NoForm]
  /\ UNCHANGED <<users, ledger, baseline, sub, newest, invites>>

Correct ==
  \E a \in Panels :
    \/ \E i \in DOMAIN results, paidAt \in SheetDates :
         \E ref \in Refs \cup {results[i].ref} : CheckCorrection(a, i, paidAt, ref)
    \/ WriteCorrection(a)
    \/ DropCorrection(a)

\* The balance a ledger without a stored baseline started from, and whether
\* the first payment confirms it.
ImportedBalance(u) == PaidUntil(u, Providers \ {"sheet"})
BalanceConfirmed(u) ==
  LET first == Min(Processed(u))
  IN  AddCalendarMonth(MaxDate(results[first].paidAt, ImportedBalance(u)))
        = applied[first]

\* delete_sheet_payment: the remaining payments are replayed in id order.
DeletePayment(i) ==
  /\ Len(corrections) < MaxCorrections
  /\ results[i].status = "processed"
  /\ LET u    == results[i].tid
         base == IF baseline[u] = Unset THEN ImportedBalance(u) ELSE baseline[u]
         left == Processed(u) \ {i}
         term == Replay(base, left)
         last == term[Len(results)]
     IN  /\ baseline[u] = Unset => BalanceConfirmed(u)
         /\ baseline' = [baseline EXCEPT ![u] = base]
         /\ results' = [results EXCEPT ![i].status = "deleted"]
         /\ applied' = [j \in DOMAIN applied |->
                          IF j = i THEN NoDate
                          ELSE IF j \in left THEN term[j] ELSE applied[j]]
         /\ sub' = [sub EXCEPT ![u]["sheet"] =
                      [status |-> IF last = NoDate THEN "pending" ELSE "paid",
                       until  |-> last]]
         /\ corrections' = Append(corrections,
              [pid |-> results[i].pid, tid |-> u, kind |-> "delete"])
  /\ UNCHANGED <<users, inbox, newest, panel, invites>>

Delete == \E i \in DOMAIN results : DeletePayment(i)

-----------------------------------------------------------------------------
(* Users and imported balances.                                            *)

CreateSheetUser(u) ==
  /\ u \notin users
  /\ users' = users \cup {u}
  /\ UNCHANGED <<ledger, baseline, sub, newest, panel, invites>>

Imports == {k \in invites : k.kind = "import"}

\* import_users with a paid-until date; without one it only creates the user.
ImportUser(u, until) ==
  /\ Cardinality(Imports) < MaxImports
  /\ users' = users \cup {u}
  /\ Upsert(u, "legacy", Paid(until))
  /\ invites' = invites \cup {[kind |-> "import", until |-> until, tid |-> u]}
  /\ UNCHANGED <<ledger, baseline, panel>>

\* A new installation, or one upgraded from the version that had no baseline
\* table, with one payment of one user on top of an imported balance.
Installed ==
  /\ users \in SUBSET InitialUsers
  /\ results = << >> /\ applied = << >> /\ inbox = {}
  /\ sub = [u \in TelegramIds |-> [p \in Providers |-> Absent]]
  /\ newest = [u \in TelegramIds |-> "none"]
  /\ invites = {}

Upgraded ==
  \E u \in InitialUsers, pid \in PaymentIds, d \in SheetDates,
     balance \in ImportDates \cup {NoDate} :
    LET until == AddCalendarMonth(MaxDate(balance, d))
    IN  /\ users = InitialUsers
        /\ results = <<[pid |-> pid, tid |-> u, known |-> TRUE, paidAt |-> d,
                        ref |-> NoRef, status |-> "processed"]>>
        /\ applied = <<until>> /\ inbox = {pid}
        /\ sub = [v \in TelegramIds |-> [p \in Providers |->
                    IF v # u THEN Absent
                    ELSE IF p = "sheet" THEN Paid(until)
                    ELSE IF balance = NoDate THEN Absent ELSE Paid(balance)]]
        /\ newest = [v \in TelegramIds |-> IF v = u THEN "sheet" ELSE "none"]
        /\ invites = {[kind |-> "payment", pid |-> pid, tid |-> u]}

Init ==
  /\ Installed \/ Upgraded
  /\ baseline = [u \in TelegramIds |-> Unset]
  /\ corrections = << >> /\ panel = [a \in Panels |-> NoForm]

Next ==
  \/ ProcessSheetPayment
  \/ Correct
  \/ Delete
  \/ \E u \in TelegramIds : CreateSheetUser(u)
  \/ \E u \in TelegramIds, until \in ImportDates : ImportUser(u, until)

Spec == Init /\ [][Next]_vars
-----------------------------------------------------------------------------
(* Type invariant: the tables and the forms hold rows of their shape       *)
(* (LedgerTypeOK), and the terms computed from them are dates, one for     *)
(* each result.                                                            *)
PanelTypeOK ==
  DOMAIN panel = Panels /\ \A a \in Panels : panel[a] # NoForm =>
    /\ panel[a].row \in DOMAIN results
    /\ panel[a].paidAt \in SheetDates /\ panel[a].ref \in Refs \cup {NoRef}

LedgerTypeOK ==
  /\ users \subseteq TelegramIds
  /\ results \in Seq(Result)
  /\ inbox \subseteq PaymentIds
  /\ corrections \in Seq(Correction)
  /\ invites \subseteq InviteKey
  /\ PanelTypeOK

TypeOK ==
  /\ LedgerTypeOK
  /\ applied \in Seq(OptionalDate) /\ Len(applied) = Len(results)
  /\ baseline \in [TelegramIds -> OptionalDate \cup {Unset}]
  /\ sub \in [TelegramIds -> [Providers -> Subscription]]
  /\ newest \in [TelegramIds -> Providers \cup {"none"}]
  /\ panel \in [Panels -> Form]

(* Idempotence of process_sheet_payments: the event claimed in the inbox   *)
(* and the row's result are the same set of payment ids, each with one     *)
(* result, so "payment is already being processed; retry" is never raised  *)
(* and no payment id is lost between the two tables.                       *)
EveryClaimHasOneResult ==
  /\ inbox = {results[i].pid : i \in DOMAIN results}
  /\ \A i, j \in DOMAIN results : results[i].pid = results[j].pid => i = j

(* A Stripe or PayPal payment is credited at most once: whatever rows are  *)
(* sent and deleted in between, two rows of the ledger carry the same      *)
(* provider payment id only when a correction of one of them wrote it.     *)
SameReference(i, j) ==
  i # j /\ results[i].ref = results[j].ref /\ results[i].ref # NoRef

CorrectedRows ==
  {i \in DOMAIN results : \E n \in DOMAIN corrections :
     corrections[n].kind = "correct" /\ corrections[n].pid = results[i].pid}

ProcessingCreditsOnce ==
  \A i, j \in DOMAIN results :
    SameReference(i, j) => i \in CorrectedRows \/ j \in CorrectedRows

(* Users whose term comes from processed payments alone: no credited error *)
(* row; and, for Undisturbed, no correction and no import past the balance *)
(* the ledger started from.                                                *)
NoCreditedError(u) ==
  \A i \in DOMAIN results :
    results[i].known /\ results[i].tid = u => results[i].status # "error"

ImportsWithinBaseline(u) ==
  \A k \in Imports : k.tid = u => k.until <= baseline[u]

Undisturbed(u) ==
  /\ NoCreditedError(u)
  /\ ImportsWithinBaseline(u)
  /\ \A n \in DOMAIN corrections :
       corrections[n].tid = u => corrections[n].kind = "delete"

(* The member's term is the latest term the ledger shows for a payment not *)
(* deleted, through processing, correction and deletion: the sheet the     *)
(* administrator reads and the subscription access is decided by agree.    *)
TermMatchesLedger ==
  \A u \in TelegramIds :
    NoCreditedError(u) /\ Processed(u) # {} =>
      sub[u]["sheet"] = Paid(Latest({applied[i] : i \in Processed(u)}))

Replayed(u) ==
  LET term == Replay(baseline[u], Processed(u))
  IN  /\ sub[u]["sheet"].until = term[Len(results)]
      /\ \A i \in Processed(u) : applied[i] = term[i]

(* Adding payments one by one and deleting some in any order leaves the    *)
(* same terms as replaying, from the starting balance, the payments left:  *)
(* incremental processing and delete_sheet_payment compute the same rule.  *)
TermReplaysLedger ==
  \A u \in TelegramIds :
    baseline[u] # Unset /\ Undisturbed(u) => Replayed(u)

(* Taking a payment away never lengthens the term (the month clamp and the *)
(* replay in id order keep the order of terms).                            *)
DeletionNeverExtends ==
  [][\A i \in DOMAIN results :
       /\ results[i].status = "processed" /\ results'[i].status = "deleted"
       /\ Undisturbed(results[i].tid) /\ baseline[results[i].tid] # Unset
       => sub'[results[i].tid]["sheet"].until <= sub[results[i].tid]["sheet"].until]_vars

(* A deleted payment never counts again: the row stays deleted, through    *)
(* corrections that were under way too, and its payment id is refused, so  *)
(* importing the sheet again does not bring the month back.                *)
DeletedForever ==
  [][\A i \in DOMAIN results : results[i].status = "deleted" =>
       /\ i \in DOMAIN results' /\ results'[i].status = "deleted"
       /\ \A j \in DOMAIN results' \ {i} : results'[j].pid # results[i].pid]_vars
=============================================================================
