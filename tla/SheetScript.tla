----------------------------- MODULE SheetScript -----------------------------
(***************************************************************************)
(* The Apps Script of the operators' spreadsheet.  Every edit starts an     *)
(* execution that reads a tab, marks its new rows, sends them to the bot    *)
(* and at the end overwrites the tabs with what the bot has stored.         *)
(* Executions overlap, the operator types on, and any request may fail or   *)
(* lose its answer.  The panel sends one payment of its own.                *)
(***************************************************************************)
EXTENDS Naturals, FiniteSets

CONSTANTS
  Payments,    \* payments the operators enter
  Referenced,  \* those entered in one go with the provider's payment id
  Commands,    \* commands typed into the row of one member, one at a time
  Runs,        \* executions that may overlap
  None,
  Lines,       \* bound on the lines of the payments tab
  MaxStarts    \* bound on the executions started

ASSUME ReferencedAssumption == Referenced \subseteq Payments
ASSUME BoundAssumption == Lines \in Nat \ {0} /\ MaxStarts \in Nat

VARIABLES
  tab,      \* the payments tab, line by line
  cell,     \* action and command_id of the member's row
  entered,  \* payments and commands the operators have typed
  ledger,   \* bot: sheet_payment_results, numbered
  done,     \* bot: sheets_commands, as [name, command]
  latest,   \* bot: the newest command of the member
  run,      \* where each execution is, with what it has read
  starts    \* executions started so far

vars == <<tab, cell, entered, ledger, done, latest, run, starts>>

---------------------------------------------------------------------------
\* Payments and commands get a name in the execution that first reads them.
Names == (1..MaxStarts) \X (1..Lines)
Line == [payment : Payments \cup {None}, whole : BOOLEAN, name : Names \cup {None}]
Blank == [payment |-> None, whole |-> FALSE, name |-> None]
Result == [name : Names, payment : Payments, ok : BOOLEAN, no : Nat]
Tab == [1..Lines -> Line]
Cell == [command : Commands \cup {None}, name : Names \cup {None}]

Idle == [at |-> "idle"]
Run == {Idle} \cup [at : {"read", "marked"}, n : 1..MaxStarts, lines : Tab]
              \cup [at : {"panel"}, lines : Tab]
              \cup [at : {"sent"}, n : 1..MaxStarts]
              \cup [at : {"command"}, n : 1..MaxStarts,
                    cell : [command : Commands, name : Names \cup {None}]]
              \cup [at : {"named"}, cell : [command : Commands, name : Names]]
              \cup [at : {"posted"}, command : Commands, answered : BOOLEAN]
              \cup [at : {"shown"}]
              \cup [at : {"users"}, view : Cell]
              \cup [at : {"payments"}, view : Tab]

Goes(e, next) == run' = [run EXCEPT ![e] = next]

---------------------------------------------------------------------------
(* The operator.                                                            *)

Free(p) == tab[p] = Blank /\ \A q \in 1..Lines : tab[q] = Blank => p <= q

\* A referenced payment is pasted; another may be typed cell by cell.
EnterPayment(x, p, whole) ==
  /\ x \notin entered /\ Free(p)
  /\ x \in Referenced => whole
  /\ entered' = entered \cup {x}
  /\ tab' = [tab EXCEPT ![p] = [payment |-> x, whole |-> whole, name |-> None]]
  /\ UNCHANGED <<cell, ledger, done, latest, run, starts>>

CompletePayment(p) ==
  /\ tab[p].payment # None /\ ~tab[p].whole
  /\ tab' = [tab EXCEPT ![p].whole = TRUE]
  /\ UNCHANGED <<cell, entered, ledger, done, latest, run, starts>>

\* The action cell is filled; the command_id cell is left as it is.
EnterCommand(c) ==
  /\ c \notin entered /\ cell.command = None
  /\ entered' = entered \cup {c}
  /\ cell' = [cell EXCEPT !.command = c]
  /\ UNCHANGED <<tab, ledger, done, latest, run, starts>>

---------------------------------------------------------------------------
(* The bot.  Each request is one transaction.                               *)

\* Lines the script sends: with a name, and something in them.
Sent(lines) == {p \in 1..Lines : lines[p].payment # None /\ lines[p].name # None}

\* Mutant of Same: the provider reference is not looked up.
SameName(a, b) == a.name = b.name
\* The same name, or the same provider reference: answered "duplicate".
Same(a, b) == \/ a.name = b.name
              \/ a.payment = b.payment /\ a.payment \in Referenced

New(lines) ==
  {p \in Sent(lines) : /\ \A r \in ledger : ~Same(lines[p], r)
                       /\ \A q \in Sent(lines) : q < p => ~Same(lines[p], lines[q])}

Stored(lines) ==
  ledger \cup {[name |-> lines[p].name, payment |-> lines[p].payment, ok |-> lines[p].whole,
                no |-> Cardinality(ledger) + Cardinality({q \in New(lines) : q <= p})] :
               p \in New(lines)}

Known(name) == \E d \in done : d.name = name

Carried(c) ==
  IF Known(c.name) THEN UNCHANGED <<done, latest>>
  ELSE done' = done \cup {c} /\ latest' = c.name

\* The tab the bot would show: results in the order they were stored.
Shown ==
  [p \in 1..Lines |->
     IF \E r \in ledger : r.no = p
     THEN LET r == CHOOSE r \in ledger : r.no = p
          IN [payment |-> r.payment, whole |-> r.ok, name |-> r.name]
     ELSE Blank]

---------------------------------------------------------------------------
(* The script.                                                              *)

ReadPayments(e) ==
  /\ run[e] = Idle /\ starts < MaxStarts
  /\ starts' = starts + 1
  /\ Goes(e, [at |-> "read", n |-> starts + 1, lines |-> tab])
  /\ UNCHANGED <<tab, cell, entered, ledger, done, latest>>

Unnamed(lines) == {p \in 1..Lines : lines[p].payment # None /\ lines[p].name = None}
\* Mutant of Named: the name is built from an index that starts at zero.
NamedFromZero(n, lines) ==
  [p \in 1..Lines |-> IF p \in Unnamed(lines) THEN [lines[p] EXCEPT !.name = <<n, p - 1>>]
                                              ELSE lines[p]]
Named(n, lines) ==
  [p \in 1..Lines |-> IF p \in Unnamed(lines) THEN [lines[p] EXCEPT !.name = <<n, p>>]
                                              ELSE lines[p]]

\* The name goes to the line number that was read, whatever is there now.  The
\* cells are written one by one in the code, without a request in between.
Mark(e) ==
  /\ run[e].at = "read"
  /\ LET lines == run[e].lines
     IN /\ tab' = [p \in 1..Lines |-> IF p \in Unnamed(lines)
                                      THEN [tab[p] EXCEPT !.name = <<run[e].n, p>>]
                                      ELSE tab[p]]
        /\ Goes(e, [at |-> "marked", n |-> run[e].n, lines |-> Named(run[e].n, lines)])
  /\ UNCHANGED <<cell, entered, ledger, done, latest, starts>>

\* A form of the panel, sent under a new name by every click.
SubmitPayment(e, x) ==
  /\ run[e] = Idle /\ starts < MaxStarts
  /\ starts' = starts + 1 /\ entered' = entered \cup {x}
  /\ Goes(e, [at |-> "panel",
              lines |-> [p \in 1..Lines |->
                IF p = 1 THEN [payment |-> x, whole |-> TRUE, name |-> <<starts + 1, 1>>]
                         ELSE Blank]])
  /\ UNCHANGED <<tab, cell, ledger, done, latest>>

SendPayments(e) ==
  /\ run[e].at \in {"marked", "panel"}
  /\ ledger' = Stored(run[e].lines)
  /\ \/ Goes(e, Idle)  \* no answer: the execution ends
     \/ Goes(e, IF run[e].at = "panel" THEN [at |-> "shown"]
                ELSE [at |-> "sent", n |-> run[e].n])
  /\ UNCHANGED <<tab, cell, entered, done, latest, starts>>

ReadCommand(e) ==
  /\ run[e].at = "sent"
  /\ Goes(e, IF cell.command = None THEN [at |-> "shown"]
             ELSE [at |-> "command", n |-> run[e].n, cell |-> cell])
  /\ UNCHANGED <<tab, cell, entered, ledger, done, latest, starts>>

\* A command without a name is given one.
NameCommand(e) ==
  /\ run[e].at = "command"
  /\ IF run[e].cell.name = None
     THEN /\ cell' = [cell EXCEPT !.name = <<run[e].n, 1>>]
          /\ Goes(e, [at |-> "named", cell |-> [command |-> run[e].cell.command,
                                                name |-> <<run[e].n, 1>>]])
     ELSE Goes(e, [at |-> "named", cell |-> run[e].cell]) /\ UNCHANGED cell
  /\ UNCHANGED <<tab, entered, ledger, done, latest, starts>>

\* An error is caught and written beside the row.
PostCommand(e) ==
  /\ run[e].at = "named"
  /\ \/ /\ Carried(run[e].cell)
        /\ \E answered \in BOOLEAN :
             Goes(e, [at |-> "posted", command |-> run[e].cell.command, answered |-> answered])
     \/ /\ Goes(e, [at |-> "posted", command |-> run[e].cell.command, answered |-> FALSE])
        /\ UNCHANGED <<done, latest>>
  /\ UNCHANGED <<tab, cell, entered, ledger, starts>>

GetUsers(e) ==
  /\ run[e].at \in {"posted", "shown"}
  /\ Goes(e, [at |-> "users", view |-> [command |-> None, name |-> latest]])
  /\ UNCHANGED <<tab, cell, entered, ledger, done, latest, starts>>

WriteUsers(e) ==
  /\ run[e].at = "users"
  /\ cell' = run[e].view
  /\ Goes(e, [at |-> "payments", view |-> Shown])  \* and the next tab is fetched
  /\ UNCHANGED <<tab, entered, ledger, done, latest, starts>>

WritePayments(e) ==
  /\ run[e].at = "payments"
  /\ tab' = run[e].view
  /\ Goes(e, Idle)
  /\ UNCHANGED <<cell, entered, ledger, done, latest, starts>>

\* A request fails before the bot has done anything, or the execution is cut off.
Fails(e) ==
  /\ run[e] # Idle
  /\ Goes(e, Idle)
  /\ UNCHANGED <<tab, cell, entered, ledger, done, latest, starts>>

---------------------------------------------------------------------------
Init ==
  /\ tab = [p \in 1..Lines |-> Blank]
  /\ cell = [command |-> None, name |-> None]
  /\ entered = {} /\ ledger = {} /\ done = {} /\ latest = None
  /\ run = [e \in Runs |-> Idle] /\ starts = 0

Next ==
  \/ \E x \in Payments, p \in 1..Lines, whole \in BOOLEAN : EnterPayment(x, p, whole)
  \/ \E p \in 1..Lines : CompletePayment(p)
  \/ \E c \in Commands : EnterCommand(c)
  \/ \E e \in Runs, x \in Payments : SubmitPayment(e, x)
  \/ \E e \in Runs :
       \/ ReadPayments(e) \/ Mark(e) \/ SendPayments(e)
       \/ ReadCommand(e) \/ NameCommand(e) \/ PostCommand(e)
       \/ GetUsers(e) \/ WriteUsers(e) \/ WritePayments(e) \/ Fails(e)

Spec == Init /\ [][Next]_vars

---------------------------------------------------------------------------
TypeOK ==
  /\ tab \in Tab /\ cell \in Cell
  /\ entered \subseteq Payments \cup Commands
  /\ ledger \subseteq Result
  /\ done \subseteq [name : Names, command : Commands]
  /\ latest \in Names \cup {None}
  /\ run \in [Runs -> Run] /\ starts \in 0..MaxStarts

\* Overlapping executions, lost answers, names on wrong lines, stale tabs and
\* the panel credit a payment with a provider reference once
\* (SheetsSync.gs:151-174 and 273-290 over sheets.py:100-145).
CreditOf(x) == {r.name : r \in {s \in ledger : s.payment = x /\ s.ok}}
Promise == INSTANCE CreditOnce WITH
  Payments <- Referenced, Names <- Names,
  entered <- entered \cap Referenced, credit <- [x \in Referenced |-> CreditOf(x)]
CreditedOnce == Promise!Spec

\* A command the bot answered for was carried out: README.md:82 has the operator
\* type the action into the row of the user.
AnsweredCommandWasCarriedOut ==
  \A e \in Runs :
    run[e].at = "posted" /\ run[e].answered =>
      \E d \in done : d.command = run[e].command
=============================================================================
