-------------------------- MODULE SheetScriptProofs --------------------------
(***************************************************************************)
(* For any number of payments, executions and lines: the variables of the   *)
(* sheet script keep their types, and SheetScript implements CreditOnce.    *)
(***************************************************************************)
EXTENDS SheetScript, FiniteSetTheorems, TLAPS

\* Whatever is on the tab, in an execution or in the ledger has been entered.
TabEntered(lines) == \A p \in 1..Lines : lines[p].payment \in entered \cup {None}

RunEntered ==
  \A e \in Runs :
    /\ run[e].at \in {"read", "marked", "panel"} => TabEntered(run[e].lines)
    /\ run[e].at = "payments" => TabEntered(run[e].view)

AllEntered ==
  /\ TabEntered(tab) /\ RunEntered
  /\ \A r \in ledger : r.payment \in entered

ScriptInv == TypeOK /\ IsFiniteSet(ledger) /\ AllEntered

---------------------------------------------------------------------------
(* The operators of the script and of the bot.                             *)

LEMMA BlankTyped == Blank \in Line
  BY DEF Blank, Line

LEMMA NamedTyped ==
  ASSUME NEW n \in 1..MaxStarts, NEW lines \in Tab
  PROVE  Named(n, lines) \in Tab
<1>1. \A p \in 1..Lines : <<n, p>> \in Names
  BY DEF Names
<1> QED BY <1>1 DEF Named, Tab, Line

LEMMA StoredTyped ==
  ASSUME ledger \subseteq Result, IsFiniteSet(ledger), NEW lines \in Tab
  PROVE  Stored(lines) \subseteq Result /\ IsFiniteSet(Stored(lines))
<1> DEFINE Before(p) == {q \in New(lines) : q <= p}
           Entry(p) == [name |-> lines[p].name, payment |-> lines[p].payment,
                        ok |-> lines[p].whole,
                        no |-> Cardinality(ledger) + Cardinality(Before(p))]
           Entries == {Entry(p) : p \in New(lines)}
           Map == [p \in New(lines) |-> Entry(p)]
<1>1. IsFiniteSet(1..Lines)
  BY BoundAssumption, FS_Interval
<1>2. New(lines) \subseteq 1..Lines
  BY DEF New, Sent
<1>3. IsFiniteSet(New(lines))
  BY <1>1, <1>2, FS_Subset
<1>4. \A p : Before(p) \subseteq New(lines)
  OBVIOUS
<1>5. \A p : Cardinality(Before(p)) \in Nat
  BY <1>3, <1>4, FS_Subset, FS_CardinalityType
<1>6. Cardinality(ledger) \in Nat
  BY FS_CardinalityType
<1>7. Entries \subseteq Result
  <2> SUFFICES ASSUME NEW p \in New(lines) PROVE Entry(p) \in Result
    OBVIOUS
  <2>1. lines[p] \in Line /\ lines[p].payment # None /\ lines[p].name # None
    BY <1>2 DEF New, Sent, Tab
  <2>2. lines[p].payment \in Payments /\ lines[p].name \in Names /\ lines[p].whole \in BOOLEAN
    BY <2>1 DEF Line
  <2>3. Cardinality(ledger) + Cardinality(Before(p)) \in Nat
    BY <1>5, <1>6
  <2> QED BY <2>2, <2>3 DEF Result
<1>8. IsFiniteSet(Entries)
  <2>1. Map \in Surjection(New(lines), Entries)
    BY DEF Surjection
  <2> QED BY <1>3, <2>1, FS_Surjection DEF ExistsSurjection
<1>9. Stored(lines) = ledger \cup Entries
  BY DEF Stored
<1> QED BY <1>7, <1>8, <1>9, FS_Union

LEMMA StoredFrom ==
  ASSUME NEW lines
  PROVE  \A r \in Stored(lines) :
           r \in ledger \/ \E p \in New(lines) : r.payment = lines[p].payment
<1> DEFINE Entry(p) == [name |-> lines[p].name, payment |-> lines[p].payment,
                        ok |-> lines[p].whole,
                        no |-> Cardinality(ledger) + Cardinality({q \in New(lines) : q <= p})]
<1>1. Stored(lines) = ledger \cup {Entry(p) : p \in New(lines)}
  BY DEF Stored
<1>2. \A p : Entry(p).payment = lines[p].payment
  OBVIOUS
<1> HIDE DEF Entry
<1> QED BY <1>1, <1>2

LEMMA ShownTyped ==
  ASSUME ledger \subseteq Result
  PROVE  Shown \in Tab
<1> SUFFICES ASSUME NEW p \in 1..Lines PROVE Shown[p] \in Line
  BY DEF Shown, Tab
<1>1. CASE \E r \in ledger : r.no = p
  <2> DEFINE r == CHOOSE r \in ledger : r.no = p
  <2>1. r \in ledger
    BY <1>1
  <2>2. r.name \in Names /\ r.payment \in Payments /\ r.ok \in BOOLEAN
    BY <2>1 DEF Result
  <2>3. Shown[p] = [payment |-> r.payment, whole |-> r.ok, name |-> r.name]
    BY <1>1 DEF Shown
  <2> QED BY <2>2, <2>3 DEF Line
<1>2. CASE ~\E r \in ledger : r.no = p
  BY <1>2, BlankTyped DEF Shown
<1> QED BY <1>1, <1>2

---------------------------------------------------------------------------
(* The invariant.                                                          *)

LEMMA InitInv == Init => ScriptInv
<1> SUFFICES ASSUME Init PROVE ScriptInv
  OBVIOUS
<1>1. TypeOK
  BY BlankTyped, BoundAssumption DEF Init, TypeOK, Tab, Cell, Run, Idle
<1>2. IsFiniteSet(ledger)
  BY FS_EmptySet DEF Init
<1>3. AllEntered
  BY DEF Init, AllEntered, TabEntered, RunEntered, Blank, Idle
<1> QED BY <1>1, <1>2, <1>3 DEF ScriptInv

\* An execution that takes a step without touching the ledger.
LEMMA GoesTyped ==
  ASSUME TypeOK, NEW e \in Runs, NEW next \in Run, Goes(e, next)
  PROVE  run' \in [Runs -> Run]
BY DEF TypeOK, Goes

LEMMA StepTyped ==
  ASSUME ScriptInv, [Next]_vars
  PROVE  TypeOK' /\ IsFiniteSet(ledger)'
<1> USE DEF ScriptInv
<1>1. ASSUME NEW x \in Payments, NEW p \in 1..Lines, NEW whole \in BOOLEAN,
             EnterPayment(x, p, whole)
      PROVE  TypeOK' /\ IsFiniteSet(ledger)'
  BY <1>1 DEF EnterPayment, TypeOK, Tab, Line
<1>2. ASSUME NEW p \in 1..Lines, CompletePayment(p)
      PROVE  TypeOK' /\ IsFiniteSet(ledger)'
  BY <1>2 DEF CompletePayment, TypeOK, Tab, Line
<1>3. ASSUME NEW c \in Commands, EnterCommand(c)
      PROVE  TypeOK' /\ IsFiniteSet(ledger)'
  BY <1>3 DEF EnterCommand, TypeOK, Cell
<1>4. ASSUME NEW e \in Runs, NEW x \in Payments, SubmitPayment(e, x)
      PROVE  TypeOK' /\ IsFiniteSet(ledger)'
  <2> DEFINE lines == [p \in 1..Lines |->
                IF p = 1 THEN [payment |-> x, whole |-> TRUE, name |-> <<starts + 1, 1>>]
                         ELSE Blank]
  <2>1. starts + 1 \in 1..MaxStarts /\ 1 \in 1..Lines
    BY <1>4, BoundAssumption DEF SubmitPayment, TypeOK
  <2>2. <<starts + 1, 1>> \in Names
    BY <2>1 DEF Names
  <2>3. lines \in Tab
    BY <2>2, BlankTyped DEF Tab, Line
  <2>4. [at |-> "panel", lines |-> lines] \in Run
    BY <2>3 DEF Run
  <2>5. run' \in [Runs -> Run]
    BY <1>4, <2>4, GoesTyped DEF SubmitPayment
  <2> QED BY <1>4, <2>1, <2>5 DEF SubmitPayment, TypeOK
<1>5. ASSUME NEW e \in Runs, ReadPayments(e)
      PROVE  TypeOK' /\ IsFiniteSet(ledger)'
  <2>1. starts + 1 \in 1..MaxStarts
    BY <1>5, BoundAssumption DEF ReadPayments, TypeOK
  <2>2. [at |-> "read", n |-> starts + 1, lines |-> tab] \in Run
    BY <2>1 DEF Run, TypeOK
  <2>3. run' \in [Runs -> Run]
    BY <1>5, <2>2, GoesTyped DEF ReadPayments
  <2> QED BY <1>5, <2>1, <2>3 DEF ReadPayments, TypeOK
<1>6. ASSUME NEW e \in Runs, Mark(e)
      PROVE  TypeOK' /\ IsFiniteSet(ledger)'
  <2>1. run[e] \in Run /\ run[e].at = "read"
    BY <1>6 DEF Mark, TypeOK
  <2>2. run[e].n \in 1..MaxStarts /\ run[e].lines \in Tab
    BY <2>1 DEF Run, Idle
  <2>3. [at |-> "marked", n |-> run[e].n, lines |-> Named(run[e].n, run[e].lines)] \in Run
    BY <2>2, NamedTyped DEF Run
  <2>4. run' \in [Runs -> Run]
    BY <1>6, <2>3, GoesTyped DEF Mark
  <2>5. \A p \in 1..Lines : <<run[e].n, p>> \in Names
    BY <2>2 DEF Names
  <2>6. tab' \in Tab
    BY <1>6, <2>5 DEF Mark, Tab, Line, TypeOK
  <2> QED BY <1>6, <2>4, <2>6 DEF Mark, TypeOK
<1>7. ASSUME NEW e \in Runs, SendPayments(e)
      PROVE  TypeOK' /\ IsFiniteSet(ledger)'
  <2>1. run[e] \in Run /\ run[e].at \in {"marked", "panel"}
    BY <1>7 DEF SendPayments, TypeOK
  <2>2. run[e].lines \in Tab /\ (run[e].at = "marked" => run[e].n \in 1..MaxStarts)
    BY <2>1 DEF Run, Idle
  <2>3. ledger' \subseteq Result /\ IsFiniteSet(ledger')
    BY <1>7, <2>2, StoredTyped DEF SendPayments, TypeOK
  <2>4. /\ Idle \in Run /\ [at |-> "shown"] \in Run
        /\ run[e].at # "panel" => [at |-> "sent", n |-> run[e].n] \in Run
    BY <2>1, <2>2 DEF Run, Idle
  <2>5. run' \in [Runs -> Run]
    BY <1>7, <2>4, GoesTyped DEF SendPayments
  <2> QED BY <1>7, <2>3, <2>5 DEF SendPayments, TypeOK
<1>8. ASSUME NEW e \in Runs, ReadCommand(e)
      PROVE  TypeOK' /\ IsFiniteSet(ledger)'
  <2>1. run[e] \in Run /\ run[e].at = "sent"
    BY <1>8 DEF ReadCommand, TypeOK
  <2>2. run[e].n \in 1..MaxStarts
    BY <2>1 DEF Run, Idle
  <2>3. /\ [at |-> "shown"] \in Run
        /\ cell.command # None => [at |-> "command", n |-> run[e].n, cell |-> cell] \in Run
    BY <2>2 DEF Run, Cell, TypeOK
  <2>4. run' \in [Runs -> Run]
    BY <1>8, <2>3, GoesTyped DEF ReadCommand
  <2> QED BY <1>8, <2>4 DEF ReadCommand, TypeOK
<1>9. ASSUME NEW e \in Runs, NameCommand(e)
      PROVE  TypeOK' /\ IsFiniteSet(ledger)'
  <2>1. run[e] \in Run /\ run[e].at = "command"
    BY <1>9 DEF NameCommand, TypeOK
  <2>2. /\ run[e].n \in 1..MaxStarts
        /\ run[e].cell \in [command : Commands, name : Names \cup {None}]
    BY <2>1 DEF Run, Idle
  <2>3. <<run[e].n, 1>> \in Names
    BY <2>2, BoundAssumption DEF Names
  <2>4. cell' \in Cell /\ run' \in [Runs -> Run]
    <3>1. CASE run[e].cell.name = None
      <4>1. run[e].cell.command \in Commands
        BY <2>2
      <4>2. [at |-> "named", cell |-> [command |-> run[e].cell.command,
                                       name |-> <<run[e].n, 1>>]] \in Run
        BY <4>1, <2>3 DEF Run
      <4>3. run' \in [Runs -> Run]
        BY <1>9, <3>1, <4>2, GoesTyped DEF NameCommand
      <4> QED BY <1>9, <3>1, <2>3, <4>3 DEF NameCommand, TypeOK, Cell
    <3>2. CASE run[e].cell.name # None
      <4>1. [at |-> "named", cell |-> run[e].cell] \in Run
        BY <2>2, <3>2 DEF Run
      <4>2. run' \in [Runs -> Run]
        BY <1>9, <3>2, <4>1, GoesTyped DEF NameCommand
      <4> QED BY <1>9, <3>2, <4>2 DEF NameCommand, TypeOK
    <3> QED BY <3>1, <3>2
  <2> QED BY <1>9, <2>4 DEF NameCommand, TypeOK
<1>10. ASSUME NEW e \in Runs, PostCommand(e)
       PROVE  TypeOK' /\ IsFiniteSet(ledger)'
  <2>1. run[e] \in Run /\ run[e].at = "named"
    BY <1>10 DEF PostCommand, TypeOK
  <2>2. run[e].cell \in [command : Commands, name : Names]
    BY <2>1 DEF Run, Idle
  <2>3. \A b \in BOOLEAN :
          [at |-> "posted", command |-> run[e].cell.command, answered |-> b] \in Run
    BY <2>2 DEF Run
  <2>4. run' \in [Runs -> Run]
    BY <1>10, <2>3, GoesTyped DEF PostCommand
  <2>5. done' \subseteq [name : Names, command : Commands] /\ latest' \in Names \cup {None}
    BY <1>10, <2>2 DEF PostCommand, Carried, TypeOK
  <2> QED BY <1>10, <2>4, <2>5 DEF PostCommand, TypeOK
<1>11. ASSUME NEW e \in Runs, GetUsers(e)
       PROVE  TypeOK' /\ IsFiniteSet(ledger)'
  <2>1. [at |-> "users", view |-> [command |-> None, name |-> latest]] \in Run
    BY DEF Run, Cell, TypeOK
  <2>2. run' \in [Runs -> Run]
    BY <1>11, <2>1, GoesTyped DEF GetUsers
  <2> QED BY <1>11, <2>2 DEF GetUsers, TypeOK
<1>12. ASSUME NEW e \in Runs, WriteUsers(e)
       PROVE  TypeOK' /\ IsFiniteSet(ledger)'
  <2>1. run[e] \in Run /\ run[e].at = "users"
    BY <1>12 DEF WriteUsers, TypeOK
  <2>2. run[e].view \in Cell
    BY <2>1 DEF Run, Idle
  <2>3. [at |-> "payments", view |-> Shown] \in Run
    BY ShownTyped DEF Run, TypeOK
  <2>4. run' \in [Runs -> Run]
    BY <1>12, <2>3, GoesTyped DEF WriteUsers
  <2> QED BY <1>12, <2>2, <2>4 DEF WriteUsers, TypeOK
<1>13. ASSUME NEW e \in Runs, WritePayments(e)
       PROVE  TypeOK' /\ IsFiniteSet(ledger)'
  <2>1. run[e] \in Run /\ run[e].at = "payments"
    BY <1>13 DEF WritePayments, TypeOK
  <2>2. run[e].view \in Tab /\ Idle \in Run
    BY <2>1 DEF Run, Idle
  <2>3. run' \in [Runs -> Run]
    BY <1>13, <2>2, GoesTyped DEF WritePayments
  <2> QED BY <1>13, <2>2, <2>3 DEF WritePayments, TypeOK
<1>14. ASSUME NEW e \in Runs, Fails(e)
       PROVE  TypeOK' /\ IsFiniteSet(ledger)'
  <2>1. run' \in [Runs -> Run]
    BY <1>14, GoesTyped DEF Fails, Run
  <2> QED BY <1>14, <2>1 DEF Fails, TypeOK
<1>15. CASE UNCHANGED vars
  BY <1>15 DEF vars, TypeOK
<1> QED BY <1>1, <1>2, <1>3, <1>4, <1>5, <1>6, <1>7, <1>8, <1>9, <1>10, <1>11,
           <1>12, <1>13, <1>14, <1>15 DEF Next

---------------------------------------------------------------------------
(* What is around has been entered.                                        *)

LEMMA ShownEntered ==
  ASSUME \A r \in ledger : r.payment \in entered
  PROVE  TabEntered(Shown)
<1> SUFFICES ASSUME NEW p \in 1..Lines PROVE Shown[p].payment \in entered \cup {None}
  BY DEF TabEntered
<1>1. CASE \E r \in ledger : r.no = p
  <2> DEFINE r == CHOOSE r \in ledger : r.no = p
  <2>1. r \in ledger
    BY <1>1
  <2>2. Shown[p].payment = r.payment
    BY <1>1 DEF Shown
  <2> QED BY <2>1, <2>2
<1>2. CASE ~\E r \in ledger : r.no = p
  BY <1>2 DEF Shown, Blank
<1> QED BY <1>1, <1>2

\* An execution goes on with a tab on which everything has been entered.
LEMMA GoesEntered ==
  ASSUME TypeOK, RunEntered, NEW e \in Runs, NEW next, Goes(e, next),
         entered \subseteq entered',
         next.at \in {"read", "marked", "panel"} =>
           \A p \in 1..Lines : next.lines[p].payment \in entered' \cup {None},
         next.at = "payments" =>
           \A p \in 1..Lines : next.view[p].payment \in entered' \cup {None}
  PROVE  RunEntered'
<1> SUFFICES ASSUME NEW f \in Runs
             PROVE  /\ run'[f].at \in {"read", "marked", "panel"} =>
                         \A p \in 1..Lines : run'[f].lines[p].payment \in entered' \cup {None}
                    /\ run'[f].at = "payments" =>
                         \A p \in 1..Lines : run'[f].view[p].payment \in entered' \cup {None}
  BY DEF RunEntered, TabEntered
<1>1. CASE f = e
  <2>1. run'[f] = next
    BY <1>1 DEF Goes, TypeOK
  <2> QED BY <2>1
<1>2. CASE f # e
  <2>1. run'[f] = run[f]
    BY <1>2 DEF Goes, TypeOK
  <2> QED BY <2>1 DEF RunEntered, TabEntered
<1> QED BY <1>1, <1>2

LEMMA StepEntered ==
  ASSUME ScriptInv, [Next]_vars
  PROVE  AllEntered'
<1> USE DEF ScriptInv
<1>0. TabEntered(tab) /\ RunEntered /\ \A r \in ledger : r.payment \in entered
  BY DEF AllEntered
<1>1. ASSUME NEW x \in Payments, NEW p \in 1..Lines, NEW whole \in BOOLEAN,
             EnterPayment(x, p, whole)
      PROVE  AllEntered'
  BY <1>0, <1>1 DEF EnterPayment, AllEntered, TabEntered, RunEntered, TypeOK, Tab
<1>2. ASSUME NEW p \in 1..Lines, CompletePayment(p)
      PROVE  AllEntered'
  BY <1>0, <1>2 DEF CompletePayment, AllEntered, TabEntered, RunEntered, TypeOK, Tab, Line
<1>3. ASSUME NEW c \in Commands, EnterCommand(c)
      PROVE  AllEntered'
  BY <1>0, <1>3 DEF EnterCommand, AllEntered, TabEntered, RunEntered
<1>4. ASSUME NEW e \in Runs, NEW x \in Payments, SubmitPayment(e, x)
      PROVE  AllEntered'
  <2> DEFINE lines == [p \in 1..Lines |->
                IF p = 1 THEN [payment |-> x, whole |-> TRUE, name |-> <<starts + 1, 1>>]
                         ELSE Blank]
  <2>1. entered' = entered \cup {x} /\ Goes(e, [at |-> "panel", lines |-> lines])
    BY <1>4 DEF SubmitPayment
  <2>2. \A p \in 1..Lines : lines[p].payment \in entered' \cup {None}
    BY <2>1 DEF Blank
  <2>3. RunEntered'
    <3> HIDE DEF lines
    <3> QED BY <1>0, <2>1, <2>2, GoesEntered
  <2>4. tab' = tab /\ ledger' = ledger
    BY <1>4 DEF SubmitPayment
  <2> QED BY <1>0, <2>1, <2>3, <2>4 DEF AllEntered, TabEntered
<1>5. ASSUME NEW e \in Runs, ReadPayments(e)
      PROVE  AllEntered'
  <2>1. RunEntered'
    BY <1>0, <1>5, GoesEntered DEF ReadPayments, TabEntered
  <2> QED BY <1>0, <1>5, <2>1 DEF ReadPayments, AllEntered, TabEntered
<1>6. ASSUME NEW e \in Runs, Mark(e)
      PROVE  AllEntered'
  <2> DEFINE lines == run[e].lines
             next == [at |-> "marked", n |-> run[e].n, lines |-> Named(run[e].n, lines)]
  <2>1. run[e] \in Run /\ run[e].at = "read"
    BY <1>6 DEF Mark, TypeOK
  <2>2. lines \in Tab /\ TabEntered(lines)
    BY <1>0, <2>1 DEF Run, Idle, RunEntered
  <2>3. \A p \in 1..Lines : Named(run[e].n, lines)[p].payment = lines[p].payment
    BY <2>2 DEF Named, Tab, Line
  <2>4. Goes(e, next) /\ entered' = entered /\ ledger' = ledger
    BY <1>6 DEF Mark
  <2>5. \A p \in 1..Lines : next.lines[p].payment \in entered' \cup {None}
    BY <2>2, <2>3, <2>4 DEF TabEntered
  <2>6. RunEntered'
    <3>1. next.at = "marked"
      OBVIOUS
    <3> HIDE DEF next
    <3> QED BY <1>0, <2>4, <2>5, <3>1, GoesEntered
  <2>7. \A p \in 1..Lines : tab'[p].payment = tab[p].payment
    BY <1>6 DEF Mark, TypeOK, Tab, Line
  <2> QED BY <1>0, <2>4, <2>6, <2>7 DEF AllEntered, TabEntered
<1>7. ASSUME NEW e \in Runs, SendPayments(e)
      PROVE  AllEntered'
  <2>1. TabEntered(run[e].lines)
    BY <1>0, <1>7 DEF SendPayments, RunEntered
  <2>2. \A p \in New(run[e].lines) : run[e].lines[p].payment \in entered
    BY <2>1 DEF New, Sent, TabEntered
  <2>3. \A r \in ledger' : r.payment \in entered'
    <3>1. ledger' = Stored(run[e].lines) /\ entered' = entered
      BY <1>7 DEF SendPayments
    <3>2. \A r \in Stored(run[e].lines) :
            r \in ledger \/ \E p \in New(run[e].lines) : r.payment = run[e].lines[p].payment
      BY StoredFrom
    <3> QED BY <1>0, <2>2, <3>1, <3>2
  <2>4. RunEntered'
    BY <1>0, <1>7, GoesEntered DEF SendPayments, Idle
  <2> QED BY <1>0, <1>7, <2>3, <2>4 DEF SendPayments, AllEntered, TabEntered
<1>8. ASSUME NEW e \in Runs,
             ReadCommand(e) \/ NameCommand(e) \/ PostCommand(e) \/ GetUsers(e) \/ Fails(e)
      PROVE  AllEntered'
  <2>1. tab' = tab /\ entered' = entered /\ ledger' = ledger
    BY <1>8 DEF ReadCommand, NameCommand, PostCommand, GetUsers, Fails
  <2>2. \E next : /\ Goes(e, next)
                  /\ next.at \in {"idle", "shown", "command", "named", "posted", "users"}
    <3>1. CASE ReadCommand(e)
      BY <3>1 DEF ReadCommand
    <3>2. CASE NameCommand(e)
      BY <3>2 DEF NameCommand
    <3>3. CASE PostCommand(e)
      <4>1. PICK b \in BOOLEAN :
              Goes(e, [at |-> "posted", command |-> run[e].cell.command, answered |-> b])
        BY <3>3 DEF PostCommand
      <4>2. [at |-> "posted", command |-> run[e].cell.command, answered |-> b].at = "posted"
        OBVIOUS
      <4> QED BY <4>1, <4>2
    <3>4. CASE GetUsers(e) \/ Fails(e)
      BY <3>4 DEF GetUsers, Fails, Idle
    <3> QED BY <1>8, <3>1, <3>2, <3>3, <3>4
  <2>3. RunEntered'
    BY <1>0, <2>1, <2>2, GoesEntered
  <2> QED BY <1>0, <2>1, <2>3 DEF AllEntered, TabEntered
<1>9. ASSUME NEW e \in Runs, WriteUsers(e)
      PROVE  AllEntered'
  <2>1. TabEntered(Shown)
    BY <1>0, ShownEntered
  <2>2. tab' = tab /\ entered' = entered /\ ledger' = ledger
        /\ Goes(e, [at |-> "payments", view |-> Shown])
    BY <1>9 DEF WriteUsers
  <2>3. RunEntered'
    BY <1>0, <2>1, <2>2, GoesEntered DEF TabEntered
  <2> QED BY <1>0, <2>2, <2>3 DEF AllEntered, TabEntered
<1>10. ASSUME NEW e \in Runs, WritePayments(e)
       PROVE  AllEntered'
  <2>1. TabEntered(run[e].view)
    BY <1>0, <1>10 DEF WritePayments, RunEntered
  <2>2. RunEntered'
    BY <1>0, <1>10, GoesEntered DEF WritePayments, Idle
  <2> QED BY <1>0, <1>10, <2>1, <2>2 DEF WritePayments, AllEntered, TabEntered
<1>11. CASE UNCHANGED vars
  BY <1>0, <1>11 DEF vars, AllEntered, TabEntered, RunEntered
<1> QED BY <1>1, <1>2, <1>3, <1>4, <1>5, <1>6, <1>7, <1>8, <1>9, <1>10, <1>11 DEF Next

---------------------------------------------------------------------------
(* A payment with a provider reference is stored once.                     *)

LEMMA StoredOnce ==
  ASSUME NEW lines \in Tab, NEW x \in Referenced, TabEntered(lines), ledger' = Stored(lines)
  PROVE  \/ CreditOf(x)' = CreditOf(x)
         \/ x \in entered /\ CreditOf(x) = {} /\ \E n \in Names : CreditOf(x)' = {n}
<1> DEFINE Entry(p) == [name |-> lines[p].name, payment |-> lines[p].payment,
                        ok |-> lines[p].whole,
                        no |-> Cardinality(ledger) + Cardinality({q \in New(lines) : q <= p})]
<1>1. ledger' = ledger \cup {Entry(p) : p \in New(lines)}
  BY DEF Stored
<1>2. CreditOf(x)' = CreditOf(x) \cup {lines[p].name : p \in {q \in New(lines) :
                                          lines[q].payment = x /\ lines[q].whole}}
  <2>1. \A p : /\ Entry(p).name = lines[p].name /\ Entry(p).ok = lines[p].whole
               /\ Entry(p).payment = lines[p].payment
    OBVIOUS
  <2> HIDE DEF Entry
  <2> QED BY <1>1, <2>1 DEF CreditOf
<1>3. CASE \E r \in ledger : r.payment = x
  <2>1. \A p \in New(lines) : lines[p].payment # x
    BY <1>3 DEF New, Same
  <2> QED BY <1>2, <2>1
<1>4. CASE ~\E p \in New(lines) : lines[p].payment = x /\ lines[p].whole
  BY <1>2, <1>4
<1>5. CASE /\ ~\E r \in ledger : r.payment = x
           /\ \E p \in New(lines) : lines[p].payment = x /\ lines[p].whole
  <2>1. CreditOf(x) = {}
    BY <1>5 DEF CreditOf
  <2>2. PICK p \in New(lines) : lines[p].payment = x /\ lines[p].whole
    BY <1>5
  <2>3. \A q \in New(lines) : q \in 1..Lines /\ q \in Sent(lines)
    BY DEF New, Sent
  <2>4. \A q \in New(lines) : lines[q].payment = x => ~(q < p) /\ ~(p < q)
    BY <2>2, <2>3 DEF New, Same
  <2>5. \A q \in New(lines) : lines[q].payment = x => q = p
    BY <2>2, <2>3, <2>4
  <2>6. CreditOf(x)' = {lines[p].name}
    BY <1>2, <2>1, <2>2, <2>5
  <2>7. lines[p].name \in Names /\ x \in entered
    BY <2>2, <2>3 DEF Sent, Tab, Line, TabEntered
  <2> QED BY <2>1, <2>6, <2>7
<1> QED BY <1>3, <1>4, <1>5

\* Nothing but a request of the script adds to the ledger.
LEMMA StepCredits ==
  ASSUME ScriptInv, [Next]_vars
  PROVE  \/ /\ ledger' = ledger /\ entered \subseteq entered'
         \/ \E lines \in Tab : /\ TabEntered(lines) /\ ledger' = Stored(lines)
                             /\ entered' = entered
<1>1. CASE \E x \in Payments, p \in 1..Lines, whole \in BOOLEAN : EnterPayment(x, p, whole)
  BY <1>1 DEF EnterPayment
<1>2. CASE \/ \E p \in 1..Lines : CompletePayment(p)
           \/ \E c \in Commands : EnterCommand(c)
           \/ \E e \in Runs, x \in Payments : SubmitPayment(e, x)
  BY <1>2 DEF CompletePayment, EnterCommand, SubmitPayment
<1>3. ASSUME NEW e \in Runs, SendPayments(e)
      PROVE  \E lines \in Tab : /\ TabEntered(lines) /\ ledger' = Stored(lines)
                               /\ entered' = entered
  <2>1. run[e] \in Run /\ run[e].at \in {"marked", "panel"}
    BY <1>3 DEF SendPayments, ScriptInv, TypeOK
  <2>2. run[e].lines \in Tab /\ TabEntered(run[e].lines)
    BY <2>1 DEF ScriptInv, AllEntered, RunEntered, Run, Idle
  <2> QED BY <1>3, <2>2 DEF SendPayments
<1>4. ASSUME NEW e \in Runs,
             \/ ReadPayments(e) \/ Mark(e) \/ ReadCommand(e) \/ NameCommand(e) \/ PostCommand(e)
             \/ GetUsers(e) \/ WriteUsers(e) \/ WritePayments(e) \/ Fails(e)
      PROVE  ledger' = ledger /\ entered' = entered
  BY <1>4 DEF ReadPayments, Mark, ReadCommand, NameCommand, PostCommand, GetUsers, WriteUsers,
              WritePayments, Fails
<1>5. CASE UNCHANGED vars
  BY <1>5 DEF vars
<1> QED BY <1>1, <1>2, <1>3, <1>4, <1>5 DEF Next

---------------------------------------------------------------------------
(* The theorems.                                                           *)

\* The tab, the requests and the stored results hold only what was typed, under
\* names the script made (SheetsSync.gs, sheets.py:100-145).
THEOREM ScriptInvariant == Spec => []ScriptInv
<1>1. ScriptInv /\ [Next]_vars => ScriptInv'
  BY StepTyped, StepEntered DEF ScriptInv
<1> QED BY InitInv, <1>1, PTL DEF Spec

\* TypeOK of the run, for every number of payments, lines and executions.
THEOREM ScriptTypeOK == Spec => []TypeOK
<1>1. ScriptInv => TypeOK
  BY DEF ScriptInv
<1> QED BY <1>1, ScriptInvariant, PTL

\* SheetScript implements CreditOnce: however executions overlap, answers are
\* lost and lines move, a payment with a provider reference that was entered is
\* credited under one name, once (SheetsSync.gs:151-174 over sheets.py:100-145).
THEOREM ScriptCreditsOnce == Spec => CreditedOnce
<1> DEFINE typed == entered \cap Referenced
           credit == [x \in Referenced |-> CreditOf(x)]
<1>1. Init => Promise!Init
  BY DEF Init, Promise!Init, CreditOf
<1>2. ScriptInv /\ [Next]_vars => [Promise!Next]_<<typed, credit>>
  <2> SUFFICES ASSUME ScriptInv, [Next]_vars
               PROVE  Promise!Next
    OBVIOUS
  <2>1. CASE ledger' = ledger /\ entered \subseteq entered'
    <3>1. credit' = credit
      BY <2>1 DEF CreditOf
    <3> QED BY <2>1, <3>1 DEF Promise!Next, Promise!Enter
  <2>2. ASSUME NEW lines \in Tab, TabEntered(lines), ledger' = Stored(lines), entered' = entered
        PROVE  Promise!Next
    <3>1. ledger' \subseteq Result
      BY <2>2, StoredTyped DEF ScriptInv, TypeOK
    <3>2. credit' \in [Referenced -> SUBSET Names]
      BY <3>1 DEF CreditOf, Result
    <3>3. \A x \in Referenced :
            \/ credit'[x] = credit[x]
            \/ x \in typed /\ credit[x] = {} /\ \E n \in Names : credit'[x] = {n}
      BY <2>2, StoredOnce
    <3> QED BY <2>2, <3>2, <3>3 DEF Promise!Next, Promise!Credit
  <2> QED BY <2>1, <2>2, StepCredits
<1> QED BY <1>1, <1>2, ScriptInvariant, PTL DEF Spec, CreditedOnce, Promise!Spec
=============================================================================
