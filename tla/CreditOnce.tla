----------------------------- MODULE CreditOnce -----------------------------
(***************************************************************************)
(* What the payments tab promises to the operator (START-HERE.ru.md:60-62): *)
(* a payment is entered, then credited under one identifier, once.  How     *)
(* often its row is read, sent, answered or shown does not matter.          *)
(***************************************************************************)
CONSTANTS Payments, Names

VARIABLES entered, credit

Init == entered = {} /\ credit = [p \in Payments |-> {}]

Enter == entered' \in SUBSET Payments /\ entered \subseteq entered' /\ UNCHANGED credit

\* One request may bring several payments.
Credit ==
  /\ \A p \in Payments :
       \/ credit'[p] = credit[p]
       \/ p \in entered /\ credit[p] = {} /\ \E n \in Names : credit'[p] = {n}
  /\ credit' \in [Payments -> SUBSET Names]
  /\ UNCHANGED entered

Next == Enter \/ Credit

Spec == Init /\ [][Next]_<<entered, credit>>
=============================================================================
