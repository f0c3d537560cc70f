------------------------------ MODULE MCBilling ------------------------------
(***************************************************************************)
(* Instances of Billing for TLC: two invoices of one customer, one credit  *)
(* note, a payment of one invoice and one spread over both.                *)
(***************************************************************************)
EXTENDS Billing, TLC

CONSTANTS i1, i2, n1

MCNoteOf == [n \in Notes |-> i1]
MCPrice == [i \in Invoices |-> IF i = i1 THEN 1 ELSE 2]

OnePayment == [invs |-> << i1 >>, amount |-> 1]
BothInvoices == [invs |-> << i1, i2 >>, amount |-> 3]

MCCharges == {OnePayment, BothInvoices}
OneCharge == {OnePayment}
MCCredits == {[amount |-> 1, note |-> n1, inv |-> i1]}
NoCredits == {}

\* Nobody marks an invoice as paid by hand.
MCMoves ==
  {[doc |-> i1, to |-> "validated"], [doc |-> i1, to |-> "cancelled"],
   [doc |-> n1, to |-> "validated"], [doc |-> n1, to |-> "cancelled"]}
NoMoves == {}
NoNoteOf == << >>

ReqSymmetry == Permutations(Reqs)
=============================================================================
