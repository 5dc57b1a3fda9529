----------------------------- MODULE MCInvoicing -----------------------------
(* Model-checking instances of Invoicing; handlers, invoices and payments  *)
(* are interchangeable.                                                    *)
EXTENDS Invoicing, TLC

Symmetry ==
  Permutations(Requests) \cup Permutations(Invoices) \cup Permutations(Payments)
=============================================================================
