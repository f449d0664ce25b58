-------------------------- MODULE MCInvoiceBilling --------------------------
(* Instances of InvoiceBilling: the schedule of the code, and a short one.  *)
EXTENDS InvoiceBilling, TLC

TheSchedule == <<1, 3, 7>>
OneRetry == <<1>>
Alike == Permutations(Jobs)
=============================================================================
