-------------------------- MODULE InvoiceProtocol --------------------------
(***************************************************************************)
(* What the recurring billing promises a customer: every cycle is closed   *)
(* once and in order, has one invoice, and that invoice is collected at    *)
(* most once, after its cycle has ended; it ends settled by the money that *)
(* was taken, or waived without any.                                       *)
(***************************************************************************)
EXTENDS Naturals

CONSTANTS
    Customers,
    Cycles,       \* numbers of the billing cycles of a customer
    Cancelling    \* customers who leave at the end of their cycle

VARIABLES
    closed,       \* cycles that a customer has completed
    bill,         \* what has become of the invoice of a cycle
    taken         \* how often money was taken for it

vars == <<closed, bill, taken>>

Invoices == Customers \X Cycles

(* A customer who leaves does not complete the cycle: it is the last one. *)
Ended(i) == i[1] \in Cancelling \/ i[2] < closed[i[1]]

Init ==
    /\ closed = [c \in Customers |-> 0]
    /\ bill = [i \in Invoices |-> "none"]
    /\ taken = [i \in Invoices |-> 0]

Close(c) ==
    /\ c \notin Cancelling
    /\ closed' = [closed EXCEPT ![c] = @ + 1]
    /\ UNCHANGED <<bill, taken>>

Issue(i) ==
    /\ bill[i] = "none"
    /\ i[2] <= closed[i[1]]
    /\ bill' = [bill EXCEPT ![i] = "due"]
    /\ UNCHANGED <<closed, taken>>

Collect(i) ==
    /\ bill[i] = "due"
    /\ taken[i] = 0
    /\ Ended(i)
    /\ taken' = [taken EXCEPT ![i] = 1]
    /\ UNCHANGED <<closed, bill>>

Settle(i) ==
    /\ bill[i] = "due"
    /\ taken[i] = 1
    /\ bill' = [bill EXCEPT ![i] = "settled"]
    /\ UNCHANGED <<closed, taken>>

(* The dunning invoices of a customer are given up together. *)
Waive(c) ==
    /\ \E I \in SUBSET ({c} \X Cycles) :
        /\ \A i \in I : bill[i] = "due" /\ taken[i] = 0
        /\ bill' = [i \in Invoices |-> IF i \in I THEN "waived" ELSE bill[i]]
    /\ UNCHANGED <<closed, taken>>

Next ==
    \/ \E c \in Customers : Close(c) \/ Waive(c)
    \/ \E i \in Invoices : Issue(i) \/ Collect(i) \/ Settle(i)

Spec == Init /\ [][Next]_vars
=============================================================================
