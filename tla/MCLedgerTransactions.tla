------------------------ MODULE MCLedgerTransactions ------------------------
EXTENDS LedgerTransactions, TLC

\* Terms and transactions are interchangeable.
LedgerSymmetry == Permutations(Terms) \union Permutations(Requests)

\* The inputs: one bill, and besides no exemption one that is always refused.
OneBill     == {[food |-> 40, other |-> 60]}
NoneOrStaff == {NoExemption, [type |-> "StaffSibling", amount |-> 0]}

\* Credit rows the student may collect; at most one invoice and one receipt are voided; a
\* transaction is overtaken by one other, and once that has upset a row they come one after
\* the other.
OneCreditRow ==
    /\ \A c \in db.calloc : c.seq <= 1
    /\ Cardinality(db.voidedInvoices) <= 1 /\ Cardinality(db.voidedReceipts) <= 1
    /\ \/ Cardinality({q \in Requests : desk[q].kind # "idle"}) <= 1
       \/ /\ \A q \in Requests : desk[q].alone
          /\ crossed.invoices = {} /\ crossed.receipts = {}
=============================================================================
