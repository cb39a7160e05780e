--------------------------- MODULE MCReceiptDesk ---------------------------
EXTENDS ReceiptDesk, TLC

CONSTANTS
    MaxId,     \* receipts inserted, the failed ones included
    MaxTime    \* ticks of the clock

ClerkSymmetry == Permutations(Clerks)

Bounded == lastId <= MaxId /\ now <= MaxTime
=============================================================================
