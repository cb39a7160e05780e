SPECIFICATION TxSpec
CONSTANTS
    q1 = q1
    q2 = q2
    Invoices = {1, 2}
    Receipts = {1, 2}
    Terms = {t1, t2}
    NoTerm = none
    Dates = {1}
    Tol = 1
    CreditLimit = 250
    TermLimit = 400
    Bills <- OneBill
    Exemptions <- NoneOrStaff
    MaxPayment = 200
    MinPayment = 1
    Payments = {160}
    Requests = {q1, q2}
SYMMETRY LedgerSymmetry
CONSTRAINT OneCreditRow
INVARIANTS
    TxTypeOK
    MoneyMisplacedOnlyByOverlap
    RebuildRepairs
PROPERTY AloneIsSerial
CHECK_DEADLOCK FALSE
