SPECIFICATION Spec
CONSTANTS
    Invoices = {1, 2}
    Receipts = {1}
    Terms = {t1, t2}
    NoTerm = none
    Dates = {1, 2}
    Tol = 1
    CreditLimit = 250
    TermLimit = 400
    Bills <- OneBill
    Exemptions <- AnyReduced
    MaxPayment = 200
    MinPayment = 1
    Payments = {101}
SYMMETRY TermSymmetry
CONSTRAINT OneCreditRow
INVARIANT ServicesMatchReference
CHECK_DEADLOCK FALSE
