SPECIFICATION Spec
CONSTANTS
    Invoices = {1, 2, 3}
    Receipts = {1}
    Terms = {t1, t2, t3}
    NoTerm = none
    Dates = {1}
    Tol = 1
    CreditLimit = 300
    TermLimit = 400
    Bills <- TwoBills
    Exemptions <- NoneOrStaff
    MaxPayment = 200
    MinPayment = 1
    Payments = {100}
SYMMETRY TermSymmetry
INVARIANT ReconcileIdempotent
CHECK_DEADLOCK FALSE
