SPECIFICATION Spec
CONSTANTS
    Invoices = {1}
    Receipts = {1}
    Terms = {t1}
    NoTerm = none
    Dates = {1}
    Tol = 1
    CreditLimit = 300
    TermLimit = 400
    Bills <- OneBill
    Exemptions <- NoneOrStaff
    MaxPayment = 200
    MinPayment = 1
    Payments = {60}
INVARIANT StoredCreditMatchesRows
CHECK_DEADLOCK FALSE
