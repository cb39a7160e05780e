SPECIFICATION Spec
CONSTANTS
    Invoices = {1, 2}
    Receipts = {1, 2}
    Terms = {t1, t2}
    NoTerm = none
    Dates = {1}
    Tol = 1
    CreditLimit = 250
    TermLimit = 400
    Bills <- OneBill
    Exemptions <- NoneOrStaff
    MaxPayment = 200
    MinPayment = 1
    Payments = {60, 160, 201}
SYMMETRY TermSymmetry
CONSTRAINT FewCreditRows
INVARIANTS
    TypeOK
    ReceiptNeverOverspent
    VoidedHoldsNothing
    RebuildIsSound
PROPERTIES
    ReconciledIsCoherent
    OnlyInvoiceVoidLosesMoney
CHECK_DEADLOCK FALSE
