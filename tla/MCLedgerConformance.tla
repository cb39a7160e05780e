------------------------ MODULE MCLedgerConformance ------------------------
EXTENDS LedgerConformance, MCStudentLedger
=============================================================================
