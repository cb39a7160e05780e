-------------------------- MODULE MCStudentLedger --------------------------
EXTENDS StudentLedger, TLC

\* Terms are interchangeable: no definition orders or names one.
TermSymmetry == Permutations(Terms)

\* The inputs: a bill of 100 with a food fee, and one of 20; no exemption, one of 40 per
\* cent, and a staff sibling's, which is always refused.
OneBill  == {[food |-> 40, other |-> 60]}
TwoBills == OneBill \union {[food |-> 0, other |-> 20]}

Staff       == [type |-> "StaffSibling", amount |-> 0]
NoneOrStaff == {NoExemption, Staff}
AnyReduced  == NoneOrStaff \union {[type |-> "Percentage", amount |-> 40]}

\* Bound: credit rows a student may collect; an exemption refresh followed by an edit
\* adds one every time.
FewCreditRows == \A c \in db.calloc : c.seq <= 2
OneCreditRow  == \A c \in db.calloc : c.seq <= 1
=============================================================================
