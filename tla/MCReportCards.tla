--------------------------- MODULE MCReportCards ---------------------------
EXTENDS ReportCards, TLC

CONSTANTS
    MaxMarks,      \* marks inserted
    MaxSaves       \* saves of reports

SchoolSymmetry ==
    Permutations(Requests) \union Permutations(Students)

Busy(phases) == {r \in Requests : desk[r].phase \in phases}

\* One student is in the class and has his mark.
Settled ==
    /\ Busy({"marking"}) = {}
    /\ \A m \in marks : m.id = 1 /\ m.score = 1
    /\ \E s \in Students : classList[s] = 0

\* Two enrolments.  Two sessions, or a save, of a settled class only; a mark is entered
\* while nobody drafts; announced or released after one save at most.
Bounded ==
    LET sessions == Busy({"marked", "drafted", "saving"}) IN
    /\ lastMark <= MaxMarks /\ saves + Cardinality(sessions) <= MaxSaves
    /\ MapThenSumSet(LAMBDA s : classList[s], Students) <= MaxEnrolled
    /\ Settled \/ (saves = 0 /\ Busy({"saving"}) = {} /\ Cardinality(sessions) <= 1)
    /\ Busy({"marking"}) # {} => sessions = {}
    /\ release # "none" \/ Busy({"announcing"}) # {} =>
          saves <= 1 /\ Busy({"marking", "marked"}) = {}
=============================================================================
