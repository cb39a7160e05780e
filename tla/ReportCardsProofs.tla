------------------------- MODULE ReportCardsProofs -------------------------
(***************************************************************************)
(* Marks and report cards for any number of requests, students, subjects   *)
(* and enrolments.  The invariant has a part on types and ids, and one for *)
(* each thing a request knows between two of its queries.                  *)
(***************************************************************************)
EXTENDS ReportCards, SetLemmas

\* The cards of a request have places by the averages of the marks it has read.
Placed(d) ==
    d.marks # {} =>
        \A c, e \in d.cards : Higher(d.marks, c.student, e.student) => c.place < e.place

\* What a request holds, ids and counts being those issued so far.
DeskType(d, n, k, v) ==
    /\ d \in DeskRecords
    /\ d.phase = "marking" => d.mark \in MarkRecords
    /\ d.mark.seen <= n
    /\ d.rows \union d.shown \subseteq 1..k
    /\ IsFiniteSet(d.cards)
    /\ \A c, e \in d.cards : c.place = e.place => c = e
    /\ \A c \in d.cards : c.seen <= k
    /\ d.viewed <= v
    /\ IsFiniteSet(d.marks) /\ Placed(d)

TInv ==
    /\ TypeOK
    /\ \A r \in Requests : DeskType(desk[r], lastMark, lastReport, saves)
    /\ \A m \in marks : m.seen <= lastMark

\* A mark about to be inserted is the first, but for those its search came too early for.
MarkDesk(d) ==
    d.phase = "marking" /\ d.mark.id = 0 =>
        \A a \in marks : a.student = d.mark.student /\ a.subject = d.mark.subject
                            => a.id > d.mark.seen

\* So is a card about to be inserted; and every row about to be rewritten has a card.
CardDesk(d) ==
    d.phase = "saving" =>
        /\ \A c \in d.cards : \A a \in reports :
              a.student = c.student =>
                  \/ a.id > c.seen
                  \/ \E b \in reports : b.id \in d.rows /\ b.student = c.student
        /\ \A a \in reports : a.id \in d.rows => \E c \in d.cards : c.student = a.student

Only(a) == \A b \in reports : b.student = a.student => b.id = a.id

\* A card has the stored note, unless one was written on it, or stored since.
NoteDesk(d) ==
    d.phase \in {"drafted", "saving"} =>
        \A c \in d.cards : \A a \in reports :
            ~c.mine /\ a.student = c.student /\ a.since <= d.viewed /\ Only(a)
                => c.note = a.note

\* Whoever may be shown a report soon asked when it was released.
OpenDesk(d) ==
    /\ d.shown # {} => d.open
    /\ d.phase = "cleared" => d.open
    /\ d.phase = "listing" /\ release = "released" => d.open

DeskInv(d) == MarkDesk(d) /\ CardDesk(d) /\ NoteDesk(d) /\ OpenDesk(d)

Inv ==
    /\ TInv /\ MarkedTwiceOnlyByOverlap /\ ReportedTwiceOnlyByOverlap
    /\ \A r \in Requests : DeskInv(desk[r])

-----------------------------------------------------------------------------
(* Finite sets                                                             *)

LEMMA FiniteImage ==
    ASSUME NEW S, NEW T, IsFiniteSet(S), NEW f \in [S -> T], T = {f[x] : x \in S}
    PROVE  IsFiniteSet(T)
<1>1. f \in Surjection(S, T)
    BY DEF Surjection
<1> QED
    BY <1>1, FS_Surjection

\* How many of S have at most the place of c.
Rank(S, c) == Cardinality({d \in S : d.place <= c.place})

\* Distinct places number the members of a finite set from 1 on.
LEMMA Ranks ==
    ASSUME NEW S, IsFiniteSet(S), \A c \in S : c.place \in Nat,
           \A c, d \in S : c.place = d.place => c = d
    PROVE  /\ Cardinality(S) \in Nat
           /\ \A c \in S : Rank(S, c) \in 1..Cardinality(S)
           /\ \A c, d \in S : Rank(S, c) = Rank(S, d) => c = d
           /\ \A i \in 1..Cardinality(S) : \E c \in S : Rank(S, c) = i
<1> DEFINE upto(c) == {d \in S : d.place <= c.place}
<1>1. Cardinality(S) \in Nat
    BY FS_CardinalityType
<1>2. ASSUME NEW c \in S
      PROVE  /\ IsFiniteSet(upto(c)) /\ Cardinality(upto(c)) \in 1..Cardinality(S)
    <2>1. upto(c) \in SUBSET S /\ c \in upto(c)
        OBVIOUS
    <2>2. IsFiniteSet(upto(c)) /\ Cardinality(upto(c)) <= Cardinality(S)
        BY <2>1, FS_Subset
    <2>3. Cardinality(upto(c)) \in Nat /\ Cardinality(upto(c)) # 0
        BY <2>1, <2>2, FS_CardinalityType, FS_EmptySet
    <2> QED
        BY <1>1, <2>2, <2>3
<1>3. ASSUME NEW c \in S, NEW d \in S, c.place < d.place
      PROVE  Cardinality(upto(c)) # Cardinality(upto(d))
    <2>1. upto(c) \in SUBSET upto(d) /\ d \notin upto(c) /\ d \in upto(d)
        BY <1>3
    <2> QED
        BY <1>2, <2>1, FS_Subset
<1>4. \A c, d \in S : Rank(S, c) = Rank(S, d) => c = d
    BY <1>3 DEF Rank
<1>5. \A c \in S : Rank(S, c) \in 1..Cardinality(S)
    BY <1>2 DEF Rank
<1>6. [c \in S |-> Rank(S, c)] \in Surjection(S, 1..Cardinality(S))
    <2> DEFINE T == 1..Cardinality(S)
               f == [c \in S |-> Rank(S, c)]
    <2>1. f \in Injection(S, T)
        BY <1>4, <1>5 DEF Injection, IsInjective
    <2>2. IsFiniteSet(T) /\ Cardinality(T) = Cardinality(S)
        BY <1>1, FS_Interval
    <2> HIDE DEF f, T
    <2>3. f \in Surjection(S, T)
        BY <2>1, <2>2, FS_Injection
    <2> QED
        BY <2>3 DEF f, T
<1> QED
    BY <1>1, <1>4, <1>5, <1>6 DEF Surjection

\* One of them comes last.
LEMMA LastPlace ==
    ASSUME NEW S, S # {}, IsFiniteSet(S), \A c \in S : c.place \in Nat,
           \A c, d \in S : c.place = d.place => c = d
    PROVE  \E c \in S : \A d \in S : d.place <= c.place
<1>1. Cardinality(S) \in 1..Cardinality(S)
    BY FS_CardinalityType, FS_EmptySet
<1>2. PICK c \in S : Rank(S, c) = Cardinality(S)
    BY <1>1, Ranks
<1> DEFINE T == {d \in S : d.place <= c.place}
<1>3. T \in SUBSET S /\ Cardinality(S) = Cardinality(T)
    BY <1>2 DEF Rank
<1>4. S = T
    BY <1>3, FS_Subset
<1> QED
    BY <1>4

-----------------------------------------------------------------------------
(* The ranking loop                                                        *)

LowestOf(s) == CHOOSE a \in s : \A b \in s : a.score <= b.score

\* The marks of s above the mark a, and where a stands by them.
Better(s, a) == {b \in s : b.score > a.score}
Standing(s, a) == 1 + Cardinality(Better(s, a))

\* What the loop has kept of the mark m after the marks of s.
Ranked(m, s) ==
    IF s = {} THEN [rank |-> 1, last |-> -1, index |-> 0, own |-> 0]
    ELSE [rank |-> Standing(s, LowestOf(s)), last |-> LowestOf(s).score,
          index |-> Cardinality(s), own |-> IF m \in s THEN Standing(s, m) ELSE 0]

\* What it makes of that with one more mark.
NextRank(a, acc) == IF a.score < acc.last THEN acc.index + 1 ELSE acc.rank
Loop(m, a, acc) ==
    [rank |-> NextRank(a, acc), last |-> a.score, index |-> acc.index + 1,
     own |-> IF a = m THEN NextRank(a, acc) ELSE acc.own]

LoopTable(m, S, g) ==
    g = [s \in SUBSET S |->
           IF s = {} THEN [rank |-> 1, last |-> -1, index |-> 0, own |-> 0]
           ELSE Loop(m, LowestOf(s), g[s \ {LowestOf(s)}])]

Peers(read, m) == {a \in read : a.subject = m.subject}

LEMMA PositionIsLoop ==
    ASSUME NEW read, NEW m
    PROVE  Position(read, m) = (CHOOSE g : LoopTable(m, Peers(read, m), g))[Peers(read, m)].own
BY DEF Position, MapThenFoldSet, LoopTable, Loop, NextRank, LowestOf, Peers

Scored(S) == IsFiniteSet(S) /\ \A a \in S : a.score \in Nat

LEMMA LowestIs ==
    ASSUME NEW s, s # {}, Scored(s)
    PROVE  LowestOf(s) \in s /\ \A b \in s : LowestOf(s).score <= b.score
<1> DEFINE T == {a.score : a \in s}
<1>1. T \subseteq Nat /\ T # {}
    BY DEF Scored
<1>2. PICK n \in T : \A k \in T : n <= k
    <2> HIDE DEF T
    <2> QED
        BY <1>1, LeastOf
<1>3. \E a \in s : \A b \in s : a.score <= b.score
    BY <1>2
<1> QED
    BY <1>3 DEF LowestOf

LEMMA BetterFinite ==
    ASSUME NEW s, Scored(s), NEW a
    PROVE  IsFiniteSet(Better(s, a)) /\ Cardinality(Better(s, a)) \in Nat
<1>1. Better(s, a) \in SUBSET s
    BY DEF Better
<1> QED
    BY <1>1, FS_Subset, FS_CardinalityType DEF Scored

\* One more mark, not above the others.
LEMMA RankedStep ==
    ASSUME NEW m, NEW s, s # {}, Scored(s)
    PROVE  Ranked(m, s) = Loop(m, LowestOf(s), Ranked(m, s \ {LowestOf(s)}))
<1> DEFINE l == LowestOf(s)
           t == s \ {l}
           k == LowestOf(t)
           acc == Ranked(m, t)
<1>1. l \in s /\ (\A b \in s : l.score <= b.score) /\ (\A b \in s : b.score \in Nat)
    BY LowestIs DEF Scored
<1>2. IsFiniteSet(t) /\ Cardinality(s) = Cardinality(t) + 1 /\ Scored(t) /\ Cardinality(t) \in Nat
    <2>1. IsFiniteSet(t) /\ Cardinality(t) = Cardinality(s) - 1 /\ Cardinality(s) \in Nat
        BY <1>1, FS_RemoveElement, FS_CardinalityType DEF Scored
    <2> QED
        BY <1>1, <2>1, FS_CardinalityType DEF Scored
<1> HIDE DEF l
<1>3. acc.index = Cardinality(t)
    <2>1. t = {} => Cardinality(t) = 0
        BY FS_EmptySet
    <2> QED
        BY <2>1 DEF Ranked
<1>4. acc.own = IF m \in t THEN Standing(t, m) ELSE 0
    BY DEF Ranked
<1>5. NextRank(l, acc) = Standing(s, l)
    <2>1. CASE t = {}
        <3>1. Better(s, l) = {}
            BY <1>1, <2>1 DEF Better
        <3>2. acc.last = -1 /\ acc.rank = 1
            BY <2>1 DEF Ranked
        <3> QED
            BY <1>1, <3>1, <3>2, FS_EmptySet DEF NextRank, Standing
    <2>2. CASE t # {}
        <3>1. k \in t /\ (\A b \in t : k.score <= b.score) /\ l.score <= k.score
            <4>1. t \subseteq s
                OBVIOUS
            <4> HIDE DEF t
            <4>2. LowestOf(t) \in t /\ \A b \in t : LowestOf(t).score <= b.score
                BY <1>2, <2>2, LowestIs
            <4> QED
                BY <1>1, <4>1, <4>2
        <3> HIDE DEF k
        <3>2. acc.last = k.score /\ acc.rank = Standing(t, k)
            BY <2>2 DEF Ranked, k
        <3>3. CASE l.score < k.score
            <4>1. Better(s, l) = t
                BY <1>1, <3>1, <3>3 DEF Better
            <4> QED
                BY <1>2, <1>3, <3>2, <3>3, <4>1 DEF NextRank, Standing
        <3>4. CASE ~(l.score < k.score)
            <4>1. Better(s, l) = Better(t, k)
                BY <1>1, <3>1, <3>4 DEF Better
            <4> QED
                BY <3>2, <3>4, <4>1 DEF NextRank, Standing
        <3> QED
            BY <3>3, <3>4
    <2> QED
        BY <2>1, <2>2
<1>6. l # m /\ m \in s => m \in t /\ Standing(t, m) = Standing(s, m)
    <2> SUFFICES ASSUME l # m, m \in s PROVE m \in t /\ Better(t, m) = Better(s, m)
        BY DEF Standing
    <2> QED
        BY <1>1 DEF Better
<1>7. Ranked(m, s) = [rank |-> Standing(s, l), last |-> l.score, index |-> Cardinality(s),
                      own |-> IF m \in s THEN Standing(s, m) ELSE 0]
    BY DEF Ranked, l
<1> HIDE DEF t, acc
<1>8. Ranked(m, s) = Loop(m, l, acc)
    <2>1. (IF m \in s THEN Standing(s, m) ELSE 0) = IF l = m THEN NextRank(l, acc) ELSE acc.own
        BY <1>1, <1>4, <1>5, <1>6 DEF t
    <2> QED
        BY <1>2, <1>3, <1>5, <1>7, <2>1 DEF Loop
<1> QED
    BY <1>8 DEF t, acc, l

\* The loop gives every mark the place after all marks above it.
LEMMA PositionCounts ==
    ASSUME NEW read, IsFiniteSet(read), \A a \in read : a.score \in Nat, NEW m \in read
    PROVE  Position(read, m) = Standing(Peers(read, m), m)
<1> DEFINE S == Peers(read, m)
           G == CHOOSE g : LoopTable(m, S, g)
           T == {s \in SUBSET S : G[s] = Ranked(m, s)}
<1>1. IsFiniteSet(S) /\ m \in S /\ S \in SUBSET read
    BY FS_Subset DEF Peers
<1> HIDE DEF S
<1>2. \A s \in SUBSET S : Scored(s)
    BY <1>1, FS_Subset DEF Scored
<1>3. \A s \in SUBSET S : s # {} => LowestOf(s) \in s
    BY <1>2, LowestIs
<1>4. LoopTable(m, S, G)
    <2> DEFINE g == [s \in SUBSET S |-> Ranked(m, s)]
    <2>1. ASSUME NEW s \in SUBSET S
          PROVE  Ranked(m, s) =
                   IF s = {} THEN [rank |-> 1, last |-> -1, index |-> 0, own |-> 0]
                   ELSE Loop(m, LowestOf(s), g[s \ {LowestOf(s)}])
        <3>1. CASE s = {}
            BY <3>1 DEF Ranked
        <3>2. CASE s # {}
            <4>1. g[s \ {LowestOf(s)}] = Ranked(m, s \ {LowestOf(s)})
                OBVIOUS
            <4> QED
                BY <1>2, <3>2, <4>1, RankedStep
        <3> QED
            BY <3>1, <3>2
    <2>2. LoopTable(m, S, g)
        BY <2>1 DEF LoopTable
    <2> QED
        BY <2>2
<1> HIDE DEF G
<1>5. {} \in T
    BY <1>4 DEF LoopTable, Ranked
<1>6. ASSUME NEW s \in SUBSET S, s # {}, \A x \in s : s \ {x} \in T
      PROVE  s \in T
    <2>1. G[s] = Loop(m, LowestOf(s), G[s \ {LowestOf(s)}])
        BY <1>4, <1>6 DEF LoopTable
    <2>2. G[s \ {LowestOf(s)}] = Ranked(m, s \ {LowestOf(s)})
        BY <1>3, <1>6
    <2>3. Ranked(m, s) = Loop(m, LowestOf(s), Ranked(m, s \ {LowestOf(s)}))
        BY <1>2, <1>6, RankedStep
    <2> QED
        BY <2>1, <2>2, <2>3
<1>7. T \subseteq SUBSET S
    OBVIOUS
<1> HIDE DEF T
<1>8. T = SUBSET S
    BY <1>1, <1>5, <1>6, <1>7, SubsetInduction
<1>9. G[S] = Ranked(m, S)
    BY <1>8 DEF T
<1>10. Ranked(m, S).own = Standing(S, m)
    BY <1>1 DEF Ranked
<1> QED
    BY <1>9, <1>10, PositionIsLoop DEF G, S

\* The total of a student with one mark.
LEMMA TotalOfOne ==
    ASSUME NEW read, NEW s, NEW m, m.score \in Nat, Of(read, s) = {m}
    PROVE  Total(read, s) = m.score
<1> DEFINE IsTable(g) == g = [x \in SUBSET {m} |->
              IF x = {} THEN 0
              ELSE (CHOOSE y \in x : TRUE).score + g[x \ {CHOOSE y \in x : TRUE}]]
           G == CHOOSE g : IsTable(g)
<1>1. Total(read, s) = G[{m}]
    BY DEF Total, MapThenSumSet, MapThenFoldSet
<1>2. \A x \in SUBSET {m} : x = {} \/ x = {m}
    OBVIOUS
<1>3. (CHOOSE y \in {m} : TRUE) = m
    OBVIOUS
<1>4. {m} \ {m} = {} /\ m.score + 0 = m.score
    OBVIOUS
<1>5. \E g : IsTable(g)
    <2> DEFINE g == [x \in SUBSET {m} |-> IF x = {} THEN 0 ELSE m.score]
    <2>1. IsTable(g)
        BY <1>2, <1>3, <1>4
    <2> QED
        BY <2>1
<1>6. IsTable(G)
    BY <1>5
<1> HIDE DEF G
<1>7. G[{}] = 0
    BY <1>6
<1>8. G[{m}] = m.score + G[{}]
    BY <1>3, <1>4, <1>6
<1> QED
    BY <1>1, <1>4, <1>7, <1>8

-----------------------------------------------------------------------------
(* Queries that only read                                                  *)

tables == <<classList, marks, lastMark, reports, lastReport, release, saves>>

\* What request r may hold next.
Holds(d) == DeskType(d, lastMark, lastReport, saves) /\ DeskInv(d)

LEMMA BlankHolds == TInv => Holds(Blank)
<1> SUFFICES ASSUME TInv PROVE Holds(Blank)
    OBVIOUS
<1>1. lastMark \in Nat /\ lastReport \in Nat /\ saves \in Nat
    BY DEF TInv, TypeOK
<1>2. Blank \in DeskRecords
    BY DEF DeskRecords, Blank
<1> QED
    BY <1>1, <1>2, FS_EmptySet
    DEF Holds, DeskType, DeskInv, MarkDesk, CardDesk, NoteDesk, OpenDesk, Blank, NoMark, Placed

LEMMA FindMarkHolds ==
    ASSUME Inv, NEW r \in Requests, NEW s \in Students, NEW u \in Subjects, NEW v \in Scores,
           FindMark(r, s, u, v)
    PROVE  \E d : Become(r, d) /\ UNCHANGED tables /\ Holds(d)
<1> DEFINE there == {m \in marks : m.student = s /\ m.subject = u}
           new == [id |-> 0, student |-> s, subject |-> u, score |-> v, seen |-> lastMark]
<1>1. PICK m \in IF there # {} THEN there ELSE {new} :
          Become(r, [Blank EXCEPT !.phase = "marking", !.mark = [m EXCEPT !.score = v]])
    BY DEF FindMark
<1>2. /\ lastMark \in Nat /\ lastReport \in Nat /\ saves \in Nat /\ v \in Nat
      /\ marks \subseteq MarkRecords /\ \A a \in marks : a.seen <= lastMark /\ a.id # 0
    BY ScoresAssumption DEF Inv, TInv, TypeOK
<1>3. m \in MarkRecords /\ m.seen <= lastMark
    BY <1>2 DEF MarkRecords
<1>4. m.id = 0 => \A a \in marks : ~(a.student = m.student /\ a.subject = m.subject)
    BY <1>2
<1> DEFINE x == [m EXCEPT !.score = v]
           d == [Blank EXCEPT !.phase = "marking", !.mark = x]
<1>5. /\ x \in MarkRecords /\ x.seen = m.seen /\ x.id = m.id
      /\ x.student = m.student /\ x.subject = m.subject
    BY <1>3 DEF MarkRecords
<1> HIDE DEF x
<1>6. /\ d \in DeskRecords /\ d.phase = "marking" /\ d.mark = x
      /\ d.rows = {} /\ d.shown = {} /\ d.cards = {} /\ d.viewed = 0 /\ d.marks = {}
    BY <1>5 DEF DeskRecords, Blank
<1>7. Become(r, d)
    BY <1>1 DEF x
<1> HIDE DEF d
<1>8. DeskType(d, lastMark, lastReport, saves)
    BY <1>2, <1>3, <1>5, <1>6, FS_EmptySet DEF DeskType, Placed
<1>9. DeskInv(d)
    BY <1>4, <1>5, <1>6 DEF DeskInv, MarkDesk, CardDesk, NoteDesk, OpenDesk
<1> QED
    BY <1>7, <1>8, <1>9 DEF FindMark, Holds, tables

\* There are no more marks than ids.
LEMMA MarksFinite == TypeOK => IsFiniteSet(marks)
<1> SUFFICES ASSUME TypeOK PROVE IsFiniteSet(marks)
    OBVIOUS
<1> DEFINE ids == {a.id : a \in marks}
           row == [i \in ids |-> CHOOSE a \in marks : a.id = i]
           N == 1..lastMark
<1>1. ids \in SUBSET N /\ lastMark \in Nat /\ \A a, b \in marks : a.id = b.id => a = b
    BY DEF TypeOK
<1>2. IsFiniteSet(N)
    BY <1>1, FS_Interval
<1> HIDE DEF N
<1>3. IsFiniteSet(ids)
    BY <1>1, <1>2, FS_Subset
<1>4. \A a \in marks : a.id \in ids /\ row[a.id] = a
    BY <1>1
<1>5. \A i \in ids : row[i] \in marks
    BY <1>4
<1>6. row \in [ids -> marks] /\ marks = {row[i] : i \in ids}
    <2>1. row \in [ids -> marks]
        BY <1>5
    <2>2. marks \subseteq {row[i] : i \in ids}
        <3> HIDE DEF row, ids
        <3> QED
            BY <1>4
    <2>3. {row[i] : i \in ids} \subseteq marks
        <3> HIDE DEF row, ids
        <3> QED
            BY <1>5
    <2> QED
        BY <2>1, <2>2, <2>3
<1> HIDE DEF ids, row
<1> QED
    BY <1>3, <1>6, FiniteImage

LEMMA ReadMarksHolds ==
    ASSUME Inv, NEW r \in Requests, ReadMarks(r)
    PROVE  \E d : Become(r, d) /\ UNCHANGED tables /\ Holds(d)
<1> DEFINE d == [Blank EXCEPT !.phase = "marked", !.marks = marks]
<1>1. /\ lastMark \in Nat /\ lastReport \in Nat /\ saves \in Nat
      /\ marks \subseteq MarkRecords /\ IsFiniteSet(marks)
    BY MarksFinite DEF Inv, TInv, TypeOK
<1>2. /\ d \in DeskRecords /\ d.phase = "marked" /\ d.mark = NoMark
      /\ d.rows = {} /\ d.shown = {} /\ d.cards = {} /\ d.viewed = 0 /\ d.marks = marks
    BY <1>1 DEF DeskRecords, Blank
<1>3. Become(r, d) /\ UNCHANGED tables
    BY DEF ReadMarks, tables
<1> HIDE DEF d
<1>4. DeskType(d, lastMark, lastReport, saves)
    BY <1>1, <1>2, FS_EmptySet DEF DeskType, NoMark, Placed
<1>5. DeskInv(d)
    BY <1>2 DEF DeskInv, MarkDesk, CardDesk, NoteDesk, OpenDesk
<1> QED
    BY <1>3, <1>4, <1>5 DEF Holds

\* The cards have distinct places, by their averages, and the notes that are stored.
LEMMA DraftHolds ==
    ASSUME Inv, NEW r \in Requests, Draft(r)
    PROVE  \E d : Become(r, d) /\ UNCHANGED tables /\ Holds(d)
<1> DEFINE listed == Listed(desk[r].marks)
<1>1. PICK place \in [listed -> 1..Cardinality(listed)],
           note \in [Students -> Requests \union {None}] :
          /\ \A e, f \in listed : e # f => place[e] # place[f]
          /\ \A e, f \in listed : Higher(desk[r].marks, e[1], f[1]) => place[e] < place[f]
          /\ \A s \in Students : note[s] \in Notes(s)
          /\ Become(r, [desk[r] EXCEPT
                !.phase = "drafted", !.viewed = saves,
                !.cards = {[student |-> e[1], place |-> place[e], note |-> note[e[1]],
                            mine |-> FALSE, seen |-> 0] : e \in listed}])
    BY DEF Draft
<1>2. /\ lastMark \in Nat /\ lastReport \in Nat /\ saves \in Nat
      /\ DeskType(desk[r], lastMark, lastReport, saves) /\ DeskInv(desk[r])
      /\ desk[r] \in DeskRecords /\ desk[r].phase = "marked"
    BY DEF Inv, TInv, TypeOK, Draft
<1>3. IsFiniteSet(listed) /\ \A e \in listed : e[1] \in Students
    <2>1. listed \in SUBSET (Students \X (1..MaxEnrolled))
        BY DEF Listed
    <2> DEFINE T == 1..MaxEnrolled
    <2>2. IsFiniteSet(Students) /\ IsFiniteSet(T)
        BY StudentsAssumption, FS_Interval
    <2> HIDE DEF T
    <2>3. IsFiniteSet(Students \X T)
        BY <2>2, FS_Product
    <2> QED
        BY <2>1, <2>3, FS_Subset DEF T
<1>4. Cardinality(listed) \in Nat
    BY <1>3, FS_CardinalityType
<1> DEFINE card == [e \in listed |->
               [student |-> e[1], place |-> place[e], note |-> note[e[1]],
                mine |-> FALSE, seen |-> 0]]
           cards == {card[e] : e \in listed}
           d == [desk[r] EXCEPT !.phase = "drafted", !.viewed = saves, !.cards = cards]
<1>5. \A e \in listed : /\ card[e] \in CardRecords /\ card[e].place = place[e]
                         /\ card[e].seen = 0 /\ card[e].student = e[1]
                         /\ card[e].student \in Students
                         /\ card[e].note = note[card[e].student]
    BY <1>3, <1>4 DEF CardRecords
<1>6. Become(r, d)
    BY <1>1
<1> HIDE DEF card, listed
<1>7. /\ cards \subseteq CardRecords
      /\ \A c, e \in cards : c.place = e.place => c = e
      /\ \A c \in cards : c.seen = 0 /\ c.student \in Students /\ c.note = note[c.student]
      /\ \A c, e \in cards : Higher(desk[r].marks, c.student, e.student) => c.place < e.place
    BY <1>1, <1>5
<1>8. IsFiniteSet(cards)
    <2>1. card \in [listed -> cards]
        BY DEF card
    <2> QED
        BY <1>3, <2>1, FiniteImage
<1> HIDE DEF cards
<1>9. /\ d \in DeskRecords /\ d.phase = "drafted" /\ d.mark = desk[r].mark
      /\ d.rows = desk[r].rows /\ d.shown = desk[r].shown /\ d.open = desk[r].open
      /\ d.cards = cards /\ d.viewed = saves /\ d.marks = desk[r].marks
    BY <1>2, <1>7 DEF DeskRecords
<1> HIDE DEF d
<1>10. DeskType(d, lastMark, lastReport, saves)
    BY <1>2, <1>7, <1>8, <1>9 DEF DeskType, Placed
<1>11. ASSUME NEW c \in cards, NEW a \in reports, a.student = c.student, Only(a)
       PROVE  c.note = a.note
    <2>1. c.student \in Students /\ c.note \in Notes(c.student)
        BY <1>1, <1>7
    <2>2. PICK b \in reports : b.student = c.student /\ c.note = b.note
        BY <1>11, <2>1 DEF Notes
    <2>3. a = b
        BY <1>11, <2>2 DEF Only, Inv, TInv, TypeOK
    <2> QED
        BY <2>2, <2>3
<1>12. DeskInv(d)
    BY <1>2, <1>9, <1>11 DEF DeskInv, MarkDesk, CardDesk, NoteDesk, OpenDesk
<1> QED
    BY <1>6, <1>10, <1>12 DEF Draft, Holds, tables

LEMMA WriteNoteHolds ==
    ASSUME Inv, NEW r \in Requests, NEW c \in desk[r].cards, WriteNote(r, c)
    PROVE  \E d : Become(r, d) /\ UNCHANGED tables /\ Holds(d)
<1> DEFINE x == [c EXCEPT !.note = r, !.mine = TRUE]
           cards == (desk[r].cards \ {c}) \union {x}
           d == [desk[r] EXCEPT !.cards = cards]
<1>1. /\ DeskType(desk[r], lastMark, lastReport, saves) /\ DeskInv(desk[r])
      /\ desk[r] \in DeskRecords /\ desk[r].phase = "drafted"
      /\ desk[r].cards \subseteq CardRecords
    BY DEF Inv, TInv, TypeOK, WriteNote, DeskRecords
<1>2. /\ x \in CardRecords /\ x.place = c.place /\ x.seen = c.seen
      /\ x.student = c.student /\ x.mine = TRUE
    BY <1>1 DEF CardRecords
<1>3. Become(r, d)
    BY DEF WriteNote
<1> HIDE DEF x
<1>4. /\ cards \subseteq CardRecords
      /\ \A e, f \in cards : e.place = f.place => e = f
      /\ \A e \in cards : e.seen <= lastReport /\ (e.mine \/ e \in desk[r].cards)
      /\ \A e \in cards : \E f \in desk[r].cards : e.student = f.student /\ e.place = f.place
    BY <1>1, <1>2 DEF DeskType
<1>5. IsFiniteSet(cards)
    BY <1>1, FS_RemoveElement, FS_AddElement DEF DeskType
<1> HIDE DEF cards
<1>6. /\ d \in DeskRecords /\ d.phase = "drafted" /\ d.mark = desk[r].mark
      /\ d.rows = desk[r].rows /\ d.shown = desk[r].shown /\ d.open = desk[r].open
      /\ d.cards = cards /\ d.viewed = desk[r].viewed /\ d.marks = desk[r].marks
    BY <1>1, <1>4 DEF DeskRecords
<1> HIDE DEF d
<1>7. DeskType(d, lastMark, lastReport, saves)
    <2>1. Placed(d)
        BY <1>1, <1>4, <1>6 DEF DeskType, Placed
    <2> QED
        BY <1>1, <1>4, <1>5, <1>6, <2>1 DEF DeskType
<1>8. DeskInv(d)
    BY <1>1, <1>4, <1>6 DEF DeskInv, MarkDesk, CardDesk, NoteDesk, OpenDesk
<1> QED
    BY <1>3, <1>7, <1>8 DEF WriteNote, Holds, tables

\* Whoever has a row now is among the rows found.
LEMMA FindStoredHolds ==
    ASSUME Inv, NEW r \in Requests, FindStored(r)
    PROVE  \E d : Become(r, d) /\ UNCHANGED tables /\ Holds(d)
<1> DEFINE held == {a \in reports : \E c \in desk[r].cards : c.student = a.student}
<1>1. PICK rows \in SUBSET held :
          /\ \A a \in held : \E b \in rows : a.student = b.student
          /\ Become(r, [desk[r] EXCEPT
                !.phase = "saving", !.marks = {}, !.rows = {a.id : a \in rows},
                !.cards = {[c EXCEPT !.seen = lastReport] : c \in @}])
    BY DEF FindStored
<1>2. /\ DeskType(desk[r], lastMark, lastReport, saves) /\ DeskInv(desk[r])
      /\ desk[r] \in DeskRecords /\ desk[r].phase = "drafted"
      /\ desk[r].cards \subseteq CardRecords
      /\ lastReport \in Nat /\ reports \subseteq ReportRecords
      /\ \A a \in reports : a.id \in 1..lastReport
    BY DEF Inv, TInv, TypeOK, FindStored, DeskRecords
<1> DEFINE card == [c \in desk[r].cards |-> [c EXCEPT !.seen = lastReport]]
           cards == {card[c] : c \in desk[r].cards}
           ids == {a.id : a \in rows}
           d == [desk[r] EXCEPT !.phase = "saving", !.marks = {}, !.rows = ids, !.cards = cards]
<1>3. \A c \in desk[r].cards :
          /\ card[c] \in CardRecords /\ card[c].place = c.place /\ card[c].seen = lastReport
          /\ card[c].student = c.student /\ card[c].note = c.note /\ card[c].mine = c.mine
    BY <1>2 DEF CardRecords
<1>4. Become(r, d)
    BY <1>1
<1>5. card \in [desk[r].cards -> cards]
    OBVIOUS
<1> HIDE DEF card
<1>6. /\ cards \subseteq CardRecords
      /\ \A e, f \in cards : e.place = f.place => e = f
      /\ \A e \in cards : e.seen <= lastReport
      /\ \A e \in cards : \E c \in desk[r].cards :
            e.student = c.student /\ e.note = c.note /\ e.mine = c.mine
    BY <1>2, <1>3 DEF DeskType
<1>7. IsFiniteSet(cards)
    BY <1>2, <1>5, FiniteImage DEF DeskType
<1> HIDE DEF cards
<1>8. /\ ids \subseteq 1..lastReport /\ ids \subseteq Nat
      /\ \A b \in rows : b \in reports /\ b.id \in ids
    BY <1>2
<1>9. \A e \in cards : \A a \in reports : a.student = e.student =>
         \E b \in reports : b.id \in ids /\ b.student = e.student
    <2> SUFFICES ASSUME NEW e \in cards, NEW a \in reports, a.student = e.student
                 PROVE  \E b \in reports : b.id \in ids /\ b.student = e.student
        OBVIOUS
    <2>1. a \in held
        BY <1>6
    <2>2. PICK b \in rows : a.student = b.student
        BY <1>1, <2>1
    <2> QED
        BY <1>8, <2>2
<1>10. ASSUME NEW a \in reports, a.id \in ids
      PROVE  \E c \in cards : c.student = a.student
    <2>1. a \in held
        BY <1>10 DEF Inv, TInv, TypeOK
    <2> QED
        BY <1>3, <2>1 DEF cards
<1> HIDE DEF ids
<1>11. /\ d \in DeskRecords /\ d.phase = "saving" /\ d.mark = desk[r].mark
      /\ d.rows = ids /\ d.shown = desk[r].shown /\ d.open = desk[r].open
      /\ d.cards = cards /\ d.viewed = desk[r].viewed /\ d.marks = {}
    BY <1>2, <1>6, <1>8 DEF DeskRecords
<1> HIDE DEF d
<1>12. DeskType(d, lastMark, lastReport, saves)
    BY <1>2, <1>6, <1>7, <1>8, <1>11, FS_EmptySet DEF DeskType, Placed
<1>13. NoteDesk(d)
    BY <1>2, <1>6, <1>11 DEF DeskInv, NoteDesk
<1>14. DeskInv(d)
    BY <1>2, <1>9, <1>10, <1>11, <1>13 DEF DeskInv, MarkDesk, CardDesk, OpenDesk
<1> QED
    BY <1>4, <1>12, <1>14 DEF FindStored, Holds, tables

LEMMA FindReleaseHolds ==
    ASSUME Inv, NEW r \in Requests, NEW released \in BOOLEAN, FindRelease(r, released)
    PROVE  \E d : Become(r, d) /\ UNCHANGED tables /\ Holds(d)
<1> DEFINE phase == IF release = "none" THEN "announcing" ELSE "releasing"
           d == [Blank EXCEPT !.phase = phase, !.flag = released]
<1>1. Become(r, d) /\ UNCHANGED tables
    BY DEF FindRelease, tables
<1>2. /\ d \in DeskRecords /\ d.phase \in {"announcing", "releasing"} /\ d.mark = NoMark
      /\ d.rows = {} /\ d.shown = {} /\ d.cards = {} /\ d.viewed = 0 /\ d.marks = {}
    BY DEF DeskRecords, Blank
<1>3. lastMark \in Nat /\ lastReport \in Nat /\ saves \in Nat
    BY DEF Inv, TInv, TypeOK
<1> HIDE DEF d
<1>4. DeskType(d, lastMark, lastReport, saves)
    BY <1>2, <1>3, FS_EmptySet DEF DeskType, NoMark, Placed
<1>5. DeskInv(d)
    BY <1>2 DEF DeskInv, MarkDesk, CardDesk, NoteDesk, OpenDesk
<1> QED
    BY <1>1, <1>4, <1>5 DEF Holds

LEMMA AskHolds ==
    ASSUME Inv, NEW phase \in {"listing", "cleared"}, NEW rows \in SUBSET (1..lastReport),
           phase = "cleared" => release = "released"
    PROVE  Holds(Ask(phase, rows))
<1> DEFINE d == Ask(phase, rows)
<1>1. lastMark \in Nat /\ lastReport \in Nat /\ saves \in Nat /\ rows \subseteq Nat
    BY DEF Inv, TInv, TypeOK
<1>2. /\ d \in DeskRecords /\ d.phase = phase /\ d.mark = NoMark
      /\ d.rows = rows /\ d.shown = {} /\ d.cards = {} /\ d.viewed = 0
      /\ d.open = (release = "released") /\ d.marks = {}
    BY <1>1 DEF DeskRecords, Blank, Ask
<1> HIDE DEF d
<1>3. DeskType(d, lastMark, lastReport, saves)
    BY <1>1, <1>2, FS_EmptySet DEF DeskType, NoMark, Placed
<1>4. DeskInv(d)
    BY <1>2 DEF DeskInv, MarkDesk, CardDesk, NoteDesk, OpenDesk
<1> QED
    BY <1>3, <1>4 DEF Holds, d

LEMMA IsReleasedHolds ==
    ASSUME Inv, NEW r \in Requests, NEW i \in desk[r].rows, IsReleased(r, i)
    PROVE  \E d : Become(r, d) /\ UNCHANGED tables /\ Holds(d)
<1> DEFINE shown == IF release = "released" THEN desk[r].shown \union {i} ELSE desk[r].shown
           rows == desk[r].rows \ {i}
           d == [desk[r] EXCEPT !.rows = rows, !.shown = shown]
<1>1. /\ DeskType(desk[r], lastMark, lastReport, saves) /\ DeskInv(desk[r])
      /\ desk[r] \in DeskRecords /\ desk[r].phase = "listing" /\ lastReport \in Nat
    BY DEF Inv, TInv, TypeOK, IsReleased
<1>2. Become(r, d) /\ UNCHANGED tables
    BY DEF IsReleased, tables
<1>3. rows \union shown \subseteq 1..lastReport /\ rows \subseteq Nat /\ shown \subseteq Nat
    BY <1>1 DEF DeskType
<1>4. shown # {} => desk[r].open
    BY <1>1 DEF DeskInv, OpenDesk
<1> HIDE DEF rows, shown
<1>5. /\ d \in DeskRecords /\ d.phase = "listing" /\ d.mark = desk[r].mark
      /\ d.rows = rows /\ d.shown = shown /\ d.open = desk[r].open
      /\ d.cards = desk[r].cards /\ d.viewed = desk[r].viewed /\ d.marks = desk[r].marks
    BY <1>1, <1>3 DEF DeskRecords
<1> HIDE DEF d
<1>6. DeskType(d, lastMark, lastReport, saves)
    BY <1>1, <1>3, <1>5 DEF DeskType, Placed
<1>7. DeskInv(d)
    BY <1>1, <1>4, <1>5 DEF DeskInv, MarkDesk, CardDesk, NoteDesk, OpenDesk
<1> QED
    BY <1>2, <1>6, <1>7 DEF Holds

LEMMA DownloadHolds ==
    ASSUME Inv, NEW r \in Requests, Download(r)
    PROVE  \E d : Become(r, d) /\ UNCHANGED tables /\ Holds(d)
<1>1. PICK a \in reports :
          Become(r, [desk[r] EXCEPT !.phase = "listing", !.shown = {a.id}])
    BY DEF Download
<1> DEFINE shown == {a.id}
           d == [desk[r] EXCEPT !.phase = "listing", !.shown = shown]
<1>2. /\ DeskType(desk[r], lastMark, lastReport, saves) /\ DeskInv(desk[r])
      /\ desk[r] \in DeskRecords /\ desk[r].phase = "cleared"
      /\ lastReport \in Nat /\ shown \subseteq 1..lastReport /\ shown \subseteq Nat
    BY DEF Inv, TInv, TypeOK, Download
<1>3. Become(r, d) /\ UNCHANGED tables
    BY <1>1 DEF Download, tables
<1> HIDE DEF shown
<1>4. /\ d \in DeskRecords /\ d.phase = "listing" /\ d.mark = desk[r].mark
      /\ d.rows = desk[r].rows /\ d.shown = shown /\ d.open = desk[r].open
      /\ d.cards = desk[r].cards /\ d.viewed = desk[r].viewed /\ d.marks = desk[r].marks
    BY <1>2 DEF DeskRecords
<1> HIDE DEF d
<1>5. DeskType(d, lastMark, lastReport, saves)
    BY <1>2, <1>4 DEF DeskType, Placed
<1>6. DeskInv(d)
    BY <1>2, <1>4 DEF DeskInv, MarkDesk, CardDesk, NoteDesk, OpenDesk
<1> QED
    BY <1>3, <1>5, <1>6 DEF Holds

LEMMA ReadInv ==
    ASSUME Inv, NEW r \in Requests, NEW d, Become(r, d), UNCHANGED tables, Holds(d)
    PROVE  Inv'
<1>1. /\ classList' = classList /\ marks' = marks /\ lastMark' = lastMark
      /\ reports' = reports /\ lastReport' = lastReport /\ release' = release
      /\ saves' = saves
    BY DEF tables
<1>2. desk \in [Requests -> DeskRecords] /\ d \in DeskRecords
    BY DEF Inv, TInv, TypeOK, Holds, DeskType
<1>3. /\ desk' \in [Requests -> DeskRecords]
      /\ \A q \in Requests : desk'[q] = d \/ desk'[q] = desk[q]
    BY <1>2 DEF Become
<1>4. ASSUME NEW q \in Requests
      PROVE  DeskType(desk'[q], lastMark, lastReport, saves) /\ DeskInv(desk'[q])
    BY <1>3 DEF Inv, TInv, Holds
<1>5. ASSUME NEW q \in Requests
      PROVE  DeskInv(desk[q])'
    BY <1>1, <1>4 DEF DeskInv, MarkDesk, CardDesk, NoteDesk, OpenDesk, Only
<1>6. TypeOK'
    <2>1. ASSUME NEW q \in Requests
          PROVE  (desk'[q].rows \union desk'[q].shown) \subseteq {a.id : a \in reports}
        BY <1>4 DEF DeskType, Inv, TInv, TypeOK
    <2> QED
        BY <1>1, <1>3, <2>1 DEF TypeOK, Inv, TInv
<1>7. TInv'
    BY <1>1, <1>4, <1>6 DEF TInv, Inv
<1> QED
    BY <1>1, <1>5, <1>7 DEF Inv, MarkedTwiceOnlyByOverlap, ReportedTwiceOnlyByOverlap

-----------------------------------------------------------------------------
(* Marks                                                                   *)

\* Some marks change their score, or go.
LEMMA MarksInv ==
    ASSUME Inv, marks' \subseteq MarkRecords,
           \A a \in marks' : \E b \in marks :
              /\ a.id = b.id /\ a.student = b.student
              /\ a.subject = b.subject /\ a.seen = b.seen,
           \A a, b \in marks' : a.id = b.id => a = b,
           UNCHANGED <<classList, lastMark, reports, lastReport, release, saves>>,
           desk' \in [Requests -> DeskRecords],
           \A q \in Requests : desk'[q] \in {desk[q], Blank}
    PROVE  Inv'
<1>1. ASSUME NEW q \in Requests
      PROVE  DeskType(desk'[q], lastMark, lastReport, saves) /\ DeskInv(desk'[q])
    BY BlankHolds DEF Inv, TInv, Holds
<1>2. ASSUME NEW q \in Requests
      PROVE  DeskInv(desk[q])'
    <2>1. MarkDesk(desk[q])'
        BY <1>1 DEF DeskInv, MarkDesk
    <2>2. CardDesk(desk[q])' /\ NoteDesk(desk[q])' /\ OpenDesk(desk[q])'
        BY <1>1 DEF DeskInv, CardDesk, NoteDesk, OpenDesk, Only
    <2> QED
        BY <2>1, <2>2 DEF DeskInv
<1>3. \A a \in marks' : a.id \in 1..lastMark /\ a.seen <= lastMark
    BY DEF Inv, TInv, TypeOK
<1>4. TypeOK'
    <2>1. ASSUME NEW q \in Requests
          PROVE  (desk'[q].rows \union desk'[q].shown) \subseteq {a.id : a \in reports}
        BY <1>1 DEF DeskType, Inv, TInv, TypeOK
    <2> QED
        BY <1>3, <2>1 DEF TypeOK, Inv, TInv
<1>5. TInv'
    BY <1>1, <1>3, <1>4 DEF TInv, Inv
<1>6. MarkedTwiceOnlyByOverlap'
    BY DEF Inv, MarkedTwiceOnlyByOverlap
<1> QED
    BY <1>2, <1>5, <1>6 DEF Inv, ReportedTwiceOnlyByOverlap

LEMMA BlankDesk ==
    ASSUME Inv, NEW r \in Requests, Become(r, Blank)
    PROVE  /\ desk' \in [Requests -> DeskRecords]
           /\ \A q \in Requests : desk'[q] = IF q = r THEN Blank ELSE desk[q]
<1>1. desk \in [Requests -> DeskRecords] /\ Blank \in DeskRecords
    BY BlankHolds DEF Inv, TInv, TypeOK, Holds, DeskType
<1> QED
    BY <1>1 DEF Become

LEMMA UpdateMarkInv ==
    ASSUME Inv, NEW r \in Requests, UpdateMark(r)
    PROVE  Inv'
<1> DEFINE m == desk[r].mark
           up(a) == IF a.id = m.id THEN [a EXCEPT !.score = m.score] ELSE a
<1>1. m.score \in Scores /\ marks \subseteq MarkRecords
    BY DEF Inv, TInv, TypeOK, DeskType, UpdateMark, MarkRecords
<1>2. ASSUME NEW a \in marks
      PROVE  /\ up(a) \in MarkRecords /\ up(a).id = a.id /\ up(a).student = a.student
             /\ up(a).subject = a.subject /\ up(a).seen = a.seen
    BY <1>1 DEF MarkRecords
<1>3. marks' = {up(a) : a \in marks} /\ Become(r, Blank)
    BY DEF UpdateMark
<1> HIDE DEF up
<1>4. \A a, b \in marks : a.id = b.id => a = b
    BY DEF Inv, TInv, TypeOK
<1>5. \A a, b \in marks' : a.id = b.id => a = b
    BY <1>2, <1>3, <1>4
<1> QED
    BY <1>2, <1>3, <1>5, MarksInv, BlankDesk DEF UpdateMark

LEMMA DeleteMarkInv ==
    ASSUME Inv, NEW m \in marks, DeleteMark(m)
    PROVE  Inv'
<1>1. marks' \subseteq marks /\ desk' = desk
    BY DEF DeleteMark
<1>2. /\ marks \subseteq MarkRecords /\ desk \in [Requests -> DeskRecords]
      /\ \A a, b \in marks : a.id = b.id => a = b
    BY DEF Inv, TInv, TypeOK
<1> QED
    BY <1>1, <1>2, MarksInv DEF DeleteMark

\* A request that searched before this insertion will not know of it.
LEMMA InsertMarkInv ==
    ASSUME Inv, NEW r \in Requests, InsertMark(r)
    PROVE  Inv'
<1> DEFINE n == lastMark + 1
           x == [desk[r].mark EXCEPT !.id = n]
<1>1. /\ lastMark \in Nat /\ lastReport \in Nat /\ saves \in Nat
      /\ marks \subseteq MarkRecords
      /\ \A a \in marks : a.id \in 1..lastMark /\ a.seen <= lastMark /\ a.seen \in Nat
      /\ \A a, b \in marks : a.id = b.id => a = b
    BY DEF Inv, TInv, TypeOK, MarkRecords
<1>2. /\ DeskType(desk[r], lastMark, lastReport, saves) /\ MarkDesk(desk[r])
      /\ desk[r].phase = "marking" /\ desk[r].mark.id = 0
      /\ desk[r].mark \in MarkRecords /\ desk[r].mark.seen <= lastMark
    BY DEF InsertMark, Inv, TInv, DeskInv, DeskType
<1>3. /\ x \in MarkRecords /\ x.id = n /\ x.student = desk[r].mark.student
      /\ x.subject = desk[r].mark.subject /\ x.seen = desk[r].mark.seen /\ x.seen <= n
      /\ x.seen \in Nat
    BY <1>1, <1>2 DEF MarkRecords
<1>4. /\ marks' = marks \union {x} /\ lastMark' = n /\ Become(r, Blank)
      /\ UNCHANGED <<classList, reports, lastReport, release, saves>>
    BY DEF InsertMark
<1> HIDE DEF x
<1>5. /\ desk' \in [Requests -> DeskRecords]
      /\ \A q \in Requests : desk'[q] = IF q = r THEN Blank ELSE desk[q]
    BY <1>4, BlankDesk
<1>6. ASSUME NEW q \in Requests
      PROVE  DeskType(desk'[q], lastMark, lastReport, saves) /\ DeskInv(desk'[q])
    BY <1>5, BlankHolds DEF Inv, TInv, Holds
<1>7. ASSUME NEW q \in Requests
      PROVE  /\ desk'[q].mark.seen \in Nat /\ desk'[q].mark.seen <= lastMark
    BY <1>6 DEF DeskType, DeskRecords, MarkRecords, NoMark
<1>8. ASSUME NEW q \in Requests
      PROVE  DeskType(desk'[q], n, lastReport, saves)
    BY <1>1, <1>6, <1>7 DEF DeskType
<1>9. ASSUME NEW q \in Requests
      PROVE  DeskInv(desk[q])'
    <2>1. MarkDesk(desk[q])'
        BY <1>1, <1>3, <1>4, <1>6, <1>7 DEF DeskInv, MarkDesk
    <2>2. CardDesk(desk[q])' /\ NoteDesk(desk[q])' /\ OpenDesk(desk[q])'
        BY <1>4, <1>6 DEF DeskInv, CardDesk, NoteDesk, OpenDesk, Only
    <2> QED
        BY <2>1, <2>2 DEF DeskInv
<1>10. /\ \A a \in marks' : a.id \in 1..n /\ a.seen <= n
       /\ \A a, b \in marks' : a.id = b.id => a = b
       /\ marks' \subseteq MarkRecords /\ n \in Nat
    BY <1>1, <1>3, <1>4
<1>11. TypeOK'
    <2>1. ASSUME NEW q \in Requests
          PROVE  (desk'[q].rows \union desk'[q].shown) \subseteq {a.id : a \in reports}
        BY <1>6 DEF DeskType, Inv, TInv, TypeOK
    <2> QED
        BY <1>4, <1>5, <1>10, <2>1 DEF TypeOK, Inv, TInv
<1>12. TInv'
    BY <1>4, <1>8, <1>10, <1>11 DEF TInv
<1>13. MarkedTwiceOnlyByOverlap'
    BY <1>1, <1>2, <1>3, <1>4 DEF Inv, MarkedTwiceOnlyByOverlap, MarkDesk
<1> QED
    BY <1>4, <1>9, <1>12, <1>13 DEF Inv, ReportedTwiceOnlyByOverlap

-----------------------------------------------------------------------------
(* Announcements                                                           *)

LEMMA SaveReleaseInv ==
    ASSUME Inv, NEW r \in Requests, SaveRelease(r)
    PROVE  Inv'
<1> DEFINE flag == desk[r].flag
           told(q) == [desk[q] EXCEPT !.open = @ \/ flag]
<1>1. /\ release' = IF flag THEN "released" ELSE "hidden"
      /\ desk' = [q \in Requests |-> IF q = r THEN Blank ELSE told(q)]
      /\ UNCHANGED <<classList, marks, lastMark, reports, lastReport, saves>>
    BY DEF SaveRelease
<1>2. flag \in BOOLEAN /\ Holds(Blank) /\ Blank \in DeskRecords
    BY BlankHolds DEF Inv, TInv, TypeOK, DeskRecords, Holds, DeskType
<1>3. ASSUME NEW q \in Requests
      PROVE  /\ told(q) \in DeskRecords /\ told(q).phase = desk[q].phase
             /\ told(q).mark = desk[q].mark /\ told(q).rows = desk[q].rows
             /\ told(q).shown = desk[q].shown /\ told(q).cards = desk[q].cards
             /\ told(q).viewed = desk[q].viewed /\ told(q).marks = desk[q].marks
             /\ desk[q].open => told(q).open
             /\ flag => told(q).open
             /\ DeskType(desk[q], lastMark, lastReport, saves) /\ DeskInv(desk[q])
    <2>1. desk[q] \in DeskRecords /\ desk[q].open \in BOOLEAN
        BY DEF Inv, TInv, TypeOK, DeskRecords
    <2> DEFINE o == desk[q].open \/ flag
               d == [desk[q] EXCEPT !.open = o]
    <2>2. o \in BOOLEAN
        BY <1>2, <2>1
    <2>3. told(q) = d /\ (desk[q].open => o) /\ (flag => o)
        OBVIOUS
    <2> HIDE DEF o, flag, told
    <2>4. /\ d \in DeskRecords /\ d.phase = desk[q].phase
          /\ d.mark = desk[q].mark /\ d.rows = desk[q].rows
          /\ d.shown = desk[q].shown /\ d.cards = desk[q].cards
          /\ d.viewed = desk[q].viewed /\ d.marks = desk[q].marks /\ d.open = o
        BY <2>1, <2>2 DEF DeskRecords
    <2> HIDE DEF d
    <2> QED
        BY <2>3, <2>4 DEF Inv, TInv
<1> HIDE DEF told, flag
<1>4. /\ desk' \in [Requests -> DeskRecords]
      /\ \A q \in Requests : desk'[q] = Blank \/ desk'[q] = told(q)
    BY <1>1, <1>2, <1>3
<1>5. ASSUME NEW q \in Requests
      PROVE  DeskType(desk'[q], lastMark, lastReport, saves)
    <2>1. DeskType(told(q), lastMark, lastReport, saves)
        BY <1>3 DEF DeskType, Placed
    <2> QED
        BY <1>2, <1>4, <2>1 DEF Holds
<1>6. ASSUME NEW q \in Requests
      PROVE  MarkDesk(desk[q])' /\ CardDesk(desk[q])' /\ NoteDesk(desk[q])'
    <2>1. MarkDesk(desk'[q]) /\ CardDesk(desk'[q]) /\ NoteDesk(desk'[q])
        BY <1>2, <1>3, <1>4 DEF Holds, DeskInv, MarkDesk, CardDesk, NoteDesk
    <2> QED
        BY <1>1, <2>1 DEF MarkDesk, CardDesk, NoteDesk, Only
<1>7. ASSUME NEW q \in Requests
      PROVE  OpenDesk(desk[q])'
    <2>1. CASE desk'[q] = Blank
        BY <2>1 DEF OpenDesk, Blank
    <2>2. CASE desk'[q] = told(q)
        BY <1>1, <1>3, <2>2 DEF OpenDesk, DeskInv
    <2> QED
        BY <1>4, <2>1, <2>2
<1>8. TypeOK'
    <2>1. ASSUME NEW q \in Requests
          PROVE  (desk'[q].rows \union desk'[q].shown) \subseteq {a.id : a \in reports}
        BY <1>5 DEF DeskType, Inv, TInv, TypeOK
    <2> QED
        BY <1>1, <1>4, <2>1 DEF TypeOK, Inv, TInv
<1>9. TInv'
    BY <1>1, <1>5, <1>8 DEF TInv, Inv
<1> QED
    BY <1>1, <1>6, <1>7, <1>9
    DEF Inv, DeskInv, MarkedTwiceOnlyByOverlap, ReportedTwiceOnlyByOverlap

-----------------------------------------------------------------------------
(* Saving reports                                                          *)

\* A row keeps its id and student; its note changes only with the mark of this save.
Kept(a, b) ==
    /\ b \in ReportRecords /\ b.id = a.id /\ b.student = a.student /\ b.seen = a.seen
    /\ b.since = saves + 1 \/ (b.since = a.since /\ b.note = a.note)

LEMMA Rewrites ==
    ASSUME Inv, NEW r \in Requests, desk[r].phase = "saving",
           NEW a \in reports, a.id \in desk[r].rows
    PROVE  /\ Kept(a, Rewritten(a, desk[r].cards))
           /\ \E c \in desk[r].cards :
                 c.student = a.student /\ Rewritten(a, desk[r].cards).note = c.note
<1> DEFINE cards == desk[r].cards
           S == {c \in cards : c.student = a.student}
           IsLast(c) == c.student = a.student
                         /\ \A d \in cards : d.student = a.student => d.place <= c.place
           card == CHOOSE c \in cards : IsLast(c)
           since == IF card.note = a.note THEN a.since ELSE saves + 1
           w == [a EXCEPT !.note = card.note, !.since = since]
<1>1. /\ cards \subseteq CardRecords /\ a \in ReportRecords /\ saves \in Nat
      /\ IsFiniteSet(cards) /\ \A c, d \in cards : c.place = d.place => c = d
    BY DEF Inv, TInv, TypeOK, DeskType, DeskRecords
<1>2. IsFiniteSet(S) /\ S # {} /\ \A c \in S : c.place \in Nat
    <2>1. S # {}
        BY DEF Inv, DeskInv, CardDesk
    <2>2. S \in SUBSET cards
        OBVIOUS
    <2> HIDE DEF S
    <2> QED
        BY <1>1, <2>1, <2>2, FS_Subset DEF CardRecords
<1>3. \E c \in S : \A d \in S : d.place <= c.place
    <2> HIDE DEF S
    <2>1. \A c, d \in S : c.place = d.place => c = d
        BY <1>1 DEF S
    <2> QED
        BY <1>2, <2>1, LastPlace
<1>4. \E c \in cards : IsLast(c)
    BY <1>3
<1>5. card \in cards /\ card.student = a.student
    <2> HIDE DEF IsLast
    <2>1. card \in cards /\ IsLast(card)
        BY <1>4
    <2> QED
        BY <2>1 DEF IsLast
<1>6. Rewritten(a, cards) = w
    BY DEF Rewritten
<1> HIDE DEF card
<1>7. card.note \in Requests \union {None} /\ since \in Nat
    BY <1>1, <1>5 DEF CardRecords, ReportRecords
<1>8. since = saves + 1 \/ (since = a.since /\ card.note = a.note)
    OBVIOUS
<1> HIDE DEF since
<1>9. /\ w \in ReportRecords /\ w.id = a.id /\ w.student = a.student /\ w.seen = a.seen
      /\ w.note = card.note /\ w.since = since
    BY <1>1, <1>7 DEF ReportRecords
<1> HIDE DEF w
<1> QED
    BY <1>5, <1>6, <1>8, <1>9 DEF Kept

Found(r) == {a \in reports : a.id \in desk[r].rows}
Unfound(r) == {c \in desk[r].cards : \A a \in Found(r) : a.student # c.student}

\* The row inserted for card c.
Inserted(r, c) ==
    [id |-> lastReport + Rank(Unfound(r), c), student |-> c.student, note |-> c.note,
     seen |-> c.seen, since |-> saves + 1]

LEMMA Inserts ==
    ASSUME Inv, NEW r \in Requests
    PROVE  LET N == Cardinality(Unfound(r)) IN
           /\ N \in Nat
           /\ \A c \in Unfound(r) : /\ Inserted(r, c) \in ReportRecords
                                     /\ Inserted(r, c).id \in (lastReport + 1)..(lastReport + N)
                                     /\ Inserted(r, c).student = c.student
                                     /\ Inserted(r, c).seen = c.seen
                                     /\ Inserted(r, c).since = saves + 1
                                     /\ c.seen \in Nat /\ c.seen <= lastReport
           /\ \A c, d \in Unfound(r) : Inserted(r, c).id = Inserted(r, d).id => c = d
           /\ \A i \in (lastReport + 1)..(lastReport + N) :
                 \E c \in Unfound(r) : Inserted(r, c).id = i
<1> DEFINE S == Unfound(r)
           N == Cardinality(S)
<1>1. /\ desk[r].cards \subseteq CardRecords /\ IsFiniteSet(desk[r].cards)
      /\ \A c, d \in desk[r].cards : c.place = d.place => c = d
      /\ \A c \in desk[r].cards : c.seen <= lastReport
      /\ lastReport \in Nat /\ saves \in Nat
    BY DEF Inv, TInv, TypeOK, DeskType, DeskRecords
<1>2. S \in SUBSET desk[r].cards
    BY DEF Unfound
<1> HIDE DEF S
<1>3. IsFiniteSet(S) /\ \A c \in S : c \in CardRecords /\ c.place \in Nat
    BY <1>1, <1>2, FS_Subset DEF CardRecords
<1>4. \A c, d \in S : c.place = d.place => c = d
    BY <1>1, <1>2
<1>5. /\ N \in Nat
      /\ \A c \in S : Rank(S, c) \in 1..N
      /\ \A c, d \in S : Rank(S, c) = Rank(S, d) => c = d
      /\ \A i \in 1..N : \E c \in S : Rank(S, c) = i
    BY <1>3, <1>4, Ranks
<1> HIDE DEF N
<1>6. ASSUME NEW c \in S
      PROVE  /\ Inserted(r, c) \in ReportRecords
             /\ Inserted(r, c).id = lastReport + Rank(S, c)
             /\ Inserted(r, c).student = c.student /\ Inserted(r, c).seen = c.seen
             /\ Inserted(r, c).since = saves + 1
             /\ c.seen \in Nat /\ c.seen <= lastReport
    BY <1>1, <1>2, <1>3, <1>5 DEF Inserted, ReportRecords, CardRecords, S
<1>7. \A i \in (lastReport + 1)..(lastReport + N) : \E c \in S : Inserted(r, c).id = i
    <2> SUFFICES ASSUME NEW i \in (lastReport + 1)..(lastReport + N)
                 PROVE  \E c \in S : Inserted(r, c).id = i
        OBVIOUS
    <2>1. i - lastReport \in 1..N
        BY <1>1, <1>5
    <2>2. PICK c \in S : Rank(S, c) = i - lastReport
        BY <1>5, <2>1
    <2> QED
        BY <1>1, <1>6, <2>2
<1>8. \A c \in S : Inserted(r, c).id \in (lastReport + 1)..(lastReport + N)
    BY <1>1, <1>5, <1>6
<1>9. \A c, d \in S : Inserted(r, c).id = Inserted(r, d).id => c = d
    BY <1>1, <1>5, <1>6
<1> QED
    BY <1>5, <1>6, <1>7, <1>8, <1>9 DEF N, S

\* A row of the table after the save was kept or inserted by it.
LEMMA StoredRows ==
    ASSUME Inv, NEW r \in Requests, StoreReports(r)
    PROVE  /\ \A b \in reports' :
                 \/ \E a \in reports : Kept(a, b)
                 \/ \E c \in Unfound(r) : b = Inserted(r, c)
           /\ \A a \in reports : \E b \in reports' : Kept(a, b)
           /\ \A c \in Unfound(r) : Inserted(r, c) \in reports'
           /\ \A a \in reports, b \in reports' : a.id = b.id =>
                 b = a \/ (a \in Found(r) /\ b = Rewritten(a, desk[r].cards))
           /\ \A a, b \in reports' : a.id = b.id => a = b
<1> DEFINE re(a) == Rewritten(a, desk[r].cards)
<1>1. reports' = (reports \ Found(r)) \union {re(a) : a \in Found(r)}
                    \union {Inserted(r, c) : c \in Unfound(r)}
    BY DEF StoreReports, Found, Unfound, Inserted, Rank
<1>2. \A a \in Found(r) : a \in reports /\ Kept(a, re(a))
    BY Rewrites DEF Found, StoreReports
<1>3. /\ reports \subseteq ReportRecords /\ lastReport \in Nat
      /\ \A a \in reports : a.id \in 1..lastReport
      /\ \A a, b \in reports : a.id = b.id => a = b
    BY DEF Inv, TInv, TypeOK
<1>4. \A a \in reports : Kept(a, a)
    BY <1>3 DEF Kept
<1> HIDE DEF re
<1>5. \A c \in Unfound(r) : Inserted(r, c).id > lastReport
    BY <1>3, Inserts
<1>6. \A b \in reports' :
          \/ b \in reports /\ b \notin Found(r)
          \/ \E a \in Found(r) : b = re(a) /\ b.id = a.id
          \/ \E c \in Unfound(r) : b = Inserted(r, c)
    BY <1>1, <1>2 DEF Kept
<1>7. \A a \in reports, b \in reports' : a.id = b.id =>
          b = a \/ (a \in Found(r) /\ b = re(a))
    BY <1>2, <1>3, <1>5, <1>6
<1>8. \A a, b \in reports' : a.id = b.id => a = b
    <2> SUFFICES ASSUME NEW a \in reports', NEW b \in reports', a.id = b.id
                 PROVE  a = b
        OBVIOUS
    <2>1. CASE \E c \in Unfound(r) : a = Inserted(r, c)
        BY <1>2, <1>3, <1>5, <1>6, <2>1, Inserts
    <2>2. CASE \E x \in Found(r) : a = re(x) /\ a.id = x.id
        BY <1>2, <1>3, <1>5, <1>6, <2>2
    <2>3. CASE a \in reports /\ a \notin Found(r)
        BY <1>2, <1>3, <1>5, <1>6, <2>3
    <2> QED
        BY <1>6, <2>1, <2>2, <2>3
<1>9. \A b \in reports' : \/ \E a \in reports : Kept(a, b)
                          \/ \E c \in Unfound(r) : b = Inserted(r, c)
    BY <1>2, <1>4, <1>6
<1>10. \A a \in reports : \E b \in reports' : Kept(a, b)
    BY <1>1, <1>2, <1>4
<1> QED
    BY <1>1, <1>7, <1>8, <1>9, <1>10 DEF re

LEMMA StoreReportsType ==
    ASSUME Inv, NEW r \in Requests, StoreReports(r)
    PROVE  TInv'
<1> DEFINE n == lastReport + Cardinality(Unfound(r))
<1>1. /\ lastReport' = n /\ saves' = saves + 1 /\ Become(r, Blank)
      /\ UNCHANGED <<classList, marks, lastMark, release>>
    BY DEF StoreReports, Unfound, Found
<1>2. /\ lastReport \in Nat /\ saves \in Nat /\ n \in Nat /\ lastReport <= n
      /\ {a.id : a \in reports} = 1..lastReport
    BY Inserts DEF Inv, TInv, TypeOK
<1>3. ASSUME NEW b \in reports'
      PROVE  b \in ReportRecords /\ b.id \in 1..n
    <2>1. CASE \E a \in reports : Kept(a, b)
        BY <1>2, <2>1 DEF Kept
    <2>2. CASE \E c \in Unfound(r) : b = Inserted(r, c)
        BY <1>2, <2>2, Inserts
    <2> QED
        BY <2>1, <2>2, StoredRows
<1>4. ASSUME NEW i \in 1..n
      PROVE  \E b \in reports' : b.id = i
    <2>1. CASE i <= lastReport
        <3>1. i \in 1..lastReport
            BY <1>2, <2>1
        <3>2. PICK a \in reports : a.id = i
            BY <1>2, <3>1
        <3> QED
            BY <3>2, StoredRows DEF Kept
    <2>2. CASE ~(i <= lastReport)
        <3>1. i \in (lastReport + 1)..n
            BY <1>2, <2>2
        <3> QED
            BY <3>1, StoredRows, Inserts
    <2> QED
        BY <2>1, <2>2
<1>5. {b.id : b \in reports'} = 1..n
    BY <1>3, <1>4
<1>6. /\ desk' \in [Requests -> DeskRecords]
      /\ \A q \in Requests : desk'[q] = IF q = r THEN Blank ELSE desk[q]
    BY <1>1, BlankDesk
<1> HIDE DEF n
<1>7. ASSUME NEW q \in Requests
      PROVE  DeskType(desk'[q], lastMark, n, saves + 1)
    <2>1. DeskType(desk'[q], lastMark, lastReport, saves)
        BY <1>6, BlankHolds DEF Inv, TInv, Holds
    <2>2. \A c \in desk'[q].cards : c.seen \in Nat
        BY <2>1 DEF DeskType, DeskRecords, CardRecords
    <2>3. desk'[q].viewed \in Nat
        BY <2>1 DEF DeskType, DeskRecords
    <2> QED
        BY <1>2, <2>1, <2>2, <2>3 DEF DeskType
<1>8. TypeOK'
    <2>1. ASSUME NEW q \in Requests
          PROVE  (desk'[q].rows \union desk'[q].shown) \subseteq {b.id : b \in reports'}
        BY <1>5, <1>7 DEF DeskType
    <2> QED
        BY <1>1, <1>2, <1>3, <1>5, <1>6, <2>1, StoredRows DEF TypeOK, Inv, TInv
<1> QED
    BY <1>1, <1>7, <1>8 DEF TInv, Inv

\* A request that drafted or searched before this save will not know of it.
LEMMA StoreReportsInv ==
    ASSUME Inv, NEW r \in Requests, StoreReports(r)
    PROVE  Inv'
<1>1. /\ saves' = saves + 1 /\ Become(r, Blank) /\ desk[r].phase = "saving"
      /\ UNCHANGED <<classList, marks, lastMark, release>>
    BY DEF StoreReports
<1>2. /\ lastReport \in Nat /\ saves \in Nat
      /\ \A a \in reports : a.id \in 1..lastReport
    BY DEF Inv, TInv, TypeOK
<1>3. \A q \in Requests : desk'[q] = IF q = r THEN Blank ELSE desk[q]
    BY <1>1, BlankDesk
<1>4. ASSUME NEW q \in Requests
      PROVE  /\ DeskType(desk'[q], lastMark, lastReport, saves) /\ DeskInv(desk'[q])
             /\ \A c \in desk'[q].cards : c.seen \in Nat /\ c.seen <= lastReport
             /\ desk'[q].rows \subseteq 1..lastReport
             /\ desk'[q].viewed \in Nat /\ desk'[q].viewed <= saves
    <2>1. DeskType(desk'[q], lastMark, lastReport, saves) /\ DeskInv(desk'[q])
        BY <1>3, BlankHolds DEF Inv, TInv, Holds
    <2> QED
        BY <2>1 DEF DeskType, DeskRecords, CardRecords
<1>5. \A c \in Unfound(r) : Inserted(r, c).id > lastReport /\ Inserted(r, c).since = saves + 1
    BY <1>2, Inserts
<1>6. ASSUME NEW q \in Requests
      PROVE  CardDesk(desk[q])'
    <2> DEFINE d == desk'[q]
    <2> SUFFICES ASSUME d.phase = "saving"
                 PROVE  /\ \A c \in d.cards : \A a \in reports' :
                              a.student = c.student =>
                                 \/ a.id > c.seen
                                 \/ \E b \in reports' : b.id \in d.rows /\ b.student = c.student
                        /\ \A a \in reports' : a.id \in d.rows =>
                              \E c \in d.cards : c.student = a.student
        BY DEF CardDesk
    <2>1. CardDesk(d)
        BY <1>4 DEF DeskInv
    <2>2. ASSUME NEW c \in d.cards, NEW a \in reports', a.student = c.student
          PROVE  \/ a.id > c.seen
                 \/ \E b \in reports' : b.id \in d.rows /\ b.student = c.student
        <3>1. CASE \E x \in reports : Kept(x, a)
            <4>1. PICK x \in reports : Kept(x, a)
                BY <3>1
            <4>2. CASE x.id > c.seen
                BY <4>1, <4>2 DEF Kept
            <4>3. CASE \E b \in reports : b.id \in d.rows /\ b.student = c.student
                BY <4>3, StoredRows DEF Kept
            <4> QED
                BY <2>1, <2>2, <4>1, <4>2, <4>3 DEF CardDesk, Kept
        <3>2. CASE \E x \in Unfound(r) : a = Inserted(r, x)
            BY <1>2, <1>4, <3>2, Inserts
        <3> QED
            BY <3>1, <3>2, StoredRows
    <2>3. ASSUME NEW a \in reports', a.id \in d.rows
          PROVE  \E c \in d.cards : c.student = a.student
        <3>1. a.id \in 1..lastReport
            BY <1>4, <2>3
        <3>2. PICK x \in reports : Kept(x, a)
            BY <1>2, <1>5, <3>1, StoredRows
        <3> QED
            BY <2>1, <2>3, <3>2 DEF CardDesk, Kept
    <2> QED
        BY <2>2, <2>3
<1>7. ASSUME NEW q \in Requests
      PROVE  NoteDesk(desk[q])'
    <2> DEFINE d == desk'[q]
    <2> SUFFICES ASSUME d.phase \in {"drafted", "saving"}, NEW c \in d.cards, NEW a \in reports',
                        ~c.mine, a.student = c.student, a.since <= d.viewed, Only(a)'
                 PROVE  c.note = a.note
        BY DEF NoteDesk
    <2>1. NoteDesk(d) /\ a.since # saves + 1
        BY <1>2, <1>4 DEF DeskInv
    <2>2. PICK x \in reports : Kept(x, a)
        BY <1>5, <2>1, StoredRows
    <2>3. x.since = a.since /\ x.note = a.note /\ x.student = a.student /\ x.id = a.id
        BY <2>1, <2>2 DEF Kept
    <2>4. ASSUME NEW y \in reports, y.student = x.student
          PROVE  y.id = x.id
        <3>1. PICK z \in reports' : Kept(y, z)
            BY StoredRows
        <3> QED
            BY <2>3, <2>4, <3>1 DEF Kept, Only
    <2> QED
        BY <2>1, <2>3, <2>4 DEF NoteDesk, Only
<1>8. ASSUME NEW q \in Requests
      PROVE  MarkDesk(desk[q])' /\ OpenDesk(desk[q])'
    BY <1>1, <1>4 DEF DeskInv, MarkDesk, OpenDesk
<1>9. ASSUME NEW a \in reports', NEW b \in reports', a.student = b.student, a.id < b.id
      PROVE  a.id > b.seen
    <2>1. CASE \E c \in Unfound(r) : a = Inserted(r, c)
        <3>1. a.id > lastReport /\ a.id \in Nat
            BY <1>2, <1>5, <2>1, Inserts
        <3>2. b.id > lastReport /\ b.id \in Nat
            <4>1. b.id \in Nat
                BY StoreReportsType DEF TInv, TypeOK, ReportRecords
            <4> QED
                BY <1>2, <1>9, <3>1, <4>1
        <3>3. PICK c \in Unfound(r) : b = Inserted(r, c)
            <4>1. ~\E y \in reports : Kept(y, b)
                BY <1>2, <3>2 DEF Kept
            <4> QED
                BY <4>1, StoredRows
        <3> QED
            BY <1>2, <3>1, <3>3, Inserts
    <2>2. CASE \E x \in reports : Kept(x, a)
        <3>1. PICK x \in reports : Kept(x, a)
            BY <2>2
        <3>2. CASE \E y \in reports : Kept(y, b)
            BY <1>9, <3>1, <3>2 DEF Kept, Inv, ReportedTwiceOnlyByOverlap
        <3>3. CASE \E c \in Unfound(r) : b = Inserted(r, c)
            <4>1. PICK c \in Unfound(r) : b = Inserted(r, c)
                BY <3>3
            <4>2. c \in desk[r].cards /\ b.student = c.student /\ b.seen = c.seen
                BY <4>1, Inserts DEF Unfound
            <4>3. ~\E z \in reports : z.id \in desk[r].rows /\ z.student = c.student
                BY DEF Unfound, Found
            <4>4. CardDesk(desk[r])
                BY DEF Inv, DeskInv
            <4> QED
                BY <1>1, <1>9, <3>1, <4>2, <4>3, <4>4 DEF CardDesk, Kept
        <3> QED
            BY <3>2, <3>3, StoredRows
    <2> QED
        BY <2>1, <2>2, StoredRows
<1>10. MarkedTwiceOnlyByOverlap'
    BY <1>1 DEF Inv, MarkedTwiceOnlyByOverlap
<1> QED
    BY <1>6, <1>7, <1>8, <1>9, <1>10, StoreReportsType
    DEF Inv, DeskInv, ReportedTwiceOnlyByOverlap

-----------------------------------------------------------------------------
(* Places                                                                  *)

LEMMA Fair == Inv => PositionsFair
<1> SUFFICES ASSUME Inv, NEW r \in Requests
             PROVE  LET read == desk[r].marks IN
                    /\ \A m \in read :
                          Position(read, m) = 1 + Cardinality({a \in read : a.subject = m.subject
                                                                            /\ a.score > m.score})
                    /\ \A c, d \in desk[r].cards :
                          \A m, n \in read :
                              /\ Of(read, c.student) = {m} /\ Of(read, d.student) = {n}
                              /\ m.subject = n.subject /\ Position(read, m) < Position(read, n)
                              => c.place < d.place
    BY DEF PositionsFair
<1> DEFINE read == desk[r].marks
           above(m) == {a \in read : a.subject = m.subject /\ a.score > m.score}
<1>1. IsFiniteSet(read) /\ (\A a \in read : a.score \in Nat) /\ Placed(desk[r])
    BY ScoresAssumption DEF Inv, TInv, TypeOK, DeskType, DeskRecords, MarkRecords
<1> HIDE DEF read
<1>2. ASSUME NEW m \in read
      PROVE  /\ Position(read, m) = 1 + Cardinality(above(m))
             /\ IsFiniteSet(above(m)) /\ Cardinality(above(m)) \in Nat
    <2>1. Position(read, m) = Standing(Peers(read, m), m)
        BY <1>1, PositionCounts
    <2>2. Better(Peers(read, m), m) = above(m)
        BY DEF Better, Peers
    <2>3. above(m) \in SUBSET read
        OBVIOUS
    <2> HIDE DEF above
    <2>4. IsFiniteSet(above(m)) /\ Cardinality(above(m)) \in Nat
        BY <1>1, <2>3, FS_Subset, FS_CardinalityType
    <2> QED
        BY <2>1, <2>2, <2>4 DEF Standing
<1>3. ASSUME NEW c \in desk[r].cards, NEW d \in desk[r].cards, NEW m \in read, NEW n \in read,
             Of(read, c.student) = {m}, Of(read, d.student) = {n},
             m.subject = n.subject, Position(read, m) < Position(read, n)
      PROVE  c.place < d.place
    <2>1. m.score > n.score
        <3>1. SUFFICES ASSUME m.score <= n.score PROVE FALSE
            BY <1>1
        <3>2. above(n) \in SUBSET above(m)
            BY <1>1, <1>3, <3>1
        <3> HIDE DEF above
        <3>3. Cardinality(above(n)) <= Cardinality(above(m))
            BY <1>2, <3>2, FS_Subset
        <3> QED
            BY <1>2, <1>3, <3>3
    <2>2. Total(read, c.student) = m.score /\ Total(read, d.student) = n.score
        BY <1>1, <1>3, TotalOfOne
    <2>3. Cardinality(Of(read, c.student)) = 1 /\ Cardinality(Of(read, d.student)) = 1
        BY <1>3, FS_Singleton
    <2>4. Higher(read, c.student, d.student)
        <3>1. m.score \in Nat /\ n.score \in Nat
            BY <1>1
        <3> QED
            BY <2>1, <2>2, <2>3, <3>1 DEF Higher
    <2> QED
        BY <1>1, <2>4 DEF Placed, read
<1> QED
    BY <1>2, <1>3 DEF read

-----------------------------------------------------------------------------
(* Theorems                                                                *)

LEMMA InitInv == Init => Inv
<1> SUFFICES ASSUME Init PROVE Inv
    OBVIOUS
<1>1. /\ lastMark = 0 /\ lastReport = 0 /\ saves = 0 /\ marks = {} /\ reports = {}
      /\ release = "none" /\ classList \in [Students -> 0..MaxEnrolled]
      /\ \A r \in Requests : desk[r] = Blank
    BY DEF Init
<1>2. Blank \in DeskRecords /\ desk \in [Requests -> DeskRecords]
    BY DEF DeskRecords, Blank, Init
<1>3. TypeOK
    BY <1>1, <1>2 DEF TypeOK, Blank
<1>4. ASSUME NEW r \in Requests
      PROVE  DeskType(desk[r], lastMark, lastReport, saves)
    <2>1. /\ Blank.phase = "idle" /\ Blank.mark.seen = 0 /\ Blank.rows = {} /\ Blank.shown = {}
          /\ Blank.cards = {} /\ Blank.viewed = 0 /\ Blank.marks = {}
        BY DEF Blank, NoMark
    <2>2. DeskType(Blank, 0, 0, 0)
        BY <1>2, <2>1, FS_EmptySet DEF DeskType, Placed
    <2> QED
        BY <1>1, <2>2
<1>5. TInv
    BY <1>1, <1>3, <1>4 DEF TInv
<1> QED
    BY <1>1, <1>5, BlankHolds
    DEF Inv, Holds, MarkedTwiceOnlyByOverlap, ReportedTwiceOnlyByOverlap

\* What requests know of marks, reports and the release stays true through every query
\* of every other request.
THEOREM NextInv == Inv /\ [Next]_vars => Inv'
<1> SUFFICES ASSUME Inv, [Next]_vars PROVE Inv'
    OBVIOUS
<1>1. ASSUME NEW r \in Requests,
             \/ \E s \in Students, u \in Subjects, v \in Scores : FindMark(r, s, u, v)
             \/ ReadMarks(r)
             \/ Draft(r)
             \/ \E c \in desk[r].cards : WriteNote(r, c)
             \/ FindStored(r)
             \/ \E released \in BOOLEAN : FindRelease(r, released)
             \/ \E i \in desk[r].rows : IsReleased(r, i)
             \/ Download(r)
      PROVE  Inv'
    <2>1. \E d : Become(r, d) /\ UNCHANGED tables /\ Holds(d)
        BY <1>1, FindMarkHolds, ReadMarksHolds, DraftHolds, WriteNoteHolds, FindStoredHolds,
           FindReleaseHolds, IsReleasedHolds, DownloadHolds
    <2> QED
        BY <2>1, ReadInv
<1>2. ASSUME NEW r \in Requests, NEW s \in Students, ListReports(r, s)
      PROVE  Inv'
    <2> DEFINE ids == {a.id : a \in {b \in reports : b.student = s}}
    <2>1. Become(r, Ask("listing", ids)) /\ UNCHANGED tables
        BY <1>2 DEF ListReports, tables
    <2>2. ids \in SUBSET (1..lastReport)
        BY DEF Inv, TInv, TypeOK
    <2> HIDE DEF ids
    <2> QED
        BY <2>1, <2>2, AskHolds, ReadInv
<1>3. ASSUME NEW r \in Requests, AskDownload(r)
      PROVE  Inv'
    <2>1. Become(r, Ask("cleared", {})) /\ UNCHANGED tables /\ release = "released"
        BY <1>3 DEF AskDownload, tables
    <2>2. Holds(Ask("cleared", {}))
        BY <2>1, AskHolds
    <2> QED
        BY <2>1, <2>2, ReadInv
<1>4. ASSUME NEW r \in Requests, Finish(r)
      PROVE  Inv'
    BY <1>4, BlankHolds, ReadInv DEF Finish, tables, Inv
<1>5. CASE UNCHANGED vars
    BY <1>5 DEF vars, Inv, TInv, TypeOK, DeskType, Placed, DeskInv, MarkDesk, CardDesk, NoteDesk,
                OpenDesk, Only, MarkedTwiceOnlyByOverlap, ReportedTwiceOnlyByOverlap
<1> QED
    BY <1>1, <1>2, <1>3, <1>4, <1>5, UpdateMarkInv, InsertMarkInv, DeleteMarkInv,
       StoreReportsInv, SaveReleaseInv DEF Next

\* So it is true in every state that marks and reports requests reach.
THEOREM Invariance == Spec => []Inv
BY InitInv, NextInv, PTL DEF Spec

\* Ids of marks and reports are those of one row, and what a request holds of the
\* reports exists: save never meets a row that is gone.
THEOREM TypeCorrect == Spec => []TypeOK
<1>1. Inv => TypeOK
    BY DEF Inv, TInv
<1> QED
    BY <1>1, Invariance, PTL

\* createMark gives a student two marks in a subject only through an overlap of two
\* searches.
THEOREM MarkedTwice == Spec => []MarkedTwiceOnlyByOverlap
<1>1. Inv => MarkedTwiceOnlyByOverlap
    BY DEF Inv
<1> QED
    BY <1>1, Invariance, PTL

\* saveReports gives a student two reports only through an overlap of two saves or a
\* class list that names him twice.
THEOREM ReportedTwice == Spec => []ReportedTwiceOnlyByOverlap
<1>1. Inv => ReportedTwiceOnlyByOverlap
    BY DEF Inv
<1> QED
    BY <1>1, Invariance, PTL

\* getStudentReports and downloadReport show a report only if it was released at some
\* moment of the request.
THEOREM ShownReleased == Spec => []ShownIsReleased
<1>1. Inv => ShownIsReleased
    BY DEF Inv, DeskInv, OpenDesk, ShownIsReleased
<1> QED
    BY <1>1, Invariance, PTL

\* In every state: what a family sees is released, and generateReports gives each mark
\* the place after all marks above it, each card of a single mark its place by that.
THEOREM ShownFair == Spec => []ShownIsFair
<1>1. Inv => ShownIsReleased /\ PositionsFair
    BY Fair DEF Inv, DeskInv, OpenDesk, ShownIsReleased
<1>2. Inv => ShownIsFair
    BY <1>1 DEF ShownIsFair
<1> QED
    BY <1>2, Invariance, PTL

\* saveReports takes a note off a stored report only with a card generated before the
\* note was stored, or for a student with two reports.
THEOREM NotesLost == Spec => NotesLostOnlyByStaleDraft
<1> DEFINE A == \A a \in reports, b \in reports' :
              a.id = b.id /\ a.note # None /\ a.note # b.note =>
                 \E r \in Requests :
                    /\ desk[r].phase = "saving" /\ desk'[r].phase = "idle"
                    /\ \/ desk[r].viewed < a.since
                       \/ \E c \in desk[r].cards : c.student = a.student /\ c.mine
                       \/ \E d \in reports : d.student = a.student /\ d.id # a.id
<1>1. ASSUME Inv, [Next]_vars
      PROVE  A
    <2>1. CASE reports' = reports
        BY <1>1, <2>1 DEF Inv, TInv, TypeOK
    <2>2. CASE \E r \in Requests : StoreReports(r)
        <3>1. PICK r \in Requests : StoreReports(r)
            BY <2>2
        <3>2. desk[r].phase = "saving" /\ desk'[r].phase = "idle"
            <4>1. desk[r].phase = "saving" /\ Become(r, Blank)
                BY <3>1 DEF StoreReports
            <4>2. desk'[r] = Blank
                BY <1>1, <4>1, BlankDesk
            <4> QED
                BY <4>1, <4>2 DEF Blank
        <3>3. SUFFICES ASSUME NEW a \in reports, NEW b \in reports', a.id = b.id, a.note # b.note,
                              ~(desk[r].viewed < a.since), Only(a),
                              ~\E c \in desk[r].cards : c.student = a.student /\ c.mine
                       PROVE  FALSE
            BY <3>2 DEF Only
        <3>4. a \in Found(r) /\ b = Rewritten(a, desk[r].cards)
            BY <1>1, <3>1, <3>3, StoredRows
        <3>5. PICK c \in desk[r].cards : c.student = a.student /\ b.note = c.note
            BY <1>1, <3>2, <3>4, Rewrites DEF Found
        <3>6. a.since <= desk[r].viewed
            <4>1. a.since \in Nat /\ desk[r].viewed \in Nat
                BY <1>1 DEF Inv, TInv, TypeOK, ReportRecords, DeskRecords
            <4> QED
                BY <3>3, <4>1
        <3>7. NoteDesk(desk[r])
            BY <1>1 DEF Inv, DeskInv
        <3> QED
            BY <3>2, <3>3, <3>5, <3>6, <3>7 DEF NoteDesk
    <2>3. reports' = reports \/ \E r \in Requests : StoreReports(r)
        BY <1>1 DEF Next, vars, FindMark, UpdateMark, InsertMark, DeleteMark, ReadMarks, Draft,
           WriteNote, FindStored, FindRelease, SaveRelease, ListReports, IsReleased,
           AskDownload, Download, Finish
    <2> QED
        BY <2>1, <2>2, <2>3
<1>2. Inv /\ [Next]_vars => [A]_vars
    BY <1>1
<1>3. Spec => [][A]_vars
    BY <1>2, Invariance, PTL DEF Spec
<1> QED
    BY <1>3 DEF NotesLostOnlyByStaleDraft

\* createMark and saveReports copy a row only through an overlap.
THEOREM CopiedOnce == Spec => []CopiedOnlyByOverlap
<1>1. MarkedTwiceOnlyByOverlap /\ ReportedTwiceOnlyByOverlap => CopiedOnlyByOverlap
    BY DEF CopiedOnlyByOverlap
<1> QED
    BY <1>1, MarkedTwice, ReportedTwice, PTL
=============================================================================
