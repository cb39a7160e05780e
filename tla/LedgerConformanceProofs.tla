---------------------- MODULE LedgerConformanceProofs ----------------------
(***************************************************************************)
(* What the services compute is what the reference ledger computes, up to  *)
(* the tolerance, for any number of invoices and receipts and any amounts. *)
(* Both are loops that pay invoices in order; first such a loop on its own,*)
(* then two of them next to each other, for the rebuild and, run by run,   *)
(* for the reconciliation; last, what the operations keep that the         *)
(* comparison needs.                                                       *)
(***************************************************************************)
EXTENDS LedgerConformance, StudentLedgerProofs

-----------------------------------------------------------------------------
(* Paying what is owed in order                                            *)

\* What counts as owed of the balances b, and its sum over the invoices of s.
Owing(b)   == [i \in Invoices |-> IF b[i] > Tol THEN b[i] ELSE 0]
Owed(b, s) == SumFunctionOnSet(Owing(b), s)

\* What the invoices of s were paid if their balances went from b to a.
Drops(b, a)   == [i \in Invoices |-> b[i] - a[i]]
Drop(b, a, s) == SumFunctionOnSet(Drops(b, a), s)

Balances == [Invoices -> Nat]

\* Sums of balances are taken over finitely many invoices.
LEMMA OwingTyped ==
    ASSUME NEW b \in Balances, NEW a \in Balances, NEW s \in SUBSET Invoices
    PROVE  /\ IsFiniteSet(s)
           /\ \A i \in Invoices : Owing(b)[i] \in Nat /\ Drops(b, a)[i] \in Int
           /\ Owed(b, s) \in Nat /\ Drop(b, a, s) \in Int
<1>1. IsFiniteSet(s)
    BY FS_Subset, IdsAssumption
<1>2. \A i \in Invoices : Owing(b)[i] \in Nat /\ Drops(b, a)[i] \in Int
    BY DEF Owing, Drops, Balances
<1>3. \A i \in s : Owing(b)[i] \in Nat /\ Drops(b, a)[i] \in Int
    BY <1>2
<1>4. Owed(b, s) \in Nat
    <2> DEFINE f == Owing(b)
    <2>1. \A i \in s : f[i] \in Nat
        BY <1>3
    <2> HIDE DEF f
    <2>2. SumFunctionOnSet(f, s) \in Nat
        BY <1>1, <2>1, SumNat
    <2> QED
        BY <2>2 DEF f, Owed
<1>5. Drop(b, a, s) \in Int
    <2> DEFINE f == Drops(b, a)
    <2>1. \A i \in s : f[i] \in Int
        BY <1>3
    <2> HIDE DEF f
    <2>2. SumFunctionOnSet(f, s) \in Int
        BY <1>1, <2>1, SumInt
    <2> QED
        BY <2>2 DEF f, Drop
<1> QED
    BY <1>1, <1>2, <1>4, <1>5

\* Nothing is owed by no invoice.
LEMMA OwedEmpty ==
    ASSUME NEW b, NEW a
    PROVE  Owed(b, {}) = 0 /\ Drop(b, a, {}) = 0
BY SumEmpty DEF Owed, Drop

\* One invoice more.
LEMMA OwedStep ==
    ASSUME NEW b \in Balances, NEW a \in Balances, NEW s \in SUBSET Invoices, NEW i \in s
    PROVE  /\ Owed(b, s) = Owing(b)[i] + Owed(b, s \ {i})
           /\ Drop(b, a, s) = (b[i] - a[i]) + Drop(b, a, s \ {i})
<1>1. IsFiniteSet(s) /\ \A j \in s : Owing(b)[j] \in Int /\ Drops(b, a)[j] \in Int
    BY OwingTyped
<1>2. Owed(b, s) = Owing(b)[i] + Owed(b, s \ {i})
    <2> DEFINE f == Owing(b)
    <2>1. \A j \in s : f[j] \in Int
        BY <1>1
    <2> HIDE DEF f
    <2>2. SumFunctionOnSet(f, s) = f[i] + SumFunctionOnSet(f, s \ {i})
        BY <1>1, <2>1, SumStep
    <2> QED
        BY <2>2 DEF f, Owed
<1>3. Drop(b, a, s) = Drops(b, a)[i] + Drop(b, a, s \ {i})
    <2> DEFINE f == Drops(b, a)
    <2>1. \A j \in s : f[j] \in Int
        BY <1>1
    <2> HIDE DEF f
    <2>2. SumFunctionOnSet(f, s) = f[i] + SumFunctionOnSet(f, s \ {i})
        BY <1>1, <2>1, SumStep
    <2> QED
        BY <2>2 DEF f, Drop
<1>4. Drops(b, a)[i] = b[i] - a[i]
    BY DEF Drops
<1> QED
    BY <1>2, <1>3, <1>4

\* Only the balances of the invoices summed matter.
LEMMA OwedSame ==
    ASSUME NEW b \in Balances, NEW a \in Balances, NEW c \in Balances,
           NEW s \in SUBSET Invoices, \A i \in s : c[i] = a[i]
    PROVE  Owed(c, s) = Owed(a, s) /\ Drop(b, c, s) = Drop(b, a, s)
<1>1. IsFiniteSet(s) /\ \A j \in s : Owing(a)[j] \in Int /\ Drops(b, a)[j] \in Int
    BY OwingTyped
<1>2. \A j \in s : Owing(c)[j] = Owing(a)[j] /\ Drops(b, c)[j] = Drops(b, a)[j]
    BY DEF Owing, Drops
<1>3. Owed(c, s) = Owed(a, s)
    <2> DEFINE f == Owing(a)  g == Owing(c)
    <2>1. \A j \in s : f[j] \in Int /\ g[j] = f[j]
        BY <1>1, <1>2
    <2> HIDE DEF f, g
    <2>2. SumFunctionOnSet(g, s) = SumFunctionOnSet(f, s)
        BY <1>1, <2>1, SumCongruent
    <2> QED
        BY <2>2 DEF f, g, Owed
<1>4. Drop(b, c, s) = Drop(b, a, s)
    <2> DEFINE f == Drops(b, a)  g == Drops(b, c)
    <2>1. \A j \in s : f[j] \in Int /\ g[j] = f[j]
        BY <1>1, <1>2
    <2> HIDE DEF f, g
    <2>2. SumFunctionOnSet(g, s) = SumFunctionOnSet(f, s)
        BY <1>1, <2>1, SumCongruent
    <2> QED
        BY <2>2 DEF f, g, Drop
<1> QED
    BY <1>3, <1>4

\* Nothing owed, if every balance of s is within the tolerance; and if some is not, more.
LEMMA OwedZero ==
    ASSUME NEW b \in Balances, NEW s \in SUBSET Invoices
    PROVE  /\ (\A i \in s : b[i] <= Tol) => Owed(b, s) = 0
           /\ \A i \in s : b[i] > Tol => b[i] <= Owed(b, s)
<1>1. IsFiniteSet(s) /\ \A j \in s : Owing(b)[j] \in Nat
    BY OwingTyped
<1>2. \A i \in s : Owing(b)[i] = IF b[i] > Tol THEN b[i] ELSE 0
    BY DEF Owing
<1>3. \A i \in s : b[i] \in Nat
    BY DEF Balances
<1> DEFINE f == Owing(b)
<1>4. IsFiniteSet(s) /\ \A j \in s : f[j] \in Nat
    BY <1>1
<1>5. \A j \in s : f[j] = IF b[j] > Tol THEN b[j] ELSE 0
    BY <1>2
<1>6. Owed(b, s) = SumFunctionOnSet(f, s)
    BY DEF Owed
<1> HIDE DEF f
<1>7. ASSUME \A i \in s : b[i] <= Tol
      PROVE  Owed(b, s) = 0
    <2>1. \A j \in s : f[j] = 0
        BY <1>3, <1>5, <1>7, AmountsAssumption
    <2> QED
        BY <1>4, <1>6, <2>1, SumZero
<1>8. ASSUME NEW i \in s, b[i] > Tol
      PROVE  b[i] <= Owed(b, s)
    <2>1. f[i] <= SumFunctionOnSet(f, s)
        BY <1>4, SumElement
    <2> QED
        BY <1>5, <1>6, <1>8, <2>1
<1> QED
    BY <1>7, <1>8

\* An amount A went over s, from the balances b to a, unless the last `slack' of it was
\* dropped.  What pays everything owed pays exactly that; what does not is spent, and may
\* leave one balance within the tolerance, which is no longer owed.
Takes(b, a, A, s, slack) ==
    /\ Owed(b, s) <= A => Drop(b, a, s) = Owed(b, s) /\ \A i \in s : b[i] > Tol => a[i] = 0
    /\ Owed(b, s) > A =>
         /\ A - slack <= Drop(b, a, s) /\ Drop(b, a, s) <= A
         /\ Owed(b, s) - A - Tol <= Owed(a, s) /\ Owed(a, s) <= Owed(b, s) - A + slack

\* What the next invoice gets of what is left: none of the last `slack'.
Taking(left, owed, slack) == IF owed > Tol /\ left > slack THEN Least(left, owed) ELSE 0

\* Only the balances of s matter.
LEMMA TakesSame ==
    ASSUME NEW b \in Balances, NEW a \in Balances, NEW c \in Balances, NEW A, NEW slack,
           NEW s \in SUBSET Invoices, \A i \in s : c[i] = a[i], Takes(b, a, A, s, slack)
    PROVE  Takes(b, c, A, s, slack)
<1>1. Owed(c, s) = Owed(a, s) /\ Drop(b, c, s) = Drop(b, a, s)
    BY OwedSame
<1>2. \A i \in s : (b[i] > Tol => a[i] = 0) => (b[i] > Tol => c[i] = 0)
    OBVIOUS
<1> QED
    BY <1>1, <1>2 DEF Takes

\* One invoice i of s after the others: it gets x of what is left, and c is the result.
OneMore(b, a, c, A, slack, s, t, i, x) ==
    /\ b \in Balances /\ a \in Balances /\ c \in Balances
    /\ A \in Nat /\ slack \in {0, Tol}
    /\ s \in SUBSET Invoices /\ i \in s /\ t = s \ {i}
    /\ Takes(b, a, A, t, slack)
    /\ x = Taking(A - Drop(b, a, t), b[i], slack)
    /\ c[i] = b[i] - x
    /\ \A j \in t : a[j] <= b[j] /\ c[j] = a[j]

\* What was paid goes up to s.
LEMMA TakeOne ==
    ASSUME NEW b, NEW a, NEW c, NEW A, NEW slack, NEW s, NEW t, NEW i, NEW x,
           OneMore(b, a, c, A, slack, s, t, i, x)
    PROVE  /\ Takes(b, c, A, s, slack)
           /\ Drop(b, c, s) = Drop(b, a, t) + x
           /\ x > 0 => Owed(b, t) <= A
<1> DEFINE o  == Owed(b, t)
           p  == Owed(a, t)
           dp == Drop(b, a, t)
<1>0. /\ b \in Balances /\ a \in Balances /\ c \in Balances
      /\ A \in Nat /\ slack \in {0, Tol}
      /\ s \in SUBSET Invoices /\ i \in s /\ t = s \ {i} /\ t \in SUBSET Invoices
      /\ Takes(b, a, A, t, slack)
      /\ x = Taking(A - Drop(b, a, t), b[i], slack)
      /\ c[i] = b[i] - x
      /\ \A j \in t : a[j] <= b[j] /\ c[j] = a[j]
    BY DEF OneMore
<1>1. /\ Owed(b, s) = Owing(b)[i] + o /\ Owed(c, s) = Owing(c)[i] + Owed(c, t)
      /\ Drop(b, c, s) = (b[i] - c[i]) + Drop(b, c, t)
    <2>1. \A y \in Balances : Owed(y, s) = Owing(y)[i] + Owed(y, s \ {i})
        BY <1>0, OwedStep
    <2>2. Drop(b, c, s) = (b[i] - c[i]) + Drop(b, c, s \ {i})
        BY <1>0, OwedStep
    <2> QED
        BY <1>0, <2>1, <2>2
<1>2. Owed(c, t) = p /\ Drop(b, c, t) = dp
    <2>1. \A j \in t : c[j] = a[j]
        BY <1>0
    <2> QED
        BY <1>0, <2>1, OwedSame
<1>3. o \in Nat /\ p \in Nat /\ dp \in Int
    BY <1>0, OwingTyped
<1>4. b[i] \in Nat /\ c[i] \in Nat /\ Tol \in Nat /\ slack \in Nat
    BY <1>0, AmountsAssumption DEF Balances
<1>5. /\ Owing(b)[i] = IF b[i] > Tol THEN b[i] ELSE 0
      /\ Owing(c)[i] = IF c[i] > Tol THEN c[i] ELSE 0
    BY <1>0 DEF Owing
<1>6. /\ o <= A => dp = o /\ \A j \in t : b[j] > Tol => a[j] = 0
      /\ o > A => /\ A - slack <= dp /\ dp <= A
                  /\ o - A - Tol <= p /\ p <= o - A + slack
    BY <1>0 DEF Takes
<1>7. x = IF b[i] > Tol /\ A - dp > slack THEN Least(A - dp, b[i]) ELSE 0
    BY <1>0 DEF Taking
<1>8. o <= A => p = 0
    <2>1. ASSUME o <= A
          PROVE  p = 0
        <3>1. \A j \in t : a[j] <= Tol
            <4>1. ASSUME NEW j \in t
                  PROVE  a[j] <= Tol
                <5>1. a[j] \in Nat /\ b[j] \in Nat /\ a[j] <= b[j]
                    BY <1>0 DEF Balances
                <5> QED
                    BY <1>0, <1>4, <1>6, <2>1, <5>1
            <4> QED
                BY <1>0, <4>1
        <3> QED
            BY <1>0, <3>1, OwedZero
    <2> QED
        BY <1>0, <2>1
<1>9. \A j \in s : b[j] > Tol /\ j # i => c[j] = a[j]
    BY <1>0
<1> HIDE DEF o, p, dp
<1>10. x \in Nat /\ (x > 0 => o <= A)
    BY <1>0, <1>3, <1>4, <1>6, <1>7 DEF Least
<1>11. Drop(b, c, s) = dp + x
    BY <1>0, <1>1, <1>2, <1>3, <1>4, <1>10
<1>12. CASE o > A
    <2>1. x = 0 /\ c[i] = b[i]
        BY <1>0, <1>3, <1>4, <1>10, <1>12
    <2>2. Owed(b, s) > A
        BY <1>0, <1>1, <1>3, <1>4, <1>5, <1>12
    <2>3. /\ A - slack <= Drop(b, c, s) /\ Drop(b, c, s) <= A
          /\ Owed(b, s) - A - Tol <= Owed(c, s) /\ Owed(c, s) <= Owed(b, s) - A + slack
        BY <1>0, <1>1, <1>2, <1>3, <1>4, <1>5, <1>6, <1>11, <1>12, <2>1
    <2>4. Owed(b, s) \in Nat
        BY <1>0, OwingTyped
    <2> QED
        BY <1>0, <1>10, <1>11, <2>2, <2>3, <2>4 DEF Takes, o, dp
<1>13. CASE o <= A
    <2>0. dp = o /\ p = 0
        BY <1>0, <1>6, <1>8, <1>13
    <2>1. CASE Owed(b, s) <= A
        <3>1. b[i] > Tol => x = b[i]
            BY <1>0, <1>1, <1>3, <1>4, <1>5, <1>7, <2>0, <2>1 DEF Least
        <3>2. b[i] <= Tol => x = 0
            BY <1>0, <1>4, <1>7
        <3>3. Drop(b, c, s) = Owed(b, s)
            BY <1>0, <1>1, <1>3, <1>4, <1>5, <1>11, <2>0, <3>1, <3>2
        <3>4. b[i] > Tol => c[i] = 0
            BY <1>0, <1>4, <3>1
        <3>5. \A j \in s : b[j] > Tol => c[j] = 0
            BY <1>0, <1>6, <1>9, <1>13, <3>4
        <3>6. Takes(b, c, A, s, slack)
            BY <1>0, <2>1, <3>3, <3>5, OwingTyped DEF Takes
        <3> QED
            BY <1>0, <1>10, <1>11, <3>6 DEF o, dp
    <2>2. CASE Owed(b, s) > A
        <3>1. b[i] > Tol /\ Owed(b, s) = b[i] + o
            BY <1>0, <1>1, <1>3, <1>4, <1>5, <1>13, <2>2
        <3>2. x = IF A - o > slack THEN A - o ELSE 0
            BY <1>0, <1>3, <1>4, <1>7, <1>13, <2>0, <2>2, <3>1 DEF Least
        <3>3. A - slack <= Drop(b, c, s) /\ Drop(b, c, s) <= A
            BY <1>0, <1>3, <1>4, <1>11, <1>13, <2>0, <3>2
        <3>4. Owed(c, s) = IF c[i] > Tol THEN c[i] ELSE 0
            BY <1>0, <1>1, <1>2, <1>4, <1>5, <2>0
        <3>5. Owed(b, s) - A - Tol <= Owed(c, s) /\ Owed(c, s) <= Owed(b, s) - A + slack
            BY <1>0, <1>3, <1>4, <1>13, <3>1, <3>2, <3>4
        <3>6. Takes(b, c, A, s, slack)
            BY <1>0, <2>2, <3>3, <3>5, OwingTyped DEF Takes
        <3> QED
            BY <1>0, <1>10, <1>11, <3>6 DEF o, dp
    <2>3. Owed(b, s) \in Nat
        BY <1>0, OwingTyped
    <2> QED
        BY <1>0, <2>1, <2>2, <2>3
<1> QED
    BY <1>0, <1>3, <1>12, <1>13

-----------------------------------------------------------------------------
(* The same of all the invoices a loop has come to                         *)

\* Those that come first in the order.
Prefix(s, T, key) == s \subseteq T /\ \A i \in s, j \in T : Before(j, i, key) => j \in s

\* A loop that has come to the invoices of T in order, with the amount A.
Taken(b, a, A, T, slack, key) ==
    /\ b \in Balances /\ a \in Balances
    /\ A \in Nat /\ slack \in {0, Tol} /\ T \in SUBSET Invoices
    /\ \A i \in Invoices : a[i] <= b[i]
    /\ \A i \in Invoices \ T : a[i] = b[i]
    /\ \A s \in SUBSET T : Prefix(s, T, key) => Takes(b, a, A, s, slack)
    /\ \A i \in T : a[i] # b[i] =>
         b[i] > Tol /\ \A j \in T : Before(j, i, key) /\ b[j] > Tol => a[j] = 0

\* Before the first invoice.
LEMMA TakenNone ==
    ASSUME NEW b \in Balances, NEW A \in Nat, NEW slack \in {0, Tol}, NEW key
    PROVE  Taken(b, b, A, {}, slack, key) /\ Drop(b, b, {}) = 0
<1>1. Owed(b, {}) = 0 /\ Drop(b, b, {}) = 0
    BY OwedEmpty
<1>2. Takes(b, b, A, {}, slack)
    BY <1>1 DEF Takes
<1>3. \A s \in SUBSET {} : s = {}
    OBVIOUS
<1>4. \A i \in Invoices : b[i] \in Nat
    BY DEF Balances
<1> QED
    BY <1>1, <1>2, <1>3, <1>4 DEF Taken

\* The loop comes to the invoice i, the latest of T, which gets x, with the result c.
ComesTo(b, a, c, A, slack, key, T, i, x) ==
    /\ A \in Nat /\ slack \in {0, Tol}
    /\ T \in SUBSET Invoices /\ i \in T /\ ~Before(i, i, key)
    /\ \A j \in T \ {i} : Before(j, i, key) /\ ~Before(i, j, key)
    /\ Taken(b, a, A, T \ {i}, slack, key)
    /\ x = Taking(A - Drop(b, a, T \ {i}), b[i], slack)
    /\ c \in Balances /\ c[i] = a[i] - x /\ \A j \in Invoices \ {i} : c[j] = a[j]

\* One invoice after those before it.
LEMMA TakeNext ==
    ASSUME NEW b, NEW a, NEW c, NEW A, NEW slack, NEW key, NEW T, NEW i, NEW x,
           ComesTo(b, a, c, A, slack, key, T, i, x)
    PROVE  Taken(b, c, A, T, slack, key) /\ Drop(b, c, T) = Drop(b, a, T \ {i}) + x
<1>0. /\ A \in Nat /\ slack \in {0, Tol}
      /\ T \in SUBSET Invoices /\ i \in T /\ ~Before(i, i, key)
      /\ \A j \in T \ {i} : Before(j, i, key) /\ ~Before(i, j, key)
      /\ Taken(b, a, A, T \ {i}, slack, key)
      /\ x = Taking(A - Drop(b, a, T \ {i}), b[i], slack)
      /\ c \in Balances /\ c[i] = a[i] - x /\ \A j \in Invoices \ {i} : c[j] = a[j]
    BY DEF ComesTo
<1> DEFINE t == T \ {i}
<1>1. /\ b \in Balances /\ a \in Balances /\ a[i] = b[i]
      /\ \A j \in Invoices : a[j] <= b[j]
      /\ \A j \in Invoices \ t : a[j] = b[j]
      /\ \A s \in SUBSET t : Prefix(s, t, key) => Takes(b, a, A, s, slack)
      /\ \A k \in t : a[k] # b[k] =>
           b[k] > Tol /\ \A j \in t : Before(j, k, key) /\ b[j] > Tol => a[j] = 0
    BY <1>0 DEF Taken
<1>2. Takes(b, a, A, t, slack)
    <2>1. Prefix(t, t, key)
        BY <1>0 DEF Prefix
    <2> QED
        BY <1>0, <1>1, <2>1
<1>3. /\ Takes(b, c, A, T, slack) /\ Drop(b, c, T) = Drop(b, a, t) + x
      /\ x > 0 => Owed(b, t) <= A
    <2>1. OneMore(b, a, c, A, slack, T, t, i, x)
        BY <1>0, <1>1, <1>2 DEF OneMore
    <2> HIDE DEF t
    <2> QED
        BY <1>0, <2>1, TakeOne
<1>4. b[i] \in Nat /\ c[i] \in Nat /\ Tol \in Nat /\ slack \in Nat /\ Drop(b, a, t) \in Int
    BY <1>0, <1>1, OwingTyped, AmountsAssumption DEF Balances
<1>5. x \in Nat /\ x <= b[i] /\ (x # 0 => b[i] > Tol)
    BY <1>0, <1>4 DEF Taking, Least
<1>6. ASSUME NEW s \in SUBSET T, Prefix(s, T, key)
      PROVE  Takes(b, c, A, s, slack)
    <2>1. CASE i \in s
        <3>1. s = T
            BY <1>0, <1>6, <2>1 DEF Prefix
        <3> QED
            BY <1>0, <1>3, <3>1
    <2>2. CASE i \notin s
        <3>1. s \in SUBSET t /\ Prefix(s, t, key) /\ s \in SUBSET Invoices
            BY <1>0, <1>6, <2>2 DEF Prefix
        <3>2. \A j \in s : c[j] = a[j]
            BY <1>0, <3>1
        <3>3. Takes(b, a, A, s, slack)
            BY <1>0, <1>1, <3>1
        <3> QED
            BY <1>0, <1>1, <3>1, <3>2, <3>3, TakesSame
    <2> QED
        BY <1>0, <2>1, <2>2
<1>7. ASSUME NEW k \in T, c[k] # b[k]
      PROVE  b[k] > Tol /\ \A j \in T : Before(j, k, key) /\ b[j] > Tol => c[j] = 0
    <2>1. CASE k = i
        <3>1. x # 0 /\ x > 0
            BY <1>0, <1>1, <1>4, <1>5, <1>7, <2>1
        <3>2. \A j \in t : b[j] > Tol => a[j] = 0
            BY <1>0, <1>2, <1>3, <3>1 DEF Takes
        <3>3. \A j \in T : Before(j, i, key) => j \in t /\ c[j] = a[j]
            BY <1>0
        <3> QED
            BY <1>0, <1>5, <2>1, <3>1, <3>2, <3>3
    <2>2. CASE k # i
        <3>1. k \in t /\ a[k] # b[k]
            BY <1>0, <1>7, <2>2
        <3>2. \A j \in T : Before(j, k, key) => j \in t /\ c[j] = a[j]
            BY <1>0, <2>2
        <3> QED
            BY <1>0, <1>1, <3>1, <3>2
    <2> QED
        BY <1>0, <2>1, <2>2
<1>8. \A j \in Invoices : c[j] <= b[j]
    <2>1. ASSUME NEW j \in Invoices
          PROVE  c[j] <= b[j]
        <3>1. CASE j = i
            BY <1>0, <1>1, <1>4, <1>5, <3>1
        <3>2. CASE j # i
            BY <1>0, <1>1, <3>2
        <3> QED
            BY <1>0, <3>1, <3>2
    <2> QED
        BY <1>0, <2>1
<1>9. \A j \in Invoices \ T : c[j] = b[j]
    BY <1>0, <1>1
<1> QED
    BY <1>0, <1>1, <1>3, <1>6, <1>7, <1>8, <1>9 DEF Taken

\* The loops come to the invoices in an order without ties.
LEMMA LoopOrder ==
    ASSUME NEW d, Typed(d), NEW s \in SUBSET LiveInvoices(d), NEW i, i = Latest(s, d.date), s # {}
    PROVE  /\ i \in s /\ ~Before(i, i, d.date)
           /\ \A j \in s \ {i} : Before(j, i, d.date) /\ ~Before(i, j, d.date)
<1>1. s \subseteq Invoices
    BY LiveInvoicesFinite DEF Typed
<1>2. IsFiniteSet(s) /\ s \subseteq Nat
    BY <1>1, FS_Subset, IdsAssumption
<1>3. \A j \in s : d.date[j] \in Nat
    BY <1>1, AmountsAssumption DEF Typed, TypedBills
<1>4. i \in s /\ \A j \in s \ {i} : Before(j, i, d.date)
    BY <1>2, <1>3, LatestExists
<1>5. i \in Nat /\ d.date[i] \in Nat /\ ~Before(i, i, d.date)
    BY ONLY <1>2, <1>3, <1>4 DEF Before
<1>6. ASSUME NEW j \in s \ {i}
      PROVE  ~Before(i, j, d.date)
    <2>1. j \in Nat /\ d.date[j] \in Nat /\ Before(j, i, d.date)
        BY ONLY j \in s \ {i}, <1>2, <1>3, <1>4
    <2> QED
        BY ONLY <1>5, <2>1 DEF Before
<1> QED
    BY <1>4, <1>5, <1>6

\* Where a plan stands once a receipt came to the invoices of s.
SpreadSoFar(d, r, p, q, s) ==
    /\ q \in Plans /\ q.rcred = p.rcred
    /\ Taken(p.balance, q.balance, d.amount[r], s, 0, d.date)
    /\ q.left = d.amount[r] - Drop(p.balance, q.balance, s)

\* One more invoice of the loop.
LEMMA SpreadOne ==
    ASSUME NEW d, Typed(d), NEW r \in LiveReceipts(d), NEW p \in Plans, NEW q,
           NEW s \in SUBSET LiveInvoices(d), s # {}, NEW i \in s, i = Latest(s, d.date),
           SpreadSoFar(d, r, p, q, s \ {i})
    PROVE  SpreadSoFar(d, r, p, Allocate(r, i, q), s)
<1> DEFINE e == Allocate(r, i, q)
           x == Share(q, i)
           t == s \ {i}
           A == d.amount[r]
<1>1. r \in Receipts /\ A \in Nat /\ s \in SUBSET Invoices
    BY LiveReceiptsFinite, LiveInvoicesFinite DEF Typed, TypedRows
<1>2. q \in Plans /\ q.rcred = p.rcred /\ Taken(p.balance, q.balance, A, t, 0, d.date)
      /\ q.left = A - Drop(p.balance, q.balance, t)
    BY DEF SpreadSoFar
<1>3. /\ e \in Plans /\ x \in Nat /\ x <= q.left /\ x <= q.balance[i]
      /\ e.left = q.left - x /\ e.rcred = q.rcred
      /\ \A j \in Invoices : e.balance[j] = IF j = i THEN q.balance[i] - x ELSE q.balance[j]
    BY <1>1, <1>2, AllocateFields
<1>4. /\ ~Before(i, i, d.date)
      /\ \A j \in t : Before(j, i, d.date) /\ ~Before(i, j, d.date)
    BY LoopOrder
<1>5. p.balance \in Balances /\ e.balance \in Balances /\ q.balance \in Balances /\ q.left \in Nat
    BY <1>2, <1>3 DEF Plans, Balances
<1>6. q.balance[i] = p.balance[i] /\ p.balance[i] \in Nat
    BY <1>1, <1>2, <1>5 DEF Taken, Balances
<1>7. x = Taking(A - Drop(p.balance, q.balance, t), p.balance[i], 0)
    BY <1>2, <1>5, <1>6, AmountsAssumption DEF Share, Taking, Least
<1>8. e.balance[i] = q.balance[i] - x /\ \A j \in Invoices \ {i} : e.balance[j] = q.balance[j]
    BY <1>1, <1>3
<1> HIDE DEF e, x
<1>9. Taken(p.balance, e.balance, A, s, 0, d.date)
      /\ Drop(p.balance, e.balance, s) = Drop(p.balance, q.balance, t) + x
    <2> DEFINE b == p.balance
               a == q.balance
               c == e.balance
               key == d.date
               f == x
    <2>1. ComesTo(b, a, c, A, 0, key, s, i, f)
        BY <1>1, <1>2, <1>4, <1>5, <1>7, <1>8 DEF ComesTo
    <2> HIDE DEF b, a, c, key, A, f
    <2>2. Taken(b, c, A, s, 0, key) /\ Drop(b, c, s) = Drop(b, a, s \ {i}) + f
        BY <2>1, TakeNext
    <2> QED
        BY <2>2 DEF b, a, c, key, f
<1>10. e.left = A - Drop(p.balance, e.balance, s)
    <2>1. Drop(p.balance, q.balance, t) \in Int
        BY <1>1, <1>5, OwingTyped
    <2> QED
        BY <1>1, <1>2, <1>3, <1>5, <1>9, <2>1
<1>11. SpreadSoFar(d, r, p, e, s)
    BY <1>2, <1>3, <1>9, <1>10 DEF SpreadSoFar
<1> QED
    BY <1>11 DEF e

\* A receipt goes over the invoices in order and leaves what it did not pay.
LEMMA SpreadTakes ==
    ASSUME NEW d, Typed(d), NEW r \in LiveReceipts(d), NEW p \in Plans
    PROVE  \E q : /\ SpreadSoFar(d, r, p, q, LiveInvoices(d))
                  /\ Spread(d, r, p) =
                        [q EXCEPT !.rcred[r] = IF q.left > Tol THEN q.left ELSE 0]
<1> DEFINE S == LiveInvoices(d)
<1>0. PICK g \in [SUBSET S -> Plans] : SpreadsBy(d, r, p, g)
    BY SpreadSteps
<1>1. /\ g[{}] = [p EXCEPT !.left = d.amount[r]]
      /\ \A s \in SUBSET S : s # {} =>
           \E i \in s : i = Latest(s, d.date) /\ g[s] = Allocate(r, i, g[s \ {i}])
      /\ LET q == g[S]
         IN Spread(d, r, p) = [q EXCEPT !.rcred[r] = IF q.left > Tol THEN q.left ELSE 0]
    BY <1>0 DEF SpreadsBy
<1>2. IsFiniteSet(S) /\ S \subseteq Invoices
    BY LiveInvoicesFinite DEF Typed
<1>3. r \in Receipts /\ d.amount[r] \in Nat
    BY LiveReceiptsFinite DEF Typed, TypedRows
<1>3a. \A s \in SUBSET S : s \in SUBSET LiveInvoices(d)
    OBVIOUS
<1> HIDE DEF S
<1> DEFINE T == {s \in SUBSET S : SpreadSoFar(d, r, p, g[s], s)}
<1>4. {} \in T
    <2> DEFINE q == g[{}]
    <2>1. q \in Plans /\ q.left = d.amount[r] /\ q.balance = p.balance /\ q.rcred = p.rcred
        BY <1>1, <1>3 DEF Plans
    <2>2. p.balance \in Balances
        BY DEF Plans, Balances
    <2> HIDE DEF q
    <2>3. Taken(p.balance, p.balance, d.amount[r], {}, 0, d.date) /\ Drop(p.balance, p.balance, {}) = 0
        BY <1>3, <2>2, TakenNone, AmountsAssumption
    <2>4. SpreadSoFar(d, r, p, q, {})
        BY <1>3, <2>1, <2>3 DEF SpreadSoFar
    <2> QED
        BY <2>4 DEF q
<1>5. ASSUME NEW s \in SUBSET S, s # {}, \A x \in s : s \ {x} \in T
      PROVE  s \in T
    <2>1. PICK i \in s : i = Latest(s, d.date) /\ g[s] = Allocate(r, i, g[s \ {i}])
        BY <1>1, <1>5
    <2>2. SpreadSoFar(d, r, p, g[s \ {i}], s \ {i})
        BY <1>5
    <2>3. SpreadSoFar(d, r, p, Allocate(r, i, g[s \ {i}]), s)
        BY <1>3a, <1>5, <2>1, <2>2, SpreadOne
    <2> QED
        BY <2>1, <2>3
<1>6. T \subseteq SUBSET S
    OBVIOUS
<1> HIDE DEF T
<1>7. T = SUBSET S
    <2>1. IsFiniteSet(S)
        BY <1>2
    <2>2. \A s \in SUBSET S : s # {} /\ (\A x \in s : s \ {x} \in T) => s \in T
        BY <1>5
    <2> QED
        BY <1>4, <1>6, <2>1, <2>2, SubsetInduction
<1>8. SpreadSoFar(d, r, p, g[S], S)
    BY <1>7 DEF T
<1>9. Spread(d, r, p) = [g[S] EXCEPT !.rcred[r] = IF g[S].left > Tol THEN g[S].left ELSE 0]
    BY <1>1
<1> DEFINE q == g[S]
<1>10. /\ SpreadSoFar(d, r, p, q, S)
       /\ Spread(d, r, p) = [q EXCEPT !.rcred[r] = IF q.left > Tol THEN q.left ELSE 0]
    BY <1>8, <1>9
<1> HIDE DEF q
<1> QED
    BY <1>10 DEF S

\* The plans of the reference, and what they leave unpaid of the bills.
Simulations(d) ==
    {q \in [remaining : Nat, receiptPaid : [Invoices -> Nat], receiptCredit : [Receipts -> Nat]] :
        \A i \in Invoices : q.receiptPaid[i] <= d.total[i]}
Unmet(d, q) == [i \in Invoices |-> d.total[i] - q.receiptPaid[i]]

\* What is unmet is a balance.
LEMMA UnmetTyped ==
    ASSUME NEW d, Typed(d), NEW q \in Simulations(d)
    PROVE  /\ Unmet(d, q) \in Balances /\ q.remaining \in Nat
           /\ \A i \in Invoices : d.total[i] \in Nat /\ q.receiptPaid[i] \in Nat
                                    /\ Unmet(d, q)[i] = d.total[i] - q.receiptPaid[i]
<1>1. q.remaining \in Nat /\ q.receiptPaid \in [Invoices -> Nat] /\ d.total \in [Invoices -> Nat]
      /\ \A i \in Invoices : q.receiptPaid[i] <= d.total[i]
    BY DEF Simulations, Typed, TypedBills
<1>2. \A i \in Invoices : d.total[i] - q.receiptPaid[i] \in Nat
    BY <1>1
<1> QED
    BY <1>1, <1>2 DEF Unmet, Balances

\* One share of the reference moves what it says from what remains to one invoice.
LEMMA SimulatedShareFields ==
    ASSUME NEW d, Typed(d), NEW q \in Simulations(d), NEW i \in Invoices
    PROVE  LET e == SimulatedShare(d, i, q)
               x == Taking(q.remaining, Unmet(d, q)[i], Tol)
           IN /\ e \in Simulations(d) /\ x \in Nat /\ e.receiptCredit = q.receiptCredit
              /\ e.remaining = q.remaining - x
              /\ \A j \in Invoices : Unmet(d, e)[j] = Unmet(d, q)[j] - (IF j = i THEN x ELSE 0)
<1> DEFINE e    == SimulatedShare(d, i, q)
           owed == d.total[i] - q.receiptPaid[i]
           x    == Taking(q.remaining, owed, Tol)
           l    == q.remaining - x
           b    == [q.receiptPaid EXCEPT ![i] = @ + x]
<1>1. /\ q.remaining \in Nat /\ owed \in Nat /\ Tol \in Nat /\ Unmet(d, q)[i] = owed
      /\ \A j \in Invoices : d.total[j] \in Nat /\ q.receiptPaid[j] \in Nat
      /\ q.receiptPaid \in [Invoices -> Nat] /\ q.receiptCredit \in [Receipts -> Nat]
      /\ \A j \in Invoices : q.receiptPaid[j] <= d.total[j]
    <2>1. Unmet(d, q)[i] \in Nat
        BY UnmetTyped DEF Balances
    <2> QED
        BY <2>1, UnmetTyped, AmountsAssumption DEF Simulations
<1>2. x \in Nat /\ x <= q.remaining /\ x <= owed
    BY <1>1 DEF Taking, Least
<1>3. e = [q EXCEPT !.remaining = l, !.receiptPaid = b]
    <2>1. CASE q.remaining <= Tol \/ owed <= Tol
        <3>1. x = 0 /\ e = q
            BY <1>1, <2>1 DEF Taking, SimulatedShare
        <3>2. l = q.remaining /\ b = q.receiptPaid
            BY <1>1, <3>1
        <3> HIDE DEF l, b, x
        <3> QED
            BY <3>1, <3>2 DEF Simulations
    <2>2. CASE ~(q.remaining <= Tol \/ owed <= Tol)
        <3>1. x = Least(q.remaining, owed) /\ x > Tol
            BY <1>1, <2>2 DEF Taking, Least
        <3> HIDE DEF x
        <3>2. e = [q EXCEPT !.remaining = @ - x, !.receiptPaid[i] = @ + x]
            <4>1. ~(q.remaining <= Tol \/ owed <= Tol \/ Least(q.remaining, owed) <= Tol)
                BY <1>1, <2>2 DEF Least
            <4>2. x = Least(q.remaining, owed)
                BY <3>1
            <4> QED
                BY <4>1, <4>2 DEF SimulatedShare
        <3>3. DOMAIN q = {"remaining", "receiptPaid", "receiptCredit"}
            BY DEF Simulations
        <3> QED
            BY <3>2, <3>3
    <2> QED
        BY <2>1, <2>2
<1>4. l \in Nat /\ b \in [Invoices -> Nat]
      /\ \A j \in Invoices : b[j] = q.receiptPaid[j] + (IF j = i THEN x ELSE 0)
    BY <1>1, <1>2
<1>5. \A j \in Invoices : b[j] <= d.total[j]
    BY <1>1, <1>2, <1>4
<1> HIDE DEF e, l, b, x
<1>6. e.remaining = l /\ e.receiptPaid = b /\ e.receiptCredit = q.receiptCredit /\ e \in Simulations(d)
    BY <1>3, <1>4, <1>5 DEF Simulations
<1>7. ASSUME NEW j \in Invoices
      PROVE  Unmet(d, e)[j] = Unmet(d, q)[j] - (IF j = i THEN x ELSE 0)
    <2>1. Unmet(d, e)[j] = d.total[j] - b[j] /\ Unmet(d, q)[j] = d.total[j] - q.receiptPaid[j]
        BY <1>6, UnmetTyped
    <2> QED
        BY <1>1, <1>2, <1>4, <2>1
<1> QED
    BY <1>1, <1>2, <1>6, <1>7 DEF e, l, x

SimulatedTable(d, start, g) ==
    g = [s \in SUBSET LiveInvoices(d) |->
           IF s = {} THEN start
           ELSE SimulatedShare(d, Latest(s, d.date), g[s \ {Latest(s, d.date)}])]

\* The loop of the reference over the invoices as a table.
LEMMA SimulatedIsFold ==
    ASSUME NEW d, NEW r, NEW p
    PROVE  LET start == [p EXCEPT !.remaining = d.amount[r]]
               q     == (CHOOSE g : SimulatedTable(d, start, g))[LiveInvoices(d)]
           IN SimulatedReceipt(d, r, p) =
                [q EXCEPT !.receiptCredit[r] = IF q.remaining > Tol THEN q.remaining ELSE 0]
BY DEF SimulatedReceipt, FoldInOrder, MapThenFoldSet, SimulatedTable

\* One receipt of the reference over the live invoices: a sequence of plans.
SimulatesBy(d, r, p, g) ==
    /\ g[{}] = [p EXCEPT !.remaining = d.amount[r]]
    /\ \A s \in SUBSET LiveInvoices(d) : s # {} =>
         \E i \in s : i = Latest(s, d.date) /\ g[s] = SimulatedShare(d, i, g[s \ {i}])
    /\ LET q == g[LiveInvoices(d)]
       IN SimulatedReceipt(d, r, p) =
            [q EXCEPT !.receiptCredit[r] = IF q.remaining > Tol THEN q.remaining ELSE 0]

\* The loop of the reference has a table, step by step.
LEMMA SimulatedSteps ==
    ASSUME NEW d, Typed(d), NEW r \in LiveReceipts(d), NEW p \in Simulations(d)
    PROVE  \E g \in [SUBSET LiveInvoices(d) -> Simulations(d)] : SimulatesBy(d, r, p, g)
<1> DEFINE S     == LiveInvoices(d)
           P     == Simulations(d)
           start == [p EXCEPT !.remaining = d.amount[r]]
           last  == [s \in SUBSET S |-> Latest(s, d.date)]
           F     == [s \in SUBSET S |-> [q \in P |-> SimulatedShare(d, last[s], q)]]
           G     == CHOOSE g : SimulatedTable(d, start, g)
<1>1. IsFiniteSet(S) /\ S \subseteq Invoices
    BY LiveInvoicesFinite DEF Typed
<1>2. \A s \in SUBSET S : s # {} => last[s] \in s
    BY InvoiceOrder
<1>3. d.amount[r] \in Nat
    BY LiveReceiptsFinite DEF Typed, TypedRows
<1>4. start \in P
    BY <1>3 DEF Simulations
<1>5. \A s \in SUBSET S, q \in P : s # {} => F[s][q] \in P
    <2>1. ASSUME NEW s \in SUBSET S, NEW q \in P, s # {}
          PROVE  F[s][q] \in P
        <3>1. F[s][q] = SimulatedShare(d, last[s], q) /\ last[s] \in Invoices
            BY <1>1, <1>2, <2>1
        <3> QED
            BY <3>1, SimulatedShareFields
    <2> QED
        BY <2>1
<1>6. PICK h \in [SUBSET S -> P] : Folds(h, S, start, F, last)
    <2> HIDE DEF S, P, start, last, F
    <2> QED
        BY <1>1, <1>2, <1>4, <1>5, SetRecursion
<1>7. SimulatedTable(d, start, h)
    <2>1. \A s \in SUBSET S : h[s] =
             IF s = {} THEN start ELSE SimulatedShare(d, last[s], h[s \ {last[s]}])
        BY <1>2, <1>6 DEF Folds
    <2> QED
        BY <2>1 DEF SimulatedTable
<1>8. SimulatedTable(d, start, G)
    BY <1>7
<1>9. FoldsWithin(G, S, P, start, F, last)
    <2>1. G[{}] = start
        BY <1>8 DEF SimulatedTable
    <2>2. ASSUME NEW s \in SUBSET S, s # {}, G[s \ {last[s]}] \in P
          PROVE  G[s] = F[s][G[s \ {last[s]}]]
        <3>1. G[s] = SimulatedShare(d, last[s], G[s \ {last[s]}])
            BY <1>8, <2>2 DEF SimulatedTable
        <3> QED
            BY <2>2, <3>1
    <2> HIDE DEF S, P, start, last, F, G
    <2> QED
        BY <2>1, <2>2 DEF FoldsWithin
<1>9a. \A s \in SUBSET S : G[s] \in P
    <2> HIDE DEF S, P, start, last, F, G
    <2> QED
        BY <1>1, <1>2, <1>4, <1>5, <1>9, FoldStays
<1>10. G \in [SUBSET S -> P]
    BY <1>8, <1>9a DEF SimulatedTable
<1>11. G[{}] = start
    BY <1>8 DEF SimulatedTable
<1>12. ASSUME NEW s \in SUBSET S, s # {}
       PROVE  \E i \in s : i = Latest(s, d.date) /\ G[s] = SimulatedShare(d, i, G[s \ {i}])
    <2>1. last[s] = Latest(s, d.date) /\ G[s] = SimulatedShare(d, last[s], G[s \ {last[s]}])
        BY <1>8, <1>12 DEF SimulatedTable
    <2> QED
        BY <1>2, <1>12, <2>1
<1>13. SimulatedReceipt(d, r, p) =
         [G[S] EXCEPT !.receiptCredit[r] = IF G[S].remaining > Tol THEN G[S].remaining ELSE 0]
    BY SimulatedIsFold
<1> HIDE DEF G
<1> QED
    BY <1>10, <1>11, <1>12, <1>13 DEF SimulatesBy

\* Where the reference stands once a receipt came to the invoices of s.
SimulatedSoFar(d, r, p, q, s) ==
    /\ q \in Simulations(d) /\ q.receiptCredit = p.receiptCredit
    /\ Taken(Unmet(d, p), Unmet(d, q), d.amount[r], s, Tol, d.date)
    /\ q.remaining = d.amount[r] - Drop(Unmet(d, p), Unmet(d, q), s)

\* One more invoice of the loop.
LEMMA SimulatedOne ==
    ASSUME NEW d, Typed(d), NEW r \in LiveReceipts(d), NEW p \in Simulations(d), NEW q,
           NEW s \in SUBSET LiveInvoices(d), s # {}, NEW i \in s, i = Latest(s, d.date),
           SimulatedSoFar(d, r, p, q, s \ {i})
    PROVE  SimulatedSoFar(d, r, p, SimulatedShare(d, i, q), s)
<1> DEFINE e == SimulatedShare(d, i, q)
           x == Taking(q.remaining, Unmet(d, q)[i], Tol)
           b == Unmet(d, p)
           a == Unmet(d, q)
           c == Unmet(d, e)
           A == d.amount[r]
           key == d.date
<1>1. A \in Nat /\ s \in SUBSET Invoices /\ i \in Invoices /\ Tol \in {0, Tol}
    BY LiveReceiptsFinite, LiveInvoicesFinite DEF Typed, TypedRows
<1>2. q \in Simulations(d) /\ q.receiptCredit = p.receiptCredit /\ Taken(b, a, A, s \ {i}, Tol, key)
      /\ q.remaining = A - Drop(b, a, s \ {i})
    BY DEF SimulatedSoFar
<1>3. /\ e \in Simulations(d) /\ x \in Nat /\ e.receiptCredit = q.receiptCredit
      /\ e.remaining = q.remaining - x
      /\ \A j \in Invoices : c[j] = a[j] - (IF j = i THEN x ELSE 0)
    <2>1. q \in Simulations(d) /\ i \in Invoices
        BY <1>1, <1>2
    <2> HIDE <1>1, <1>2
    <2> QED
        BY <2>1, SimulatedShareFields
<1>4. ~Before(i, i, key) /\ \A j \in s \ {i} : Before(j, i, key) /\ ~Before(i, j, key)
    BY LoopOrder
<1>5. b \in Balances /\ c \in Balances /\ a \in Balances /\ q.remaining \in Nat
    BY <1>2, <1>3, UnmetTyped
<1>6. a[i] = b[i]
    <2> HIDE DEF a, b, A, key
    <2>1. i \in Invoices \ (s \ {i})
        BY <1>1
    <2> QED
        BY <1>2, <2>1 DEF Taken
<1>7. x = Taking(A - Drop(b, a, s \ {i}), b[i], Tol)
    BY <1>2, <1>6
<1> HIDE DEF e, x, a, b, c, A, key
<1>8. c[i] = a[i] - x /\ \A j \in Invoices \ {i} : c[j] = a[j]
    BY <1>1, <1>3, <1>5 DEF Balances
<1>9. Taken(b, c, A, s, Tol, key) /\ Drop(b, c, s) = Drop(b, a, s \ {i}) + x
    <2>1. ComesTo(b, a, c, A, Tol, key, s, i, x)
        BY <1>1, <1>2, <1>4, <1>5, <1>7, <1>8 DEF ComesTo
    <2> QED
        BY <2>1, TakeNext
<1>10. e.remaining = A - Drop(b, c, s)
    <2>1. Drop(b, a, s \ {i}) \in Int
        BY <1>1, <1>5, OwingTyped
    <2> QED
        BY <1>1, <1>2, <1>3, <1>5, <1>9, <2>1
<1>11. SimulatedSoFar(d, r, p, e, s)
    BY <1>2, <1>3, <1>9, <1>10 DEF SimulatedSoFar, b, c, A, key
<1> QED
    BY <1>11 DEF e

\* A receipt of the reference goes over the invoices in order.
LEMMA SimulatedTakes ==
    ASSUME NEW d, Typed(d), NEW r \in LiveReceipts(d), NEW p \in Simulations(d)
    PROVE  \E q : /\ SimulatedSoFar(d, r, p, q, LiveInvoices(d))
                  /\ SimulatedReceipt(d, r, p) =
                       [q EXCEPT !.receiptCredit[r] = IF q.remaining > Tol THEN q.remaining ELSE 0]
<1> DEFINE S == LiveInvoices(d)
<1>0. PICK g \in [SUBSET S -> Simulations(d)] : SimulatesBy(d, r, p, g)
    BY SimulatedSteps
<1>1. /\ g[{}] = [p EXCEPT !.remaining = d.amount[r]]
      /\ \A s \in SUBSET S : s # {} =>
           \E i \in s : i = Latest(s, d.date) /\ g[s] = SimulatedShare(d, i, g[s \ {i}])
      /\ LET q == g[S]
         IN SimulatedReceipt(d, r, p) =
              [q EXCEPT !.receiptCredit[r] = IF q.remaining > Tol THEN q.remaining ELSE 0]
    BY <1>0 DEF SimulatesBy
<1>2. IsFiniteSet(S) /\ S \subseteq Invoices
    BY LiveInvoicesFinite DEF Typed
<1>3. d.amount[r] \in Nat
    BY LiveReceiptsFinite DEF Typed, TypedRows
<1>3a. \A s \in SUBSET S : s \in SUBSET LiveInvoices(d)
    OBVIOUS
<1> HIDE DEF S
<1> DEFINE T == {s \in SUBSET S : SimulatedSoFar(d, r, p, g[s], s)}
<1>4. {} \in T
    <2> DEFINE q == g[{}]
    <2>1. /\ q \in Simulations(d) /\ q.remaining = d.amount[r] /\ q.receiptPaid = p.receiptPaid
          /\ q.receiptCredit = p.receiptCredit
        BY <1>1, <1>3 DEF Simulations
    <2>2. Unmet(d, q) = Unmet(d, p) /\ Unmet(d, p) \in Balances
        BY <2>1, UnmetTyped DEF Unmet
    <2> HIDE DEF q
    <2> DEFINE b == Unmet(d, p)
    <2>3. Taken(b, b, d.amount[r], {}, Tol, d.date) /\ Drop(b, b, {}) = 0
        <3> HIDE DEF b
        <3> QED
            BY <1>3, <2>2, TakenNone, AmountsAssumption DEF b
    <2>4. SimulatedSoFar(d, r, p, q, {})
        BY <1>3, <2>1, <2>2, <2>3 DEF SimulatedSoFar
    <2> QED
        BY <2>4 DEF q
<1>5. ASSUME NEW s \in SUBSET S, s # {}, \A x \in s : s \ {x} \in T
      PROVE  s \in T
    <2>1. PICK i \in s : i = Latest(s, d.date) /\ g[s] = SimulatedShare(d, i, g[s \ {i}])
        BY <1>1, <1>5
    <2>2. SimulatedSoFar(d, r, p, g[s \ {i}], s \ {i})
        BY <1>5
    <2>3. SimulatedSoFar(d, r, p, SimulatedShare(d, i, g[s \ {i}]), s)
        BY <1>3a, <1>5, <2>1, <2>2, SimulatedOne
    <2> QED
        BY <2>1, <2>3
<1>6. T \subseteq SUBSET S
    OBVIOUS
<1> HIDE DEF T
<1>7. T = SUBSET S
    <2>1. IsFiniteSet(S)
        BY <1>2
    <2>2. \A s \in SUBSET S : s # {} /\ (\A x \in s : s \ {x} \in T) => s \in T
        BY <1>5
    <2> QED
        BY <1>4, <1>6, <2>1, <2>2, SubsetInduction
<1>8. SimulatedSoFar(d, r, p, g[S], S)
    BY <1>7 DEF T
<1>9. SimulatedReceipt(d, r, p) =
        [g[S] EXCEPT !.receiptCredit[r] = IF g[S].remaining > Tol THEN g[S].remaining ELSE 0]
    BY <1>1
<1> DEFINE q == g[S]
<1>10. /\ SimulatedSoFar(d, r, p, q, S)
       /\ SimulatedReceipt(d, r, p) =
            [q EXCEPT !.receiptCredit[r] = IF q.remaining > Tol THEN q.remaining ELSE 0]
    BY <1>8, <1>9
<1> HIDE DEF q
<1> QED
    BY <1>10 DEF S

-----------------------------------------------------------------------------
(* Two ledgers that pay the same bills in the same order                   *)

\* What is paid of the bills is paid in order: all before it owe nothing.
InOrder(b, total, L, key) ==
    /\ b \in Balances /\ total \in Balances
    /\ \A i \in L : b[i] <= total[i]
    /\ \A i \in Invoices \ L : b[i] = total[i]
    /\ \A i \in L : b[i] # total[i] =>
         total[i] > Tol /\ \A j \in L : Before(j, i, key) => b[j] <= Tol

\* Of the first invoices, whichever they are, b owes at most m more than o, and o at most
\* twice as much more than b.
Drift(b, o, L, key, m) ==
    \A s \in SUBSET L : Prefix(s, L, key) =>
        Owed(b, s) - Owed(o, s) <= m /\ Owed(o, s) - Owed(b, s) <= 2 * m

\* A loop over what was paid in order pays in order.
LEMMA TakenInOrder ==
    ASSUME NEW b, NEW a, NEW total, NEW A, NEW L \in SUBSET Invoices, NEW slack, NEW key,
           InOrder(b, total, L, key), Taken(b, a, A, L, slack, key)
    PROVE  InOrder(a, total, L, key)
<1>1. /\ b \in Balances /\ total \in Balances /\ a \in Balances
      /\ \A i \in L : b[i] <= total[i]
      /\ \A i \in Invoices \ L : b[i] = total[i]
      /\ \A i \in L : b[i] # total[i] =>
           total[i] > Tol /\ \A j \in L : Before(j, i, key) => b[j] <= Tol
    BY DEF InOrder, Taken
<1>2. /\ \A i \in Invoices : a[i] <= b[i]
      /\ \A i \in Invoices \ L : a[i] = b[i]
      /\ \A i \in L : a[i] # b[i] =>
           b[i] > Tol /\ \A j \in L : Before(j, i, key) /\ b[j] > Tol => a[j] = 0
    BY DEF Taken
<1>3. \A i \in Invoices : a[i] \in Nat /\ b[i] \in Nat /\ total[i] \in Nat
    BY <1>1 DEF Balances
<1>4. Tol \in Nat
    BY AmountsAssumption
<1>5. \A i \in L : a[i] <= total[i]
    BY <1>1, <1>2, <1>3
<1>6. ASSUME NEW i \in L, a[i] # total[i]
      PROVE  total[i] > Tol
    BY <1>1, <1>2, <1>3, <1>4, <1>6
<1>7. ASSUME NEW i \in L, a[i] # total[i], NEW j \in L, Before(j, i, key)
      PROVE  a[j] <= Tol
    <2>1. a[j] <= b[j] /\ a[j] \in Nat /\ b[j] \in Nat
        BY <1>2, <1>3
    <2>2. CASE a[i] = b[i]
        <3>1. b[j] <= Tol
            BY <1>1, <1>7, <2>2
        <3> QED
            BY <1>4, <2>1, <3>1
    <2>3. CASE a[i] # b[i]
        <3>1. b[j] > Tol => a[j] = 0
            BY <1>2, <1>7, <2>3
        <3> QED
            BY <1>4, <2>1, <3>1
    <2> QED
        BY <2>2, <2>3
<1>8. \A i \in Invoices \ L : a[i] = total[i]
    BY <1>1, <1>2
<1> QED
    BY <1>1, <1>5, <1>6, <1>7, <1>8 DEF InOrder

\* What a loop with an amount A spent on the invoices of s, and what they still owe.
Spends(b, a, A, s, slack) ==
    /\ Owed(b, s) \in Nat /\ Owed(a, s) \in Nat /\ Drop(b, a, s) \in Int
    /\ Owed(b, s) <= A => Drop(b, a, s) = Owed(b, s) /\ Owed(a, s) = 0
    /\ Owed(b, s) > A => /\ A - slack <= Drop(b, a, s) /\ Drop(b, a, s) <= A
                         /\ Owed(b, s) - A - Tol <= Owed(a, s)
                         /\ Owed(a, s) <= Owed(b, s) - A + slack

\* A loop spends its amount on the first invoices, whichever they are.
LEMMA TakenOwes ==
    ASSUME NEW b, NEW a, NEW A, NEW T, NEW slack, NEW key, Taken(b, a, A, T, slack, key),
           NEW s, Prefix(s, T, key)
    PROVE  Spends(b, a, A, s, slack)
<1>1. b \in Balances /\ a \in Balances /\ Takes(b, a, A, s, slack) /\ \A i \in Invoices : a[i] <= b[i]
    BY DEF Taken, Prefix
<1>2. s \in SUBSET Invoices
    BY DEF Taken, Prefix
<1>3. Owed(b, s) \in Nat /\ Owed(a, s) \in Nat /\ Drop(b, a, s) \in Int
    BY <1>1, <1>2, OwingTyped
<1>4. ASSUME Owed(b, s) <= A
      PROVE  Owed(a, s) = 0
    <2>1. \A i \in s : b[i] > Tol => a[i] = 0
        BY <1>1, <1>4 DEF Takes
    <2>2. \A i \in s : a[i] <= b[i] /\ a[i] \in Nat /\ b[i] \in Nat
        BY <1>1, <1>2 DEF Balances
    <2>3. \A i \in s : a[i] <= Tol
        BY <2>1, <2>2, AmountsAssumption
    <2> QED
        BY <1>1, <1>2, <2>3, OwedZero
<1> QED
    BY <1>1, <1>3, <1>4 DEF Takes, Spends

\* One more amount over both makes them drift apart by the tolerance.
LEMMA DriftStep ==
    ASSUME NEW b, NEW a, NEW o, NEW c, NEW A \in Nat, NEW L \in SUBSET Invoices, NEW key,
           NEW m \in Nat, Drift(b, o, L, key, m),
           Taken(b, a, A, L, 0, key), Taken(o, c, A, L, Tol, key)
    PROVE  Drift(a, c, L, key, m + Tol)
<1>0. Tol \in Nat /\ 0 \in {0, Tol} /\ Tol \in {0, Tol}
    BY AmountsAssumption
<1>1. ASSUME NEW s \in SUBSET L, Prefix(s, L, key)
      PROVE  /\ Owed(a, s) - Owed(c, s) <= m + Tol
             /\ Owed(c, s) - Owed(a, s) <= 2 * (m + Tol)
    <2>1. Owed(b, s) - Owed(o, s) <= m /\ Owed(o, s) - Owed(b, s) <= 2 * m
        BY <1>1 DEF Drift
    <2>2. Spends(b, a, A, s, 0) /\ Spends(o, c, A, s, Tol)
        BY <1>1, TakenOwes
    <2> DEFINE ob == Owed(b, s)  oa == Owed(a, s)  oo == Owed(o, s)  oc == Owed(c, s)
    <2> HIDE DEF ob, oa, oo, oc
    <2>4. /\ ob \in Nat /\ oa \in Nat /\ oo \in Nat /\ oc \in Nat
          /\ ob - oo <= m /\ oo - ob <= 2 * m
          /\ ob <= A => oa = 0
          /\ ob > A => ob - A - Tol <= oa /\ oa <= ob - A
          /\ oo <= A => oc = 0
          /\ oo > A => oo - A - Tol <= oc /\ oc <= oo - A + Tol
        BY <2>1, <2>2 DEF ob, oa, oo, oc, Spends
    <2>5. oa - oc <= m + Tol /\ oc - oa <= 2 * (m + Tol)
        BY <1>0, <2>4
    <2> QED
        BY <2>5 DEF oa, oc
<1> QED
    BY <1>1 DEF Drift

\* Two that are paid in order then owe as little apart on each invoice.
LEMMA DriftApart ==
    ASSUME NEW b, NEW o, NEW total, NEW L \in SUBSET Invoices, NEW key, NEW m \in Nat,
           \A i \in L : key[i] \in Nat, InOrder(b, total, L, key), InOrder(o, total, L, key),
           Drift(b, o, L, key, m), m >= Tol, NEW i \in L
    PROVE  b[i] - o[i] <= m /\ o[i] - b[i] <= 2 * m
<1> DEFINE t == {j \in L : Before(j, i, key)}
           s == t \union {i}
<1>0. \A j \in L : j \in Nat /\ j \in Invoices
    BY IdsAssumption
<1>1. /\ \A j, k, n \in L : Before(j, k, key) /\ Before(k, n, key) => Before(j, n, key)
      /\ \A j, k \in L : Before(j, k, key) => ~Before(k, j, key) /\ j # k
    BY <1>0 DEF Before
<1>2. Prefix(s, L, key) /\ Prefix(t, L, key)
    BY <1>1 DEF Prefix
<1>3. s \in SUBSET L /\ t \in SUBSET L /\ s \in SUBSET Invoices /\ t = s \ {i} /\ i \in s
    BY <1>1
<1>4. /\ Owed(b, s) - Owed(o, s) <= m /\ Owed(o, s) - Owed(b, s) <= 2 * m
      /\ Owed(b, t) - Owed(o, t) <= m /\ Owed(o, t) - Owed(b, t) <= 2 * m
    BY <1>2, <1>3 DEF Drift
<1>5. b \in Balances /\ o \in Balances /\ total \in Balances
    BY DEF InOrder
<1>6. b[i] \in Nat /\ o[i] \in Nat /\ total[i] \in Nat /\ Tol \in Nat
    BY <1>0, <1>5, AmountsAssumption DEF Balances
<1>7. /\ b[i] <= total[i] /\ o[i] <= total[i]
      /\ b[i] # total[i] => total[i] > Tol /\ \A j \in t : b[j] <= Tol
      /\ o[i] # total[i] => total[i] > Tol /\ \A j \in t : o[j] <= Tol
    BY DEF InOrder
<1>8. /\ Owed(b, s) = Owing(b)[i] + Owed(b, s \ {i})
      /\ Owed(o, s) = Owing(o)[i] + Owed(o, s \ {i})
    <2>1. \A x \in Balances : Owed(x, s) = Owing(x)[i] + Owed(x, s \ {i})
        BY <1>3, OwedStep
    <2> QED
        BY <1>5, <2>1
<1>9. Owed(b, t) \in Nat /\ Owed(o, t) \in Nat
    BY <1>3, <1>5, OwingTyped
<1>10. /\ b[i] # total[i] => Owed(b, t) = 0
       /\ o[i] # total[i] => Owed(o, t) = 0
    BY <1>3, <1>5, <1>7, OwedZero
<1>11. /\ Owing(b)[i] = IF b[i] > Tol THEN b[i] ELSE 0
       /\ Owing(o)[i] = IF o[i] > Tol THEN o[i] ELSE 0
    BY <1>0 DEF Owing
<1> DEFINE bs == Owed(b, s)  bt == Owed(b, t)  os == Owed(o, s)  ot == Owed(o, t)
           x == b[i]  y == o[i]  z == total[i]
<1>12. /\ x \in Nat /\ y \in Nat /\ z \in Nat /\ Tol \in Nat /\ bt \in Nat /\ ot \in Nat
       /\ bs = (IF x > Tol THEN x ELSE 0) + bt
       /\ os = (IF y > Tol THEN y ELSE 0) + ot
       /\ bs - os <= m /\ os - bs <= 2 * m /\ bt - ot <= m /\ ot - bt <= 2 * m
       /\ x <= z /\ y <= z
       /\ x # z => z > Tol /\ bt = 0
       /\ y # z => z > Tol /\ ot = 0
    BY <1>3, <1>4, <1>6, <1>7, <1>8, <1>9, <1>10, <1>11
<1> HIDE DEF bs, bt, os, ot, x, y, z
<1>13. x - y <= m /\ y - x <= 2 * m
    BY <1>12
<1> QED
    BY <1>13 DEF x, y

\* A receipt of the reference changes nothing but what it pays and its credit.
LEMMA SetSimulatedCredit ==
    ASSUME NEW d, NEW q \in Simulations(d), NEW r \in Receipts, NEW x \in Nat
    PROVE  LET e == [q EXCEPT !.receiptCredit[r] = x]
           IN /\ e \in Simulations(d) /\ Unmet(d, e) = Unmet(d, q) /\ e.receiptPaid = q.receiptPaid
              /\ e.receiptCredit[r] = x
              /\ \A o \in Receipts \ {r} : e.receiptCredit[o] = q.receiptCredit[o]
<1> DEFINE c == [q.receiptCredit EXCEPT ![r] = x]
           e == [q EXCEPT !.receiptCredit[r] = x]
<1>1. c \in [Receipts -> Nat] /\ c[r] = x /\ \A o \in Receipts \ {r} : c[o] = q.receiptCredit[o]
    BY DEF Simulations
<1>2. e = [q EXCEPT !.receiptCredit = c]
    BY DEF Simulations
<1> HIDE DEF e, c
<1>3. e \in Simulations(d) /\ e.receiptPaid = q.receiptPaid /\ e.receiptCredit = c
    BY <1>1, <1>2 DEF Simulations
<1>4. Unmet(d, e) = Unmet(d, q)
    BY <1>3 DEF Unmet
<1> QED
    BY <1>1, <1>3, <1>4 DEF e

\* The credit of a receipt that left x.
Remainder(x) == IF x > Tol THEN x ELSE 0

\* What the service does with a receipt.
LEMMA SpreadResult ==
    ASSUME NEW d, Typed(d), NEW r \in LiveReceipts(d), NEW p \in Plans
    PROVE  LET e == Spread(d, r, p)
           IN /\ e \in Plans
              /\ Taken(p.balance, e.balance, d.amount[r], LiveInvoices(d), 0, d.date)
              /\ e.rcred[r] = Remainder(d.amount[r] - Drop(p.balance, e.balance, LiveInvoices(d)))
              /\ \A o \in Receipts \ {r} : e.rcred[o] = p.rcred[o]
<1> DEFINE e == Spread(d, r, p)
           L == LiveInvoices(d)
<1>1. PICK q : /\ SpreadSoFar(d, r, p, q, L)
               /\ e = [q EXCEPT !.rcred[r] = IF q.left > Tol THEN q.left ELSE 0]
    BY SpreadTakes
<1> DEFINE x == Remainder(q.left)
<1>2. /\ q \in Plans /\ q.rcred = p.rcred
      /\ Taken(p.balance, q.balance, d.amount[r], L, 0, d.date)
      /\ q.left = d.amount[r] - Drop(p.balance, q.balance, L)
    BY <1>1 DEF SpreadSoFar
<1>3. r \in Receipts /\ x \in Nat
    BY <1>2, LiveReceiptsFinite DEF Typed, Plans, Remainder
<1>4. e = [q EXCEPT !.rcred[r] = x]
    BY <1>1 DEF Remainder
<1> HIDE DEF x, e, L
<1>5. /\ e \in Plans /\ e.balance = q.balance
      /\ e.rcred[r] = x /\ \A o \in Receipts \ {r} : e.rcred[o] = q.rcred[o]
    BY <1>2, <1>3, <1>4, SetReceiptCredit
<1>6. x = Remainder(d.amount[r] - Drop(p.balance, e.balance, L))
    BY <1>2, <1>5 DEF x
<1> QED
    BY <1>2, <1>5, <1>6 DEF e, L

\* What the reference does with a receipt.
LEMMA SimulatedResult ==
    ASSUME NEW d, Typed(d), NEW r \in LiveReceipts(d), NEW p \in Simulations(d)
    PROVE  LET e == SimulatedReceipt(d, r, p)
           IN /\ e \in Simulations(d)
              /\ Taken(Unmet(d, p), Unmet(d, e), d.amount[r], LiveInvoices(d), Tol, d.date)
              /\ e.receiptCredit[r] =
                    Remainder(d.amount[r] - Drop(Unmet(d, p), Unmet(d, e), LiveInvoices(d)))
              /\ \A o \in Receipts \ {r} : e.receiptCredit[o] = p.receiptCredit[o]
<1> DEFINE e == SimulatedReceipt(d, r, p)
           L == LiveInvoices(d)
<1>1. PICK q : /\ SimulatedSoFar(d, r, p, q, L)
               /\ e = [q EXCEPT !.receiptCredit[r] =
                          IF q.remaining > Tol THEN q.remaining ELSE 0]
    BY SimulatedTakes
<1> DEFINE x == Remainder(q.remaining)
<1>2. /\ q \in Simulations(d) /\ q.receiptCredit = p.receiptCredit
      /\ Taken(Unmet(d, p), Unmet(d, q), d.amount[r], L, Tol, d.date)
      /\ q.remaining = d.amount[r] - Drop(Unmet(d, p), Unmet(d, q), L)
    BY <1>1 DEF SimulatedSoFar
<1>3. r \in Receipts /\ x \in Nat
    BY <1>2, LiveReceiptsFinite DEF Typed, Simulations, Remainder
<1>4. e = [q EXCEPT !.receiptCredit[r] = x]
    BY <1>1 DEF Remainder
<1> HIDE DEF x, e, L
<1>5. /\ e \in Simulations(d) /\ Unmet(d, e) = Unmet(d, q)
      /\ e.receiptCredit[r] = x
      /\ \A o \in Receipts \ {r} : e.receiptCredit[o] = q.receiptCredit[o]
    BY <1>2, <1>3, <1>4, SetSimulatedCredit
<1>6. x = Remainder(d.amount[r] - Drop(Unmet(d, p), Unmet(d, e), L))
    BY <1>2, <1>5 DEF x
<1> QED
    BY <1>2, <1>5, <1>6 DEF e, L

\* The service and the reference after the receipts of K, m being the tolerance for each.
Alongside(d, p, q, K, m) ==
    LET L == LiveInvoices(d)
    IN /\ p \in Plans /\ q \in Simulations(d)
       /\ InOrder(p.balance, d.total, L, d.date)
       /\ InOrder(Unmet(d, q), d.total, L, d.date)
       /\ Drift(p.balance, Unmet(d, q), L, d.date, m)
       /\ K = {} => p.balance = Unmet(d, q)
       /\ \A r \in K : /\ p.rcred[r] - q.receiptCredit[r] <= 2 * m
                       /\ q.receiptCredit[r] - p.rcred[r] <= 2 * m

\* Both credit what is left once all is paid that was owed.
LEMMA CreditDrift ==
    ASSUME NEW b, NEW a, NEW o, NEW c, NEW A, NEW L, NEW key, NEW m \in Nat,
           Drift(b, o, L, key, m), Taken(b, a, A, L, 0, key), Taken(o, c, A, L, Tol, key),
           NEW x, NEW y, x = Remainder(A - Drop(b, a, L)), y = Remainder(A - Drop(o, c, L))
    PROVE  x - y <= 2 * (m + Tol) /\ y - x <= 2 * (m + Tol)
<1>1. Prefix(L, L, key) /\ Tol \in Nat /\ A \in Nat
    BY AmountsAssumption DEF Prefix, Taken
<1>2. Spends(b, a, A, L, 0) /\ Spends(o, c, A, L, Tol)
    BY <1>1, TakenOwes
<1>3. Owed(b, L) - Owed(o, L) <= m /\ Owed(o, L) - Owed(b, L) <= 2 * m
    BY <1>1 DEF Drift
<1> DEFINE ob == Owed(b, L)  oo == Owed(o, L)  db1 == Drop(b, a, L)  do1 == Drop(o, c, L)
<1>4. /\ ob \in Nat /\ oo \in Nat /\ db1 \in Int /\ do1 \in Int
      /\ ob - oo <= m /\ oo - ob <= 2 * m
      /\ ob <= A => db1 = ob
      /\ ob > A => db1 = A
      /\ oo <= A => do1 = oo
      /\ oo > A => A - Tol <= do1 /\ do1 <= A
      /\ x = IF A - db1 > Tol THEN A - db1 ELSE 0
      /\ y = IF A - do1 > Tol THEN A - do1 ELSE 0
    BY <1>1, <1>2, <1>3 DEF Spends, Remainder
<1> HIDE DEF ob, oo, db1, do1
<1> QED
    BY <1>1, <1>4

\* One more receipt.
LEMMA AlongsideStep ==
    ASSUME NEW d, Typed(d), NEW K \in SUBSET LiveReceipts(d), NEW r \in K, NEW m \in Nat,
           NEW p, NEW q, Alongside(d, p, q, K \ {r}, m)
    PROVE  Alongside(d, Spread(d, r, p), SimulatedReceipt(d, r, q), K, m + Tol)
<1> DEFINE L == LiveInvoices(d)
           e == Spread(d, r, p)
           f == SimulatedReceipt(d, r, q)
           A == d.amount[r]
           key == d.date
<1>0. r \in LiveReceipts(d) /\ r \in Receipts /\ K \subseteq Receipts /\ L \in SUBSET Invoices /\ Tol \in Nat
    BY LiveReceiptsFinite, LiveInvoicesFinite, AmountsAssumption DEF Typed
<1>1. /\ p \in Plans /\ q \in Simulations(d)
      /\ InOrder(p.balance, d.total, L, key) /\ InOrder(Unmet(d, q), d.total, L, key)
      /\ Drift(p.balance, Unmet(d, q), L, key, m)
      /\ \A o \in K \ {r} : /\ p.rcred[o] - q.receiptCredit[o] <= 2 * m
                            /\ q.receiptCredit[o] - p.rcred[o] <= 2 * m
    BY DEF Alongside
<1>2. /\ e \in Plans /\ Taken(p.balance, e.balance, A, L, 0, key)
      /\ e.rcred[r] = Remainder(A - Drop(p.balance, e.balance, L))
      /\ \A o \in Receipts \ {r} : e.rcred[o] = p.rcred[o]
    BY <1>0, <1>1, SpreadResult
<1>3. /\ f \in Simulations(d) /\ Taken(Unmet(d, q), Unmet(d, f), A, L, Tol, key)
      /\ f.receiptCredit[r] = Remainder(A - Drop(Unmet(d, q), Unmet(d, f), L))
      /\ \A o \in Receipts \ {r} : f.receiptCredit[o] = q.receiptCredit[o]
    BY <1>0, <1>1, SimulatedResult
<1>4. A \in Nat
    BY <1>0 DEF Typed, TypedRows
<1> DEFINE b == p.balance  a == e.balance  o == Unmet(d, q)  c == Unmet(d, f)
           x == e.rcred[r]  y == f.receiptCredit[r]
<1>5. /\ InOrder(b, d.total, L, key) /\ InOrder(o, d.total, L, key) /\ Drift(b, o, L, key, m)
      /\ Taken(b, a, A, L, 0, key) /\ Taken(o, c, A, L, Tol, key)
      /\ x = Remainder(A - Drop(b, a, L)) /\ y = Remainder(A - Drop(o, c, L))
    BY <1>1, <1>2, <1>3
<1> HIDE DEF b, a, o, c, x, y, L, e, f, A, key
<1>6. InOrder(a, d.total, L, key) /\ InOrder(c, d.total, L, key)
    BY <1>0, <1>5, TakenInOrder
<1>7. Drift(a, c, L, key, m + Tol)
    BY <1>0, <1>4, <1>5, DriftStep
<1>8. x - y <= 2 * (m + Tol) /\ y - x <= 2 * (m + Tol)
    BY <1>5, CreditDrift
<1>9. ASSUME NEW k \in K
      PROVE  /\ e.rcred[k] - f.receiptCredit[k] <= 2 * (m + Tol)
             /\ f.receiptCredit[k] - e.rcred[k] <= 2 * (m + Tol)
    <2>1. CASE k = r
        BY <1>8, <2>1 DEF x, y
    <2>2. CASE k # r
        <3>1. k \in K \ {r} /\ k \in Receipts \ {r} /\ k \in Receipts
            BY <1>0, <2>2
        <3>2. e.rcred[k] = p.rcred[k] /\ f.receiptCredit[k] = q.receiptCredit[k]
            BY <1>2, <1>3, <3>1
        <3>3. p.rcred[k] \in Nat /\ q.receiptCredit[k] \in Nat
            BY <1>1, <3>1 DEF Plans, Simulations
        <3>4. p.rcred[k] - q.receiptCredit[k] <= 2 * m /\ q.receiptCredit[k] - p.rcred[k] <= 2 * m
            BY <1>1, <3>1
        <3>5. 2 * m <= 2 * (m + Tol)
            BY <1>0
        <3> DEFINE u == p.rcred[k]  v == q.receiptCredit[k]
        <3>6. u \in Nat /\ v \in Nat /\ u - v <= 2 * m /\ v - u <= 2 * m
            BY <3>3, <3>4
        <3> HIDE DEF u, v
        <3>7. u - v <= 2 * (m + Tol) /\ v - u <= 2 * (m + Tol)
            BY <1>0, <3>6
        <3> QED
            BY <3>2, <3>7 DEF u, v
    <2> QED
        BY <2>1, <2>2
<1>10. Alongside(d, e, f, K, m + Tol)
    BY <1>2, <1>3, <1>6, <1>7, <1>9 DEF Alongside, L, a, c, key
<1> QED
    BY <1>10 DEF e, f

\* What the reference starts from.
Unsimulated ==
    [remaining     |-> 0,
     receiptPaid   |-> [i \in Invoices |-> 0],
     receiptCredit |-> [r \in Receipts |-> 0]]

SimulationTable(d, g) ==
    g = [s \in SUBSET LiveReceipts(d) |->
           IF s = {} THEN Unsimulated
           ELSE SimulatedReceipt(d, Latest(s, [r \in Receipts |-> r]),
                                 g[s \ {Latest(s, [r \in Receipts |-> r])}])]

\* The loop of the reference over the receipts as a table.
LEMMA SimulationIsFold ==
    ASSUME NEW d
    PROVE  SimulatedRebuild(d) = (CHOOSE g : SimulationTable(d, g))[LiveReceipts(d)]
BY DEF SimulatedRebuild, FoldInOrder, MapThenFoldSet, SimulationTable, Unsimulated

\* The receipts of the reference one by one.
SimulationBy(d, g) ==
    /\ g[{}] = Unsimulated
    /\ \A s \in SUBSET LiveReceipts(d) : s # {} =>
         \E r \in s : /\ r = Latest(s, [o \in Receipts |-> o])
                      /\ g[s] = SimulatedReceipt(d, r, g[s \ {r}])
    /\ SimulatedRebuild(d) = g[LiveReceipts(d)]

\* The loop of the reference over the receipts has a table.
LEMMA SimulationSteps ==
    ASSUME NEW d, Typed(d)
    PROVE  \E g \in [SUBSET LiveReceipts(d) -> Simulations(d)] : SimulationBy(d, g)
<1> DEFINE R     == LiveReceipts(d)
           P     == Simulations(d)
           start == Unsimulated
           last  == [s \in SUBSET R |-> Latest(s, [r \in Receipts |-> r])]
           F     == [s \in SUBSET R |-> [q \in P |-> SimulatedReceipt(d, last[s], q)]]
           G     == CHOOSE g : SimulationTable(d, g)
<1>1. IsFiniteSet(R) /\ R \subseteq Receipts
    BY LiveReceiptsFinite DEF Typed
<1>2. \A s \in SUBSET R : s # {} => last[s] \in s
    BY ReceiptOrder
<1>3. start \in P
    BY DEF Unsimulated, Simulations, Typed, TypedBills
<1>4. \A s \in SUBSET R, q \in P : s # {} => F[s][q] \in P
    <2>1. ASSUME NEW s \in SUBSET R, NEW q \in P, s # {}
          PROVE  F[s][q] \in P
        <3>1. F[s][q] = SimulatedReceipt(d, last[s], q) /\ last[s] \in R
            BY <1>2, <2>1
        <3> QED
            BY <3>1, SimulatedResult
    <2> QED
        BY <2>1
<1>5. PICK h \in [SUBSET R -> P] : Folds(h, R, start, F, last)
    <2> HIDE DEF R, P, start, last, F
    <2> QED
        BY <1>1, <1>2, <1>3, <1>4, SetRecursion
<1>6. SimulationTable(d, h)
    <2>1. \A s \in SUBSET R : h[s] =
             IF s = {} THEN start ELSE SimulatedReceipt(d, last[s], h[s \ {last[s]}])
        BY <1>2, <1>5 DEF Folds
    <2> QED
        BY <2>1 DEF SimulationTable
<1>7. SimulationTable(d, G)
    BY <1>6
<1>8. FoldsWithin(G, R, P, start, F, last)
    <2>1. G[{}] = start
        BY <1>7 DEF SimulationTable
    <2>2. ASSUME NEW s \in SUBSET R, s # {}, G[s \ {last[s]}] \in P
          PROVE  G[s] = F[s][G[s \ {last[s]}]]
        <3>1. G[s] = SimulatedReceipt(d, last[s], G[s \ {last[s]}])
            BY <1>7, <2>2 DEF SimulationTable
        <3> QED
            BY <2>2, <3>1
    <2> HIDE DEF R, P, start, last, F, G
    <2> QED
        BY <2>1, <2>2 DEF FoldsWithin
<1>9. \A s \in SUBSET R : G[s] \in P
    <2> HIDE DEF R, P, start, last, F, G
    <2> QED
        BY <1>1, <1>2, <1>3, <1>4, <1>8, FoldStays
<1>10. G \in [SUBSET R -> P]
    BY <1>7, <1>9 DEF SimulationTable
<1>11. G[{}] = start
    BY <1>7 DEF SimulationTable
<1>12. ASSUME NEW s \in SUBSET R, s # {}
       PROVE  \E r \in s : /\ r = Latest(s, [o \in Receipts |-> o])
                           /\ G[s] = SimulatedReceipt(d, r, G[s \ {r}])
    <2>1. /\ last[s] = Latest(s, [o \in Receipts |-> o])
          /\ G[s] = SimulatedReceipt(d, last[s], G[s \ {last[s]}])
        BY <1>7, <1>12 DEF SimulationTable
    <2> QED
        BY <1>2, <1>12, <2>1
<1>13. SimulatedRebuild(d) = G[R]
    BY SimulationIsFold
<1> HIDE DEF G
<1> QED
    BY <1>10, <1>11, <1>12, <1>13 DEF SimulationBy

\* Before the first receipt the two agree.
LEMMA AlongsideStart ==
    ASSUME NEW d, Typed(d)
    PROVE  Alongside(d, Unpaid(d), Unsimulated, {}, 0)
<1> DEFINE p == Unpaid(d)  q == Unsimulated  L == LiveInvoices(d)  b == d.total
<1>1. p \in Plans /\ p.balance = b /\ b \in Balances /\ \A i \in Invoices : b[i] \in Nat
    BY DEF Unpaid, Plans, Typed, TypedBills, Balances
<1>2. q \in Simulations(d) /\ q.receiptPaid = [i \in Invoices |-> 0]
    BY <1>1 DEF Unsimulated, Simulations, Balances
<1>3. Unmet(d, q) = b
    <2>1. \A i \in Invoices : b[i] - q.receiptPaid[i] = b[i]
        BY <1>1, <1>2
    <2>2. b = [i \in Invoices |-> b[i]]
        BY <1>1 DEF Balances
    <2> QED
        BY <2>1, <2>2 DEF Unmet
<1>4. L \in SUBSET Invoices
    BY LiveInvoicesFinite DEF Typed
<1> HIDE DEF p, q, b, L
<1>5. InOrder(b, b, L, d.date)
    BY <1>1, <1>4 DEF InOrder
<1>6. Drift(b, b, L, d.date, 0)
    <2>1. ASSUME NEW s \in SUBSET L
          PROVE  Owed(b, s) - Owed(b, s) <= 0 /\ Owed(b, s) - Owed(b, s) <= 2 * 0
        <3>1. Owed(b, s) \in Nat
            BY <1>1, <1>4, OwingTyped
        <3> DEFINE x == Owed(b, s)
        <3> HIDE DEF x
        <3>2. x \in Nat => x - x <= 0 /\ x - x <= 2 * 0
            OBVIOUS
        <3> QED
            BY <3>1, <3>2 DEF x
    <2> QED
        BY <2>1 DEF Drift
<1>7. Alongside(d, p, q, {}, 0)
    BY <1>1, <1>2, <1>3, <1>5, <1>6 DEF Alongside, L, b
<1> QED
    BY <1>7 DEF p, q

\* So they stay alongside through all receipts.
LEMMA RebuildAlongside ==
    ASSUME NEW d, Typed(d)
    PROVE  LET R == LiveReceipts(d)
           IN Alongside(d, FifoPlan(d), SimulatedRebuild(d), R, Cardinality(R) * Tol)
<1> DEFINE R == LiveReceipts(d)
<1>1. IsFiniteSet(R) /\ Tol \in Nat
    BY LiveReceiptsFinite, AmountsAssumption DEF Typed
<1>2. PICK G \in [SUBSET R -> Plans] : FifoBy(d, G)
    BY FifoSteps
<1>3. PICK H \in [SUBSET R -> Simulations(d)] : SimulationBy(d, H)
    BY SimulationSteps
<1>4. G[{}] = Unpaid(d) /\ H[{}] = Unsimulated /\ FifoPlan(d) = G[R] /\ SimulatedRebuild(d) = H[R]
    BY <1>2, <1>3 DEF FifoBy, SimulationBy
<1>5. ASSUME NEW s \in SUBSET R, s # {}
      PROVE  \E r \in s : G[s] = Spread(d, r, G[s \ {r}]) /\ H[s] = SimulatedReceipt(d, r, H[s \ {r}])
    BY <1>2, <1>3, <1>5 DEF FifoBy, SimulationBy
<1>5a. \A s \in SUBSET R : s \in SUBSET LiveReceipts(d)
    OBVIOUS
<1> HIDE DEF R
<1> DEFINE T == {s \in SUBSET R : Alongside(d, G[s], H[s], s, Cardinality(s) * Tol)}
<1>6. {} \in T
    <2>1. Cardinality({}) * Tol = 0
        BY <1>1, FS_EmptySet
    <2> QED
        BY <1>4, <2>1, AlongsideStart
<1>7. ASSUME NEW s \in SUBSET R, s # {}, \A x \in s : s \ {x} \in T
      PROVE  s \in T
    <2>1. PICK r \in s : G[s] = Spread(d, r, G[s \ {r}]) /\ H[s] = SimulatedReceipt(d, r, H[s \ {r}])
        BY <1>5, <1>7
    <2> DEFINE m == Cardinality(s \ {r}) * Tol
    <2>2. Alongside(d, G[s \ {r}], H[s \ {r}], s \ {r}, m)
        BY <1>7
    <2>3. m \in Nat /\ Cardinality(s) * Tol = m + Tol
        <3>1. IsFiniteSet(s) /\ IsFiniteSet(s \ {r})
            BY <1>1, FS_Subset
        <3>2. Cardinality(s) = Cardinality(s \ {r}) + 1 /\ Cardinality(s \ {r}) \in Nat
            BY <3>1, FS_RemoveElement, FS_CardinalityType
        <3> DEFINE k == Cardinality(s \ {r})
        <3> HIDE DEF k
        <3>3. k \in Nat => k * Tol \in Nat /\ (k + 1) * Tol = k * Tol + Tol
            BY <1>1
        <3> QED
            BY <3>2, <3>3 DEF k
    <2> HIDE DEF m
    <2>4. Alongside(d, G[s], H[s], s, m + Tol)
        BY <1>5a, <2>1, <2>2, <2>3, AlongsideStep
    <2> QED
        BY <2>3, <2>4
<1>8. T \subseteq SUBSET R
    OBVIOUS
<1> HIDE DEF T
<1>9. T = SUBSET R
    <2>1. \A s \in SUBSET R : s # {} /\ (\A x \in s : s \ {x} \in T) => s \in T
        BY <1>7
    <2> QED
        BY <1>1, <1>6, <1>8, <2>1, SubsetInduction
<1>10. Alongside(d, G[R], H[R], R, Cardinality(R) * Tol)
    BY <1>9 DEF T
<1> QED
    BY <1>4, <1>10 DEF R

\* What the rebuilt rows of live receipts pay an invoice is what the plan took off it.
LEMMA RebuiltRows ==
    ASSUME NEW d, Typed(d), NEW i \in LiveInvoices(d)
    PROVE  SumFunction([r \in LiveReceipts(d) |-> Rebuild(d).alloc[r][i]])
             = d.total[i] - FifoPlan(d).balance[i]
<1> DEFINE e    == Rebuild(d)
           plan == FifoPlan(d)
           R    == LiveReceipts(d)
           f    == [r \in R |-> e.alloc[r][i]]
           g    == [r \in Receipts |-> plan.alloc[r][i]]
<1>1. i \in Invoices /\ R \subseteq Receipts /\ IsFiniteSet(R) /\ IsFiniteSet(Receipts)
    BY LiveInvoicesFinite, LiveReceiptsFinite, IdsAssumption DEF Typed
<1>2. e.alloc = [r \in Receipts |-> IF r \in R THEN plan.alloc[r] ELSE d.alloc[r]]
    BY RebuildFields
<1>3. /\ plan \in Plans /\ plan.balance[i] + PaidTo(plan.alloc, i) = d.total[i]
      /\ \A r \in Receipts \ R : plan.alloc[r][i] = 0
    BY <1>1, FifoPlanFills DEF Filled
<1> HIDE DEF e, plan, R
<1>4. /\ \A r \in R : g[r] \in Int /\ f[r] \in Int /\ f[r] = g[r]
      /\ \A r \in Receipts \ R : g[r] = 0
      /\ \A r \in Receipts : g[r] \in Nat
    BY <1>1, <1>2, <1>3 DEF Plans
<1>5. DOMAIN f = R /\ DOMAIN g = Receipts
    OBVIOUS
<1>6. SumFunction(f) = SumFunctionOnSet(f, R) /\ PaidTo(plan.alloc, i) = SumFunctionOnSet(g, Receipts)
    BY <1>5 DEF SumFunction, PaidTo
<1>7. plan.balance[i] \in Nat
    BY <1>1, <1>3 DEF Plans
<1> HIDE DEF f, g
<1>8. SumFunctionOnSet(f, R) = SumFunctionOnSet(g, R)
    BY <1>1, <1>4, SumCongruent
<1>9. SumFunctionOnSet(g, Receipts) = SumFunctionOnSet(g, R)
    BY <1>1, <1>4, SumRestrict
<1>10. SumFunctionOnSet(g, Receipts) \in Nat
    BY <1>1, <1>4, SumNat
<1>11. SumFunction(f) = d.total[i] - plan.balance[i]
    BY <1>3, <1>6, <1>7, <1>8, <1>9, <1>10
<1> QED
    BY <1>11 DEF f, e, plan, R

\* The rebuild does what the reference does, up to twice the tolerance for each receipt.
LEMMA RebuildMatches ==
    ASSUME Typed(db)
    PROVE  RebuildMatchesReference
<1> DEFINE d   == Rebuild(db)
           ref == SimulatedRebuild(db)
           plan == FifoPlan(db)
           R   == LiveReceipts(db)
           L   == LiveInvoices(db)
           m   == Cardinality(R) * Tol
           n   == 2 * Cardinality(R)
           b   == plan.balance
           o   == Unmet(db, ref)
<1>1. Alongside(db, plan, ref, R, m)
    BY RebuildAlongside
<1>2. /\ plan \in Plans /\ ref \in Simulations(db)
      /\ InOrder(b, db.total, L, db.date) /\ InOrder(o, db.total, L, db.date)
      /\ Drift(b, o, L, db.date, m) /\ (R = {} => b = o)
      /\ \A r \in R : plan.rcred[r] - ref.receiptCredit[r] <= 2 * m
                      /\ ref.receiptCredit[r] - plan.rcred[r] <= 2 * m
    BY <1>1 DEF Alongside
<1>3. /\ L \in SUBSET Invoices /\ R \subseteq Receipts /\ IsFiniteSet(R) /\ Tol \in Nat
      /\ \A i \in L : db.date[i] \in Nat
    BY LiveInvoicesFinite, LiveReceiptsFinite, AmountsAssumption DEF Typed, TypedBills
<1>4. m \in Nat /\ n * Tol = 2 * m /\ (R # {} => m >= Tol)
    <2> DEFINE k == Cardinality(R)
    <2>1. k \in Nat /\ (R # {} => k # 0)
        BY <1>3, FS_CardinalityType, FS_EmptySet
    <2> HIDE DEF k
    <2>2. k * Tol \in Nat /\ (2 * k) * Tol = 2 * (k * Tol)
        BY <1>3, <2>1
    <2>3. ASSUME k # 0
          PROVE  k * Tol >= Tol
        <3>1. k - 1 \in Nat /\ k * Tol = (k - 1) * Tol + Tol
            BY <1>3, <2>1, <2>3
        <3>2. (k - 1) * Tol \in Nat
            BY <1>3, <3>1
        <3> QED
            BY <1>3, <3>1, <3>2
    <2> QED
        BY <2>1, <2>2, <2>3 DEF k
<1>5. d.rcred = [r \in Receipts |-> IF r \in R THEN plan.rcred[r] ELSE db.rcred[r]]
    BY RebuildFields
<1>6. \A i \in L : SumFunction([r \in R |-> d.alloc[r][i]]) = db.total[i] - b[i]
    BY RebuiltRows
<1>7. \A i \in Invoices : /\ o[i] = db.total[i] - ref.receiptPaid[i]
                          /\ db.total[i] \in Nat /\ ref.receiptPaid[i] \in Nat
    BY <1>2, UnmetTyped
<1>8. b \in Balances /\ o \in Balances
    BY <1>2, UnmetTyped DEF Plans, Balances
<1> HIDE DEF d, ref, plan, R, L, m, n, b, o
<1>9. ASSUME NEW i \in L
      PROVE  b[i] - o[i] <= 2 * m /\ o[i] - b[i] <= 2 * m
    <2>0. b[i] \in Nat /\ o[i] \in Nat
        BY <1>3, <1>8 DEF Balances
    <2>1. CASE R = {}
        BY <1>2, <1>4, <2>0, <2>1
    <2>2. CASE R # {}
        <3>1. m >= Tol
            BY <1>4, <2>2
        <3> DEFINE key == db.date  total == db.total
        <3>2. \A j \in L : key[j] \in Nat
            BY <1>3
        <3>3. InOrder(b, total, L, key) /\ InOrder(o, total, L, key) /\ Drift(b, o, L, key, m)
            BY <1>2
        <3> HIDE DEF key, total
        <3>4. b[i] - o[i] <= m /\ o[i] - b[i] <= 2 * m
            BY <1>3, <1>4, <3>1, <3>2, <3>3, DriftApart
        <3> QED
            BY <1>4, <2>0, <3>4
    <2> QED
        BY <2>1, <2>2
<1>10. ASSUME NEW i \in L
       PROVE  Near(SumFunction([r \in R |-> d.alloc[r][i]]), ref.receiptPaid[i], n)
    <2>1. b[i] \in Nat /\ o[i] \in Nat /\ i \in Invoices
        BY <1>3, <1>8 DEF Balances
    <2>2. o[i] = db.total[i] - ref.receiptPaid[i] /\ db.total[i] \in Nat /\ ref.receiptPaid[i] \in Nat
        BY <1>7, <2>1
    <2>3. b[i] - o[i] <= 2 * m /\ o[i] - b[i] <= 2 * m
        BY <1>9
    <2> DEFINE x == db.total[i] - b[i]  y == ref.receiptPaid[i]
    <2>4. x - y <= 2 * m /\ y - x <= 2 * m
        BY <2>1, <2>2, <2>3
    <2>5. Near(x, y, n)
        BY <1>4, <2>4 DEF Near
    <2> QED
        BY <1>6, <2>5
<1>11. ASSUME NEW r \in R
       PROVE  Near(d.rcred[r], ref.receiptCredit[r], n)
    <2>1. d.rcred[r] = plan.rcred[r]
        BY <1>3, <1>5
    <2>2. plan.rcred[r] - ref.receiptCredit[r] <= 2 * m /\ ref.receiptCredit[r] - plan.rcred[r] <= 2 * m
        BY <1>2
    <2> QED
        BY <1>4, <2>1, <2>2 DEF Near
<1> QED
    BY <1>10, <1>11 DEF RebuildMatchesReference, d, ref, R, L, n

-----------------------------------------------------------------------------
(* The overpayments a reconciliation corrects                              *)

\* The overpaid live invoices, the plan that corrects them, and its result.
OverpaidNow(d)   == Overpaid(d, LiveInvoices(d))
LivePlan(d)      == CorrectionPlan(d, LiveInvoices(d))
LiveCorrected(d) == CorrectOverpayments(d, LiveInvoices(d))

LEMMA LiveAreInvoices ==
    ASSUME NEW d, Typed(d)
    PROVE  LiveInvoices(d) \in SUBSET Invoices
BY DEF LiveInvoices, Typed, Ids

LEMMA LiveOverpaymentTyped ==
    ASSUME NEW d, Typed(d), NEW i \in OverpaidNow(d), NEW p \in Corrections(OverpaidNow(d))
    PROVE  CorrectOverpayment(d, i, p) \in Corrections(OverpaidNow(d))
<1> DEFINE L == LiveInvoices(d)
<1>1. L \in SUBSET Invoices
    BY LiveAreInvoices
<1>2. i \in Overpaid(d, L) /\ p \in Corrections(Overpaid(d, L))
    BY DEF OverpaidNow
<1>3. CorrectOverpayment(d, i, p) \in Corrections(Overpaid(d, L))
    <2> HIDE DEF L
    <2> QED
        BY <1>1, <1>2, CorrectOverpaymentTyped
<1> QED
    BY <1>3 DEF OverpaidNow

LEMMA LiveOverpaidOrder ==
    ASSUME NEW d, Typed(d), NEW s \in SUBSET OverpaidNow(d), s # {}
    PROVE  Latest(s, d.date) \in s
<1> DEFINE L == LiveInvoices(d)
<1>1. L \in SUBSET Invoices
    BY LiveAreInvoices
<1>2. s \in SUBSET Overpaid(d, L)
    BY DEF OverpaidNow
<1> HIDE DEF L
<1> QED
    BY <1>1, <1>2, OverpaidOrder

LEMMA LivePlanIsFold ==
    ASSUME NEW d
    PROVE  LivePlan(d) = (CHOOSE g : CorrectionTable(d, LiveInvoices(d), g))[OverpaidNow(d)]
BY CorrectionPlanIsFold DEF LivePlan, OverpaidNow

LEMMA LiveCorrectedTyped ==
    ASSUME NEW d, Typed(d)
    PROVE  LET e == LiveCorrected(d).db
           IN Typed(e) /\ SameIds(d, e) /\ SameBills(d, e) /\ SameReceipts(d, e)
<1> DEFINE L == LiveInvoices(d)
           c == CorrectOverpayments(d, L).db
<1>1. L \in SUBSET Invoices
    BY LiveAreInvoices
<1>2. Typed(c) /\ SameIds(d, c) /\ SameBills(d, c) /\ SameReceipts(d, c)
    <2> HIDE DEF L
    <2> QED
        BY <1>1, CorrectOverpaymentsTyped
<1>3. LiveCorrected(d).db = c
    BY DEF LiveCorrected
<1> HIDE DEF c
<1> QED
    BY <1>2, <1>3

\* A reconciliation corrects the invoices it loads first, which are the live ones.
LEMMA ReconcileIs ==
    ASSUME NEW d, Typed(d)
    PROVE  Reconcile(d) = Settle(LiveCorrected(UnlinkVoided(d)), LiveInvoices(d))
<1>1. DOMAIN d = Columns
    BY DEF Typed, Ids
<1>2. LiveInvoices(UnlinkVoided(d)) = LiveInvoices(d)
    BY <1>1 DEF UnlinkVoided, LiveInvoices, Columns
<1> QED
    BY <1>2 DEF Reconcile, ReconcileOf, LiveCorrected

\* What of an overpayment was not credited before.
Extra(d, i) == Overpayment(d, i) - d.credited[i]

\* The overpaid invoices one by one, oldest first: a sequence of plans.
CorrectionBy(d, g) ==
    /\ g[{}] = [ok |-> TRUE, credit |-> d.credit, capped |-> {}, grown |-> {}]
    /\ \A s \in SUBSET OverpaidNow(d) : s # {} =>
         \E i \in s : i = Latest(s, d.date) /\ g[s] = CorrectOverpayment(d, i, g[s \ {i}])
    /\ LivePlan(d) = g[OverpaidNow(d)]

\* The loop over the overpaid invoices has a table, step by step.
LEMMA CorrectionSteps ==
    ASSUME NEW d, Typed(d)
    PROVE  \E g \in [SUBSET OverpaidNow(d) -> Corrections(OverpaidNow(d))] :
               CorrectionBy(d, g)
<1> DEFINE S     == OverpaidNow(d)
           P     == Corrections(S)
           start == [ok |-> TRUE, credit |-> d.credit, capped |-> {}, grown |-> {}]
           last  == [s \in SUBSET S |-> Latest(s, d.date)]
           F     == [s \in SUBSET S |-> [p \in P |-> CorrectOverpayment(d, last[s], p)]]
           G     == CHOOSE g : CorrectionTable(d, LiveInvoices(d), g)
<1>1. IsFiniteSet(S)
    <2>1. S \subseteq Invoices
        BY DEF OverpaidNow, Overpaid, LiveInvoices, Typed, Ids
    <2> QED
        BY <2>1, FS_Subset, IdsAssumption
<1>2. \A s \in SUBSET S : s # {} => last[s] \in s
    BY LiveOverpaidOrder
<1>3. start \in P
    BY DEF Corrections, Typed, TypedCredit
<1>4. \A s \in SUBSET S, p \in P : s # {} => F[s][p] \in P
    <2>1. ASSUME NEW s \in SUBSET S, NEW p \in P, s # {}
          PROVE  F[s][p] \in P
        <3>1. F[s][p] = CorrectOverpayment(d, last[s], p) /\ last[s] \in S
            BY <1>2, <2>1
        <3> QED
            BY <3>1, LiveOverpaymentTyped
    <2> QED
        BY <2>1
<1>5. PICK h \in [SUBSET S -> P] : Folds(h, S, start, F, last)
    <2> HIDE DEF S, P, start, last, F
    <2> QED
        BY <1>1, <1>2, <1>3, <1>4, SetRecursion
<1>6. CorrectionTable(d, LiveInvoices(d), h)
    <2>1. \A s \in SUBSET S : h[s] =
             IF s = {} THEN start ELSE CorrectOverpayment(d, last[s], h[s \ {last[s]}])
        BY <1>5 DEF Folds
    <2> QED
        BY <2>1 DEF CorrectionTable, OverpaidNow
<1>7. CorrectionTable(d, LiveInvoices(d), G)
    BY <1>6
<1>8. FoldsWithin(G, S, P, start, F, last)
    <2>1. G[{}] = start
        BY <1>7 DEF CorrectionTable, OverpaidNow
    <2>2. ASSUME NEW s \in SUBSET S, s # {}, G[s \ {last[s]}] \in P
          PROVE  G[s] = F[s][G[s \ {last[s]}]]
        <3>1. G[s] = CorrectOverpayment(d, last[s], G[s \ {last[s]}])
            BY <1>7, <2>2 DEF CorrectionTable, OverpaidNow
        <3> QED
            BY <2>2, <3>1
    <2> HIDE DEF S, P, start, last, F, G
    <2> QED
        BY <2>1, <2>2 DEF FoldsWithin
<1>9. \A s \in SUBSET S : G[s] \in P
    <2> HIDE DEF S, P, start, last, F, G
    <2> QED
        BY <1>1, <1>2, <1>3, <1>4, <1>8, FoldStays
<1>10. G \in [SUBSET S -> P]
    BY <1>7, <1>9 DEF CorrectionTable, OverpaidNow
<1>11. G[{}] = start
    BY <1>7 DEF CorrectionTable, OverpaidNow
<1>12. ASSUME NEW s \in SUBSET S, s # {}
       PROVE  \E i \in s : i = Latest(s, d.date) /\ G[s] = CorrectOverpayment(d, i, G[s \ {i}])
    <2>1. last[s] = Latest(s, d.date) /\ G[s] = CorrectOverpayment(d, last[s], G[s \ {last[s]}])
        BY <1>7, <1>12 DEF CorrectionTable, OverpaidNow
    <2> QED
        BY <1>2, <1>12, <2>1
<1>13. LivePlan(d) = G[S]
    BY LivePlanIsFold
<1> HIDE DEF G
<1> QED
    BY <1>10, <1>11, <1>12, <1>13 DEF CorrectionBy

\* An invoice of s whose correction the credit limit refuses, from the credit x, with those
\* in w corrected before it.
Refused(d, s, x, w) ==
    \E j \in s : /\ Extra(d, j) > Tol /\ j \notin w /\ x + Extra(d, j) > CreditLimit
                 /\ \A k \in s : Before(k, j, d.date) => Extra(d, k) <= Tol \/ k \in w

\* Where the corrections stand once they came to the invoices of s.
CorrectedSoFar(d, p, s) ==
    /\ p \in Corrections(OverpaidNow(d))
    /\ p.grown \subseteq {i \in s : Extra(d, i) > Tol}
    /\ p.ok => \A i \in s : Extra(d, i) <= Tol \/ i \in p.grown
    /\ p.grown = {} => p.credit = d.credit
    /\ (\A i \in s : Extra(d, i) <= Tol) => p.ok
    /\ ~p.ok => Refused(d, s, p.credit, p.grown)
    /\ Refused(d, s, d.credit, {}) => ~p.ok

\* What the next correction does.
LEMMA CorrectOverpaymentFields ==
    ASSUME NEW d, Typed(d), NEW i \in OverpaidNow(d), NEW p \in Corrections(OverpaidNow(d))
    PROVE  LET q == CorrectOverpayment(d, i, p)
           IN /\ Extra(d, i) \in Int /\ q \in Corrections(OverpaidNow(d))
              /\ ~p.ok => q = p
              /\ p.ok /\ Extra(d, i) <= Tol =>
                   q.ok /\ q.credit = p.credit /\ q.grown = p.grown
              /\ p.ok /\ Extra(d, i) > Tol /\ p.credit + Extra(d, i) > CreditLimit =>
                   ~q.ok /\ q.credit = p.credit /\ q.grown = p.grown
              /\ p.ok /\ Extra(d, i) > Tol /\ ~(p.credit + Extra(d, i) > CreditLimit) =>
                   q.ok /\ q.grown = p.grown \union {i}
<1> DEFINE q == CorrectOverpayment(d, i, p)
<1>1. Extra(d, i) \in Int /\ Tol \in Nat
    <2>1. i \in Invoices
        BY DEF OverpaidNow, Overpaid, LiveInvoices, Typed, Ids
    <2> QED
        BY <2>1, PaidIsNat, AmountsAssumption DEF Extra, Overpayment, Typed, TypedBills, TypedCredit
<1>2. q \in Corrections(OverpaidNow(d))
    BY LiveOverpaymentTyped
<1> DEFINE x == Extra(d, i)
<1>3. q = CASE ~p.ok                   -> p
            [] p.ok /\ x <= Tol        -> [p EXCEPT !.capped = @ \union {i}]
            [] p.ok /\ x > Tol /\ p.credit + x > CreditLimit
                                       -> [p EXCEPT !.ok = FALSE]
            [] OTHER -> [p EXCEPT !.capped = @ \union {i}, !.grown  = @ \union {i},
                                  !.credit = Verified(d, @ + x)]
    BY DEF CorrectOverpayment, Extra
<1> HIDE DEF q, x
<1>4. DOMAIN p = {"ok", "credit", "capped", "grown"} /\ p.ok \in BOOLEAN
    BY DEF Corrections
<1>5. x \in Int
    BY <1>1 DEF x
<1>6. ~p.ok => q = p
    BY <1>3, <1>4
<1>7. p.ok /\ x <= Tol => q.ok /\ q.credit = p.credit /\ q.grown = p.grown
    <2>1. p.ok /\ x <= Tol => q = [p EXCEPT !.capped = @ \union {i}]
        BY <1>1, <1>3, <1>5
    <2> QED
        BY <1>4, <2>1
<1>8. p.ok /\ x > Tol /\ p.credit + x > CreditLimit =>
        ~q.ok /\ q.credit = p.credit /\ q.grown = p.grown
    <2>1. p.ok /\ x > Tol /\ p.credit + x > CreditLimit => q = [p EXCEPT !.ok = FALSE]
        BY <1>1, <1>3, <1>5
    <2> QED
        BY <1>4, <2>1
<1>9. p.ok /\ x > Tol /\ ~(p.credit + x > CreditLimit) => q.ok /\ q.grown = p.grown \union {i}
    <2>1. p.ok /\ x > Tol /\ ~(p.credit + x > CreditLimit)
            => q = [p EXCEPT !.capped = @ \union {i}, !.grown  = @ \union {i},
                             !.credit = Verified(d, @ + x)]
        BY <1>1, <1>3, <1>5
    <2> QED
        BY <1>4, <2>1
<1> QED
    BY <1>1, <1>2, <1>6, <1>7, <1>8, <1>9 DEF q, x

\* One invoice more.
LEMMA CorrectOne ==
    ASSUME NEW d, Typed(d), NEW s \in SUBSET OverpaidNow(d), s # {}, NEW i \in s,
           i = Latest(s, d.date), NEW p, CorrectedSoFar(d, p, s \ {i})
    PROVE  CorrectedSoFar(d, CorrectOverpayment(d, i, p), s)
<1> DEFINE q == CorrectOverpayment(d, i, p)
           t == s \ {i}
           x == Extra(d, i)
<1>0. s \in SUBSET LiveInvoices(d) /\ i \in OverpaidNow(d)
    BY DEF OverpaidNow, Overpaid
<1>1. /\ ~Before(i, i, d.date)
      /\ \A j \in t : Before(j, i, d.date) /\ ~Before(i, j, d.date)
    BY <1>0, LoopOrder
<1>2. /\ p \in Corrections(OverpaidNow(d))
      /\ p.grown \subseteq {j \in t : Extra(d, j) > Tol}
      /\ p.ok => \A j \in t : Extra(d, j) <= Tol \/ j \in p.grown
      /\ p.grown = {} => p.credit = d.credit
      /\ (\A j \in t : Extra(d, j) <= Tol) => p.ok
      /\ ~p.ok => Refused(d, t, p.credit, p.grown)
      /\ Refused(d, t, d.credit, {}) => ~p.ok
    BY DEF CorrectedSoFar
<1>3. /\ x \in Int /\ q \in Corrections(OverpaidNow(d))
      /\ ~p.ok => q = p
      /\ p.ok /\ x <= Tol => q.ok /\ q.credit = p.credit /\ q.grown = p.grown
      /\ p.ok /\ x > Tol /\ p.credit + x > CreditLimit =>
           ~q.ok /\ q.credit = p.credit /\ q.grown = p.grown
      /\ p.ok /\ x > Tol /\ ~(p.credit + x > CreditLimit) =>
           q.ok /\ q.grown = p.grown \union {i}
    BY <1>0, <1>2, CorrectOverpaymentFields
<1>4. p.ok \in BOOLEAN /\ Tol \in Nat /\ (x <= Tol \/ x > Tol) /\ ~(x <= Tol /\ x > Tol)
    BY <1>2, <1>3, AmountsAssumption DEF Corrections
<1> HIDE DEF q
<1>5. q.grown \subseteq {j \in s : Extra(d, j) > Tol}
    BY <1>2, <1>3, <1>4
<1>6. q.ok => \A j \in s : Extra(d, j) <= Tol \/ j \in q.grown
    BY <1>2, <1>3, <1>4
<1>7. q.grown = {} => q.credit = d.credit
    BY <1>2, <1>3, <1>4
<1>8. (\A j \in s : Extra(d, j) <= Tol) => q.ok
    BY <1>2, <1>3, <1>4
<1>9. ASSUME NEW y, NEW w, Refused(d, t, y, w)
      PROVE  Refused(d, s, y, w)
    <2>1. PICK j \in t : /\ Extra(d, j) > Tol /\ j \notin w /\ y + Extra(d, j) > CreditLimit
                         /\ \A k \in t : Before(k, j, d.date) => Extra(d, k) <= Tol \/ k \in w
        BY <1>9 DEF Refused
    <2>2. \A k \in s : Before(k, j, d.date) => k \in t
        BY <1>1
    <2> QED
        BY <2>1, <2>2 DEF Refused
<1>10. ASSUME ~q.ok
       PROVE  Refused(d, s, q.credit, q.grown)
    <2>1. CASE ~p.ok
        BY <1>2, <1>3, <1>9, <2>1
    <2>2. CASE p.ok
        <3>1. x > Tol /\ p.credit + x > CreditLimit /\ q.credit = p.credit /\ q.grown = p.grown
            BY <1>3, <1>4, <1>10, <2>2
        <3>2. i \notin p.grown
            BY <1>2
        <3>3. \A k \in s : Before(k, i, d.date) => Extra(d, k) <= Tol \/ k \in p.grown
            BY <1>1, <1>2, <2>2
        <3> QED
            BY <3>1, <3>2, <3>3 DEF Refused
    <2> QED
        BY <1>4, <2>1, <2>2
<1>11. ASSUME Refused(d, s, d.credit, {})
       PROVE  ~q.ok
    <2>1. PICK j \in s : /\ Extra(d, j) > Tol /\ d.credit + Extra(d, j) > CreditLimit
                         /\ \A k \in s : Before(k, j, d.date) => Extra(d, k) <= Tol
        BY <1>11 DEF Refused
    <2>2. CASE j # i
        <3>1. Refused(d, t, d.credit, {})
            BY <2>1, <2>2 DEF Refused
        <3> QED
            BY <1>2, <1>3, <3>1
    <2>3. CASE j = i
        <3>1. \A k \in t : Extra(d, k) <= Tol
            BY <1>1, <2>1, <2>3
        <3>2. p.ok
            BY <1>2, <3>1
        <3>3. p.grown = {}
            <4>1. \A k \in t : Extra(d, k) \in Int
                <5>1. \A k \in t : k \in OverpaidNow(d)
                    OBVIOUS
                <5> QED
                    BY <1>2, <5>1, CorrectOverpaymentFields
            <4> QED
                BY <1>2, <1>4, <3>1, <4>1
        <3> QED
            BY <1>2, <1>3, <2>1, <2>3, <3>2, <3>3
    <2> QED
        BY <2>2, <2>3
<1>12. CorrectedSoFar(d, q, s)
    BY <1>3, <1>5, <1>6, <1>7, <1>8, <1>10, <1>11 DEF CorrectedSoFar
<1> QED
    BY <1>12 DEF q

\* What the corrections come to.
LEMMA CorrectionsEnd ==
    ASSUME NEW d, Typed(d)
    PROVE  CorrectedSoFar(d, LivePlan(d), OverpaidNow(d))
<1> DEFINE S == OverpaidNow(d)
<1>0. PICK g \in [SUBSET S -> Corrections(S)] : CorrectionBy(d, g)
    BY CorrectionSteps
<1>1. /\ g[{}] = [ok |-> TRUE, credit |-> d.credit, capped |-> {}, grown |-> {}]
      /\ \A s \in SUBSET S : s # {} =>
           \E i \in s : i = Latest(s, d.date) /\ g[s] = CorrectOverpayment(d, i, g[s \ {i}])
      /\ LivePlan(d) = g[S]
    BY <1>0 DEF CorrectionBy
<1>2. IsFiniteSet(S)
    <2>1. S \subseteq Invoices
        BY DEF OverpaidNow, Overpaid, LiveInvoices, Typed, Ids
    <2> QED
        BY <2>1, FS_Subset, IdsAssumption
<1>3. g[{}] \in Corrections(S)
    BY <1>0
<1>4. CorrectedSoFar(d, g[{}], {})
    BY <1>1, <1>3 DEF CorrectedSoFar, Refused
<1>5. \A s \in SUBSET S : s \in SUBSET OverpaidNow(d)
    OBVIOUS
<1> HIDE DEF S
<1> DEFINE T == {s \in SUBSET S : CorrectedSoFar(d, g[s], s)}
<1>6. {} \in T
    BY <1>4
<1>7. ASSUME NEW s \in SUBSET S, s # {}, \A x \in s : s \ {x} \in T
      PROVE  s \in T
    <2>1. PICK i \in s : i = Latest(s, d.date) /\ g[s] = CorrectOverpayment(d, i, g[s \ {i}])
        BY <1>1, <1>7
    <2>2. CorrectedSoFar(d, g[s \ {i}], s \ {i})
        BY <1>7
    <2>3. CorrectedSoFar(d, CorrectOverpayment(d, i, g[s \ {i}]), s)
        BY <1>5, <1>7, <2>1, <2>2, CorrectOne
    <2> QED
        BY <2>1, <2>3
<1>8. T \subseteq SUBSET S
    OBVIOUS
<1> HIDE DEF T
<1>9. T = SUBSET S
    <2>1. \A s \in SUBSET S : s # {} /\ (\A x \in s : s \ {x} \in T) => s \in T
        BY <1>7
    <2> QED
        BY <1>2, <1>6, <1>8, <2>1, SubsetInduction
<1>10. CorrectedSoFar(d, g[S], S)
    BY <1>9 DEF T
<1> QED
    BY <1>1, <1>10 DEF S

\* d and e hold the same bills and rows: only caches, terms and the credit may differ.
SameLedger(d, e) ==
    /\ SameIds(d, e) /\ SameReceipts(d, e) /\ e.calloc = d.calloc
    /\ e.date = d.date /\ e.due = d.due /\ e.total = d.total

\* What is read off bills and rows is then the same.
LEMMA LedgerReads ==
    ASSUME NEW d, NEW e, SameLedger(d, e)
    PROVE  /\ LiveInvoices(e) = LiveInvoices(d) /\ LiveReceipts(e) = LiveReceipts(d)
           /\ \A i : TotalPaid(e, i) = TotalPaid(d, i) /\ Overpayment(e, i) = Overpayment(d, i)
           /\ OverpaidNow(e) = OverpaidNow(d)
           /\ Expected(e) = Expected(d) /\ \A x : Verified(e, x) = Verified(d, x)
<1>1. /\ e.invoices = d.invoices /\ e.voidedInvoices = d.voidedInvoices
      /\ e.receipts = d.receipts /\ e.voidedReceipts = d.voidedReceipts
      /\ e.alloc = d.alloc /\ e.rcred = d.rcred /\ e.calloc = d.calloc /\ e.total = d.total
    BY DEF SameLedger, SameIds, SameReceipts
<1>2. LiveInvoices(e) = LiveInvoices(d) /\ LiveReceipts(e) = LiveReceipts(d)
    BY <1>1 DEF LiveInvoices, LiveReceipts
<1>3. \A i : RowsOf(e, i) = RowsOf(d, i)
    BY <1>1 DEF RowsOf
<1>4. \A i : TotalPaid(e, i) = TotalPaid(d, i)
    BY <1>1, <1>3 DEF TotalPaid, ReceiptPaid, CreditPaid
<1>5. \A i : Overpayment(e, i) = Overpayment(d, i)
    BY <1>1, <1>4 DEF Overpayment
<1>6. OverpaidNow(e) = OverpaidNow(d)
    BY <1>2, <1>5 DEF OverpaidNow, Overpaid
<1>7. \A i : CountedPaid(e, i) = CountedPaid(d, i)
    BY <1>1, <1>3 DEF CountedPaid, ReceiptPaid
<1>8. \A i : OverpaidBy(e, i) = OverpaidBy(d, i)
    BY <1>1, <1>7 DEF OverpaidBy
<1>9. Expected(e) = Expected(d)
    BY <1>1, <1>2, <1>8 DEF Expected
<1>10. \A x : Verified(e, x) = Verified(d, x)
    BY <1>9 DEF Verified
<1> QED
    BY <1>2, <1>4, <1>5, <1>6, <1>9, <1>10

\* What is the same twice is the same.
LEMMA SameLedgerTransitive ==
    ASSUME NEW d, NEW e, NEW f, SameLedger(d, e), SameLedger(e, f)
    PROVE  SameLedger(d, f)
BY DEF SameLedger, SameIds, SameReceipts

\* Unlinking changes the terms of voided invoices only.
LEMMA UnlinkVoidedFields ==
    ASSUME NEW d, Typed(d)
    PROVE  LET e == UnlinkVoided(d)
           IN /\ Typed(e) /\ SameLedger(d, e) /\ SameCaches(d, e) /\ SameCredit(d, e)
              /\ e.term = [i \in Invoices |-> IF i \in d.voidedInvoices THEN NoTerm ELSE d.term[i]]
<1>1. DOMAIN d = Columns
    BY DEF Typed, Ids
<1>2. Typed(UnlinkVoided(d))
    BY UnlinkVoidedTyped
<1> QED
    BY <1>1, <1>2 DEF UnlinkVoided, SameLedger, SameIds, SameCaches, SameReceipts, SameCredit, Columns

\* The corrections change caches of overpaid invoices and the credit only.
LEMMA CorrectOverpaymentsFields ==
    ASSUME NEW d, Typed(d)
    PROVE  LET e == LiveCorrected(d).db
               p == LivePlan(d)
           IN /\ Typed(e) /\ SameLedger(d, e) /\ e.term = d.term
              /\ LiveCorrected(d).ok = p.ok
              /\ e.hasCredit = (d.hasCredit \/ p.grown # {}) /\ e.credit = p.credit
              /\ e.credited = [i \in Invoices |->
                                 IF i \in p.grown THEN Overpayment(d, i) ELSE d.credited[i]]
<1>1. DOMAIN d = Columns
    BY DEF Typed, Ids
<1>2. Typed(LiveCorrected(d).db)
    BY LiveCorrectedTyped
<1> QED
    BY <1>1, <1>2
       DEF LiveCorrected, LivePlan, CorrectOverpayments, Corrected, SameLedger, SameIds,
           SameReceipts, Columns

\* A reconciliation that the credit limit stops leaves a database it stops on again.
LEMMA ReconcileStuck ==
    ASSUME NEW d, Typed(d), ~Reconcile(d).ok
    PROVE  ~Reconcile(Reconcile(d).db).ok
<1> DEFINE b == UnlinkVoided(d)
           e == LiveCorrected(b).db
           f == UnlinkVoided(e)
           p == LivePlan(b)
<1>1. Typed(b) /\ SameLedger(d, b)
    BY UnlinkVoidedFields
<1>2. ~LiveCorrected(b).ok /\ Reconcile(d).db = e
    BY ReconcileIs DEF Settle
<1>3. /\ Typed(e) /\ SameLedger(b, e)
      /\ LiveCorrected(b).ok = p.ok /\ e.credit = p.credit
      /\ e.credited = [i \in Invoices |->
                         IF i \in p.grown THEN Overpayment(b, i) ELSE b.credited[i]]
    <2> HIDE DEF b
    <2> QED
        BY <1>1, CorrectOverpaymentsFields
<1>4. /\ Typed(f) /\ SameLedger(e, f) /\ SameCredit(e, f)
    <2> HIDE DEF e
    <2> QED
        BY <1>3, UnlinkVoidedFields
<1>5. CorrectedSoFar(b, p, OverpaidNow(b))
    <2> HIDE DEF b
    <2> QED
        BY <1>1, CorrectionsEnd
<1> HIDE DEF b, e, f, p
<1>6. Refused(b, OverpaidNow(b), p.credit, p.grown)
    BY <1>2, <1>3, <1>5 DEF CorrectedSoFar
<1>7. /\ \A i : Overpayment(f, i) = Overpayment(b, i)
      /\ OverpaidNow(f) = OverpaidNow(b)
    <2>1. SameLedger(b, f)
        BY <1>3, <1>4, SameLedgerTransitive
    <2> QED
        BY <2>1, LedgerReads
<1>8. f.credit = p.credit /\ f.date = b.date
    BY <1>3, <1>4 DEF SameCredit, SameLedger
<1>9. ASSUME NEW i \in OverpaidNow(b)
      PROVE  Extra(f, i) = IF i \in p.grown THEN 0 ELSE Extra(b, i)
    <2>1. i \in Invoices
        BY <1>1 DEF OverpaidNow, Overpaid, LiveInvoices, Typed, Ids
    <2>2. Overpayment(b, i) \in Int
        BY <1>1, <2>1, PaidIsNat DEF Overpayment, Typed, TypedBills
    <2>3. f.credited[i] = IF i \in p.grown THEN Overpayment(b, i) ELSE b.credited[i]
        BY <1>3, <1>4, <2>1 DEF SameCredit
    <2> QED
        BY <1>7, <2>2, <2>3 DEF Extra
<1>10. Refused(f, OverpaidNow(f), f.credit, {})
    <2>1. PICK j \in OverpaidNow(b) :
            /\ Extra(b, j) > Tol /\ j \notin p.grown /\ p.credit + Extra(b, j) > CreditLimit
            /\ \A k \in OverpaidNow(b) : Before(k, j, b.date) => Extra(b, k) <= Tol \/ k \in p.grown
        BY <1>6 DEF Refused
    <2>2. Extra(f, j) > Tol /\ f.credit + Extra(f, j) > CreditLimit
        BY <1>8, <1>9, <2>1
    <2>3. \A k \in OverpaidNow(b) : Before(k, j, f.date) => Extra(f, k) <= Tol
        BY <1>8, <1>9, <2>1, AmountsAssumption
    <2> QED
        BY <1>7, <2>2, <2>3 DEF Refused
<1>11. ~LivePlan(f).ok
    <2>1. CorrectedSoFar(f, LivePlan(f), OverpaidNow(f))
        BY <1>4, CorrectionsEnd
    <2> QED
        BY <1>10, <2>1 DEF CorrectedSoFar
<1>12. ~LiveCorrected(f).ok
    BY <1>4, <1>11, CorrectOverpaymentsFields
<1>13. ~Reconcile(e).ok
    BY <1>3, <1>12, ReconcileIs DEF Settle, f
<1> QED
    BY <1>2, <1>13

-----------------------------------------------------------------------------
(* What a reconciliation leaves for the next one                           *)

\* Nothing to unlink, nothing to correct, nothing to recalculate.
Quiet(d) ==
    /\ d = [x \in Columns |-> d[x]]
    /\ \A i \in d.voidedInvoices : d.term[i] = NoTerm
    /\ \A i \in OverpaidNow(d) : Extra(d, i) <= Tol
    /\ \A i \in LiveInvoices(d) : CachedIsLedger(d, i)

\* Where the first reconciliation stands when it comes to the credit.
Started(d) == Recalculate(LiveCorrected(UnlinkVoided(d)).db, LiveInvoices(d))

\* The columns it has then.
LEMMA StartedFields ==
    ASSUME NEW d, Typed(d)
    PROVE  LET c == Started(d)
               p == LivePlan(UnlinkVoided(d))
           IN /\ Typed(c) /\ SameLedger(d, c) /\ c = [x \in Columns |-> c[x]]
              /\ c.term = [i \in Invoices |-> IF i \in d.voidedInvoices THEN NoTerm ELSE d.term[i]]
              /\ c.hasCredit = (d.hasCredit \/ p.grown # {}) /\ c.credit = p.credit
              /\ c.credited = [i \in Invoices |->
                                 IF i \in p.grown THEN Overpayment(d, i) ELSE d.credited[i]]
              /\ c.paid = [i \in Invoices |-> IF i \in LiveInvoices(d)
                             THEN Least(TotalPaid(d, i), d.total[i]) ELSE c.paid[i]]
              /\ \A i \in LiveInvoices(d) : CachedIsLedger(c, i)
              /\ LiveCorrected(UnlinkVoided(d)).ok = p.ok
              /\ \A i \in Invoices \ LiveInvoices(d) : c.status[i] = d.status[i]
<1> DEFINE L == LiveInvoices(d)
           b == UnlinkVoided(d)
           p == LivePlan(b)
           e == LiveCorrected(b).db
           c == Recalculate(e, L)
<1>1. /\ Typed(b) /\ SameLedger(d, b) /\ SameCredit(d, b) /\ SameCaches(d, b)
      /\ b.term = [i \in Invoices |-> IF i \in d.voidedInvoices THEN NoTerm ELSE d.term[i]]
    BY UnlinkVoidedFields
<1>2. /\ Typed(e) /\ SameLedger(b, e) /\ e.term = b.term
      /\ LiveCorrected(b).ok = p.ok
      /\ e.hasCredit = (b.hasCredit \/ p.grown # {}) /\ e.credit = p.credit
      /\ e.credited = [i \in Invoices |->
                         IF i \in p.grown THEN Overpayment(b, i) ELSE b.credited[i]]
    <2> HIDE DEF b
    <2> QED
        BY <1>1, CorrectOverpaymentsFields
<1>2a. e.status = b.status
    <2>1. DOMAIN b = Columns
        BY <1>1 DEF Typed, Ids
    <2> QED
        BY <2>1 DEF LiveCorrected, LivePlan, CorrectOverpayments, Corrected, Columns
<1> HIDE DEF b, p, e
<1>3. SameLedger(d, e) /\ DOMAIN e = Columns
    BY <1>1, <1>2, SameLedgerTransitive DEF Typed, Ids
<1>4. /\ SameIds(e, c) /\ SameBills(e, c) /\ SameReceipts(e, c)
      /\ c.calloc = e.calloc /\ SameCredit(e, c)
      /\ c.paid = [i \in Invoices |->
           IF i \in L THEN Least(TotalPaid(e, i), e.total[i]) ELSE e.paid[i]]
      /\ c.balance = [i \in Invoices |->
           IF i \in L THEN Monus(e.total[i], TotalPaid(e, i)) ELSE e.balance[i]]
      /\ c.status = [i \in Invoices |->
           IF i \in L
           THEN StatusOf(i \in e.voidedInvoices, Monus(e.total[i], TotalPaid(e, i)))
           ELSE e.status[i]]
    BY <1>3, RecalculateFrame
<1>5. Typed(c) /\ c = [x \in Columns |-> c[x]]
    BY <1>2, <1>3, RecalculateTyped, RecalculateIsRecord
<1>6. L = LiveInvoices(e) /\ L \subseteq Invoices
    BY <1>3, LedgerReads, LiveInvoicesFinite DEF Typed
<1>7. \A i \in L : CachedIsLedger(c, i)
    <2>1. c = Recalculate(e, LiveInvoices(e))
        BY <1>6
    <2>2. \A i \in L : i \in Invoices \cap LiveInvoices(e)
        BY <1>6
    <2> HIDE DEF c, L
    <2> QED
        BY <1>3, <2>1, <2>2, RecalculateCoherent
<1>8. c.paid = [i \in Invoices |->
           IF i \in L THEN Least(TotalPaid(d, i), d.total[i]) ELSE c.paid[i]]
    <2>1. \A i : TotalPaid(e, i) = TotalPaid(d, i)
        BY <1>3, LedgerReads
    <2>2. e.total = d.total
        BY <1>3 DEF SameLedger
    <2>3. c.paid = [i \in Invoices |->
           IF i \in L THEN Least(TotalPaid(d, i), d.total[i]) ELSE e.paid[i]]
        BY <1>4, <2>1, <2>2
    <2> QED
        BY <2>3
<1>9. \A i \in Invoices \ L : c.status[i] = d.status[i]
    BY <1>1, <1>2a, <1>4 DEF SameCaches
<1> HIDE DEF c, L
<1>10. SameLedger(d, c)
    <2>1. SameLedger(e, c)
        BY <1>4 DEF SameLedger, SameBills
    <2> QED
        BY <1>3, <2>1, SameLedgerTransitive
<1>11. c.credited = [i \in Invoices |->
                       IF i \in p.grown THEN Overpayment(d, i) ELSE d.credited[i]]
    <2>1. \A i : Overpayment(b, i) = Overpayment(d, i)
        BY <1>1, LedgerReads
    <2>2. c.credited = e.credited /\ b.credited = d.credited
        BY <1>1, <1>4 DEF SameCredit
    <2> QED
        BY <1>2, <2>1, <2>2
<1>12. c.term = e.term /\ c.hasCredit = e.hasCredit /\ c.credit = e.credit /\ b.hasCredit = d.hasCredit
    BY <1>1, <1>4 DEF SameBills, SameCredit
<1>13. c = Started(d)
    BY DEF c, e, b, L, Started
<1> QED
    BY <1>1, <1>2, <1>5, <1>7, <1>8, <1>9, <1>10, <1>11, <1>12, <1>13 DEF L, p, b

\* A reconciliation that is not stopped leaves nothing to correct.
LEMMA StartedQuiet ==
    ASSUME NEW d, Typed(d), Reconcile(d).ok
    PROVE  /\ Quiet(Started(d))
           /\ Reconcile(d).db =
                Recalculate(SpendCredit(VerifyCredit(Started(d))), LiveInvoices(d))
<1> DEFINE L == LiveInvoices(d)
           b == UnlinkVoided(d)
           p == LivePlan(b)
           c == Started(d)
<1>1. /\ Typed(c) /\ SameLedger(d, c) /\ c = [x \in Columns |-> c[x]]
      /\ c.term = [i \in Invoices |-> IF i \in d.voidedInvoices THEN NoTerm ELSE d.term[i]]
      /\ c.credited = [i \in Invoices |->
                         IF i \in p.grown THEN Overpayment(d, i) ELSE d.credited[i]]
      /\ \A i \in L : CachedIsLedger(c, i)
      /\ LiveCorrected(b).ok = p.ok
    BY StartedFields
<1>2. /\ LiveCorrected(b).ok
      /\ Reconcile(d).db = Recalculate(SpendCredit(VerifyCredit(c)), L)
    BY ReconcileIs DEF Settle, Started
<1>3. Typed(b) /\ SameLedger(d, b) /\ SameCredit(d, b)
    BY UnlinkVoidedFields
<1>4. CorrectedSoFar(b, p, OverpaidNow(b))
    <2> HIDE DEF b
    <2> QED
        BY <1>3, CorrectionsEnd
<1> HIDE DEF b, p, c, L
<1>5. /\ OverpaidNow(c) = OverpaidNow(d) /\ LiveInvoices(c) = LiveInvoices(d)
      /\ \A i : Overpayment(c, i) = Overpayment(d, i)
    BY <1>1, LedgerReads
<1>6. /\ OverpaidNow(b) = OverpaidNow(d) /\ \A i : Overpayment(b, i) = Overpayment(d, i)
    BY <1>3, LedgerReads
<1>7. b.credited = d.credited
    BY <1>3 DEF SameCredit
<1>8. ASSUME NEW i \in OverpaidNow(c)
      PROVE  Extra(c, i) <= Tol
    <2>1. i \in Invoices /\ i \in OverpaidNow(b)
        BY <1>5, <1>6, <1>8 DEF OverpaidNow, Overpaid, LiveInvoices, Typed, Ids
    <2>2. Overpayment(d, i) \in Int
        BY <2>1, PaidIsNat DEF Overpayment, Typed, TypedBills
    <2>3. Extra(b, i) <= Tol \/ i \in p.grown
        BY <1>1, <1>2, <1>4, <2>1 DEF CorrectedSoFar
    <2>4. CASE i \in p.grown
        BY <1>1, <1>5, <2>1, <2>2, <2>4, AmountsAssumption DEF Extra
    <2>5. CASE i \notin p.grown
        BY <1>1, <1>5, <1>6, <1>7, <2>1, <2>3, <2>5 DEF Extra
    <2> QED
        BY <2>4, <2>5
<1>9. c.voidedInvoices = d.voidedInvoices /\ d.voidedInvoices \subseteq Invoices
    BY <1>1 DEF SameLedger, SameIds, Typed, Ids
<1>10. Quiet(c)
    BY <1>1, <1>5, <1>8, <1>9 DEF Quiet, L
<1> QED
    BY <1>2, <1>10 DEF c, L

\* On a quiet database a reconciliation verifies the credit and gives some of it away.
LEMMA QuietReconciles ==
    ASSUME NEW d, Typed(d), Quiet(d)
    PROVE  /\ Reconcile(d).ok /\ Started(d) = d
           /\ Reconcile(d).db = Recalculate(SpendCredit(VerifyCredit(d)), LiveInvoices(d))
<1> DEFINE L == LiveInvoices(d)
           b == UnlinkVoided(d)
           p == LivePlan(b)
           c == Started(d)
<1>1. /\ Typed(c) /\ SameLedger(d, c) /\ c = [x \in Columns |-> c[x]]
      /\ c.term = [i \in Invoices |-> IF i \in d.voidedInvoices THEN NoTerm ELSE d.term[i]]
      /\ c.hasCredit = (d.hasCredit \/ p.grown # {}) /\ c.credit = p.credit
      /\ c.credited = [i \in Invoices |->
                         IF i \in p.grown THEN Overpayment(d, i) ELSE d.credited[i]]
      /\ \A i \in L : CachedIsLedger(c, i)
      /\ LiveCorrected(b).ok = p.ok
      /\ \A i \in Invoices \ L : c.status[i] = d.status[i]
    BY StartedFields
<1>3. Typed(b) /\ SameLedger(d, b) /\ SameCredit(d, b)
    BY UnlinkVoidedFields
<1>4. CorrectedSoFar(b, p, OverpaidNow(b))
    <2> HIDE DEF b
    <2> QED
        BY <1>3, CorrectionsEnd
<1>4a. \A i \in Invoices \ L : c.paid[i] = d.paid[i] /\ c.balance[i] = d.balance[i]
    <2> DEFINE e == LiveCorrected(b).db
    <2>1. Typed(e) /\ OverpaidNow(b) \subseteq L
        BY <1>3, CorrectOverpaymentsFields, LedgerReads DEF OverpaidNow, Overpaid
    <2>2. p.capped \subseteq L
        BY <1>4, <2>1 DEF CorrectedSoFar, Corrections
    <2>3. DOMAIN b = Columns /\ DOMAIN e = Columns
        BY <1>3, <2>1 DEF Typed, Ids
    <2>4. \A i \in Invoices \ L : e.paid[i] = b.paid[i] /\ e.balance[i] = b.balance[i]
        <3>1. /\ e.paid = [i \in Invoices |-> IF i \in p.capped THEN b.total[i] ELSE b.paid[i]]
              /\ e.balance = [i \in Invoices |-> IF i \in p.capped THEN 0 ELSE b.balance[i]]
            BY <2>3 DEF LiveCorrected, LivePlan, CorrectOverpayments, Corrected, Columns
        <3> QED
            BY <2>2, <3>1
    <2>5. b.paid = d.paid /\ b.balance = d.balance
        BY UnlinkVoidedFields DEF SameCaches
    <2>6. c = Recalculate(e, L)
        BY DEF Started
    <2> HIDE DEF e, c, L, b, p
    <2>7. \A i \in Invoices \ L : c.paid[i] = e.paid[i] /\ c.balance[i] = e.balance[i]
        BY <2>3, <2>6 DEF Recalculate, Columns
    <2> QED
        BY <2>4, <2>5, <2>7
<1>5. LiveCorrected(b).ok => /\ Reconcile(d).ok
         /\ Reconcile(d).db = Recalculate(SpendCredit(VerifyCredit(c)), L)
    BY ReconcileIs DEF Settle, Started
<1> HIDE DEF b, p, c, L
<1>6. /\ d = [x \in Columns |-> d[x]]
      /\ \A i \in d.voidedInvoices : d.term[i] = NoTerm
      /\ \A i \in OverpaidNow(d) : Extra(d, i) <= Tol
      /\ \A i \in L : CachedIsLedger(d, i)
    BY DEF Quiet, L
<1>7. /\ OverpaidNow(b) = OverpaidNow(d) /\ \A i : Overpayment(b, i) = Overpayment(d, i)
    BY <1>3, LedgerReads
<1>8. \A i \in OverpaidNow(b) : Extra(b, i) <= Tol /\ Extra(b, i) \in Int
    <2>1. b.credited = d.credited
        BY <1>3 DEF SameCredit
    <2>2. \A i \in OverpaidNow(b) : Extra(b, i) \in Int
        <3>1. \A i \in OverpaidNow(b) : i \in Invoices
            BY <1>3 DEF OverpaidNow, Overpaid, LiveInvoices, Typed, Ids
        <3> QED
            BY <1>3, <3>1, PaidIsNat DEF Extra, Overpayment, Typed, TypedBills, TypedCredit
    <2> QED
        BY <1>6, <1>7, <2>1, <2>2 DEF Extra
<1>9. p.ok /\ p.grown = {} /\ p.credit = b.credit
    <2>1. p.grown = {}
        <3>1. p.grown \subseteq {i \in OverpaidNow(b) : Extra(b, i) > Tol}
            BY <1>4 DEF CorrectedSoFar
        <3> QED
            BY <1>8, <3>1, AmountsAssumption
    <2> QED
        BY <1>4, <1>8, <2>1 DEF CorrectedSoFar
<1>10. c.term = d.term
    <2>1. d.term \in [Invoices -> Terms \union {NoTerm}]
        BY DEF Typed, TypedBills
    <2> QED
        BY <1>1, <1>6, <2>1
<1>11. SameCredit(d, c)
    <2>1. d.credited \in [Invoices -> Nat] /\ d.hasCredit \in BOOLEAN
        BY DEF Typed, TypedCredit
    <2>2. c.credited = d.credited
        BY <1>1, <1>9, <2>1
    <2> QED
        BY <1>1, <1>3, <1>9, <2>1, <2>2 DEF SameCredit
<1>12. SameCaches(d, c)
    <2>1. /\ d.paid \in [Invoices -> Nat] /\ d.balance \in [Invoices -> Nat]
          /\ d.status \in [Invoices -> Statuses]
          /\ c.paid \in [Invoices -> Nat] /\ c.balance \in [Invoices -> Nat]
          /\ c.status \in [Invoices -> Statuses]
        BY <1>1 DEF Typed, TypedCaches
    <2>2. \A i : TotalPaid(c, i) = TotalPaid(d, i)
        BY <1>1, LedgerReads
    <2>3. c.total = d.total
        BY <1>1 DEF SameLedger
    <2>4. ASSUME NEW i \in L
          PROVE  c.paid[i] = d.paid[i] /\ c.balance[i] = d.balance[i] /\ c.status[i] = d.status[i]
        <3>1. CachedIsLedger(c, i) /\ CachedIsLedger(d, i) /\ TotalPaid(c, i) = TotalPaid(d, i)
            BY <1>1, <1>6, <2>2
        <3> QED
            BY <2>3, <3>1 DEF CachedIsLedger
    <2>5. \A i \in Invoices : c.paid[i] = d.paid[i] /\ c.balance[i] = d.balance[i] /\ c.status[i] = d.status[i]
        BY <1>1, <1>4a, <2>4
    <2>6. c.paid = d.paid
        BY <2>1, <2>5
    <2>7. c.balance = d.balance
        BY <2>1, <2>5
    <2>8. c.status = d.status
        BY <2>1, <2>5
    <2> QED
        BY <2>6, <2>7, <2>8 DEF SameCaches
<1>13. c = d
    <2>1. SameIds(d, c) /\ SameBills(d, c) /\ SameReceipts(d, c) /\ c.calloc = d.calloc
        BY <1>1, <1>10 DEF SameLedger, SameBills
    <2> QED
        BY <1>1, <1>6, <1>11, <1>12, <2>1, SameColumns
<1> QED
    BY <1>1, <1>5, <1>9, <1>13 DEF c, L

-----------------------------------------------------------------------------
(* A credit row more                                                       *)

\* Amounts of rows, as a sum over any set that holds them.
LEMMA AmountOfWithin ==
    ASSUME NEW rows, IsFiniteSet(rows), \A c \in rows : c.amt \in Nat, NEW T \in SUBSET rows
    PROVE  AmountOf(T) = SumFunctionOnSet([c \in rows |-> c.amt], T) /\ IsFiniteSet(T)
<1> DEFINE f == [c \in T |-> c.amt]
           g == [c \in rows |-> c.amt]
<1>1. AmountOf(T) = SumFunctionOnSet(f, T)
    BY DEF AmountOf, SumFunction
<1>2. \A c \in T : g[c] \in Int /\ f[c] = g[c]
    OBVIOUS
<1>3. IsFiniteSet(T)
    BY FS_Subset
<1> HIDE DEF f, g
<1>4. SumFunctionOnSet(f, T) = SumFunctionOnSet(g, T)
    BY <1>2, <1>3, SumCongruent
<1> QED
    BY <1>1, <1>3, <1>4 DEF g

\* Fewer rows come to no more.
LEMMA AmountOfFewer ==
    ASSUME NEW rows, IsFiniteSet(rows), \A c \in rows : c.amt \in Nat, NEW T \in SUBSET rows
    PROVE  AmountOf(T) <= AmountOf(rows)
<1> DEFINE g == [c \in rows |-> c.amt]
<1>1. AmountOf(T) = SumFunctionOnSet(g, T) /\ AmountOf(rows) = SumFunctionOnSet(g, rows)
    BY AmountOfWithin
<1>2. \A c \in rows : g[c] \in Nat
    OBVIOUS
<1> HIDE DEF g
<1>3. SumFunctionOnSet(g, T) <= SumFunctionOnSet(g, rows)
    BY <1>2, SumSubset
<1> QED
    BY <1>1, <1>3

\* One row more comes to its amount more.
LEMMA AmountOfOneMore ==
    ASSUME NEW rows, IsFiniteSet(rows), \A c \in rows : c.amt \in Nat, NEW row, row \notin rows,
           row.amt \in Nat
    PROVE  AmountOf(rows \union {row}) = AmountOf(rows) + row.amt
<1> DEFINE all == rows \union {row}
           g   == [c \in all |-> c.amt]
<1>1. IsFiniteSet(all) /\ \A c \in all : c.amt \in Nat
    BY FS_AddElement
<1>2. rows \in SUBSET all /\ all \in SUBSET all /\ row \in all /\ all \ {row} = rows
    OBVIOUS
<1>3. \A c \in all : g[c] \in Int /\ g[c] = c.amt
    BY <1>1
<1> HIDE DEF all
<1>4. AmountOf(rows) = SumFunctionOnSet(g, rows) /\ AmountOf(all) = SumFunctionOnSet(g, all)
    BY <1>1, <1>2, AmountOfWithin
<1> HIDE DEF g
<1>5. SumFunctionOnSet(g, all) = g[row] + SumFunctionOnSet(g, all \ {row})
    BY <1>1, <1>2, <1>3, SumStep
<1>6. g[row] = row.amt /\ SumFunctionOnSet(g, rows) \in Int
    <2>1. \A c \in rows : g[c] \in Int
        BY <1>2, <1>3
    <2> QED
        BY <1>2, <1>3, <2>1, SumInt
<1>6a. SumFunctionOnSet(g, all) = g[row] + SumFunctionOnSet(g, rows)
    <2>1. all \ {row} = rows
        BY <1>2
    <2> QED
        BY <1>5, <2>1
<1>7. AmountOf(all) = AmountOf(rows) + row.amt
    <2> DEFINE x == SumFunctionOnSet(g, rows)  y == row.amt
    <2>1. AmountOf(all) = y + x /\ AmountOf(rows) = x
        BY <1>4, <1>6, <1>6a
    <2>2. x \in Int /\ y \in Nat
        BY <1>6
    <2> HIDE DEF x, y
    <2>3. y + x = x + y
        BY <2>2
    <2> QED
        BY <2>1, <2>3 DEF x, y
<1> QED
    BY <1>7 DEF all

\* e is d with one row more.
RowAdded(d, e, row) ==
    /\ SameIds(d, e) /\ SameReceipts(d, e)
    /\ e.date = d.date /\ e.due = d.due /\ e.total = d.total
    /\ row \notin d.calloc /\ row \in CreditRows /\ e.calloc = d.calloc \union {row}

\* What invoices were paid then.
LEMMA RowAddedPaid ==
    ASSUME NEW d, Typed(d), NEW e, Typed(e), NEW row, RowAdded(d, e, row)
    PROVE  /\ LiveInvoices(e) = LiveInvoices(d) /\ row.amt \in Nat
           /\ \A j \in Invoices \ {row.inv} :
                RowsOf(e, j) = RowsOf(d, j) /\ TotalPaid(e, j) = TotalPaid(d, j)
           /\ TotalPaid(e, row.inv) = TotalPaid(d, row.inv) + row.amt
           /\ AmountOf(e.calloc) = AmountOf(d.calloc) + row.amt
<1>1. LiveInvoices(e) = LiveInvoices(d) /\ row.amt \in Nat /\ row.inv \in Invoices
    BY DEF RowAdded, SameIds, LiveInvoices, CreditRows
<1>2. e.alloc = d.alloc /\ e.calloc = d.calloc \union {row} /\ row \notin d.calloc
    BY DEF RowAdded, SameReceipts
<1>3. \A c \in d.calloc : c.amt \in Nat /\ c.seq \in Nat /\ c.inv \in Invoices
    BY RowAmounts DEF Typed
<1>4. IsFiniteSet(d.calloc)
    BY RowAmounts DEF Typed
<1>5. \A j \in Invoices \ {row.inv} : RowsOf(e, j) = RowsOf(d, j)
    BY <1>2 DEF RowsOf
<1>6. \A j \in Invoices : ReceiptPaid(e, j) = ReceiptPaid(d, j) /\ ReceiptPaid(d, j) \in Nat
    BY <1>2, PaidIsNat DEF ReceiptPaid, Typed
<1>7. \A j \in Invoices \ {row.inv} : TotalPaid(e, j) = TotalPaid(d, j)
    BY <1>5, <1>6 DEF TotalPaid, CreditPaid
<1>8. AmountOf(e.calloc) = AmountOf(d.calloc) + row.amt
    BY <1>1, <1>2, <1>3, <1>4, AmountOfOneMore
<1>9. CreditPaid(e, row.inv) = CreditPaid(d, row.inv) + row.amt
    <2> DEFINE mine == RowsOf(d, row.inv)
    <2>1. RowsOf(e, row.inv) = mine \union {row} /\ row \notin mine
        BY <1>2 DEF RowsOf
    <2>2. IsFiniteSet(mine) /\ \A c \in mine : c.amt \in Nat
        BY <1>3, <1>4, FS_Subset DEF RowsOf
    <2> HIDE DEF mine
    <2>3. AmountOf(mine \union {row}) = AmountOf(mine) + row.amt
        BY <1>1, <2>1, <2>2, AmountOfOneMore
    <2> QED
        BY <2>1, <2>3 DEF CreditPaid, mine
<1>10. CreditPaid(d, row.inv) \in Nat
    BY <1>1, PaidIsNat DEF Typed
<1>11. TotalPaid(e, row.inv) = TotalPaid(d, row.inv) + row.amt
    BY <1>1, <1>6, <1>9, <1>10 DEF TotalPaid
<1> QED
    BY <1>1, <1>5, <1>7, <1>8, <1>11

\* No more is counted as paid than was paid.
LEMMA CountedWithin ==
    ASSUME NEW d, Typed(d), NEW i \in Invoices
    PROVE  CountedPaid(d, i) \in Nat /\ CountedPaid(d, i) <= TotalPaid(d, i)
<1> DEFINE counted == {c \in RowsOf(d, i) : c.src = NoReceipt \/ d.alloc[c.src][i] = 0}
           mine    == RowsOf(d, i)
<1>1. \A c \in d.calloc : c.amt \in Nat /\ c.seq \in Nat /\ c.inv \in Invoices
    BY RowAmounts DEF Typed
<1>2. IsFiniteSet(d.calloc)
    BY RowAmounts DEF Typed
<1>3. IsFiniteSet(mine) /\ (\A c \in mine : c.amt \in Nat) /\ counted \in SUBSET mine
    BY <1>1, <1>2, FS_Subset DEF RowsOf
<1>4. CountedPaid(d, i) = ReceiptPaid(d, i) + AmountOf(counted)
    BY DEF CountedPaid
<1>5. TotalPaid(d, i) = ReceiptPaid(d, i) + AmountOf(mine) /\ ReceiptPaid(d, i) \in Nat
    BY PaidIsNat DEF TotalPaid, CreditPaid, Typed
<1> HIDE DEF counted, mine
<1>6. IsFiniteSet(counted) /\ \A c \in counted : c.amt \in Nat
    BY <1>3, FS_Subset
<1>7. AmountOf(counted) \in Nat /\ AmountOf(mine) \in Nat
    BY <1>3, <1>6, AmountOfIsNat
<1>8. AmountOf(counted) <= AmountOf(mine)
    BY <1>3, AmountOfFewer
<1> QED
    BY <1>4, <1>5, <1>7, <1>8

\* Credit a row spends on an open invoice is expected no longer.
LEMMA RowAddedExpected ==
    ASSUME NEW d, Typed(d), NEW e, Typed(e), NEW row, RowAdded(d, e, row),
           row.inv \in LiveInvoices(d), TotalPaid(e, row.inv) <= d.total[row.inv]
    PROVE  Expected(e) = Monus(Expected(d), row.amt)
<1> DEFINE L == LiveInvoices(d)
           f == [j \in L |-> OverpaidBy(d, j)]
           C == SumFunctionOnSet(d.rcred, Receipts)
           S == SumFunctionOnSet(f, L)
           A == AmountOf(d.calloc)
<1>1. /\ LiveInvoices(e) = L /\ row.amt \in Nat
      /\ \A j \in Invoices \ {row.inv} :
           RowsOf(e, j) = RowsOf(d, j) /\ TotalPaid(e, j) = TotalPaid(d, j)
      /\ TotalPaid(e, row.inv) = TotalPaid(d, row.inv) + row.amt
      /\ AmountOf(e.calloc) = A + row.amt
    BY RowAddedPaid
<1>2. /\ e.alloc = d.alloc /\ e.rcred = d.rcred /\ e.total = d.total
      /\ e.calloc = d.calloc \union {row}
    BY DEF RowAdded, SameReceipts
<1>3. L \subseteq Invoices /\ IsFiniteSet(L)
    BY LiveInvoicesFinite DEF Typed
<1>4. ASSUME NEW j \in L
      PROVE  OverpaidBy(e, j) = OverpaidBy(d, j) /\ OverpaidBy(d, j) \in Nat
    <2>0. /\ CountedPaid(d, j) \in Nat /\ CountedPaid(d, j) <= TotalPaid(d, j)
          /\ CountedPaid(e, j) \in Nat /\ CountedPaid(e, j) <= TotalPaid(e, j)
          /\ TotalPaid(d, j) \in Nat /\ TotalPaid(e, j) \in Nat /\ d.total[j] \in Nat /\ Tol \in Nat
        BY <1>3, CountedWithin, PaidIsNat, AmountsAssumption DEF Typed, TypedBills
    <2>1. CASE j = row.inv
        <3>1. TotalPaid(d, j) <= d.total[j] /\ TotalPaid(e, j) <= d.total[j]
            BY <1>1, <2>0, <2>1
        <3>2. OverpaidBy(d, j) = 0 /\ OverpaidBy(e, j) = 0
            BY <1>2, <2>0, <3>1 DEF OverpaidBy
        <3> QED
            BY <3>2
    <2>2. CASE j # row.inv
        <3>1. RowsOf(e, j) = RowsOf(d, j)
            BY <1>1, <1>3, <2>2
        <3>2. CountedPaid(e, j) = CountedPaid(d, j)
            BY <1>2, <3>1 DEF CountedPaid, ReceiptPaid
        <3> QED
            BY <1>2, <2>0, <3>2 DEF OverpaidBy
    <2> QED
        BY <2>1, <2>2
<1>5. Expected(d) = Monus(C + S, A)
    BY DEF Expected, SumFunction
<1>6. Expected(e) = Monus(C + S, A + row.amt)
    <2> DEFINE g == [j \in L |-> OverpaidBy(e, j)]
    <2>1. g = f
        BY <1>4
    <2>2. Expected(e) = Monus(SumFunctionOnSet(e.rcred, Receipts)
                                + SumFunctionOnSet(g, L), AmountOf(e.calloc))
        BY <1>1 DEF Expected, SumFunction
    <2> HIDE DEF f, g, L
    <2> QED
        BY <1>1, <1>2, <2>1, <2>2
<1>7. S \in Nat
    <2>1. \A j \in L : f[j] \in Nat
        BY <1>4
    <2> HIDE DEF f, L
    <2> QED
        BY <1>3, <2>1, SumNat
<1>8. C \in Nat
    BY SumNat, IdsAssumption DEF Typed, TypedRows
<1>9. A \in Nat
    BY RowAmounts, AmountOfIsNat DEF Typed
<1> HIDE DEF S, C, A
<1> QED
    BY <1>1, <1>5, <1>6, <1>7, <1>8, <1>9 DEF Monus

\* The number of a new row is new.
LEMMA CreditRowIsNew ==
    ASSUME NEW d, TypedRows(d), NEW i, NEW x, NEW src
    PROVE  CreditRow(d, i, x, src) \notin d.calloc
<1> DEFINE seqs == {0} \union {c.seq : c \in d.calloc}
           f    == [c \in d.calloc |-> c.seq]
<1>1. IsFiniteSet({f[c] : c \in d.calloc})
    BY RowAmounts, ImageIsFinite
<1>2. {f[c] : c \in d.calloc} = {c.seq : c \in d.calloc}
    OBVIOUS
<1>3. IsFiniteSet({c.seq : c \in d.calloc} \union {0})
    BY <1>1, <1>2, FS_AddElement
<1>4. {c.seq : c \in d.calloc} \union {0} = seqs
    OBVIOUS
<1>5. IsFiniteSet(seqs) /\ seqs # {} /\ seqs \subseteq Nat
    <2>1. \A c \in d.calloc : c.seq \in Nat
        BY RowAmounts
    <2>2. seqs # {} /\ seqs \subseteq Nat
        BY <2>1
    <2>3. IsFiniteSet(seqs)
        BY <1>3, <1>4
    <2> QED
        BY <2>2, <2>3
<1>6. \A c \in d.calloc : c.seq \in seqs
    OBVIOUS
<1>7. CreditRow(d, i, x, src).seq = 1 + Max(seqs)
    BY DEF CreditRow
<1> HIDE DEF seqs
<1>8. Max(seqs) \in Nat /\ \A y \in seqs : y <= Max(seqs)
    BY <1>5, MaxIsNat
<1>9. \A c \in d.calloc : c.seq # CreditRow(d, i, x, src).seq
    BY <1>5, <1>6, <1>7, <1>8
<1> QED
    BY <1>9

-----------------------------------------------------------------------------
(* A reconciliation of a quiet database                                    *)

\* The live invoices that owe something.
Owes(d) == {i \in LiveInvoices(d) : d.balance[i] > Tol}

\* There is no credit, or nothing to give it to.
Idle(d) == Owes(d) = {} \/ ~d.hasCredit \/ VerifyCredit(d).credit <= Tol

\* Some invoice comes first.
LEMMA FirstExists ==
    ASSUME NEW S, IsFiniteSet(S), S # {}, S \subseteq Nat, NEW key, \A i \in S : key[i] \in Nat
    PROVE  First(S, key) # {}
<1> DEFINE W == {p \in S \X S : Before(p[2], p[1], key)}
<1>1. \A x, y \in S : <<x, y>> \in W <=> Before(y, x, key)
    OBVIOUS
<1>2. \A x, y \in S : x # y => <<x, y>> \in W \/ <<y, x>> \in W
    BY <1>1 DEF Before
<1>3. \A x, y, z \in S : <<x, y>> \in W /\ <<y, z>> \in W => <<x, z>> \in W
    BY <1>1 DEF Before
<1> HIDE DEF W
<1>4. PICK x \in S : \A y \in S \ {x} : <<y, x>> \in W
    BY <1>2, <1>3, LastExists
<1>5. \A y \in S \ {x} : Before(x, y, key)
    BY <1>1, <1>4
<1> QED
    BY <1>5 DEF First

\* Verified credit is what the rows imply, up to the tolerance, and stays as it is.
LEMMA VerifiedWithin ==
    ASSUME NEW d, Typed(d), NEW x \in Nat
    PROVE  LET y == Verified(d, x)
           IN /\ y \in Nat /\ Expected(d) \in Nat
              /\ y - Expected(d) <= Tol /\ Expected(d) - y <= Tol
              /\ Verified(d, y) = y
<1>1. Expected(d) \in Nat
    BY ExpectedIsNat DEF Typed, Ids
<1> QED
    BY <1>1, AmountsAssumption DEF Verified

\* On a quiet database recalculating changes nothing.
LEMMA QuietRecalculated ==
    ASSUME NEW d, Typed(d), Quiet(d)
    PROVE  Recalculate(d, LiveInvoices(d)) = d
<1> DEFINE L == LiveInvoices(d)
           c == Recalculate(d, L)
<1>1. /\ d = [x \in Columns |-> d[x]] /\ DOMAIN d = Columns
      /\ \A i \in L : CachedIsLedger(d, i)
    BY DEF Quiet, Typed, Ids
<1>2. /\ SameIds(d, c) /\ SameBills(d, c) /\ SameReceipts(d, c)
      /\ c.calloc = d.calloc /\ SameCredit(d, c)
      /\ c.paid = [i \in Invoices |->
           IF i \in L THEN Least(TotalPaid(d, i), d.total[i]) ELSE d.paid[i]]
      /\ c.balance = [i \in Invoices |->
           IF i \in L THEN Monus(d.total[i], TotalPaid(d, i)) ELSE d.balance[i]]
      /\ c.status = [i \in Invoices |->
           IF i \in L
           THEN StatusOf(i \in d.voidedInvoices, Monus(d.total[i], TotalPaid(d, i)))
           ELSE d.status[i]]
    BY <1>1, RecalculateFrame
<1>3. c = [x \in Columns |-> c[x]]
    BY <1>1, RecalculateIsRecord
<1>4. \A i \in L : i \notin d.voidedInvoices
    BY DEF LiveInvoices
<1> HIDE DEF c, L
<1>5. ASSUME NEW i \in Invoices
      PROVE  c.paid[i] = d.paid[i] /\ c.balance[i] = d.balance[i] /\ c.status[i] = d.status[i]
    <2>1. CASE i \in L
        <3>1. CachedIsLedger(d, i)
            BY <1>1, <2>1
        <3>2. c.paid[i] = d.paid[i] /\ c.balance[i] = d.balance[i]
            BY <1>2, <2>1, <3>1 DEF CachedIsLedger
        <3>3. c.status[i] = StatusOf(i \in d.voidedInvoices, d.balance[i])
            BY <1>2, <2>1, <3>1 DEF CachedIsLedger
        <3>4. c.status[i] = d.status[i]
            BY <1>4, <2>1, <3>1, <3>3 DEF CachedIsLedger, StatusOf
        <3> QED
            BY <3>2, <3>4
    <2>2. CASE i \notin L
        BY <1>2, <2>2
    <2> QED
        BY <2>1, <2>2
<1>6. SameCaches(d, c)
    <2>1. /\ d.paid \in [Invoices -> Nat] /\ d.balance \in [Invoices -> Nat]
          /\ d.status \in [Invoices -> Statuses]
        BY DEF Typed, TypedCaches
    <2>2. c.paid = d.paid
        BY <1>2, <1>5, <2>1
    <2>3. c.balance = d.balance
        BY <1>2, <1>5, <2>1
    <2>4. c.status = d.status
        BY <1>2, <1>5, <2>1
    <2> QED
        BY <2>2, <2>3, <2>4 DEF SameCaches
<1>7. c = d
    BY <1>1, <1>2, <1>3, <1>6, SameColumns
<1> QED
    BY <1>7 DEF c, L

\* Verifying the credit leaves a database quiet.
LEMMA VerifyCreditQuiet ==
    ASSUME NEW d, Typed(d), Quiet(d)
    PROVE  LET v == VerifyCredit(d)
           IN /\ Typed(v) /\ Quiet(v) /\ SameLedger(d, v) /\ SameCaches(d, v) /\ v.term = d.term
              /\ v.hasCredit = d.hasCredit /\ v.credited = d.credited
              /\ v.credit = (IF d.hasCredit THEN Verified(d, d.credit) ELSE d.credit)
              /\ VerifyCredit(v) = v
<1> DEFINE v == VerifyCredit(d)
<1>1. DOMAIN d = Columns /\ d.credit \in Nat /\ d.hasCredit \in BOOLEAN
    BY DEF Typed, Ids, TypedCredit
<1>2. /\ SameIds(d, v) /\ SameBills(d, v) /\ SameCaches(d, v) /\ SameReceipts(d, v)
      /\ v.calloc = d.calloc /\ v.hasCredit = d.hasCredit /\ v.credited = d.credited
      /\ v.credit = IF d.hasCredit THEN Verified(d, d.credit) ELSE d.credit
    BY <1>1, VerifyCreditFrame
<1>3. Typed(v) /\ SameLedger(d, v) /\ v.term = d.term
    BY <1>2, VerifyCreditTyped DEF SameLedger, SameBills
<1>4. /\ d = [x \in Columns |-> d[x]]
      /\ \A i \in d.voidedInvoices : d.term[i] = NoTerm
      /\ \A i \in OverpaidNow(d) : Extra(d, i) <= Tol
      /\ \A i \in LiveInvoices(d) : CachedIsLedger(d, i)
    BY DEF Quiet
<1>5. v = [x \in Columns |-> v[x]]
    BY <1>1, <1>4 DEF VerifyCredit
<1>6. v = IF v.hasCredit THEN [v EXCEPT !.credit = v.credit] ELSE v
    <2>1. v.credit \in Nat /\ DOMAIN v = Columns
        BY <1>3 DEF Typed, Ids, TypedCredit
    <2> HIDE DEF v
    <2> QED
        BY <1>5, <2>1
<1>7. VerifyCredit(v) = IF v.hasCredit THEN [v EXCEPT !.credit = Verified(v, v.credit)] ELSE v
    BY DEF VerifyCredit
<1> HIDE DEF v
<1>8. /\ LiveInvoices(v) = LiveInvoices(d) /\ OverpaidNow(v) = OverpaidNow(d)
      /\ \A i : TotalPaid(v, i) = TotalPaid(d, i) /\ Overpayment(v, i) = Overpayment(d, i)
      /\ \A x : Verified(v, x) = Verified(d, x)
    BY <1>3, LedgerReads
<1>9. \A i \in OverpaidNow(v) : Extra(v, i) <= Tol
    BY <1>2, <1>4, <1>8 DEF Extra
<1>10. ASSUME NEW i \in LiveInvoices(v)
       PROVE  CachedIsLedger(v, i)
    <2>1. CachedIsLedger(d, i) /\ TotalPaid(v, i) = TotalPaid(d, i)
        BY <1>4, <1>8
    <2>2. v.paid = d.paid /\ v.balance = d.balance /\ v.status = d.status /\ v.total = d.total
        BY <1>2, <1>3 DEF SameCaches, SameLedger
    <2> QED
        BY <2>1, <2>2 DEF CachedIsLedger
<1>11. v.voidedInvoices = d.voidedInvoices
    BY <1>2 DEF SameIds
<1>12. Quiet(v)
    BY <1>3, <1>4, <1>5, <1>9, <1>10, <1>11 DEF Quiet
<1>13. VerifyCredit(v) = v
    <2>1. CASE d.hasCredit
        <3>1. Verified(d, v.credit) = v.credit
            <4>1. v.credit = Verified(d, d.credit)
                BY <1>2, <2>1
            <4>2. Verified(d, Verified(d, d.credit)) = Verified(d, d.credit)
                BY <1>1, VerifiedWithin
            <4> QED
                BY <4>1, <4>2
        <3>2. Verified(v, v.credit) = v.credit
            BY <1>8, <3>1
        <3> QED
            BY <1>2, <1>6, <1>7, <2>1, <3>2
    <2>2. CASE ~d.hasCredit
        BY <1>2, <1>7, <2>2
    <2> QED
        BY <2>1, <2>2
<1> QED
    BY <1>2, <1>3, <1>12, <1>13 DEF v

\* Only the invoices that owe and the stored credit matter for what happens next.
LEMMA IdleReads ==
    ASSUME NEW d, Typed(d), Quiet(d), Idle(d)
    PROVE  Idle(VerifyCredit(d)) /\ Owes(VerifyCredit(d)) = Owes(d)
<1> DEFINE v == VerifyCredit(d)
<1>1. /\ SameLedger(d, v) /\ SameCaches(d, v) /\ v.hasCredit = d.hasCredit
      /\ VerifyCredit(v) = v
    BY VerifyCreditQuiet
<1>2. Idle(d) <=> (Owes(d) = {} \/ ~d.hasCredit \/ v.credit <= Tol)
    BY DEF Idle
<1> HIDE DEF v
<1>3. Owes(v) = Owes(d)
    BY <1>1, LedgerReads DEF Owes, SameCaches
<1>4. Idle(v)
    BY <1>1, <1>2, <1>3 DEF Idle
<1> QED
    BY <1>3, <1>4 DEF v

\* An idle one only verifies the credit.
LEMMA RunIdle ==
    ASSUME NEW d, Typed(d), Quiet(d), Idle(d)
    PROVE  Reconcile(d).db = VerifyCredit(d)
<1> DEFINE v == VerifyCredit(d)
<1>1. /\ Typed(v) /\ Quiet(v) /\ SameLedger(d, v) /\ SameCaches(d, v)
      /\ v.hasCredit = d.hasCredit
    BY VerifyCreditQuiet
<1>2. Reconcile(d).db = Recalculate(SpendCredit(v), LiveInvoices(d))
    BY QuietReconciles
<1>3. Idle(d) <=> (Owes(d) = {} \/ ~d.hasCredit \/ v.credit <= Tol)
    BY DEF Idle
<1> HIDE DEF v
<1>4. Owes(v) = Owes(d) /\ LiveInvoices(v) = LiveInvoices(d)
    BY <1>1, LedgerReads DEF Owes, SameCaches
<1>5. SpendCredit(v) = v
    <2> DEFINE oldest == First(Owes(v), v.date)
               i      == CHOOSE i \in oldest : TRUE
    <2>1. SpendCredit(v) = IF oldest = {} THEN v ELSE ApplyCredit(v, i, v.balance[i])
        BY DEF SpendCredit, Owes
    <2>2. CASE Owes(d) = {}
        <3>1. oldest = {}
            BY <1>4, <2>2 DEF First
        <3> QED
            BY <2>1, <3>1
    <2>3. CASE ~d.hasCredit \/ v.credit <= Tol
        <3>1. \A owed : CreditToApply(v, owed) = 0
            <4>1. v.credit \in Nat /\ Tol \in Nat
                BY <1>1, AmountsAssumption DEF Typed, TypedCredit
            <4> QED
                BY <1>1, <2>3, <4>1 DEF CreditToApply
        <3>2. \A owed : ApplyCredit(v, i, owed) = v
            BY <3>1 DEF ApplyCredit
        <3> QED
            BY <2>1, <3>2
    <2> QED
        BY <1>3, <2>2, <2>3
<1>6. Recalculate(v, LiveInvoices(v)) = v
    BY <1>1, QuietRecalculated
<1> QED
    BY <1>2, <1>4, <1>5, <1>6 DEF v

\* The reconciliation of d gave x of its credit to the invoice i, with the result e.
Spent(d, e, i, x) ==
    /\ Typed(e) /\ Quiet(e)
    /\ SameIds(d, e) /\ SameReceipts(d, e) /\ e.hasCredit = d.hasCredit
    /\ e.date = d.date /\ e.due = d.due /\ e.total = d.total
    /\ \A j \in Invoices \ LiveInvoices(d) : e.status[j] = d.status[j]
    /\ d.hasCredit /\ i \in Owes(d) /\ \A j \in Owes(d) \ {i} : Before(i, j, d.date)
    /\ x = Least(d.balance[i], VerifyCredit(d).credit) /\ x > Tol
    /\ e.balance[i] = d.balance[i] - x /\ \A j \in Invoices \ {i} : e.balance[j] = d.balance[j]
    /\ Expected(e) = Monus(Expected(d), x)
    /\ x < d.balance[i] => e.credit = Verified(d, 0)

\* Giving the credit y of v to the invoice i: the row, and what is stored.
LEMMA ApplyCreditFields ==
    ASSUME NEW v, Typed(v), NEW i \in Invoices, NEW owed \in Nat, owed > Tol,
           v.hasCredit, v.credit > Tol
    PROVE  LET x == Least(owed, v.credit)
               g == ApplyCredit(v, i, owed)
           IN /\ x \in Nat /\ x > Tol /\ x <= owed /\ x <= v.credit
              /\ Typed(g) /\ SameBills(v, g) /\ SameCaches(v, g)
              /\ g.hasCredit = v.hasCredit /\ g.credited = v.credited
              /\ g.credit = Verified(v, v.credit - x)
              /\ \E row : RowAdded(v, g, row) /\ row.inv = i /\ row.amt = x
<1> DEFINE x   == Least(owed, v.credit)
           y   == v.credit - x
           row == CreditRow(v, i, x, CreditSource(v, x))
           w   == [v EXCEPT !.credit = y]
           f   == VerifyCredit(w)
           g   == [f EXCEPT !.calloc = @ \union {row}]
<1>1. v.credit \in Nat /\ Tol \in Nat /\ DOMAIN v = Columns
    BY AmountsAssumption DEF Typed, Ids, TypedCredit
<1>2. x \in Nat /\ x > Tol /\ x <= owed /\ x <= v.credit /\ y \in Nat /\ x # 0
    BY <1>1 DEF Least
<1>3. CreditToApply(v, owed) = x
    BY <1>1, <1>2 DEF CreditToApply
<1>4. ApplyCredit(v, i, owed) = g
    BY <1>2, <1>3 DEF ApplyCredit, DeductCredit
<1>5. row \in CreditRows /\ row.inv = i /\ row.amt = x /\ row \notin v.calloc
    <2>1. row \in CreditRows
        BY <1>2, CreditSourceTyped, CreditRowTyped DEF Typed
    <2>2. row \notin v.calloc
        BY CreditRowIsNew DEF Typed
    <2> QED
        BY <2>1, <2>2 DEF CreditRow
<1> HIDE DEF x, row, y
<1>6. /\ Typed(w) /\ SameIds(v, w) /\ SameBills(v, w) /\ SameReceipts(v, w) /\ SameCaches(v, w)
      /\ w.calloc = v.calloc /\ w.hasCredit = v.hasCredit /\ w.credited = v.credited /\ w.credit = y
      /\ DOMAIN w = Columns
    <2>1. Typed(w)
        BY <1>2, SetCreditTyped
    <2> QED
        BY <1>1, <2>1 DEF SameIds, SameBills, SameReceipts, SameCaches, Columns
<1> HIDE DEF w
<1>7. /\ Typed(f) /\ SameIds(w, f) /\ SameBills(w, f) /\ SameCaches(w, f) /\ SameReceipts(w, f)
      /\ f.calloc = w.calloc /\ f.hasCredit = w.hasCredit /\ f.credited = w.credited
      /\ f.credit = Verified(w, y) /\ DOMAIN f = Columns
    <2>1. Typed(f)
        BY <1>6, VerifyCreditTyped
    <2>2. /\ SameIds(w, f) /\ SameBills(w, f) /\ SameCaches(w, f) /\ SameReceipts(w, f)
          /\ f.calloc = w.calloc /\ f.hasCredit = w.hasCredit /\ f.credited = w.credited
          /\ f.credit = IF w.hasCredit THEN Verified(w, w.credit) ELSE w.credit
        BY <1>6, VerifyCreditFrame
    <2> QED
        BY <1>6, <2>1, <2>2 DEF Typed, Ids
<1> HIDE DEF f
<1>8. /\ SameIds(f, g) /\ SameBills(f, g) /\ SameCaches(f, g) /\ SameReceipts(f, g)
      /\ g.calloc = f.calloc \union {row} /\ g.hasCredit = f.hasCredit /\ g.credited = f.credited
      /\ g.credit = f.credit
    BY <1>7 DEF SameIds, SameBills, SameReceipts, SameCaches, Columns
<1>9. Typed(g)
    BY <1>5, <1>7, AddRowTyped
<1> HIDE DEF g
<1>10. SameBills(v, g) /\ SameCaches(v, g) /\ g.hasCredit = v.hasCredit /\ g.credited = v.credited
    BY <1>6, <1>7, <1>8 DEF SameBills, SameCaches
<1>11. RowAdded(v, g, row)
    <2>1. SameIds(v, g) /\ SameReceipts(v, g) /\ g.calloc = v.calloc \union {row}
        BY <1>6, <1>7, <1>8 DEF SameIds, SameReceipts
    <2> QED
        BY <1>5, <1>10, <2>1 DEF RowAdded, SameBills
<1>12. Verified(w, y) = Verified(v, y)
    <2>1. SameLedger(v, w)
        BY <1>6 DEF SameLedger, SameBills
    <2> QED
        BY <2>1, LedgerReads
<1> QED
    BY <1>2, <1>4, <1>5, <1>7, <1>8, <1>9, <1>10, <1>11, <1>12 DEF x, y, g

\* A quiet database with credit and an invoice to give it to: the first of them gets it.
LEMMA RunSpends ==
    ASSUME NEW d, Typed(d), Quiet(d), ~Idle(d)
    PROVE  \E i, x : Spent(d, Reconcile(d).db, i, x)
<1> DEFINE L == LiveInvoices(d)
           v == VerifyCredit(d)
           oldest == First(Owes(v), v.date)
           i == CHOOSE i \in oldest : TRUE
           x == Least(v.balance[i], v.credit)
           g == ApplyCredit(v, i, v.balance[i])
           e == Recalculate(g, L)
<1>1. /\ Typed(v) /\ Quiet(v) /\ SameLedger(d, v) /\ SameCaches(d, v) /\ v.term = d.term
      /\ v.hasCredit = d.hasCredit /\ v.credited = d.credited
    BY VerifyCreditQuiet
<1>2. Owes(d) # {} /\ d.hasCredit /\ v.credit > Tol
    <2>1. v.credit \in Nat /\ Tol \in Nat
        BY <1>1, AmountsAssumption DEF Typed, TypedCredit
    <2> QED
        BY <2>1 DEF Idle
<1>3. Reconcile(d).db = Recalculate(SpendCredit(v), L)
    BY QuietReconciles
<1>4. SpendCredit(v) = IF oldest = {} THEN v ELSE g
    BY DEF SpendCredit, Owes
<1> HIDE DEF v
<1>5. /\ Owes(v) = Owes(d) /\ LiveInvoices(v) = L /\ v.date = d.date /\ v.balance = d.balance
      /\ \A j : TotalPaid(v, j) = TotalPaid(d, j) /\ Overpayment(v, j) = Overpayment(d, j)
      /\ OverpaidNow(v) = OverpaidNow(d) /\ Expected(v) = Expected(d)
      /\ \A z : Verified(v, z) = Verified(d, z)
      /\ v.total = d.total /\ v.due = d.due
    BY <1>1, LedgerReads DEF Owes, SameCaches, SameLedger
<1>6. oldest # {}
    <2> DEFINE S == Owes(d)  key == d.date
    <2>1. S \subseteq Invoices
        BY LiveInvoicesFinite DEF Owes, Typed
    <2>2. IsFiniteSet(S) /\ S \subseteq Nat
        BY <2>1, FS_Subset, IdsAssumption
    <2>3. \A j \in S : key[j] \in Nat
        BY <2>1, AmountsAssumption DEF Typed, TypedBills
    <2> HIDE DEF S, key
    <2>4. First(S, key) # {}
        BY <1>2, <2>2, <2>3, FirstExists DEF S
    <2> QED
        BY <1>5, <2>4 DEF S, key
<1>7. i \in Owes(d) /\ \A j \in Owes(d) \ {i} : Before(i, j, d.date)
    <2>1. i \in oldest
        BY <1>6
    <2> HIDE DEF i
    <2> QED
        BY <1>5, <2>1 DEF First
<1>8. Reconcile(d).db = e
    BY <1>3, <1>4, <1>6
<1>9. i \in Invoices /\ i \in L /\ L \subseteq Invoices /\ v.balance[i] \in Nat /\ v.balance[i] > Tol
    BY <1>5, <1>7, LiveInvoicesFinite DEF Owes, Typed, TypedCaches
<1> HIDE DEF oldest, i
<1>10. /\ x \in Nat /\ x > Tol /\ x <= v.balance[i] /\ x <= v.credit
       /\ Typed(g) /\ SameBills(v, g) /\ SameCaches(v, g)
       /\ g.hasCredit = v.hasCredit /\ g.credited = v.credited
       /\ g.credit = Verified(v, v.credit - x)
       /\ \E row : RowAdded(v, g, row) /\ row.inv = i /\ row.amt = x
    <2>1. v.hasCredit
        BY <1>1, <1>2
    <2> HIDE <1>5
    <2> QED
        BY <1>1, <1>2, <1>9, <2>1, ApplyCreditFields
<1> HIDE DEF g, x
<1>11. PICK row : RowAdded(v, g, row) /\ row.inv = i /\ row.amt = x
    BY <1>10
<1>12. LiveInvoices(g) = L /\ DOMAIN g = Columns
    BY <1>5, <1>10, <1>11, RowAddedPaid, <1>1 DEF Typed, Ids
<1>13. \A j \in Invoices : TotalPaid(g, j) = TotalPaid(d, j) + (IF j = i THEN x ELSE 0)
    <2>1. /\ \A j \in Invoices \ {row.inv} : TotalPaid(g, j) = TotalPaid(v, j)
          /\ TotalPaid(g, row.inv) = TotalPaid(v, row.inv) + row.amt
        BY <1>1, <1>10, <1>11, RowAddedPaid
    <2>2. \A j \in Invoices : TotalPaid(d, j) \in Nat
        BY PaidIsNat DEF Typed
    <2> QED
        BY <1>5, <1>11, <2>1, <2>2
<1>14. \A j \in L : CachedIsLedger(d, j)
    BY DEF Quiet
<1>15. g.total = d.total /\ g.date = d.date /\ g.due = d.due /\ g.term = d.term
       /\ g.balance = d.balance /\ g.status = d.status /\ g.paid = d.paid
       /\ SameIds(d, g) /\ SameReceipts(d, g)
    <2>1. v.total = d.total /\ v.date = d.date /\ v.due = d.due /\ v.term = d.term
          /\ v.balance = d.balance /\ v.status = d.status /\ v.paid = d.paid
          /\ SameIds(d, v) /\ SameReceipts(d, v)
        BY <1>1 DEF SameLedger, SameCaches
    <2>2. SameIds(v, g) /\ SameReceipts(v, g)
        BY <1>11 DEF RowAdded
    <2> QED
        BY <1>10, <2>1, <2>2 DEF SameBills, SameCaches, SameIds, SameReceipts
<1>16. /\ Typed(e) /\ e = [z \in Columns |-> e[z]]
       /\ SameIds(g, e) /\ SameBills(g, e) /\ SameReceipts(g, e)
       /\ e.calloc = g.calloc /\ SameCredit(g, e)
       /\ e.paid = [j \in Invoices |->
            IF j \in L THEN Least(TotalPaid(g, j), g.total[j]) ELSE g.paid[j]]
       /\ e.balance = [j \in Invoices |->
            IF j \in L THEN Monus(g.total[j], TotalPaid(g, j)) ELSE g.balance[j]]
       /\ e.status = [j \in Invoices |->
            IF j \in L
            THEN StatusOf(j \in g.voidedInvoices, Monus(g.total[j], TotalPaid(g, j)))
            ELSE g.status[j]]
    <2>1. Typed(e) /\ e = [z \in Columns |-> e[z]]
        BY <1>10, <1>12, RecalculateTyped, RecalculateIsRecord
    <2> QED
        BY <1>12, <2>1, RecalculateFrame
<1>17. \A j \in L : CachedIsLedger(e, j)
    <2>1. e = Recalculate(g, LiveInvoices(g))
        BY <1>12
    <2>2. \A j \in L : j \in Invoices \cap LiveInvoices(g)
        BY <1>9, <1>12
    <2> HIDE DEF e, L
    <2> QED
        BY <1>12, <2>1, <2>2, RecalculateCoherent
<1> HIDE DEF e, L
<1>18. SameLedger(g, e)
    BY <1>16 DEF SameLedger, SameBills
<1>19. /\ LiveInvoices(e) = L /\ \A j : TotalPaid(e, j) = TotalPaid(g, j)
       /\ Expected(e) = Expected(g)
    BY <1>12, <1>18, LedgerReads
<1>20. /\ d.balance[i] = d.total[i] - TotalPaid(d, i) /\ d.balance[i] > Tol
       /\ d.total[i] \in Nat /\ TotalPaid(d, i) \in Nat /\ d.balance[i] \in Nat
       /\ TotalPaid(g, i) = TotalPaid(d, i) + x /\ x <= d.balance[i] /\ Tol \in Nat
    <2>1. d.balance[i] = Monus(d.total[i], TotalPaid(d, i))
        BY <1>9, <1>14 DEF CachedIsLedger
    <2>2. d.total[i] \in Nat /\ TotalPaid(d, i) \in Nat /\ d.balance[i] \in Nat
        BY <1>9, PaidIsNat DEF Typed, TypedBills, TypedCaches
    <2>3. d.balance[i] > Tol /\ Tol \in Nat
        BY <1>5, <1>9, AmountsAssumption
    <2> QED
        BY <1>5, <1>9, <1>10, <1>13, <2>1, <2>2, <2>3 DEF Monus
<1>21. e.balance[i] = d.balance[i] - x
    <2>1. e.balance[i] = Monus(d.total[i], TotalPaid(g, i))
        BY <1>9, <1>15, <1>16
    <2> QED
        BY <1>10, <1>20, <2>1 DEF Monus
<1>22. ASSUME NEW j \in Invoices \ {i}
       PROVE  e.balance[j] = d.balance[j]
    <2>1. CASE j \in L
        <3>1. e.balance[j] = Monus(d.total[j], TotalPaid(g, j))
            BY <1>15, <1>16, <2>1
        <3>2. TotalPaid(g, j) = TotalPaid(d, j)
            <4>1. TotalPaid(d, j) \in Nat
                BY PaidIsNat DEF Typed
            <4> QED
                BY <1>13, <4>1
        <3> QED
            BY <1>14, <2>1, <3>1, <3>2 DEF CachedIsLedger
    <2>2. CASE j \notin L
        BY <1>15, <1>16, <2>2
    <2> QED
        BY <2>1, <2>2
<1>23. ASSUME NEW j \in OverpaidNow(e)
       PROVE  Extra(e, j) <= Tol
    <2>1. j \in L /\ j \in Invoices /\ Overpayment(e, j) > Tol
        BY <1>9, <1>19 DEF OverpaidNow, Overpaid
    <2>2. e.total = d.total /\ e.credited = d.credited
        BY <1>1, <1>10, <1>15, <1>16 DEF SameBills, SameCredit
    <2>3. Overpayment(e, j) = TotalPaid(g, j) - d.total[j]
        BY <1>19, <2>2 DEF Overpayment
    <2>4. j # i
        BY <1>10, <1>20, <2>1, <2>3
    <2>5. Overpayment(e, j) = Overpayment(d, j)
        <3>1. TotalPaid(d, j) \in Nat
            BY <2>1, PaidIsNat DEF Typed
        <3> QED
            BY <1>13, <2>1, <2>3, <2>4, <3>1 DEF Overpayment
    <2>6. j \in OverpaidNow(d)
        BY <2>1, <2>5 DEF OverpaidNow, Overpaid, L
    <2>7. Extra(d, j) <= Tol
        BY <2>6 DEF Quiet
    <2> QED
        BY <2>2, <2>5, <2>7 DEF Extra
<1>24. Quiet(e)
    <2>1. e.voidedInvoices = d.voidedInvoices /\ e.term = d.term
        BY <1>15, <1>16 DEF SameIds, SameBills
    <2>2. \A j \in e.voidedInvoices : e.term[j] = NoTerm
        BY <2>1 DEF Quiet
    <2> QED
        BY <1>16, <1>17, <1>19, <1>23, <2>2 DEF Quiet
<1>25. Expected(e) = Monus(Expected(d), x)
    <2>1. Expected(g) = Monus(Expected(v), row.amt)
        <3>1. row.inv \in LiveInvoices(v) /\ TotalPaid(g, row.inv) <= v.total[row.inv]
            BY <1>5, <1>9, <1>10, <1>11, <1>20
        <3> QED
            BY <1>1, <1>10, <1>11, <3>1, RowAddedExpected
    <2> QED
        BY <1>5, <1>11, <1>19, <2>1
<1>26. x < d.balance[i] => e.credit = Verified(d, 0)
    <2>1. ASSUME x < d.balance[i]
          PROVE  e.credit = Verified(d, 0)
        <3>1. v.credit \in Nat
            BY <1>1 DEF Typed, TypedCredit
        <3>2. x = v.credit
            BY <1>5, <1>20, <2>1, <3>1 DEF x, Least
        <3>3. v.credit - x = 0
            BY <3>1, <3>2
        <3> QED
            BY <1>5, <1>10, <1>16, <3>3 DEF SameCredit
    <2> QED
        BY <2>1
<1>27. x = Least(d.balance[i], VerifyCredit(d).credit)
    BY <1>5 DEF x, v
<1>28. SameIds(d, e) /\ SameReceipts(d, e) /\ e.hasCredit = d.hasCredit
       /\ e.date = d.date /\ e.due = d.due /\ e.total = d.total
    BY <1>1, <1>10, <1>15, <1>16 DEF SameIds, SameReceipts, SameBills, SameCredit
<1>29. \A j \in Invoices \ LiveInvoices(d) : e.status[j] = d.status[j]
    BY <1>15, <1>16 DEF L
<1>30. Spent(d, e, i, x)
    BY <1>2, <1>7, <1>10, <1>16, <1>21, <1>22, <1>24, <1>25, <1>26, <1>27, <1>28, <1>29 DEF Spent
<1> QED
    BY <1>8, <1>30

-----------------------------------------------------------------------------
(* One reconciliation after another                                        *)

\* When the credit did not cover the invoice it went to, none worth spending is left.
LEMMA SpentAll ==
    ASSUME NEW d, Typed(d), NEW e, NEW i, NEW x, Spent(d, e, i, x), x < d.balance[i]
    PROVE  Idle(e)
<1> DEFINE y == VerifyCredit(d).credit
           E == Expected(d)
           z == VerifyCredit(e).credit
<1>1. Typed(e) /\ d.hasCredit /\ e.hasCredit = d.hasCredit /\ x > Tol /\ x = Least(d.balance[i], y)
      /\ Expected(e) = Monus(E, x) /\ e.credit = Verified(d, 0)
    BY DEF Spent
<1>2. d.credit \in Nat /\ e.credit \in Nat /\ DOMAIN d = Columns /\ DOMAIN e = Columns /\ Tol \in Nat
    BY <1>1, AmountsAssumption DEF Typed, Ids, TypedCredit
<1>3. y = Verified(d, d.credit) /\ z = Verified(e, e.credit)
    BY <1>1, <1>2, VerifyCreditFrame
<1>4. y \in Nat /\ E \in Nat /\ y - E <= Tol /\ E - y <= Tol
    BY <1>2, <1>3, VerifiedWithin
<1>5. x = y
    <2>1. d.balance[i] \in Nat
        BY LiveInvoicesFinite DEF Spent, Owes, Typed, TypedCaches
    <2> QED
        BY <1>1, <1>4, <2>1 DEF Least
<1>6. Verified(d, 0) = IF E > Tol THEN E ELSE 0
    BY <1>2, <1>4 DEF Verified
<1>7. z = IF Expected(e) - e.credit > Tol \/ e.credit - Expected(e) > Tol
          THEN Expected(e) ELSE e.credit
    BY <1>3 DEF Verified
<1> HIDE DEF y, E, z
<1>8. z <= Tol
    <2>1. Expected(e) = (IF E > x THEN E - x ELSE 0) /\ x > Tol
        BY <1>1 DEF Monus
    <2>2. e.credit = IF E > Tol THEN E ELSE 0
        BY <1>1, <1>6
    <2>3. Expected(e) <= Tol /\ Expected(e) \in Nat
        BY <1>2, <1>4, <1>5, <2>1
    <2>4. CASE E > Tol
        <3>1. e.credit - Expected(e) > Tol
            BY <1>2, <1>4, <1>5, <2>1, <2>2, <2>4
        <3> QED
            BY <1>7, <2>3, <3>1
    <2>5. CASE ~(E > Tol)
        BY <1>2, <1>7, <2>2, <2>3, <2>5
    <2> QED
        BY <2>4, <2>5
<1> QED
    BY <1>8 DEF Idle, z

\* What reconciliations of c gave to its invoices, when they left d.
Gave(c, d) == Drop(c.balance, d.balance, LiveInvoices(c))

\* An invoice was given credit when those before it owed nothing more.
PaysInOrder(b, a, L, key) ==
    /\ b \in Balances /\ a \in Balances
    /\ \A i \in Invoices : a[i] <= b[i]
    /\ \A i \in Invoices \ L : a[i] = b[i]
    /\ \A i \in L : a[i] # b[i] =>
         b[i] > Tol /\ \A j \in L : Before(j, i, key) /\ b[j] > Tol => a[j] = 0

\* The database d is what some reconciliations of the quiet database c left of it.
Ran(c, d) ==
    /\ Typed(d) /\ Quiet(d)
    /\ SameIds(c, d) /\ SameReceipts(c, d) /\ d.hasCredit = c.hasCredit
    /\ d.date = c.date /\ d.due = c.due /\ d.total = c.total
    /\ \A j \in Invoices \ LiveInvoices(c) : d.status[j] = c.status[j]
    /\ PaysInOrder(c.balance, d.balance, LiveInvoices(c), c.date)
    /\ Gave(c, d) \in Nat /\ Gave(c, d) <= Expected(c) + Tol
    /\ Expected(d) = Monus(Expected(c), Gave(c, d))
    /\ ~c.hasCredit => Gave(c, d) = 0

\* Each invoice still owes all it owed, or nothing.
Whole(c, d) == \A j \in LiveInvoices(c) : d.balance[j] = c.balance[j] \/ d.balance[j] = 0

\* Another reconciliation changes nothing.
Settled(d) == Idle(d) /\ VerifyCredit(d) = d

\* After k reconciliations there are at most that many fewer invoices to give credit to,
\* or nothing is left to do.
Progress(c, d, k) ==
    LET n == Cardinality(Invoices)
    IN \/ Settled(d)
       \/ Idle(d) /\ k <= n
       \/ Whole(c, d) /\ Cardinality(Owes(d)) + k <= n

\* Nothing has been given yet.
LEMMA RanNone ==
    ASSUME NEW c, Typed(c), Quiet(c)
    PROVE  Ran(c, c) /\ Progress(c, c, 0)
<1> DEFINE b == c.balance  L == LiveInvoices(c)
<1>1. b \in Balances /\ L \in SUBSET Invoices /\ Expected(c) \in Nat /\ Tol \in Nat
      /\ DOMAIN c = Columns
    BY LiveInvoicesFinite, ExpectedIsNat, AmountsAssumption DEF Typed, Ids, TypedCaches, Balances
<1>2. Drop(b, b, L) = 0
    <2>1. IsFiniteSet(L) /\ L \subseteq Invoices
        BY <1>1, OwingTyped
    <2>2. \A i \in L : Drops(b, b)[i] = 0
        BY <2>1, <1>1 DEF Drops, Balances
    <2> QED
        BY <2>1, <2>2, SumZero DEF Drop
<1>3. PaysInOrder(b, b, L, c.date)
    BY <1>1 DEF PaysInOrder, Balances
<1>4. Gave(c, c) = 0
    BY <1>2 DEF Gave
<1>5. Ran(c, c)
    BY <1>1, <1>3, <1>4 DEF Ran, SameIds, SameReceipts, Monus
<1>6. Cardinality(Owes(c)) <= Cardinality(Invoices) /\ Cardinality(Owes(c)) \in Nat
      /\ Cardinality(Invoices) \in Nat
    <2>1. Owes(c) \subseteq Invoices
        BY <1>1 DEF Owes
    <2> QED
        BY <2>1, IdsAssumption, FS_Subset, FS_CardinalityType
<1>7. Whole(c, c)
    BY DEF Whole
<1> QED
    BY <1>5, <1>6, <1>7 DEF Progress

\* Credit for one more invoice: what that leaves, and what has been given in all.
LEMMA GaveMore ==
    ASSUME NEW c, Typed(c), NEW d, Ran(c, d), Whole(c, d), NEW e, NEW i, NEW x, Spent(d, e, i, x)
    PROVE  /\ PaysInOrder(c.balance, e.balance, LiveInvoices(c), c.date)
           /\ Gave(c, e) = Gave(c, d) + x
           /\ x \in Nat /\ x <= d.balance[i] /\ x <= Expected(d) + Tol
<1> DEFINE L == LiveInvoices(c)  b == c.balance  a == d.balance  f == e.balance  key == c.date
           y == VerifyCredit(d).credit
<1>1. /\ Typed(d) /\ d.date = key /\ LiveInvoices(d) = L /\ PaysInOrder(b, a, L, key)
    BY DEF Ran, SameIds, LiveInvoices
<1>2. /\ i \in Owes(d) /\ \A j \in Owes(d) \ {i} : Before(i, j, key)
      /\ f[i] = a[i] - x /\ \A j \in Invoices \ {i} : f[j] = a[j]
      /\ x = Least(a[i], y) /\ x > Tol /\ d.hasCredit /\ Typed(e)
    BY <1>1 DEF Spent
<1>3. b \in Balances /\ a \in Balances /\ f \in Balances /\ Tol \in Nat /\ L \in SUBSET Invoices
    BY <1>1, <1>2, LiveInvoicesFinite, AmountsAssumption DEF Typed, TypedCaches, Balances
<1>4. i \in L /\ i \in Invoices /\ a[i] > Tol /\ a[i] \in Nat /\ b[i] \in Nat
    BY <1>1, <1>2, <1>3 DEF Owes, Balances
<1>5. y \in Nat /\ y <= Expected(d) + Tol /\ Expected(d) \in Nat
    <2>1. d.credit \in Nat /\ DOMAIN d = Columns
        BY <1>1 DEF Typed, Ids, TypedCredit
    <2>2. y = Verified(d, d.credit)
        BY <1>2, <2>1, VerifyCreditFrame
    <2> HIDE DEF y
    <2> QED
        BY <1>1, <1>3, <2>1, <2>2, VerifiedWithin
<1> HIDE DEF y
<1>6. x \in Nat /\ x <= a[i] /\ x <= y /\ x # 0
    BY <1>2, <1>3, <1>4, <1>5 DEF Least
<1>7. a[i] = b[i]
    BY <1>3, <1>4 DEF Whole
<1>8. \A j \in L : a[j] > Tol => j \in Owes(d)
    BY <1>1 DEF Owes
<1>9. \A j \in Invoices : f[j] <= a[j] /\ a[j] <= b[j] /\ a[j] \in Nat /\ f[j] \in Nat /\ b[j] \in Nat
    <2>1. \A j \in Invoices : a[j] <= b[j] /\ a[j] \in Nat /\ f[j] \in Nat /\ b[j] \in Nat
        BY <1>1, <1>3 DEF PaysInOrder, Balances
    <2>2. \A j \in Invoices \ {i} : f[j] <= a[j]
        BY <1>2, <2>1
    <2>3. f[i] <= a[i]
        BY <1>2, <1>4, <1>6
    <2> QED
        BY <2>1, <2>2, <2>3
<1>10. \A j \in L : a[j] = b[j] \/ a[j] = 0
    BY DEF Whole
<1>11. \A j \in L : key[j] \in Nat /\ j \in Nat
    BY <1>3, IdsAssumption, AmountsAssumption DEF Typed, TypedBills
<1> HIDE DEF L, b, a, f, key
<1>12. ASSUME NEW j \in L, Before(j, i, key), b[j] > Tol
       PROVE  a[j] = 0 /\ f[j] = 0
    <2>1. j # i
        BY <1>4, <1>11, <1>12 DEF Before
    <2>2. ~Before(i, j, key)
        BY <1>4, <1>11, <1>12 DEF Before
    <2>3. ~(a[j] > Tol)
        BY <1>2, <1>8, <2>1, <2>2
    <2>4. a[j] = 0
        BY <1>10, <1>12, <2>3
    <2> QED
        BY <1>2, <1>3, <2>1, <2>4
<1>13. PaysInOrder(b, f, L, key)
    <2>1. \A j \in Invoices : f[j] <= b[j]
        BY <1>9
    <2>2. \A j \in Invoices \ L : f[j] = b[j]
        BY <1>1, <1>2, <1>4 DEF PaysInOrder
    <2>3. ASSUME NEW k \in L, f[k] # b[k]
          PROVE  b[k] > Tol /\ \A j \in L : Before(j, k, key) /\ b[j] > Tol => f[j] = 0
        <3>1. CASE k = i
            BY <1>4, <1>7, <1>12, <3>1
        <3>2. CASE k # i
            <4>1. a[k] # b[k] /\ k \in Invoices
                BY <1>2, <1>3, <2>3, <3>2
            <4>2. b[k] > Tol /\ \A j \in L : Before(j, k, key) /\ b[j] > Tol => a[j] = 0
                BY <1>1, <2>3, <4>1 DEF PaysInOrder
            <4>3. ASSUME NEW j \in L, a[j] = 0
                  PROVE  f[j] = 0
                <5>1. j \in Invoices
                    BY <1>3
                <5>2. f[j] <= a[j] /\ f[j] \in Nat
                    BY <1>9, <5>1
                <5> QED
                    BY <4>3, <5>2
            <4> QED
                BY <4>2, <4>3
        <3> QED
            BY <3>1, <3>2
    <2> QED
        BY <1>3, <2>1, <2>2, <2>3 DEF PaysInOrder
<1>14. Drop(b, f, L) = Drop(b, a, L) + x
    <2>1. /\ Owed(b, L) = Owing(b)[i] + Owed(b, L \ {i})
          /\ Drop(b, a, L) = (b[i] - a[i]) + Drop(b, a, L \ {i})
        BY <1>3, <1>4, OwedStep
    <2>2. /\ Owed(b, L) = Owing(b)[i] + Owed(b, L \ {i})
          /\ Drop(b, f, L) = (b[i] - f[i]) + Drop(b, f, L \ {i})
        BY <1>3, <1>4, OwedStep
    <2> DEFINE t == L \ {i}
    <2>3. t \in SUBSET Invoices /\ \A j \in t : f[j] = a[j]
        BY <1>2, <1>3
    <2>4. Drop(b, a, L) = (b[i] - a[i]) + Drop(b, a, t) /\ Drop(b, f, L) = (b[i] - f[i]) + Drop(b, f, t)
        BY <2>1, <2>2
    <2> HIDE DEF t
    <2>5. Drop(b, f, t) = Drop(b, a, t) /\ Drop(b, a, t) \in Int
        BY <1>3, <2>3, OwedSame, OwingTyped
    <2>6. b[i] - f[i] = (b[i] - a[i]) + x /\ b[i] - a[i] \in Int
        BY <1>2, <1>4, <1>6
    <2> QED
        BY <1>6, <2>4, <2>5, <2>6
<1>15. x <= Expected(d) + Tol
    BY <1>3, <1>5, <1>6
<1> QED
    BY <1>6, <1>13, <1>14, <1>15 DEF Gave, L, b, a, f, key

\* Another reconciliation when there is nothing left to give credit to.
LEMMA RunsIdle ==
    ASSUME NEW c, Typed(c), NEW d, Ran(c, d), Idle(d)
    PROVE  Ran(c, Reconcile(d).db) /\ Settled(Reconcile(d).db)
<1> DEFINE e == Reconcile(d).db
           v == VerifyCredit(d)
<1>1. Typed(d) /\ Quiet(d)
    BY DEF Ran
<1>2. e = v
    BY <1>1, RunIdle
<1>3. /\ Typed(v) /\ Quiet(v) /\ SameLedger(d, v) /\ SameCaches(d, v)
      /\ v.hasCredit = d.hasCredit /\ VerifyCredit(v) = v
    BY <1>1, VerifyCreditQuiet
<1>4. Idle(v)
    BY <1>1, IdleReads
<1>5. Expected(v) = Expected(d)
    BY <1>3, LedgerReads
<1>6. Gave(c, v) = Gave(c, d)
    BY <1>3 DEF SameCaches, Gave
<1>7. SameIds(c, v) /\ SameReceipts(c, v)
    BY <1>3 DEF Ran, SameLedger, SameIds, SameReceipts
<1>8. /\ v.hasCredit = c.hasCredit /\ v.date = c.date /\ v.due = c.due /\ v.total = c.total
      /\ v.status = d.status /\ v.balance = d.balance
    BY <1>3 DEF Ran, SameLedger, SameCaches
<1> HIDE DEF v
<1>9. Ran(c, v)
    BY <1>3, <1>5, <1>6, <1>7, <1>8 DEF Ran
<1> QED
    BY <1>2, <1>3, <1>4, <1>9 DEF Settled, v

\* Another reconciliation when there is: one invoice fewer is left to give credit to, or
\* there is no more credit.
LEMMA RunsOn ==
    ASSUME NEW c, Typed(c), NEW d, Ran(c, d), ~Idle(d), NEW k \in Nat, Progress(c, d, k)
    PROVE  Ran(c, Reconcile(d).db) /\ Progress(c, Reconcile(d).db, k + 1)
<1> DEFINE e == Reconcile(d).db
           n == Cardinality(Invoices)
           L == LiveInvoices(c)
<1>1. Typed(d) /\ Quiet(d) /\ Whole(c, d) /\ Cardinality(Owes(d)) + k <= n
    BY DEF Ran, Progress, Settled
<1>2. PICK i, x : Spent(d, e, i, x)
    BY <1>1, RunSpends
<1> HIDE DEF e
<1>3. /\ PaysInOrder(c.balance, e.balance, L, c.date) /\ Gave(c, e) = Gave(c, d) + x
      /\ x \in Nat /\ x <= d.balance[i] /\ x <= Expected(d) + Tol
    BY <1>1, <1>2, GaveMore
<1>4. /\ Typed(e) /\ Quiet(e) /\ e.hasCredit = d.hasCredit /\ d.hasCredit
      /\ Expected(e) = Monus(Expected(d), x) /\ x > Tol /\ i \in Owes(d)
      /\ e.balance[i] = d.balance[i] - x /\ \A j \in Invoices \ {i} : e.balance[j] = d.balance[j]
    BY <1>2 DEF Spent
<1>5. /\ SameIds(c, e) /\ SameReceipts(c, e) /\ e.hasCredit = c.hasCredit /\ c.hasCredit
      /\ e.date = c.date /\ e.due = c.due /\ e.total = c.total
      /\ \A j \in Invoices \ L : e.status[j] = c.status[j]
    <2>1. /\ SameIds(d, e) /\ SameReceipts(d, e) /\ e.date = d.date /\ e.due = d.due /\ e.total = d.total
          /\ \A j \in Invoices \ LiveInvoices(d) : e.status[j] = d.status[j]
        BY <1>2 DEF Spent
    <2>2. /\ SameIds(c, d) /\ SameReceipts(c, d) /\ d.hasCredit = c.hasCredit
          /\ d.date = c.date /\ d.due = c.due /\ d.total = c.total
          /\ \A j \in Invoices \ L : d.status[j] = c.status[j]
        BY DEF Ran
    <2>3. LiveInvoices(d) = L
        BY <2>2 DEF SameIds, LiveInvoices
    <2> HIDE DEF L
    <2> QED
        BY <1>4, <2>1, <2>2, <2>3 DEF SameIds, SameReceipts
<1>6. LiveInvoices(d) = L /\ LiveInvoices(e) = L /\ L \subseteq Invoices
    <2>1. LiveInvoices(d) = L
        BY DEF Ran, SameIds, LiveInvoices
    <2>2. LiveInvoices(e) = L
        BY <1>5 DEF SameIds, LiveInvoices
    <2> QED
        BY <2>1, <2>2, LiveInvoicesFinite DEF Typed
<1>7. /\ Gave(c, d) \in Nat /\ Gave(c, d) <= Expected(c) + Tol
      /\ Expected(d) = Monus(Expected(c), Gave(c, d))
    BY DEF Ran
<1>8. Expected(c) \in Nat /\ Expected(d) \in Nat /\ Tol \in Nat
    BY <1>1, ExpectedIsNat, AmountsAssumption DEF Typed, Ids
<1>9. /\ Gave(c, e) \in Nat /\ Gave(c, e) <= Expected(c) + Tol
      /\ Expected(e) = Monus(Expected(c), Gave(c, e))
    <2> DEFINE E == Expected(c)  X == Gave(c, d)  F == Expected(d)  G == Expected(e)
               Y == Gave(c, e)
    <2>1. Y = X + x /\ x \in Nat /\ x <= F + Tol /\ x > Tol /\ X \in Nat /\ F = Monus(E, X)
          /\ E \in Nat /\ Tol \in Nat /\ G = Monus(F, x)
        BY <1>3, <1>4, <1>7, <1>8
    <2> HIDE DEF E, X, F, G, Y
    <2>2. Y \in Nat /\ Y <= E + Tol /\ G = Monus(E, Y)
        BY <2>1 DEF Monus
    <2> QED
        BY <2>2 DEF E, Y, G
<1>10. Ran(c, e)
    BY <1>3, <1>4, <1>5, <1>9 DEF Ran, L
<1>11. /\ Owes(d) \subseteq Invoices /\ IsFiniteSet(Owes(d)) /\ Cardinality(Owes(d)) \in Nat
       /\ n \in Nat /\ Cardinality(Owes(d) \ {i}) = Cardinality(Owes(d)) - 1
       /\ Cardinality(Owes(d)) # 0
    <2>1. Owes(d) \subseteq Invoices
        BY <1>6 DEF Owes
    <2>2. IsFiniteSet(Owes(d))
        BY <2>1, IdsAssumption, FS_Subset
    <2>3. Cardinality(Owes(d)) \in Nat /\ n \in Nat
        BY <2>2, IdsAssumption, FS_CardinalityType
    <2>4. Cardinality(Owes(d) \ {i}) = Cardinality(Owes(d)) - 1
        BY <1>4, <2>2, FS_RemoveElement
    <2>5. Cardinality(Owes(d)) # 0
        BY <1>4, <2>2, FS_EmptySet
    <2> QED
        BY <2>1, <2>2, <2>3, <2>4, <2>5
<1> HIDE DEF n
<1>12. d.balance[i] \in Nat /\ i \in Invoices /\ i \in L
    BY <1>1, <1>6, <1>4, <1>11 DEF Owes, Typed, TypedCaches
<1>13. CASE x < d.balance[i]
    <2>1. Idle(e)
        BY <1>1, <1>2, <1>13, SpentAll
    <2>2. k + 1 <= n
        BY <1>1, <1>11
    <2> QED
        BY <1>10, <2>1, <2>2 DEF Progress, n, e
<1>14. CASE ~(x < d.balance[i])
    <2>1. e.balance[i] = 0
        BY <1>3, <1>4, <1>12, <1>14
    <2>2. Whole(c, e)
        BY <1>1, <1>4, <1>6, <2>1 DEF Whole, L
    <2>3. Owes(e) = Owes(d) \ {i}
        <3>1. ~(e.balance[i] > Tol)
            BY <1>8, <2>1
        <3>2. \A j \in L \ {i} : e.balance[j] = d.balance[j]
            BY <1>4, <1>6
        <3> HIDE DEF L
        <3> QED
            BY <1>6, <3>1, <3>2 DEF Owes
    <2>4. Cardinality(Owes(e)) + (k + 1) <= n
        BY <1>1, <1>11, <2>3
    <2> QED
        BY <1>10, <2>2, <2>4 DEF Progress, n, e
<1> QED
    BY <1>13, <1>14

\* Every reconciliation gets further.
LEMMA RunsFurther ==
    ASSUME NEW c, Typed(c), NEW d, Ran(c, d), NEW k \in Nat, k <= Cardinality(Invoices),
           Progress(c, d, k)
    PROVE  Ran(c, Reconcile(d).db) /\ Progress(c, Reconcile(d).db, k + 1)
<1>1. CASE Idle(d)
    BY <1>1, RunsIdle DEF Progress
<1>2. CASE ~Idle(d)
    BY <1>2, RunsOn
<1> QED
    BY <1>1, <1>2

\* After one reconciliation per invoice and one more, all is settled.
LEMMA ProgressEnds ==
    ASSUME NEW c, NEW d, Typed(d), Progress(c, d, Cardinality(Invoices) + 1)
    PROVE  Settled(d)
<1>1. Cardinality(Invoices) \in Nat /\ Cardinality(Owes(d)) \in Nat
    <2>1. Owes(d) \subseteq Invoices
        BY LiveInvoicesFinite DEF Owes, Typed
    <2> QED
        BY <2>1, IdsAssumption, FS_Subset, FS_CardinalityType
<1> QED
    BY <1>1 DEF Progress

\* A settled database is what a reconciliation leaves of it.
LEMMA SettledStays ==
    ASSUME NEW c, NEW d, Ran(c, d), Settled(d)
    PROVE  Reconcile(d).ok /\ Reconcile(d).db = d
<1>1. Typed(d) /\ Quiet(d) /\ Idle(d) /\ VerifyCredit(d) = d
    BY DEF Ran, Settled
<1> QED
    BY <1>1, RunIdle, QuietReconciles

\* The table that `ReconcileRuns' defines: the database after k reconciliations.
RunTable(d, n, g) == g = [k \in 0..n |-> IF k = 0 THEN d ELSE Reconcile(g[k - 1]).db]

\* `ReconcileRuns' is the last entry of its table.
LEMMA RunsAreTable ==
    ASSUME NEW d, NEW n
    PROVE  ReconcileRuns(d, n) = (CHOOSE g : RunTable(d, n, g))[n]
BY DEF ReconcileRuns, RunTable

\* Reconciliation again and again: a sequence of databases.
RunsBy(d, n, g) ==
    /\ g[0] = d
    /\ \A k \in 0..(n - 1) : g[k + 1] = Reconcile(g[k]).db
    /\ ReconcileRuns(d, n) = g[n]

\* There is such a sequence: by induction on its length, which makes the table one.
LEMMA RunSteps ==
    ASSUME NEW d, NEW n \in Nat
    PROVE  \E g : RunsBy(d, n, g)
<1> DEFINE T == {m \in Nat : \E g : RunTable(d, m, g)}
<1>1. 0 \in T
    <2> DEFINE g == [k \in 0..0 |-> d]
    <2>1. RunTable(d, 0, g)
        BY DEF RunTable
    <2> QED
        BY <2>1
<1>2. ASSUME NEW m \in T
      PROVE  m + 1 \in T
    <2>1. m \in Nat
        OBVIOUS
    <2>2. PICK g : RunTable(d, m, g)
        OBVIOUS
    <2> DEFINE h == [k \in 0..(m + 1) |-> IF k <= m THEN g[k] ELSE Reconcile(g[m]).db]
    <2>3. ASSUME NEW k \in 0..(m + 1)
          PROVE  h[k] = IF k = 0 THEN d ELSE Reconcile(h[k - 1]).db
        <3>1. CASE k = 0
            <4>1. h[k] = g[0]
                BY <2>1, <3>1
            <4>2. g[0] = d
                BY <2>1, <2>2 DEF RunTable
            <4> QED
                BY <3>1, <4>1, <4>2
        <3>2. CASE k # 0 /\ k <= m
            <4>1. h[k] = g[k] /\ h[k - 1] = g[k - 1]
                BY <2>1, <3>2
            <4>2. g[k] = Reconcile(g[k - 1]).db
                <5>1. k \in 0..m
                    BY <2>1, <3>2
                <5> QED
                    BY <2>2, <3>2, <5>1 DEF RunTable
            <4> HIDE DEF h
            <4> QED
                BY <3>2, <4>1, <4>2
        <3>3. CASE k = m + 1
            <4>1. h[k] = Reconcile(g[m]).db /\ h[m] = g[m] /\ k - 1 = m /\ k # 0
                BY <2>1, <3>3
            <4> HIDE DEF h
            <4> QED
                BY <4>1
        <3>4. k = 0 \/ (k # 0 /\ k <= m) \/ k = m + 1
            BY <2>1
        <3> QED
            BY <3>1, <3>2, <3>3, <3>4
    <2>4. h = [k \in 0..(m + 1) |-> h[k]]
        OBVIOUS
    <2> HIDE DEF h
    <2>5. RunTable(d, m + 1, h)
        BY <2>3, <2>4 DEF RunTable
    <2>6. m + 1 \in Nat
        BY <2>1
    <2> QED
        BY <2>5, <2>6
<1>3. n \in T
    <2>1. T \subseteq Nat
        OBVIOUS
    <2> HIDE DEF T
    <2>2. T = Nat
        BY <1>1, <1>2, <2>1, NumberInduction
    <2> QED
        BY <2>2
<1>4. \E g : RunTable(d, n, g)
    BY <1>3
<1> DEFINE g == CHOOSE g : RunTable(d, n, g)
<1>5. RunTable(d, n, g)
    BY <1>4
<1>6. ReconcileRuns(d, n) = g[n]
    BY RunsAreTable
<1> HIDE DEF g
<1>7. g[0] = d
    BY <1>5 DEF RunTable
<1>8. ASSUME NEW k \in 0..(n - 1)
      PROVE  g[k + 1] = Reconcile(g[k]).db
    <2>1. k + 1 \in 0..n /\ k + 1 # 0 /\ (k + 1) - 1 = k
        OBVIOUS
    <2>2. g[k + 1] = IF k + 1 = 0 THEN d ELSE Reconcile(g[(k + 1) - 1]).db
        BY <1>5, <2>1 DEF RunTable
    <2> QED
        BY <2>1, <2>2
<1> QED
    BY <1>6, <1>7, <1>8 DEF RunsBy

\* What refuses a reconciliation refuses every later one.
LEMMA RunsRefused ==
    ASSUME NEW d, Typed(d), ~Reconcile(d).ok, NEW n \in Nat
    PROVE  ~Reconcile(ReconcileRuns(d, n)).ok
<1>1. PICK g : RunsBy(d, n, g)
    BY RunSteps
<1> DEFINE T == {k \in Nat : k <= n => Typed(g[k]) /\ ~Reconcile(g[k]).ok}
<1>2. 0 \in T
    BY <1>1 DEF RunsBy
<1>3. ASSUME NEW k \in T
      PROVE  k + 1 \in T
    <2>1. k \in Nat /\ k + 1 \in Nat
        OBVIOUS
    <2>2. ASSUME k + 1 <= n
          PROVE  Typed(g[k + 1]) /\ ~Reconcile(g[k + 1]).ok
        <3>1. k <= n /\ k \in 0..(n - 1)
            BY <2>1, <2>2
        <3>2. Typed(g[k]) /\ ~Reconcile(g[k]).ok
            BY <3>1
        <3>3. g[k + 1] = Reconcile(g[k]).db
            BY <1>1, <3>1 DEF RunsBy
        <3> HIDE DEF T
        <3> QED
            BY <3>2, <3>3, ReconcileStuck, ReconcileTyped
    <2> QED
        BY <2>1, <2>2
<1>4. T = Nat
    <2>1. T \subseteq Nat
        OBVIOUS
    <2> HIDE DEF T
    <2> QED
        BY <1>2, <1>3, <2>1, NumberInduction
<1> QED
    BY <1>1, <1>4 DEF RunsBy

\* Where the first reconciliation succeeds, they settle.
LEMMA RunsSettle ==
    ASSUME NEW d, Typed(d), Reconcile(d).ok
    PROVE  LET e == ReconcileRuns(d, Cardinality(Invoices) + 1)
           IN Ran(Started(d), e) /\ Settled(e)
<1> DEFINE c == Started(d)
           n == Cardinality(Invoices)
<1>1. n \in Nat
    BY IdsAssumption, FS_CardinalityType
<1>2. /\ Typed(c) /\ Quiet(c)
      /\ Reconcile(d).db = Recalculate(SpendCredit(VerifyCredit(c)), LiveInvoices(d))
      /\ LiveInvoices(c) = LiveInvoices(d)
    <2>1. Typed(c) /\ SameLedger(d, c)
        BY StartedFields
    <2>2. LiveInvoices(c) = LiveInvoices(d)
        BY <2>1, LedgerReads
    <2> QED
        BY <2>1, <2>2, StartedQuiet
<1> HIDE DEF c, n
<1>3. Reconcile(d).db = Reconcile(c).db
    BY <1>2, QuietReconciles
<1>4. PICK g : RunsBy(d, n + 1, g)
    BY <1>1, RunSteps
<1> DEFINE T == {k \in Nat : k <= n => Ran(c, g[k + 1]) /\ Progress(c, g[k + 1], k + 1)}
<1>5. 0 \in T
    <2>1. 0 \in 0..((n + 1) - 1)
        BY <1>1
    <2>2. g[0 + 1] = Reconcile(c).db
        BY <1>3, <1>4, <2>1 DEF RunsBy
    <2>3. Ran(c, c) /\ Progress(c, c, 0) /\ 0 <= n
        BY <1>1, <1>2, RanNone
    <2>4. Ran(c, Reconcile(c).db) /\ Progress(c, Reconcile(c).db, 0 + 1)
        BY <1>2, <2>3, RunsFurther DEF n
    <2> QED
        BY <2>2, <2>4
<1>6. ASSUME NEW k \in T
      PROVE  k + 1 \in T
    <2>1. k \in Nat /\ k + 1 \in Nat
        OBVIOUS
    <2>2. ASSUME k + 1 <= n
          PROVE  Ran(c, g[(k + 1) + 1]) /\ Progress(c, g[(k + 1) + 1], (k + 1) + 1)
        <3>1. k <= n /\ k + 1 \in 0..((n + 1) - 1)
            BY <1>1, <2>1, <2>2
        <3>2. Ran(c, g[k + 1]) /\ Progress(c, g[k + 1], k + 1)
            BY <3>1
        <3>3. g[(k + 1) + 1] = Reconcile(g[k + 1]).db
            BY <1>4, <3>1 DEF RunsBy
        <3> HIDE DEF T
        <3> QED
            BY <1>2, <2>1, <2>2, <3>2, <3>3, RunsFurther DEF n
    <2> QED
        BY <2>1, <2>2
<1>7. n \in T
    <2>1. T \subseteq Nat
        OBVIOUS
    <2> HIDE DEF T
    <2> QED
        BY <1>1, <1>5, <1>6, <2>1, NumberInduction
<1>8. Ran(c, g[n + 1]) /\ Progress(c, g[n + 1], n + 1)
    BY <1>1, <1>7
<1>9. ReconcileRuns(d, n + 1) = g[n + 1]
    BY <1>4 DEF RunsBy
<1>10. Settled(g[n + 1])
    BY <1>8, ProgressEnds DEF Ran, n
<1> QED
    BY <1>8, <1>9, <1>10 DEF c, n

\* Reconciliation converges, on any number of invoices.
LEMMA RunsConverge ==
    ASSUME Typed(db)
    PROVE  ReconcileConverges
<1> DEFINE n == Cardinality(Invoices)
           e == ReconcileRuns(db, n + 1)
<1>1. n + 1 \in Nat
    BY IdsAssumption, FS_CardinalityType
<1>2. CASE Reconcile(db).ok
    <2>1. Ran(Started(db), e) /\ Settled(e)
        BY <1>2, RunsSettle
    <2>2. Reconcile(e).db = e
        BY <2>1, SettledStays
    <2> QED
        BY <2>2 DEF ReconcileConverges
<1>3. CASE ~Reconcile(db).ok
    <2>1. ~Reconcile(e).ok
        BY <1>1, <1>3, RunsRefused
    <2> QED
        BY <2>1 DEF ReconcileConverges
<1> QED
    BY <1>2, <1>3

-----------------------------------------------------------------------------
(* What was given in order is what an amount pays                          *)

\* What each invoice of s still owes, of what it owed, after it was given something.
Rests(b, a) == [i \in Invoices |-> Owing(b)[i] - Drops(b, a)[i]]

\* Only invoices that owed something were given anything, and no more than they owed.
GivenToOpen(b, a, s) ==
    /\ b \in Balances /\ a \in Balances /\ s \in SUBSET Invoices
    /\ \A i \in s : a[i] <= b[i] /\ (a[i] # b[i] => b[i] > Tol)

\* What they are left with sums to what was owed less what was given.
LEMMA RestsAre ==
    ASSUME NEW b, NEW a, NEW s, GivenToOpen(b, a, s)
    PROVE  /\ \A i \in s : /\ Rests(b, a)[i] = IF b[i] > Tol THEN a[i] ELSE 0
                           /\ Rests(b, a)[i] \in Nat
           /\ SumFunctionOnSet(Rests(b, a), s) = Owed(b, s) - Drop(b, a, s)
<1>1. /\ b \in Balances /\ a \in Balances /\ s \in SUBSET Invoices
      /\ \A i \in s : a[i] <= b[i] /\ (a[i] # b[i] => b[i] > Tol)
    BY DEF GivenToOpen
<1>2. IsFiniteSet(s) /\ \A i \in Invoices : Owing(b)[i] \in Nat /\ Drops(b, a)[i] \in Int
    BY <1>1, OwingTyped
<1>3. ASSUME NEW i \in s
      PROVE  /\ Rests(b, a)[i] = (IF b[i] > Tol THEN a[i] ELSE 0) /\ Rests(b, a)[i] \in Nat
             /\ Rests(b, a)[i] = Owing(b)[i] - Drops(b, a)[i]
    <2>1. i \in Invoices /\ a[i] \in Nat /\ b[i] \in Nat
        BY <1>1 DEF Balances
    <2>2. Owing(b)[i] = (IF b[i] > Tol THEN b[i] ELSE 0) /\ Drops(b, a)[i] = b[i] - a[i]
        BY <2>1 DEF Owing, Drops
    <2>3. Rests(b, a)[i] = Owing(b)[i] - Drops(b, a)[i]
        BY <2>1 DEF Rests
    <2> QED
        BY <1>1, <2>1, <2>2, <2>3
<1>4. SumFunctionOnSet(Rests(b, a), s) = Owed(b, s) - Drop(b, a, s)
    <2> DEFINE f == Owing(b)  g == Drops(b, a)  h == Rests(b, a)
    <2>1. \A i \in s : h[i] \in Int /\ g[i] \in Int /\ f[i] = h[i] + g[i]
        BY <1>1, <1>2, <1>3
    <2>2. Owed(b, s) \in Int /\ Drop(b, a, s) \in Int
        BY <1>1, OwingTyped
    <2>3. Owed(b, s) = SumFunctionOnSet(f, s) /\ Drop(b, a, s) = SumFunctionOnSet(g, s)
        BY DEF Owed, Drop
    <2> HIDE DEF f, g, h
    <2>4. SumFunctionOnSet(f, s) = SumFunctionOnSet(h, s) + SumFunctionOnSet(g, s)
        BY <1>2, <2>1, SumAdd
    <2>5. SumFunctionOnSet(h, s) \in Int
        BY <1>2, <2>1, SumInt
    <2> QED
        BY <2>2, <2>3, <2>4, <2>5 DEF h
<1> QED
    BY <1>3, <1>4

\* Where all that owed owe nothing more, they were given all they owed.
LEMMA GivenAll ==
    ASSUME NEW b, NEW a, NEW s, GivenToOpen(b, a, s), \A i \in s : b[i] > Tol => a[i] = 0
    PROVE  Drop(b, a, s) = Owed(b, s)
<1>1. b \in Balances /\ a \in Balances /\ s \in SUBSET Invoices
    BY DEF GivenToOpen
<1>2. IsFiniteSet(s) /\ Owed(b, s) \in Nat /\ Drop(b, a, s) \in Int
    BY <1>1, OwingTyped
<1>3. \A i \in s : Rests(b, a)[i] = 0
    BY RestsAre
<1>4. SumFunctionOnSet(Rests(b, a), s) = 0
    BY <1>2, <1>3, SumZero
<1> QED
    BY <1>2, <1>4, RestsAre

\* Where at most one owes a remainder within the tolerance, they still owe what they were
\* not given, up to the tolerance; and never less than one of them does.
LEMMA GivenSome ==
    ASSUME NEW b, NEW a, NEW s, GivenToOpen(b, a, s), NEW j,
           \A i \in s \ {j} : b[i] > Tol => a[i] = 0 \/ a[i] > Tol
    PROVE  /\ Owed(b, s) - Drop(b, a, s) - Tol <= Owed(a, s)
           /\ Owed(a, s) <= Owed(b, s) - Drop(b, a, s)
           /\ \A k \in s : b[k] > Tol => a[k] <= Owed(b, s) - Drop(b, a, s)
<1> DEFINE f == Owing(a)  h == Rests(b, a)
<1>1. /\ b \in Balances /\ a \in Balances /\ s \in SUBSET Invoices
      /\ \A i \in s : a[i] <= b[i] /\ (a[i] # b[i] => b[i] > Tol)
    BY DEF GivenToOpen
<1>2. IsFiniteSet(s) /\ Owed(b, s) \in Nat /\ Drop(b, a, s) \in Int /\ Owed(a, s) \in Nat
      /\ Tol \in Nat
    BY <1>1, OwingTyped, AmountsAssumption
<1>3. \A i \in s : h[i] = (IF b[i] > Tol THEN a[i] ELSE 0) /\ h[i] \in Nat
    BY RestsAre
<1>4. SumFunctionOnSet(h, s) = Owed(b, s) - Drop(b, a, s)
    BY RestsAre
<1>5. \A i \in s : f[i] = IF a[i] > Tol THEN a[i] ELSE 0
    BY <1>1 DEF Owing
<1>6. \A i \in s : a[i] \in Nat /\ b[i] \in Nat
    BY <1>1 DEF Balances
<1>7. Owed(a, s) = SumFunctionOnSet(f, s)
    BY DEF Owed
<1> HIDE DEF f, h
<1>8. \A i \in s : f[i] \in Nat /\ h[i] - Tol <= f[i] /\ f[i] <= h[i]
    BY <1>1, <1>2, <1>3, <1>5, <1>6
<1>9. \A i \in s \ {j} : f[i] = h[i]
    BY <1>1, <1>2, <1>3, <1>5, <1>6
<1>10. SumFunctionOnSet(h, s) - Tol <= SumFunctionOnSet(f, s)
       /\ SumFunctionOnSet(f, s) <= SumFunctionOnSet(h, s)
    <2>1. CASE j \in s
        <3> DEFINE t == s \ {j}
        <3>1. IsFiniteSet(t)
            BY <1>2, FS_RemoveElement, <2>1
        <3>2. \A i \in t : h[i] \in Int /\ f[i] = h[i]
            BY <1>3, <1>9
        <3>3. \A i \in s : h[i] \in Int /\ f[i] \in Int
            BY <1>3, <1>8
        <3>4. SumFunctionOnSet(h, s) = h[j] + SumFunctionOnSet(h, t)
            BY <1>2, <2>1, <3>3, SumStep
        <3>5. SumFunctionOnSet(f, s) = f[j] + SumFunctionOnSet(f, t)
            BY <1>2, <2>1, <3>3, SumStep
        <3> HIDE DEF t
        <3>6. SumFunctionOnSet(f, t) = SumFunctionOnSet(h, t)
            BY <3>1, <3>2, SumCongruent
        <3>7. SumFunctionOnSet(h, t) \in Int
            BY <3>1, <3>2, SumInt
        <3>8. h[j] - Tol <= f[j] /\ f[j] <= h[j] /\ f[j] \in Nat /\ h[j] \in Nat
            BY <1>3, <1>8, <2>1
        <3> QED
            BY <1>2, <3>4, <3>5, <3>6, <3>7, <3>8
    <2>2. CASE j \notin s
        <3>1. \A i \in s : h[i] \in Int /\ f[i] = h[i]
            BY <1>3, <1>9, <2>2
        <3>2. SumFunctionOnSet(f, s) = SumFunctionOnSet(h, s)
            BY <1>2, <3>1, SumCongruent
        <3>3. SumFunctionOnSet(h, s) \in Int
            BY <1>2, <3>1, SumInt
        <3> QED
            BY <1>2, <3>2, <3>3
    <2> QED
        BY <2>1, <2>2
<1>11. ASSUME NEW k \in s, b[k] > Tol
       PROVE  a[k] <= SumFunctionOnSet(h, s)
    <2>1. \A i \in s : h[i] \in Nat
        BY <1>3
    <2>2. h[k] <= SumFunctionOnSet(h, s)
        BY <1>2, <2>1, SumElement
    <2> QED
        BY <1>3, <1>11, <2>2
<1> QED
    BY <1>4, <1>7, <1>10, <1>11

\* Invoices given credit in order are paid as by one amount, all that was given.
LEMMA PaysItsAmount ==
    ASSUME NEW b, NEW a, NEW L \in SUBSET Invoices, NEW key, \A i \in L : key[i] \in Nat,
           PaysInOrder(b, a, L, key), Drop(b, a, L) \in Nat
    PROVE  Taken(b, a, Drop(b, a, L), L, 0, key)
<1> DEFINE X == Drop(b, a, L)
<1>1. /\ b \in Balances /\ a \in Balances
      /\ \A i \in Invoices : a[i] <= b[i]
      /\ \A i \in Invoices \ L : a[i] = b[i]
      /\ \A i \in L : a[i] # b[i] =>
           b[i] > Tol /\ \A j \in L : Before(j, i, key) /\ b[j] > Tol => a[j] = 0
    BY DEF PaysInOrder
<1>2. Tol \in Nat /\ \A i \in L : i \in Nat /\ i \in Invoices /\ b[i] \in Nat /\ a[i] \in Nat
    BY <1>1, IdsAssumption, AmountsAssumption DEF Balances
<1>3. \A i, j \in L : i = j \/ Before(i, j, key) \/ Before(j, i, key)
    BY <1>2 DEF Before
<1>4. ASSUME NEW s \in SUBSET L, Prefix(s, L, key)
      PROVE  Takes(b, a, X, s, 0)
    <2>1. GivenToOpen(b, a, s)
        BY <1>1 DEF GivenToOpen
    <2>2. Owed(b, s) \in Nat /\ Drop(b, a, s) \in Int /\ Owed(a, s) \in Nat /\ X \in Nat
        BY <1>1, OwingTyped
    <2>3. CASE \A i \in s : b[i] > Tol => a[i] = 0
        <3>1. Drop(b, a, s) = Owed(b, s)
            BY <2>1, <2>3, GivenAll
        <3>2. Drop(b, a, s) <= X
            <4> DEFINE f == Drops(b, a)
            <4>1. IsFiniteSet(L)
                BY IdsAssumption, FS_Subset
            <4>2. \A i \in L : f[i] \in Nat
                BY <1>1, <1>2 DEF Drops
            <4>3. Drop(b, a, s) = SumFunctionOnSet(f, s) /\ X = SumFunctionOnSet(f, L)
                BY DEF Drop
            <4> HIDE DEF f, X
            <4> QED
                BY <4>1, <4>2, <4>3, SumSubset
        <3> HIDE DEF X
        <3> QED
            BY <2>2, <2>3, <3>1, <3>2 DEF Takes
    <2>4. CASE \E k \in s : b[k] > Tol /\ a[k] # 0
        <3>1. PICK k \in s : b[k] > Tol /\ a[k] # 0
            BY <2>4
        <3>2. \A i \in L \ s : a[i] = b[i]
            <4>1. ASSUME NEW i \in L \ s
                  PROVE  a[i] = b[i]
                <5>1. Before(k, i, key)
                    BY <1>3, <1>4, <3>1 DEF Prefix
                <5> QED
                    BY <1>1, <3>1, <5>1
            <4> QED
                BY <4>1
        <3>3. Drop(b, a, s) = X
            <4> DEFINE f == Drops(b, a)
            <4>1. IsFiniteSet(L)
                BY IdsAssumption, FS_Subset
            <4>2. \A i \in L : f[i] \in Int
                BY <1>1, <1>2 DEF Drops
            <4>3. \A i \in L \ s : f[i] = 0
                BY <1>2, <3>2 DEF Drops
            <4>4. Drop(b, a, s) = SumFunctionOnSet(f, s) /\ X = SumFunctionOnSet(f, L)
                BY DEF Drop
            <4>5. \A i \in s : f[i] \in Int
                BY <4>2
            <4> HIDE DEF f, X
            <4> QED
                BY <4>1, <4>3, <4>4, <4>5, SumRestrict
        <3>4. \E j : \A i \in s \ {j} : b[i] > Tol => a[i] = 0 \/ a[i] > Tol
            <4>1. CASE \A i \in s : b[i] > Tol => a[i] = 0 \/ a[i] > Tol
                BY <4>1
            <4>2. CASE \E j \in s : b[j] > Tol /\ a[j] # 0 /\ ~(a[j] > Tol)
                <5>1. PICK j \in s : b[j] > Tol /\ a[j] # 0 /\ ~(a[j] > Tol)
                    BY <4>2
                <5>2. ASSUME NEW i \in s \ {j}, b[i] > Tol, a[i] # 0
                      PROVE  a[i] > Tol
                    <6>1. i \in L /\ j \in L /\ a[j] # b[j]
                        BY <1>2, <5>1
                    <6>2. Before(j, i, key)
                        BY <1>1, <1>3, <5>2, <6>1
                    <6>3. a[i] = b[i]
                        BY <1>1, <5>1, <6>1, <6>2
                    <6> QED
                        BY <5>2, <6>3
                <5> QED
                    BY <5>2
            <4> QED
                BY <4>1, <4>2
        <3>5. /\ Owed(b, s) - Drop(b, a, s) - Tol <= Owed(a, s)
              /\ Owed(a, s) <= Owed(b, s) - Drop(b, a, s)
              /\ a[k] <= Owed(b, s) - Drop(b, a, s)
            BY <2>1, <3>1, <3>4, GivenSome
        <3>6. a[k] \in Nat /\ a[k] # 0
            BY <1>2, <3>1
        <3> HIDE DEF X
        <3>7. Owed(b, s) > X
            BY <2>2, <3>3, <3>5, <3>6
        <3> QED
            BY <1>2, <2>2, <3>3, <3>5, <3>7 DEF Takes
    <2> QED
        BY <2>3, <2>4
<1>5. \A i \in L : a[i] # b[i] =>
         b[i] > Tol /\ \A j \in L : Before(j, i, key) /\ b[j] > Tol => a[j] = 0
    BY <1>1
<1> HIDE DEF X
<1> QED
    BY <1>1, <1>4, <1>5 DEF Taken, X

-----------------------------------------------------------------------------
(* The credit of the reference                                             *)

\* What a run of the reference over the invoices has reached.
CreditRuns == [credit : Nat, balance : [Invoices -> Nat]]

\* The balances w are what the rows leave each live invoice to pay, as the reference
\* reads them.
IsOwed(d, w) ==
    w \in Balances /\ \A i \in LiveInvoices(d) : w[i] = LedgerBalance(d.total[i], TotalPaid(d, i))

\* What the invoices of s are left with, and all others still have to pay.
LeftBy(w, p, s) == [i \in Invoices |-> IF i \in s THEN p.balance[i] ELSE w[i]]

\* These are balances.
LEMMA LeftByTyped ==
    ASSUME NEW w \in Balances, NEW p \in CreditRuns, NEW s
    PROVE  LeftBy(w, p, s) \in Balances /\ p.credit \in Nat
<1>1. \A i \in Invoices : p.balance[i] \in Nat /\ w[i] \in Nat
    BY DEF CreditRuns, Balances
<1>2. \A i \in Invoices : LeftBy(w, p, s)[i] \in Nat
    BY <1>1 DEF LeftBy
<1>3. p.credit \in Nat
    BY DEF CreditRuns
<1> QED
    BY <1>2, <1>3 DEF LeftBy, Balances

\* One invoice takes what the credit covers of it, unless the credit is used up.
LEMMA SimulatedPaymentFields ==
    ASSUME NEW d, Typed(d), NEW w, IsOwed(d, w), NEW p \in CreditRuns, NEW i \in LiveInvoices(d)
    PROVE  LET e == SimulatedPayment(d, i, p)
               x == Taking(p.credit, w[i], Tol)
           IN /\ e \in CreditRuns /\ x \in Nat /\ e.credit = p.credit - x
              /\ e.balance[i] = w[i] - x
              /\ \A j \in Invoices \ {i} : e.balance[j] = p.balance[j]
<1> DEFINE o == w[i]
           x == Taking(p.credit, o, Tol)
           e == SimulatedPayment(d, i, p)
<1>0. i \in Invoices
    BY LiveInvoicesFinite DEF Typed
<1>1. o \in Nat /\ p.credit \in Nat /\ Tol \in Nat
    BY <1>0, LeftByTyped, AmountsAssumption DEF IsOwed, Balances
<1>2. o = LedgerBalance(d.total[i], TotalPaid(d, i))
    BY DEF IsOwed
<1> HIDE DEF o
<1>3. x \in Nat /\ o - x \in Nat /\ p.credit - x \in Nat
    BY <1>1 DEF Taking, Least
<1>4. p \in [credit : Nat, balance : [Invoices -> Nat]]
    BY DEF CreditRuns
<1>5. e = [p EXCEPT !.balance[i] = o - x, !.credit = @ - x]
    <2>1. CASE p.credit <= Tol \/ o <= Tol \/ Least(o, p.credit) <= Tol
        <3>1. x = 0
            BY <1>1, <2>1 DEF Taking, Least
        <3>2. e = [p EXCEPT !.balance[i] = o]
            BY <1>2, <2>1 DEF SimulatedPayment
        <3>3. o - x = o /\ p.credit - x = p.credit
            BY <1>1, <3>1
        <3> HIDE DEF e, x
        <3>4. [p EXCEPT !.balance[i] = o - x, !.credit = @ - x] = [p EXCEPT !.balance[i] = o, !.credit = @]
            BY <3>3, <1>4
        <3> QED
            BY <1>4, <3>2, <3>4
    <2>2. CASE ~(p.credit <= Tol \/ o <= Tol \/ Least(o, p.credit) <= Tol)
        <3>1. x = Least(o, p.credit)
            BY <1>1, <2>2 DEF Taking, Least
        <3>2. e = [p EXCEPT !.balance[i] = o - Least(o, p.credit), !.credit = @ - Least(o, p.credit)]
            BY <1>2, <2>2 DEF SimulatedPayment
        <3> HIDE DEF e, x
        <3> QED
            BY <3>1, <3>2
    <2> QED
        BY <2>1, <2>2
<1> HIDE DEF e, x
<1>6. /\ e.credit = p.credit - x /\ e.balance = [p.balance EXCEPT ![i] = o - x]
      /\ e \in CreditRuns
    BY <1>0, <1>3, <1>4, <1>5 DEF CreditRuns
<1>7. e.balance[i] = o - x /\ \A j \in Invoices \ {i} : e.balance[j] = p.balance[j]
    BY <1>0, <1>4, <1>6
<1> QED
    BY <1>3, <1>6, <1>7 DEF e, x, o

CreditRunTable(d, start, g) ==
    g = [s \in SUBSET LiveInvoices(d) |->
           IF s = {} THEN start
           ELSE SimulatedPayment(d, Latest(s, d.date), g[s \ {Latest(s, d.date)}])]

\* The loop over the invoices as a table.
LEMMA CreditRunIsFold ==
    ASSUME NEW d, NEW C
    PROVE  SimulatedCreditRun(d, C) =
             (CHOOSE g : CreditRunTable(d, [credit |-> C, balance |-> [i \in Invoices |-> 0]], g))
                [LiveInvoices(d)].balance
BY DEF SimulatedCreditRun, FoldInOrder, MapThenFoldSet, CreditRunTable

\* The credit over the invoices one by one.
CreditRunBy(d, C, g) ==
    /\ g[{}] = [credit |-> C, balance |-> [i \in Invoices |-> 0]]
    /\ \A s \in SUBSET LiveInvoices(d) : s # {} =>
         \E i \in s : i = Latest(s, d.date) /\ g[s] = SimulatedPayment(d, i, g[s \ {i}])
    /\ SimulatedCreditRun(d, C) = g[LiveInvoices(d)].balance

\* The run of the reference is such a table, one invoice more at each entry.
LEMMA CreditRunSteps ==
    ASSUME NEW d, Typed(d), NEW w, IsOwed(d, w), NEW C \in Nat
    PROVE  \E g \in [SUBSET LiveInvoices(d) -> CreditRuns] : CreditRunBy(d, C, g)
<1> DEFINE S     == LiveInvoices(d)
           P     == CreditRuns
           start == [credit |-> C, balance |-> [i \in Invoices |-> 0]]
           last  == [s \in SUBSET S |-> Latest(s, d.date)]
           F     == [s \in SUBSET S |-> [q \in P |-> SimulatedPayment(d, last[s], q)]]
           G     == CHOOSE g : CreditRunTable(d, start, g)
<1>1. IsFiniteSet(S) /\ S \subseteq Invoices
    BY LiveInvoicesFinite DEF Typed
<1>2. \A s \in SUBSET S : s # {} => last[s] \in s
    BY InvoiceOrder
<1>3. start \in P
    BY DEF CreditRuns
<1>4. \A s \in SUBSET S, q \in P : s # {} => F[s][q] \in P
    <2>1. ASSUME NEW s \in SUBSET S, NEW q \in P, s # {}
          PROVE  F[s][q] \in P
        <3>1. F[s][q] = SimulatedPayment(d, last[s], q) /\ last[s] \in LiveInvoices(d)
            BY <1>2, <2>1
        <3> QED
            BY <3>1, SimulatedPaymentFields
    <2> QED
        BY <2>1
<1>5. PICK h \in [SUBSET S -> P] : Folds(h, S, start, F, last)
    <2> HIDE DEF S, P, start, last, F
    <2> QED
        BY <1>1, <1>2, <1>3, <1>4, SetRecursion
<1>6. CreditRunTable(d, start, h)
    <2>1. \A s \in SUBSET S : h[s] =
             IF s = {} THEN start ELSE SimulatedPayment(d, last[s], h[s \ {last[s]}])
        BY <1>2, <1>5 DEF Folds
    <2> QED
        BY <2>1 DEF CreditRunTable
<1>7. CreditRunTable(d, start, G)
    BY <1>6
<1>8. FoldsWithin(G, S, P, start, F, last)
    <2>1. G[{}] = start
        BY <1>7 DEF CreditRunTable
    <2>2. ASSUME NEW s \in SUBSET S, s # {}, G[s \ {last[s]}] \in P
          PROVE  G[s] = F[s][G[s \ {last[s]}]]
        <3>1. G[s] = SimulatedPayment(d, last[s], G[s \ {last[s]}])
            BY <1>7, <2>2 DEF CreditRunTable
        <3> QED
            BY <2>2, <3>1
    <2> HIDE DEF S, P, start, last, F, G
    <2> QED
        BY <2>1, <2>2 DEF FoldsWithin
<1>9. \A s \in SUBSET S : G[s] \in P
    <2> HIDE DEF S, P, start, last, F, G
    <2> QED
        BY <1>1, <1>2, <1>3, <1>4, <1>8, FoldStays
<1>10. G \in [SUBSET S -> P]
    BY <1>7, <1>9 DEF CreditRunTable
<1>11. G[{}] = start
    BY <1>7 DEF CreditRunTable
<1>12. ASSUME NEW s \in SUBSET S, s # {}
       PROVE  \E i \in s : i = Latest(s, d.date) /\ G[s] = SimulatedPayment(d, i, G[s \ {i}])
    <2>1. last[s] = Latest(s, d.date) /\ G[s] = SimulatedPayment(d, last[s], G[s \ {last[s]}])
        BY <1>7, <1>12 DEF CreditRunTable
    <2> QED
        BY <1>2, <1>12, <2>1
<1>13. SimulatedCreditRun(d, C) = G[S].balance
    BY CreditRunIsFold
<1> HIDE DEF G
<1> QED
    BY <1>10, <1>11, <1>12, <1>13 DEF CreditRunBy

\* Where the credit stands once it came to the invoices of s.
CreditSoFar(d, w, C, p, s) ==
    /\ p \in CreditRuns
    /\ Taken(w, LeftBy(w, p, s), C, s, Tol, d.date)
    /\ p.credit = C - Drop(w, LeftBy(w, p, s), s)

\* One more invoice of the loop.
LEMMA CreditOne ==
    ASSUME NEW d, Typed(d), NEW w, IsOwed(d, w), NEW C \in Nat, NEW p, NEW s \in SUBSET LiveInvoices(d), s # {},
           NEW i \in s, i = Latest(s, d.date), CreditSoFar(d, w, C, p, s \ {i})
    PROVE  CreditSoFar(d, w, C, SimulatedPayment(d, i, p), s)
<1> DEFINE e == SimulatedPayment(d, i, p)
           a == LeftBy(w, p, s \ {i})
           c == LeftBy(w, e, s)
           x == Taking(p.credit, w[i], Tol)
           key == d.date
<1>1. s \in SUBSET Invoices /\ i \in Invoices /\ Tol \in {0, Tol}
    BY LiveInvoicesFinite DEF Typed
<1>2. p \in CreditRuns /\ Taken(w, a, C, s \ {i}, Tol, key) /\ p.credit = C - Drop(w, a, s \ {i})
    BY DEF CreditSoFar
<1>3. /\ e \in CreditRuns /\ x \in Nat /\ e.credit = p.credit - x /\ e.balance[i] = w[i] - x
      /\ \A j \in Invoices \ {i} : e.balance[j] = p.balance[j]
    <2>1. p \in CreditRuns /\ i \in LiveInvoices(d)
        BY <1>2
    <2> HIDE <1>1, <1>2
    <2> QED
        BY <2>1, SimulatedPaymentFields
<1>4. ~Before(i, i, key) /\ \A j \in s \ {i} : Before(j, i, key) /\ ~Before(i, j, key)
    BY LoopOrder
<1>5. w \in Balances /\ c \in Balances /\ a \in Balances /\ p.credit \in Nat
    BY <1>2, <1>3, LeftByTyped DEF IsOwed
<1>6. a[i] = w[i] /\ c[i] = w[i] - x
    BY <1>1, <1>3 DEF LeftBy
<1>7. \A j \in Invoices \ {i} : c[j] = a[j]
    BY <1>1, <1>3 DEF LeftBy
<1>8. x = Taking(C - Drop(w, a, s \ {i}), w[i], Tol)
    BY <1>2
<1> HIDE DEF e, x, a, c, key
<1>9. Taken(w, c, C, s, Tol, key) /\ Drop(w, c, s) = Drop(w, a, s \ {i}) + x
    <2>1. ComesTo(w, a, c, C, Tol, key, s, i, x)
        BY <1>1, <1>2, <1>4, <1>5, <1>6, <1>7, <1>8 DEF ComesTo
    <2> QED
        BY <2>1, TakeNext
<1>10. e.credit = C - Drop(w, c, s)
    <2>1. Drop(w, a, s \ {i}) \in Int
        BY <1>1, <1>5, OwingTyped
    <2> QED
        BY <1>2, <1>3, <1>5, <1>9, <2>1
<1>11. CreditSoFar(d, w, C, e, s)
    BY <1>3, <1>9, <1>10 DEF CreditSoFar, c, key
<1> QED
    BY <1>11 DEF e

\* The reference spends the credit over the live invoices in order.
LEMMA CreditRunTakes ==
    ASSUME NEW d, Typed(d), NEW w, IsOwed(d, w), NEW C \in Nat
    PROVE  \E a : /\ Taken(w, a, C, LiveInvoices(d), Tol, d.date)
                  /\ \A i \in LiveInvoices(d) : SimulatedCreditRun(d, C)[i] = a[i]
<1> DEFINE S == LiveInvoices(d)
<1>0. PICK g \in [SUBSET S -> CreditRuns] : CreditRunBy(d, C, g)
    BY CreditRunSteps
<1>1. /\ g[{}] = [credit |-> C, balance |-> [i \in Invoices |-> 0]]
      /\ \A s \in SUBSET S : s # {} =>
           \E i \in s : i = Latest(s, d.date) /\ g[s] = SimulatedPayment(d, i, g[s \ {i}])
      /\ SimulatedCreditRun(d, C) = g[S].balance
    BY <1>0 DEF CreditRunBy
<1>2. IsFiniteSet(S) /\ S \subseteq Invoices
    BY LiveInvoicesFinite DEF Typed
<1>3. \A s \in SUBSET S : s \in SUBSET LiveInvoices(d)
    OBVIOUS
<1> HIDE DEF S
<1> DEFINE T == {s \in SUBSET S : CreditSoFar(d, w, C, g[s], s)}
<1>4. {} \in T
    <2> DEFINE q == g[{}]
    <2>1. q \in CreditRuns /\ q.credit = C
        BY <1>1 DEF CreditRuns
    <2>2. LeftBy(w, q, {}) = w /\ w \in Balances
        BY <2>1 DEF LeftBy, IsOwed, Balances
    <2> HIDE DEF q
    <2>3. Taken(w, w, C, {}, Tol, d.date) /\ Drop(w, w, {}) = 0
        BY <2>2, TakenNone, AmountsAssumption
    <2>4. CreditSoFar(d, w, C, q, {})
        BY <2>1, <2>2, <2>3 DEF CreditSoFar
    <2> QED
        BY <2>4 DEF q
<1>5. ASSUME NEW s \in SUBSET S, s # {}, \A x \in s : s \ {x} \in T
      PROVE  s \in T
    <2>1. PICK i \in s : i = Latest(s, d.date) /\ g[s] = SimulatedPayment(d, i, g[s \ {i}])
        BY <1>1, <1>5
    <2>2. CreditSoFar(d, w, C, g[s \ {i}], s \ {i})
        BY <1>5
    <2>3. CreditSoFar(d, w, C, SimulatedPayment(d, i, g[s \ {i}]), s)
        BY <1>3, <1>5, <2>1, <2>2, CreditOne
    <2> QED
        BY <2>1, <2>3
<1>6. T \subseteq SUBSET S
    OBVIOUS
<1> HIDE DEF T
<1>7. T = SUBSET S
    <2>1. IsFiniteSet(S)
        BY <1>2
    <2>2. \A s \in SUBSET S : s # {} /\ (\A x \in s : s \ {x} \in T) => s \in T
        BY <1>5
    <2> QED
        BY <1>4, <1>6, <2>1, <2>2, SubsetInduction
<1>8. CreditSoFar(d, w, C, g[S], S)
    BY <1>7 DEF T
<1> DEFINE a == LeftBy(w, g[S], S)
<1>9. Taken(w, a, C, S, Tol, d.date)
    BY <1>8 DEF CreditSoFar
<1>10. \A i \in S : SimulatedCreditRun(d, C)[i] = a[i]
    BY <1>1, <1>2 DEF LeftBy
<1> HIDE DEF a
<1> QED
    BY <1>9, <1>10 DEF S

-----------------------------------------------------------------------------
(* Reconciliations against the reference                                   *)

\* What the services leave of the balances b, having given X, and what the reference
\* leaves, spending C: they give as much, up to a few times the tolerance.
Compared(b, a, o, X, C, L, key) ==
    /\ L \in SUBSET Invoices /\ \A i \in L : key[i] \in Nat
    /\ Taken(b, a, X, L, 0, key) /\ Taken(Owing(b), o, C, L, Tol, key)
    /\ X - C <= 2 * Tol /\ (Owed(b, L) <= X + 3 * Tol \/ C <= X + 3 * Tol)

\* What is owed of what is owed.
LEMMA OwingTwice ==
    ASSUME NEW b \in Balances
    PROVE  /\ Owing(b) \in Balances /\ Owing(Owing(b)) = Owing(b)
           /\ \A s : Owed(Owing(b), s) = Owed(b, s)
<1>1. Tol \in Nat /\ \A i \in Invoices : b[i] \in Nat
    BY AmountsAssumption DEF Balances
<1>2. \A i \in Invoices : Owing(b)[i] = (IF b[i] > Tol THEN b[i] ELSE 0)
    BY DEF Owing
<1>3. Owing(b) \in Balances
    BY <1>1 DEF Owing, Balances
<1>4. \A i \in Invoices : (IF Owing(b)[i] > Tol THEN Owing(b)[i] ELSE 0) = Owing(b)[i]
    BY <1>1, <1>2
<1>5. Owing(Owing(b)) = [i \in Invoices |-> Owing(b)[i]]
    <2> DEFINE o == Owing(b)
    <2>1. \A i \in Invoices : (IF o[i] > Tol THEN o[i] ELSE 0) = o[i]
        BY <1>4
    <2>2. Owing(o) = [i \in Invoices |-> IF o[i] > Tol THEN o[i] ELSE 0]
        BY DEF Owing
    <2> HIDE DEF o
    <2>3. Owing(o) = [i \in Invoices |-> o[i]]
        BY <2>1, <2>2
    <2> QED
        BY <2>3 DEF o
<1>6. Owing(b) = [i \in Invoices |-> Owing(b)[i]]
    BY DEF Owing
<1> QED
    BY <1>3, <1>5, <1>6 DEF Owed

\* On each invoice they leave as much, up to three times the tolerance.
LEMMA LeftApart ==
    ASSUME NEW b, NEW a, NEW o, NEW X, NEW C, NEW L, NEW key, Compared(b, a, o, X, C, L, key),
           NEW i \in L
    PROVE  a[i] - o[i] <= 3 * Tol /\ o[i] - a[i] <= 3 * Tol
<1> DEFINE t == {j \in L : Before(j, i, key)}
           s == t \union {i}
           w == Owing(b)
<1>0. /\ L \in SUBSET Invoices /\ \A j \in L : key[j] \in Nat
      /\ Taken(b, a, X, L, 0, key) /\ Taken(w, o, C, L, Tol, key)
      /\ X - C <= 2 * Tol /\ (Owed(b, L) <= X + 3 * Tol \/ C <= X + 3 * Tol)
    BY DEF Compared
<1>1. \A j \in L : j \in Nat /\ j \in Invoices
    BY <1>0, IdsAssumption
<1>2. /\ \A j, k, n \in L : Before(j, k, key) /\ Before(k, n, key) => Before(j, n, key)
      /\ ~Before(i, i, key)
    BY <1>0, <1>1 DEF Before
<1>3. Prefix(s, L, key) /\ Prefix(t, L, key)
    BY <1>2 DEF Prefix
<1>4. s \in SUBSET L /\ t \in SUBSET L /\ s \in SUBSET Invoices /\ t = s \ {i} /\ i \in s
    BY <1>0, <1>2
<1> HIDE DEF s, t
<1>5. Spends(b, a, X, s, 0) /\ Spends(b, a, X, t, 0)
    BY <1>0, <1>3, TakenOwes
<1>6. Spends(w, o, C, s, Tol) /\ Spends(w, o, C, t, Tol)
    BY <1>0, <1>3, TakenOwes
<1>7. /\ b \in Balances /\ a \in Balances /\ o \in Balances /\ X \in Nat /\ C \in Nat
      /\ \A j \in L : a[j] # b[j] => b[j] > Tol
      /\ \A j \in L : o[j] # w[j] => w[j] > Tol
    BY <1>0 DEF Taken
<1>8. w \in Balances /\ Owed(w, s) = Owed(b, s) /\ Owed(w, t) = Owed(b, t)
    BY <1>7, OwingTwice
<1>9. Tol \in Nat /\ a[i] \in Nat /\ b[i] \in Nat /\ o[i] \in Nat /\ w[i] \in Nat
    BY <1>1, <1>7, <1>8, AmountsAssumption DEF Balances
<1>10. w[i] = IF b[i] > Tol THEN b[i] ELSE 0
    BY <1>1 DEF Owing
<1>11. Owed(b, s) <= Owed(b, L) /\ Owed(b, L) \in Nat
    <2>1. IsFiniteSet(L) /\ \A j \in L : w[j] \in Nat
        BY <1>0, <1>1, <1>8, IdsAssumption, FS_Subset DEF Balances
    <2>2. Owed(b, s) = SumFunctionOnSet(w, s) /\ Owed(b, L) = SumFunctionOnSet(w, L)
        BY DEF Owed
    <2>3. Owed(b, L) \in Nat
        BY <1>0, <1>7, OwingTyped
    <2> HIDE DEF w
    <2> QED
        BY <1>4, <2>1, <2>2, <2>3, SumSubset
<1>12. /\ Owed(b, s) = w[i] + Owed(b, t)
       /\ Drop(b, a, s) = (b[i] - a[i]) + Drop(b, a, t)
    <2>1. /\ Owed(b, s) = Owing(b)[i] + Owed(b, s \ {i})
          /\ Drop(b, a, s) = (b[i] - a[i]) + Drop(b, a, s \ {i})
        BY <1>4, <1>7, OwedStep
    <2> QED
        BY <1>4, <2>1
<1>13. Drop(w, o, s) = (w[i] - o[i]) + Drop(w, o, t)
    <2> HIDE DEF w
    <2>1. /\ Owed(w, s) = Owing(w)[i] + Owed(w, s \ {i})
          /\ Drop(w, o, s) = (w[i] - o[i]) + Drop(w, o, s \ {i})
        BY <1>4, <1>7, <1>8, OwedStep
    <2> QED
        BY <1>4, <2>1
<1> DEFINE os == Owed(b, s)  ot == Owed(b, t)  oL == Owed(b, L)
           xs == Drop(b, a, s)  xt == Drop(b, a, t)  ys == Drop(w, o, s)  yt == Drop(w, o, t)
           bi == b[i]  ai == a[i]  wi == w[i]  oi == o[i]
<1>14. /\ os \in Nat /\ ot \in Nat /\ oL \in Nat /\ xs \in Int /\ xt \in Int /\ ys \in Int /\ yt \in Int
       /\ bi \in Nat /\ ai \in Nat /\ wi \in Nat /\ oi \in Nat /\ X \in Nat /\ C \in Nat /\ Tol \in Nat
       /\ os <= X => xs = os
       /\ os > X => xs = X
       /\ ot <= X => xt = ot
       /\ ot > X => xt = X
       /\ os <= C => ys = os
       /\ os > C => C - Tol <= ys /\ ys <= C
       /\ ot <= C => yt = ot
       /\ ot > C => C - Tol <= yt /\ yt <= C
       /\ os = wi + ot /\ xs = (bi - ai) + xt /\ ys = (wi - oi) + yt
       /\ os <= oL
       /\ X - C <= 2 * Tol /\ (oL <= X + 3 * Tol \/ C <= X + 3 * Tol)
       /\ wi = IF bi > Tol THEN bi ELSE 0
       /\ bi <= Tol => ai = bi /\ oi = wi
    <2>1. /\ os \in Nat /\ xs \in Int /\ (os <= X => xs = os)
          /\ os > X => X - 0 <= xs /\ xs <= X
        BY <1>5 DEF Spends
    <2>2. /\ ot \in Nat /\ xt \in Int /\ (ot <= X => xt = ot)
          /\ ot > X => X - 0 <= xt /\ xt <= X
        BY <1>5 DEF Spends
    <2>3. /\ ys \in Int /\ (os <= C => ys = os) /\ (os > C => C - Tol <= ys /\ ys <= C)
        BY <1>6, <1>8 DEF Spends
    <2>4. /\ yt \in Int /\ (ot <= C => yt = ot) /\ (ot > C => C - Tol <= yt /\ yt <= C)
        BY <1>6, <1>8 DEF Spends
    <2>5. bi <= Tol => ai = bi /\ oi = wi
        <3>1. i \in L
            OBVIOUS
        <3>2. ai # bi => bi > Tol
            BY <1>7, <3>1
        <3>3. oi # wi => wi > Tol
            BY <1>7, <3>1
        <3> QED
            BY <1>9, <1>10, <3>2, <3>3
    <2> HIDE DEF os, ot, oL, xs, xt, ys, yt, bi, ai, wi, oi, w
    <2>6. (os > X => xs = X) /\ (ot > X => xt = X)
        BY <1>7, <2>1, <2>2
    <2>7. /\ oL \in Nat /\ bi \in Nat /\ ai \in Nat /\ wi \in Nat /\ oi \in Nat /\ Tol \in Nat
          /\ os = wi + ot /\ xs = (bi - ai) + xt /\ ys = (wi - oi) + yt /\ os <= oL
          /\ wi = IF bi > Tol THEN bi ELSE 0
        BY <1>9, <1>10, <1>11, <1>12, <1>13 DEF os, ot, oL, xs, xt, ys, yt, bi, ai, wi, oi
    <2>8. X - C <= 2 * Tol /\ (oL <= X + 3 * Tol \/ C <= X + 3 * Tol)
        BY <1>0 DEF oL
    <2> QED
        BY <1>7, <2>1, <2>2, <2>3, <2>4, <2>5, <2>6, <2>7, <2>8
<1> HIDE DEF os, ot, oL, xs, xt, ys, yt, bi, ai, wi, oi
<1>15. CASE bi <= Tol
    <2>1. ai - oi <= 3 * Tol /\ oi - ai <= 3 * Tol
        BY <1>14, <1>15
    <2> QED
        BY <2>1 DEF ai, oi
<1>16. CASE bi > Tol
    <2>1. ai - oi <= 3 * Tol
        BY <1>14, <1>16
    <2>2. oi - ai <= 3 * Tol
        BY <1>14, <1>16
    <2> QED
        BY <2>1, <2>2 DEF ai, oi
<1>17. bi <= Tol \/ bi > Tol
    BY <1>14
<1> QED
    BY <1>15, <1>16, <1>17

\* And all together up to four times the tolerance.
LEMMA DueApart ==
    ASSUME NEW b, NEW a, NEW o, NEW X, NEW C, NEW L, NEW key, Compared(b, a, o, X, C, L, key)
    PROVE  LET left == SumFunctionOnSet(o, L)
           IN Owed(a, L) - left <= 4 * Tol /\ left - Owed(a, L) <= 4 * Tol
<1> DEFINE w == Owing(b)  left == SumFunctionOnSet(o, L)
<1>0. /\ L \in SUBSET Invoices /\ Taken(b, a, X, L, 0, key) /\ Taken(w, o, C, L, Tol, key)
      /\ X - C <= 2 * Tol /\ (Owed(b, L) <= X + 3 * Tol \/ C <= X + 3 * Tol)
    BY DEF Compared
<1>1. Prefix(L, L, key)
    BY DEF Prefix
<1>2. Spends(b, a, X, L, 0) /\ Spends(w, o, C, L, Tol)
    BY <1>0, <1>1, TakenOwes
<1>3. b \in Balances /\ o \in Balances /\ X \in Nat /\ C \in Nat /\ Tol \in Nat
    BY <1>0, AmountsAssumption DEF Taken
<1>4. w \in Balances /\ Owed(w, L) = Owed(b, L)
    BY <1>3, OwingTwice
<1>5. Owed(b, L) = left + Drop(w, o, L) /\ left \in Int
    <2> DEFINE g == Drops(w, o)
    <2>1. IsFiniteSet(L)
        BY <1>0, IdsAssumption, FS_Subset
    <2>2. \A i \in L : o[i] \in Int /\ g[i] \in Int /\ w[i] = o[i] + g[i]
        BY <1>0, <1>3, <1>4 DEF Drops, Balances
    <2>3. Owed(b, L) = SumFunctionOnSet(w, L) /\ Drop(w, o, L) = SumFunctionOnSet(g, L)
        BY DEF Owed, Drop
    <2> HIDE DEF g, w
    <2>4. SumFunctionOnSet(w, L) = SumFunctionOnSet(o, L) + SumFunctionOnSet(g, L)
        BY <2>1, <2>2, SumAdd
    <2>5. SumFunctionOnSet(o, L) \in Int
        BY <2>1, <2>2, SumInt
    <2> QED
        BY <2>3, <2>4, <2>5
<1> DEFINE u == Owed(a, L)  v == Owed(b, L)  y == Drop(w, o, L)
<1>6. /\ u \in Nat /\ v \in Nat /\ y \in Int
      /\ v <= X => u = 0
      /\ v > X => v - X - Tol <= u /\ u <= v - X
      /\ v <= C => y = v
      /\ v > C => C - Tol <= y /\ y <= C
    <2>1. /\ u \in Nat /\ v \in Nat /\ (v <= X => u = 0)
          /\ v > X => v - X - Tol <= u /\ u <= v - X + 0
        BY <1>2 DEF Spends
    <2>2. y \in Int /\ (v <= C => y = v) /\ (v > C => C - Tol <= y /\ y <= C)
        BY <1>2, <1>4 DEF Spends
    <2> HIDE DEF u, v, y
    <2> QED
        BY <1>3, <2>1, <2>2
<1>7. v = left + y /\ left \in Int /\ X - C <= 2 * Tol /\ (v <= X + 3 * Tol \/ C <= X + 3 * Tol)
    BY <1>0, <1>5
<1> HIDE DEF u, v, y, left
<1>8. u - left <= 4 * Tol /\ left - u <= 4 * Tol
    BY <1>3, <1>6, <1>7
<1> QED
    BY <1>8 DEF u, left

\* A student without a credit row never had credit: no receipt left any, no row spent
\* any, and nothing is overpaid.
NoCreditYet(d) ==
    ~d.hasCredit =>
        /\ d.credit = 0 /\ d.calloc = {}
        /\ \A r \in Receipts : d.rcred[r] = 0
        /\ \A i \in Invoices : d.credited[i] = 0
        /\ \A i \in LiveInvoices(d) : ReceiptPaid(d, i) <= d.total[i] + Tol

\* A voided invoice is marked so, and is not among those a student is asked to pay.
VoidedMarked(d) == \A i \in d.voidedInvoices : d.status[i] = "Voided"

\* Then nothing is overpaid and no credit expected.
LEMMA FreshStudent ==
    ASSUME NEW d, Typed(d), NoCreditYet(d), ~d.hasCredit
    PROVE  /\ d.credit = 0 /\ Expected(d) = 0 /\ OverpaidNow(d) = {}
           /\ LivePlan(UnlinkVoided(d)).grown = {}
<1> DEFINE L == LiveInvoices(d)
<1>1. /\ d.credit = 0 /\ d.calloc = {}
      /\ \A r \in Receipts : d.rcred[r] = 0
      /\ \A i \in L : ReceiptPaid(d, i) <= d.total[i] + Tol
    BY DEF NoCreditYet
<1>2. L \subseteq Invoices /\ IsFiniteSet(L) /\ Tol \in Nat /\ IsFiniteSet(Receipts)
    BY LiveInvoicesFinite, IdsAssumption, AmountsAssumption DEF Typed
<1>3. ASSUME NEW i \in L
      PROVE  TotalPaid(d, i) <= d.total[i] + Tol /\ TotalPaid(d, i) \in Nat /\ d.total[i] \in Nat
    <2>1. i \in Invoices
        BY <1>2
    <2>2. CreditPaid(d, i) = 0
        BY <1>1, NoRowsNoCreditPaid
    <2>3. ReceiptPaid(d, i) \in Nat /\ TotalPaid(d, i) \in Nat /\ d.total[i] \in Nat
        BY <2>1, PaidIsNat DEF Typed, TypedBills
    <2>4. TotalPaid(d, i) = ReceiptPaid(d, i) + 0
        BY <2>2 DEF TotalPaid
    <2> QED
        BY <1>1, <2>3, <2>4
<1>4. OverpaidNow(d) = {}
    <2>1. \A i \in L : ~(Overpayment(d, i) > Tol)
        BY <1>2, <1>3 DEF Overpayment
    <2> QED
        BY <2>1 DEF OverpaidNow, Overpaid
<1>5. Expected(d) = 0
    <2>1. SumFunctionOnSet(d.rcred, Receipts) = 0
        BY <1>1, <1>2, SumZero
    <2>2. SumFunction([i \in L |-> OverpaidBy(d, i)]) = 0
        <3> DEFINE f == [i \in L |-> OverpaidBy(d, i)]
        <3>1. ASSUME NEW i \in L
              PROVE  OverpaidBy(d, i) = 0
            <4>1. i \in Invoices
                BY <1>2
            <4>2. CountedPaid(d, i) \in Nat /\ CountedPaid(d, i) <= TotalPaid(d, i)
                BY <4>1, CountedWithin
            <4> QED
                BY <1>2, <1>3, <4>2 DEF OverpaidBy
        <3>2. \A i \in L : f[i] = 0
            BY <3>1
        <3>3. DOMAIN f = L
            OBVIOUS
        <3> HIDE DEF f
        <3>4. SumFunction(f) = 0
            BY <1>2, <3>2, <3>3, SumZero DEF SumFunction
        <3> QED
            BY <3>4 DEF f
    <2>3. AmountOf(d.calloc) \in Nat
        BY RowAmounts, AmountOfIsNat DEF Typed
    <2> QED
        BY <2>1, <2>2, <2>3 DEF Expected, Monus, L
<1>6. LivePlan(UnlinkVoided(d)).grown = {}
    <2> DEFINE e == UnlinkVoided(d)
    <2>1. Typed(e) /\ SameLedger(d, e)
        BY UnlinkVoidedFields
    <2>2. OverpaidNow(e) = {}
        BY <1>4, <2>1, LedgerReads
    <2> HIDE DEF e
    <2>3. CorrectedSoFar(e, LivePlan(e), OverpaidNow(e))
        BY <2>1, CorrectionsEnd
    <2>4. LivePlan(e).grown = {}
        BY <2>2, <2>3 DEF CorrectedSoFar
    <2> QED
        BY <2>4 DEF e
<1> QED
    BY <1>1, <1>4, <1>5, <1>6

\* The credit of the reference is what the rows imply, up to the tolerance.
LEMMA ReferenceCredit ==
    ASSUME NEW d, Typed(d), NoCreditYet(d)
    PROVE  LET start == VerifyCredit(d)
           IN /\ Typed(start) /\ SameLedger(d, start) /\ start.credit \in Nat
              /\ start.credit - Expected(d) <= Tol /\ Expected(d) - start.credit <= Tol
              /\ ~d.hasCredit => start.credit = 0 /\ Expected(d) = 0 /\ ~Started(d).hasCredit
<1> DEFINE start == VerifyCredit(d)
<1>1. DOMAIN d = Columns /\ d.credit \in Nat /\ d.hasCredit \in BOOLEAN /\ Tol \in Nat
    BY AmountsAssumption DEF Typed, Ids, TypedCredit
<1>2. /\ SameIds(d, start) /\ SameBills(d, start) /\ SameReceipts(d, start)
      /\ start.calloc = d.calloc
      /\ start.credit = IF d.hasCredit THEN Verified(d, d.credit) ELSE d.credit
    BY <1>1, VerifyCreditFrame
<1>3. Typed(start) /\ SameLedger(d, start)
    BY <1>2, VerifyCreditTyped DEF SameLedger, SameBills
<1>4. CASE d.hasCredit
    <2>1. start.credit = Verified(d, d.credit)
        BY <1>2, <1>4
    <2> HIDE DEF start
    <2>2. LET y == Verified(d, d.credit)
          IN /\ y \in Nat /\ Expected(d) \in Nat
             /\ y - Expected(d) <= Tol /\ Expected(d) - y <= Tol
        BY <1>1, VerifiedWithin
    <2> QED
        BY <1>3, <1>4, <2>1, <2>2 DEF start
<1>5. CASE ~d.hasCredit
    <2>1. /\ d.credit = 0 /\ Expected(d) = 0
          /\ LivePlan(UnlinkVoided(d)).grown = {}
        BY <1>5, FreshStudent
    <2>2. start.credit = 0
        BY <1>2, <1>5, <2>1
    <2>3. Started(d).hasCredit = (d.hasCredit \/ LivePlan(UnlinkVoided(d)).grown # {})
        BY StartedFields
    <2> HIDE DEF start
    <2> QED
        BY <1>1, <1>3, <1>5, <2>1, <2>2, <2>3 DEF start
<1> QED
    BY <1>1, <1>4, <1>5

\* Once reconciliations have settled, what they gave is what the credit was, or all that
\* was owed, up to the tolerance.
LEMMA GaveEnough ==
    ASSUME NEW c, Typed(c), NEW e, Ran(c, e), Settled(e),
           Taken(c.balance, e.balance, Gave(c, e), LiveInvoices(c), 0, c.date)
    PROVE  \/ Owed(c.balance, LiveInvoices(c)) <= Gave(c, e) + Tol
           \/ ~c.hasCredit
           \/ Expected(c) <= Gave(c, e) + 2 * Tol
<1> DEFINE L == LiveInvoices(c)  b == c.balance  a == e.balance  X == Gave(c, e)
<1>1. /\ Typed(e) /\ LiveInvoices(e) = L /\ e.hasCredit = c.hasCredit /\ X \in Nat
      /\ Expected(e) = Monus(Expected(c), X)
    BY DEF Ran, SameIds, LiveInvoices
<1>2. Expected(c) \in Nat /\ Expected(e) \in Nat /\ Tol \in Nat /\ e.credit \in Nat
      /\ DOMAIN e = Columns /\ L \in SUBSET Invoices /\ b \in Balances /\ a \in Balances
    BY <1>1, ExpectedIsNat, LiveInvoicesFinite, AmountsAssumption
    DEF Typed, Ids, TypedCredit, TypedCaches, Balances
<1>3. CASE Owes(e) = {}
    <2>1. \A i \in L : a[i] <= Tol
        <3>1. \A i \in L : a[i] \in Nat /\ ~(a[i] > Tol)
            BY <1>1, <1>2, <1>3 DEF Owes, Balances
        <3> QED
            BY <1>2, <3>1
    <2>2. Owed(a, L) = 0
        BY <1>2, <2>1, OwedZero
    <2>3. Prefix(L, L, c.date)
        BY DEF Prefix
    <2>4. Spends(b, a, X, L, 0)
        BY <2>3, TakenOwes
    <2>5. Owed(b, L) \in Nat /\ (Owed(b, L) > X => Owed(b, L) - X - Tol <= Owed(a, L))
        BY <2>4 DEF Spends
    <2> HIDE DEF X, L, b, a
    <2>6. Owed(b, L) <= X + Tol
        BY <1>1, <1>2, <2>2, <2>5
    <2> QED
        BY <2>6 DEF X, L, b
<1>4. CASE ~e.hasCredit
    BY <1>1, <1>4
<1>5. CASE e.hasCredit /\ VerifyCredit(e).credit <= Tol
    <2>1. VerifyCredit(e).credit = Verified(e, e.credit)
        BY <1>2, <1>5, VerifyCreditFrame
    <2> DEFINE y == Verified(e, e.credit)
    <2>2. y \in Nat /\ Expected(e) - y <= Tol
        BY <1>1, <1>2, VerifiedWithin
    <2>3. y <= Tol
        BY <1>5, <2>1
    <2> HIDE DEF X, y
    <2>4. Expected(c) <= X + 2 * Tol
        BY <1>1, <1>2, <2>2, <2>3 DEF Monus
    <2> QED
        BY <2>4 DEF X
<1> QED
    BY <1>3, <1>4, <1>5 DEF Settled, Idle

\* What the student is asked to pay is what the live invoices owe.
LEMMA DueIsOwed ==
    ASSUME NEW d, Typed(d), \A i \in LiveInvoices(d) : CachedIsLedger(d, i),
           \A i \in d.voidedInvoices : d.status[i] # "Open"
    PROVE  AmountDue(d) = Owed(d.balance, LiveInvoices(d))
<1> DEFINE L == LiveInvoices(d)  b == d.balance  S == {i \in L : b[i] > Tol}  w == Owing(b)
<1>1. L \subseteq Invoices /\ IsFiniteSet(L) /\ b \in Balances
    BY LiveInvoicesFinite DEF Typed, TypedCaches, Balances
<1>2. {i \in d.invoices : d.status[i] = "Open"} = S
    <2>1. \A i \in L : d.status[i] = "Open" <=> b[i] > Tol
        <3>1. ASSUME NEW i \in L
              PROVE  d.status[i] = "Open" <=> b[i] > Tol
            <4>1. d.status[i] = StatusOf(FALSE, b[i])
                BY DEF CachedIsLedger
            <4>2. b[i] \in Nat /\ Tol \in Nat
                BY <1>1, AmountsAssumption DEF Balances
            <4> QED
                BY <4>1, <4>2 DEF StatusOf
        <3> QED
            BY <3>1
    <2>2. \A i \in d.invoices : i \in L \/ i \in d.voidedInvoices
        BY DEF LiveInvoices
    <2>3. L \subseteq d.invoices
        BY DEF LiveInvoices
    <2> HIDE DEF L, b
    <2> QED
        BY <2>1, <2>2, <2>3
<1>3. \A i \in L : b[i] \in Nat /\ w[i] = IF b[i] > Tol THEN b[i] ELSE 0
    BY <1>1 DEF Owing, Balances
<1>4. S \in SUBSET L /\ IsFiniteSet(S)
    BY <1>1, FS_Subset
<1>5. \A i \in S : w[i] \in Int /\ b[i] = w[i]
    BY <1>3
<1>6. \A i \in L \ S : w[i] = 0
    BY <1>3
<1>7. AmountDue(d) = SumFunctionOnSet(b, S) /\ Owed(b, L) = SumFunctionOnSet(w, L)
    BY <1>2 DEF AmountDue, Owed
<1> HIDE DEF w, S
<1>8. SumFunctionOnSet(w, L) = SumFunctionOnSet(w, S)
    BY <1>1, <1>4, <1>5, <1>6, SumRestrict
<1>9. SumFunctionOnSet(b, S) = SumFunctionOnSet(w, S)
    BY <1>4, <1>5, SumCongruent
<1> QED
    BY <1>7, <1>8, <1>9

\* What the reference reads of each invoice is what the first reconciliation caches.
LEMMA StartedOwes ==
    ASSUME NEW d, Typed(d), NEW e, Typed(e), SameLedger(d, e)
    PROVE  IsOwed(e, Owing(Started(d).balance))
<1> DEFINE c == Started(d)  b == c.balance
<1>1. Typed(c) /\ \A i \in LiveInvoices(d) : CachedIsLedger(c, i)
    BY StartedFields
<1>2. SameLedger(d, c)
    BY StartedFields
<1>3. LiveInvoices(e) = LiveInvoices(d) /\ e.total = d.total /\ c.total = d.total
      /\ \A i : TotalPaid(e, i) = TotalPaid(d, i) /\ TotalPaid(c, i) = TotalPaid(d, i)
    BY <1>2, LedgerReads DEF SameLedger
<1> HIDE DEF c
<1>4. b \in Balances /\ Owing(b) \in Balances
    <2>1. b \in Balances
        BY <1>1 DEF Typed, TypedCaches, Balances
    <2> QED
        BY <2>1, OwingTwice
<1>5. ASSUME NEW i \in LiveInvoices(e)
      PROVE  Owing(b)[i] = LedgerBalance(e.total[i], TotalPaid(e, i))
    <2>1. i \in Invoices /\ e.total[i] \in Nat /\ TotalPaid(e, i) \in Nat /\ Tol \in Nat
        BY LiveInvoicesFinite, PaidIsNat, AmountsAssumption DEF Typed, TypedBills
    <2>2. b[i] = Monus(e.total[i], TotalPaid(e, i))
        BY <1>1, <1>3 DEF CachedIsLedger
    <2>3. Owing(b)[i] = IF b[i] > Tol THEN b[i] ELSE 0
        BY <2>1 DEF Owing
    <2> QED
        BY <2>1, <2>2, <2>3 DEF Monus, LedgerBalance
<1> QED
    BY <1>4, <1>5 DEF IsOwed, c

\* Reconciliations leave each invoice what the reference leaves it.
LEMMA RunsMatch ==
    ASSUME Typed(db), NoCreditYet(db), VoidedMarked(db)
    PROVE  ReconcileMatchesReference
<1> DEFINE n     == Cardinality(Invoices)
           start == VerifyCredit(db)
           C     == start.credit
           ref   == SimulatedCreditRun(start, C)
           runs  == ReconcileRuns(db, n + 1)
           c     == Started(db)
           L     == LiveInvoices(db)
           X     == Gave(c, runs)
           b     == c.balance
           a     == runs.balance
           key   == db.date
<1>1. SUFFICES ASSUME Reconcile(db).ok
               PROVE  /\ \A i \in L : Near(a[i], ref[i], 3)
                      /\ Near(AmountDue(runs), SumFunctionOnSet(ref, L), 4)
    BY DEF ReconcileMatchesReference
<1>2. Ran(c, runs) /\ Settled(runs)
    BY <1>1, RunsSettle
<1>3. /\ Typed(c) /\ SameLedger(db, c) /\ \A i \in Invoices \ L : c.status[i] = db.status[i]
      /\ c.hasCredit = (db.hasCredit \/ LivePlan(UnlinkVoided(db)).grown # {})
    BY StartedFields
<1>4. LiveInvoices(c) = L /\ Expected(c) = Expected(db) /\ c.date = key
      /\ c.voidedInvoices = db.voidedInvoices
    BY <1>3, LedgerReads DEF SameLedger, SameIds
<1>5. /\ Typed(start) /\ SameLedger(db, start) /\ C \in Nat
      /\ C - Expected(db) <= Tol /\ Expected(db) - C <= Tol
      /\ ~db.hasCredit => C = 0 /\ Expected(db) = 0 /\ ~c.hasCredit
    BY ReferenceCredit
<1>6. LiveInvoices(start) = L /\ start.date = key
    BY <1>5, LedgerReads DEF SameLedger
<1>7. IsOwed(start, Owing(b))
    BY <1>5, StartedOwes
<1>8. PICK o : /\ Taken(Owing(b), o, C, L, Tol, key)
               /\ \A i \in L : ref[i] = o[i]
    <2>1. \E o : /\ Taken(Owing(b), o, C, LiveInvoices(start), Tol, start.date)
                 /\ \A i \in LiveInvoices(start) : SimulatedCreditRun(start, C)[i] = o[i]
        <3> HIDE DEF start, C, b
        <3> QED
            BY <1>5, <1>7, CreditRunTakes
    <2> QED
        BY <1>6, <2>1
<1>9. /\ L \in SUBSET Invoices /\ IsFiniteSet(L) /\ Tol \in Nat /\ Expected(db) \in Nat
      /\ \A i \in L : key[i] \in Nat
    BY LiveInvoicesFinite, ExpectedIsNat, AmountsAssumption DEF Typed, Ids, TypedBills
<1> HIDE DEF start, C, ref, runs, c, L, n
<1>10. /\ PaysInOrder(b, a, L, key) /\ X = Drop(b, a, L) /\ X \in Nat
       /\ X <= Expected(db) + Tol /\ (~c.hasCredit => X = 0)
    BY <1>2, <1>4 DEF Ran, Gave
<1>11. Taken(b, a, X, L, 0, key)
    <2> HIDE DEF b, a, key, X
    <2> QED
        BY <1>9, <1>10, PaysItsAmount
<1>12. \/ Owed(b, L) <= X + Tol \/ ~c.hasCredit \/ Expected(db) <= X + 2 * Tol
    <2>1. Taken(c.balance, runs.balance, Gave(c, runs), LiveInvoices(c), 0, c.date)
        BY <1>4, <1>11
    <2>2. \/ Owed(c.balance, LiveInvoices(c)) <= Gave(c, runs) + Tol
          \/ ~c.hasCredit
          \/ Expected(c) <= Gave(c, runs) + 2 * Tol
        BY <1>2, <1>3, <2>1, GaveEnough
    <2> QED
        BY <1>4, <2>2
<1>13. Compared(b, a, o, X, C, L, key)
    <2>1. Owed(b, L) \in Nat
        BY <1>9, <1>10, OwingTyped DEF PaysInOrder
    <2>2. c.hasCredit \/ C = 0
        <3>1. db.hasCredit => c.hasCredit
            BY <1>3
        <3> QED
            BY <1>5, <3>1
    <2> HIDE DEF X, b, a, key
    <2>3. X - C <= 2 * Tol
        BY <1>5, <1>9, <1>10
    <2>4. Owed(b, L) <= X + 3 * Tol \/ C <= X + 3 * Tol
        BY <1>5, <1>9, <1>10, <1>12, <2>1, <2>2
    <2> QED
        BY <1>8, <1>9, <1>11, <2>3, <2>4 DEF Compared
<1>14. ASSUME NEW i \in L
       PROVE  Near(a[i], ref[i], 3)
    <2>1. a[i] - o[i] <= 3 * Tol /\ o[i] - a[i] <= 3 * Tol
        BY <1>13, LeftApart
    <2> QED
        BY <1>8, <2>1 DEF Near
<1>15. AmountDue(runs) = Owed(a, L)
    <2>1. Typed(runs) /\ Quiet(runs) /\ SameIds(c, runs)
          /\ \A j \in Invoices \ L : runs.status[j] = c.status[j]
        BY <1>2, <1>4 DEF Ran
    <2>2. LiveInvoices(runs) = L /\ runs.voidedInvoices = db.voidedInvoices
        BY <1>4, <2>1 DEF SameIds, LiveInvoices
    <2>3. ASSUME NEW i \in runs.voidedInvoices
          PROVE  runs.status[i] # "Open"
        <3>1. i \in Invoices \ L /\ i \in db.voidedInvoices
            BY <2>2, <2>3 DEF L, LiveInvoices, Typed, Ids
        <3>2. runs.status[i] = db.status[i]
            BY <1>3, <2>1, <3>1
        <3> QED
            BY <3>1, <3>2 DEF VoidedMarked
    <2>4. \A i \in LiveInvoices(runs) : CachedIsLedger(runs, i)
        BY <2>1 DEF Quiet
    <2> QED
        BY <2>1, <2>2, <2>3, <2>4, DueIsOwed
<1>16. SumFunctionOnSet(ref, L) = SumFunctionOnSet(o, L)
    <2>1. \A i \in L : o[i] \in Int /\ ref[i] = o[i]
        BY <1>8, <1>9 DEF Taken, Balances
    <2> QED
        BY <1>9, <2>1, SumCongruent
<1>17. Near(AmountDue(runs), SumFunctionOnSet(ref, L), 4)
    <2>1. LET left == SumFunctionOnSet(o, L)
          IN Owed(a, L) - left <= 4 * Tol /\ left - Owed(a, L) <= 4 * Tol
        BY <1>13, DueApart
    <2> HIDE DEF a
    <2> QED
        BY <1>15, <1>16, <2>1 DEF Near
<1> QED
    BY <1>14, <1>17

-----------------------------------------------------------------------------
(* Students without credit                                                 *)

\* Without a credit row there is no credit and none was given.
NoCredit(d) ==
    ~d.hasCredit =>
        /\ d.credit = 0 /\ d.calloc = {}
        /\ \A r \in Receipts : d.rcred[r] = 0
        /\ \A i \in Invoices : d.credited[i] = 0

\* And no live invoice is paid beyond its bill.
NotOverpaid(d) ==
    ~d.hasCredit => \A i \in LiveInvoices(d) : ReceiptPaid(d, i) <= d.total[i] + Tol

\* The two together say that the student never had credit.
LEMMA NoCreditYetIs ==
    ASSUME NEW d
    PROVE  NoCreditYet(d) <=> NoCredit(d) /\ NotOverpaid(d)
BY DEF NoCreditYet, NoCredit, NotOverpaid

\* From d to e the student's credit row stays, and so do the marks of voided invoices.
Stays(d, e) ==
    /\ d.hasCredit => e.hasCredit
    /\ e.voidedInvoices = d.voidedInvoices
    /\ \A i \in d.voidedInvoices : e.status[i] = d.status[i]

\* What stays from step to step stays over both steps.
LEMMA StaysTransitive ==
    ASSUME NEW d, NEW e, NEW f, Stays(d, e), Stays(e, f)
    PROVE  Stays(d, f)
BY DEF Stays

\* If their marks stay, voided invoices stay marked.
LEMMA StaysMarked ==
    ASSUME NEW d, NEW e, Stays(d, e), VoidedMarked(d)
    PROVE  VoidedMarked(e)
BY DEF Stays, VoidedMarked

\* Comparing the credit with the rows makes no credit row, and marks nothing.
LEMMA VerifyCreditStays ==
    ASSUME NEW d, Typed(d)
    PROVE  /\ Stays(d, VerifyCredit(d))
           /\ ~d.hasCredit => VerifyCredit(d) = d
<1>1. DOMAIN d = Columns
    BY DEF Typed, Ids
<1>2. Stays(d, VerifyCredit(d))
    BY <1>1, VerifyCreditFrame DEF Stays, SameIds, SameCaches
<1> QED
    BY <1>2 DEF VerifyCredit

\* Taking from the credit keeps the row, the marks and what overpayments gave.
LEMMA DeductCreditStays ==
    ASSUME NEW d, Typed(d), NEW x \in Nat, d.credit - x \in Nat
    PROVE  LET e == DeductCredit(d, x)
           IN Stays(d, e) /\ e.credited = d.credited
<1> DEFINE y == d.credit - x
           e == [d EXCEPT !.credit = y]
           f == VerifyCredit(e)
<1>1. Typed(e) /\ SameIds(d, e) /\ SameBills(d, e) /\ SameReceipts(d, e) /\ e.calloc = d.calloc
    BY SetCreditTyped
<1>2. DeductCredit(d, x) = f
    BY DEF DeductCredit
<1>3. DOMAIN d = Columns
    BY DEF Typed, Ids
<1>4. Stays(d, e) /\ e.credited = d.credited
    BY <1>3 DEF Stays, Columns
<1> HIDE DEF e
<1>5. DOMAIN e = Columns
    BY <1>1 DEF Typed, Ids
<1>6. Stays(e, f) /\ f.credited = e.credited
    BY <1>1, <1>5, VerifyCreditStays, VerifyCreditFrame
<1> HIDE DEF f
<1> QED
    BY <1>2, <1>4, <1>6, StaysTransitive

\* Nothing is applied of no credit.
LEMMA NothingToApply ==
    ASSUME NEW d, ~d.hasCredit
    PROVE  \A owed : CreditToApply(d, owed) = 0 /\ \A i : ApplyCredit(d, i, owed) = d
BY DEF CreditToApply, ApplyCredit

\* So does giving credit to an invoice.
LEMMA ApplyCreditStays ==
    ASSUME NEW d, Typed(d), NEW i \in Invoices, NEW owed \in Nat
    PROVE  LET e == ApplyCredit(d, i, owed)
           IN Stays(d, e) /\ e.credited = d.credited
<1> DEFINE x   == CreditToApply(d, owed)
           e   == DeductCredit(d, x)
           row == CreditRow(d, i, x, CreditSource(d, x))
           f   == [e EXCEPT !.calloc = @ \union {row}]
<1>1. x \in Nat /\ d.credit - x \in Nat
    BY CreditToApplyIsNat DEF Typed
<1>3. ApplyCredit(d, i, owed) = IF x = 0 THEN d ELSE f
    BY DEF ApplyCredit
<1> HIDE DEF x
<1>4. Typed(e) /\ Stays(d, e) /\ e.credited = d.credited
    BY <1>1, DeductCreditTyped, DeductCreditStays
<1> HIDE DEF e, row
<1>5. DOMAIN e = Columns
    BY <1>4 DEF Typed, Ids
<1>6. Stays(e, f) /\ f.credited = e.credited
    BY <1>5 DEF Stays, Columns
<1> HIDE DEF f
<1>7. Stays(d, d)
    BY DEF Stays
<1> QED
    BY <1>3, <1>4, <1>6, <1>7, StaysTransitive

\* So does giving it to the oldest unpaid one, and without credit nothing happens.
LEMMA SpendCreditStays ==
    ASSUME NEW d, Typed(d)
    PROVE  LET e == SpendCredit(d)
           IN /\ Stays(d, e) /\ e.credited = d.credited
              /\ ~d.hasCredit => e = d
<1> DEFINE oldest == First({i \in LiveInvoices(d) : d.balance[i] > Tol}, d.date)
           i      == CHOOSE i \in oldest : TRUE
<1>1. SpendCredit(d) = IF oldest = {} THEN d ELSE ApplyCredit(d, i, d.balance[i])
    BY DEF SpendCredit
<1>2. CASE oldest = {}
    BY <1>1, <1>2 DEF Stays
<1>3. CASE oldest # {}
    <2>1. i \in oldest
        BY <1>3
    <2>2. i \in Invoices
        BY <2>1 DEF First, LiveInvoices, Typed, Ids
    <2>3. d.balance[i] \in Nat
        BY <2>2 DEF Typed, TypedCaches
    <2> HIDE DEF i, oldest
    <2> QED
        BY <1>1, <1>3, <2>2, <2>3, ApplyCreditStays, NothingToApply
<1> QED
    BY <1>2, <1>3

\* Recalculating live invoices marks no voided one, and changes no credit.
LEMMA RecalculateStays ==
    ASSUME NEW d, Typed(d), NEW S, S \cap d.voidedInvoices = {}
    PROVE  /\ Stays(d, Recalculate(d, S)) /\ SameCredit(d, Recalculate(d, S))
           /\ Recalculate(d, S).calloc = d.calloc
<1> DEFINE e == Recalculate(d, S)
<1>1. DOMAIN d = Columns /\ d.voidedInvoices \subseteq Invoices
    BY DEF Typed, Ids
<1>2. /\ SameIds(d, e) /\ SameCredit(d, e) /\ e.calloc = d.calloc
      /\ e.status = [i \in Invoices |->
           IF i \in S
           THEN StatusOf(i \in d.voidedInvoices, Monus(d.total[i], TotalPaid(d, i)))
           ELSE d.status[i]]
    BY <1>1 DEF Recalculate, SameIds, SameCredit, Columns
<1> HIDE DEF e
<1>3. \A i \in d.voidedInvoices : i \in Invoices /\ i \notin S
    BY <1>1
<1>4. \A i \in d.voidedInvoices : e.status[i] = d.status[i]
    BY <1>2, <1>3
<1> QED
    BY <1>2, <1>4 DEF Stays, SameIds, SameCredit, e

\* What a reconciliation leaves of a student's credit, and of the marks.
LEMMA ReconcileStays ==
    ASSUME NEW d, Typed(d)
    PROVE  LET e == Reconcile(d).db
           IN Stays(d, e) /\ (NoCredit(d) => NoCredit(e))
<1> DEFINE L == LiveInvoices(d)
           b == UnlinkVoided(d)
           p == LivePlan(b)
           c == LiveCorrected(b)
           s == Started(d)
           e == Reconcile(d).db
           NoneGiven(x) == x.credit = 0 /\ x.calloc = {} /\ (\A r \in Receipts : x.rcred[r] = 0)
                            /\ (\A i \in Invoices : x.credited[i] = 0)
<1>1. /\ Typed(b) /\ SameLedger(d, b) /\ SameCaches(d, b) /\ SameCredit(d, b)
    BY UnlinkVoidedFields
<1>2. CorrectedSoFar(b, p, OverpaidNow(b))
    <2> HIDE DEF b
    <2> QED
        BY <1>1, CorrectionsEnd
<1>3. p.grown = {} => p.credit = d.credit
    BY <1>1, <1>2 DEF CorrectedSoFar, SameCredit
<1>4. CASE ~Reconcile(d).ok
    <2>1. ~c.ok /\ e = c.db
        BY <1>4, ReconcileIs DEF Settle
    <2>2. /\ SameLedger(b, c.db)
          /\ c.db.hasCredit = (b.hasCredit \/ p.grown # {}) /\ c.db.credit = p.credit
          /\ c.db.credited = [i \in Invoices |->
                             IF i \in p.grown THEN Overpayment(b, i) ELSE b.credited[i]]
        <3> HIDE DEF b
        <3> QED
            BY <1>1, CorrectOverpaymentsFields
    <2>3. c.db.status = b.status
        <3>1. DOMAIN b = Columns
            BY <1>1 DEF Typed, Ids
        <3> HIDE DEF b
        <3> QED
            BY <3>1 DEF LiveCorrected, LivePlan, CorrectOverpayments, Corrected, Columns
    <2> HIDE DEF b, c, p
    <2>4. Stays(d, c.db)
        BY <1>1, <2>2, <2>3 DEF Stays, SameLedger, SameIds, SameCredit, SameCaches
    <2>5. ASSUME NoCredit(d), ~c.db.hasCredit
          PROVE  NoneGiven(c.db)
        <3>1. ~d.hasCredit /\ p.grown = {}
            BY <1>1, <2>2, <2>5 DEF SameCredit
        <3>2. /\ d.credit = 0 /\ d.calloc = {} /\ (\A r \in Receipts : d.rcred[r] = 0)
              /\ (\A i \in Invoices : d.credited[i] = 0)
            BY <2>5, <3>1 DEF NoCredit
        <3>3. c.db.credit = 0
            BY <1>3, <2>2, <3>1, <3>2
        <3>4. c.db.calloc = {} /\ c.db.rcred = d.rcred
            BY <1>1, <2>2, <3>2 DEF SameLedger, SameReceipts
        <3>5. \A i \in Invoices : c.db.credited[i] = 0
            BY <1>1, <2>2, <3>1, <3>2 DEF SameCredit
        <3> QED
            BY <3>2, <3>3, <3>4, <3>5
    <2>6. NoCredit(d) => NoCredit(c.db)
        BY <2>5 DEF NoCredit
    <2> HIDE DEF e
    <2> QED
        BY <2>1, <2>4, <2>6 DEF e
<1>5. CASE Reconcile(d).ok
    <2> DEFINE v == VerifyCredit(s)  t == SpendCredit(v)
    <2>1. e = Recalculate(t, L)
        BY <1>5, StartedQuiet
    <2>2. /\ Typed(s) /\ SameLedger(d, s)
          /\ s.hasCredit = (d.hasCredit \/ p.grown # {}) /\ s.credit = p.credit
          /\ s.credited = [i \in Invoices |->
                             IF i \in p.grown THEN Overpayment(d, i) ELSE d.credited[i]]
          /\ \A i \in Invoices \ L : s.status[i] = d.status[i]
        BY StartedFields
    <2> HIDE DEF s, b, p, e
    <2>3. Stays(d, s)
        <3>1. \A i \in d.voidedInvoices : i \in Invoices \ L
            BY DEF Typed, Ids, LiveInvoices
        <3>2. s.voidedInvoices = d.voidedInvoices
            BY <2>2 DEF SameLedger, SameIds
        <3> QED
            BY <2>2, <3>1, <3>2 DEF Stays
    <2>4. Typed(v) /\ Stays(s, v) /\ (~s.hasCredit => v = s)
        BY <2>2, VerifyCreditTyped, VerifyCreditStays
    <2> HIDE DEF v
    <2>5. Typed(t) /\ Stays(v, t) /\ (~v.hasCredit => t = v)
        BY <2>4, SpendCreditTyped, SpendCreditStays
    <2> HIDE DEF t
    <2>6. Stays(d, t)
        BY <2>3, <2>4, <2>5, StaysTransitive
    <2>7. L \cap t.voidedInvoices = {}
        BY <2>6 DEF Stays, LiveInvoices
    <2>8. Stays(t, e) /\ SameCredit(t, e) /\ e.calloc = t.calloc
        BY <2>1, <2>5, <2>7, RecalculateStays
    <2>9. Stays(d, e)
        BY <2>6, <2>8, StaysTransitive
    <2>10. SameReceipts(d, e)
        <3>1. LET f == Reconcile(d).db IN SameReceipts(d, f)
            BY ReconcileTyped
        <3> QED
            BY <3>1 DEF e
    <2>11. ASSUME NoCredit(d), ~e.hasCredit
           PROVE  NoneGiven(e)
        <3>1. ~t.hasCredit /\ ~v.hasCredit /\ ~s.hasCredit
            BY <2>4, <2>5, <2>8, <2>11 DEF Stays, SameCredit
        <3>2. t = s
            BY <2>4, <2>5, <3>1
        <3>3. ~d.hasCredit /\ p.grown = {}
            BY <2>2, <3>1
        <3>4. /\ d.credit = 0 /\ d.calloc = {} /\ (\A r \in Receipts : d.rcred[r] = 0)
              /\ (\A i \in Invoices : d.credited[i] = 0)
            BY <2>11, <3>3 DEF NoCredit
        <3>5. e.credit = 0
            BY <1>3, <2>2, <2>8, <3>2, <3>3, <3>4 DEF SameCredit, p, b
        <3>6. e.calloc = {} /\ e.rcred = d.rcred
            BY <2>2, <2>8, <2>10, <3>2, <3>4 DEF SameLedger, SameReceipts
        <3>7. \A i \in Invoices : e.credited[i] = 0
            BY <2>2, <2>8, <3>2, <3>3, <3>4 DEF SameCredit
        <3> QED
            BY <3>4, <3>5, <3>6, <3>7
    <2>12. NoCredit(d) => NoCredit(e)
        BY <2>11 DEF NoCredit
    <2> QED
        BY <2>9, <2>12 DEF e
<1> QED
    BY <1>4, <1>5

\* Reconciliation changes no bill.
LEMMA ReconcileTotals ==
    ASSUME NEW d, Typed(d)
    PROVE  LET e == Reconcile(d).db
           IN SameIds(d, e) /\ SameReceipts(d, e) /\ e.total = d.total
<1> DEFINE L == LiveInvoices(d)
           b == UnlinkVoided(d)
           c == LiveCorrected(b)
           s == Started(d)
           e == Reconcile(d).db
<1>1. SameIds(d, e) /\ SameReceipts(d, e)
    BY ReconcileTyped
<1>2. CASE ~Reconcile(d).ok
    <2>1. e = c.db
        BY <1>2, ReconcileIs DEF Settle
    <2>2. Typed(b) /\ b.total = d.total
        BY UnlinkVoidedFields DEF SameLedger
    <2> HIDE DEF b
    <2>3. c.db.total = b.total
        BY <2>2, CorrectOverpaymentsFields DEF SameLedger
    <2> HIDE DEF c, e
    <2> QED
        BY <1>1, <2>1, <2>2, <2>3 DEF e
<1>3. CASE Reconcile(d).ok
    <2> DEFINE v == VerifyCredit(s)  t == SpendCredit(v)
    <2>1. e = Recalculate(t, L)
        BY <1>3, StartedQuiet
    <2>2. Typed(s) /\ s.total = d.total /\ DOMAIN s = Columns
        BY StartedFields DEF SameLedger, Typed, Ids
    <2> HIDE DEF s, e
    <2>3. Typed(v) /\ v.total = s.total
        BY <2>2, VerifyCreditTyped, VerifyCreditFrame DEF SameBills
    <2> HIDE DEF v
    <2>4. Typed(t) /\ t.total = v.total
        BY <2>3, SpendCreditTyped DEF SameBills
    <2> HIDE DEF t
    <2>5. e.total = t.total
        BY <2>1, <2>4 DEF Recalculate, Typed, Ids, Columns
    <2> QED
        BY <1>1, <2>2, <2>3, <2>4, <2>5 DEF e
<1> QED
    BY <1>2, <1>3

\* So what is not overpaid stays so.
LEMMA ReconcileNotOverpaid ==
    ASSUME NEW d, Typed(d), NotOverpaid(d)
    PROVE  NotOverpaid(Reconcile(d).db)
<1> DEFINE e == Reconcile(d).db
<1>1. SameIds(d, e) /\ SameReceipts(d, e) /\ e.total = d.total
    BY ReconcileTotals
<1>2. d.hasCredit => e.hasCredit
    BY ReconcileStays DEF Stays
<1> HIDE DEF e
<1>3. LiveInvoices(e) = LiveInvoices(d) /\ \A i : ReceiptPaid(e, i) = ReceiptPaid(d, i)
    BY <1>1 DEF LiveInvoices, ReceiptPaid, SameIds, SameReceipts
<1> QED
    BY <1>1, <1>2, <1>3 DEF NotOverpaid, e

\* A reconciliation that is not stopped gives credit for what is overpaid.
LEMMA ReconciledNotOverpaid ==
    ASSUME NEW d, Typed(d), NoCredit(d), Reconcile(d).ok
    PROVE  NotOverpaid(Reconcile(d).db)
<1> DEFINE L == LiveInvoices(d)
           p == LivePlan(UnlinkVoided(d))
           s == Started(d)
           v == VerifyCredit(s)
           t == SpendCredit(v)
           e == Reconcile(d).db
<1>1. SameIds(d, e) /\ SameReceipts(d, e) /\ e.total = d.total
    BY ReconcileTotals
<1>2. e = Recalculate(t, L) /\ Quiet(s)
    BY StartedQuiet
<1>3. /\ Typed(s) /\ SameLedger(d, s)
      /\ s.hasCredit = (d.hasCredit \/ p.grown # {})
      /\ s.credited = [i \in Invoices |->
                         IF i \in p.grown THEN Overpayment(d, i) ELSE d.credited[i]]
    BY StartedFields
<1> HIDE DEF s, e, p
<1>4. Typed(v) /\ (s.hasCredit => v.hasCredit)
    BY <1>3, VerifyCreditTyped, VerifyCreditStays DEF Stays
<1> HIDE DEF v
<1>5. Typed(t) /\ (v.hasCredit => t.hasCredit)
    BY <1>4, SpendCreditTyped, SpendCreditStays DEF Stays
<1> HIDE DEF t
<1>6. e.hasCredit = t.hasCredit
    BY <1>2, <1>5 DEF Recalculate, Typed, Ids, Columns
<1>7. ASSUME ~e.hasCredit, NEW i \in LiveInvoices(e)
      PROVE  ReceiptPaid(e, i) <= e.total[i] + Tol
    <2>1. LiveInvoices(e) = L /\ LiveInvoices(s) = L /\ i \in Invoices
        BY <1>1, <1>3, <1>7 DEF LiveInvoices, SameIds, SameLedger, Typed, Ids
    <2>2. ~d.hasCredit /\ p.grown = {} /\ s.credited[i] = 0
        BY <1>3, <1>4, <1>5, <1>6, <1>7, <2>1 DEF NoCredit
    <2>3. ReceiptPaid(e, i) = ReceiptPaid(s, i) /\ s.total = e.total
        BY <1>1, <1>3 DEF ReceiptPaid, SameReceipts, SameLedger
    <2>4. /\ ReceiptPaid(s, i) \in Nat /\ CreditPaid(s, i) \in Nat /\ s.total[i] \in Nat
          /\ Tol \in Nat
        BY <1>3, <2>1, PaidIsNat, AmountsAssumption DEF Typed, TypedBills
    <2>5. Extra(s, i) = Overpayment(s, i)
        BY <2>2, <2>4 DEF Extra, Overpayment, TotalPaid
    <2>6. ~(Overpayment(s, i) > Tol)
        BY <1>2, <1>7, <2>1, <2>4, <2>5 DEF Quiet, OverpaidNow, Overpaid, Overpayment, TotalPaid
    <2>7. ReceiptPaid(s, i) <= s.total[i] + Tol
        BY <2>4, <2>6 DEF Overpayment, TotalPaid
    <2> QED
        BY <2>3, <2>7
<1> QED
    BY <1>7 DEF NotOverpaid, e

\* Either way the student without a credit row never had credit.
LEMMA ReconcileNoCreditYet ==
    ASSUME NEW d, Typed(d), NoCredit(d), Reconcile(d).ok \/ NotOverpaid(d)
    PROVE  NoCreditYet(Reconcile(d).db) /\ Stays(d, Reconcile(d).db)
BY ReconcileStays, ReconcileNotOverpaid, ReconciledNotOverpaid, NoCreditYetIs

-----------------------------------------------------------------------------
(* One operation after another                                             *)

\* A student without a credit row never had credit, and voided invoices are marked so.
Marked(d) == NoCreditYet(d) /\ VoidedMarked(d)

\* The exemption refresh: no row and no credit changes, and the voided stay marked.
LEMMA RefreshExemptionMarked ==
    ASSUME NEW d, Typed(d), Marked(d)
    PROVE  Marked(RefreshExemption(d))
<1> DEFINE e == RefreshExemption(d)
<1>1. DOMAIN d = Columns /\ d.voidedInvoices \subseteq Invoices
    BY DEF Typed, Ids
<1>2. /\ SameIds(d, e) /\ SameReceipts(d, e) /\ SameCredit(d, e) /\ SameBills(d, e)
      /\ e.calloc = d.calloc
      /\ e.status = [i \in Invoices |->
           IF i \in d.invoices
           THEN StatusOf(i \in d.voidedInvoices, d.total[i]) ELSE d.status[i]]
    BY <1>1 DEF RefreshExemption, SameIds, SameReceipts, SameCredit, SameBills, Columns
<1> HIDE DEF e
<1>3. LiveInvoices(e) = LiveInvoices(d) /\ \A i : ReceiptPaid(e, i) = ReceiptPaid(d, i)
    BY <1>2 DEF LiveInvoices, ReceiptPaid, SameIds, SameReceipts
<1>4. NoCreditYet(e)
    BY <1>2, <1>3 DEF Marked, NoCreditYet, SameReceipts, SameCredit, SameBills
<1>5. \A i \in d.voidedInvoices : e.status[i] = "Voided"
    BY <1>1, <1>2 DEF Marked, VoidedMarked, StatusOf
<1> QED
    BY <1>2, <1>4, <1>5 DEF Marked, VoidedMarked, SameIds, e

\* A rebuild leaves a credit row, and recalculates live invoices only.
LEMMA RebuildMarked ==
    ASSUME NEW d, Typed(d), Marked(d)
    PROVE  Marked(Rebuild(d))
<1> DEFINE L == LiveInvoices(d)
           c == Placed(d)
           b == Recalculate(c, L)
           e == VerifyCredit(b)
<1>1. Rebuild(d) = e
    BY RebuildIsPlaced
<1>2. Typed(c) /\ SameIds(d, c) /\ SameCaches(d, c) /\ c.hasCredit = TRUE
    BY PlacedTyped, PlacedFields
<1> HIDE DEF c
<1>3. Stays(d, c)
    BY <1>2 DEF Stays, SameIds, SameCaches
<1>4. L \cap c.voidedInvoices = {}
    BY <1>2 DEF SameIds, LiveInvoices
<1> HIDE DEF L
<1>5. Typed(b) /\ Stays(c, b)
    BY <1>2, <1>4, RecalculateTyped, RecalculateStays
<1> HIDE DEF b
<1>6. Stays(b, e)
    BY <1>5, VerifyCreditStays
<1> HIDE DEF e
<1>7. Stays(d, e) /\ e.hasCredit
    BY <1>2, <1>3, <1>5, <1>6, StaysTransitive DEF Stays
<1> QED
    BY <1>1, <1>7, StaysMarked DEF Marked, NoCreditYet

\* Without credit nothing is paid with credit.
LEMMA FreshCreditPaid ==
    ASSUME NEW d, NoCredit(d), ~d.hasCredit, NEW i
    PROVE  CreditPaid(d, i) = 0
BY NoRowsNoCreditPaid DEF NoCredit

\* Once a student has a credit row, or never had credit, and the voided stay marked.
LEMMA MarkedAfter ==
    ASSUME NEW d, VoidedMarked(d), NEW e, Stays(d, e), d.hasCredit \/ NoCreditYet(e)
    PROVE  Marked(e)
BY StaysMarked DEF Marked, NoCreditYet, Stays

\* A new invoice draws no credit that there is not, and its reconciliation gives credit
\* for what receipts paid beyond its bill.
LEMMA SaveNewInvoiceMarked ==
    ASSUME NEW d, Typed(d), Marked(d), NEW i \in Invoices \ d.invoices, NEW t \in Terms,
           NEW net \in Nat, NEW date \in Dates, NEW due \in Dates,
           SaveNewInvoice(d, i, t, net, date, due).ok
    PROVE  Marked(SaveNewInvoice(d, i, t, net, date, due).db)
<1> DEFINE pre == CreditToApply(d, net)
           src == CreditSource(d, pre)
           deducted == IF pre > 0 THEN DeductCredit(d, pre) ELSE d
           inserted == Inserted(deducted, i, t, net, date, due)
           e == Reconcile(inserted).db
           f == [e EXCEPT !.calloc = @ \union {CreditRow(e, i, pre, src)}]
           g == IF CreditPaid(e, i) < pre THEN f ELSE e
<1>0. /\ SaveNewInvoice(d, i, t, net, date, due).db = g
      /\ SaveNewInvoice(d, i, t, net, date, due).ok = Reconcile(inserted).ok
    BY DEF SaveNewInvoice, WithCreditRow, Inserted
<1>1. pre \in Nat /\ d.credit - pre \in Nat /\ (~d.hasCredit => pre = 0)
    BY CreditToApplyIsNat, NothingToApply DEF Typed
<1>2. /\ Typed(deducted) /\ Stays(d, deducted) /\ SameIds(d, deducted)
      /\ ~d.hasCredit => deducted = d
    <2>1. LET c == DeductCredit(d, pre) IN Typed(c) /\ SameIds(d, c) /\ Stays(d, c)
        BY <1>1, DeductCreditTyped, DeductCreditStays
    <2>2. Typed(d) /\ SameIds(d, d) /\ Stays(d, d)
        BY DEF SameIds, Stays
    <2> QED
        BY <1>1, <2>1, <2>2
<1> HIDE DEF deducted, pre, src
<1>3. /\ Typed(inserted) /\ Stays(deducted, inserted)
      /\ SameReceipts(deducted, inserted) /\ SameCredit(deducted, inserted)
      /\ inserted.calloc = deducted.calloc
    <2>1. DOMAIN deducted = Columns /\ deducted.voidedInvoices \subseteq deducted.invoices
          /\ deducted.status \in [Invoices -> Statuses] /\ deducted.invoices = d.invoices
          /\ d.invoices \subseteq Invoices
        BY <1>2 DEF Typed, Ids, TypedCaches, SameIds
    <2>2. Typed(inserted) /\ inserted.voidedInvoices = deducted.voidedInvoices
        <3>1. Typed(deducted)
            BY <1>2
        <3>2. /\ Typed(inserted) /\ SameReceipts(deducted, inserted)
              /\ inserted.invoices = deducted.invoices \union {i}
              /\ inserted.voidedInvoices = deducted.voidedInvoices
              /\ inserted.receipts = deducted.receipts
              /\ inserted.voidedReceipts = deducted.voidedReceipts
            BY ONLY <3>1, InsertedTyped, i \in Invoices, t \in Terms, net \in Nat,
                    date \in Dates, due \in Dates
        <3> QED
            BY <3>2
    <2>3. /\ SameReceipts(deducted, inserted) /\ SameCredit(deducted, inserted)
          /\ inserted.calloc = deducted.calloc
          /\ inserted.status = [deducted.status EXCEPT ![i] = StatusOf(FALSE, net)]
        BY <2>1 DEF Inserted, SameReceipts, SameCredit, Columns
    <2> HIDE DEF inserted
    <2>4. \A j \in deducted.voidedInvoices : inserted.status[j] = deducted.status[j]
        <3>1. \A j \in deducted.voidedInvoices : j \in Invoices /\ j # i
            BY <2>1
        <3> DEFINE before == deducted.status  after == inserted.status  st == StatusOf(FALSE, net)
        <3>2. before \in [Invoices -> Statuses] /\ after = [before EXCEPT ![i] = st]
            BY <2>1, <2>3
        <3> HIDE DEF before, after, st
        <3>3. \A j \in Invoices : j # i => after[j] = before[j]
            BY <3>2
        <3> QED
            BY <3>1, <3>3 DEF before, after
    <2> QED
        BY <2>2, <2>3, <2>4 DEF Stays, SameCredit
<1> HIDE DEF inserted
<1>4. Typed(e) /\ Stays(inserted, e)
    BY <1>3, ReconcileTyped, ReconcileStays
<1>5. ASSUME ~d.hasCredit
      PROVE  NoCreditYet(e)
    <2>1. NoCredit(d)
        BY NoCreditYetIs DEF Marked
    <2>2. NoCredit(inserted)
        BY <1>2, <1>3, <1>5, <2>1 DEF NoCredit, SameReceipts, SameCredit
    <2> QED
        BY <1>0, <1>3, <2>2, ReconcileNoCreditYet
<1> HIDE DEF e
<1>6. Stays(d, e)
    BY <1>2, <1>3, <1>4, StaysTransitive
<1>7. Stays(e, f)
    BY <1>4 DEF Stays, Typed, Ids, Columns
<1>8. Stays(d, g)
    BY <1>6, <1>7, StaysTransitive
<1>9. ASSUME ~d.hasCredit
      PROVE  NoCreditYet(g)
    <2>1. pre = 0 /\ NoCreditYet(e)
        BY <1>1, <1>5, <1>9
    <2>2. CreditPaid(e, i) \in Nat
        BY <1>4, PaidIsNat DEF Typed
    <2> QED
        BY <2>1, <2>2
<1> HIDE DEF g
<1> QED
    BY <1>0, <1>8, <1>9, MarkedAfter DEF Marked

\* Editing an invoice draws no credit that there is not, and its reconciliation gives
\* credit for what receipts paid beyond the new bill.
LEMMA EditInvoiceMarked ==
    ASSUME NEW d, Typed(d), Marked(d), NEW i \in LiveInvoices(d), NEW net \in Nat,
           NEW date \in Dates, NEW due \in Dates, EditInvoice(d, i, net, date, due).ok
    PROVE  Marked(EditInvoice(d, i, net, date, due).db)
<1> DEFINE credited == ApplyCredit(d, i, d.balance[i])
           edited   == [credited EXCEPT !.total[i] = net, !.date[i] = date, !.due[i] = due]
           recalculated == Recalculate(edited, {i})
           e == Reconcile(recalculated).db
<1>0. EditInvoice(d, i, net, date, due) = Reconcile(recalculated)
    BY DEF EditInvoice
<1>1. i \in Invoices /\ i \notin d.voidedInvoices
    BY LiveInvoicesFinite DEF Typed, LiveInvoices
<1>2. d.balance[i] \in Nat
    BY <1>1 DEF Typed, TypedCaches
<1>3. Typed(credited) /\ SameIds(d, credited) /\ Stays(d, credited)
    BY <1>1, <1>2, ApplyCreditTyped, ApplyCreditStays
<1>4. ~d.hasCredit => credited = d
    BY NothingToApply
<1> HIDE DEF credited
<1>5. /\ Typed(edited) /\ SameIds(credited, edited) /\ SameReceipts(credited, edited)
      /\ SameCredit(credited, edited) /\ edited.calloc = credited.calloc
      /\ Stays(credited, edited)
    <2>1. DOMAIN credited = Columns
        BY <1>3 DEF Typed, Ids
    <2>2. /\ SameIds(credited, edited) /\ SameReceipts(credited, edited)
          /\ SameCaches(credited, edited) /\ SameCredit(credited, edited)
          /\ edited.calloc = credited.calloc /\ edited.term = credited.term
          /\ edited.date = [credited.date EXCEPT ![i] = date]
          /\ edited.due = [credited.due EXCEPT ![i] = due]
          /\ edited.total = [credited.total EXCEPT ![i] = net]
        BY <2>1 DEF SameIds, SameReceipts, SameCaches, SameCredit, Columns
    <2> HIDE DEF edited
    <2>3. TypedBills(edited)
        <3>1. TypedBills(credited)
            BY <1>3 DEF Typed
        <3>2. /\ edited.term = credited.term
              /\ edited.date = [credited.date EXCEPT ![i] = date]
              /\ edited.due = [credited.due EXCEPT ![i] = due]
              /\ edited.total = [credited.total EXCEPT ![i] = net]
            BY <2>2
        <3> HIDE <1>3, <2>2
        <3> QED
            BY <1>1, <3>1, <3>2 DEF TypedBills
    <2>4. Ids(edited) /\ TypedCaches(edited)
        BY <1>3, <2>2 DEF Typed, Ids, TypedCaches, SameIds, SameCaches, SameReceipts
    <2>5. TypedRows(edited) /\ TypedCredit(edited)
        BY <1>3, <2>2 DEF Typed, TypedRows, TypedCredit, SameReceipts, SameCredit
    <2>6. Stays(credited, edited)
        BY <2>2 DEF Stays, SameIds, SameCaches, SameCredit
    <2> QED
        BY <2>2, <2>3, <2>4, <2>5, <2>6 DEF Typed
<1> HIDE DEF edited
<1>6. edited.voidedInvoices = d.voidedInvoices
    BY <1>3, <1>5 DEF SameIds
<1>7. /\ Typed(recalculated) /\ Stays(edited, recalculated)
      /\ SameCredit(edited, recalculated) /\ recalculated.calloc = edited.calloc
      /\ recalculated.rcred = edited.rcred
    <2>1. {i} \cap edited.voidedInvoices = {}
        BY <1>1, <1>6
    <2>2. DOMAIN edited = Columns
        BY <1>5 DEF Typed, Ids
    <2>3. recalculated.rcred = edited.rcred
        BY <2>2 DEF Recalculate, Columns
    <2> QED
        BY <1>5, <2>1, <2>3, RecalculateTyped, RecalculateStays
<1> HIDE DEF recalculated
<1>8. Stays(recalculated, e)
    BY <1>7, ReconcileStays
<1>9. ASSUME ~d.hasCredit
      PROVE  NoCreditYet(e)
    <2>1. NoCredit(d)
        BY NoCreditYetIs DEF Marked
    <2>2. NoCredit(recalculated)
        BY <1>4, <1>5, <1>7, <1>9, <2>1 DEF NoCredit, SameReceipts, SameCredit
    <2> QED
        BY <1>0, <1>7, <2>2, ReconcileNoCreditYet
<1> HIDE DEF e
<1>10. Stays(d, e)
    BY <1>3, <1>5, <1>7, <1>8, StaysTransitive
<1> QED
    BY <1>0, <1>9, <1>10, MarkedAfter DEF Marked, e

\* Voiding an invoice marks it; without credit it gives none back.
LEMMA VoidInvoiceMarked ==
    ASSUME NEW d, Typed(d), Marked(d), NEW i \in LiveInvoices(d), VoidInvoice(d, i).ok
    PROVE  Marked(VoidInvoice(d, i).db)
<1> DEFINE marked   == [d EXCEPT !.voidedInvoices = @ \union {i}]
           updated  == Recalculate(marked, {i})
           reversed == ReverseCreditAllocations(updated, i)
           cleared  == [reversed EXCEPT
                         !.term[i] = NoTerm,
                         !.alloc   = [r \in Receipts |->
                                      [j \in Invoices |-> IF j = i THEN 0 ELSE @[r][j]]]]
           e == Reconcile(cleared).db
<1>0. VoidInvoice(d, i) = Reconcile(cleared)
    BY DEF VoidInvoice
<1>1. i \in Invoices /\ i \in d.invoices
    BY LiveInvoicesFinite DEF Typed, LiveInvoices
<1>2. /\ Typed(marked) /\ marked.voidedInvoices = d.voidedInvoices \union {i}
      /\ SameReceipts(d, marked) /\ SameCredit(d, marked) /\ marked.calloc = d.calloc
      /\ marked.status = d.status
    <2>1. DOMAIN d = Columns
        BY DEF Typed, Ids
    <2>2. /\ DOMAIN marked = Columns /\ marked.voidedInvoices = d.voidedInvoices \union {i}
          /\ marked.invoices = d.invoices /\ marked.receipts = d.receipts
          /\ marked.voidedReceipts = d.voidedReceipts
          /\ SameBills(d, marked) /\ SameCaches(d, marked) /\ SameReceipts(d, marked)
          /\ SameCredit(d, marked) /\ marked.calloc = d.calloc
        BY <2>1 DEF SameBills, SameCaches, SameReceipts, SameCredit, Columns
    <2> HIDE DEF marked
    <2>3. Ids(marked)
        BY <1>1, <2>2 DEF Typed, Ids, SameReceipts
    <2>4. TypedBills(marked) /\ TypedCaches(marked)
        BY <2>2 DEF Typed, TypedBills, TypedCaches, SameBills, SameCaches
    <2>5. TypedRows(marked) /\ TypedCredit(marked)
        BY <2>2 DEF Typed, TypedRows, TypedCredit, SameReceipts, SameCredit
    <2> QED
        BY <2>2, <2>3, <2>4, <2>5 DEF Typed, SameCaches
<1> HIDE DEF marked
<1>3. /\ Typed(updated) /\ SameReceipts(marked, updated)
      /\ SameCredit(marked, updated) /\ updated.calloc = marked.calloc
      /\ updated.voidedInvoices = marked.voidedInvoices
      /\ \A j \in marked.voidedInvoices : updated.status[j] = "Voided"
    <2>1. DOMAIN marked = Columns /\ marked.voidedInvoices \subseteq Invoices
        BY <1>2 DEF Typed, Ids
    <2>2. /\ SameIds(marked, updated) /\ SameReceipts(marked, updated)
          /\ SameCredit(marked, updated) /\ updated.calloc = marked.calloc
          /\ updated.status = [j \in Invoices |->
               IF j \in {i}
               THEN StatusOf(j \in marked.voidedInvoices,
                             Monus(marked.total[j], TotalPaid(marked, j)))
               ELSE marked.status[j]]
        BY <2>1 DEF Recalculate, SameIds, SameReceipts, SameCredit, Columns
    <2>3. Typed(updated)
        BY <1>2, RecalculateTyped
    <2> HIDE DEF updated
    <2>4. ASSUME NEW j \in marked.voidedInvoices
          PROVE  updated.status[j] = "Voided"
        <3>1. CASE j = i
            BY <1>1, <2>2, <2>4, <3>1 DEF StatusOf
        <3>2. CASE j # i
            <4>1. j \in d.voidedInvoices /\ j \in Invoices
                BY <1>2, <2>1, <3>2
            <4> QED
                BY <1>2, <2>2, <3>2, <4>1 DEF Marked, VoidedMarked
        <3> QED
            BY <3>1, <3>2
    <2> QED
        BY <2>2, <2>3, <2>4 DEF SameIds
<1> HIDE DEF updated
<1>4. VoidedMarked(updated)
    BY <1>3 DEF VoidedMarked
<1>5. /\ Typed(reversed) /\ SameReceipts(updated, reversed)
      /\ reversed.hasCredit = updated.hasCredit /\ reversed.credited = updated.credited
      /\ reversed.credit = updated.credit + (IF CreditPaid(updated, i) > Tol
                                             THEN CreditPaid(updated, i) ELSE 0)
      /\ reversed.calloc \subseteq updated.calloc
      /\ Stays(updated, reversed)
    <2>1. Typed(reversed)
        BY <1>1, <1>3, ReverseCreditAllocationsTyped
    <2>2. DOMAIN updated = Columns
        BY <1>3 DEF Typed, Ids
    <2> HIDE DEF updated
    <2> QED
        BY <2>1, <2>2 DEF ReverseCreditAllocations, SameReceipts, Stays, Columns
<1> HIDE DEF reversed
<1>6. /\ Typed(cleared) /\ Stays(reversed, cleared) /\ cleared.rcred = reversed.rcred
      /\ SameCredit(reversed, cleared) /\ cleared.calloc = reversed.calloc
    <2>1. DOMAIN reversed = Columns
        BY <1>5 DEF Typed, Ids
    <2>2. /\ SameIds(reversed, cleared) /\ SameCaches(reversed, cleared)
          /\ SameCredit(reversed, cleared) /\ cleared.calloc = reversed.calloc
          /\ cleared.term = [reversed.term EXCEPT ![i] = NoTerm]
          /\ cleared.date = reversed.date /\ cleared.due = reversed.due
          /\ cleared.total = reversed.total
          /\ cleared.amount = reversed.amount /\ cleared.rcred = reversed.rcred
          /\ cleared.alloc = [r \in Receipts |->
                                [j \in Invoices |-> IF j = i THEN 0 ELSE reversed.alloc[r][j]]]
        BY <2>1 DEF SameIds, SameCaches, SameCredit, Columns
    <2> HIDE DEF cleared
    <2>3. TypedBills(cleared)
        BY <1>5, <2>2 DEF Typed, TypedBills
    <2>4. cleared.alloc \in [Receipts -> [Invoices -> Nat]]
        <3>1. reversed.alloc \in [Receipts -> [Invoices -> Nat]]
            BY <1>5 DEF Typed, TypedRows
        <3>2. \A r \in Receipts :
                 [j \in Invoices |-> IF j = i THEN 0 ELSE reversed.alloc[r][j]]
                    \in [Invoices -> Nat]
            BY <3>1
        <3>3. cleared.alloc = [r \in Receipts |->
                                [j \in Invoices |-> IF j = i THEN 0 ELSE reversed.alloc[r][j]]]
            BY <2>2
        <3> HIDE <2>2
        <3> QED
            BY <3>2, <3>3
    <2>5. TypedRows(cleared)
        BY <1>5, <2>2, <2>4 DEF Typed, TypedRows
    <2>6. Ids(cleared)
        BY <1>5, <2>2, <2>4 DEF Typed, Ids, SameIds
    <2>7. TypedCaches(cleared) /\ TypedCredit(cleared)
        BY <1>5, <2>2 DEF Typed, TypedCaches, TypedCredit, SameCaches, SameCredit
    <2>8. Stays(reversed, cleared)
        BY <2>2 DEF Stays, SameIds, SameCaches, SameCredit
    <2> QED
        BY <2>2, <2>3, <2>5, <2>6, <2>7, <2>8 DEF Typed
<1> HIDE DEF cleared
<1>7. Stays(cleared, e)
    BY <1>6, ReconcileStays
<1>8. ASSUME ~d.hasCredit
      PROVE  NoCreditYet(e)
    <2>1. NoCredit(d)
        BY NoCreditYetIs DEF Marked
    <2>2. NoCredit(updated) /\ ~updated.hasCredit
        BY <1>2, <1>3, <1>8, <2>1 DEF NoCredit, SameReceipts, SameCredit
    <2>3. CreditPaid(updated, i) = 0 /\ Tol \in Nat /\ updated.credit = 0
        BY <2>2, FreshCreditPaid, AmountsAssumption DEF NoCredit
    <2>4. reversed.credit = 0
        BY <1>5, <2>3
    <2>5. NoCredit(reversed)
        BY <1>5, <2>2, <2>4 DEF NoCredit, SameReceipts
    <2>6. NoCredit(cleared)
        BY <1>6, <2>5 DEF NoCredit, SameCredit
    <2> QED
        BY <1>0, <1>6, <2>6, ReconcileNoCreditYet
<1> HIDE DEF e
<1>9. Stays(updated, e)
    BY <1>5, <1>6, <1>7, StaysTransitive
<1>10. VoidedMarked(e)
    BY <1>4, <1>9, StaysMarked
<1>11. d.hasCredit => e.hasCredit
    BY <1>2, <1>3, <1>9 DEF Stays, SameCredit
<1>12. NoCreditYet(e)
    BY <1>8, <1>11 DEF NoCreditYet
<1> QED
    BY <1>0, <1>10, <1>12 DEF Marked, e

\* What a payment puts on an invoice stays within its bill, up to the tolerance.
LEMMA PayInvoicesWithin ==
    ASSUME NEW d, Typed(d), NEW r \in Receipts, NEW x \in Nat, NotOverpaid(d)
    PROVE  NotOverpaid(PayInvoices(d, r, x))
<1> DEFINE share == Shares(d, x)
           e     == PayInvoices(d, r, x)
<1>1. /\ e.invoices = d.invoices /\ e.voidedInvoices = d.voidedInvoices
      /\ e.total = d.total /\ e.hasCredit = d.hasCredit
      /\ e.alloc = [d.alloc EXCEPT ![r] = share]
    BY DEF PayInvoices, Typed, Ids, Columns
<1>2. Typed(e) /\ share \in [Invoices -> Nat] /\ \A i \in Invoices : share[i] <= Headroom(d, i)
    BY PayInvoicesTyped, SharesTyped
<1>3. /\ d.alloc \in [Receipts -> [Invoices -> Nat]] /\ e.alloc \in [Receipts -> [Invoices -> Nat]]
      /\ d.total \in [Invoices -> Nat] /\ d.balance \in [Invoices -> Nat] /\ Tol \in Nat
    BY <1>2, AmountsAssumption DEF Typed, TypedRows, TypedBills, TypedCaches
<1> HIDE DEF e, share
<1>4. ASSUME ~d.hasCredit, NEW i \in LiveInvoices(d)
      PROVE  ReceiptPaid(e, i) <= d.total[i] + Tol
    <2>1. i \in Invoices /\ ReceiptPaid(d, i) <= d.total[i] + Tol
        BY <1>4 DEF NotOverpaid, LiveInvoices, Typed, Ids
    <2>2. ReceiptPaid(d, i) \in Nat /\ ReceiptPaid(e, i) \in Nat
        BY <1>2, <2>1, PaidIsNat DEF Typed
    <2>3. PaidTo(e.alloc, i) = PaidTo(d.alloc, i) - d.alloc[r][i] + e.alloc[r][i]
        <3>1. \A o \in Receipts \ {r} : e.alloc[o][i] = d.alloc[o][i]
            BY <1>1, <1>3
        <3> QED
            BY <1>3, <2>1, <3>1, PaidToUpdate
    <2>4. e.alloc[r][i] = share[i] /\ d.alloc[r][i] \in Nat /\ share[i] \in Nat
        BY <1>1, <1>2, <1>3, <2>1
    <2>5. share[i] <= Headroom(d, i)
        BY <1>2, <2>1
    <2> DEFINE h == Monus(d.total[i], ReceiptPaid(d, i))
    <2>6. /\ h \in Nat /\ d.total[i] \in Nat /\ d.balance[i] \in Nat
          /\ Headroom(d, i) = IF h > Tol THEN Least(h, d.balance[i]) ELSE 0
        BY <1>3, <2>1, <2>2 DEF Headroom, Monus
    <2>7. h = 0 \/ ReceiptPaid(d, i) + h = d.total[i]
        BY <2>2, <2>6 DEF Monus
    <2> HIDE DEF h
    <2>8. share[i] <= h
        BY <1>3, <2>4, <2>5, <2>6 DEF Least
    <2>9. ReceiptPaid(e, i) <= ReceiptPaid(d, i) + share[i]
        BY <2>2, <2>3, <2>4 DEF ReceiptPaid
    <2> QED
        BY <1>3, <2>1, <2>2, <2>4, <2>6, <2>7, <2>8, <2>9
<1>5. LiveInvoices(e) = LiveInvoices(d)
    BY <1>1 DEF LiveInvoices
<1> QED
    BY <1>1, <1>4, <1>5 DEF NotOverpaid, e

\* A payment reaches no voided invoice, and changes no credit.
LEMMA PayInvoicesStays ==
    ASSUME NEW d, Typed(d), NEW r \in Receipts, NEW x \in Nat
    PROVE  LET e == PayInvoices(d, r, x)
           IN Stays(d, e) /\ SameCredit(d, e) /\ e.calloc = d.calloc /\ e.rcred = d.rcred
<1> DEFINE share == Shares(d, x)
           e     == PayInvoices(d, r, x)
<1>1. DOMAIN d = Columns /\ d.voidedInvoices \subseteq Invoices
    BY DEF Typed, Ids
<1>2. \A i \in Invoices : i \notin OpenFor(d) => share[i] = 0
    BY SharesTyped
<1>3. /\ e.voidedInvoices = d.voidedInvoices
      /\ SameCredit(d, e) /\ e.calloc = d.calloc /\ e.rcred = d.rcred
      /\ e.status = [i \in Invoices |->
           IF share[i] > 0 THEN StatusOf(FALSE, d.balance[i] - share[i]) ELSE d.status[i]]
    BY <1>1 DEF PayInvoices, SameCredit, Columns
<1> HIDE DEF e, share
<1>4. \A i \in d.voidedInvoices : i \in Invoices /\ i \notin OpenFor(d)
    BY <1>1 DEF OpenFor, LiveInvoices
<1>5. \A i \in d.voidedInvoices : i \in Invoices /\ ~(share[i] > 0)
    BY <1>2, <1>4
<1>6. \A i \in d.voidedInvoices : e.status[i] = d.status[i]
    BY <1>3, <1>5
<1> QED
    BY <1>3, <1>6 DEF Stays, SameCredit, e

\* What is left of a payment makes a credit row.
LEMMA AddCreditStays ==
    ASSUME NEW d, Typed(d), NEW x \in Nat
    PROVE  LET e == AddCredit(d, x)
           IN Typed(e) /\ e.hasCredit /\ Stays(d, e)
<1> DEFINE raised == [d EXCEPT !.hasCredit = TRUE, !.credit = @ + x]
           e == VerifyCredit(raised)
<1>1. AddCredit(d, x) = e
    BY DEF AddCredit
<1>2. Typed(e)
    BY <1>1, AddCreditTyped
<1>3. DOMAIN raised = Columns /\ raised.hasCredit = TRUE /\ Stays(d, raised)
    BY DEF Typed, Ids, Columns, Stays
<1> HIDE DEF raised
<1>4. e.hasCredit = raised.hasCredit /\ Stays(raised, e)
    BY <1>3, VerifyCreditFrame DEF Stays, SameIds, SameCaches
<1> HIDE DEF e
<1> QED
    BY <1>1, <1>2, <1>3, <1>4, StaysTransitive

\* A payment leaves nothing overpaid, and what is left of it makes a credit row; so does
\* it if the credit limit stops its reconciliation.
LEMMA CreateReceiptMarked ==
    ASSUME NEW d, Typed(d), Marked(d), NEW r \in Receipts, NEW x \in Nat
    PROVE  Marked(CreateReceipt(d, r, x).db)
<1> DEFINE paid     == PayInvoices(d, r, x)
           left     == x - Allocated(paid, r)
           added    == AddCredit(paid, left)
           noted    == [added EXCEPT !.rcred[r] = left]
           credited == IF left > Tol THEN noted ELSE paid
           e        == Reconcile(credited).db
<1>0. CreateReceipt(d, r, x).db = e
    BY DEF CreateReceipt, BankRest
<1>1. /\ Typed(paid) /\ Stays(d, paid) /\ SameCredit(d, paid)
      /\ paid.calloc = d.calloc /\ paid.rcred = d.rcred
    <2>1. /\ Typed(paid) /\ paid.rcred = d.rcred
          /\ paid.receipts = d.receipts \union {r} /\ paid.voidedReceipts = d.voidedReceipts
          /\ paid.amount = [d.amount EXCEPT ![r] = x]
          /\ paid.alloc = [d.alloc EXCEPT ![r] = Shares(d, x)]
        BY ONLY Typed(d), r \in Receipts, x \in Nat, PayInvoicesTyped
    <2>2. Stays(d, paid) /\ SameCredit(d, paid) /\ paid.calloc = d.calloc /\ paid.rcred = d.rcred
        BY ONLY Typed(d), r \in Receipts, x \in Nat, PayInvoicesStays
    <2> QED
        BY <2>1, <2>2
<1>2. NoCredit(paid) /\ NotOverpaid(paid)
    <2>1. NoCredit(d) /\ NotOverpaid(d)
        BY NoCreditYetIs DEF Marked
    <2>2. NotOverpaid(paid)
        BY <2>1, PayInvoicesWithin
    <2> HIDE DEF paid
    <2> QED
        BY <1>1, <2>1, <2>2 DEF NoCredit, SameCredit
<1>3. left \in Nat
    <2>1. /\ left = x - SumFunctionOnSet(Shares(d, x), Invoices)
          /\ Shares(d, x) \in [Invoices -> Nat]
          /\ SumFunctionOnSet(Shares(d, x), Invoices) <= x
        <3>0. /\ Typed(paid) /\ paid.rcred = d.rcred
              /\ paid.receipts = d.receipts \union {r} /\ paid.voidedReceipts = d.voidedReceipts
              /\ paid.amount = [d.amount EXCEPT ![r] = x]
              /\ paid.alloc = [d.alloc EXCEPT ![r] = Shares(d, x)]
            BY ONLY Typed(d), r \in Receipts, x \in Nat, PayInvoicesTyped
        <3>1. paid.alloc = [d.alloc EXCEPT ![r] = Shares(d, x)] /\ r \in DOMAIN d.alloc
            BY <3>0 DEF Typed, Ids
        <3>2. paid.alloc[r] = Shares(d, x)
            BY <3>1
        <3> QED
            BY <3>2, SharesTyped, SharesWithinPayment DEF Allocated
    <2>2. SumFunctionOnSet(Shares(d, x), Invoices) \in Nat
        <3>1. \A i \in Invoices : Shares(d, x)[i] \in Nat
            BY <2>1
        <3> QED
            BY <3>1, SumNat, IdsAssumption
    <2> QED
        BY <2>1, <2>2
<1> HIDE DEF paid, left
<1>4. Typed(added) /\ added.hasCredit /\ Stays(paid, added)
    BY <1>1, <1>3, AddCreditStays
<1> HIDE DEF added
<1>5. Typed(noted) /\ noted.hasCredit /\ Stays(added, noted)
    <2>1. Typed(noted)
        BY <1>3, <1>4, SetReceiptCreditTyped
    <2> QED
        BY <1>4, <2>1 DEF Typed, Ids, Columns, Stays
<1> HIDE DEF noted
<1>6. /\ Typed(credited) /\ NoCredit(credited) /\ NotOverpaid(credited)
      /\ Stays(d, credited)
    <2>1. CASE left > Tol
        BY <1>1, <1>4, <1>5, <2>1, StaysTransitive DEF NoCredit, NotOverpaid
    <2>2. CASE ~(left > Tol)
        BY <1>1, <1>2, <2>2
    <2> QED
        BY <2>1, <2>2
<1> HIDE DEF credited
<1>7. NoCreditYet(e) /\ Stays(credited, e)
    BY <1>6, ReconcileNoCreditYet
<1> HIDE DEF e
<1> QED
    BY <1>0, <1>6, <1>7, StaysTransitive, MarkedAfter DEF Marked

\* Taking credit rows back keeps the credit row and the marks.
LEMMA ReverseCreditStays ==
    ASSUME NEW d, Typed(d), VoidedMarked(d), NEW spent
    PROVE  LET e == ReverseCredit(d, spent)
           IN e.hasCredit = d.hasCredit /\ DOMAIN e = Columns /\ VoidedMarked(e)
<1> DEFINE e       == ReverseCredit(d, spent)
           back    == Reversed(d, spent)
           touched == {c \in d.calloc : back[c] > 0}
           last(i) == CHOOSE c \in touched :
                        c.inv = i /\ \A b \in touched : b.inv = i => c.seq <= b.seq
           freed   == [i \in Invoices |-> IF \E c \in touched : c.inv = i THEN back[last(i)] ELSE 0]
<1>1. DOMAIN d = Columns /\ d.voidedInvoices \subseteq Invoices
    BY DEF Typed, Ids
<1>2. /\ DOMAIN e = Columns /\ e.hasCredit = d.hasCredit /\ e.voidedInvoices = d.voidedInvoices
      /\ e.status = [i \in Invoices |->
                       IF freed[i] > 0
                       THEN StatusOf(i \in d.voidedInvoices, d.balance[i] + freed[i])
                       ELSE d.status[i]]
    BY <1>1 DEF ReverseCredit, Columns
<1> HIDE DEF e, freed
<1>3. ASSUME NEW i \in d.voidedInvoices
      PROVE  e.status[i] = "Voided"
    BY <1>1, <1>2 DEF VoidedMarked, StatusOf
<1> QED
    BY <1>2, <1>3 DEF VoidedMarked, e

\* Voiding a receipt that gave no credit takes none; its rows stay.
LEMMA VoidReceiptMarked ==
    ASSUME NEW d, Typed(d), Marked(d), NEW r \in LiveReceipts(d)
    PROVE  Marked(VoidReceipt(d, r))
<1> DEFINE released == ReleaseInvoices(d, r)
           created  == d.rcred[r]
           over     == Monus(d.amount[r], Allocated(d, r))
           freed    == IF created > d.credit THEN ReverseCredit(released, created - d.credit)
                                             ELSE released
           taken    == [freed EXCEPT !.credit = Monus(@, created), !.rcred[r] = 0]
           kept     == [released EXCEPT !.credit = Monus(@, over)]
<1>0. VoidReceipt(d, r) = IF created > 0 THEN taken ELSE kept
    BY DEF VoidReceipt
<1>1. r \in Receipts /\ DOMAIN d = Columns /\ d.voidedInvoices \subseteq Invoices
    BY LiveReceiptsFinite DEF Typed, Ids
<1>2. /\ Typed(released) /\ SameReceipts(d, released) /\ released.calloc = d.calloc
      /\ SameCredit(d, released)
    BY ReleaseInvoicesTyped
<1>3. /\ released.invoices = d.invoices /\ released.voidedInvoices = d.voidedInvoices
      /\ released.total = d.total /\ DOMAIN released = Columns
      /\ released.status = [i \in Invoices |->
           IF d.alloc[r][i] > 0
           THEN StatusOf(i \in d.voidedInvoices, d.balance[i] + d.alloc[r][i])
           ELSE d.status[i]]
    BY <1>1 DEF ReleaseInvoices, Columns
<1>4. over \in Nat
    <2>1. Allocated(d, r) \in Nat /\ d.amount[r] \in Nat
        BY <1>1, AllocatedIsNat DEF Typed, TypedRows
    <2> QED
        BY <2>1 DEF Monus
<1> HIDE DEF released, over
<1>5. VoidedMarked(released)
    <2>1. ASSUME NEW i \in d.voidedInvoices
          PROVE  released.status[i] = "Voided"
        BY <1>1, <1>3 DEF Marked, VoidedMarked, StatusOf
    <2> QED
        BY <1>3, <2>1 DEF VoidedMarked
<1>6. DOMAIN freed = Columns /\ freed.hasCredit = d.hasCredit /\ VoidedMarked(freed)
    <2>1. CASE created > d.credit
        <3> DEFINE y == created - d.credit
        <3>1. freed = ReverseCredit(released, y)
            BY <2>1
        <3> HIDE DEF freed, y
        <3> QED
            BY <1>2, <1>5, <3>1, ReverseCreditStays DEF SameCredit
    <2>2. CASE ~(created > d.credit)
        BY <1>2, <1>3, <1>5, <2>2 DEF SameCredit
    <2> QED
        BY <2>1, <2>2
<1> HIDE DEF freed
<1>7. taken.hasCredit = d.hasCredit /\ VoidedMarked(taken)
    BY <1>6 DEF VoidedMarked, Columns
<1>8. /\ kept.hasCredit = d.hasCredit /\ VoidedMarked(kept)
      /\ kept.credit = Monus(released.credit, over) /\ kept.calloc = released.calloc
      /\ kept.rcred = released.rcred /\ kept.credited = released.credited
      /\ kept.alloc = released.alloc /\ kept.total = released.total
      /\ LiveInvoices(kept) = LiveInvoices(released)
    BY <1>2, <1>3, <1>5 DEF VoidedMarked, LiveInvoices, SameCredit, Columns
<1> HIDE DEF taken, kept
<1>9. CASE d.hasCredit
    BY <1>0, <1>7, <1>8, <1>9 DEF Marked, NoCreditYet
<1>10. CASE ~d.hasCredit
    <2>1. /\ d.credit = 0 /\ d.calloc = {} /\ (\A q \in Receipts : d.rcred[q] = 0)
          /\ (\A i \in Invoices : d.credited[i] = 0)
          /\ \A i \in LiveInvoices(d) : ReceiptPaid(d, i) <= d.total[i] + Tol
        BY <1>10 DEF Marked, NoCreditYet
    <2>2. VoidReceipt(d, r) = kept
        BY <1>0, <1>1, <2>1
    <2>3. kept.credit = 0
        BY <1>2, <1>4, <1>8, <2>1 DEF SameCredit, Monus
    <2>4. LiveInvoices(kept) = LiveInvoices(d) /\ \A i : ReceiptPaid(kept, i) = ReceiptPaid(d, i)
        BY <1>2, <1>3, <1>8 DEF LiveInvoices, ReceiptPaid, SameReceipts
    <2>5. /\ kept.calloc = {} /\ kept.rcred = d.rcred /\ kept.credited = d.credited
          /\ kept.total = d.total
        BY <1>2, <1>3, <1>8, <2>1 DEF SameReceipts, SameCredit
    <2>6. NoCreditYet(kept)
        BY <2>1, <2>3, <2>4, <2>5 DEF NoCreditYet
    <2> QED
        BY <1>8, <2>2, <2>6 DEF Marked
<1> QED
    BY <1>9, <1>10

\* Every operation keeps it that a student without a credit row never had credit, and that
\* the voided invoices are marked.
LEMMA MarkedStep ==
    ASSUME Balanced(db), Marked(db), [Next]_vars
    PROVE  Marked(db)'
<1> USE DEF Balanced
<1>1. CASE TakePayment
    BY <1>1, CreateReceiptMarked, InputsAssumption DEF TakePayment, Commit, IsNext
<1>2. CASE CancelReceipt
    BY <1>2, VoidReceiptMarked DEF CancelReceipt
<1>3. CASE IssueInvoice
    <2>1. PICK i \in Invoices \ db.invoices, t \in Terms, bill \in Bills, x \in Exemptions,
               date \in Dates, due \in Dates :
                 /\ InvoiceIsValid(bill, x, date, due)
                 /\ Commit(SaveNewInvoice(db, i, t, NetBill(bill, x), date, due))
        BY <1>3 DEF IssueInvoice, IsNext
    <2>2. NetBill(bill, x) \in Nat
        BY <2>1, InputsTyped
    <2> QED
        BY <2>1, <2>2, SaveNewInvoiceMarked DEF Commit
<1>4. CASE ReviseInvoice
    <2>1. PICK t \in Terms, bill \in Bills, x \in Exemptions, date \in Dates, due \in Dates :
            \E i \in InvoicesFor(db, t) :
                 /\ InvoiceIsValid(bill, x, date, due)
                 /\ Commit(EditInvoice(db, i, NetBill(bill, x), date, due))
        BY <1>4 DEF ReviseInvoice
    <2>2. PICK i \in LiveInvoices(db) :
                 /\ InvoiceIsValid(bill, x, date, due)
                 /\ Commit(EditInvoice(db, i, NetBill(bill, x), date, due))
        BY <2>1 DEF InvoicesFor
    <2>3. NetBill(bill, x) \in Nat
        BY <2>2, InputsTyped
    <2> QED
        BY <2>2, <2>3, EditInvoiceMarked DEF Commit
<1>5. CASE CancelInvoice
    BY <1>5, VoidInvoiceMarked DEF CancelInvoice, Commit
<1>6. CASE ReconcileNow
    <2>1. Reconcile(db).ok /\ db' = Reconcile(db).db
        BY <1>6 DEF ReconcileNow, Commit
    <2>2. NoCredit(db) /\ VoidedMarked(db)
        BY NoCreditYetIs DEF Marked
    <2>3. NoCreditYet(Reconcile(db).db) /\ Stays(db, Reconcile(db).db)
        BY <2>1, <2>2, ReconcileNoCreditYet
    <2> QED
        BY <2>1, <2>2, <2>3, StaysMarked DEF Marked
<1>7. CASE RebuildNow
    BY <1>7, RebuildMarked DEF RebuildNow
<1>8. CASE ChangeExemption
    BY <1>8, RefreshExemptionMarked DEF ChangeExemption
<1>9. CASE UNCHANGED vars
    BY <1>9 DEF vars
<1> QED
    BY <1>1, <1>2, <1>3, <1>4, <1>5, <1>6, <1>7, <1>8, <1>9 DEF Next

-----------------------------------------------------------------------------
(* The theorems about the reference ledger                                 *)

\* In every reachable state a student without a credit row has no credit, has given none
\* and is owed none, and the voided invoices are marked so.
THEOREM MarkedAlways == Spec => [](Balanced(db) /\ Marked(db))
<1>1. Init => Balanced(db) /\ Marked(db)
    <2>1. SUFFICES ASSUME Init
                   PROVE  Balanced(db) /\ Marked(db)
        OBVIOUS
    <2>2. db = EmptyDb
        BY <2>1 DEF Init
    <2>3. NoCreditYet(EmptyDb) /\ VoidedMarked(EmptyDb)
        BY DEF EmptyDb, NoCreditYet, VoidedMarked, LiveInvoices
    <2> QED
        BY <2>2, <2>3, EmptyDbBalanced DEF Marked
<1>2. Balanced(db) /\ Marked(db) /\ [Next]_vars => (Balanced(db) /\ Marked(db))'
    BY BalancedStep, MarkedStep
<1> QED
    BY <1>1, <1>2, PTL DEF Spec

\* In every reachable state the rebuild does what the reference ledger does, up to the
\* tolerance; reconciliation, run once for each invoice and once more, does what the
\* reference does in one run, up to the tolerance; and by then it has settled.
THEOREM ServicesAgree == Spec => []ServicesMatchReference
<1>1. Balanced(db) /\ Marked(db) => ServicesMatchReference
    BY RebuildMatches, RunsMatch, RunsConverge DEF Balanced, Marked, ServicesMatchReference
<1> QED
    BY <1>1, MarkedAlways, PTL
=============================================================================
