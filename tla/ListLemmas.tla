----------------------------- MODULE ListLemmas -----------------------------
(***************************************************************************)
(* Facts about lists and sums that the proofs about several components      *)
(* need: lists of flows without duplicates and the order of flows on them,  *)
(* least and greatest elements, and sums over a function or a sequence,     *)
(* which the counters of the queue discs and the queues are.                *)
(***************************************************************************)
EXTENDS Integers, SequencesExt, FiniteSetTheorems, SequenceTheorems, TLAPS

\* A sequence is one over every set that its elements are in.
LEMMA SeqOver ==
  ASSUME NEW S, NEW s \in Seq(S), NEW T, \A i \in 1..Len(s) : s[i] \in T
  PROVE  s \in Seq(T)
<1>1. Len(s) \in Nat /\ s = [i \in 1..Len(s) |-> s[i]]
  BY LenProperties
<1>2. [i \in 1..Len(s) |-> s[i]] \in Seq(T)
  BY <1>1, IsASeq
<1> QED
  BY <1>1, <1>2

\* Appending a new element to a list without duplicates adds none.
LEMMA AppendKeepsDistinct ==
  ASSUME NEW S, NEW s \in Seq(S), NEW e \in S, e \notin ToSet(s),
         \A i, j \in DOMAIN s : s[i] = s[j] => i = j
  PROVE  /\ \A i, j \in DOMAIN Append(s, e) : Append(s, e)[i] = Append(s, e)[j] => i = j
         /\ ToSet(Append(s, e)) = ToSet(s) \cup {e}
<1>1. /\ DOMAIN s = 1..Len(s) /\ Len(s) \in Nat
      /\ Append(s, e) \in Seq(S) /\ Len(Append(s, e)) = Len(s) + 1
      /\ \A i \in 1..Len(s) : Append(s, e)[i] = s[i]
      /\ Append(s, e)[Len(s) + 1] = e
  BY AppendProperties, LenProperties
<1>2. DOMAIN Append(s, e) = 1..Len(s) + 1
  BY <1>1, LenProperties
<1>3. \A i \in 1..Len(s) : s[i] # e
  BY <1>1 DEF ToSet
<1>4. \A i, j \in DOMAIN Append(s, e) : Append(s, e)[i] = Append(s, e)[j] => i = j
  BY <1>1, <1>2, <1>3
<1>5. ToSet(Append(s, e)) = ToSet(s) \cup {e}
  BY <1>1, <1>2 DEF ToSet
<1> QED
  BY <1>4, <1>5

\* Taking the front of such a list off leaves the others.
LEMMA TailKeepsDistinct ==
  ASSUME NEW S, NEW s \in Seq(S), s # <<>>,
         \A i, j \in DOMAIN s : s[i] = s[j] => i = j
  PROVE  /\ Tail(s) \in Seq(S)
         /\ \A i, j \in DOMAIN Tail(s) : Tail(s)[i] = Tail(s)[j] => i = j
         /\ ToSet(Tail(s)) = ToSet(s) \ {Head(s)}
<1>1. /\ DOMAIN s = 1..Len(s) /\ Len(s) \in Nat \ {0}
      /\ Tail(s) \in Seq(S) /\ Len(Tail(s)) = Len(s) - 1
      /\ Head(s) = s[1]
      /\ DOMAIN Tail(s) = 1..Len(s) - 1
  BY HeadTailProperties, LenProperties, EmptySeq
<1>2. \A i \in 1..Len(s) - 1 : Tail(s)[i] = s[i + 1]
  BY <1>1
<1>3. \A i, j \in DOMAIN Tail(s) : Tail(s)[i] = Tail(s)[j] => i = j
  BY <1>1, <1>2
<1>4. ASSUME NEW x PROVE x \in ToSet(Tail(s)) <=> x \in ToSet(s) \ {Head(s)}
  <2>1. ASSUME x \in ToSet(Tail(s)) PROVE x \in ToSet(s) \ {Head(s)}
    <3>1. PICK i \in 1..Len(s) - 1 : x = s[i + 1]
      BY <1>1, <1>2, <2>1 DEF ToSet
    <3>2. i + 1 \in 1..Len(s) /\ i + 1 # 1
      BY <1>1
    <3> QED
      BY <1>1, <3>1, <3>2 DEF ToSet
  <2>2. ASSUME x \in ToSet(s) \ {Head(s)} PROVE x \in ToSet(Tail(s))
    <3>1. PICK i \in 1..Len(s) : x = s[i]
      BY <1>1, <2>2 DEF ToSet
    <3>2. i - 1 \in 1..Len(s) - 1 /\ i = (i - 1) + 1
      BY <1>1, <2>2, <3>1
    <3>3. Tail(s)[i - 1] = x
      BY <1>2, <3>1, <3>2
    <3> QED
      BY <1>1, <3>2, <3>3 DEF ToSet
  <2> QED
    BY <2>1, <2>2
<1> QED
  BY <1>1, <1>3, <1>4

\* Moving its front to its end changes the order only.
LEMMA RotateKeepsDistinct ==
  ASSUME NEW S, NEW s \in Seq(S), s # <<>>,
         \A i, j \in DOMAIN s : s[i] = s[j] => i = j
  PROVE  LET r == Append(Tail(s), Head(s))
         IN  /\ r \in Seq(S)
             /\ \A i, j \in DOMAIN r : r[i] = r[j] => i = j
             /\ ToSet(r) = ToSet(s)
             /\ Head(s) \in ToSet(s)
<1> DEFINE t == Tail(s)
           h == Head(s)
<1>1. /\ t \in Seq(S)
      /\ \A i, j \in DOMAIN t : t[i] = t[j] => i = j
      /\ ToSet(t) = ToSet(s) \ {h}
  BY TailKeepsDistinct
<1>2. h \in S /\ h \in ToSet(s)
  <2>1. 1 \in DOMAIN s /\ h = s[1]
    BY HeadTailProperties, LenProperties, EmptySeq
  <2> QED
    BY <2>1, HeadTailProperties DEF ToSet
<1>3. Append(t, h) \in Seq(S)
  BY <1>1, <1>2, AppendProperties
<1>4. /\ \A i, j \in DOMAIN Append(t, h) : Append(t, h)[i] = Append(t, h)[j] => i = j
      /\ ToSet(Append(t, h)) = ToSet(t) \cup {h}
  <2> HIDE DEF t, h
  <2> QED
    BY <1>1, <1>2, AppendKeepsDistinct
<1> QED
  BY <1>1, <1>2, <1>3, <1>4
\* Taking the last of such a list off leaves the others.
LEMMA FrontKeepsDistinct ==
  ASSUME NEW S, NEW s \in Seq(S), s # <<>>,
         \A i, j \in DOMAIN s : s[i] = s[j] => i = j
  PROVE  /\ Front(s) \in Seq(S) /\ Last(s) \in S
         /\ \A i, j \in DOMAIN Front(s) : Front(s)[i] = Front(s)[j] => i = j
<1>1. DOMAIN s = 1..Len(s) /\ Len(s) \in Nat \ {0}
  BY LenProperties, EmptySeq
<1>2. \A i \in 1..Len(s) : s[i] \in S
  BY ElementOfSeq
<1>3. /\ Front(s) \in Seq(S) /\ Len(Front(s)) = Len(s) - 1
      /\ \A i \in 1..Len(s) - 1 : Front(s)[i] = s[i]
  <2>1. \A i \in 1..Len(s) - 1 : s[i] \in S
    BY <1>1, <1>2
  <2>2. /\ SubSeq(s, 1, Len(s) - 1) \in Seq(S)
        /\ Len(SubSeq(s, 1, Len(s) - 1))
             = (IF 1 <= Len(s) - 1 THEN (Len(s) - 1) - 1 + 1 ELSE 0)
        /\ \A i \in 1..(Len(s) - 1) - 1 + 1 : SubSeq(s, 1, Len(s) - 1)[i] = s[1 + i - 1]
    BY <1>1, <2>1, SubSeqProperties
  <2> QED
    BY <1>1, <2>2 DEF Front
<1>4. DOMAIN Front(s) = 1..Len(s) - 1
  BY <1>3, LenProperties
<1>5. Last(s) \in S
  BY <1>1, <1>2 DEF Last
<1> QED
  BY <1>1, <1>3, <1>4, <1>5

\* In a list, f comes before g.
Precedes(s, f, g) == \E i, j \in DOMAIN s : i < j /\ s[i] = f /\ s[j] = g

\* The front of a list comes before the others.
LEMMA HeadPrecedes ==
  ASSUME NEW S, NEW s \in Seq(S), s # <<>>,
         \A i, j \in DOMAIN s : s[i] = s[j] => i = j,
         NEW g \in ToSet(s), g # Head(s)
  PROVE  Precedes(s, Head(s), g) /\ ~Precedes(s, g, Head(s))
<1>1. /\ DOMAIN s = 1..Len(s) /\ Len(s) \in Nat \ {0} /\ Head(s) = s[1]
  BY LenProperties, EmptySeq, HeadTailProperties
<1>2. PICK j \in DOMAIN s : s[j] = g
  BY DEF ToSet
<1> QED
  BY <1>1, <1>2 DEF Precedes

\* An element at the end comes after the others, whose order does not change.
LEMMA AppendPrecedes ==
  ASSUME NEW S, NEW s \in Seq(S), NEW e \in S, e \notin ToSet(s)
  PROVE  /\ \A f, g : f # e /\ g # e =>
              (Precedes(Append(s, e), f, g) <=> Precedes(s, f, g))
         /\ \A f : ~Precedes(Append(s, e), e, f)
         /\ \A f \in ToSet(s) : Precedes(Append(s, e), f, e)
<1>1. /\ DOMAIN s = 1..Len(s) /\ Len(s) \in Nat
      /\ Append(s, e) \in Seq(S) /\ Len(Append(s, e)) = Len(s) + 1
      /\ \A i \in 1..Len(s) : Append(s, e)[i] = s[i]
      /\ Append(s, e)[Len(s) + 1] = e
  BY AppendProperties, LenProperties
<1>2. DOMAIN Append(s, e) = 1..Len(s) + 1
  BY <1>1, LenProperties
<1>3. \A i \in 1..Len(s) : s[i] \in ToSet(s)
  BY <1>1 DEF ToSet
<1>4. \A i \in 1..Len(s) + 1 : i \in 1..Len(s) \/ i = Len(s) + 1
  BY <1>1
<1> DEFINE a == Append(s, e)
<1>5. \A i \in DOMAIN a : a[i] # e => i \in 1..Len(s) /\ a[i] = s[i]
  BY <1>1, <1>2, <1>4
<1>6. \A i \in 1..Len(s) : i \in DOMAIN a /\ a[i] = s[i] /\ i < Len(s) + 1
  BY <1>1, <1>2
<1>7. \A i \in DOMAIN a : a[i] = e => i = Len(s) + 1
  BY <1>1, <1>2, <1>3, <1>4
<1>8. Len(s) + 1 \in DOMAIN a /\ a[Len(s) + 1] = e
  BY <1>1, <1>2
<1>9. ASSUME NEW f, NEW g, f # e, g # e
      PROVE  Precedes(a, f, g) <=> Precedes(s, f, g)
  <2> HIDE DEF a
  <2> QED
    BY <1>1, <1>5, <1>6, <1>9 DEF Precedes
<1>10. ASSUME NEW f PROVE ~Precedes(a, e, f)
  <2>1. \A j \in DOMAIN a : j \in Nat /\ j <= Len(s) + 1
    BY <1>1, <1>2
  <2> HIDE DEF a
  <2> QED
    BY <1>1, <1>7, <2>1 DEF Precedes
<1>11. ASSUME NEW f \in ToSet(s) PROVE Precedes(a, f, e)
  <2>1. PICK i \in 1..Len(s) : s[i] = f
    BY <1>1 DEF ToSet
  <2> HIDE DEF a
  <2> QED
    BY <1>6, <1>8, <2>1 DEF Precedes
<1> QED
  BY <1>9, <1>10, <1>11

\* Taking the front off leaves the order of the others.
LEMMA TailPrecedes ==
  ASSUME NEW S, NEW s \in Seq(S), s # <<>>, NEW f, NEW g, f # Head(s), g # Head(s)
  PROVE  Precedes(Tail(s), f, g) <=> Precedes(s, f, g)
<1>1. /\ DOMAIN s = 1..Len(s) /\ Len(s) \in Nat \ {0}
      /\ Tail(s) \in Seq(S) /\ Len(Tail(s)) = Len(s) - 1
      /\ \A i \in 1..Len(Tail(s)) : Tail(s)[i] = s[i + 1]
      /\ Head(s) = s[1]
  BY HeadTailProperties, EmptySeq, LenProperties
<1>2. DOMAIN Tail(s) = 1..Len(s) - 1
  BY <1>1, LenProperties
<1>3. ASSUME Precedes(Tail(s), f, g) PROVE Precedes(s, f, g)
  <2>1. PICK i, j \in DOMAIN Tail(s) : i < j /\ Tail(s)[i] = f /\ Tail(s)[j] = g
    BY <1>3 DEF Precedes
  <2>2. /\ i + 1 \in DOMAIN s /\ j + 1 \in DOMAIN s /\ i + 1 < j + 1
        /\ s[i + 1] = f /\ s[j + 1] = g
    BY <1>1, <1>2, <2>1
  <2> QED
    BY <2>2 DEF Precedes
<1>4. ASSUME Precedes(s, f, g) PROVE Precedes(Tail(s), f, g)
  <2>1. PICK i, j \in DOMAIN s : i < j /\ s[i] = f /\ s[j] = g
    BY <1>4 DEF Precedes
  <2>2. i # 1 /\ j # 1
    BY <1>1, <2>1
  <2>3. /\ i - 1 \in 1..Len(s) - 1 /\ j - 1 \in 1..Len(s) - 1 /\ i - 1 < j - 1
        /\ (i - 1) + 1 = i /\ (j - 1) + 1 = j
    BY <1>1, <2>1, <2>2
  <2>4. Tail(s)[i - 1] = f /\ Tail(s)[j - 1] = g
    BY <1>1, <2>1, <2>3
  <2> QED
    BY <1>2, <2>3, <2>4 DEF Precedes
<1> QED
  BY <1>3, <1>4

\* Moving the front to the end puts it behind the others.
LEMMA RotatePrecedes ==
  ASSUME NEW S, NEW s \in Seq(S), s # <<>>,
         \A i, j \in DOMAIN s : s[i] = s[j] => i = j
  PROVE  LET r == Append(Tail(s), Head(s))
         IN  /\ \A f, g : f # Head(s) /\ g # Head(s) => (Precedes(r, f, g) <=> Precedes(s, f, g))
             /\ \A g \in ToSet(s) : g # Head(s) =>
                  Precedes(r, g, Head(s)) /\ ~Precedes(r, Head(s), g)
<1> DEFINE t == Tail(s)
           h == Head(s)
<1>1. t \in Seq(S) /\ ToSet(t) = ToSet(s) \ {h} /\ h \in S
  BY TailKeepsDistinct, HeadTailProperties
<1>2. \A f, g : f # h /\ g # h => (Precedes(t, f, g) <=> Precedes(s, f, g))
  BY TailPrecedes
<1> HIDE DEF t, h
<1>3. /\ \A f, g : f # h /\ g # h => (Precedes(Append(t, h), f, g) <=> Precedes(t, f, g))
      /\ \A f : ~Precedes(Append(t, h), h, f)
      /\ \A f \in ToSet(t) : Precedes(Append(t, h), f, h)
  BY <1>1, AppendPrecedes
<1> QED
  BY <1>1, <1>2, <1>3 DEF t, h

-----------------------------------------------------------------------------
(***************************************************************************)
(* The community modules fold a finite set in an order fixed by CHOOSE, by  *)
(* a recursive function on its subsets; what follows holds by induction on  *)
(* those.                                                                   *)
(***************************************************************************)

\* The element a fold takes out of a set first.
Pick(s) == CHOOSE x \in s : TRUE

\* Function g gives each subset of S the sum of the values of w in it.
IsTable(g, w, S) ==
  g = [s \in SUBSET S |-> IF s = {} THEN 0 ELSE w[Pick(s)] + g[s \ {Pick(s)}]]

Table(w, S) == CHOOSE g : IsTable(g, w, S)

\* The sum of the values of w at the elements of S.
Total(w, S) == Table(w, S)[S]

\* The folds of the community modules are such sums.
LEMMA FoldIsTotal ==
  ASSUME NEW w
  PROVE  FoldFunction(+, 0, w) = Total(w, DOMAIN w)
BY Zenon DEF FoldFunction, FoldFunctionOnSet, MapThenFoldSet, Total, Table, IsTable, Pick

\* Induction on the subsets of a finite set: what holds of a subset whenever it
\* holds of all smaller ones holds of all.
LEMMA SubsetInduction ==
  ASSUME NEW S, IsFiniteSet(S), NEW Good,
         \A T \in SUBSET S : (\A U \in SUBSET T : U # T => U \in Good) => T \in Good
  PROVE  \A T \in SUBSET S : T \in Good
<1> DEFINE Bad == {T \in SUBSET S : T \notin Good}
<1> SUFFICES ASSUME Bad # {} PROVE FALSE
  OBVIOUS
<1>1. IsWellFoundedOn(StrictSubsetOrdering(S), FiniteSubsetsOf(S))
  BY FS_StrictSubsetOrderingWellFounded, Zenon
<1>2. Bad \subseteq FiniteSubsetsOf(S)
  BY FS_Subset DEF FiniteSubsetsOf
<1>3. PICK T \in Bad : \A U \in Bad : ~(<<U, T>> \in StrictSubsetOrdering(S))
  <2> DEFINE R == StrictSubsetOrdering(S)
             F == FiniteSubsetsOf(S)
  <2>1. IsWellFoundedOn(R, F) /\ Bad \subseteq F /\ Bad # {}
    BY <1>1, <1>2
  <2> HIDE DEF Bad, R, F
  <2>2. \E T \in Bad : \A U \in Bad : ~(<<U, T>> \in R)
    BY <2>1, WFMin
  <2> QED
    BY <2>2 DEF R
<1>4. ASSUME NEW U \in SUBSET T, U # T
      PROVE  U \in Good
  <2>1. <<U, T>> \in StrictSubsetOrdering(S)
    BY <1>3, <1>4 DEF StrictSubsetOrdering
  <2> QED
    BY <1>3, <1>4, <2>1
<1> QED
  BY <1>3, <1>4

\* A finite set of integers has a least one, which is what Min chooses.
LEMMA MinIsLeast ==
  ASSUME NEW S \in SUBSET Int, IsFiniteSet(S), S # {}
  PROVE  Min(S) \in S /\ \A y \in S : Min(S) <= y
<1> DEFINE Good == {T \in SUBSET S : T # {} => \E x \in T : \A y \in T : x <= y}
<1>1. ASSUME NEW T \in SUBSET S, \A U \in SUBSET T : U # T => U \in Good
      PROVE  T \in Good
  <2>1. ASSUME NEW e \in T PROVE \E x \in T : \A y \in T : x <= y
    <3>1. T \ {e} \in Good
      BY <1>1, <2>1
    <3>2. CASE T \ {e} = {}
      <4>1. \A y \in T : y = e
        BY <3>2
      <4> QED
        BY <2>1, <4>1
    <3>3. CASE T \ {e} # {}
      <4>1. PICK m \in T \ {e} : \A y \in T \ {e} : m <= y
        BY <3>1, <3>3
      <4>2. m \in Int /\ e \in Int /\ \A y \in T : y \in Int
        OBVIOUS
      <4>3. CASE m <= e
        BY <4>1, <4>3
      <4>4. CASE ~(m <= e)
        <5>1. \A y \in T : e <= y
          BY <4>1, <4>2, <4>4
        <5> QED
          BY <2>1, <5>1
      <4> QED
        BY <4>3, <4>4
    <3> QED
      BY <3>2, <3>3
  <2> QED
    BY <2>1
<1> HIDE DEF Good
<1>2. S \in Good
  BY <1>1, SubsetInduction
<1>3. \E x \in S : \A y \in S : x <= y
  BY <1>2 DEF Good
<1> QED
  BY <1>3 DEF Min

\* The greatest element that Max chooses exists.
LEMMA MaxIsGreatest ==
  ASSUME NEW S \in SUBSET Int, IsFiniteSet(S), S # {}
  PROVE  Max(S) \in S /\ \A y \in S : Max(S) >= y
<1> DEFINE Good == {T \in SUBSET S : T # {} => \E x \in T : \A y \in T : x >= y}
<1>1. ASSUME NEW T \in SUBSET S, \A U \in SUBSET T : U # T => U \in Good
      PROVE  T \in Good
  <2>1. ASSUME NEW e \in T PROVE \E x \in T : \A y \in T : x >= y
    <3>1. T \ {e} \in Good
      BY <1>1, <2>1
    <3>2. CASE T \ {e} = {}
      BY <2>1, <3>2
    <3>3. CASE T \ {e} # {}
      <4>1. PICK x \in T \ {e} : \A y \in T \ {e} : x >= y
        BY <3>1, <3>3
      <4>2. x \in Int /\ e \in Int
        BY <2>1
      <4>3. CASE e >= x
        BY <2>1, <4>1, <4>2, <4>3
      <4>4. CASE x >= e
        BY <2>1, <4>1, <4>2, <4>4
      <4> QED
        BY <4>2, <4>3, <4>4
    <3> QED
      BY <3>2, <3>3
  <2> QED
    BY <2>1
<1> HIDE DEF Good
<1>2. S \in Good
  BY <1>1, SubsetInduction
<1>3. \E x \in S : \A y \in S : x >= y
  BY <1>2 DEF Good
<1> QED
  BY <1>3 DEF Max

\* The extremes of two integers.
LEMMA OfTwoIntegers ==
  ASSUME NEW m \in Int, NEW n \in Int, m <= n
  PROVE  Min({n, m}) = m /\ Max({m, n}) = n
BY DEF Min, Max

\* Pick takes an element.
LEMMA PickIsAnElement ==
  ASSUME NEW s, s # {}
  PROVE  Pick(s) \in s
BY DEF Pick

\* Two such functions agree on the subsets both are defined for.
LEMMA TablesAgree ==
  ASSUME NEW w, NEW S, NEW T \in SUBSET S, IsFiniteSet(T),
         NEW g, NEW h, IsTable(g, w, S), IsTable(h, w, T)
  PROVE  \A s \in SUBSET T : g[s] = h[s]
<1> DEFINE Good == {s \in SUBSET T : g[s] = h[s]}
<1>1. ASSUME NEW s \in SUBSET T, \A u \in SUBSET s : u # s => u \in Good
      PROVE  s \in Good
  <2>1. CASE s = {}
    BY <2>1 DEF IsTable
  <2>2. CASE s # {}
    <3> DEFINE u == s \ {Pick(s)}
    <3>1. u \in SUBSET s /\ u # s
      BY <2>2, PickIsAnElement
    <3>2. g[u] = h[u]
      BY <1>1, <3>1
    <3>3. g[s] = w[Pick(s)] + g[u] /\ h[s] = w[Pick(s)] + h[u]
      BY <2>2 DEF IsTable
    <3> QED
      BY <3>2, <3>3
  <2> QED
    BY <2>1, <2>2
<1> HIDE DEF Good
<1>2. \A s \in SUBSET T : s \in Good
  BY <1>1, SubsetInduction
<1> QED
  BY <1>2 DEF Good

\* There is such a function.
LEMMA TableExists ==
  ASSUME NEW w, NEW S, IsFiniteSet(S)
  PROVE  IsTable(Table(w, S), w, S)
<1> DEFINE Good == {T \in SUBSET S : IsTable(Table(w, T), w, T)}
<1>1. ASSUME NEW T \in SUBSET S, \A U \in SUBSET T : U # T => U \in Good
      PROVE  T \in Good
  <2> DEFINE Rest(s) == s \ {Pick(s)}
             h == [s \in SUBSET T |-> IF s = {} THEN 0
                                      ELSE w[Pick(s)] + Table(w, Rest(s))[Rest(s)]]
  <2>1. ASSUME NEW s \in SUBSET T, s # {}
        PROVE  h[Rest(s)] = Table(w, Rest(s))[Rest(s)]
    <3>1. Rest(s) \in SUBSET T /\ Rest(s) # T
      BY <2>1, PickIsAnElement
    <3>2. IsTable(Table(w, Rest(s)), w, Rest(s))
      BY <1>1, <3>1
    <3>3. CASE Rest(s) = {}
      BY <3>1, <3>2, <3>3 DEF IsTable
    <3>4. CASE Rest(s) # {}
      <4> DEFINE t == Rest(s)
                 u == Rest(t)
      <4>1. u \in SUBSET t /\ u # T /\ u \in SUBSET T
        BY <3>1
      <4>2. IsTable(Table(w, u), w, u)
        BY <1>1, <4>1
      <4>3. IsFiniteSet(u)
        BY <4>1, FS_Subset
      <4>4. Table(w, t)[u] = Table(w, u)[u]
        <5> HIDE DEF t, u
        <5> QED
          BY <3>2, <4>1, <4>2, <4>3, TablesAgree DEF t
      <4>5. Table(w, t)[t] = w[Pick(t)] + Table(w, t)[u]
        BY <3>2, <3>4 DEF IsTable
      <4>6. h[t] = w[Pick(t)] + Table(w, u)[u]
        BY <3>1, <3>4
      <4> QED
        BY <4>4, <4>5, <4>6
    <3> QED
      BY <3>3, <3>4
  <2>2. IsTable(h, w, T)
    BY <2>1 DEF IsTable
  <2>3. IsTable(Table(w, T), w, T)
    BY <2>2, Zenon DEF Table
  <2> QED
    BY <2>3
<1> HIDE DEF Good
<1>2. S \in Good
  BY <1>1, SubsetInduction
<1> QED
  BY <1>2 DEF Good

\* A sum is one of its summands and the sum of the others.
LEMMA TotalStep ==
  ASSUME NEW w, NEW S, IsFiniteSet(S)
  PROVE  Total(w, S) = IF S = {} THEN 0 ELSE w[Pick(S)] + Total(w, S \ {Pick(S)})
<1>1. IsTable(Table(w, S), w, S)
  BY TableExists
<1> DEFINE T == S \ {Pick(S)}
<1>2. IsFiniteSet(T) /\ T \in SUBSET S
  BY FS_RemoveElement
<1>3. IsTable(Table(w, T), w, T)
  BY <1>2, TableExists
<1>4. Table(w, S)[T] = Table(w, T)[T]
  <2> HIDE DEF T
  <2> QED
    BY <1>1, <1>2, <1>3, TablesAgree
<1>5. Table(w, S)[S] = IF S = {} THEN 0 ELSE w[Pick(S)] + Table(w, S)[T]
  BY <1>1 DEF IsTable
<1> QED
  BY <1>4, <1>5 DEF Total

\* A sum of integers is one.
LEMMA TotalIsAnInteger ==
  ASSUME NEW w, NEW S, IsFiniteSet(S), \A x \in S : w[x] \in Int
  PROVE  Total(w, S) \in Int
<1> DEFINE Good == {T \in SUBSET S : Total(w, T) \in Int}
<1>1. ASSUME NEW T \in SUBSET S, \A U \in SUBSET T : U # T => U \in Good
      PROVE  T \in Good
  <2>1. Total(w, T) = IF T = {} THEN 0 ELSE w[Pick(T)] + Total(w, T \ {Pick(T)})
    BY FS_Subset, TotalStep
  <2>2. CASE T # {}
    <3>1. w[Pick(T)] \in Int
      BY <2>2, PickIsAnElement
    <3>2. Total(w, T \ {Pick(T)}) \in Int
      BY <1>1, <2>2, PickIsAnElement
    <3> QED
      BY <2>1, <2>2, <3>1, <3>2
  <2> QED
    BY <2>1, <2>2
<1> HIDE DEF Good
<1>2. S \in Good
  BY <1>1, SubsetInduction
<1> QED
  BY <1>2 DEF Good

\* Whichever summand is taken out first.
LEMMA TotalRemove ==
  ASSUME NEW w, NEW S, IsFiniteSet(S), \A x \in S : w[x] \in Int, NEW e \in S
  PROVE  Total(w, S) = w[e] + Total(w, S \ {e})
<1> DEFINE Good == {T \in SUBSET S : \A x \in T : Total(w, T) = w[x] + Total(w, T \ {x})}
<1>1. ASSUME NEW T \in SUBSET S, \A U \in SUBSET T : U # T => U \in Good
      PROVE  T \in Good
  <2> SUFFICES ASSUME NEW x \in T
               PROVE Total(w, T) = w[x] + Total(w, T \ {x})
    OBVIOUS
  <2> DEFINE p == Pick(T)
  <2>1. p \in T /\ IsFiniteSet(T)
    BY PickIsAnElement, FS_Subset
  <2>2. Total(w, T) = w[p] + Total(w, T \ {p})
    BY <2>1, TotalStep
  <2> HIDE DEF p
  <2>3. CASE x # p
    <3>1. T \ {p} \in Good /\ T \ {x} \in Good /\ x \in T \ {p} /\ p \in T \ {x}
      BY <1>1, <2>1, <2>3
    <3>2. Total(w, T \ {p}) = w[x] + Total(w, (T \ {p}) \ {x})
      BY <3>1
    <3>3. Total(w, T \ {x}) = w[p] + Total(w, (T \ {x}) \ {p})
      BY <3>1
    <3>4. (T \ {p}) \ {x} = (T \ {x}) \ {p} /\ (T \ {x}) \ {p} \in SUBSET S
      OBVIOUS
    <3>5. Total(w, (T \ {x}) \ {p}) \in Int /\ w[x] \in Int /\ w[p] \in Int
      <4>1. IsFiniteSet((T \ {x}) \ {p})
        BY <3>4, FS_Subset
      <4>2. \A y \in (T \ {x}) \ {p} : w[y] \in Int
        OBVIOUS
      <4> QED
        BY <2>1, <4>1, <4>2, TotalIsAnInteger
    <3>6. w[p] + (w[x] + Total(w, (T \ {x}) \ {p}))
            = w[x] + (w[p] + Total(w, (T \ {x}) \ {p}))
      BY <3>5
    <3> QED
      BY <2>2, <3>2, <3>3, <3>4, <3>6, Zenon
  <2> QED
    BY <2>2, <2>3
<1> HIDE DEF Good
<1>2. S \in Good
  BY <1>1, SubsetInduction
<1> QED
  BY <1>2 DEF Good

\* Function b takes the elements of S, the arguments of w, to those of I, the
\* arguments of v, each to one of its own and with the same value.
Renames(b, w, S, v, I) ==
  /\ \A x, y \in S : b[x] = b[y] => x = y
  /\ \A x \in S : w[x] \in Int /\ v[b[x]] = w[x]
  /\ I = {b[x] : x \in S}

\* A sum does not depend on the names of its summands.
LEMMA TotalReindex ==
  ASSUME NEW b, NEW w, NEW S, NEW v, NEW I, IsFiniteSet(S), Renames(b, w, S, v, I)
  PROVE  Total(v, I) = Total(w, S)
<1> USE DEF Renames
<1> DEFINE Image(U) == {b[x] : x \in U}
           Good == {U \in SUBSET S : Total(v, Image(U)) = Total(w, U)}
<1>1. ASSUME NEW U \in SUBSET S, \A V \in SUBSET U : V # U => V \in Good
      PROVE  U \in Good
  <2>1. IsFiniteSet(U)
    BY FS_Subset
  <2>2. CASE U = {}
    <3>1. Image(U) = {}
      BY <2>2
    <3>2. IsFiniteSet({})
      BY FS_EmptySet
    <3> QED
      BY <2>2, <3>1, <3>2, TotalStep
  <2>3. CASE U # {}
    <3>1. PICK e : e \in U
      BY <2>3
    <3>2. Total(w, U) = w[e] + Total(w, U \ {e})
      BY <2>1, <3>1, TotalRemove
    <3>3. Total(v, Image(U \ {e})) = Total(w, U \ {e})
      BY <1>1, <3>1
    <3>4. Image(U) \ {b[e]} = Image(U \ {e}) /\ b[e] \in Image(U)
      BY <3>1
    <3>5. IsFiniteSet(Image(U))
      <4> DEFINE f == [x \in U |-> b[x]]
      <4>1. f \in Surjection(U, Image(U))
        BY DEF Surjection
      <4> HIDE DEF f, Image
      <4> QED
        BY <2>1, <4>1, FS_Surjection
    <3>6. \A y \in Image(U) : v[y] \in Int
      OBVIOUS
    <3>7. Total(v, Image(U)) = v[b[e]] + Total(v, Image(U) \ {b[e]})
      <4> HIDE DEF Image
      <4> QED
        BY <3>4, <3>5, <3>6, TotalRemove
    <3> QED
      BY <3>1, <3>2, <3>3, <3>4, <3>7
  <2> QED
    BY <2>2, <2>3
<1> HIDE DEF Good
<1>2. S \in Good
  BY <1>1, SubsetInduction
<1> QED
  BY <1>2 DEF Good
\* It depends on the values summed only.
LEMMA TotalOfSame ==
  ASSUME NEW w, NEW v, NEW S, IsFiniteSet(S), \A x \in S : w[x] \in Int /\ v[x] = w[x]
  PROVE  Total(v, S) = Total(w, S)
<1> DEFINE b == [x \in S |-> x]
<1>1. Renames(b, w, S, v, S)
  BY DEF Renames
<1> HIDE DEF b
<1> QED
  BY <1>1, TotalReindex

\* A sum of naturals is one.
LEMMA TotalIsNatural ==
  ASSUME NEW w, NEW S, IsFiniteSet(S), \A x \in S : w[x] \in Nat
  PROVE  Total(w, S) \in Nat
<1> DEFINE Good == {T \in SUBSET S : Total(w, T) \in Nat}
<1>1. ASSUME NEW T \in SUBSET S, \A U \in SUBSET T : U # T => U \in Good
      PROVE  T \in Good
  <2>1. Total(w, T) = IF T = {} THEN 0 ELSE w[Pick(T)] + Total(w, T \ {Pick(T)})
    BY FS_Subset, TotalStep
  <2>2. CASE T # {}
    <3>1. w[Pick(T)] \in Nat
      BY <2>2, PickIsAnElement
    <3>2. Total(w, T \ {Pick(T)}) \in Nat
      BY <1>1, <2>2, PickIsAnElement
    <3> QED
      BY <2>1, <2>2, <3>1, <3>2
  <2> QED
    BY <2>1, <2>2
<1> HIDE DEF Good
<1>2. S \in Good
  BY <1>1, SubsetInduction
<1> QED
  BY <1>2 DEF Good

\* Adding a number to every value adds it as often as there are values.
LEMMA TotalShift ==
  ASSUME NEW w, NEW v, NEW S, IsFiniteSet(S), NEW c \in Int,
         \A x \in S : w[x] \in Int /\ v[x] = w[x] + c
  PROVE  Total(v, S) = Total(w, S) + c * Cardinality(S)
<1> DEFINE Good == {T \in SUBSET S : Total(v, T) = Total(w, T) + c * Cardinality(T)}
<1>1. ASSUME NEW T \in SUBSET S, \A U \in SUBSET T : U # T => U \in Good
      PROVE  T \in Good
  <2>1. IsFiniteSet(T)
    BY FS_Subset
  <2>2. CASE T = {}
    <3>1. Cardinality(T) = 0 /\ Total(v, T) = 0 /\ Total(w, T) = 0
      BY <2>1, <2>2, TotalStep, FS_EmptySet
    <3> QED
      BY <2>2, <3>1
  <2>3. ASSUME NEW e \in T PROVE T \in Good
    <3> DEFINE R == T \ {e}
    <3>1. R \in Good /\ IsFiniteSet(R)
      BY <1>1, <2>1, <2>3, FS_Subset
    <3>2. Total(v, T) = v[e] + Total(v, R)
      BY <2>1, <2>3, TotalRemove
    <3>3. Total(w, T) = w[e] + Total(w, R) /\ Total(w, R) \in Int
      BY <2>1, <2>3, <3>1, TotalRemove, TotalIsAnInteger
    <3>4. Cardinality(R) = Cardinality(T) - 1 /\ Cardinality(T) \in Nat
          /\ Cardinality(R) \in Nat
      BY <2>1, <2>3, <3>1, FS_RemoveElement, FS_CardinalityType
    <3>5. \A m, n \in Int : m * (n - 1) = m * n - m /\ m * n \in Int
      OBVIOUS
    <3>6. c * Cardinality(R) = c * Cardinality(T) - c /\ c * Cardinality(T) \in Int
      BY <3>4, <3>5
    <3>7. Total(v, R) = Total(w, R) + c * Cardinality(R)
      BY <3>1
    <3>8. w[e] \in Int /\ v[e] = w[e] + c
      OBVIOUS
    <3> HIDE DEF R
    <3>9. Total(v, T) = Total(w, T) + c * Cardinality(T)
      BY <3>2, <3>3, <3>6, <3>7, <3>8
    <3> QED
      BY <3>9
  <2> QED
    BY <2>2, <2>3
<1> HIDE DEF Good
<1>2. S \in Good
  BY <1>1, SubsetInduction
<1> QED
  BY <1>2 DEF Good

\* A sum in two parts.
LEMMA TotalSplit ==
  ASSUME NEW w, NEW S, IsFiniteSet(S), NEW A \in SUBSET S, \A x \in S : w[x] \in Int
  PROVE  /\ Total(w, S) = Total(w, A) + Total(w, S \ A)
         /\ Total(w, A) \in Int /\ Total(w, S \ A) \in Int
<1> DEFINE Good == {T \in SUBSET S : Total(w, T) = Total(w, T \cap A) + Total(w, T \ A)}
<1>1. ASSUME NEW T \in SUBSET S
      PROVE  /\ IsFiniteSet(T) /\ IsFiniteSet(T \cap A) /\ IsFiniteSet(T \ A)
             /\ Total(w, T \cap A) \in Int /\ Total(w, T \ A) \in Int
  <2>1. IsFiniteSet(T) /\ IsFiniteSet(T \cap A) /\ IsFiniteSet(T \ A)
    BY FS_Subset
  <2> QED
    BY <2>1, TotalIsAnInteger
<1>2. ASSUME NEW T \in SUBSET S, \A U \in SUBSET T : U # T => U \in Good
      PROVE  T \in Good
  <2>1. CASE T = {}
    <3>1. T \cap A = {} /\ T \ A = {} /\ Total(w, {}) = 0
      BY <2>1, TotalStep, FS_EmptySet
    <3> QED
      BY <2>1, <3>1
  <2>2. ASSUME NEW e \in T PROVE T \in Good
    <3> DEFINE R == T \ {e}
               P == T \cap A
               Q == T \ A
    <3>1. /\ IsFiniteSet(T) /\ IsFiniteSet(P) /\ IsFiniteSet(Q)
          /\ \A x \in T : w[x] \in Int
          /\ \A x \in P : w[x] \in Int
          /\ \A x \in Q : w[x] \in Int
      BY <1>1
    <3>2. Total(w, T) = w[e] + Total(w, R)
      BY <2>2, <3>1, TotalRemove
    <3>3. Total(w, R) = Total(w, R \cap A) + Total(w, R \ A)
      BY <1>2, <2>2
    <3>4. w[e] \in Int /\ Total(w, R \cap A) \in Int /\ Total(w, R \ A) \in Int
      BY <1>1, <2>2
    <3>5. CASE e \in A
      <4>1. e \in P /\ P \ {e} = R \cap A /\ Q = R \ A
        BY <2>2, <3>5
      <4> HIDE DEF P, Q, R
      <4>2. Total(w, P) = w[e] + Total(w, R \cap A)
        BY <3>1, <4>1, TotalRemove
      <4>3. Total(w, Q) = Total(w, R \ A)
        BY <4>1, Zenon
      <4>4. Total(w, T) = Total(w, P) + Total(w, Q)
        BY <3>2, <3>3, <3>4, <4>2, <4>3
      <4> QED
        BY <4>4 DEF P, Q
    <3>6. CASE e \notin A
      <4>1. e \in Q /\ Q \ {e} = R \ A /\ P = R \cap A
        BY <2>2, <3>6
      <4> HIDE DEF P, Q, R
      <4>2. Total(w, Q) = w[e] + Total(w, R \ A)
        BY <3>1, <4>1, TotalRemove
      <4>3. Total(w, P) = Total(w, R \cap A)
        BY <4>1, Zenon
      <4>4. Total(w, T) = Total(w, P) + Total(w, Q)
        BY <3>2, <3>3, <3>4, <4>2, <4>3
      <4> QED
        BY <4>4 DEF P, Q
    <3> QED
      BY <3>5, <3>6
  <2> QED
    BY <2>1, <2>2
<1>3. S \in Good
  <2> HIDE DEF Good
  <2> QED
    BY <1>2, SubsetInduction
<1>4. S \cap A = A
  OBVIOUS
<1> QED
  BY <1>1, <1>3, <1>4

\* Naturals that sum to nothing are nothing.
LEMMA TotalOfNothing ==
  ASSUME NEW w, NEW S, IsFiniteSet(S), \A x \in S : w[x] \in Nat, Total(w, S) = 0
  PROVE  \A x \in S : w[x] = 0
<1> SUFFICES ASSUME NEW e \in S PROVE w[e] = 0
  OBVIOUS
<1>1. Total(w, S) = w[e] + Total(w, S \ {e})
  BY TotalRemove
<1>2. Total(w, S \ {e}) \in Nat /\ w[e] \in Nat
  BY FS_Subset, TotalIsNatural
<1> QED
  BY <1>1, <1>2

-----------------------------------------------------------------------------
\* The sum over a function changes by what one of its values changes by.
LEMMA SumUpdate ==
  ASSUME NEW S, IsFiniteSet(S), NEW w \in [S -> Int], NEW e \in S, NEW n \in Int
  PROVE  /\ FoldFunction(+, 0, w) \in Int
         /\ FoldFunction(+, 0, [w EXCEPT ![e] = n]) = FoldFunction(+, 0, w) - w[e] + n
<1> DEFINE v == [w EXCEPT ![e] = n]
           R == S \ {e}
<1>1. IsFiniteSet(R) /\ R \in SUBSET S /\ e \notin R
  BY FS_RemoveElement
<1>2. \A x \in R : w[x] \in Int /\ v[x] = w[x]
  OBVIOUS
<1>3. v \in [S -> Int] /\ v[e] = n
  OBVIOUS
<1>4. DOMAIN w = S /\ DOMAIN v = S
  OBVIOUS
<1> HIDE DEF v
<1>5. Total(v, R) = Total(w, R) /\ Total(w, R) \in Int
  BY <1>1, <1>2, TotalOfSame, TotalIsAnInteger
<1>6. Total(w, S) = w[e] + Total(w, R)
  BY TotalRemove
<1>7. Total(v, S) = v[e] + Total(v, R)
  BY <1>3, TotalRemove
<1>8. FoldFunction(+, 0, w) = Total(w, S)
  BY <1>4, FoldIsTotal
<1>9. FoldFunction(+, 0, v) = Total(v, S)
  BY <1>4, FoldIsTotal
<1>10. w[e] \in Int
  OBVIOUS
<1>11. Total(w, S) \in Int /\ Total(v, S) = Total(w, S) - w[e] + n
  BY <1>3, <1>5, <1>6, <1>7, <1>10
<1> QED
  BY <1>8, <1>9, <1>11, Zenon DEF v

\* The sum of zeros is zero.
LEMMA SumOfZeros ==
  ASSUME NEW S, IsFiniteSet(S)
  PROVE  FoldFunction(+, 0, [x \in S |-> 0]) = 0
<1> DEFINE w == [x \in S |-> 0]
           Good == {T \in SUBSET S : Total(w, T) = 0}
<1>1. ASSUME NEW T \in SUBSET S, \A U \in SUBSET T : U # T => U \in Good
      PROVE  T \in Good
  <2>1. Total(w, T) = IF T = {} THEN 0 ELSE w[Pick(T)] + Total(w, T \ {Pick(T)})
    BY FS_Subset, TotalStep
  <2>2. T # {} => Pick(T) \in T
    BY PickIsAnElement
  <2> QED
    BY <1>1, <2>1, <2>2
<1>2. S \in Good
  <2> HIDE DEF Good
  <2> QED
    BY <1>1, SubsetInduction
<1>3. Total(w, DOMAIN w) = 0
  BY <1>2
<1> HIDE DEF w
<1>4. FoldFunction(+, 0, w) = 0
  BY <1>3, FoldIsTotal
<1> QED
  BY <1>4 DEF w

\* A sum of at most M for each index of A, and of nothing for the others.
LEMMA SumIsBounded ==
  ASSUME NEW S, IsFiniteSet(S), NEW w \in [S -> Int], NEW A \in SUBSET S, NEW M \in Nat,
         \A x \in A : w[x] <= M, \A x \in S \ A : w[x] = 0
  PROVE  FoldFunction(+, 0, w) <= M * Cardinality(A)
<1> DEFINE Good == {T \in SUBSET S : Total(w, T) <= M * Cardinality(T \cap A)}
<1>1. ASSUME NEW T \in SUBSET S, \A U \in SUBSET T : U # T => U \in Good
      PROVE  T \in Good
  <2> DEFINE p == Pick(T)
             R == T \ {p}
  <2>1. Total(w, T) = IF T = {} THEN 0 ELSE w[p] + Total(w, R)
    BY FS_Subset, TotalStep
  <2>2. CASE T = {}
    <3>1. Cardinality(T \cap A) = 0
      BY <2>2, FS_EmptySet
    <3> QED
      BY <2>1, <2>2, <3>1
  <2>3. CASE T # {}
    <3>1. p \in T /\ w[p] \in Int /\ IsFiniteSet(T)
      BY <2>3, PickIsAnElement, FS_Subset
    <3>2. R \in Good /\ IsFiniteSet(R) /\ R \in SUBSET S
      BY <1>1, <3>1, FS_Subset
    <3>3. Total(w, R) \in Int /\ Total(w, R) <= M * Cardinality(R \cap A)
      BY <3>2, TotalIsAnInteger
    <3>4. IsFiniteSet(R \cap A) /\ Cardinality(R \cap A) \in Nat
      BY <3>2, FS_Subset, FS_CardinalityType
    <3>5. CASE p \in A
      <4>1. T \cap A = (R \cap A) \cup {p} /\ p \notin R \cap A
        BY <3>1, <3>5
      <4>2. Cardinality(T \cap A) = Cardinality(R \cap A) + 1
        BY <3>4, <4>1, FS_AddElement
      <4>3. \A m, n \in Nat : m * (n + 1) = m * n + m /\ m * n \in Nat
        OBVIOUS
      <4>4. M * Cardinality(T \cap A) = M * Cardinality(R \cap A) + M
            /\ M * Cardinality(R \cap A) \in Nat
        BY <3>4, <4>2, <4>3
      <4>5. w[p] <= M
        BY <3>5
      <4>6. w[p] + Total(w, R) <= M * Cardinality(T \cap A)
        BY <3>1, <3>3, <4>4, <4>5
      <4> QED
        BY <2>1, <2>3, <4>6
    <3>6. CASE p \notin A
      <4>1. T \cap A = R \cap A /\ w[p] = 0
        BY <3>1, <3>6
      <4>2. Total(w, T) = Total(w, R)
        BY <2>1, <2>3, <3>3, <4>1
      <4> QED
        BY <3>3, <4>1, <4>2
    <3> QED
      BY <3>5, <3>6
  <2> QED
    BY <2>2, <2>3
<1>2. S \in Good
  <2> HIDE DEF Good
  <2> QED
    BY <1>1, SubsetInduction
<1>3. S \cap A = A /\ DOMAIN w = S
  OBVIOUS
<1>4. Total(w, S) <= M * Cardinality(A)
  BY <1>2, <1>3
<1> QED
  BY <1>3, <1>4, FoldIsTotal

-----------------------------------------------------------------------------
\* The sum over the empty sequence.
LEMMA SumOfEmpty == FoldSeq(+, 0, <<>>) = 0
<1>1. DOMAIN <<>> = {}
  OBVIOUS
<1>2. FoldSeq(+, 0, <<>>) = Total(<<>>, {})
  BY <1>1, FoldIsTotal DEF FoldSeq
<1> QED
  BY <1>2, TotalStep, FS_EmptySet

\* The sum over a sequence is the total over its indices.
LEMMA SeqSumIsTotal ==
  ASSUME NEW s \in Seq(Int)
  PROVE  /\ FoldSeq(+, 0, s) = Total(s, 1..Len(s))
         /\ Len(s) \in Nat /\ DOMAIN s = 1..Len(s) /\ IsFiniteSet(1..Len(s))
         /\ \A i \in 1..Len(s) : s[i] \in Int
<1>1. DOMAIN s = 1..Len(s) /\ Len(s) \in Nat /\ \A i \in 1..Len(s) : s[i] \in Int
  BY LenProperties, ElementOfSeq
<1>2. FoldSeq(+, 0, s) = Total(s, DOMAIN s)
  BY FoldIsTotal DEF FoldSeq
<1>3. IsFiniteSet(1..Len(s))
  BY <1>1, FS_Interval
<1> QED
  BY <1>1, <1>2, <1>3

\* The sum over a sequence of integers is one.
LEMMA SumIsAnInteger ==
  ASSUME NEW s \in Seq(Int)
  PROVE  FoldSeq(+, 0, s) \in Int
BY SeqSumIsTotal, TotalIsAnInteger

\* The sum over a sequence of naturals is one.
LEMMA SumIsNatural ==
  ASSUME NEW s \in Seq(Nat)
  PROVE  FoldSeq(+, 0, s) \in Nat
<1>1. s \in Seq(Int) /\ \A i \in 1..Len(s) : s[i] \in Nat
  BY ElementOfSeq
<1> QED
  BY <1>1, SeqSumIsTotal, TotalIsNatural

\* One value more at the end of a sequence.
LEMMA SumOfAppend ==
  ASSUME NEW s \in Seq(Int), NEW n \in Int
  PROVE  FoldSeq(+, 0, Append(s, n)) = FoldSeq(+, 0, s) + n
<1> DEFINE t == Append(s, n)
           S == 1..Len(s)
           T == 1..Len(s) + 1
           e == Len(s) + 1
<1>1. /\ Len(s) \in Nat /\ t \in Seq(Int) /\ Len(t) = Len(s) + 1
      /\ t[e] = n /\ \A i \in S : t[i] = s[i]
  BY AppendProperties, LenProperties
<1>2. IsFiniteSet(S) /\ \A i \in S : s[i] \in Int
  BY SeqSumIsTotal
<1>3. IsFiniteSet(T) /\ \A i \in T : t[i] \in Int
  BY <1>1, SeqSumIsTotal
<1>4. T \ {e} = S /\ e \in T
  BY <1>1
<1>5. FoldSeq(+, 0, s) = Total(s, S)
  BY SeqSumIsTotal
<1>6. FoldSeq(+, 0, t) = Total(t, T)
  BY <1>1, SeqSumIsTotal
<1> HIDE DEF t, S, T, e
<1>7. Total(t, T) = t[e] + Total(t, S)
  BY <1>3, <1>4, TotalRemove
<1>8. Total(t, S) = Total(s, S) /\ Total(s, S) \in Int
  BY <1>1, <1>2, TotalOfSame, TotalIsAnInteger
<1>9. Total(t, T) = Total(s, S) + n
  BY <1>1, <1>7, <1>8
<1> QED
  BY <1>5, <1>6, <1>9, Zenon DEF t

\* One value less at its front.
LEMMA SumOfTail ==
  ASSUME NEW s \in Seq(Int), s # <<>>
  PROVE  FoldSeq(+, 0, s) = Head(s) + FoldSeq(+, 0, Tail(s))
<1> DEFINE t == Tail(s)
           S == 1..Len(s)
           T == 1..Len(s) - 1
           R == S \ {1}
           b == [i \in T |-> i + 1]
<1>1. /\ Len(s) \in Nat \ {0} /\ t \in Seq(Int) /\ Len(t) = Len(s) - 1
      /\ s[1] = Head(s)
  BY HeadTailProperties, LenProperties, EmptySeq
<1>2. \A i \in T : t[i] = s[i + 1]
  BY <1>1
<1>3. IsFiniteSet(S) /\ \A i \in S : s[i] \in Int
  BY SeqSumIsTotal
<1>4. IsFiniteSet(T) /\ \A i \in T : t[i] \in Int
  BY <1>1, SeqSumIsTotal
<1>5. FoldSeq(+, 0, s) = Total(s, S)
  BY SeqSumIsTotal
<1>6. FoldSeq(+, 0, t) = Total(t, T)
  BY <1>1, SeqSumIsTotal
<1>7. 1 \in S /\ b \in [T -> S] /\ \A i, j \in T : b[i] = b[j] => i = j
  BY <1>1
<1>8. \A i \in T : t[i] \in Int /\ s[b[i]] = t[i]
  BY <1>2, <1>4
<1>9. {b[i] : i \in T} = R
  <2>1. ASSUME NEW j \in R PROVE j \in {b[i] : i \in T}
    <3>1. j - 1 \in T /\ b[j - 1] = j
      BY <1>1
    <3> QED
      BY <3>1
  <2>2. \A i \in T : b[i] \in R
    BY <1>1
  <2> QED
    BY <2>1, <2>2
<1> HIDE DEF t, S, T, R, b
<1>10. Total(s, S) = s[1] + Total(s, R)
  BY <1>3, <1>7, TotalRemove DEF R
<1>11. Total(s, R) = Total(t, T)
  <2>1. Renames(b, t, T, s, R)
    BY <1>7, <1>8, <1>9 DEF Renames
  <2> QED
    BY <1>4, <2>1, TotalReindex
<1>12. Total(s, S) = Head(s) + Total(t, T)
  BY <1>1, <1>10, <1>11
<1> QED
  BY <1>5, <1>6, <1>12, Zenon DEF t

\* One value more at its front.
LEMMA SumOfCons ==
  ASSUME NEW s \in Seq(Int), NEW n \in Int
  PROVE  FoldSeq(+, 0, <<n>> \o s) = n + FoldSeq(+, 0, s)
<1> DEFINE t == <<n>> \o s
<1>1. t \in Seq(Int) /\ t # <<>> /\ Head(t) = n /\ Tail(t) = s
  BY SMT
<1> HIDE DEF t
<1>2. FoldSeq(+, 0, t) = Head(t) + FoldSeq(+, 0, Tail(t))
  BY <1>1, SumOfTail
<1> QED
  BY <1>1, <1>2 DEF t

\* The sum over n times the same number.
LEMMA SumOfConstant ==
  ASSUME NEW c \in Nat, NEW n \in Nat
  PROVE  LET s == [i \in 1..n |-> c]
         IN  s \in Seq(Nat) /\ Len(s) = n /\ FoldSeq(+, 0, s) = c * n
<1> DEFINE s == [i \in 1..n |-> c]
           z == [i \in 1..n |-> 0]
<1>1. s \in Seq(Nat) /\ s \in Seq(Int) /\ Len(s) = n
  BY IsASeq
<1>2. IsFiniteSet(1..n) /\ Cardinality(1..n) = n
  BY FS_Interval
<1>3. DOMAIN z = 1..n /\ \A i \in 1..n : z[i] \in Int /\ s[i] = z[i] + c
  OBVIOUS
<1>4. FoldFunction(+, 0, z) = 0
  BY <1>2, SumOfZeros
<1> HIDE DEF s, z
<1>5. Total(s, 1..n) = Total(z, 1..n) + c * Cardinality(1..n)
  <2>1. c \in Int
    OBVIOUS
  <2> QED
    BY <1>2, <1>3, <2>1, TotalShift
<1>6. Total(z, 1..n) = 0
  BY <1>3, <1>4, FoldIsTotal
<1>7. FoldSeq(+, 0, s) = Total(s, 1..n)
  BY <1>1, SeqSumIsTotal
<1>8. 0 + c * n = c * n
  OBVIOUS
<1>9. FoldSeq(+, 0, s) = c * n
  BY <1>2, <1>5, <1>6, <1>7, <1>8, Zenon
<1> QED
  BY <1>1, <1>9, Zenon DEF s

-----------------------------------------------------------------------------
\* The places of sequence s where it has an element of X.
PlacesOf(s, X) == {i \in DOMAIN s : s[i] \in X}

\* There are finitely many.
LEMMA PlacesAreFinite ==
  ASSUME NEW S, NEW s \in Seq(S), NEW X
  PROVE  IsFiniteSet(PlacesOf(s, X)) /\ Cardinality(PlacesOf(s, X)) \in Nat
<1>1. DOMAIN s = 1..Len(s) /\ Len(s) \in Nat
  BY LenProperties
<1>2. IsFiniteSet(1..Len(s))
  BY <1>1, FS_Interval
<1>3. PlacesOf(s, X) \in SUBSET (1..Len(s))
  BY <1>1 DEF PlacesOf
<1> QED
  BY <1>2, <1>3, FS_Subset, FS_CardinalityType

\* An element at the end is one more place, if it is in X.
LEMMA PlacesOfAppend ==
  ASSUME NEW S, NEW s \in Seq(S), NEW e \in S, NEW X
  PROVE  Cardinality(PlacesOf(Append(s, e), X))
           = Cardinality(PlacesOf(s, X)) + (IF e \in X THEN 1 ELSE 0)
<1> DEFINE n == Len(s) + 1
<1>1. /\ DOMAIN s = 1..Len(s) /\ Len(s) \in Nat
      /\ Append(s, e) \in Seq(S) /\ Len(Append(s, e)) = n
      /\ DOMAIN Append(s, e) = 1..n
      /\ \A i \in 1..Len(s) : Append(s, e)[i] = s[i]
      /\ Append(s, e)[n] = e
  BY AppendProperties, LenProperties
<1>2. IsFiniteSet(PlacesOf(s, X)) /\ Cardinality(PlacesOf(s, X)) \in Nat
  BY PlacesAreFinite
<1>3. n \notin PlacesOf(s, X)
  BY <1>1 DEF PlacesOf
<1>4. CASE e \in X
  <2>1. PlacesOf(Append(s, e), X) = PlacesOf(s, X) \cup {n}
    BY <1>1, <1>4 DEF PlacesOf
  <2> QED
    BY <1>2, <1>3, <1>4, <2>1, FS_AddElement
<1>5. CASE e \notin X
  <2>1. PlacesOf(Append(s, e), X) = PlacesOf(s, X)
    BY <1>1, <1>5 DEF PlacesOf
  <2> QED
    BY <1>2, <1>5, <2>1
<1> QED
  BY <1>4, <1>5

\* Without its front a sequence has one place less, if the front is in X.
LEMMA PlacesOfTail ==
  ASSUME NEW S, NEW s \in Seq(S), s # <<>>, NEW X
  PROVE  Cardinality(PlacesOf(s, X))
           = Cardinality(PlacesOf(Tail(s), X)) + (IF Head(s) \in X THEN 1 ELSE 0)
<1> DEFINE t == Tail(s)
           P == PlacesOf(t, X)
           Q == PlacesOf(s, X) \ {1}
           f == [i \in P |-> i + 1]
<1>1. /\ DOMAIN s = 1..Len(s) /\ Len(s) \in Nat \ {0}
      /\ t \in Seq(S) /\ Head(s) = s[1]
      /\ DOMAIN t = 1..Len(s) - 1
  BY HeadTailProperties, LenProperties, EmptySeq
<1>2. \A i \in 1..Len(s) - 1 : t[i] = s[i + 1]
  BY <1>1
<1> HIDE DEF t
<1>3. /\ IsFiniteSet(P) /\ Cardinality(P) \in Nat
      /\ IsFiniteSet(PlacesOf(s, X)) /\ Cardinality(PlacesOf(s, X)) \in Nat
  BY <1>1, PlacesAreFinite
<1>4. \A i \in P : i \in Int /\ i + 1 \in Q
  BY <1>1, <1>2 DEF PlacesOf
<1>5. ASSUME NEW k \in Q PROVE \E i \in P : i + 1 = k
  <2>1. k \in 1..Len(s) /\ k # 1 /\ s[k] \in X
    BY <1>1, <1>5 DEF PlacesOf
  <2>2. k - 1 \in 1..Len(s) - 1 /\ (k - 1) + 1 = k
    BY <1>1, <2>1
  <2>3. t[k - 1] = s[k]
    BY <1>2, <2>2
  <2>4. k - 1 \in P
    BY <1>1, <2>1, <2>2, <2>3 DEF PlacesOf
  <2> QED
    BY <2>2, <2>4
<1> HIDE DEF P, Q
<1>6. f \in Bijection(P, Q)
  <2>1. f \in [P -> Q]
    BY <1>4
  <2>2. \A a, b \in P : f[a] = f[b] => a = b
    BY <1>4
  <2>3. \A k \in Q : \E i \in P : f[i] = k
    BY <1>5
  <2> QED
    BY <2>1, <2>2, <2>3 DEF Bijection, Injection, Surjection, IsInjective
<1>7. Cardinality(Q) = Cardinality(P)
  BY <1>3, <1>6, FS_Bijection DEF ExistsBijection
<1>8. Cardinality(Q) = IF 1 \in PlacesOf(s, X) THEN Cardinality(PlacesOf(s, X)) - 1
                                               ELSE Cardinality(PlacesOf(s, X))
  BY <1>3, FS_RemoveElement DEF Q
<1>9. 1 \in PlacesOf(s, X) <=> Head(s) \in X
  BY <1>1 DEF PlacesOf
<1>10. Cardinality(PlacesOf(s, X)) = Cardinality(P) + (IF Head(s) \in X THEN 1 ELSE 0)
  BY <1>3, <1>7, <1>8, <1>9
<1> QED
  BY <1>10 DEF P, t
=============================================================================
