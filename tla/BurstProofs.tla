---------------------------- MODULE BurstProofs -----------------------------
(***************************************************************************)
(* Theorems about Burst for all burst and fragment sizes, any number of     *)
(* bursts, and any order and loss of their fragments.                       *)
(***************************************************************************)
EXTENDS Burst, ListLemmas

\* Division with remainder.
LEMMA Division ==
  ASSUME NEW a \in Nat, NEW b \in Nat \ {0}
  PROVE  /\ a % b \in 0..b - 1 /\ a \div b \in Nat
         /\ a = b * (a \div b) + (a % b)
         /\ a < b => a % b = a
OBVIOUS

\* A product with a number other than 0 is not smaller.
LEMMA MultiplesAreFarApart ==
  ASSUME NEW b \in Nat \ {0}, NEW d \in Int
  PROVE  /\ b * d \in Int
         /\ d >= 1 => b * d >= b
         /\ d <= -1 => b * d <= -b
         /\ d = 0 => b * d = 0
OBVIOUS

\* There is one quotient and one remainder.
LEMMA DivisionIsUnique ==
  ASSUME NEW b \in Nat \ {0}, NEW q \in Int, NEW k \in Int,
         NEW r \in 0..b - 1, NEW s \in 0..b - 1, b * q + r = b * k + s
  PROVE  q = k /\ r = s
<1>1. b * (q - k) = b * q - b * k /\ b * q \in Int /\ b * k \in Int
  OBVIOUS
<1>2. b * (q - k) = s - r
  BY <1>1
<1>3. q - k \in Int /\ ~(q - k >= 1) /\ ~(q - k <= -1)
  BY <1>2, MultiplesAreFarApart
<1>4. q = k
  BY <1>3
<1> QED
  BY <1>1, <1>4

\* Counting on from a remainder.
LEMMA RemainderOfSum ==
  ASSUME NEW a \in Nat, NEW b \in Nat \ {0}, NEW c \in Nat
  PROVE  ((a % b) + c) % b = (a + c) % b
<1> DEFINE r == a % b
           x == r + c
           y == a + c
<1>1. r \in 0..b - 1 /\ a \div b \in Nat /\ a = b * (a \div b) + r
  BY Division
<1>2. x \in Nat /\ y \in Nat
  BY <1>1
<1> HIDE DEF x, y
<1>3. x % b \in 0..b - 1 /\ x \div b \in Nat /\ x = b * (x \div b) + (x % b)
  BY <1>2, Division
<1>4. y % b \in 0..b - 1 /\ y \div b \in Nat /\ y = b * (y \div b) + (y % b)
  BY <1>2, Division
<1>5. PICK q \in Nat, k \in Nat, l \in Nat, s \in 0..b - 1, u \in 0..b - 1 :
        /\ a = b * q + r /\ x = b * k + s /\ y = b * l + u
        /\ s = x % b /\ u = y % b
  BY <1>1, <1>3, <1>4
<1>6. PICK h \in Int : h = q + k /\ b * h = b * q + b * k
  <2>1. q + k \in Int /\ b * (q + k) = b * q + b * k
    OBVIOUS
  <2> QED
    BY <2>1
<1>7. b * h + s = b * l + u
  <2>1. r \in Int /\ x = r + c /\ y = a + c
    BY <1>1 DEF x, y
  <2>2. b * q \in Int /\ b * k \in Int /\ b * l \in Int
    OBVIOUS
  <2> HIDE DEF r
  <2> QED
    BY <1>5, <1>6, <2>1, <2>2
<1>8. s = u
  BY <1>7, DivisionIsUnique
<1> QED
  BY <1>5, <1>8 DEF x, y

\* Numbers that differ by less than b have the same remainder only if they are equal.
LEMMA SameRemainder ==
  ASSUME NEW a \in Nat, NEW n \in Nat, NEW b \in Nat \ {0},
         a <= n, n - a < b, a % b = n % b
  PROVE  a = n
<1> DEFINE r == a % b
           q == a \div b
           k == n \div b
<1>1. r \in Nat /\ q \in Nat /\ a = b * q + r
  BY Division
<1>2. k \in Nat /\ n = b * k + r
  BY Division
<1> HIDE DEF r, q, k
<1>3. b * (k - q) = b * k - b * q /\ b * q \in Int /\ b * k \in Int
  BY <1>1, <1>2
<1>4. b * (k - q) = n - a
  BY <1>1, <1>2, <1>3
<1>5. k - q \in Int /\ ~(k - q >= 1) /\ ~(k - q <= -1)
  BY <1>1, <1>2, <1>4, MultiplesAreFarApart
<1>6. k = q
  BY <1>1, <1>2, <1>5
<1> QED
  BY <1>1, <1>2, <1>6

-----------------------------------------------------------------------------
\* The constants are naturals.
LEMMA Sizes ==
  /\ HeaderSize \in Nat \ {0} /\ FragSize \in Nat \ {0} /\ FragSize >= HeaderSize
  /\ Word \in Nat \ {0} /\ Word > 2
  /\ \A b \in BurstSizes : b \in Nat
BY BurstAssumption

\* The sum of a sequence of sizes.
SumOf(s) == FoldSeq(+, 0, s)

\* The sizes of s add up to b, one fewer would not hold it, none is larger than the
\* fragment size and all but the last two are full.
IsCutOf(s, b) ==
  /\ s \in Seq(Nat) /\ Len(s) \in Nat \ {0}
  /\ SumOf(s) = b
  /\ (Len(s) - 1) * FragSize < b
  /\ \A i \in 1..Len(s) : s[i] <= FragSize
  /\ \A i \in 1..Len(s) - 2 : s[i] = FragSize

\* One size more, if it is not zero.
LEMMA SumOfPresent ==
  ASSUME NEW s \in Seq(Nat), NEW n \in Nat
  PROVE  /\ s \o Present(n) \in Seq(Nat)
         /\ SumOf(s \o Present(n)) = SumOf(s) + n
         /\ Len(s \o Present(n)) = Len(s) + (IF n > 0 THEN 1 ELSE 0)
         /\ \A i \in 1..Len(s) : (s \o Present(n))[i] = s[i]
         /\ n > 0 => (s \o Present(n))[Len(s) + 1] = n
<1>1. SumOf(s) \in Nat /\ Len(s) \in Nat
  BY SumIsNatural, LenProperties, Zenon DEF SumOf
<1>2. CASE n = 0
  <2>1. s \o Present(n) = s
    BY <1>2 DEF Present
  <2>2. SumOf(s \o Present(n)) = SumOf(s) /\ Len(s \o Present(n)) = Len(s)
    BY <2>1, Zenon
  <2>3. SumOf(s) = SumOf(s) + n /\ Len(s) = Len(s) + (IF n > 0 THEN 1 ELSE 0)
    BY <1>1, <1>2
  <2>4. SumOf(s \o Present(n)) = SumOf(s) + n
        /\ Len(s \o Present(n)) = Len(s) + (IF n > 0 THEN 1 ELSE 0)
    BY <2>2, <2>3, Zenon
  <2>5. s \o Present(n) \in Seq(Nat) /\ \A i \in 1..Len(s) : (s \o Present(n))[i] = s[i]
    BY <2>1, Zenon
  <2>6. ~(n > 0)
    BY <1>2
  <2> QED
    BY <2>4, <2>5, <2>6, Zenon
<1>3. CASE n > 0
  <2>1. s \o Present(n) = Append(s, n)
    BY <1>3 DEF Present
  <2>2. s \in Seq(Int) /\ n \in Int
    BY ElementOfSeq, SeqOver
  <2>3. SumOf(Append(s, n)) = SumOf(s) + n
    BY <2>2, SumOfAppend, Zenon DEF SumOf
  <2>4. /\ Append(s, n) \in Seq(Nat) /\ Len(Append(s, n)) = Len(s) + 1
        /\ \A i \in 1..Len(s) : Append(s, n)[i] = s[i]
        /\ Append(s, n)[Len(s) + 1] = n
    BY AppendProperties
  <2> QED
    BY <1>3, <2>1, <2>3, <2>4
<1> QED
  BY <1>2, <1>3

\* SendFragmentedBurst cuts every burst up.
LEMMA FragmentsAddUp ==
  ASSUME NEW b \in Nat \ {0}
  PROVE  IsCutOf(Fragments(b), b)
<1> DEFINE whole == b \div FragSize
           last == b % FragSize
<1>1. /\ whole \in Nat /\ last \in 0..FragSize - 1
      /\ b = FragSize * whole + last
  BY Sizes, Division
<1>2. FragSize \in Nat \ {0} /\ HeaderSize \in Nat \ {0} /\ FragSize >= HeaderSize
  BY Sizes
<1>3. PICK full \in Nat, stl \in Nat, ls \in Nat :
        /\ Fragments(b) = [i \in 1..full |-> FragSize] \o Present(stl) \o Present(ls)
        /\ stl <= FragSize /\ ls <= FragSize
        /\ stl + ls > 0
        /\ (stl = 0 => full = 0) /\ FragSize * full + stl + ls = b
        /\ (ls = 0 => stl = FragSize)
        /\ (ls > 0 /\ stl > 0 => stl + ls > FragSize)
  <2> DEFINE short == whole > 0 /\ last > 0 /\ last < HeaderSize
             f == IF whole = 0 THEN 0 ELSE whole - 1
             t == IF whole = 0 THEN 0
                  ELSE IF short THEN FragSize + last - HeaderSize ELSE FragSize
             l == IF short THEN HeaderSize ELSE last
  <2>1. Fragments(b) = [i \in 1..f |-> FragSize] \o Present(t) \o Present(l)
    BY Zenon DEF Fragments
  <2> HIDE DEF whole, last
  <2>2. f \in Nat /\ t \in Nat /\ l \in Nat /\ t <= FragSize /\ l <= FragSize
    BY <1>1, <1>2
  <2>3. /\ t = 0 => f = 0
        /\ l = 0 => t = FragSize
        /\ t + l > 0
        /\ l > 0 /\ t > 0 => t + l > FragSize
    BY <1>1, <1>2
  <2>4. FragSize * f + t + l = b
    <3>1. CASE whole = 0
      BY <1>1, <1>2, <3>1
    <3>2. CASE whole # 0
      <4>1. FragSize * (whole - 1) = FragSize * whole - FragSize
            /\ FragSize * whole \in Int
        BY <1>1, <1>2
      <4>2. f = whole - 1 /\ t + l = FragSize + last
        BY <1>1, <1>2, <3>2
      <4> HIDE DEF f, t, l
      <4> QED
        BY <1>1, <1>2, <2>2, <4>1, <4>2
    <3> QED
      BY <3>1, <3>2
  <2> HIDE DEF f, t, l
  <2> QED
    BY <2>1, <2>2, <2>3, <2>4
<1> DEFINE s == [i \in 1..full |-> FragSize]
           u == s \o Present(stl)
           v == u \o Present(ls)
           p == IF stl > 0 THEN 1 ELSE 0
           q == IF ls > 0 THEN 1 ELSE 0
<1>4. s \in Seq(Nat) /\ Len(s) = full /\ SumOf(s) = FragSize * full
  BY <1>2, SumOfConstant, Zenon DEF SumOf
<1>5. \A i \in 1..full : s[i] = FragSize
  OBVIOUS
<1> HIDE DEF s
<1>6. /\ u \in Seq(Nat) /\ SumOf(u) = SumOf(s) + stl /\ Len(u) = full + p
      /\ \A i \in 1..full : u[i] = FragSize
      /\ stl > 0 => u[full + 1] = stl
  BY <1>4, <1>5, SumOfPresent
<1> HIDE DEF u
<1>7. /\ v \in Seq(Nat) /\ SumOf(v) = SumOf(u) + ls /\ Len(v) = Len(u) + q
      /\ \A i \in 1..Len(u) : v[i] = u[i]
      /\ ls > 0 => v[Len(u) + 1] = ls
  BY <1>6, SumOfPresent
<1>8. Fragments(b) = v
  BY <1>3 DEF s, u
<1> HIDE DEF v
<1>9. Len(v) = full + p + q /\ Len(v) \in Nat \ {0}
  BY <1>3, <1>6, <1>7
<1>10. SumOf(v) = b
  <2>1. FragSize * full \in Int
    BY <1>2
  <2> QED
    BY <1>3, <1>4, <1>6, <1>7, <2>1
<1>11. (Len(v) - 1) * FragSize < b
  <2>1. FragSize * full \in Int /\ full * FragSize = FragSize * full
        /\ (full + 1) * FragSize = FragSize * full + FragSize
    BY <1>2
  <2>2. CASE stl = 0
    <3>1. Len(v) - 1 = 0 /\ b > 0
      BY <1>3, <1>9, <2>2
    <3>2. 0 * FragSize = 0
      BY <1>2
    <3>3. (Len(v) - 1) * FragSize = 0
      BY <3>1, <3>2, Zenon
    <3> QED
      BY <3>1, <3>3
  <2>3. CASE stl > 0 /\ ls = 0
    <3>1. Len(v) - 1 = full
      BY <1>3, <1>9, <2>3
    <3>2. (Len(v) - 1) * FragSize = FragSize * full
      BY <2>1, <3>1, Zenon
    <3> QED
      BY <1>2, <1>3, <2>1, <2>3, <3>2
  <2>4. CASE stl > 0 /\ ls > 0
    <3>1. Len(v) - 1 = full + 1
      BY <1>3, <1>9, <2>4
    <3>2. (Len(v) - 1) * FragSize = FragSize * full + FragSize
      BY <2>1, <3>1, Zenon
    <3> QED
      BY <1>2, <1>3, <2>1, <2>4, <3>2
  <2> QED
    BY <2>2, <2>3, <2>4
<1>12. ASSUME NEW i \in 1..Len(v) PROVE v[i] <= FragSize
  <2>1. i \in 1..full \/ (stl > 0 /\ i = full + 1) \/ (ls > 0 /\ i = Len(u) + 1)
    BY <1>6, <1>9
  <2>2. CASE i \in 1..full
    <3>1. i \in 1..Len(u)
      BY <1>2, <1>3, <1>6, <2>2
    <3>2. v[i] = u[i] /\ u[i] = FragSize
      BY <1>6, <1>7, <2>2, <3>1, Zenon
    <3> QED
      BY <1>2, <3>2
  <2>3. CASE stl > 0 /\ i = full + 1
    BY <1>3, <1>6, <1>7, <2>3
  <2>4. CASE ls > 0 /\ i = Len(u) + 1
    BY <1>3, <1>7, <2>4
  <2> QED
    BY <2>1, <2>2, <2>3, <2>4
<1>13. ASSUME NEW i \in 1..Len(v) - 2 PROVE v[i] = FragSize
  <2>1. i \in 1..full /\ i \in 1..Len(u)
    BY <1>6, <1>9
  <2> QED
    BY <1>6, <1>7, <2>1
<1> QED
  BY <1>7, <1>8, <1>9, <1>10, <1>11, <1>12, <1>13 DEF IsCutOf
-----------------------------------------------------------------------------
\* How many fragments burst k has.
Parts(k) == Len(Fragments(sent[k + 1]))

\* What each of them carries of the burst, by its place.
Share(k) == [i \in 1..Parts(k) |-> Fragments(sent[k + 1])[i] - HeaderSize]

\* Burst k has been sent, and so SendFragmentedBurst has not aborted on it.
Launched(k) ==
  /\ sent[k + 1] \in Nat \ {0}
  /\ \A i \in 1..Parts(k) : Fragments(sent[k + 1])[i] >= HeaderSize

\* The fragments of a burst are told apart by their numbers, and there are as many as
\* the burst has parts.
LEMMA FragmentNumbers ==
  ASSUME NEW k, Launched(k)
  PROVE  /\ Parts(k) \in Nat \ {0}
         /\ \A m \in AllOf(k) : m.burst = k /\ m.frag \in 0..Parts(k) - 1
         /\ \A m, u \in AllOf(k) : m.frag = u.frag => m = u
         /\ \A j \in 0..Parts(k) - 1 : [burst |-> k, frag |-> j] \in AllOf(k)
         /\ IsFiniteSet(AllOf(k))
<1>1. Parts(k) \in Nat \ {0}
  BY FragmentsAddUp DEF Launched, IsCutOf, Parts
<1>2. AllOf(k) = [burst : {k}, frag : 0..Parts(k) - 1]
  BY DEF AllOf, Parts
<1>3. /\ \A m \in AllOf(k) : m.burst = k /\ m.frag \in 0..Parts(k) - 1
      /\ \A m, u \in AllOf(k) : m.frag = u.frag => m = u
      /\ \A j \in 0..Parts(k) - 1 : [burst |-> k, frag |-> j] \in AllOf(k)
  BY <1>2
<1>4. IsFiniteSet(AllOf(k))
  <2> DEFINE f == [m \in AllOf(k) |-> m.frag]
             S == AllOf(k)
             T == 0..Parts(k) - 1
  <2>1. f \in Injection(S, T)
    BY <1>3 DEF Injection, IsInjective
  <2>2. IsFiniteSet(T)
    BY <1>1, FS_Interval
  <2> HIDE DEF f, S, T
  <2>3. IsFiniteSet(S)
    BY <2>1, <2>2, FS_Injection
  <2> QED
    BY <2>3 DEF S
<1> QED
  BY <1>1, <1>3, <1>4

\* The shares add up to the payload, and only the last two may be empty, where there
\* is a payload at all.
LEMMA SharesAddUp ==
  ASSUME NEW k, Launched(k)
  PROVE  /\ IsFiniteSet(1..Parts(k))
         /\ \A i \in 1..Parts(k) : Share(k)[i] \in Nat
         /\ Total(Share(k), 1..Parts(k)) = Payload(sent[k + 1])
         /\ Payload(sent[k + 1]) \in Nat
         /\ Payload(sent[k + 1]) # 0 => \A i \in 1..Parts(k) - 2 : Share(k)[i] # 0
<1> DEFINE b == sent[k + 1]
           s == Fragments(b)
           n == Parts(k)
           S == 1..n
           v == Share(k)
<1>1. /\ b \in Nat \ {0} /\ n = Len(s) /\ IsCutOf(s, b)
      /\ \A i \in S : s[i] >= HeaderSize
  BY FragmentsAddUp DEF Launched, Parts
<1>2. /\ n \in Nat \ {0} /\ IsFiniteSet(S) /\ Cardinality(S) = n
      /\ \A i \in S : s[i] \in Nat /\ s[i] <= FragSize
      /\ \A i \in 1..n - 2 : s[i] = FragSize
  <2>1. n \in Nat \ {0} /\ s \in Seq(Nat)
    BY <1>1 DEF IsCutOf
  <2>2. IsFiniteSet(S) /\ Cardinality(S) = n
    <3> HIDE DEF n
    <3> QED
      BY <2>1, FS_Interval
  <2>3. \A i \in S : s[i] \in Nat
    BY <1>1, <2>1, ElementOfSeq
  <2>4. /\ \A i \in S : s[i] <= FragSize
        /\ \A i \in 1..n - 2 : s[i] = FragSize
    <3> HIDE DEF s, b
    <3> QED
      BY <1>1 DEF IsCutOf
  <2> QED
    BY <2>1, <2>2, <2>3, <2>4
<1>3. /\ HeaderSize \in Nat \ {0} /\ FragSize \in Nat /\ FragSize >= HeaderSize
      /\ -HeaderSize \in Int
  BY Sizes
<1>4. \A i \in S : v[i] = s[i] + (-HeaderSize) /\ v[i] \in Nat
  BY <1>1, <1>2, <1>3 DEF Share
<1>5. Total(s, S) = b
  <2>1. s \in Seq(Int)
    BY <1>1, <1>2, SeqOver DEF IsCutOf
  <2>2. FoldSeq(+, 0, s) = Total(s, 1..Len(s)) /\ FoldSeq(+, 0, s) = b
    BY <1>1, <2>1, SeqSumIsTotal, Zenon DEF IsCutOf, SumOf
  <2> QED
    BY <1>1, <2>2, Zenon
<1>6. Total(v, S) = Total(s, S) + (-HeaderSize) * Cardinality(S)
  <2>1. \A i \in S : s[i] \in Int
    BY <1>2
  <2> HIDE DEF v, s, S, n, b
  <2> QED
    BY <1>2, <1>3, <1>4, <2>1, TotalShift
<1>7. Payload(b) = b - HeaderSize * n
  BY <1>1, Zenon DEF Payload
<1>8. (-HeaderSize) * n = -(HeaderSize * n) /\ HeaderSize * n \in Int
  BY <1>2, <1>3
<1>9. Total(v, S) = Payload(b)
  <2>1. Total(v, S) = b + (-(HeaderSize * n))
    BY <1>2, <1>5, <1>6, <1>8, Zenon
  <2> HIDE DEF v, S, n, b
  <2> QED
    BY <1>1, <1>7, <1>8, <2>1
<1>10. Payload(b) \in Nat
  <2>1. Total(v, S) \in Nat
    BY <1>2, <1>4, TotalIsNatural
  <2> QED
    BY <1>9, <2>1, Zenon
<1>11. ASSUME Payload(b) # 0, NEW i \in 1..n - 2
       PROVE  v[i] # 0
  <2>1. CASE FragSize > HeaderSize
    <3>1. i \in S /\ s[i] = FragSize
      BY <1>2
    <3> QED
      BY <1>3, <1>4, <2>1, <3>1
  <2>2. CASE FragSize = HeaderSize
    <3> DEFINE z == [j \in S |-> 0]
    <3>1. \A j \in S : z[j] \in Int /\ v[j] = z[j]
      BY <1>1, <1>2, <1>3, <1>4, <2>2
    <3>2. FoldFunction(+, 0, z) = 0 /\ DOMAIN z = S
      BY <1>2, SumOfZeros
    <3> HIDE DEF z, v, S, n, b
    <3>3. Total(v, S) = Total(z, S)
      BY <1>2, <3>1, TotalOfSame
    <3>4. Total(z, S) = 0
      BY <3>2, FoldIsTotal, Zenon
    <3> QED
      BY <1>9, <1>11, <3>3, <3>4
  <2> QED
    BY <1>3, <2>1, <2>2
<1> QED
  BY <1>2, <1>4, <1>9, <1>10, <1>11

\* The places in their burst of the fragments of s.
Numbers(s) == {s[i].frag + 1 : i \in DOMAIN s}

\* What different fragments of a burst carry together.
LEMMA BytesAreShares ==
  ASSUME NEW k, Launched(k), NEW s \in Seq(AllOf(k)), IsInjective(s)
  PROVE  /\ BytesOf(s) = Total(Share(k), Numbers(s))
         /\ Numbers(s) \in SUBSET (1..Parts(k))
         /\ Cardinality(Numbers(s)) = Len(s)
<1> DEFINE S == DOMAIN s
           b == [i \in S |-> s[i].frag + 1]
           v == [i \in S |-> Fragments(sent[s[i].burst + 1])[s[i].frag + 1] - HeaderSize]
<1>1. /\ S = 1..Len(s) /\ Len(s) \in Nat /\ IsFiniteSet(S) /\ Cardinality(S) = Len(s)
      /\ \A i \in S : s[i] \in AllOf(k)
  <2>1. S = 1..Len(s) /\ Len(s) \in Nat
    BY LenProperties
  <2>2. IsFiniteSet(1..Len(s)) /\ Cardinality(1..Len(s)) = Len(s)
    BY <2>1, FS_Interval
  <2>3. \A i \in 1..Len(s) : s[i] \in AllOf(k)
    BY ElementOfSeq
  <2> QED
    BY <2>1, <2>2, <2>3
<1>2. \A i \in S : s[i].burst = k /\ s[i].frag \in 0..Parts(k) - 1
  BY <1>1, FragmentNumbers
<1>3. /\ \A i \in S : b[i] \in 1..Parts(k) /\ Parts(k) \in Nat
      /\ \A i, j \in S : b[i] = b[j] => i = j
      /\ Numbers(s) = {b[i] : i \in S}
  <2>1. Parts(k) \in Nat
    BY FragmentNumbers
  <2>2. ASSUME NEW i \in S, NEW j \in S, b[i] = b[j] PROVE i = j
    <3>1. s[i].frag = s[j].frag
      BY <1>2, <2>2
    <3>2. s[i] = s[j]
      BY <1>1, <3>1, FragmentNumbers
    <3> QED
      BY <3>2 DEF IsInjective
  <2> QED
    BY <1>2, <2>1, <2>2 DEF Numbers
<1>4. \A i \in S : v[i] \in Int /\ Share(k)[b[i]] = v[i]
  <2>1. \A i \in 1..Parts(k) : Share(k)[i] \in Nat
    BY SharesAddUp
  <2>2. \A i \in S : v[i] = Share(k)[b[i]]
    BY <1>2, <1>3 DEF Share
  <2> QED
    BY <1>3, <2>1, <2>2
<1>5. v \in Seq(Int) /\ Len(v) = Len(s)
  <2>1. v = [i \in 1..Len(s) |-> v[i]]
    BY <1>1
  <2> HIDE DEF v
  <2>2. [i \in 1..Len(s) |-> v[i]] \in Seq(Int)
    BY <1>1, <1>4, IsASeq
  <2>3. v \in Seq(Int)
    BY <2>1, <2>2
  <2>4. DOMAIN v = 1..Len(s)
    BY <2>1
  <2> QED
    BY <1>1, <2>3, <2>4, LenProperties
<1>6. BytesOf(s) = Total(v, S)
  <2>1. FoldSeq(+, 0, v) = Total(v, 1..Len(v))
    BY <1>5, SeqSumIsTotal
  <2>2. BytesOf(s) = FoldSeq(+, 0, v)
    BY Zenon DEF BytesOf
  <2> QED
    BY <1>1, <1>5, <2>1, <2>2, Zenon
<1> HIDE DEF b, v, S
<1>7. Renames(b, v, S, Share(k), Numbers(s))
  BY <1>3, <1>4 DEF Renames
<1>8. Total(Share(k), Numbers(s)) = Total(v, S)
  BY <1>1, <1>7, TotalReindex
<1>9. Cardinality(Numbers(s)) = Cardinality(S)
  <2>1. DOMAIN b = S
    BY DEF b
  <2>2. b \in Bijection(S, Numbers(s))
    <3>1. b \in [S -> Numbers(s)]
      BY <1>3 DEF b
    <3> QED
      BY <1>3, <3>1 DEF Bijection, Injection, Surjection, IsInjective
  <2> QED
    BY <1>1, <2>2, FS_Bijection DEF ExistsBijection
<1> QED
  BY <1>1, <1>3, <1>6, <1>8, <1>9
\* Fragments that carry the whole payload, as many as the burst has up to a multiple
\* of the range of the counter, are all its fragments: at most the two empty ones
\* could be missing, and those are too few to go unnoticed.
LEMMA WholeBurst ==
  ASSUME NEW k, Launched(k), NEW s \in Seq(AllOf(k)), IsInjective(s),
         Payload(sent[k + 1]) # 0, BytesOf(s) = Payload(sent[k + 1]),
         Len(s) % Word = Parts(k) % Word
  PROVE  AllOf(k) \subseteq ToSet(s)
<1> DEFINE n == Parts(k)
           S == 1..n
           U == Numbers(s)
           C == S \ U
           v == Share(k)
<1>1. /\ n \in Nat \ {0} /\ IsFiniteSet(S) /\ Cardinality(S) = n
      /\ U \in SUBSET S /\ Cardinality(U) = Len(s) /\ Len(s) \in Nat
  <2>1. n \in Nat \ {0}
    BY FragmentNumbers
  <2>2. IsFiniteSet(S) /\ Cardinality(S) = n
    <3> HIDE DEF n
    <3> QED
      BY <2>1, FS_Interval
  <2> QED
    BY <2>1, <2>2, BytesAreShares, LenProperties
<1>2. /\ \A i \in S : v[i] \in Nat
      /\ Total(v, S) = Payload(sent[k + 1])
      /\ \A i \in 1..n - 2 : v[i] # 0
  BY SharesAddUp
<1>3. Total(v, U) = Total(v, S)
  BY <1>2, BytesAreShares
<1> HIDE DEF n, S, U, v
<1>4. Total(v, C) = 0
  <2>1. \A i \in S : v[i] \in Int
    BY <1>2
  <2>2. Total(v, S) = Total(v, U) + Total(v, C) /\ Total(v, U) \in Int /\ Total(v, C) \in Int
    BY <1>1, <2>1, TotalSplit
  <2> HIDE DEF C
  <2> QED
    BY <1>3, <2>2
<1>5. IsFiniteSet(C) /\ \A i \in C : v[i] = 0
  <2>1. IsFiniteSet(C) /\ \A i \in C : v[i] \in Nat
    BY <1>1, <1>2, FS_Subset
  <2> HIDE DEF C
  <2> QED
    BY <1>4, <2>1, TotalOfNothing
<1>6. C \in SUBSET {n - 1, n}
  <2>1. ASSUME NEW i \in C PROVE i \in {n - 1, n}
    <3>1. i \in S /\ v[i] = 0
      BY <1>5
    <3>2. i \in 1..n /\ i \notin 1..n - 2
      BY <1>2, <3>1 DEF S
    <3> QED
      BY <1>1, <3>2
  <2> QED
    BY <2>1
<1>7. Cardinality(C) \in Nat /\ Cardinality(C) <= 2
  <2> DEFINE D == {n} \cup {n - 1}
  <2>1. IsFiniteSet({n}) /\ Cardinality({n}) = 1
    BY FS_Singleton
  <2>2. IsFiniteSet(D) /\ Cardinality(D) \in {1, 2}
    <3>1. /\ IsFiniteSet(D)
          /\ Cardinality(D) = IF n - 1 \in {n} THEN Cardinality({n})
                                               ELSE Cardinality({n}) + 1
      BY <2>1, FS_AddElement
    <3> HIDE DEF D
    <3> QED
      BY <2>1, <3>1
  <2>3. C \in SUBSET D
    BY <1>6
  <2> HIDE DEF C, D
  <2>4. Cardinality(C) <= Cardinality(D)
    BY <2>2, <2>3, FS_Subset
  <2>5. Cardinality(C) \in Nat
    BY <1>5, FS_CardinalityType
  <2> QED
    BY <2>2, <2>4, <2>5
<1>8. n = Len(s) + Cardinality(C)
  <2>1. S \cap U = U
    BY <1>1
  <2>2. Cardinality(C) = Cardinality(S) - Cardinality(S \cap U)
    BY <1>1, FS_Difference
  <2>3. Cardinality(C) = n - Len(s)
    BY <1>1, <2>1, <2>2, Zenon
  <2> QED
    BY <1>1, <1>7, <2>3
<1>9. Len(s) = n
  <2>1. Len(s) <= n /\ n - Len(s) < Word
    BY <1>1, <1>7, <1>8, Sizes
  <2>2. Len(s) % Word = n % Word
    BY DEF n
  <2> QED
    BY <1>1, <2>1, <2>2, SameRemainder, Sizes
<1>10. U = S
  BY <1>1, <1>9, FS_Subset
<1> SUFFICES ASSUME NEW m \in AllOf(k) PROVE m \in ToSet(s)
  OBVIOUS
<1>11. m.frag \in Nat /\ m.frag + 1 \in S
  BY <1>1, FragmentNumbers DEF S, n
<1>12. PICK i \in DOMAIN s : s[i].frag + 1 = m.frag + 1
  BY <1>10, <1>11 DEF U, Numbers
<1>13. s[i] \in AllOf(k) /\ s[i].frag \in Nat
  <2>1. s[i] \in AllOf(k)
    BY ElementOfSeq, LenProperties
  <2> QED
    BY <2>1, <1>1, FragmentNumbers DEF n
<1>14. s[i] = m
  BY <1>11, <1>12, <1>13, FragmentNumbers
<1> QED
  BY <1>14 DEF ToSet

\* All the fragments, in order, carry the whole payload.
LEMMA FullBuffer ==
  ASSUME NEW k, Launched(k), NEW s \in Seq(AllOf(k)), Len(s) = Parts(k),
         \A i \in DOMAIN s : s[i].frag = i - 1
  PROVE  BytesOf(s) = Payload(sent[k + 1])
<1>1. DOMAIN s = 1..Parts(k) /\ Parts(k) \in Nat
  BY LenProperties, FragmentNumbers
<1>2. IsInjective(s)
  BY <1>1 DEF IsInjective
<1>3. Numbers(s) = 1..Parts(k)
  <2>1. \A i \in 1..Parts(k) : s[i].frag + 1 = i
    BY <1>1
  <2> QED
    BY <1>1, <2>1 DEF Numbers
<1> QED
  BY <1>2, <1>3, BytesAreShares, SharesAddUp

-----------------------------------------------------------------------------
\* RunAfter takes the fragments in waiting that follow fragment number n, in order,
\* up to the first that is missing.
LEMMA RunsAreGapless ==
  ASSUME NEW W, IsFiniteSet(W), NEW n \in Nat, \A u \in W : FragSeq(u) \in Nat
  PROVE  LET run == RunAfter(n, W)
         IN  /\ run \in Seq(W)
             /\ \A i \in 1..Len(run) : FragSeq(run[i]) = n + i
             /\ \A u \in W : FragSeq(u) # n + 1 + Len(run)
<1> DEFINE c == Cardinality(W)
           K == {k \in n + 1..n + 1 + c : \A u \in W : FragSeq(u) # k}
           Q(k) == /\ \A i \in n + 1..k - 1 : \E u \in W : FragSeq(u) = i
                   /\ \A u \in W : FragSeq(u) # k
           next == CHOOSE k \in n + 1..n + 1 + c : Q(k)
<1>1. c \in Nat
  BY FS_CardinalityType
<1>2. K # {}
  <2> SUFFICES ASSUME K = {} PROVE FALSE
    OBVIOUS
  <2> DEFINE f == [u \in W |-> FragSeq(u)]
             T == {FragSeq(u) : u \in W}
             I == n + 1..n + 1 + c
  <2>1. f \in Surjection(W, T)
    BY DEF Surjection
  <2> HIDE DEF f
  <2>2. IsFiniteSet(T) /\ Cardinality(T) <= c
    BY <2>1, FS_Surjection
  <2>3. I \in SUBSET T
    OBVIOUS
  <2>4. Cardinality(I) = c + 1
    <3>1. n + 1 \in Int /\ n + 1 + c \in Int /\ ~(n + 1 > n + 1 + c)
      BY <1>1
    <3>2. Cardinality(I) = (n + 1 + c) - (n + 1) + 1
      BY <3>1, FS_Interval
    <3> QED
      BY <1>1, <3>2
  <2>5. Cardinality(I) <= Cardinality(T) /\ Cardinality(T) \in Nat
    <3> HIDE DEF I, T
    <3> QED
      BY <2>2, <2>3, FS_Subset, FS_CardinalityType
  <2> QED
    BY <1>1, <2>2, <2>4, <2>5
<1>3. PICK k \in K : \A j \in K : k <= j
  <2>1. \A j \in K : j \in Int
    BY <1>1
  <2>2. IsFiniteSet(n + 1..n + 1 + c)
    <3>1. n + 1 \in Int /\ n + 1 + c \in Int
      BY <1>1
    <3> QED
      BY <3>1, FS_Interval
  <2>3. IsFiniteSet(K) /\ K \in SUBSET Int
    BY <2>1, <2>2, FS_Subset
  <2> HIDE DEF K
  <2> QED
    BY <1>2, <2>3, MinIsLeast
<1>4. k \in n + 1..n + 1 + c /\ Q(k)
  <2>1. ASSUME NEW i \in n + 1..k - 1 PROVE \E u \in W : FragSeq(u) = i
    <3>1. i \in n + 1..n + 1 + c /\ ~(k <= i)
      BY <1>1
    <3>2. i \notin K
      BY <1>3, <3>1
    <3> QED
      BY <3>1, <3>2
  <2> QED
    BY <2>1
<1>5. next \in n + 1..n + 1 + c /\ Q(next)
  <2> HIDE DEF Q
  <2> QED
    BY <1>4
<1> DEFINE l == next - 1 - n
           run == [i \in 1..l |-> CHOOSE u \in W : FragSeq(u) = n + i]
<1>6. RunAfter(n, W) = run
  BY Zenon DEF RunAfter
<1>7. \E x \in n + 1..n + 1 + c : x = next /\ Q(x)
  BY <1>5
<1> HIDE DEF next
<1>8. l \in Nat /\ next = n + 1 + l
  BY <1>1, <1>5
<1>9. ASSUME NEW i \in 1..l
      PROVE  run[i] \in W /\ FragSeq(run[i]) = n + i
  <2>1. n + i \in n + 1..next - 1
    BY <1>8
  <2>2. \E u \in W : FragSeq(u) = n + i
    BY <1>5, <2>1
  <2> QED
    BY <2>2
<1>10. run \in Seq(W) /\ Len(run) = l
  <2>1. \A i \in 1..l : (CHOOSE u \in W : FragSeq(u) = n + i) \in W
    BY <1>9
  <2>2. run \in Seq(W)
    <3> HIDE DEF l
    <3> QED
      BY <1>8, <2>1, IsASeq
  <2>3. DOMAIN run = 1..l
    OBVIOUS
  <2> HIDE DEF run
  <2> QED
    BY <1>8, <2>2, <2>3, LenProperties
<1> HIDE DEF run, l
<1>11. \A i \in 1..Len(run) : FragSeq(run[i]) = n + i
  BY <1>9, <1>10
<1>12. \A u \in W : FragSeq(u) # n + 1 + Len(run)
  BY <1>5, <1>8, <1>10
<1> QED
  BY <1>6, <1>10, <1>11, <1>12, Zenon
\* The number in a fragment's header; it tells the fragments of a burst apart if it
\* can count them.
LEMMA HeaderNumbers ==
  ASSUME NEW k, Launched(k), NEW m \in AllOf(k)
  PROVE  /\ FragSeq(m) \in 0..Word - 1
         /\ Countable(k) => FragSeq(m) = m.frag
<1>1. m.frag \in Nat /\ m.frag < Parts(k) /\ Parts(k) \in Nat
  BY FragmentNumbers
<1>2. Word \in Nat \ {0}
  BY Sizes
<1>3. FragSeq(m) \in 0..Word - 1 /\ (m.frag < Word => FragSeq(m) = m.frag)
  BY <1>1, <1>2, Division DEF FragSeq
<1> QED
  BY <1>1, <1>2, <1>3 DEF Countable, Parts

(***************************************************************************)
(* What a BurstHandler keeps of burst c while the fragments in N have not   *)
(* arrived: B holds merged ones and W waiting ones, all of them different,  *)
(* and M counts those in B.  If the counter can tell the fragments apart,   *)
(* B is the beginning of the burst and a gap follows it.                    *)
(***************************************************************************)
Assembling(c, M, W, B, N) ==
  /\ B \in Seq(AllOf(c)) /\ IsInjective(B)
  /\ W \subseteq AllOf(c)
  /\ ToSet(B) \cap W = {} /\ (ToSet(B) \cup W) \cap N = {}
  /\ M = Len(B) % Word
  /\ Countable(c) => /\ \A i \in DOMAIN B : B[i].frag = i - 1
                     /\ \A u \in W : u.frag > M

\* Then M is the number of fragments merged, and all are once there are so many.
LEMMA MergedIsExact ==
  ASSUME NEW c, Launched(c), NEW M, NEW W, NEW B, NEW N, Assembling(c, M, W, B, N),
         Countable(c)
  PROVE  /\ M = Len(B) /\ Len(B) <= Parts(c)
         /\ M \in Nat /\ Parts(c) \in Nat
<1>1. /\ Len(B) \in Nat /\ DOMAIN B = 1..Len(B) /\ Parts(c) \in Nat \ {0}
      /\ \A i \in 1..Len(B) : B[i] \in AllOf(c)
  BY LenProperties, ElementOfSeq, FragmentNumbers DEF Assembling
<1>2. Len(B) <= Parts(c)
  <2>1. CASE Len(B) = 0
    BY <1>1, <2>1
  <2>2. CASE Len(B) # 0
    <3>1. Len(B) \in 1..Len(B)
      BY <1>1, <2>2
    <3>2. B[Len(B)].frag = Len(B) - 1 /\ B[Len(B)].frag \in 0..Parts(c) - 1
      BY <1>1, <3>1, FragmentNumbers DEF Assembling
    <3> QED
      BY <1>1, <3>2
  <2> QED
    BY <2>1, <2>2
<1>3. Len(B) < Word /\ Word \in Nat \ {0}
  BY <1>1, <1>2, Sizes DEF Countable, Parts
<1>4. M = Len(B)
  BY <1>1, <1>3, Division DEF Assembling
<1> QED
  BY <1>1, <1>2, <1>4

\* Two sequences of different elements, one after the other.
LEMMA Joined ==
  ASSUME NEW A, NEW s \in Seq(A), NEW t \in Seq(A),
         IsInjective(s), IsInjective(t), ToSet(s) \cap ToSet(t) = {}
  PROVE  /\ s \o t \in Seq(A) /\ Len(s \o t) = Len(s) + Len(t)
         /\ \A i \in 1..Len(s) : (s \o t)[i] = s[i]
         /\ \A i \in 1..Len(t) : (s \o t)[Len(s) + i] = t[i]
         /\ IsInjective(s \o t)
         /\ ToSet(s \o t) = ToSet(s) \cup ToSet(t)
<1> DEFINE L == Len(s)
           R == Len(t)
           D == s \o t
<1>1. /\ L \in Nat /\ R \in Nat /\ DOMAIN s = 1..L /\ DOMAIN t = 1..R
  BY LenProperties
<1>2. /\ D \in Seq(A) /\ Len(D) = L + R
      /\ \A i \in 1..L + R : D[i] = IF i <= L THEN s[i] ELSE t[i - L]
  BY ConcatProperties
<1>3. DOMAIN D = 1..L + R
  BY <1>2, LenProperties
<1> HIDE DEF D, L, R
<1>4. \A i \in 1..L : i \in 1..L + R /\ D[i] = s[i]
  BY <1>1, <1>2
<1>5. ASSUME NEW i \in 1..R PROVE L + i \in 1..L + R /\ D[L + i] = t[i]
  <2>1. L + i \in 1..L + R /\ ~(L + i <= L) /\ (L + i) - L = i
    BY <1>1
  <2> QED
    BY <1>2, <2>1
<1>6. ASSUME NEW i \in 1..L + R
      PROVE  i \in 1..L \/ \E j \in 1..R : i = L + j
  <2>1. i > L => i - L \in 1..R /\ i = L + (i - L)
    BY <1>1
  <2>2. i <= L => i \in 1..L
    BY <1>1
  <2> QED
    BY <1>1, <2>1, <2>2
<1>7. \A i \in 1..L, j \in 1..R : s[i] # t[j]
  BY <1>1 DEF ToSet
<1>8. ASSUME NEW i \in 1..L + R, NEW j \in 1..L + R, D[i] = D[j] PROVE i = j
  <2>1. CASE i \in 1..L /\ j \in 1..L
    BY <1>1, <1>4, <1>8, <2>1 DEF IsInjective
  <2>2. ASSUME NEW k \in 1..R, i \in 1..L, j = L + k PROVE FALSE
    BY <1>4, <1>5, <1>7, <1>8, <2>2
  <2>3. ASSUME NEW k \in 1..R, j \in 1..L, i = L + k PROVE FALSE
    BY <1>4, <1>5, <1>7, <1>8, <2>3
  <2>4. ASSUME NEW k \in 1..R, NEW l \in 1..R, i = L + k, j = L + l PROVE i = j
    <3>1. t[k] = t[l]
      BY <1>5, <1>8, <2>4
    <3> QED
      BY <1>1, <2>4, <3>1 DEF IsInjective
  <2> QED
    BY <1>6, <2>1, <2>2, <2>3, <2>4
<1>9. ToSet(D) = ToSet(s) \cup ToSet(t)
  <2>1. ASSUME NEW x \in ToSet(D) PROVE x \in ToSet(s) \cup ToSet(t)
    <3>1. PICK i \in 1..L + R : x = D[i]
      BY <1>3 DEF ToSet
    <3>2. CASE i \in 1..L
      BY <1>1, <1>4, <3>1, <3>2 DEF ToSet
    <3>3. ASSUME NEW j \in 1..R, i = L + j PROVE x \in ToSet(t)
      <4>1. x = t[j]
        BY <1>5, <3>1, <3>3
      <4> QED
        BY <1>1, <4>1 DEF ToSet
    <3> QED
      BY <1>6, <3>2, <3>3
  <2>2. ASSUME NEW x \in ToSet(s) PROVE x \in ToSet(D)
    <3>1. PICK i \in 1..L : x = s[i]
      BY <1>1 DEF ToSet
    <3>2. i \in DOMAIN D /\ D[i] = x
      BY <1>3, <1>4, <3>1
    <3> QED
      BY <3>2 DEF ToSet
  <2>3. ASSUME NEW x \in ToSet(t) PROVE x \in ToSet(D)
    <3>1. PICK i \in 1..R : x = t[i]
      BY <1>1 DEF ToSet
    <3>2. L + i \in DOMAIN D /\ D[L + i] = x
      BY <1>3, <1>5, <3>1
    <3> QED
      BY <3>2 DEF ToSet
  <2> QED
    BY <2>1, <2>2, <2>3
<1>10. IsInjective(D)
  BY <1>3, <1>8 DEF IsInjective
<1> QED
  BY <1>2, <1>4, <1>5, <1>9, <1>10 DEF D, L, R

\* Fragment m follows B and is merged with those that waited for it: K, V and D are
\* what Merge makes of M, W and B.
Merging(c, M, W, B, N, m, K, V, D) ==
  /\ Assembling(c, M, W, B, N)
  /\ m \in AllOf(c) /\ m \in N /\ FragSeq(m) = M
  /\ LET run == RunAfter(FragSeq(m), W)
     IN /\ D = B \o <<m>> \o run
        /\ K = Count(FragSeq(m) + 1 + Len(run))
        /\ V = W \ ToSet(run)

\* They are what the handler keeps once m has arrived.
LEMMA MergingAssembles ==
  ASSUME NEW c, Launched(c), NEW M, NEW W, NEW B, NEW N, NEW m, NEW K, NEW V, NEW D,
         Merging(c, M, W, B, N, m, K, V, D)
  PROVE  Assembling(c, K, V, D, N \ {m}) /\ ToSet(D) \cup V = ToSet(B) \cup W \cup {m}
<1>1. PICK run :
        /\ Assembling(c, M, W, B, N)
        /\ m \in AllOf(c) /\ m \in N /\ FragSeq(m) = M
        /\ run = RunAfter(FragSeq(m), W) /\ D = B \o <<m>> \o run
        /\ K = Count(FragSeq(m) + 1 + Len(run)) /\ V = W \ ToSet(run)
  BY DEF Merging
<1> DEFINE A == AllOf(c)
           L == Len(B)
           R == Len(run)
<1>2. /\ B \in Seq(A) /\ IsInjective(B) /\ W \subseteq A
      /\ ToSet(B) \cap W = {} /\ (ToSet(B) \cup W) \cap N = {} /\ M = L % Word
  BY <1>1 DEF Assembling
<1>3. /\ L \in Nat /\ DOMAIN B = 1..L /\ \A i \in 1..L : B[i] \in A /\ B[i] \in ToSet(B)
      /\ Word \in Nat \ {0}
  BY <1>2, LenProperties, ElementOfSeq, Sizes DEF ToSet
<1>4. /\ run \in Seq(W) /\ \A i \in 1..R : FragSeq(run[i]) = M + i
      /\ \A u \in W : FragSeq(u) # M + 1 + R
      /\ M \in Nat
  <2>1. IsFiniteSet(A) /\ IsFiniteSet(W)
    BY <1>2, FragmentNumbers, FS_Subset
  <2>2. \A u \in W : FragSeq(u) \in Nat
    BY <1>2, HeaderNumbers
  <2>3. M \in Nat
    BY <1>1, HeaderNumbers
  <2> QED
    BY <1>1, <2>1, <2>2, <2>3, RunsAreGapless
<1>5. /\ R \in Nat /\ DOMAIN run = 1..R
      /\ \A i \in 1..R : run[i] \in W /\ run[i] \in A /\ run[i] \in ToSet(run)
      /\ ToSet(run) \subseteq W
  <2>1. R \in Nat /\ DOMAIN run = 1..R /\ \A i \in 1..R : run[i] \in W
    BY <1>4, LenProperties, ElementOfSeq
  <2> QED
    BY <1>2, <2>1 DEF ToSet
<1> HIDE DEF A
<1>6. run \in Seq(A)
  BY <1>4, <1>5, SeqOver
<1> DEFINE E == B \o <<m>>
<1>7. m \notin ToSet(B) /\ m \notin W /\ m \in A
  BY <1>1, <1>2 DEF A
<1>8. /\ E \in Seq(A) /\ Len(E) = L + 1 /\ IsInjective(E)
      /\ \A i \in 1..L : E[i] = B[i]
      /\ E[L + 1] = m
      /\ ToSet(E) = ToSet(B) \cup {m}
  <2> DEFINE M1 == <<m>>
  <2>1. /\ M1 \in Seq(A) /\ Len(M1) = 1 /\ M1[1] = m /\ ToSet(M1) = {m}
        /\ IsInjective(M1)
    BY <1>7 DEF ToSet, IsInjective
  <2>2. ToSet(B) \cap ToSet(M1) = {}
    BY <1>7, <2>1
  <2> HIDE DEF M1
  <2>3. /\ B \o M1 \in Seq(A) /\ Len(B \o M1) = Len(B) + Len(M1) /\ IsInjective(B \o M1)
        /\ \A i \in 1..Len(B) : (B \o M1)[i] = B[i]
        /\ \A i \in 1..Len(M1) : (B \o M1)[Len(B) + i] = M1[i]
        /\ ToSet(B \o M1) = ToSet(B) \cup ToSet(M1)
    BY <1>2, <2>1, <2>2, Joined
  <2>4. 1 \in 1..Len(M1)
    BY <2>1
  <2> QED
    BY <2>1, <2>3, <2>4 DEF M1
<1>9. IsInjective(run)
  <2>1. ASSUME NEW i \in 1..R, NEW j \in 1..R, run[i] = run[j] PROVE i = j
    <3>1. M + i = M + j
      BY <1>4, <2>1
    <3> QED
      BY <1>4, <3>1
  <2> QED
    BY <1>5, <2>1 DEF IsInjective
<1> HIDE DEF E
<1>10. /\ D \in Seq(A) /\ Len(D) = L + 1 + R /\ DOMAIN D = 1..L + 1 + R
       /\ IsInjective(D)
       /\ \A i \in 1..L : D[i] = B[i]
       /\ D[L + 1] = m
       /\ \A i \in 1..R : D[L + 1 + i] = run[i]
       /\ ToSet(D) = ToSet(B) \cup {m} \cup ToSet(run)
  <2>1. ToSet(E) \cap ToSet(run) = {}
    BY <1>2, <1>5, <1>7, <1>8
  <2>2. /\ E \o run \in Seq(A) /\ Len(E \o run) = Len(E) + Len(run)
        /\ IsInjective(E \o run)
        /\ \A i \in 1..Len(E) : (E \o run)[i] = E[i]
        /\ \A i \in 1..Len(run) : (E \o run)[Len(E) + i] = run[i]
        /\ ToSet(E \o run) = ToSet(E) \cup ToSet(run)
    <3>1. E \in Seq(A) /\ IsInjective(E)
      BY <1>8
    <3> HIDE DEF L, R
    <3>2. run \in Seq(A) /\ IsInjective(run)
      BY <1>6, <1>9
    <3> QED
      BY <2>1, <3>1, <3>2, Joined
  <2>3. D = E \o run
    BY <1>1 DEF E
  <2>4. /\ D \in Seq(A) /\ Len(D) = L + 1 + R /\ IsInjective(D)
        /\ \A i \in 1..L + 1 : D[i] = E[i]
        /\ \A i \in 1..R : D[L + 1 + i] = run[i]
        /\ ToSet(D) = ToSet(E) \cup ToSet(run)
    BY <1>8, <2>2, <2>3
  <2>5. DOMAIN D = 1..L + 1 + R
    BY <2>4, LenProperties
  <2>6. L + 1 \in 1..L + 1 /\ \A i \in 1..L : i \in 1..L + 1
    BY <1>3
  <2> QED
    BY <1>8, <2>4, <2>5, <2>6
<1>11. Count(FragSeq(m) + 1 + R) = Len(D) % Word
  <2>1. ((L % Word) + (1 + R)) % Word = (L + (1 + R)) % Word
    <3>1. 1 + R \in Nat
      BY <1>5
    <3> HIDE DEF L, R
    <3> QED
      BY <1>3, <3>1, RemainderOfSum
  <2>2. FragSeq(m) + 1 + R = (L % Word) + (1 + R) /\ Len(D) = L + (1 + R)
    <3>1. FragSeq(m) = L % Word /\ FragSeq(m) \in Nat
      BY <1>1, <1>2, <1>4
    <3> QED
      BY <1>3, <1>5, <1>10, <3>1
  <2> QED
    BY <2>1, <2>2, Zenon DEF Count
<1>12. ASSUME Countable(c)
       PROVE  /\ \A i \in DOMAIN D : D[i].frag = i - 1
              /\ \A u \in W \ ToSet(run) : u.frag > Count(FragSeq(m) + 1 + R)
  <2>1. /\ M = L /\ m.frag = L
        /\ \A i \in 1..L : B[i].frag = i - 1
        /\ \A u \in W : u.frag > L /\ u.frag = FragSeq(u) /\ u.frag \in Nat
    <3>1. M = L
      BY <1>1, <1>12, MergedIsExact
    <3>2. \A u \in A : FragSeq(u) = u.frag /\ u.frag \in Nat
      BY <1>12, HeaderNumbers, FragmentNumbers DEF A
    <3> QED
      BY <1>1, <1>2, <1>3, <1>12, <3>1, <3>2 DEF Assembling, A
  <2>2. \A i \in 1..R : run[i].frag = L + i
    BY <1>4, <1>5, <2>1
  <2>3. ASSUME NEW i \in DOMAIN D PROVE D[i].frag = i - 1
    <3>1. CASE i <= L
      BY <1>3, <1>10, <2>1, <3>1
    <3> HIDE DEF L, R
    <3>2. CASE i = L + 1
      BY <1>3, <1>10, <2>1, <3>2
    <3>3. CASE i > L + 1
      <4>1. PICK j \in 1..R : i = L + 1 + j
        <5>1. i - (L + 1) \in 1..R /\ i = L + 1 + (i - (L + 1))
          BY <1>3, <1>5, <1>10, <3>3
        <5> QED
          BY <5>1
      <4>2. D[i] = run[j]
        BY <1>10, <4>1, Zenon
      <4>3. D[i].frag = L + j
        BY <2>2, <4>2, Zenon
      <4> QED
        BY <1>3, <4>1, <4>3
    <3> QED
      BY <1>3, <1>10, <3>1, <3>2, <3>3
  <2>4. Count(FragSeq(m) + 1 + R) = L + 1 + R
    <3>1. CASE L + 1 + R < Word
      <4>1. L + 1 + R \in Nat /\ Len(D) = L + 1 + R
        BY <1>3, <1>5, <1>10
      <4>2. (L + 1 + R) % Word = L + 1 + R
        BY <1>3, <3>1, <4>1, Division
      <4> QED
        BY <1>11, <4>1, <4>2, Zenon
    <3>2. CASE ~(L + 1 + R < Word)
      <4>1. L + 1 + R \in DOMAIN D /\ D[L + 1 + R] \in A
        BY <1>3, <1>5, <1>10, ElementOfSeq
      <4>2. D[L + 1 + R].frag = L + R /\ D[L + 1 + R].frag < Parts(c) /\ Parts(c) \in Nat
        <5>1. D[L + 1 + R].frag = (L + 1 + R) - 1
          BY <2>3, <4>1
        <5>2. D[L + 1 + R].frag \in 0..Parts(c) - 1 /\ Parts(c) \in Nat
          BY <4>1, FragmentNumbers DEF A
        <5> QED
          BY <1>3, <1>5, <5>1, <5>2
      <4>3. Parts(c) < Word
        BY <1>12 DEF Countable, Parts
      <4> QED
        BY <1>3, <1>5, <3>2, <4>2, <4>3
    <3> QED
      BY <3>1, <3>2
  <2>5. ASSUME NEW u \in W \ ToSet(run) PROVE u.frag > L + 1 + R
    <3>1. u.frag > L /\ u.frag # L + 1 + R /\ u.frag \in Nat
      BY <1>4, <2>1
    <3>2. ASSUME u.frag \in L + 1..L + R PROVE FALSE
      <4>1. u.frag - L \in 1..R /\ L + (u.frag - L) = u.frag
        BY <1>3, <1>5, <3>2
      <4>2. run[u.frag - L].frag = u.frag
        BY <2>2, <4>1
      <4>3. run[u.frag - L] = u
        <5>1. run[u.frag - L] \in AllOf(c) /\ u \in AllOf(c)
          BY <1>2, <1>5, <4>1 DEF A
        <5> QED
          BY <4>2, <5>1, FragmentNumbers
      <4> QED
        BY <1>5, <4>1, <4>3
    <3> HIDE DEF L, R
    <3> QED
      BY <1>3, <1>5, <3>1, <3>2
  <2> QED
    BY <2>3, <2>4, <2>5
<1>13. /\ ToSet(D) \cap (W \ ToSet(run)) = {}
       /\ (ToSet(D) \cup (W \ ToSet(run))) \cap (N \ {m}) = {}
       /\ ToSet(D) \cup (W \ ToSet(run)) = ToSet(B) \cup W \cup {m}
  <2>1. ToSet(D) = ToSet(B) \cup {m} \cup ToSet(run) /\ m \in N
    BY <1>1, <1>10
  <2> QED
    BY <1>2, <1>5, <1>7, <2>1
<1>14. Assembling(c, Count(FragSeq(m) + 1 + R), W \ ToSet(run), D, N \ {m})
  BY <1>2, <1>10, <1>11, <1>12, <1>13, Zenon DEF Assembling, A
<1> QED
  BY <1>1, <1>13, <1>14, Zenon

\* A fragment that comes too early waits; if the counter can tell the fragments
\* apart, none that waits has its number already.
LEMMA StoringAssembles ==
  ASSUME NEW c, Launched(c), NEW M, NEW W, NEW B, NEW N, Assembling(c, M, W, B, N),
         NEW m \in AllOf(c), m \in N, FragSeq(m) > M, NEW V,
         V = IF \E u \in W : FragSeq(u) = FragSeq(m) THEN W ELSE W \cup {m}
  PROVE  Assembling(c, M, V, B, N \ {m}) /\ (Countable(c) => V = W \cup {m})
<1>1. V \subseteq W \cup {m} /\ V \subseteq AllOf(c)
  BY DEF Assembling
<1>2. m \notin ToSet(B) /\ m \notin W
  BY DEF Assembling
<1>3. ASSUME Countable(c) PROVE V = W \cup {m}
  <2>1. ASSUME NEW u \in W, FragSeq(u) = FragSeq(m) PROVE FALSE
    <3>1. u \in AllOf(c)
      BY DEF Assembling
    <3>2. u.frag = m.frag
      BY <1>3, <2>1, <3>1, HeaderNumbers
    <3> QED
      BY <1>2, <3>1, <3>2, FragmentNumbers
  <2> QED
    BY <2>1
<1>4. ASSUME Countable(c), NEW u \in V PROVE u.frag > M
  <2>1. m.frag > M
    BY <1>4, HeaderNumbers
  <2> QED
    BY <1>1, <1>4, <2>1 DEF Assembling
<1>5. ToSet(B) \cap V = {} /\ (ToSet(B) \cup V) \cap (N \ {m}) = {}
  BY <1>1, <1>2 DEF Assembling
<1> QED
  BY <1>1, <1>3, <1>4, <1>5 DEF Assembling

\* A number that was merged before comes only from a burst that cannot be counted.
LEMMA RepeatsAreUncountable ==
  ASSUME NEW c, Launched(c), NEW M, NEW W, NEW B, NEW N, Assembling(c, M, W, B, N),
         NEW m \in AllOf(c), m \in N, FragSeq(m) < M
  PROVE  ~Countable(c)
<1> SUFFICES ASSUME Countable(c) PROVE FALSE
  OBVIOUS
<1>1. M = Len(B) /\ M \in Nat
  BY MergedIsExact
<1>2. m.frag \in Nat /\ m.frag < M
  BY HeaderNumbers, FragmentNumbers
<1>3. m.frag + 1 \in DOMAIN B /\ (m.frag + 1) - 1 = m.frag
  BY <1>1, <1>2, LenProperties DEF Assembling
<1>4. B[m.frag + 1] \in AllOf(c)
  BY <1>1, <1>2, ElementOfSeq DEF Assembling
<1>5. B[m.frag + 1].frag = m.frag
  BY <1>3 DEF Assembling
<1>6. B[m.frag + 1] = m
  BY <1>4, <1>5, FragmentNumbers
<1> QED
  BY <1>3, <1>6 DEF Assembling, ToSet

(***************************************************************************)
(* A handler on the way to burst c, none of whose fragments has gone by     *)
(* unnoticed if they can be counted.                                        *)
(***************************************************************************)
Gathering(c, M, W, B, N) ==
  /\ Assembling(c, M, W, B, N)
  /\ Countable(c) => AllOf(c) \subseteq N \cup W \cup ToSet(B)

\* Fragment m arrives, of the burst the handler is at or of a later one.
Arriving(m) ==
  /\ Launched(m.burst) /\ m \in AllOf(m.burst) /\ m \in network \cup lost
  /\ Gathering(m.burst, MergedBefore(m), Waiting(m), BufferBefore(m), network \cup lost)

\* The handler after a fragment that it merges.
LEMMA MergeGathers ==
  ASSUME NEW m, Arriving(m), Merge(m)
  PROVE  Gathering(m.burst, merged', unordered', buffer', (network \cup lost) \ {m})
<1> DEFINE c == m.burst
           M == MergedBefore(m)
           W == Waiting(m)
           B == BufferBefore(m)
           N == network \cup lost
<1>1. Launched(c) /\ (Countable(c) => AllOf(c) \subseteq N \cup W \cup ToSet(B))
  BY DEF Arriving, Gathering
<1>2. Launched(c) /\ Merging(c, M, W, B, N, m, merged', unordered', buffer')
  BY DEF Arriving, Gathering, Merge, Merging
<1> HIDE DEF c, M, W, B, N
<1>3. /\ Assembling(c, merged', unordered', buffer', N \ {m})
      /\ ToSet(buffer') \cup unordered' = ToSet(B) \cup W \cup {m}
  BY <1>2, MergingAssembles
<1>4. Gathering(c, merged', unordered', buffer', N \ {m})
  BY <1>1, <1>3 DEF Gathering
<1> QED
  BY <1>4 DEF c, N

\* The handler after a fragment that it stores.
LEMMA StoreGathers ==
  ASSUME NEW m, Arriving(m), Store(m)
  PROVE  Gathering(m.burst, merged', unordered', buffer', (network \cup lost) \ {m})
<1> DEFINE c == m.burst
           M == MergedBefore(m)
           W == Waiting(m)
           B == BufferBefore(m)
           N == network \cup lost
<1>1. /\ Assembling(c, M, W, B, N) /\ Launched(c) /\ m \in AllOf(c) /\ m \in N
      /\ Countable(c) => AllOf(c) \subseteq N \cup W \cup ToSet(B)
      /\ FragSeq(m) > M /\ buffer' = B /\ merged' = M
      /\ unordered' = IF \E u \in W : FragSeq(u) = FragSeq(m) THEN W ELSE W \cup {m}
  BY DEF Arriving, Gathering, Store
<1> HIDE DEF c, M, W, B, N
<1>2. /\ Assembling(c, M, unordered', B, N \ {m})
      /\ Countable(c) => unordered' = W \cup {m}
  BY <1>1, StoringAssembles
<1>3. Gathering(c, merged', unordered', buffer', N \ {m})
  BY <1>1, <1>2 DEF Gathering
<1> QED
  BY <1>3 DEF c, N

\* The fragments of burst c, in order.
InOrder(c) == [i \in 1..Parts(c) |-> [burst |-> c, frag |-> i - 1]]

\* What CheckComplete finds: the burst is not complete, or all of it is there, or
\* its fragments cannot be counted.
LEMMA CheckingIsExact ==
  ASSUME NEW m, Launched(m.burst), Size(m) # 0, NEW N,
         Gathering(m.burst, merged', unordered', buffer', N),
         CheckComplete(m), pc = "running"
  PROVE  \/ /\ received' = received /\ pc' = "running"
            /\ ~(Countable(m.burst) /\ merged' = Parts(m.burst))
         \/ /\ received' = Append(received, m.burst) /\ pc' = "running"
            /\ AllOf(m.burst) \subseteq ToSet(buffer')
            /\ Countable(m.burst) => buffer' = InOrder(m.burst)
         \/ /\ received' = received /\ pc' = "asserted"
            /\ ~Countable(m.burst)
<1> DEFINE c == m.burst
           s == buffer'
           M == merged'
           W == unordered'
<1>1. /\ s \in Seq(AllOf(c)) /\ IsInjective(s) /\ M = Len(s) % Word
      /\ Assembling(c, M, W, s, N)
      /\ Countable(c) => \A i \in DOMAIN s : s[i].frag = i - 1
  BY DEF Gathering, Assembling
<1>2. Launched(c) /\ Size(m) = Payload(sent[c + 1]) /\ Frags(m) = Parts(c) % Word
  BY DEF Size, Frags, Parts
<1> HIDE DEF c, s, M, W
<1>3. ASSUME Countable(c)
      PROVE  M = Len(s) /\ Parts(c) \in Nat /\ Frags(m) = Parts(c)
  <2>1. M = Len(s) /\ Parts(c) \in Nat
    BY <1>1, <1>2, <1>3, MergedIsExact
  <2>2. Parts(c) < Word
    BY <1>3 DEF Countable, Parts
  <2>3. Parts(c) % Word = Parts(c)
    BY <2>1, <2>2, Sizes, Division
  <2> QED
    BY <1>2, <2>1, <2>3
<1>4. CASE M # Frags(m)
  <2>1. received' = received /\ pc' = "running"
    BY <1>4 DEF CheckComplete, M
  <2>2. ~(Countable(c) /\ M = Parts(c))
    BY <1>3, <1>4
  <2> QED
    BY <2>1, <2>2 DEF c, M
<1>5. CASE M = Frags(m) /\ BytesOf(s) = Size(m)
  <2>1. received' = Append(received, c) /\ pc' = "running"
    BY <1>5 DEF CheckComplete, M, s, c
  <2>2. AllOf(c) \subseteq ToSet(s)
    BY <1>1, <1>2, <1>5, WholeBurst
  <2>3. ASSUME Countable(c) PROVE s = InOrder(c)
    <3>1. /\ Len(s) = Parts(c) /\ DOMAIN s = 1..Parts(c) /\ Parts(c) \in Nat
          /\ s = [i \in 1..Parts(c) |-> s[i]]
      BY <1>1, <1>3, <1>5, <2>3, LenProperties
    <3>2. ASSUME NEW i \in 1..Parts(c) PROVE s[i] = [burst |-> c, frag |-> i - 1]
      <4>1. s[i] \in AllOf(c) /\ s[i].frag = i - 1
        BY <1>1, <2>3, <3>1, ElementOfSeq
      <4>2. i - 1 \in 0..Parts(c) - 1
        BY <3>1
      <4>3. [burst |-> c, frag |-> i - 1] \in AllOf(c)
        BY <1>2, <4>2, FragmentNumbers
      <4> QED
        BY <1>2, <4>1, <4>3, FragmentNumbers
    <3> QED
      BY <3>1, <3>2 DEF InOrder
  <2> QED
    BY <2>1, <2>2, <2>3 DEF c, s
<1>6. CASE M = Frags(m) /\ BytesOf(s) # Size(m)
  <2>1. received' = received /\ pc' = "asserted"
    BY <1>6 DEF CheckComplete, M, s
  <2>2. ASSUME Countable(c) PROVE FALSE
    <3>1. Len(s) = Parts(c)
      BY <1>3, <1>6, <2>2
    <3>2. BytesOf(s) = Payload(sent[c + 1])
      BY <1>1, <1>2, <2>2, <3>1, FullBuffer
    <3> QED
      BY <1>2, <1>6, <3>2
  <2> QED
    BY <2>1, <2>2 DEF c
<1> QED
  BY <1>4, <1>5, <1>6

-----------------------------------------------------------------------------
(***************************************************************************)
(* The inductive invariant.  The handler assembles the burst it is at (Kept)*)
(* or none has been sent (Idle); while the simulation runs, no fragment of a*)
(* later burst has arrived and none of this one has gone by unnoticed       *)
(* (Pending); a burst is reported with all its fragments in the buffer, so  *)
(* that none of them is left to start it again (Reports).                   *)
(***************************************************************************)
AllLaunched == \A k \in 0..Len(sent) - 1 : Launched(k)

Idle ==
  current >= Len(sent) =>
    /\ current = 0 /\ merged = 0 /\ buffer = <<>> /\ unordered = {}
    /\ received = <<>> /\ pc # "asserted"

Kept ==
  current < Len(sent) =>
    Assembling(current, merged, unordered, buffer, network \cup lost)

Pending ==
  pc = "running" =>
    /\ \A k \in 0..Len(sent) - 1 : k > current => AllOf(k) \subseteq network \cup lost
    /\ current < Len(sent) =>
         /\ Gathering(current, merged, unordered, buffer, network \cup lost)
         /\ Countable(current) /\ merged = Parts(current) => current \in ToSet(received)

Reports ==
  /\ \A i \in DOMAIN received : received[i] <= current
  /\ ReportedInOrder
  /\ current \in ToSet(received) => AllOf(current) \subseteq ToSet(buffer)

BurstInv ==
  /\ TypeOK /\ AllLaunched
  /\ Idle /\ Kept /\ Pending /\ Reports
  /\ AssertsOnlyOnOverflow

\* A step that leaves the size of burst c as it is leaves its fragments as they are.
LEMMA SameBurst ==
  ASSUME NEW c, sent'[c + 1] = sent[c + 1]
  PROVE  /\ AllOf(c)' = AllOf(c) /\ Parts(c)' = Parts(c)
         /\ Countable(c)' <=> Countable(c)
         /\ Launched(c)' <=> Launched(c)
BY DEF AllOf, Parts, Countable, Launched

\* The invariant's parts about burst c, after a step that leaves the handler at it.
LEMMA HandlerAfter ==
  ASSUME NEW c, current' = c, sent'[c + 1] = sent[c + 1],
         NEW N, network' \cup lost' = N
  PROVE  /\ AllOf(current)' = AllOf(c) /\ Parts(current)' = Parts(c)
         /\ Countable(current)' <=> Countable(c)
         /\ Assembling(current, merged, unordered, buffer, network \cup lost)'
              <=> Assembling(c, merged', unordered', buffer', N)
         /\ Gathering(current, merged, unordered, buffer, network \cup lost)'
              <=> Gathering(c, merged', unordered', buffer', N)
<1>1. /\ AllOf(current)' = AllOf(c) /\ Parts(current)' = Parts(c)
      /\ Countable(current)' <=> Countable(c)
  BY DEF AllOf, Parts, Countable
<1>2. Assembling(current, merged, unordered, buffer, network \cup lost)'
        <=> Assembling(c, merged', unordered', buffer', N)
  BY <1>1 DEF Assembling
<1>3. Gathering(current, merged, unordered, buffer, network \cup lost)'
        <=> Gathering(c, merged', unordered', buffer', N)
  BY <1>1, <1>2 DEF Gathering
<1> QED
  BY <1>1, <1>2, <1>3

\* Fewer fragments under way.
LEMMA AssemblingFewer ==
  ASSUME NEW c, NEW M, NEW W, NEW B, NEW N, Assembling(c, M, W, B, N),
         NEW P \in SUBSET N
  PROVE  Assembling(c, M, W, B, P)
BY DEF Assembling

\* A fragment under way belongs to a burst that was sent, and so the handler is at
\* one.
LEMMA UnderWay ==
  ASSUME BurstInv, NEW m \in network
  PROVE  /\ m.burst \in 0..Len(sent) - 1 /\ m \in AllOf(m.burst) /\ Launched(m.burst)
         /\ Len(sent) \in Nat /\ current \in Nat /\ current < Len(sent)
<1>1. /\ Len(sent) \in Nat /\ current \in Nat
  BY LenProperties DEF BurstInv, TypeOK
<1>2. PICK k \in 0..Len(sent) - 1 : m \in AllOf(k)
  BY DEF BurstInv, TypeOK
<1>3. Launched(k)
  BY <1>2 DEF BurstInv, AllLaunched
<1>4. m.burst = k
  BY <1>2, <1>3, FragmentNumbers
<1>5. current < Len(sent)
  BY <1>1, <1>2 DEF BurstInv, Idle
<1> QED
  BY <1>1, <1>2, <1>3, <1>4, <1>5

\* A fragment that the handler does not pass over is of a burst not yet reported.
LEMMA ArrivalIsReady ==
  ASSUME BurstInv, pc = "running", NEW m \in network, IsNewer(m) \/ m.burst = current
  PROVE  /\ Arriving(m)
         /\ \A i \in DOMAIN received : received[i] < m.burst
<1> DEFINE c == m.burst
           N == network \cup lost
<1>1. /\ c \in 0..Len(sent) - 1 /\ m \in AllOf(c) /\ Launched(c)
      /\ Len(sent) \in Nat /\ current \in Nat /\ current < Len(sent)
      /\ m \in N
  BY UnderWay
<1>2. \A i \in DOMAIN received : received[i] \in Nat /\ received[i] <= current
  BY LenProperties, ElementOfSeq DEF BurstInv, TypeOK, Reports
<1>3. CASE IsNewer(m)
  <2>1. c > current /\ MergedBefore(m) = 0 /\ Waiting(m) = {} /\ BufferBefore(m) = <<>>
    BY <1>3 DEF IsNewer, MergedBefore, Waiting, BufferBefore
  <2>2. AllOf(c) \subseteq N
    BY <1>1, <2>1 DEF BurstInv, Pending
  <2>3. Assembling(c, 0, {}, <<>>, N)
    <3>1. 0 % Word = 0 /\ Len(<<>>) = 0
      BY Sizes, Division
    <3>2. IsInjective(<<>>) /\ ToSet(<<>>) = {} /\ <<>> \in Seq(AllOf(c))
      BY DEF IsInjective, ToSet
    <3> QED
      BY <3>1, <3>2 DEF Assembling
  <2>4. Gathering(c, MergedBefore(m), Waiting(m), BufferBefore(m), N)
    BY <2>1, <2>2, <2>3 DEF Gathering
  <2>5. \A i \in DOMAIN received : received[i] < c
    BY <1>1, <1>2, <2>1
  <2> QED
    BY <1>1, <2>4, <2>5 DEF Arriving
<1>4. CASE ~IsNewer(m) /\ c = current
  <2>1. MergedBefore(m) = merged /\ Waiting(m) = unordered /\ BufferBefore(m) = buffer
    BY <1>4 DEF MergedBefore, Waiting, BufferBefore
  <2>2. Gathering(c, merged, unordered, buffer, N)
    BY <1>1, <1>4 DEF BurstInv, Pending
  <2>3. ASSUME NEW i \in DOMAIN received, received[i] = c PROVE FALSE
    <3>1. AllOf(c) \subseteq ToSet(buffer)
      BY <1>4, <2>3 DEF BurstInv, Reports, ToSet
    <3> QED
      BY <1>1, <2>2, <3>1 DEF Gathering, Assembling
  <2>4. \A i \in DOMAIN received : received[i] < c
    BY <1>1, <1>2, <1>4, <2>3
  <2> QED
    BY <1>1, <2>1, <2>2, <2>4 DEF Arriving
<1> QED
  BY <1>3, <1>4

\* What any fragment that arrives leaves true, given what the handler keeps then.
LEMMA AfterFragment ==
  ASSUME BurstInv, NEW m \in network, NEW c \in 0..Len(sent) - 1,
         sent' = sent, lost' = lost, network' = network \ {m}, current' = c,
         Assembling(c, merged', unordered', buffer', (network \cup lost) \ {m}),
         received' \in Seq(Nat), pc' \in {"running", "aborted", "asserted"}
  PROVE  TypeOK' /\ AllLaunched' /\ Idle' /\ Kept'
<1> DEFINE N == (network \cup lost) \ {m}
           S == UNION {AllOf(k) : k \in 0..Len(sent) - 1}
<1>1. /\ sent \in Seq(BurstSizes) /\ Len(sent) <= MaxBursts /\ Len(sent) \in Nat
      /\ network \cup lost \subseteq S /\ network \cap lost = {}
  BY LenProperties DEF BurstInv, TypeOK
<1>2. network' \cup lost' = N /\ network' \cap lost' = {} /\ N \subseteq S
  BY <1>1
<1>3. buffer' \in Seq(AllOf(c)) /\ unordered' \subseteq AllOf(c) /\ merged' = Len(buffer') % Word
  BY DEF Assembling
<1>4. AllOf(c) \subseteq S
  OBVIOUS
<1>5. ToSet(buffer') \subseteq S /\ unordered' \subseteq S
  <2>1. \A i \in DOMAIN buffer' : buffer'[i] \in AllOf(c)
    BY <1>3, LenProperties, ElementOfSeq
  <2> QED
    BY <1>3, <1>4, <2>1 DEF ToSet
<1>6. merged' \in 0..Word - 1
  BY <1>3, LenProperties, Sizes, Division
<1>7. S' = S
  BY DEF AllOf
<1> HIDE DEF S, N
<1>8. TypeOK'
  <2>1. network' \cup lost' \cup unordered' \cup ToSet(buffer') \subseteq S'
    BY <1>2, <1>5, <1>7
  <2> QED
    BY <1>1, <1>2, <1>6, <2>1 DEF TypeOK, S
<1>9. AllLaunched'
  BY SameBurst DEF BurstInv, AllLaunched
<1>10. Idle'
  BY <1>1 DEF Idle
<1>11. Kept'
  BY <1>2, HandlerAfter DEF Kept, N
<1> QED
  BY <1>8, <1>9, <1>10, <1>11

\* At first nothing has been sent.
LEMMA BurstInvHoldsInitially ==
  Init => BurstInv
<1> SUFFICES ASSUME Init PROVE BurstInv
  OBVIOUS
<1> USE DEF Init
<1>1. Len(sent) = 0 /\ DOMAIN received = {} /\ ToSet(received) = {} /\ ToSet(buffer) = {}
  BY DEF ToSet
<1>2. TypeOK
  <2>1. sent \in Seq(BurstSizes) /\ received \in Seq(Nat) /\ 0 <= MaxBursts
    BY BurstAssumption
  <2>2. 0 \in 0..Word - 1
    BY Sizes
  <2> QED
    BY <1>1, <2>1, <2>2 DEF TypeOK
<1>3. AllLaunched /\ Idle /\ Kept /\ Pending
  BY <1>1 DEF AllLaunched, Idle, Kept, Pending
<1>4. Reports
  BY <1>1 DEF Reports, ReportedInOrder
<1>5. AssertsOnlyOnOverflow
  BY DEF AssertsOnlyOnOverflow
<1> QED
  BY <1>2, <1>3, <1>4, <1>5 DEF BurstInv

\* Steps that touch neither the bursts sent nor the handler keep the invariant, if
\* they do not end the simulation with an assertion; when it goes on, they lose no
\* fragment that is still needed.
LEMMA HandlerUntouched ==
  ASSUME BurstInv, pc = "running", sent' = sent, UNCHANGED <<handler, received>>,
         network' \cup lost' \subseteq network \cup lost, network' \cap lost' = {},
         \/ pc' = "aborted"
         \/ pc' = "asserted" /\ current < Len(sent) /\ ~Countable(current)
         \/ pc' = "running" /\ \A k \in 0..Len(sent) - 1 :
              k >= current => AllOf(k) \cap (network \cup lost) \subseteq network' \cup lost'
  PROVE  BurstInv'
<1>1. /\ current' = current /\ merged' = merged /\ unordered' = unordered
      /\ buffer' = buffer /\ received' = received
      /\ Len(sent) \in Nat /\ current \in Nat
  BY LenProperties DEF handler, BurstInv, TypeOK
<1> DEFINE N == network' \cup lost'
<1>2. \A k : AllOf(k)' = AllOf(k) /\ (Launched(k)' <=> Launched(k))
  BY SameBurst
<1>3. TypeOK'
  <2> DEFINE S == UNION {AllOf(k) : k \in 0..Len(sent) - 1}
  <2>1. S' = S
    BY DEF AllOf
  <2>2. network \cup lost \cup unordered \cup ToSet(buffer) \subseteq S
    BY DEF BurstInv, TypeOK
  <2> HIDE DEF S
  <2>3. network' \cup lost' \cup unordered' \cup ToSet(buffer') \subseteq S'
    BY <1>1, <2>1, <2>2
  <2>4. /\ sent \in Seq(BurstSizes) /\ Len(sent) <= MaxBursts
        /\ current \in Nat /\ merged \in 0..Word - 1 /\ received \in Seq(Nat)
    BY DEF BurstInv, TypeOK
  <2> QED
    BY <1>1, <2>3, <2>4 DEF TypeOK, S
<1>4. AllLaunched'
  BY <1>2 DEF BurstInv, AllLaunched
<1>5. Idle'
  BY <1>1 DEF BurstInv, Idle
<1>6. PICK c \in Nat : c = current
  BY <1>1
<1>7. /\ AllOf(current)' = AllOf(c) /\ Parts(current)' = Parts(c)
      /\ Countable(current)' <=> Countable(c)
      /\ Assembling(current, merged, unordered, buffer, network \cup lost)'
           <=> Assembling(c, merged, unordered, buffer, N)
      /\ Gathering(current, merged, unordered, buffer, network \cup lost)'
           <=> Gathering(c, merged, unordered, buffer, N)
  BY <1>1, <1>6, HandlerAfter
<1> HIDE DEF N
<1>8. ASSUME current < Len(sent) PROVE Assembling(c, merged, unordered, buffer, N)
  <2>1. Assembling(c, merged, unordered, buffer, network \cup lost)
    BY <1>6, <1>8 DEF BurstInv, Kept
  <2> QED
    BY <2>1, AssemblingFewer DEF N
<1>9. Kept'
  BY <1>1, <1>7, <1>8 DEF Kept
<1>10. Pending'
  <2> SUFFICES ASSUME pc' = "running" PROVE Pending'
    BY DEF Pending
  <2>1. \A k \in 0..Len(sent) - 1 :
          k >= current => AllOf(k) \cap (network \cup lost) \subseteq N
    BY DEF N
  <2>2. \A k \in 0..Len(sent) - 1 : k > current => AllOf(k)' \subseteq N
    <3>1. \A k \in 0..Len(sent) - 1 : k > current => AllOf(k) \subseteq network \cup lost
      BY DEF BurstInv, Pending
    <3>2. \A k \in 0..Len(sent) - 1 : k > current => k >= current
      BY <1>1
    <3> QED
      BY <1>2, <2>1, <3>1, <3>2
  <2>3. ASSUME current < Len(sent)
        PROVE  /\ Gathering(c, merged, unordered, buffer, N)
               /\ Countable(c) /\ merged = Parts(c) => c \in ToSet(received)
    <3>1. /\ Gathering(c, merged, unordered, buffer, network \cup lost)
          /\ Countable(c) /\ merged = Parts(c) => c \in ToSet(received)
      BY <1>6, <2>3 DEF BurstInv, Pending
    <3>2. AllOf(c) \cap (network \cup lost) \subseteq N
      BY <1>1, <1>6, <2>1, <2>3
    <3> QED
      BY <1>8, <2>3, <3>1, <3>2 DEF Gathering
  <2>4. \A k \in 0..Len(sent') - 1 : k > current' => AllOf(k)' \subseteq (network \cup lost)'
    BY <1>1, <2>2 DEF N
  <2>5. current' < Len(sent') =>
          /\ Gathering(current, merged, unordered, buffer, network \cup lost)'
          /\ (Countable(current) /\ merged = Parts(current) => current \in ToSet(received))'
    BY <1>1, <1>6, <1>7, <2>3
  <2> QED
    BY <2>4, <2>5 DEF Pending
<1>11. Reports'
  BY <1>1, <1>6, <1>7 DEF BurstInv, Reports, ReportedInOrder
<1>12. AssertsOnlyOnOverflow'
  BY <1>1, <1>6, <1>7 DEF BurstInv, AssertsOnlyOnOverflow
<1> QED
  BY <1>3, <1>4, <1>5, <1>9, <1>10, <1>11, <1>12 DEF BurstInv

\* A fragment is lost.
LEMMA LosingKeepsBurstInv ==
  ASSUME BurstInv, NEW m \in network, Lose(m)
  PROVE  BurstInv'
<1>1. network \cap lost = {}
  BY DEF BurstInv, TypeOK
<1>2. network' \cup lost' = network \cup lost /\ network' \cap lost' = {}
  BY <1>1 DEF Lose
<1> QED
  BY <1>2, HandlerUntouched DEF Lose

\* SendFragmentedBurst aborts.
LEMMA AbortingKeepsBurstInv ==
  ASSUME BurstInv, NEW b \in BurstSizes, SendAborts(b)
  PROVE  BurstInv'
<1>1. network \cap lost = {}
  BY DEF BurstInv, TypeOK
<1> QED
  BY <1>1, HandlerUntouched DEF SendAborts

\* A burst is sent: all its fragments are under way.
LEMMA SendingKeepsBurstInv ==
  ASSUME BurstInv, NEW b \in BurstSizes, SendBurst(b)
  PROVE  BurstInv'
<1>0. PICK n \in Nat : n = Len(sent)
  BY LenProperties DEF BurstInv, TypeOK
<1> DEFINE new == AllOf(n)'
<1>1. /\ sent \in Seq(BurstSizes) /\ n \in Nat /\ n < MaxBursts /\ b \in Nat
      /\ network \cap lost = {} /\ current \in Nat /\ n = Len(sent)
  BY <1>0, Sizes DEF BurstInv, TypeOK, SendBurst
<1>2. /\ sent' \in Seq(BurstSizes) /\ Len(sent') = n + 1 /\ sent'[n + 1] = b
      /\ \A k \in 0..n - 1 : sent'[k + 1] = sent[k + 1]
      /\ pc = "running" /\ pc' = "running"
      /\ current' = current /\ merged' = merged /\ unordered' = unordered
      /\ buffer' = buffer /\ received' = received /\ lost' = lost
  <2>1. sent' = Append(sent, b)
    BY DEF SendBurst
  <2>2. \A k \in 0..n - 1 : k + 1 \in 1..n
    BY <1>1
  <2> QED
    BY <1>1, <2>1, <2>2, AppendProperties DEF SendBurst, handler
<1>3. /\ \A k \in 0..n - 1 : AllOf(k)' = AllOf(k) /\ (Launched(k)' <=> Launched(k))
  BY <1>2, SameBurst
<1>4. Launched(n)' /\ new = [burst : {n}, frag : 0..Len(Fragments(b)) - 1]
      /\ network' = network \cup new
  <2>1. b \in Nat \ {0}
    BY <1>1, Sizes DEF SendBurst
  <2>2. new = [burst : {n}, frag : 0..Len(Fragments(b)) - 1]
    BY <1>2 DEF AllOf
  <2>3. Launched(n)'
    <3>1. Len(Fragments(b)) \in Nat
      BY <2>1, FragmentsAddUp DEF IsCutOf
    <3>2. DOMAIN Fragments(b) = 1..Len(Fragments(b))
      BY <2>1, FragmentsAddUp, LenProperties DEF IsCutOf
    <3> QED
      BY <1>2, <2>1, <3>2 DEF SendBurst, Launched, Parts
  <2> QED
    BY <1>1, <2>2, <2>3 DEF SendBurst
<1>5. \A m \in new : m.burst = n
  BY <1>4
<1>6. \A k \in 0..n : k \in 0..n - 1 \/ k = n
  BY <1>1
<1> HIDE DEF new
<1>7. TypeOK'
  <2> DEFINE S == UNION {AllOf(k) : k \in 0..Len(sent) - 1}
  <2>1. network \cup lost \cup unordered \cup ToSet(buffer) \subseteq S
    BY DEF BurstInv, TypeOK
  <2>2. S \subseteq S' /\ new \subseteq S'
    <3>1. \A k \in 0..n - 1 : AllOf(k) \in {AllOf(j)' : j \in 0..Len(sent') - 1}
      BY <1>1, <1>2, <1>3
    <3>2. new \in {AllOf(j)' : j \in 0..Len(sent') - 1}
      BY <1>1, <1>2 DEF new
    <3>3. S = UNION {AllOf(j) : j \in 0..n - 1} /\ S' = UNION {AllOf(j)' : j \in 0..Len(sent') - 1}
      BY <1>1
    <3> HIDE DEF S
    <3> QED
      BY <1>3, <3>1, <3>2, <3>3
  <2> HIDE DEF S
  <2>3. network' \cup lost' \cup unordered' \cup ToSet(buffer') \subseteq S'
    BY <1>2, <1>4, <2>1, <2>2
  <2>4. network' \cap lost' = {}
    <3>1. \A m \in lost : m.burst # n
      <4> SUFFICES ASSUME NEW m \in lost PROVE m.burst # n
        OBVIOUS
      <4>1. PICK k \in 0..n - 1 : m \in AllOf(k)
        BY <1>1 DEF BurstInv, TypeOK
      <4>2. m.burst = k
        BY <1>1, <4>1, FragmentNumbers DEF BurstInv, AllLaunched
      <4> QED
        BY <1>1, <4>2
    <3> QED
      BY <1>1, <1>2, <1>4, <1>5, <3>1
  <2>5. merged \in 0..Word - 1 /\ received \in Seq(Nat) /\ MaxBursts \in Nat
    BY BurstAssumption DEF BurstInv, TypeOK
  <2> QED
    BY <1>1, <1>2, <2>3, <2>4, <2>5 DEF TypeOK, S
<1>8. AllLaunched'
  <2>1. ASSUME NEW k \in 0..Len(sent') - 1 PROVE Launched(k)'
    <3>1. k \in 0..n
      BY <1>1, <1>2
    <3> QED
      BY <1>1, <1>3, <1>4, <1>6, <3>1 DEF BurstInv, AllLaunched
  <2> QED
    BY <2>1 DEF AllLaunched
<1>9. Idle'
  BY <1>1, <1>2 DEF BurstInv, Idle
<1>10. PICK c \in Nat : c = current
  BY <1>1
<1>11. CASE c < n
  <2>1. /\ Assembling(c, merged, unordered, buffer, network \cup lost)
        /\ Gathering(c, merged, unordered, buffer, network \cup lost)
        /\ Countable(c) /\ merged = Parts(c) => c \in ToSet(received)
        /\ Launched(c) /\ sent'[c + 1] = sent[c + 1]
    BY <1>1, <1>2, <1>10, <1>11 DEF BurstInv, Kept, Pending, AllLaunched
  <2> DEFINE N == network' \cup lost'
  <2>2. /\ AllOf(current)' = AllOf(c) /\ Parts(current)' = Parts(c)
        /\ Countable(current)' <=> Countable(c)
        /\ Assembling(current, merged, unordered, buffer, network \cup lost)'
             <=> Assembling(c, merged, unordered, buffer, N)
        /\ Gathering(current, merged, unordered, buffer, network \cup lost)'
             <=> Gathering(c, merged, unordered, buffer, N)
    BY <1>2, <1>10, <2>1, HandlerAfter
  <2>3. N = network \cup lost \cup new /\ AllOf(c) \cap new = {}
    <3>1. \A m \in AllOf(c) : m.burst = c
      BY <2>1, FragmentNumbers
    <3> QED
      BY <1>1, <1>2, <1>4, <1>5, <1>11, <3>1
  <2> HIDE DEF N
  <2>4. Gathering(c, merged, unordered, buffer, N)
        /\ Assembling(c, merged, unordered, buffer, N)
    <3>1. ToSet(buffer) \subseteq AllOf(c)
      <4>1. \A i \in DOMAIN buffer : buffer[i] \in AllOf(c)
        BY <2>1, LenProperties, ElementOfSeq DEF Assembling
      <4> QED
        BY <4>1 DEF ToSet
    <3>2. Assembling(c, merged, unordered, buffer, N)
      BY <2>1, <2>3, <3>1 DEF Assembling
    <3> QED
      BY <2>1, <2>3, <3>2 DEF Gathering
  <2>5. Kept' /\ AssertsOnlyOnOverflow'
    BY <1>2, <2>2, <2>4 DEF Kept, AssertsOnlyOnOverflow
  <2>6. Pending'
    <3>1. ASSUME NEW k \in 0..Len(sent') - 1, k > current'
          PROVE  AllOf(k)' \subseteq (network \cup lost)'
      <4>1. k \in 0..n
        BY <1>1, <1>2
      <4>2. CASE k \in 0..n - 1
        BY <1>1, <1>2, <1>3, <1>4, <3>1, <4>2 DEF BurstInv, Pending
      <4>3. CASE k = n
        BY <1>4, <4>3 DEF new
      <4> QED
        BY <1>6, <4>1, <4>2, <4>3
    <3>2. /\ Gathering(current, merged, unordered, buffer, network \cup lost)'
          /\ (Countable(current) /\ merged = Parts(current) => current \in ToSet(received))'
      BY <1>2, <1>10, <2>1, <2>2, <2>4
    <3> QED
      BY <3>1, <3>2 DEF Pending
  <2>7. Reports'
    BY <1>2, <1>10, <2>2 DEF BurstInv, Reports, ReportedInOrder
  <2> QED
    BY <1>7, <1>8, <1>9, <2>5, <2>6, <2>7 DEF BurstInv
<1>12. CASE ~(c < n)
  <2>1. /\ c = 0 /\ n = 0 /\ merged = 0 /\ buffer = <<>> /\ unordered = {} /\ received = <<>>
    BY <1>1, <1>10, <1>12 DEF BurstInv, Idle
  <2>2. IsInjective(<<>>) /\ ToSet(<<>>) = {} /\ <<>> \in Seq(new) /\ 0 % Word = 0
        /\ Len(<<>>) = 0
    BY Sizes, Division DEF IsInjective, ToSet
  <2>3. AllOf(current)' = new /\ new \subseteq network'
    BY <1>2, <1>4, <1>10, <2>1 DEF AllOf, new
  <2>4. Assembling(current, merged, unordered, buffer, network \cup lost)'
    BY <1>2, <2>1, <2>2, <2>3 DEF Assembling
  <2>5. Gathering(current, merged, unordered, buffer, network \cup lost)'
    BY <2>3, <2>4 DEF Gathering
  <2>6. ~(merged = Parts(current))'
    <3>1. Parts(n)' \in Nat \ {0}
      BY <1>2, <1>4, FragmentsAddUp, Sizes DEF IsCutOf, Parts, Launched
    <3>2. Parts(current)' = Parts(n)'
      BY <1>2, <1>10, <2>1 DEF Parts
    <3> QED
      BY <1>2, <2>1, <3>1, <3>2
  <2>7. Kept' /\ AssertsOnlyOnOverflow'
    BY <1>2, <2>4 DEF Kept, AssertsOnlyOnOverflow
  <2>8. Pending'
    BY <1>1, <1>2, <1>10, <2>1, <2>5, <2>6 DEF Pending
  <2>9. Reports'
    BY <1>2, <2>1 DEF Reports, ReportedInOrder, ToSet
  <2> QED
    BY <1>7, <1>8, <1>9, <2>7, <2>8, <2>9 DEF BurstInv
<1> QED
  BY <1>11, <1>12

\* A fragment that is merged or stored: the burst it belongs to is the current one
\* and its handler gathers on; CheckComplete has reported it or not.
LEMMA TakingKeepsBurstInv ==
  ASSUME BurstInv, pc = "running", NEW m \in network, FragmentReceived(m),
         Size(m) # 0, IsNewer(m) \/ m.burst = current, current' = m.burst,
         Merge(m) \/ Store(m)
  PROVE  /\ BurstInv'
         /\ received' # received =>
              /\ received' = Append(received, m.burst)
              /\ Countable(m.burst) => buffer' = InOrder(m.burst)
<1>1. /\ m.burst \in 0..Len(sent) - 1 /\ m \in AllOf(m.burst) /\ Launched(m.burst)
      /\ Len(sent) \in Nat /\ current \in Nat
  BY UnderWay
<1>2. Arriving(m) /\ \A i \in DOMAIN received : received[i] < m.burst
  BY ArrivalIsReady
<1>3. PICK c \in 0..Len(sent) - 1 : c = m.burst
  BY <1>1
<1> DEFINE N == (network \cup lost) \ {m}
<1>4. Gathering(c, merged', unordered', buffer', N)
  <2>1. CASE Merge(m)
    BY <1>2, <1>3, <2>1, MergeGathers
  <2>2. CASE Store(m)
    BY <1>2, <1>3, <2>2, StoreGathers
  <2> QED
    BY <2>1, <2>2
<1>5. CheckComplete(m)
  BY DEF Merge, Store
<1>6. /\ sent' = sent /\ lost' = lost /\ network' = network \ {m} /\ current' = c
      /\ network' \cup lost' = N
  <2>1. network \cap lost = {}
    BY DEF BurstInv, TypeOK
  <2> QED
    BY <1>3, <2>1 DEF FragmentReceived
<1> HIDE DEF N
<1>7. \/ /\ received' = received /\ pc' = "running"
         /\ ~(Countable(c) /\ merged' = Parts(c))
      \/ /\ received' = Append(received, c) /\ pc' = "running"
         /\ AllOf(c) \subseteq ToSet(buffer')
         /\ Countable(c) => buffer' = InOrder(c)
      \/ /\ received' = received /\ pc' = "asserted"
         /\ ~Countable(c)
  <2>1. Launched(m.burst) /\ Gathering(m.burst, merged', unordered', buffer', N)
    BY <1>1, <1>3, <1>4
  <2>2. \/ /\ received' = received /\ pc' = "running"
           /\ ~(Countable(m.burst) /\ merged' = Parts(m.burst))
        \/ /\ received' = Append(received, m.burst) /\ pc' = "running"
           /\ AllOf(m.burst) \subseteq ToSet(buffer')
           /\ Countable(m.burst) => buffer' = InOrder(m.burst)
        \/ /\ received' = received /\ pc' = "asserted"
           /\ ~Countable(m.burst)
    BY <1>5, <2>1, CheckingIsExact
  <2> QED
    BY <1>3, <2>2
<1>8. /\ received \in Seq(Nat) /\ c \in Nat
      /\ \A i \in 1..Len(received) : received[i] \in Nat /\ received[i] < c
      /\ DOMAIN received = 1..Len(received) /\ Len(received) \in Nat
  <2>1. received \in Seq(Nat) /\ c \in Nat
    BY <1>1 DEF BurstInv, TypeOK
  <2>2. DOMAIN received = 1..Len(received) /\ Len(received) \in Nat
    BY <2>1, LenProperties
  <2>3. \A i \in 1..Len(received) : received[i] \in Nat
    BY <2>1, ElementOfSeq
  <2> QED
    BY <1>2, <1>3, <2>1, <2>2, <2>3
<1>9. /\ Append(received, c) \in Seq(Nat)
      /\ DOMAIN Append(received, c) = 1..Len(received) + 1
      /\ \A i \in 1..Len(received) : Append(received, c)[i] = received[i]
      /\ Append(received, c)[Len(received) + 1] = c
  <2>1. /\ Append(received, c) \in Seq(Nat)
        /\ Len(Append(received, c)) = Len(received) + 1
        /\ \A i \in 1..Len(received) : Append(received, c)[i] = received[i]
        /\ Append(received, c)[Len(received) + 1] = c
    BY <1>8, AppendProperties
  <2> QED
    BY <2>1, LenProperties
<1>10. TypeOK' /\ AllLaunched' /\ Idle' /\ Kept'
  <2>1. received' \in Seq(Nat) /\ pc' \in {"running", "aborted", "asserted"}
    BY <1>7, <1>8, <1>9
  <2>2. Assembling(c, merged', unordered', buffer', (network \cup lost) \ {m})
    BY <1>4 DEF Gathering, N
  <2> QED
    BY <1>6, <2>1, <2>2, AfterFragment
<1>11. /\ AllOf(current)' = AllOf(c) /\ Parts(current)' = Parts(c)
       /\ Countable(current)' <=> Countable(c)
       /\ Gathering(current, merged, unordered, buffer, network \cup lost)'
            <=> Gathering(c, merged', unordered', buffer', N)
  BY <1>6, HandlerAfter
<1>12. Pending'
  <2> SUFFICES ASSUME pc' = "running" PROVE Pending'
    BY DEF Pending
  <2>1. ASSUME NEW k \in 0..Len(sent) - 1, k > c
        PROVE  AllOf(k)' \subseteq (network \cup lost)'
    <3>1. k > current /\ m \notin AllOf(k)
      <4>1. c >= current
        BY <1>1, <1>3 DEF IsNewer
      <4>2. Launched(k)
        BY DEF BurstInv, AllLaunched
      <4>3. \A u \in AllOf(k) : u.burst = k
        BY <4>2, FragmentNumbers
      <4> QED
        BY <1>1, <1>3, <2>1, <4>1, <4>3
    <3>2. AllOf(k) \subseteq network \cup lost
      BY <3>1 DEF BurstInv, Pending
    <3>3. AllOf(k)' = AllOf(k)
      BY <1>6, SameBurst
    <3> QED
      BY <1>6, <3>1, <3>2, <3>3 DEF N
  <2>2. Countable(c) /\ merged' = Parts(c) => c \in ToSet(received')
    <3>1. Len(received) + 1 \in 1..Len(received) + 1
      BY <1>8
    <3>2. c \in ToSet(Append(received, c))
      BY <1>9, <3>1 DEF ToSet
    <3> QED
      BY <1>7, <3>2
  <2>3. /\ Gathering(current, merged, unordered, buffer, network \cup lost)'
        /\ (Countable(current) /\ merged = Parts(current) => current \in ToSet(received))'
    BY <1>4, <1>6, <1>11, <2>2
  <2> QED
    BY <1>6, <2>1, <2>3 DEF Pending
<1>13. Reports'
  <2>1. CASE received' = received
    <3>1. \A i \in DOMAIN received' : received'[i] <= current'
      BY <1>6, <1>8, <2>1
    <3>2. ReportedInOrder'
      BY <2>1 DEF BurstInv, Reports, ReportedInOrder
    <3>3. c \notin ToSet(received')
      BY <1>8, <2>1 DEF ToSet
    <3> QED
      BY <1>6, <3>1, <3>2, <3>3 DEF Reports
  <2>2. CASE received' = Append(received, c) /\ AllOf(c) \subseteq ToSet(buffer')
    <3>1. \A i \in 1..Len(received) + 1 : i \in 1..Len(received) \/ i = Len(received) + 1
      BY <1>8
    <3>2. \A i \in DOMAIN received' : received'[i] <= current'
      BY <1>6, <1>8, <1>9, <2>2, <3>1
    <3>3. ReportedInOrder'
      <4> SUFFICES ASSUME NEW i \in 1..Len(received) + 1, NEW j \in 1..Len(received) + 1,
                          i < j
                   PROVE  received'[i] < received'[j]
        BY <1>9, <2>2 DEF ReportedInOrder
      <4>1. i \in 1..Len(received)
        BY <1>8
      <4>2. CASE j \in 1..Len(received)
        BY <1>8, <1>9, <2>2, <4>1, <4>2 DEF BurstInv, Reports, ReportedInOrder
      <4>3. CASE j = Len(received) + 1
        BY <1>8, <1>9, <2>2, <4>1, <4>3
      <4> QED
        BY <3>1, <4>2, <4>3
    <3> QED
      BY <1>11, <2>2, <3>2, <3>3 DEF Reports
  <2> QED
    BY <1>7, <2>1, <2>2
<1>14. AssertsOnlyOnOverflow'
  BY <1>7, <1>11 DEF AssertsOnlyOnOverflow
<1>15. BurstInv'
  BY <1>10, <1>12, <1>13, <1>14 DEF BurstInv
<1> QED
  BY <1>3, <1>7, <1>15

\* A fragment that is not taken: its burst has no payload, it is late, or its number
\* was merged before.
LEMMA RejectingKeepsBurstInv ==
  ASSUME BurstInv, pc = "running", NEW m \in network, FragmentReceived(m),
         \/ Size(m) = 0 /\ pc' = "aborted" /\ UNCHANGED <<handler, received>>
         \/ ~IsNewer(m) /\ m.burst # current /\ UNCHANGED <<handler, received, pc>>
         \/ (IsNewer(m) \/ m.burst = current) /\ current' = m.burst /\ Repeated(m)
  PROVE  BurstInv' /\ received' = received
<1>1. /\ m.burst \in 0..Len(sent) - 1 /\ m \in AllOf(m.burst) /\ Launched(m.burst)
      /\ Len(sent) \in Nat /\ current \in Nat /\ current < Len(sent)
  BY UnderWay
<1>2. /\ sent' = sent /\ lost' = lost /\ network' = network \ {m}
      /\ network' \cup lost' \subseteq network \cup lost /\ network' \cap lost' = {}
  BY DEF FragmentReceived, BurstInv, TypeOK
<1>3. CASE Size(m) = 0 /\ pc' = "aborted" /\ UNCHANGED <<handler, received>>
  BY <1>2, <1>3, HandlerUntouched
<1>4. CASE ~IsNewer(m) /\ m.burst # current /\ UNCHANGED <<handler, received, pc>>
  <2>1. m.burst < current
    BY <1>1, <1>4 DEF IsNewer
  <2>2. ASSUME NEW k \in 0..Len(sent) - 1, k >= current PROVE m \notin AllOf(k)
    <3>1. Launched(k)
      BY DEF BurstInv, AllLaunched
    <3>2. \A u \in AllOf(k) : u.burst = k
      BY <3>1, FragmentNumbers
    <3> QED
      BY <1>1, <2>1, <2>2, <3>2
  <2>3. \A k \in 0..Len(sent) - 1 :
          k >= current => AllOf(k) \cap (network \cup lost) \subseteq network' \cup lost'
    BY <1>2, <2>2
  <2> QED
    BY <1>2, <1>4, <2>3, HandlerUntouched
<1>5. CASE (IsNewer(m) \/ m.burst = current) /\ current' = m.burst /\ Repeated(m)
  <2>1. FragSeq(m) < MergedBefore(m) /\ FragSeq(m) \in Nat
    BY <1>1, <1>5, HeaderNumbers DEF Repeated
  <2>2. ~IsNewer(m)
    BY <2>1 DEF MergedBefore
  <2>3. m.burst = current /\ MergedBefore(m) = merged
    BY <1>5, <2>2 DEF MergedBefore
  <2>4. Assembling(m.burst, merged, unordered, buffer, network \cup lost)
    BY <1>1, <2>3 DEF BurstInv, Kept
  <2>5. ~Countable(m.burst)
    BY <1>1, <2>1, <2>3, <2>4, RepeatsAreUncountable
  <2>6. UNCHANGED <<handler, received>> /\ pc' = "asserted"
    BY <1>5, <2>3 DEF Repeated, handler
  <2> QED
    BY <1>1, <1>2, <2>3, <2>5, <2>6, HandlerUntouched
<1> QED
  BY <1>3, <1>4, <1>5

\* Every step keeps the invariant, and what it reports is intact.
LEMMA ReceivingKeepsBurstInv ==
  ASSUME BurstInv, NEW m \in network, FragmentReceived(m)
  PROVE  /\ BurstInv'
         /\ received' # received => /\ received' = Append(received, m.burst)
                                    /\ current' = m.burst
                                    /\ Countable(m.burst) => buffer' = InOrder(m.burst)
<1>1. pc = "running"
  BY DEF FragmentReceived
<1>2. CASE Size(m) # 0 /\ (IsNewer(m) \/ m.burst = current) /\ current' = m.burst
             /\ (Merge(m) \/ Store(m))
  BY <1>1, <1>2, TakingKeepsBurstInv
<1>3. CASE \/ Size(m) = 0 /\ pc' = "aborted" /\ UNCHANGED <<handler, received>>
           \/ ~IsNewer(m) /\ m.burst # current /\ UNCHANGED <<handler, received, pc>>
           \/ (IsNewer(m) \/ m.burst = current) /\ current' = m.burst /\ Repeated(m)
  BY <1>1, <1>3, RejectingKeepsBurstInv
<1> QED
  BY <1>2, <1>3 DEF FragmentReceived

\* Whatever is sent, lost or late, the handler is as BurstInv describes it.
THEOREM BurstInvariant ==
  Spec => []BurstInv
<1>1. Init => BurstInv
  BY BurstInvHoldsInitially
<1>2. BurstInv /\ [Next]_vars => BurstInv'
  <2> SUFFICES ASSUME BurstInv, [Next]_vars PROVE BurstInv'
    OBVIOUS
  <2>1. ASSUME NEW b \in BurstSizes, SendBurst(b) PROVE BurstInv'
    BY <2>1, SendingKeepsBurstInv
  <2>2. ASSUME NEW b \in BurstSizes, SendAborts(b) PROVE BurstInv'
    BY <2>2, AbortingKeepsBurstInv
  <2>3. ASSUME NEW m \in network, Lose(m) PROVE BurstInv'
    BY <2>3, LosingKeepsBurstInv
  <2>4. ASSUME NEW m \in network, FragmentReceived(m) PROVE BurstInv'
    BY <2>4, ReceivingKeepsBurstInv
  <2>5. CASE UNCHANGED vars
    BY <2>5 DEF vars, handler, BurstInv, TypeOK, AllLaunched, Idle, Kept, Pending,
                Reports, ReportedInOrder, AssertsOnlyOnOverflow, Gathering, Assembling,
                AllOf, Parts, Countable, Launched
  <2> QED
    BY <2>1, <2>2, <2>3, <2>4, <2>5 DEF Next
<1> QED
  BY <1>1, <1>2, PTL DEF Spec

-----------------------------------------------------------------------------
\* The fields keep their types, every fragment belongs to a burst that was sent, and
\* none that was lost is still under way (TypeOK).
THEOREM BurstTypeCorrect ==
  Spec => []TypeOK
<1>1. BurstInv => TypeOK
  BY DEF BurstInv
<1> QED
  BY <1>1, BurstInvariant, PTL

\* SendFragmentedBurst cuts every burst into as many fragments as hold it, which add
\* up to it and are no smaller than their header and no larger than m_fragSize.
THEOREM BurstsAreCutExactly ==
  Spec => []CutExactly
<1>1. BurstInv => CutExactly
  <2> SUFFICES ASSUME BurstInv, NEW k \in DOMAIN sent
               PROVE  LET s == Fragments(sent[k])
                      IN  /\ FoldSeq(+, 0, s) = sent[k]
                          /\ \A i \in DOMAIN s : s[i] \in HeaderSize..FragSize
                          /\ (Len(s) - 1) * FragSize < sent[k]
    BY DEF CutExactly
  <2>1. k \in 1..Len(sent) /\ Len(sent) \in Nat
    BY LenProperties DEF BurstInv, TypeOK
  <2>2. k - 1 \in 0..Len(sent) - 1 /\ (k - 1) + 1 = k
    BY <2>1
  <2>3. Launched(k - 1)
    BY <2>2 DEF BurstInv, AllLaunched
  <2> DEFINE s == Fragments(sent[k])
  <2>4. /\ sent[k] \in Nat \ {0}
        /\ \A i \in 1..Len(s) : s[i] >= HeaderSize
    BY <2>2, <2>3 DEF Launched, Parts
  <2>5. IsCutOf(s, sent[k])
    BY <2>4, FragmentsAddUp
  <2> HIDE DEF s
  <2>6. /\ s \in Seq(Nat) /\ DOMAIN s = 1..Len(s)
        /\ \A i \in 1..Len(s) : s[i] \in Nat /\ s[i] <= FragSize
    BY <2>5, LenProperties, ElementOfSeq DEF IsCutOf
  <2>7. \A i \in DOMAIN s : s[i] \in HeaderSize..FragSize
    BY <2>4, <2>6, Sizes
  <2>8. FoldSeq(+, 0, s) = sent[k]
    BY <2>5, Zenon DEF IsCutOf, SumOf
  <2> QED
    BY <2>5, <2>7, <2>8 DEF IsCutOf, s
<1> QED
  BY <1>1, BurstInvariant, PTL

\* A burst all of whose fragments have arrived before any of a later one has been
\* reported, whatever their order, if its fragments can be counted: were one missing
\* from the buffer it would be the one that follows it, and that one does not wait.
THEOREM CompleteBurstsAreReported ==
  Spec => []CompleteIsReported
<1>1. BurstInv => CompleteIsReported
  <2> SUFFICES ASSUME BurstInv, NEW k \in 0..Len(sent) - 1,
                      pc = "running", k = current, Countable(k),
                      AllOf(k) \cap (network \cup lost) = {}
               PROVE  k \in ToSet(received)
    BY DEF CompleteIsReported
  <2>1. Len(sent) \in Nat /\ k < Len(sent) /\ Launched(k)
    BY LenProperties DEF BurstInv, TypeOK, AllLaunched
  <2>2. /\ Gathering(k, merged, unordered, buffer, network \cup lost)
        /\ merged = Parts(k) => k \in ToSet(received)
    BY <2>1 DEF BurstInv, Pending
  <2>3. /\ Assembling(k, merged, unordered, buffer, network \cup lost)
        /\ AllOf(k) \subseteq unordered \cup ToSet(buffer)
    BY <2>2 DEF Gathering
  <2>4. merged = Len(buffer) /\ merged <= Parts(k) /\ merged \in Nat /\ Parts(k) \in Nat
    BY <2>1, <2>3, MergedIsExact
  <2>5. ASSUME merged # Parts(k) PROVE FALSE
    <3>1. merged \in 0..Parts(k) - 1
      BY <2>4, <2>5
    <3> DEFINE u == [burst |-> k, frag |-> merged]
    <3>2. u \in AllOf(k) /\ u.frag = merged
      BY <2>1, <3>1, FragmentNumbers
    <3> HIDE DEF u
    <3>3. u \notin unordered
      BY <2>3, <2>4, <3>2 DEF Assembling
    <3>4. PICK i \in DOMAIN buffer : buffer[i] = u
      BY <2>3, <3>2, <3>3 DEF ToSet
    <3>5. i \in 1..Len(buffer) /\ u.frag = i - 1
      BY <2>3, <3>4, LenProperties DEF Assembling
    <3> QED
      BY <2>4, <3>2, <3>5
  <2> QED
    BY <2>2, <2>5
<1> QED
  BY <1>1, BurstInvariant, PTL

\* Bursts are reported in the order they were sent, each at most once.
THEOREM BurstsAreReportedInOrder ==
  Spec => []ReportedInOrder
<1>1. BurstInv => ReportedInOrder
  BY DEF BurstInv, Reports
<1> QED
  BY <1>1, BurstInvariant, PTL

\* The sink's assertions fail only on bursts of more fragments than their uint16_t
\* can count.
THEOREM AssertionsHold ==
  Spec => []AssertsOnlyOnOverflow
<1>1. BurstInv => AssertsOnlyOnOverflow
  BY DEF BurstInv
<1> QED
  BY <1>1, BurstInvariant, PTL

\* What a step reports is the burst, all its fragments in order, if they can be
\* counted.
THEOREM ReportsAreIntact ==
  Spec => ReportedIntact
<1>1. BurstInv /\ [Next]_vars =>
        [received' # received /\ Countable(current') =>
           buffer' = [i \in 1..Len(Fragments(sent[current' + 1])) |->
                        [burst |-> current', frag |-> i - 1]]]_vars
  <2> SUFFICES ASSUME BurstInv, Next, received' # received, Countable(current')
               PROVE  buffer' = [i \in 1..Len(Fragments(sent[current' + 1])) |->
                                   [burst |-> current', frag |-> i - 1]]
    OBVIOUS
  <2>1. PICK m \in network : FragmentReceived(m)
    BY DEF Next, SendBurst, SendAborts, Lose
  <2>2. current' = m.burst /\ (Countable(m.burst) => buffer' = InOrder(m.burst))
    BY <2>1, ReceivingKeepsBurstInv
  <2>3. buffer' = InOrder(current')
    BY <2>2
  <2> QED
    BY <2>3 DEF InOrder, Parts
<1> QED
  BY <1>1, BurstInvariant, PTL DEF Spec, ReportedIntact
=============================================================================
