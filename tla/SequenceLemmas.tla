--------------------------- MODULE SequenceLemmas ---------------------------
(* Facts about sequences and numbers that the proofs of several components *)
(* use.                                                                    *)
EXTENDS Integers, Sequences, SequencesExt, SequenceTheorems, WellFoundedInduction, TLAPS

(* Removing the k-th element of a sequence moves the later ones down by    *)
(* one: a node unlinked by svsBdpNodeRemove, or an entry that the loop of  *)
(* svsSocketServerCallbackHandler takes out of app_fds, leaves the order of*)
(* the others as it was.                                                   *)
LEMMA RemoveAtProperties ==
    ASSUME NEW S, NEW s \in Seq(S), NEW k \in 1..Len(s)
    PROVE  /\ RemoveAt(s, k) \in Seq(S)
           /\ Len(RemoveAt(s, k)) = Len(s) - 1
           /\ \A i \in 1..Len(s)-1 :
                 RemoveAt(s, k)[i] = IF i < k THEN s[i] ELSE s[i+1]
<1> DEFINE a == SubSeq(s, 1, k-1)
           b == SubSeq(s, k+1, Len(s))
<1>1. Len(s) \in Nat /\ \A i \in 1..Len(s) : s[i] \in S
  BY LenProperties, ElementOfSeq
<1>2. /\ a \in Seq(S)
      /\ Len(a) = k - 1
      /\ \A i \in 1..k-1 : a[i] = s[i]
  <2>1. \A i \in 1..k-1 : s[i] \in S
    BY <1>1
  <2>2. /\ a \in Seq(S)
        /\ Len(a) = IF 1 <= k-1 THEN k-1-1+1 ELSE 0
        /\ \A i \in 1..(k-1)-1+1 : a[i] = s[1+i-1]
    BY <2>1, SubSeqProperties, k-1 \in Int
  <2> QED BY <2>2
<1>3. /\ b \in Seq(S)
      /\ Len(b) = Len(s) - k
      /\ \A i \in 1..Len(s)-k : b[i] = s[k+i]
  <2>1. \A i \in k+1..Len(s) : s[i] \in S
    BY <1>1
  <2>2. /\ b \in Seq(S)
        /\ Len(b) = IF k+1 <= Len(s) THEN Len(s)-(k+1)+1 ELSE 0
        /\ \A i \in 1..Len(s)-(k+1)+1 : b[i] = s[k+1+i-1]
    BY <1>1, <2>1, SubSeqProperties, k+1 \in Int
  <2> QED BY <1>1, <2>2
<1>4. /\ a \o b \in Seq(S)
      /\ Len(a \o b) = Len(a) + Len(b)
      /\ \A i \in 1..Len(a)+Len(b) :
            (a \o b)[i] = IF i <= Len(a) THEN a[i] ELSE b[i - Len(a)]
  BY <1>2, <1>3, ConcatProperties
<1>5. RemoveAt(s, k) = a \o b
  BY DEF RemoveAt
<1> HIDE DEF a, b
<1>6. ASSUME NEW i \in 1..Len(s)-1
      PROVE  (a \o b)[i] = IF i < k THEN s[i] ELSE s[i+1]
  <2>1. CASE i < k
    BY <1>1, <1>2, <1>3, <1>4, <2>1
  <2>2. CASE ~(i < k)
    <3>1. /\ i - (k-1) \in 1..Len(s)-k
          /\ k + (i - (k-1)) = i + 1
      BY <1>1, <2>2
    <3>2. b[i - (k-1)] = s[k + (i - (k-1))]
      BY <1>3, <3>1
    <3> QED BY <1>1, <1>2, <1>3, <1>4, <2>2, <3>1, <3>2
  <2> QED BY <2>1, <2>2
<1>7. Len(a \o b) = Len(s) - 1
  BY <1>1, <1>2, <1>3, <1>4
<1> QED BY <1>4, <1>5, <1>6, <1>7

(* A set of numbers that is not empty has a least one.                     *)
LEMMA LeastNumber ==
  ASSUME NEW T, T \subseteq Nat, T # {}
  PROVE  \E m \in T : \A k \in T : m =< k
<1>1. PICK R : IsWellFoundedOn(R, Nat) /\ \A x, y \in Nat : x < y => <<x, y>> \in R
  <2>1. \A x, y \in Nat : x < y => <<x, y>> \in OpToRel(<, Nat)
    BY DEF OpToRel
  <2> QED BY <2>1, NatLessThanWellFounded, Zenon
<1>2. \A R0, S0 : IsWellFoundedOn(R0, S0) =>
        \A T0 : T0 \subseteq S0 /\ T0 # {} => \E x \in T0 : \A y \in T0 : ~ (<<y, x>> \in R0)
  BY WFMin, Zenon
<1>3. PICK m \in T : \A k \in T : ~ (<<k, m>> \in R)
  <2>1. IsWellFoundedOn(R, Nat)
    BY <1>1
  <2> QED BY <2>1, <1>2, Zenon
<1>4. \A k \in T : m \in Nat /\ k \in Nat /\ ~(k < m)
  BY <1>1, <1>3
<1> QED BY <1>3, <1>4

(* A part of a sequence of known elements: how long it is and what is in   *)
(* it.                                                                     *)
LEMMA PartOfSeq ==
    ASSUME NEW S, NEW s \in Seq(S), NEW i \in Nat, i >= 1,
           NEW j \in Nat, j =< Len(s), i =< j + 1
    PROVE  /\ SubSeq(s, i, j) \in Seq(S)
           /\ Len(SubSeq(s, i, j)) = j - i + 1
           /\ \A k \in 1..j - i + 1 : SubSeq(s, i, j)[k] = s[i + k - 1]
<1>1. Len(s) \in Nat /\ \A k \in 1..Len(s) : s[k] \in S
  BY LenProperties, ElementOfSeq
<1>2. \A k \in i..j : s[k] \in S
  BY <1>1
<1>3. /\ SubSeq(s, i, j) \in Seq(S)
      /\ Len(SubSeq(s, i, j)) = IF i <= j THEN j - i + 1 ELSE 0
      /\ \A k \in 1 .. j - i + 1 : SubSeq(s, i, j)[k] = s[i + k - 1]
  BY <1>2, SubSeqProperties, i \in Int, j \in Int
<1> QED BY <1>3

(* Appending an element leaves the parts that do not reach it.             *)
LEMMA PartKept ==
    ASSUME NEW S, NEW s \in Seq(S), NEW e \in S, NEW i \in Nat, i >= 1,
           NEW j \in Nat, j =< Len(s), i =< j + 1
    PROVE  SubSeq(Append(s, e), i, j) = SubSeq(s, i, j)
<1> DEFINE t == Append(s, e)
<1>1. /\ Len(s) \in Nat
      /\ t \in Seq(S)
      /\ Len(t) = Len(s) + 1
      /\ \A k \in 1..Len(s) : t[k] = s[k]
  BY AppendProperties, LenProperties
<1> HIDE DEF t
<1>2. /\ SubSeq(s, i, j) \in Seq(S)
      /\ Len(SubSeq(s, i, j)) = j - i + 1
      /\ \A k \in 1..j - i + 1 : SubSeq(s, i, j)[k] = s[i + k - 1]
  BY PartOfSeq
<1>3. /\ SubSeq(t, i, j) \in Seq(S)
      /\ Len(SubSeq(t, i, j)) = j - i + 1
      /\ \A k \in 1..j - i + 1 : SubSeq(t, i, j)[k] = t[i + k - 1]
  <2>1. j =< Len(t)
    BY <1>1
  <2> QED BY <1>1, <2>1, PartOfSeq
<1>4. \A k \in 1..j - i + 1 : SubSeq(t, i, j)[k] = SubSeq(s, i, j)[k]
  <2> SUFFICES ASSUME NEW k \in 1..j - i + 1
               PROVE  SubSeq(t, i, j)[k] = SubSeq(s, i, j)[k]
    OBVIOUS
  <2>1. i + k - 1 \in 1..Len(s)
    BY <1>1
  <2> QED BY <1>1, <1>2, <1>3, <2>1
<1> DEFINE u == SubSeq(t, i, j)
           v == SubSeq(s, i, j)
<1>5. u \in Seq(S) /\ v \in Seq(S) /\ Len(u) = Len(v) /\ \A k \in 1..Len(u) : u[k] = v[k]
  BY <1>2, <1>3, <1>4
<1> HIDE DEF u, v
<1>6. u = v
  BY <1>5, SeqEqual
<1> QED BY <1>6 DEF u, v, t

(* A part that ends where the sequence does grows with it.                 *)
LEMMA PartGrows ==
    ASSUME NEW S, NEW s \in Seq(S), NEW e \in S, NEW i \in Nat, i >= 1,
           i =< Len(s) + 1
    PROVE  SubSeq(Append(s, e), i, Len(s) + 1) = Append(SubSeq(s, i, Len(s)), e)
<1> DEFINE t == Append(s, e)
           n == Len(s)
           u == SubSeq(t, i, n + 1)
           p == SubSeq(s, i, n)
           v == Append(p, e)
<1>1. /\ n \in Nat
      /\ t \in Seq(S)
      /\ Len(t) = n + 1
      /\ \A k \in 1..n : t[k] = s[k]
      /\ t[n + 1] = e
  BY AppendProperties, LenProperties
<1>2. /\ p \in Seq(S)
      /\ Len(p) = n - i + 1
      /\ \A k \in 1..n - i + 1 : p[k] = s[i + k - 1]
  BY <1>1, PartOfSeq
<1> HIDE DEF t
<1>3. /\ u \in Seq(S)
      /\ Len(u) = n - i + 2
      /\ \A k \in 1..n - i + 2 : u[k] = t[i + k - 1]
  <2>1. n + 1 \in Nat /\ n + 1 =< Len(t) /\ i =< (n + 1) + 1
    BY <1>1
  <2> HIDE DEF n
  <2>2. /\ SubSeq(t, i, n + 1) \in Seq(S)
        /\ Len(SubSeq(t, i, n + 1)) = (n + 1) - i + 1
        /\ \A k \in 1..(n + 1) - i + 1 : SubSeq(t, i, n + 1)[k] = t[i + k - 1]
    BY <1>1, <2>1, PartOfSeq
  <2>3. (n + 1) - i + 1 = n - i + 2
    BY <1>1
  <2> QED BY <2>2, <2>3
<1>4. i =< n + 1
  OBVIOUS
<1> HIDE DEF p, u, n
<1>5. /\ v \in Seq(S)
      /\ Len(v) = n - i + 2
      /\ \A k \in 1..n - i + 1 : v[k] = p[k]
      /\ v[n - i + 2] = e
  <2>1. /\ v \in Seq(S)
        /\ Len(v) = Len(p) + 1
        /\ \A k \in 1..Len(p) : v[k] = p[k]
        /\ v[Len(p) + 1] = e
    BY <1>2, AppendProperties
  <2>2. Len(p) + 1 = n - i + 2
    BY <1>1, <1>2
  <2> HIDE DEF v
  <2> QED BY <1>2, <2>1, <2>2
<1> HIDE DEF v
<1>6. \A k \in 1..n - i + 2 : u[k] = v[k]
  <2> SUFFICES ASSUME NEW k \in 1..n - i + 2 PROVE u[k] = v[k]
    OBVIOUS
  <2>1. u[k] = t[i + k - 1]
    BY <1>3
  <2>2. CASE k = n - i + 2
    <3>1. i + k - 1 = n + 1
      BY <1>1, <2>2
    <3> QED BY <1>1, <1>5, <2>1, <2>2, <3>1
  <2>3. CASE k # n - i + 2
    <3>1. k \in 1..n - i + 1 /\ i + k - 1 \in 1..n
      BY <1>1, <1>4, <2>3
    <3> QED BY <1>1, <1>2, <1>5, <2>1, <3>1
  <2> QED BY <2>2, <2>3
<1>7. u = v
  BY <1>3, <1>5, <1>6, SeqEqual
<1> QED BY <1>7 DEF u, v, p, t, n

(* A part of a part is a part.                                             *)
LEMMA PartOfPart ==
    ASSUME NEW S, NEW s \in Seq(S), NEW i \in Nat, i >= 1,
           NEW j \in Nat, j =< Len(s), i =< j + 1,
           NEW m \in Nat, m >= 1, m =< j - i + 2
    PROVE  SubSeq(SubSeq(s, i, j), m, j - i + 1) = SubSeq(s, i + m - 1, j)
<1> DEFINE t == SubSeq(s, i, j)
           n == j - i + 1
           q == i + m - 1
           u == SubSeq(t, m, n)
           v == SubSeq(s, q, j)
<1>0. n \in Nat /\ q \in Nat /\ q >= 1 /\ q =< j + 1 /\ m =< n + 1 /\ n - m + 1 = j - q + 1
  OBVIOUS
<1>1. t \in Seq(S) /\ Len(t) = n /\ \A k \in 1..n : t[k] = s[i + k - 1]
  BY PartOfSeq
<1> HIDE DEF t
<1>2. v \in Seq(S) /\ Len(v) = j - q + 1 /\ \A k \in 1..j - q + 1 : v[k] = s[q + k - 1]
  <2> HIDE DEF q
  <2> QED BY <1>0, PartOfSeq
<1>3. u \in Seq(S) /\ Len(u) = n - m + 1 /\ \A k \in 1..n - m + 1 : u[k] = t[m + k - 1]
  <2> HIDE DEF n
  <2> QED BY <1>0, <1>1, PartOfSeq
<1> HIDE DEF u, v
<1>4. \A k \in 1..n - m + 1 : u[k] = v[k]
  <2> SUFFICES ASSUME NEW k \in 1..n - m + 1 PROVE u[k] = v[k]
    OBVIOUS
  <2>1. m + k - 1 \in 1..n /\ i + (m + k - 1) - 1 = q + k - 1 /\ k \in 1..j - q + 1
    BY <1>0
  <2>2. u[k] = t[m + k - 1] /\ v[k] = s[q + k - 1]
    BY <1>2, <1>3, <2>1
  <2>3. t[m + k - 1] = s[i + (m + k - 1) - 1]
    BY <1>1, <2>1
  <2> QED BY <2>1, <2>2, <2>3
<1>5. Len(u) = Len(v) /\ \A k \in 1..Len(u) : u[k] = v[k]
  BY <1>0, <1>2, <1>3, <1>4
<1>6. u = v
  BY <1>2, <1>3, <1>5, SeqEqual
<1> QED BY <1>6 DEF u, v, t, n, q

=============================================================================
