--------------------------- MODULE Filtering_proofs ---------------------------
(***************************************************************************)
(* Induction over the numbers, what it shows of Dropping, and lists        *)
(* without an entry that occurs twice.                                     *)
(***************************************************************************)
EXTENDS Filtering, SequencesExt, SequenceTheorems, WellFoundedInduction, TLAPS

\* A set of numbers with 0 and the successor of each of its members is all of
\* them: otherwise the least number outside it has a predecessor inside.
LEMMA SetInduction ==
  ASSUME NEW S \in SUBSET Nat, 0 \in S, \A n \in S : n + 1 \in S
  PROVE  S = Nat
<1> SUFFICES ASSUME Nat \ S # {} PROVE FALSE
  OBVIOUS
<1>1. PICK m \in Nat \ S : \A k \in Nat \ S : ~(<<k, m>> \in OpToRel(<, Nat))
  BY NatLessThanWellFounded, WFMin
<1>2. m \in Nat /\ m # 0 /\ m \notin S
  OBVIOUS
<1>3. m - 1 \in Nat /\ m - 1 < m /\ (m - 1) + 1 = m
  BY <1>2
<1>4. m - 1 \in S
  BY <1>1, <1>2, <1>3 DEF OpToRel
<1> QED
  BY <1>2, <1>3, <1>4

\* left is the function on which Dropping recurs.
Recurs(left, seq, gone) ==
  left = [n \in 0 .. Len(seq) |->
            IF n = 0 THEN <<>>
            ELSE IF seq[n] \in gone THEN left[n - 1] ELSE Append(left[n - 1], seq[n])]

\* There is such a function.
LEMMA DroppingExists ==
  ASSUME NEW S, NEW seq \in Seq(S), NEW gone
  PROVE  \E left : Recurs(left, seq, gone)
<1> DEFINE Next(n, rest) == IF seq[n] \in gone THEN rest ELSE Append(rest, seq[n])
           Upto(m) == \E left : left = [n \in 0 .. m |-> IF n = 0 THEN <<>>
                                                        ELSE Next(n, left[n - 1])]
           T == {m \in Nat : Upto(m)}
<1>1. 0 \in T
  <2>1. [n \in 0 .. 0 |-> <<>>] = [n \in 0 .. 0 |-> IF n = 0 THEN <<>>
                                     ELSE Next(n, [k \in 0 .. 0 |-> <<>>][n - 1])]
    OBVIOUS
  <2> QED
    BY <2>1
<1>2. ASSUME NEW m \in T PROVE m + 1 \in T
  <2>1. PICK left : left = [n \in 0 .. m |-> IF n = 0 THEN <<>> ELSE Next(n, left[n - 1])]
    OBVIOUS
  <2> DEFINE more == [n \in 0 .. m + 1 |-> IF n = m + 1 THEN Next(n, left[m]) ELSE left[n]]
  <2> HIDE DEF Next
  <2>2. ASSUME NEW n \in 0 .. m + 1
        PROVE  more[n] = IF n = 0 THEN <<>> ELSE Next(n, more[n - 1])
    <3>1. CASE n = 0
      BY <2>1, <3>1
    <3>2. CASE n = m + 1
      BY <3>2
    <3>3. CASE n \in 1 .. m
      <4>1. left[n] = Next(n, left[n - 1])
        BY <2>1, <3>3
      <4>2. more[n] = left[n] /\ more[n - 1] = left[n - 1]
        BY <3>3
      <4> QED
        BY <3>3, <4>1, <4>2
    <3> QED
      BY <3>1, <3>2, <3>3
  <2>3. more = [n \in 0 .. m + 1 |-> IF n = 0 THEN <<>> ELSE Next(n, more[n - 1])]
    <3> HIDE DEF more
    <3>1. more = [n \in 0 .. m + 1 |-> more[n]]
      BY DEF more
    <3> QED
      BY <2>2, <3>1
  <2> HIDE DEF more
  <2>4. Upto(m + 1)
    BY <2>3
  <2> QED
    BY <2>4
<1>3. Len(seq) \in T
  <2> HIDE DEF T
  <2>1. T \in SUBSET Nat
    BY DEF T
  <2>2. T = Nat
    BY <1>1, <1>2, <2>1, SetInduction
  <2> QED
    BY <2>2
<1> QED
  BY <1>3 DEF Recurs

\* What is left is a list of the entries that are not gone.
LEMMA DroppingElements ==
  ASSUME NEW S, NEW seq \in Seq(S), NEW gone
  PROVE  /\ Dropping(seq, gone) \in Seq(S)
         /\ ToSet(Dropping(seq, gone)) = ToSet(seq) \ gone
<1> DEFINE left == CHOOSE f : Recurs(f, seq, gone)
           In(x, s) == \E k \in 1 .. Len(s) : s[k] = x
           Is(n) == /\ left[n] \in Seq(S)
                    /\ \A x : In(x, left[n]) <=> x \notin gone /\ \E i \in 1 .. n : seq[i] = x
           T == {n \in Nat : n <= Len(seq) => Is(n)}
<1>0. Len(seq) \in Nat /\ \A i \in 1 .. Len(seq) : seq[i] \in S
  OBVIOUS
<1>1. Recurs(left, seq, gone)
  <2>1. \E f : Recurs(f, seq, gone)
    BY DroppingExists
  <2> QED
    BY ONLY <2>1
<1>2. Dropping(seq, gone) = left[Len(seq)]
  BY DEF Dropping, Recurs
<1> HIDE DEF left
<1>3. \A n \in 0 .. Len(seq) :
        left[n] = IF n = 0 THEN <<>>
                  ELSE IF seq[n] \in gone THEN left[n - 1] ELSE Append(left[n - 1], seq[n])
  BY <1>1, Zenon DEF Recurs
<1>4. 0 \in T
  <2>1. left[0] = <<>>
    BY <1>0, <1>3
  <2>2. \A x : ~In(x, <<>>) /\ ~\E i \in 1 .. 0 : seq[i] = x
    OBVIOUS
  <2>3. <<>> \in Seq(S)
    OBVIOUS
  <2> HIDE DEF In
  <2> QED
    BY <2>1, <2>2, <2>3
<1>5. ASSUME NEW n \in T PROVE n + 1 \in T
  <2> SUFFICES ASSUME n + 1 <= Len(seq) PROVE Is(n + 1)
    OBVIOUS
  <2> HIDE DEF In
  <2>1. n \in Nat /\ n + 1 \in 1 .. Len(seq) /\ (n + 1) - 1 = n /\ n + 1 # 0 /\ Is(n)
    BY <1>0
  <2>2. left[n + 1] = IF seq[n + 1] \in gone THEN left[n] ELSE Append(left[n], seq[n + 1])
    BY <1>3, <2>1
  <2>3. \A x : (\E i \in 1 .. n + 1 : seq[i] = x) <=>
               (\E i \in 1 .. n : seq[i] = x) \/ x = seq[n + 1]
    BY <2>1
  <2>4. CASE seq[n + 1] \in gone
    BY <2>1, <2>2, <2>3, <2>4
  <2>5. CASE seq[n + 1] \notin gone
    <3> DEFINE e == seq[n + 1]
               l == left[n]
    <3>1. left[n + 1] = Append(l, e) /\ l \in Seq(S) /\ e \in S
      BY <1>0, <2>1, <2>2, <2>5
    <3>2. \A x : In(x, left[n + 1]) <=> In(x, l) \/ x = e
      <4> HIDE DEF e, l
      <4>1. Len(Append(l, e)) = Len(l) + 1 /\ Append(l, e)[Len(l) + 1] = e
            /\ (\A k \in 1 .. Len(l) : Append(l, e)[k] = l[k]) /\ Len(l) \in Nat
        BY <3>1
      <4> QED
        BY <3>1, <4>1 DEF In
    <3> QED
      BY <2>1, <2>3, <2>5, <3>1, <3>2
  <2> QED
    BY <2>4, <2>5
<1>6. Is(Len(seq))
  <2>1. T \in SUBSET Nat
    OBVIOUS
  <2> HIDE DEF T, Is
  <2>2. T = Nat
    BY <1>4, <1>5, <2>1, SetInduction
  <2>3. Len(seq) \in T
    BY <1>0, <2>2
  <2> QED
    BY <1>0, <2>3 DEF T
<1>7. \A x : In(x, seq) <=> x \in ToSet(seq)
  BY DEF ToSet
<1>8. \A x : In(x, left[Len(seq)]) <=> x \in ToSet(left[Len(seq)])
  BY <1>6 DEF ToSet
<1> QED
  BY <1>0, <1>2, <1>6, <1>7, <1>8

\* Entries of lists that grow, shrink and are joined.
LEMMA ElementsOfLists ==
  ASSUME NEW S, NEW s \in Seq(S)
  PROVE  /\ ToSet(<<>>) = {}
         /\ ToSet(s) \subseteq S
         /\ \A e \in S : ToSet(Append(s, e)) = ToSet(s) \cup {e}
         /\ \A t \in Seq(S) : ToSet(s \o t) = ToSet(s) \cup ToSet(t)
         /\ s # <<>> => /\ Head(s) \in S /\ Tail(s) \in Seq(S)
                        /\ ToSet(s) = {Head(s)} \cup ToSet(Tail(s))
<1>1. ToSet(<<>>) = {} /\ ToSet(s) \subseteq S
  BY DEF ToSet
<1>2. ASSUME NEW e \in S PROVE ToSet(Append(s, e)) = ToSet(s) \cup {e}
  <2>1. /\ Len(Append(s, e)) = Len(s) + 1 /\ Append(s, e)[Len(s) + 1] = e
        /\ \A k \in 1 .. Len(s) : Append(s, e)[k] = s[k]
    OBVIOUS
  <2> QED
    BY <2>1 DEF ToSet
<1>3. ASSUME NEW t \in Seq(S) PROVE ToSet(s \o t) = ToSet(s) \cup ToSet(t)
  <2>1. /\ DOMAIN (s \o t) = 1 .. Len(s) + Len(t)
        /\ \A k \in 1 .. Len(s) : (s \o t)[k] = s[k]
        /\ \A k \in 1 .. Len(t) : (s \o t)[Len(s) + k] = t[k]
    OBVIOUS
  <2>2. ASSUME NEW k \in 1 .. Len(s) + Len(t) PROVE (s \o t)[k] \in ToSet(s) \cup ToSet(t)
    <3>1. CASE k <= Len(s)
      BY <2>1, <3>1 DEF ToSet
    <3>2. CASE k > Len(s)
      <4>1. k - Len(s) \in 1 .. Len(t) /\ Len(s) + (k - Len(s)) = k
        BY <3>2
      <4>2. (s \o t)[k] = t[k - Len(s)]
        BY <2>1, <4>1
      <4> QED
        BY <4>1, <4>2 DEF ToSet
    <3> QED
      BY <3>1, <3>2
  <2>3. ASSUME NEW k \in 1 .. Len(s) PROVE s[k] \in ToSet(s \o t)
    <3>1. k \in 1 .. Len(s) + Len(t)
      OBVIOUS
    <3> QED
      BY <2>1, <3>1 DEF ToSet
  <2>4. ASSUME NEW k \in 1 .. Len(t) PROVE t[k] \in ToSet(s \o t)
    <3>1. Len(s) + k \in 1 .. Len(s) + Len(t)
      OBVIOUS
    <3> QED
      BY <2>1, <3>1 DEF ToSet
  <2>5. ToSet(s \o t) \subseteq ToSet(s) \cup ToSet(t)
    BY <2>1, <2>2 DEF ToSet
  <2>6. \A l \in Seq(S) : \A x : x \in ToSet(l) <=> \E k \in 1 .. Len(l) : x = l[k]
    BY DEF ToSet
  <2>7. ToSet(s) \subseteq ToSet(s \o t)
    BY <2>3, <2>6
  <2>8. ToSet(t) \subseteq ToSet(s \o t)
    BY <2>4, <2>6
  <2> QED
    BY <2>5, <2>7, <2>8
<1>4. ASSUME s # <<>>
      PROVE  /\ Head(s) \in S /\ Tail(s) \in Seq(S)
             /\ ToSet(s) = {Head(s)} \cup ToSet(Tail(s))
  <2>1. /\ Head(s) = s[1] /\ Head(s) \in S /\ Tail(s) \in Seq(S)
        /\ Len(s) \in Nat \ {0} /\ Len(Tail(s)) = Len(s) - 1
        /\ \A k \in 1 .. Len(Tail(s)) : Tail(s)[k] = s[k + 1]
    BY <1>4
  <2>2. ASSUME NEW k \in 1 .. Len(s) PROVE s[k] \in {Head(s)} \cup ToSet(Tail(s))
    <3>1. CASE k = 1
      BY <2>1, <3>1
    <3>2. CASE k # 1
      <4>1. k - 1 \in 1 .. Len(Tail(s)) /\ (k - 1) + 1 = k
        BY <2>1, <3>2
      <4>2. Tail(s)[k - 1] = s[k]
        BY <2>1, <4>1
      <4>3. k - 1 \in DOMAIN Tail(s)
        BY <2>1, <4>1
      <4>4. Tail(s)[k - 1] \in ToSet(Tail(s))
        BY <4>3 DEF ToSet
      <4> QED
        BY <4>2, <4>4
    <3> QED
      BY <3>1, <3>2
  <2>3. ASSUME NEW k \in 1 .. Len(Tail(s)) PROVE Tail(s)[k] \in ToSet(s)
    <3>1. k + 1 \in 1 .. Len(s)
      BY <2>1
    <3> QED
      BY <2>1, <3>1 DEF ToSet
  <2>4. Head(s) \in ToSet(s)
    BY <2>1 DEF ToSet
  <2>5. ToSet(s) \subseteq {Head(s)} \cup ToSet(Tail(s))
    BY <2>2 DEF ToSet
  <2>6. ToSet(Tail(s)) \subseteq ToSet(s)
    BY <2>3 DEF ToSet
  <2> QED
    BY <2>1, <2>4, <2>5, <2>6
<1> QED
  BY <1>1, <1>2, <1>3, <1>4

\* The first n entries.
FirstOf(s, n) == {s[i] : i \in 1 .. n}

\* No entry occurs twice.
EachOnce(s) == \A i, j \in 1 .. Len(s) : s[i] = s[j] => i = j

\* When exactly the first k entries are gone, the others are left in their
\* order.
LEMMA DroppingFront ==
  ASSUME NEW S, NEW seq \in Seq(S), NEW k \in 0 .. Len(seq), NEW gone,
         \A i \in 1 .. Len(seq) : seq[i] \in gone <=> i <= k
  PROVE  Dropping(seq, gone) = SubSeq(seq, k + 1, Len(seq))
<1> DEFINE left == CHOOSE f : Recurs(f, seq, gone)
           Is(n) == left[n] = SubSeq(seq, k + 1, n)
           T == {n \in Nat : n <= Len(seq) => Is(n)}
<1>0. Len(seq) \in Nat /\ k \in Nat
  OBVIOUS
<1>1. Recurs(left, seq, gone)
  <2>1. \E f : Recurs(f, seq, gone)
    BY DroppingExists
  <2> QED
    BY ONLY <2>1
<1>2. Dropping(seq, gone) = left[Len(seq)]
  BY DEF Dropping, Recurs
<1> HIDE DEF left
<1>3. \A n \in 0 .. Len(seq) :
        left[n] = IF n = 0 THEN <<>>
                  ELSE IF seq[n] \in gone THEN left[n - 1] ELSE Append(left[n - 1], seq[n])
  BY <1>1, Zenon DEF Recurs
<1>4. 0 \in T
  <2>1. left[0] = <<>>
    BY <1>0, <1>3
  <2>2. SubSeq(seq, k + 1, 0) = <<>>
    BY <1>0, SubSeqEmpty
  <2> QED
    BY <2>1, <2>2
<1>5. ASSUME NEW n \in T PROVE n + 1 \in T
  <2> SUFFICES ASSUME n + 1 <= Len(seq) PROVE Is(n + 1)
    OBVIOUS
  <2>1. n \in Nat /\ n + 1 \in 1 .. Len(seq) /\ (n + 1) - 1 = n /\ n + 1 # 0 /\ Is(n)
    BY <1>0
  <2>2. left[n + 1] = IF n + 1 <= k THEN left[n] ELSE Append(left[n], seq[n + 1])
    <3>1. n + 1 \in 0 .. Len(seq) /\ (seq[n + 1] \in gone <=> n + 1 <= k)
      BY <2>1
    <3>2. left[n + 1] = IF n + 1 = 0 THEN <<>>
                        ELSE IF seq[n + 1] \in gone
                             THEN left[(n + 1) - 1]
                             ELSE Append(left[(n + 1) - 1], seq[n + 1])
      BY <1>3, <3>1
    <3> QED
      BY <2>1, <3>1, <3>2
  <2>3. CASE n + 1 <= k
    <3>1. SubSeq(seq, k + 1, n) = <<>> /\ SubSeq(seq, k + 1, n + 1) = <<>>
      BY <1>0, <2>1, <2>3, SubSeqEmpty
    <3> QED
      BY <2>1, <2>2, <2>3, <3>1
  <2>4. CASE k < n + 1
    <3>1. SubSeq(seq, k + 1, n + 1) = SubSeq(seq, k + 1, n) \o <<seq[n + 1]>>
      <4>1. k + 1 \in 1 .. Len(seq) /\ n + 1 \in (k + 1) .. Len(seq)
        BY <1>0, <2>1, <2>4
      <4>2. SubSeq(seq, k + 1, n + 1) = SubSeq(seq, k + 1, (n + 1) - 1) \o <<seq[n + 1]>>
        BY <4>1, SubSeqRecursiveSecond
      <4> QED
        BY <2>1, <4>2
    <3>2. SubSeq(seq, k + 1, n) \in Seq(S) /\ seq[n + 1] \in S
      <4>1. k + 1 \in Int /\ n \in Int /\ \A i \in k + 1 .. n : seq[i] \in S
        BY <1>0, <2>1
      <4>2. SubSeq(seq, k + 1, n) \in Seq(S)
        BY <4>1, SubSeqProperties
      <4> QED
        BY <2>1, <4>2
    <3> DEFINE before == SubSeq(seq, k + 1, n)
               e == seq[n + 1]
    <3>3. left[n + 1] = Append(before, e)
      BY <1>0, <2>1, <2>2, <2>4
    <3> HIDE DEF before, e
    <3>4. Append(before, e) = before \o <<e>>
      BY <3>2, AppendIsConcat DEF before, e
    <3> QED
      BY <3>1, <3>3, <3>4 DEF before, e
  <2> QED
    BY <1>0, <2>1, <2>3, <2>4
<1>6. Is(Len(seq))
  <2>1. T \in SUBSET Nat
    OBVIOUS
  <2> HIDE DEF T, Is
  <2>2. T = Nat
    BY <1>4, <1>5, <2>1, SetInduction
  <2>3. Len(seq) \in T
    BY <1>0, <2>2
  <2> QED
    BY <1>0, <2>3 DEF T
<1> QED
  BY <1>2, <1>6

\* What comes first in a joined list.
LEMMA PrefixOfJoined ==
  ASSUME NEW S, NEW s \in Seq(S), NEW t \in Seq(S) PROVE IsPrefix(s, s \o t)
<1>1. s \o t \in Seq(S) /\ Len(s \o t) = Len(s) + Len(t) /\ Len(s) \in Nat /\ Len(t) \in Nat
      /\ \A i \in 1 .. Len(s) : (s \o t)[i] = s[i]
  OBVIOUS
<1>2. SubSeq(s, 1, Len(s)) = s
  BY SubSeqFull
<1>3. SubSeq(s \o t, 1, Len(s)) = s
  <2>1. /\ SubSeq(s \o t, 1, Len(s)) \in Seq(S)
        /\ Len(SubSeq(s \o t, 1, Len(s))) = IF 1 <= Len(s) THEN (Len(s) - 1) + 1 ELSE 0
        /\ \A i \in 1 .. (Len(s) - 1) + 1 :
             SubSeq(s \o t, 1, Len(s))[i] = (s \o t)[(1 + i) - 1]
    <3>1. 1 \in Int /\ Len(s) \in Int /\ \A i \in 1 .. Len(s) : (s \o t)[i] \in S
      BY <1>1
    <3> DEFINE u == s \o t
    <3> HIDE DEF u
    <3>2. \A i \in 1 .. Len(s) : u[i] \in S
      BY <3>1 DEF u
    <3>3. /\ SubSeq(u, 1, Len(s)) \in Seq(S)
          /\ Len(SubSeq(u, 1, Len(s))) = IF 1 <= Len(s) THEN (Len(s) - 1) + 1 ELSE 0
          /\ \A i \in 1 .. (Len(s) - 1) + 1 : SubSeq(u, 1, Len(s))[i] = u[(1 + i) - 1]
      BY <3>1, <3>2, SubSeqProperties
    <3> QED
      BY <3>3 DEF u
  <2> DEFINE p == SubSeq(s \o t, 1, Len(s))
  <2>2. p \in Seq(S) /\ Len(p) = Len(s) /\ \A i \in 1 .. Len(p) : p[i] = s[i]
    BY <1>1, <2>1
  <2> HIDE DEF p
  <2>3. p = s
    BY <2>2, SeqEqual
  <2> QED
    BY <2>3 DEF p
<1> QED
  BY <1>1, <1>2, <1>3 DEF IsPrefix

\* Lists without an entry that occurs twice.
LEMMA DistinctJoined ==
  ASSUME NEW S, NEW s \in Seq(S), NEW t \in Seq(S), EachOnce(s), EachOnce(t),
         ToSet(s) \cap ToSet(t) = {}
  PROVE  EachOnce(s \o t)
<1> DEFINE u == s \o t
<1>1. /\ Len(u) = Len(s) + Len(t) /\ Len(s) \in Nat /\ Len(t) \in Nat
      /\ \A i \in 1 .. Len(s) : u[i] = s[i] /\ s[i] \in ToSet(s)
      /\ \A i \in Len(s) + 1 .. Len(s) + Len(t) :
           i - Len(s) \in 1 .. Len(t) /\ u[i] = t[i - Len(s)] /\ t[i - Len(s)] \in ToSet(t)
  <2>1. \A i \in Len(s) + 1 .. Len(s) + Len(t) :
          i - Len(s) \in 1 .. Len(t) /\ u[i] = t[i - Len(s)]
    OBVIOUS
  <2> QED
    BY <2>1 DEF ToSet
<1> HIDE DEF u
<1>2. ASSUME NEW i \in 1 .. Len(u), NEW j \in 1 .. Len(u), u[i] = u[j] PROVE i = j
  <2>1. CASE i <= Len(s) /\ j <= Len(s)
    <3>1. s[i] = s[j] /\ i \in 1 .. Len(s) /\ j \in 1 .. Len(s)
      BY <1>1, <1>2, <2>1
    <3> QED
      BY <3>1 DEF EachOnce
  <2>2. CASE i > Len(s) /\ j > Len(s)
    <3> DEFINE k == i - Len(s)
               l == j - Len(s)
    <3>1. i \in Len(s) + 1 .. Len(s) + Len(t) /\ j \in Len(s) + 1 .. Len(s) + Len(t)
      BY <1>1, <2>2
    <3>2. t[k] = t[l] /\ k \in 1 .. Len(t) /\ l \in 1 .. Len(t)
      BY <1>1, <1>2, <3>1
    <3>3. k = l
      BY <3>2 DEF EachOnce
    <3> QED
      BY <1>1, <3>3
  <2>3. ASSUME NEW a \in 1 .. Len(s), NEW b \in Len(s) + 1 .. Len(s) + Len(t)
        PROVE  u[a] # u[b]
    BY <1>1
  <2> QED
    BY <1>1, <1>2, <2>1, <2>2, <2>3
<1> QED
  BY <1>2 DEF EachOnce, u

LEMMA DistinctOne ==
  ASSUME NEW S, NEW e \in S
  PROVE  <<e>> \in Seq(S) /\ EachOnce(<<e>>) /\ ToSet(<<e>>) = {e}
<1>1. <<e>> \in Seq(S) /\ Len(<<e>>) = 1 /\ <<e>>[1] = e /\ DOMAIN <<e>> = {1}
  OBVIOUS
<1>2. EachOnce(<<e>>)
  BY <1>1 DEF EachOnce
<1>3. ToSet(<<e>>) = {e}
  BY <1>1 DEF ToSet
<1> QED
  BY <1>1, <1>2, <1>3

LEMMA DistinctMore ==
  ASSUME NEW S, NEW s \in Seq(S), NEW e \in S \ ToSet(s), EachOnce(s)
  PROVE  EachOnce(Append(s, e))
<1>1. EachOnce(s \o <<e>>)
  <2> DEFINE t == <<e>>
  <2>1. t \in Seq(S) /\ EachOnce(t) /\ ToSet(t) = {e}
    BY DistinctOne
  <2> HIDE DEF t
  <2>2. EachOnce(s \o t)
    BY <2>1, DistinctJoined
  <2> QED
    BY <2>2 DEF t
<1>2. Append(s, e) = s \o <<e>>
  BY AppendIsConcat
<1> QED
  BY <1>1, <1>2

\* What is behind the first k entries: none of them.
LEMMA DistinctRest ==
  ASSUME NEW S, NEW s \in Seq(S), EachOnce(s), NEW k \in 0 .. Len(s)
  PROVE  /\ SubSeq(s, k + 1, Len(s)) \in Seq(S)
         /\ EachOnce(SubSeq(s, k + 1, Len(s)))
         /\ ToSet(SubSeq(s, k + 1, Len(s))) = ToSet(s) \ FirstOf(s, k)
<1> DEFINE r == SubSeq(s, k + 1, Len(s))
<1>0. Len(s) \in Nat /\ k \in Nat
  OBVIOUS
<1>1. r \in Seq(S) /\ Len(r) = Len(s) - k /\ \A i \in 1 .. Len(s) - k : r[i] = s[k + i]
  <2>1. k + 1 \in Int /\ Len(s) \in Int /\ \A i \in k + 1 .. Len(s) : s[i] \in S
    BY <1>0
  <2>2. /\ r \in Seq(S)
        /\ Len(r) = IF k + 1 <= Len(s) THEN (Len(s) - (k + 1)) + 1 ELSE 0
        /\ \A i \in 1 .. (Len(s) - (k + 1)) + 1 : r[i] = s[((k + 1) + i) - 1]
    BY <2>1, SubSeqProperties
  <2> HIDE DEF r
  <2> QED
    BY <1>0, <2>2
<1> HIDE DEF r
<1>2. EachOnce(r)
  <2>1. ASSUME NEW i \in 1 .. Len(r), NEW j \in 1 .. Len(r), r[i] = r[j] PROVE i = j
    <3>1. s[k + i] = s[k + j] /\ k + i \in 1 .. Len(s) /\ k + j \in 1 .. Len(s)
      BY <1>0, <1>1, <2>1
    <3>2. k + i = k + j
      BY <3>1 DEF EachOnce
    <3> QED
      BY <1>0, <1>1, <3>2
  <2> QED
    BY <2>1 DEF EachOnce
<1>3. \A x : x \in ToSet(r) <=> \E i \in 1 .. Len(r) : x = r[i]
  BY <1>1 DEF ToSet
<1>4. \A x : x \in ToSet(s) <=> \E i \in 1 .. Len(s) : x = s[i]
  BY DEF ToSet
<1>5. ASSUME NEW i \in 1 .. Len(r) PROVE r[i] \in ToSet(s) \ FirstOf(s, k)
  <2>1. r[i] = s[k + i] /\ k + i \in 1 .. Len(s)
    BY <1>0, <1>1
  <2>2. ASSUME NEW j \in 1 .. k, s[j] = s[k + i] PROVE FALSE
    <3>1. j \in 1 .. Len(s) /\ j # k + i
      BY <1>0, <1>1
    <3> QED
      BY <2>1, <2>2, <3>1 DEF EachOnce
  <2> QED
    BY <1>4, <2>1, <2>2 DEF FirstOf
<1>6. ASSUME NEW x \in ToSet(s) \ FirstOf(s, k) PROVE x \in ToSet(r)
  <2>1. PICK i \in 1 .. Len(s) : x = s[i]
    BY <1>4
  <2>2. i > k
    BY <1>0, <2>1 DEF FirstOf
  <2>3. i - k \in 1 .. Len(r) /\ k + (i - k) = i
    BY <1>0, <1>1, <2>2
  <2>4. r[i - k] = x
    BY <1>1, <2>1, <2>3
  <2> QED
    BY <1>3, <2>3, <2>4
<1>7. ToSet(r) = ToSet(s) \ FirstOf(s, k)
  BY <1>3, <1>5, <1>6
<1> QED
  BY <1>1, <1>2, <1>7 DEF r

\* The list without its head.
LEMMA DistinctTail ==
  ASSUME NEW S, NEW s \in Seq(S), EachOnce(s), s # <<>>
  PROVE  EachOnce(Tail(s)) /\ Head(s) \notin ToSet(Tail(s))
<1>1. Tail(s) = SubSeq(s, 2, Len(s))
  BY TailIsSubSeq
<1>2. 1 \in 0 .. Len(s) /\ Head(s) = s[1]
  OBVIOUS
<1>3. EachOnce(SubSeq(s, 2, Len(s)))
      /\ ToSet(SubSeq(s, 2, Len(s))) = ToSet(s) \ FirstOf(s, 1)
  <2>1. EachOnce(SubSeq(s, 1 + 1, Len(s)))
        /\ ToSet(SubSeq(s, 1 + 1, Len(s))) = ToSet(s) \ FirstOf(s, 1)
    BY <1>2, DistinctRest
  <2>2. 1 + 1 = 2
    OBVIOUS
  <2> QED
    BY <2>1, <2>2
<1>4. s[1] \in FirstOf(s, 1)
  BY DEF FirstOf
<1> QED
  BY <1>1, <1>2, <1>3, <1>4

================================================================================
