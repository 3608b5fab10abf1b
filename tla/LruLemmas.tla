------------------------------- MODULE LruLemmas -------------------------------
(***************************************************************************)
(* What the operations of the LRU lists and the queues do to a sequence:   *)
(* push at the front (Cons) and at the back (Append), pop at the back      *)
(* (Last, Front) and at the front (Head, Tail) and removal of a member     *)
(* (RemoveFirst), each by what it returns, which elements are left and,    *)
(* for the lists, that nothing is doubled.                                 *)
(***************************************************************************)
EXTENDS Integers, SequencesExt, SequenceTheorems, TLAPS

(* A sequence's elements, one way and the other. *)
LEMMA ToSetElements ==
  ASSUME NEW S, NEW s \in Seq(S)
  PROVE  /\ ToSet(s) \subseteq S
         /\ \A i \in 1 .. Len(s) : s[i] \in ToSet(s)
         /\ \A x \in ToSet(s) : \E i \in 1 .. Len(s) : s[i] = x
         /\ Len(s) \in Nat
         /\ DOMAIN s = 1 .. Len(s)
         /\ Len(s) = 0 <=> ToSet(s) = {}
<1>1. Len(s) \in Nat /\ DOMAIN s = 1 .. Len(s) /\ \A i \in 1 .. Len(s) : s[i] \in S
  OBVIOUS
<1>2. Len(s) = 0 <=> ToSet(s) = {}
  <2>1. Len(s) # 0 => 1 \in 1 .. Len(s)
    BY <1>1
  <2>2. Len(s) = 0 => 1 .. Len(s) = {}
    OBVIOUS
  <2> QED
    BY <1>1, <2>1, <2>2 DEF ToSet
<1> QED
  BY <1>1, <1>2 DEF ToSet

LEMMA ToSetEmpty == ToSet(<<>>) = {} /\ IsInjective(<<>>)
  BY DEF ToSet, IsInjective

(* list.push_front *)
LEMMA ConsProperties ==
  ASSUME NEW S, NEW s \in Seq(S), NEW e \in S
  PROVE  /\ Cons(e, s) \in Seq(S)
         /\ ToSet(Cons(e, s)) = ToSet(s) \cup {e}
         /\ IsInjective(s) /\ e \notin ToSet(s) => IsInjective(Cons(e, s))
<1> DEFINE c == Cons(e, s)
<1>1. <<e>> \in Seq(S) /\ Len(<<e>>) = 1 /\ <<e>>[1] = e
  OBVIOUS
<1>2. /\ c \in Seq(S)
      /\ Len(c) = Len(s) + 1
      /\ \A i \in 1 .. Len(s) + 1 : c[i] = IF i <= 1 THEN e ELSE s[i - 1]
  <2>1. /\ <<e>> \o s \in Seq(S)
        /\ Len(<<e>> \o s) = Len(<<e>>) + Len(s)
        /\ \A i \in 1 .. Len(<<e>>) + Len(s) :
             (<<e>> \o s)[i] = IF i <= Len(<<e>>) THEN <<e>>[i] ELSE s[i - Len(<<e>>)]
    BY <1>1, ConcatProperties
  <2> QED
    BY <1>1, <2>1, ToSetElements DEF Cons
<1> HIDE DEF c
<1>3. DOMAIN c = 1 .. Len(s) + 1 /\ DOMAIN s = 1 .. Len(s) /\ Len(s) \in Nat
  BY <1>2
<1>4. c[1] = e /\ \A i \in 1 .. Len(s) : i + 1 \in DOMAIN c /\ c[i + 1] = s[i]
  BY <1>2, <1>3
<1>5. ToSet(c) = ToSet(s) \cup {e}
  <2>1. ASSUME NEW x \in ToSet(c) PROVE x \in ToSet(s) \cup {e}
    <3>1. PICK i \in 1 .. Len(s) + 1 : c[i] = x
      BY <2>1, <1>3 DEF ToSet
    <3>2. CASE i = 1
      BY <3>1, <3>2, <1>4
    <3>3. CASE i # 1
      <4>1. i - 1 \in 1 .. Len(s) /\ x = s[i - 1]
        BY <3>1, <3>3, <1>2, <1>3
      <4> QED
        BY <4>1, <1>3 DEF ToSet
    <3> QED
      BY <3>2, <3>3
  <2>2. ASSUME NEW x \in ToSet(s) \cup {e} PROVE x \in ToSet(c)
    <3>1. CASE x = e
      BY <3>1, <1>3, <1>4 DEF ToSet
    <3>2. CASE x \in ToSet(s)
      BY <3>2, <1>3, <1>4 DEF ToSet
    <3> QED
      BY <2>2, <3>1, <3>2
  <2> QED
    BY <2>1, <2>2
<1>6. ASSUME IsInjective(s), e \notin ToSet(s) PROVE IsInjective(c)
  <2> SUFFICES ASSUME NEW i \in 1 .. Len(s) + 1, NEW j \in 1 .. Len(s) + 1, c[i] = c[j]
               PROVE  i = j
    BY <1>3 DEF IsInjective
  <2>1. \A k \in 1 .. Len(s) : s[k] # e
    BY <1>6, <1>3 DEF ToSet
  <2>2. CASE i = 1 \/ j = 1
    BY <2>1, <2>2, <1>2, <1>3
  <2>3. CASE i # 1 /\ j # 1
    <3>1. i - 1 \in DOMAIN s /\ j - 1 \in DOMAIN s /\ s[i - 1] = s[j - 1]
      BY <2>3, <1>2, <1>3
    <3> QED
      BY <3>1, <1>6, <1>3 DEF IsInjective
  <2> QED
    BY <2>2, <2>3
<1> QED
  BY <1>2, <1>5, <1>6 DEF c

(* list.back and list.pop_back *)
LEMMA FrontLastProperties ==
  ASSUME NEW S, NEW s \in Seq(S), Len(s) > 0, IsInjective(s)
  PROVE  /\ Last(s) \in ToSet(s)
         /\ Front(s) \in Seq(S)
         /\ ToSet(Front(s)) = ToSet(s) \ {Last(s)}
         /\ IsInjective(Front(s))
<1> DEFINE f == Front(s)
<1>1. /\ f \in Seq(S)
      /\ Len(f) = Len(s) - 1
      /\ \A i \in 1 .. Len(s) - 1 : f[i] = s[i]
  <2>1. Len(s) \in Nat /\ \A i \in 1 .. Len(s) - 1 : s[i] \in S
    OBVIOUS
  <2>2. /\ SubSeq(s, 1, Len(s) - 1) \in Seq(S)
        /\ Len(SubSeq(s, 1, Len(s) - 1)) =
             IF 1 <= Len(s) - 1 THEN (Len(s) - 1) - 1 + 1 ELSE 0
        /\ \A i \in 1 .. (Len(s) - 1) - 1 + 1 :
             SubSeq(s, 1, Len(s) - 1)[i] = s[1 + i - 1]
    BY <2>1, SubSeqProperties
  <2>3. Len(s) \in Nat \ {0} /\ (Len(s) - 1) - 1 + 1 = Len(s) - 1
    BY <2>1
  <2>4. \A i \in Int : 1 + i - 1 = i
    OBVIOUS
  <2>5. Len(SubSeq(s, 1, Len(s) - 1)) = Len(s) - 1
    BY <2>2, <2>3
  <2>6. ASSUME NEW i \in 1 .. Len(s) - 1
        PROVE  SubSeq(s, 1, Len(s) - 1)[i] = s[i]
    BY <2>2, <2>3, <2>4
  <2> QED
    BY <2>2, <2>5, <2>6 DEF Front
<1> HIDE DEF f
<1>2. DOMAIN f = 1 .. Len(s) - 1 /\ DOMAIN s = 1 .. Len(s) /\ Len(s) \in Nat \ {0}
  BY <1>1
<1>3. Last(s) \in ToSet(s)
  BY <1>2 DEF Last, ToSet
<1>4. IsInjective(f)
  BY <1>1, <1>2 DEF IsInjective
<1>5. ToSet(f) = ToSet(s) \ {Last(s)}
  <2>1. ASSUME NEW x \in ToSet(f) PROVE x \in ToSet(s) \ {Last(s)}
    <3>1. PICK i \in 1 .. Len(s) - 1 : f[i] = x
      BY <2>1, <1>2 DEF ToSet
    <3>2. i \in DOMAIN s /\ Len(s) \in DOMAIN s /\ i # Len(s) /\ s[i] = x
      BY <3>1, <1>1, <1>2
    <3> QED
      BY <3>2 DEF ToSet, Last, IsInjective
  <2>2. ASSUME NEW x \in ToSet(s) \ {Last(s)} PROVE x \in ToSet(f)
    <3>1. PICK i \in 1 .. Len(s) : s[i] = x
      BY <2>2, <1>2 DEF ToSet
    <3>2. i \in DOMAIN f /\ f[i] = x
      BY <3>1, <2>2, <1>1, <1>2 DEF Last
    <3> QED
      BY <3>2 DEF ToSet
  <2> QED
    BY <2>1, <2>2
<1> QED
  BY <1>1, <1>3, <1>4, <1>5 DEF f

(* list.remove: of an injective list it takes the one occurrence. *)
LEMMA RemoveFirstProperties ==
  ASSUME NEW S, NEW s \in Seq(S), NEW e, IsInjective(s)
  PROVE  /\ RemoveFirst(s, e) \in Seq(S)
         /\ ToSet(RemoveFirst(s, e)) = ToSet(s) \ {e}
         /\ IsInjective(RemoveFirst(s, e))
<1> DEFINE r == RemoveFirst(s, e)
<1>1. CASE ~ \E i \in 1 .. Len(s) : s[i] = e
  <2>1. r = s
    BY <1>1 DEF RemoveFirst
  <2>2. e \notin ToSet(s)
    BY <1>1 DEF ToSet
  <2> QED
    BY <2>1, <2>2
<1>2. CASE \E i \in 1 .. Len(s) : s[i] = e
  <2>1. PICK k \in 1 .. Len(s) : s[k] = e
    BY <1>2
  <2>2. Len(s) \in Nat /\ DOMAIN s = 1 .. Len(s)
    OBVIOUS
  <2>3. {i \in 1 .. Len(s) : s[i] = e} = {k}
    BY <2>1, <2>2 DEF IsInjective
  <2>4. r = SubSeq(s, 1, k - 1) \o SubSeq(s, k + 1, Len(s))
    <3>1. SelectInSeq(s, LAMBDA v : v = e) = k
      <4>1. Min({k}) = k
        BY <2>1, <2>2 DEF Min
      <4> QED
        BY <4>1, <2>3 DEF SelectInSeq
    <3> QED
      BY <3>1, <1>2 DEF RemoveFirst, RemoveAt
  <2> DEFINE p == SubSeq(s, 1, k - 1)
             q == SubSeq(s, k + 1, Len(s))
  <2>5. /\ p \in Seq(S) /\ Len(p) = k - 1 /\ \A i \in 1 .. k - 1 : p[i] = s[i]
        /\ q \in Seq(S) /\ Len(q) = Len(s) - k /\ \A i \in 1 .. Len(s) - k : q[i] = s[k + i]
    <3>1. p \in Seq(S) /\ Len(p) = k - 1 /\ \A i \in 1 .. k - 1 : p[i] = s[i]
      BY <2>1, <2>2
    <3>2. q \in Seq(S) /\ Len(q) = Len(s) - k /\ \A i \in 1 .. Len(s) - k : q[i] = s[k + i]
      <4>1. k + 1 \in Int /\ Len(s) \in Int /\ \A i \in k + 1 .. Len(s) : s[i] \in S
        BY <2>1, <2>2
      <4>2. /\ q \in Seq(S)
            /\ Len(q) = IF k + 1 <= Len(s) THEN Len(s) - (k + 1) + 1 ELSE 0
            /\ \A i \in 1 .. Len(s) - (k + 1) + 1 : q[i] = s[(k + 1) + i - 1]
        BY <4>1, SubSeqProperties
      <4>3. k \in Int /\ k <= Len(s) /\ Len(s) - (k + 1) + 1 = Len(s) - k
        BY <2>1, <2>2
      <4>4. \A i \in Int : (k + 1) + i - 1 = k + i
        BY <4>3
      <4>5. Len(q) = Len(s) - k
        <5>1. CASE k + 1 <= Len(s)
          BY <5>1, <4>2, <4>3
        <5>2. CASE ~(k + 1 <= Len(s))
          <6>1. \A m, n \in Int : m <= n /\ ~(m + 1 <= n) => n - m = 0
            BY SMTT(30)
          <6>2. Len(s) \in Int
            BY <4>1, Zenon
          <6>3. Len(s) - k = 0
            BY <5>2, <4>3, <6>1, <6>2
          <6> QED
            BY <6>3, <5>2, <4>2
        <5> QED
          BY <5>1, <5>2
      <4>6. ASSUME NEW i \in 1 .. Len(s) - k PROVE q[i] = s[k + i]
        BY <4>2, <4>3, <4>4
      <4> QED
        BY <4>2, <4>5, <4>6
    <3> QED
      BY <3>1, <3>2
  <2> HIDE DEF r, p, q
  <2>6. /\ r \in Seq(S)
        /\ Len(r) = Len(s) - 1
        /\ \A i \in 1 .. Len(s) - 1 : r[i] = IF i < k THEN s[i] ELSE s[i + 1]
    <3>1. /\ p \o q \in Seq(S)
          /\ Len(p \o q) = Len(p) + Len(q)
          /\ \A i \in 1 .. Len(p) + Len(q) :
               (p \o q)[i] = IF i <= Len(p) THEN p[i] ELSE q[i - Len(p)]
      BY <2>5, ConcatProperties
    <3>2. ASSUME NEW i \in 1 .. Len(s) - 1
          PROVE  (p \o q)[i] = IF i < k THEN s[i] ELSE s[i + 1]
      <4>1. CASE i < k
        BY <3>1, <2>5, <2>1, <2>2, <4>1
      <4>2. CASE ~(i < k)
        <5>1. i - (k - 1) \in 1 .. Len(s) - k /\ k + (i - (k - 1)) = i + 1
          BY <4>2, <2>1, <2>2
        <5>2. q[i - (k - 1)] = s[i + 1]
          BY <5>1, <2>5
        <5> QED
          BY <3>1, <2>5, <2>1, <2>2, <4>2, <5>2, SMTT(30)
      <4> QED
        BY <4>1, <4>2
    <3>3. r = p \o q
      BY <2>4 DEF p, q
    <3>4. Len(p) + Len(q) = Len(s) - 1
      BY <2>5, <2>1, <2>2
    <3> QED
      BY <3>1, <3>2, <3>3, <3>4
  <2>7. DOMAIN r = 1 .. Len(s) - 1
    BY <2>6
  <2>8. IsInjective(r)
    <3> DEFINE at(i) == IF i < k THEN i ELSE i + 1
    <3>1. \A i \in 1 .. Len(s) - 1 : at(i) \in 1 .. Len(s) /\ r[i] = s[at(i)]
      BY <2>1, <2>2, <2>6
    <3>2. \A i, j \in 1 .. Len(s) - 1 : at(i) = at(j) => i = j
      BY <2>1, <2>2
    <3> HIDE DEF at
    <3>3. \A m, n \in 1 .. Len(s) : s[m] = s[n] => m = n
      BY <2>2 DEF IsInjective
    <3> QED
      BY <2>7, <3>1, <3>2, <3>3, SMTT(30) DEF IsInjective
  <2>9. ToSet(r) = ToSet(s) \ {e}
    <3>1. ASSUME NEW x \in ToSet(r) PROVE x \in ToSet(s) \ {e}
      <4>1. PICK i \in 1 .. Len(s) - 1 : r[i] = x
        BY <3>1, <2>7 DEF ToSet
      <4>2. PICK j \in 1 .. Len(s) : j # k /\ s[j] = x
        <5>1. CASE i < k
          BY <5>1, <4>1, <2>6, <2>1, <2>2
        <5>2. CASE ~(i < k)
          BY <5>2, <4>1, <2>6, <2>1, <2>2
        <5> QED
          BY <5>1, <5>2
      <4> QED
        BY <4>2, <2>1, <2>2 DEF ToSet, IsInjective
    <3>2. ASSUME NEW x \in ToSet(s) \ {e} PROVE x \in ToSet(r)
      <4>1. PICK j \in 1 .. Len(s) : s[j] = x /\ j # k
        BY <3>2, <2>1, <2>2 DEF ToSet
      <4>2. PICK i \in 1 .. Len(s) - 1 : r[i] = x
        <5>1. CASE j < k
          BY <5>1, <4>1, <2>6, <2>1, <2>2
        <5>2. CASE j > k
          <6>1. j - 1 \in 1 .. Len(s) - 1 /\ ~(j - 1 < k) /\ (j - 1) + 1 = j
            BY <5>2, <2>1, <2>2
          <6> QED
            BY <6>1, <4>1, <2>6
        <5> QED
          BY <5>1, <5>2, <4>1, <2>1, <2>2
      <4> QED
        BY <4>2, <2>7 DEF ToSet
    <3> QED
      BY <3>1, <3>2
  <2> QED
    BY <2>6, <2>8, <2>9 DEF r
<1> QED
  BY <1>1, <1>2

(* list.back and list.pop_back, of a list in which something may be twice. *)
LEMMA BackElements ==
  ASSUME NEW S, NEW s \in Seq(S), s # <<>>
  PROVE  /\ Last(s) \in ToSet(s) /\ Front(s) \in Seq(S)
         /\ ToSet(Front(s)) \subseteq ToSet(s)
<1>1. Len(s) \in Nat \ {0} /\ DOMAIN s = 1 .. Len(s)
  OBVIOUS
<1>2. /\ Front(s) \in Seq(S) /\ Len(Front(s)) = Len(s) - 1
      /\ \A i \in 1 .. Len(s) - 1 : Front(s)[i] = s[i]
  BY <1>1 DEF Front
<1>3. DOMAIN Front(s) = 1 .. Len(s) - 1
  BY <1>2
<1> QED
  BY <1>1, <1>2, <1>3 DEF Last, ToSet

(* queue.push and vector.push_back *)
LEMMA AppendElements ==
  ASSUME NEW S, NEW s \in Seq(S), NEW e \in S
  PROVE  /\ Append(s, e) \in Seq(S)
         /\ ToSet(Append(s, e)) = ToSet(s) \cup {e}
         /\ IsInjective(s) /\ e \notin ToSet(s) => IsInjective(Append(s, e))
<1> DEFINE a == Append(s, e)
<1>1. Len(s) \in Nat /\ DOMAIN s = 1 .. Len(s)
  OBVIOUS
<1>2. /\ a \in Seq(S) /\ Len(a) = Len(s) + 1 /\ a[Len(s) + 1] = e
      /\ \A i \in 1 .. Len(s) : a[i] = s[i]
  OBVIOUS
<1> HIDE DEF a
<1>3. DOMAIN a = 1 .. Len(s) + 1
  BY <1>2
<1>4. ToSet(a) = ToSet(s) \cup {e}
  <2>1. ASSUME NEW x \in ToSet(a) PROVE x \in ToSet(s) \cup {e}
    <3>1. PICK i \in 1 .. Len(s) + 1 : a[i] = x
      BY <2>1, <1>3 DEF ToSet
    <3>2. i \in 1 .. Len(s) \/ i = Len(s) + 1
      BY <3>1, <1>1
    <3> QED
      BY <3>1, <3>2, <1>1, <1>2 DEF ToSet
  <2>2. ASSUME NEW x \in ToSet(s) PROVE x \in ToSet(a)
    <3>1. PICK i \in 1 .. Len(s) : s[i] = x
      BY <2>2, <1>1 DEF ToSet
    <3>2. i \in DOMAIN a /\ a[i] = x
      BY <3>1, <1>1, <1>2, <1>3
    <3> QED
      BY <3>2 DEF ToSet
  <2>3. e \in ToSet(a)
    BY <1>1, <1>2, <1>3 DEF ToSet
  <2> QED
    BY <2>1, <2>2, <2>3
<1>5. ASSUME IsInjective(s), e \notin ToSet(s) PROVE IsInjective(a)
  <2>1. \A i \in 1 .. Len(s) : s[i] # e
    BY <1>5, <1>1 DEF ToSet
  <2>2. SUFFICES ASSUME NEW i \in 1 .. Len(s) + 1, NEW j \in 1 .. Len(s) + 1, a[i] = a[j]
                 PROVE  i = j
    BY <1>3 DEF IsInjective
  <2>3. CASE i \in 1 .. Len(s) /\ j \in 1 .. Len(s)
    BY <2>2, <2>3, <1>1, <1>2, <1>5 DEF IsInjective
  <2>4. CASE i = Len(s) + 1 \/ j = Len(s) + 1
    BY <2>1, <2>2, <2>4, <1>1, <1>2
  <2> QED
    BY <2>3, <2>4, <1>1
<1> QED
  BY <1>2, <1>4, <1>5 DEF a

(* queue.front and queue.pop *)
LEMMA HeadTailElements ==
  ASSUME NEW S, NEW s \in Seq(S), s # <<>>
  PROVE  /\ Head(s) \in ToSet(s) /\ Tail(s) \in Seq(S)
         /\ ToSet(s) = ToSet(Tail(s)) \cup {Head(s)}
         /\ IsInjective(s) => IsInjective(Tail(s)) /\ Head(s) \notin ToSet(Tail(s))
<1>1. Len(s) \in Nat \ {0} /\ DOMAIN s = 1 .. Len(s) /\ Head(s) = s[1]
  OBVIOUS
<1>2. /\ Tail(s) \in Seq(S) /\ Len(Tail(s)) = Len(s) - 1
      /\ \A i \in 1 .. Len(s) - 1 : Tail(s)[i] = s[i + 1]
  OBVIOUS
<1>3. DOMAIN Tail(s) = 1 .. Len(s) - 1
  BY <1>2
<1>4. Head(s) \in ToSet(s)
  BY <1>1 DEF ToSet
<1>5. ASSUME NEW x \in ToSet(Tail(s)) PROVE \E i \in DOMAIN s : i # 1 /\ s[i] = x
  <2>1. PICK i \in 1 .. Len(s) - 1 : Tail(s)[i] = x
    BY <1>5, <1>3 DEF ToSet
  <2>2. i + 1 \in DOMAIN s /\ i + 1 # 1 /\ s[i + 1] = x
    BY <2>1, <1>1, <1>2
  <2> QED
    BY <2>2
<1>6. ASSUME NEW x \in ToSet(s), x # Head(s) PROVE x \in ToSet(Tail(s))
  <2>1. PICK i \in 1 .. Len(s) : s[i] = x
    BY <1>6, <1>1 DEF ToSet
  <2>2. i - 1 \in DOMAIN Tail(s) /\ Tail(s)[i - 1] = x
    BY <2>1, <1>1, <1>2, <1>3, <1>6
  <2> QED
    BY <2>2 DEF ToSet
<1>7. ToSet(s) = ToSet(Tail(s)) \cup {Head(s)}
  <2>1. ToSet(Tail(s)) \subseteq ToSet(s)
    BY <1>5 DEF ToSet
  <2> QED
    BY <2>1, <1>4, <1>6
<1>8. ASSUME IsInjective(s) PROVE IsInjective(Tail(s)) /\ Head(s) \notin ToSet(Tail(s))
  <2>1. Head(s) \notin ToSet(Tail(s))
    BY <1>1, <1>5, <1>8 DEF IsInjective
  <2>2. SUFFICES ASSUME NEW i \in 1 .. Len(s) - 1, NEW j \in 1 .. Len(s) - 1,
                        Tail(s)[i] = Tail(s)[j]
                 PROVE  i = j
    BY <1>3, <2>1 DEF IsInjective
  <2>3. i + 1 \in DOMAIN s /\ j + 1 \in DOMAIN s /\ s[i + 1] = s[j + 1]
    BY <2>2, <1>1, <1>2
  <2> QED
    BY <2>3, <1>1, <1>8 DEF IsInjective
<1> QED
  BY <1>2, <1>4, <1>7, <1>8

===============================================================================
