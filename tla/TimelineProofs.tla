--------------------------- MODULE TimelineProofs ---------------------------
(* What a timeline promises, proved for any set of tokens.                 *)
EXTENDS TimelineProperties, SequenceTheorems, FiniteSetTheorems, WellFoundedInduction, TLAPS

(* Sequences: what is in them once an element is put in or taken out.      *)
LEMMA TakenOut ==
  ASSUME NEW S, NEW q, NEW i,
         q \in Seq(S), i \in 1 .. Len(q)
  PROVE  /\ RemoveAt(q, i) \in Seq(S) /\ Len(RemoveAt(q, i)) = Len(q) - 1
         /\ \A j \in 1 .. Len(q) - 1 : RemoveAt(q, i)[j] = IF j < i THEN q[j] ELSE q[j + 1]
<1> DEFINE a == SubSeq(q, 1, i - 1)
           b == SubSeq(q, i + 1, Len(q))
<1>0. Len(q) \in Nat /\ i \in Nat /\ \A j \in 1 .. Len(q) : q[j] \in S
  BY LenProperties
<1>1. a \in Seq(S) /\ Len(a) = i - 1 /\ \A j \in 1 .. i - 1 : a[j] = q[j]
  <2>1. \A j \in 1 .. i - 1 : q[j] \in S
    BY <1>0
  <2>2. QED BY <1>0, <2>1, SubSeqProperties
<1>2. b \in Seq(S) /\ Len(b) = Len(q) - i /\ \A j \in 1 .. Len(q) - i : b[j] = q[i + j]
  <2>1. \A j \in i + 1 .. Len(q) : q[j] \in S
    BY <1>0
  <2>2. /\ b \in Seq(S) /\ Len(b) = IF i + 1 <= Len(q) THEN Len(q) - (i + 1) + 1 ELSE 0
        /\ \A j \in 1 .. Len(q) - (i + 1) + 1 : b[j] = q[i + 1 + j - 1]
    BY <1>0, <2>1, SubSeqProperties
  <2>3. QED BY <1>0, <2>2
<1> HIDE DEF a, b
<1>3. /\ a \o b \in Seq(S) /\ Len(a \o b) = Len(a) + Len(b)
      /\ \A j \in 1 .. Len(a) + Len(b) : (a \o b)[j] = IF j <= Len(a) THEN a[j] ELSE b[j - Len(a)]
  BY <1>1, <1>2, ConcatProperties
<1>4. RemoveAt(q, i) = a \o b
  BY DEF RemoveAt, a, b
<1>5. \A j \in 1 .. Len(q) - 1 : (a \o b)[j] = IF j < i THEN q[j] ELSE q[j + 1]
  <2> TAKE j \in 1 .. Len(q) - 1
  <2>1. CASE j < i
    <3>1. (a \o b)[j] = a[j] /\ a[j] = q[j]
      BY <2>1, <1>0, <1>1, <1>2, <1>3
    <3>2. QED BY <3>1, <2>1
  <2>2. CASE ~ (j < i)
    <3>1. j - Len(a) \in 1 .. Len(q) - i /\ i + (j - Len(a)) = j + 1
      BY <2>2, <1>0, <1>1
    <3>2. (a \o b)[j] = b[j - Len(a)] /\ b[j - Len(a)] = q[i + (j - Len(a))]
      BY <2>2, <3>1, <1>0, <1>1, <1>2, <1>3
    <3>3. QED BY <3>1, <3>2, <2>2
  <2>3. QED BY <2>1, <2>2
<1>6. a \o b \in Seq(S) /\ Len(a \o b) = Len(q) - 1
  BY <1>0, <1>1, <1>2, <1>3
<1>7. QED BY ONLY <1>4, <1>5, <1>6

LEMMA PutIn ==
  ASSUME NEW S, NEW q, NEW i, NEW e,
         q \in Seq(S), i \in 1 .. Len(q) + 1, e \in S
  PROVE  /\ InsertAt(q, i, e) \in Seq(S) /\ Len(InsertAt(q, i, e)) = Len(q) + 1
         /\ \A j \in 1 .. Len(q) + 1 :
              InsertAt(q, i, e)[j] = IF j < i THEN q[j] ELSE IF j = i THEN e ELSE q[j - 1]
<1> DEFINE a == SubSeq(q, 1, i - 1)
           b == SubSeq(q, i, Len(q))
           c == a \o <<e>>
<1>0. Len(q) \in Nat /\ i \in Nat /\ \A j \in 1 .. Len(q) : q[j] \in S
  BY LenProperties
<1>1. a \in Seq(S) /\ Len(a) = i - 1 /\ \A j \in 1 .. i - 1 : a[j] = q[j]
  <2>1. \A j \in 1 .. i - 1 : q[j] \in S
    BY <1>0
  <2>2. QED BY <1>0, <2>1, SubSeqProperties
<1>2. /\ b \in Seq(S) /\ Len(b) = Len(q) - i + 1
      /\ \A j \in 1 .. Len(q) - i + 1 : b[j] = q[i + j - 1]
  <2>1. \A j \in i .. Len(q) : q[j] \in S
    BY <1>0
  <2>2. QED BY <1>0, <2>1, SubSeqProperties
<1> HIDE DEF a, b
<1>3. /\ c \in Seq(S) /\ Len(c) = i
      /\ \A j \in 1 .. i : c[j] = IF j < i THEN a[j] ELSE e
  <2>1. <<e>> \in Seq(S) /\ Len(<<e>>) = 1 /\ <<e>>[1] = e
    OBVIOUS
  <2>2. /\ c \in Seq(S) /\ Len(c) = Len(a) + Len(<<e>>)
        /\ \A j \in 1 .. Len(a) + Len(<<e>>) : c[j] = IF j <= Len(a) THEN a[j] ELSE <<e>>[j - Len(a)]
    BY <1>1, <2>1, ConcatProperties
  <2>3. QED BY <1>0, <1>1, <2>1, <2>2
<1> HIDE DEF c
<1>4. /\ c \o b \in Seq(S) /\ Len(c \o b) = Len(c) + Len(b)
      /\ \A j \in 1 .. Len(c) + Len(b) : (c \o b)[j] = IF j <= Len(c) THEN c[j] ELSE b[j - Len(c)]
  BY <1>2, <1>3, ConcatProperties
<1>5. InsertAt(q, i, e) = c \o b
  BY DEF InsertAt, a, b, c
<1>6. \A j \in 1 .. Len(q) + 1 :
        (c \o b)[j] = IF j < i THEN q[j] ELSE IF j = i THEN e ELSE q[j - 1]
  <2> TAKE j \in 1 .. Len(q) + 1
  <2>1. CASE j < i
    <3>1. (c \o b)[j] = c[j] /\ c[j] = a[j] /\ a[j] = q[j]
      BY <2>1, <1>0, <1>1, <1>2, <1>3, <1>4
    <3>2. QED BY <3>1, <2>1
  <2>2. CASE j = i
    <3>1. (c \o b)[j] = c[j] /\ c[j] = e
      BY <2>2, <1>0, <1>2, <1>3, <1>4
    <3>2. QED BY <3>1, <2>2, <1>0
  <2>3. CASE j > i
    <3>1. j - Len(c) \in 1 .. Len(q) - i + 1 /\ i + (j - Len(c)) - 1 = j - 1
      BY <2>3, <1>0, <1>3
    <3>2. (c \o b)[j] = b[j - Len(c)] /\ b[j - Len(c)] = q[i + (j - Len(c)) - 1]
      BY <2>3, <3>1, <1>0, <1>2, <1>3, <1>4
    <3>3. ~ (j < i) /\ j # i
      BY <2>3, <1>0
    <3>4. QED BY <3>1, <3>2, <3>3
  <2>4. j < i \/ j = i \/ j > i
    BY <1>0
  <2>5. QED BY <2>1, <2>2, <2>3, <2>4
<1>7. c \o b \in Seq(S) /\ Len(c \o b) = Len(q) + 1
  BY <1>0, <1>2, <1>3, <1>4
<1>8. QED BY <1>5, <1>6, <1>7, Zenon

(* What is put in and taken out again leaves the sequence as it was.       *)
LEMMA PutInTakenOut ==
  ASSUME NEW S, NEW q, NEW i, NEW e,
         q \in Seq(S), i \in 1 .. Len(q) + 1, e \in S
  PROVE  RemoveAt(InsertAt(q, i, e), i) = q
<1> DEFINE r == InsertAt(q, i, e)
           b == RemoveAt(r, i)
<1>0. Len(q) \in Nat
  BY LenProperties
<1>1. /\ r \in Seq(S) /\ Len(r) = Len(q) + 1
      /\ \A j \in 1 .. Len(q) + 1 : r[j] = IF j < i THEN q[j] ELSE IF j = i THEN e ELSE q[j - 1]
  BY PutIn
<1> HIDE DEF r
<1>2. i \in 1 .. Len(r)
  BY <1>0, <1>1
<1>3. /\ b \in Seq(S) /\ Len(b) = Len(r) - 1
      /\ \A j \in 1 .. Len(r) - 1 : b[j] = IF j < i THEN r[j] ELSE r[j + 1]
  <2>1. r \in Seq(S)
    BY <1>1
  <2>2. QED BY ONLY <2>1, <1>2, TakenOut
<1> HIDE DEF b
<1>4. Len(b) = Len(q)
  BY <1>0, <1>1, <1>3
<1>5. ASSUME NEW j \in 1 .. Len(q) PROVE b[j] = q[j]
  <2>1. CASE j < i
    BY <2>1, <1>0, <1>1, <1>3
  <2>2. CASE ~ (j < i)
    <3>1. j + 1 \in 1 .. Len(q) + 1 /\ ~ (j + 1 < i) /\ j + 1 # i /\ (j + 1) - 1 = j
      BY <2>2, <1>0
    <3>2. r[j + 1] = q[j]
      BY <3>1, <1>1
    <3>3. QED BY <2>2, <3>2, <1>0, <1>1, <1>3
  <2>3. QED BY <2>1, <2>2
<1>6. b = q
  BY <1>3, <1>4, <1>5, SeqEqual
<1>7. QED BY <1>6 DEF b, r

LEMMA PutLast ==
  ASSUME NEW S, NEW q, NEW e,
         q \in Seq(S), e \in S
  PROVE  InsertAt(q, Len(q) + 1, e) = Append(q, e)
<1> DEFINE i == Len(q) + 1
           r == InsertAt(q, i, e)
<1>1. Len(q) \in Nat /\ i \in 1 .. Len(q) + 1
  BY LenProperties
<1>2. /\ r \in Seq(S) /\ Len(r) = Len(q) + 1
      /\ \A j \in 1 .. Len(q) + 1 : r[j] = IF j < i THEN q[j] ELSE IF j = i THEN e ELSE q[j - 1]
  BY <1>1, PutIn
<1> HIDE DEF r
<1>3. /\ Append(q, e) \in Seq(S) /\ Len(Append(q, e)) = Len(q) + 1
      /\ \A j \in 1 .. Len(q) : Append(q, e)[j] = q[j]
      /\ Append(q, e)[Len(q) + 1] = e
  BY AppendProperties
<1>4. \A j \in 1 .. Len(r) : r[j] = Append(q, e)[j]
  BY <1>1, <1>2, <1>3
<1>5. QED BY <1>2, <1>3, <1>4, SeqEqual DEF r

LEMMA PutFirst ==
  ASSUME NEW S, NEW p, NEW s,
         p \in S, s \in S
  PROVE  InsertAt(<< >>, 1, p) = <<p>> /\ InsertAt(<<p>>, 2, s) = <<p, s>>
<1> DEFINE none == << >>
           one == <<p>>
           two == <<p, s>>
<1>1. /\ none \in Seq(S) /\ one \in Seq(S) /\ two \in Seq(S)
      /\ Len(none) = 0 /\ Len(one) = 1 /\ Len(two) = 2
      /\ one[1] = p /\ two[1] = p /\ two[2] = s
  OBVIOUS
<1> HIDE DEF none, one, two
<1>2. InsertAt(none, 1, p) = one
  <2>1. InsertAt(none, 1, p) = Append(none, p)
    <3>1. InsertAt(none, Len(none) + 1, p) = Append(none, p)
      BY <1>1, PutLast, Zenon
    <3>2. Len(none) + 1 = 1
      BY <1>1
    <3>3. QED BY <3>1, <3>2
  <2>2. /\ Append(none, p) \in Seq(S) /\ Len(Append(none, p)) = Len(none) + 1
        /\ Append(none, p)[Len(none) + 1] = p
    BY <1>1, AppendProperties
  <2>3. QED BY <1>1, <2>1, <2>2, SeqEqual
<1>3. InsertAt(one, 2, s) = two
  <2>1. InsertAt(one, 2, s) = Append(one, s)
    <3>1. InsertAt(one, Len(one) + 1, s) = Append(one, s)
      BY <1>1, PutLast, Zenon
    <3>2. Len(one) + 1 = 2
      BY <1>1
    <3>3. QED BY <3>1, <3>2
  <2>2. /\ Append(one, s) \in Seq(S) /\ Len(Append(one, s)) = Len(one) + 1
        /\ Append(one, s)[Len(one) + 1] = s
        /\ \A j \in 1 .. Len(one) : Append(one, s)[j] = one[j]
    <3>1. one \in Seq(S) /\ s \in S
      BY <1>1
    <3>2. QED BY ONLY <3>1, AppendProperties
  <2> DEFINE q == Append(one, s)
  <2> HIDE DEF q
  <2>3. q \in Seq(S) /\ Len(q) = 2 /\ q[1] = p /\ q[2] = s
    <3>1. /\ q \in Seq(S) /\ Len(q) = Len(one) + 1 /\ q[Len(one) + 1] = s
          /\ \A j \in 1 .. Len(one) : q[j] = one[j]
      BY <2>2 DEF q
    <3>2. QED BY ONLY <1>1, <3>1
  <2>4. q = two
    BY <1>1, <2>3, SeqEqual
  <2>5. QED BY <2>1, <2>4 DEF q
<1>4. QED BY <1>2, <1>3 DEF none, one, two

ComesBefore(q, a, b) == \E i, j \in DOMAIN q : i < j /\ q[i] = a /\ q[j] = b

LEMMA TakenOutOfOrder ==
  ASSUME NEW S, NEW q, NEW i,
         q \in Seq(S), IsInjective(q), i \in 1 .. Len(q)
  PROVE  /\ RemoveAt(q, i) \in Seq(S) /\ IsInjective(RemoveAt(q, i))
         /\ ToSet(RemoveAt(q, i)) = ToSet(q) \ {q[i]}
         /\ \A a, b : ComesBefore(q, a, b) /\ q[i] \notin {a, b} => ComesBefore(RemoveAt(q, i), a, b)
<1> DEFINE r == RemoveAt(q, i)
           was(j) == IF j < i THEN j ELSE j + 1
           is(j) == IF j < i THEN j ELSE j - 1
<1>1. Len(q) \in Nat /\ DOMAIN q = 1 .. Len(q) /\ i \in Nat
  BY LenProperties
<1>2. /\ r \in Seq(S) /\ Len(r) = Len(q) - 1
      /\ \A j \in 1 .. Len(q) - 1 : r[j] = IF j < i THEN q[j] ELSE q[j + 1]
  BY TakenOut
<1> HIDE DEF r
<1>3. DOMAIN r = 1 .. Len(q) - 1
  BY <1>2, LenProperties
<1>4. \A j \in DOMAIN r : was(j) \in DOMAIN q /\ was(j) # i /\ r[j] = q[was(j)]
  BY <1>1, <1>2, <1>3
<1>5. \A j \in DOMAIN q : j # i => is(j) \in DOMAIN r /\ was(is(j)) = j
  BY <1>1, <1>3
<1>6. \A j \in DOMAIN q : j # i => is(j) \in DOMAIN r /\ r[is(j)] = q[j]
  BY <1>4, <1>5
<1>7. IsInjective(r)
  <2> SUFFICES ASSUME NEW j \in DOMAIN r, NEW k \in DOMAIN r, r[j] = r[k] PROVE j = k
    BY DEF IsInjective
  <2>1. was(j) = was(k)
    <3> HIDE DEF was
    <3> QED BY <1>4 DEF IsInjective
  <2>2. j \in Int /\ k \in Int
    BY <1>3
  <2>3. QED BY <2>1, <2>2, <1>1
<1>8. ToSet(r) = ToSet(q) \ {q[i]}
  <2> HIDE DEF was, is
  <2>1. \A j \in DOMAIN r : r[j] \in ToSet(q) /\ r[j] # q[i]
    BY <1>1, <1>4 DEF ToSet, IsInjective
  <2>2. \A j \in DOMAIN q : q[j] # q[i] => q[j] \in ToSet(r)
    BY <1>6 DEF ToSet
  <2>3. QED BY <2>1, <2>2 DEF ToSet
<1>9. ASSUME NEW a, NEW b, ComesBefore(q, a, b), q[i] \notin {a, b}
      PROVE  ComesBefore(r, a, b)
  <2>1. PICK j, k \in DOMAIN q : j < k /\ q[j] = a /\ q[k] = b
    BY <1>9 DEF ComesBefore
  <2>2. j # i /\ k # i
    BY <1>9, <2>1
  <2>3. is(j) < is(k)
    BY <1>1, <2>1, <2>2
  <2>4. is(j) \in DOMAIN r /\ is(k) \in DOMAIN r /\ r[is(j)] = a /\ r[is(k)] = b
    BY <1>6, <2>1, <2>2
  <2> HIDE DEF is
  <2>5. QED BY <2>3, <2>4 DEF ComesBefore
<1>10. QED BY <1>2, <1>7, <1>8, <1>9 DEF r

LEMMA PutInOrder ==
  ASSUME NEW S, NEW q, NEW i, NEW e,
         q \in Seq(S), IsInjective(q), i \in 1 .. Len(q) + 1, e \in S, e \notin ToSet(q)
  PROVE  /\ InsertAt(q, i, e) \in Seq(S) /\ IsInjective(InsertAt(q, i, e))
         /\ ToSet(InsertAt(q, i, e)) = ToSet(q) \cup {e}
         /\ \A a, b : ComesBefore(q, a, b) => ComesBefore(InsertAt(q, i, e), a, b)
         /\ i <= Len(q) => ComesBefore(InsertAt(q, i, e), e, q[i])
         /\ i > 1 => ComesBefore(InsertAt(q, i, e), q[i - 1], e)
<1> DEFINE r == InsertAt(q, i, e)
           was(j) == IF j < i THEN j ELSE j - 1
           is(j) == IF j < i THEN j ELSE j + 1
<1>1. Len(q) \in Nat /\ DOMAIN q = 1 .. Len(q) /\ i \in Nat
  BY LenProperties
<1>2. /\ r \in Seq(S) /\ Len(r) = Len(q) + 1
      /\ \A j \in 1 .. Len(q) + 1 : r[j] = IF j < i THEN q[j] ELSE IF j = i THEN e ELSE q[j - 1]
  BY PutIn
<1> HIDE DEF r
<1>3. DOMAIN r = 1 .. Len(q) + 1
  BY <1>2, LenProperties
<1>4. \A j \in DOMAIN r : j # i => was(j) \in DOMAIN q /\ is(was(j)) = j /\ r[j] = q[was(j)]
  BY <1>1, <1>2, <1>3
<1>5. \A j \in DOMAIN q : is(j) \in DOMAIN r /\ is(j) # i /\ was(is(j)) = j
  BY <1>1, <1>3
<1>6. \A j \in DOMAIN q : is(j) \in DOMAIN r /\ r[is(j)] = q[j]
  BY <1>4, <1>5
<1>7. i \in DOMAIN r /\ r[i] = e
  BY <1>1, <1>2, <1>3
<1>8. IsInjective(r)
  <2> SUFFICES ASSUME NEW j \in DOMAIN r, NEW k \in DOMAIN r, r[j] = r[k] PROVE j = k
    BY DEF IsInjective
  <2> HIDE DEF was, is
  <2>1. \A m \in DOMAIN r : m # i => r[m] # e
    BY <1>4 DEF ToSet
  <2>2. CASE j = i \/ k = i
    BY <2>1, <2>2, <1>7
  <2>3. CASE j # i /\ k # i
    BY <2>3, <1>4 DEF IsInjective
  <2>4. QED BY <2>2, <2>3
<1>9. ToSet(r) = ToSet(q) \cup {e}
  <2> HIDE DEF was, is
  <2>1. \A j \in DOMAIN r : r[j] \in ToSet(q) \cup {e}
    BY <1>4, <1>7 DEF ToSet
  <2>2. \A j \in DOMAIN q : q[j] \in ToSet(r)
    BY <1>6 DEF ToSet
  <2>3. QED BY <2>1, <2>2, <1>7 DEF ToSet
<1>10. ASSUME NEW a, NEW b, ComesBefore(q, a, b)
       PROVE  ComesBefore(r, a, b)
  <2>1. PICK j, k \in DOMAIN q : j < k /\ q[j] = a /\ q[k] = b
    BY <1>10 DEF ComesBefore
  <2>2. is(j) < is(k)
    BY <1>1, <2>1
  <2> HIDE DEF is
  <2>3. QED BY <1>6, <2>1, <2>2 DEF ComesBefore
<1>11. ASSUME i <= Len(q) PROVE ComesBefore(r, e, q[i])
  <2>1. i \in DOMAIN q /\ is(i) = i + 1 /\ i < i + 1
    BY <1>1, <1>11
  <2> HIDE DEF is
  <2>2. QED BY <1>6, <1>7, <2>1 DEF ComesBefore
<1>12. ASSUME i > 1 PROVE ComesBefore(r, q[i - 1], e)
  <2>1. i - 1 \in DOMAIN q /\ is(i - 1) = i - 1 /\ i - 1 < i
    BY <1>1, <1>12
  <2> HIDE DEF is
  <2>2. QED BY <1>6, <1>7, <2>1 DEF ComesBefore
<1>13. QED BY <1>2, <1>8, <1>9, <1>10, <1>11, <1>12 DEF r

LEMMA PositionIs ==
  ASSUME NEW l, NEW i,
         IsInjective(l.sequence), i \in DOMAIN l.sequence
  PROVE  Position(l, l.sequence[i]) = i
BY DEF IsInjective, Position

LEMMA PositionOf ==
  ASSUME NEW l, NEW t,
         t \in Sequenced(l)
  PROVE  Position(l, t) \in DOMAIN l.sequence /\ l.sequence[Position(l, t)] = t
BY DEF Sequenced, ToSet, Position
-----------------------------------------------------------------------------
(* The records a timeline of tokens T can be, and those of them that tell  *)
(* one story.                                                              *)
Lines(T) ==
  [sequence : Seq(T), precedences : SUBSET Pairs, explicit : SUBSET Pairs,
   onObject : SUBSET T, toOrder : SUBSET T]

(* A token of the sequence that something holds there is constrained to    *)
(* the object.                                                             *)
Attached(l) ==
  \A u \in Sequenced(l) : PrecedencesOf(l, u) # {} \/ HasExplicitConstraint(l, u) => u \in l.onObject

Sound(l, T) ==
  /\ l \in Lines(T) /\ IsInjective(l.sequence)
  /\ \A c \in l.precedences : ComesBefore(l.sequence, c[1], c[2])
  /\ l.onObject \subseteq Sequenced(l) /\ Attached(l)
  /\ l.toOrder = T \ Sequenced(l)

(* A token that is constrained to the object has a reason to be.           *)
Held(l, t) == t \in l.onObject => PrecedencesOf(l, t) # {} \/ HasExplicitConstraint(l, t)

(* Whatever is marked as asked for stays as it is.                         *)
Keeps(l, r) ==
  /\ r.explicit = l.explicit
  /\ \A c \in l.explicit :
       /\ {c[1], c[2]} \subseteq Sequenced(l) => {c[1], c[2]} \subseteq Sequenced(r)
       /\ c \in l.precedences => c \in r.precedences

Explicitly(l, p, s) == ObjectConstrain(l, p, s, TRUE)
Implicitly(l, p, s) == ObjectConstrain(l, p, s, FALSE)

LEMMA ExplicitFields ==
  ASSUME NEW T, NEW l, NEW p, NEW s, NEW r,
         T \in SUBSET Token, l \in Lines(T), p \in T, s \in T, r = Explicitly(l, p, s)
  PROVE  /\ r \in Lines(T) /\ r.sequence = l.sequence /\ r.toOrder = l.toOrder
         /\ p = s => r.precedences = l.precedences
         /\ p # s => r.precedences = l.precedences \cup {<<p, s>>}
         /\ r.explicit = l.explicit \cup {<<p, s>>}
         /\ \A u : u \in r.onObject <=> u \in l.onObject \/ (u \in {p, s} /\ ~IsConstrainedToThisObject(l, u))
<1>1. <<p, s>> \in Pairs
  BY DEF Pairs
<1>2. {t \in {p, s} : ~IsConstrainedToThisObject(l, t)} \subseteq T
  OBVIOUS
<1>3. QED BY <1>1, <1>2 DEF Explicitly, ObjectConstrain, Lines

LEMMA ImplicitFields ==
  ASSUME NEW T, NEW l, NEW p, NEW s, NEW r,
         T \in SUBSET Token, l \in Lines(T), p \in T, s \in T, r = Implicitly(l, p, s)
  PROVE  /\ r \in Lines(T) /\ r.sequence = l.sequence /\ r.toOrder = l.toOrder
         /\ p = s => r.precedences = l.precedences
         /\ p # s => r.precedences = l.precedences \cup {<<p, s>>}
         /\ r.explicit = l.explicit
         /\ \A u : u \in r.onObject <=> u \in l.onObject \/ (u \in {p, s} /\ ~IsConstrainedToThisObject(l, u))
<1>1. <<p, s>> \in Pairs
  BY DEF Pairs
<1>2. {t \in {p, s} : ~IsConstrainedToThisObject(l, t)} \subseteq T
  OBVIOUS
<1>3. QED BY <1>1, <1>2 DEF Implicitly, ObjectConstrain, Lines

LEMMA FreeFields ==
  ASSUME NEW T, NEW l, NEW gone, NEW r,
         T \in SUBSET Token, l \in Lines(T), gone \in SUBSET Pairs, r = FreePrecedences(l, gone)
  PROVE  /\ r \in Lines(T) /\ r.sequence = l.sequence /\ r.toOrder = l.toOrder
         /\ r.precedences = l.precedences \ gone /\ r.explicit = l.explicit \ gone
         /\ r.onObject = {u \in l.onObject :
                            \/ \A c \in gone : u \notin {c[1], c[2]}
                            \/ PrecedencesOf(r, u) # {} \/ HasExplicitConstraint(r, u)}
<1> DEFINE m == RemovePrecedences(l, gone)
           ends == {c[1] : c \in gone} \cup {c[2] : c \in gone}
<1>1. /\ m \in Lines(T) /\ m.sequence = l.sequence /\ m.toOrder = l.toOrder
      /\ m.precedences = l.precedences \ gone /\ m.explicit = l.explicit \ gone
      /\ m.onObject = l.onObject
  BY DEF RemovePrecedences, Lines
<1> HIDE DEF m
<1>2. r = Clean(m, ends)
  BY DEF FreePrecedences, m
<1>3. /\ r \in Lines(T) /\ r.sequence = m.sequence /\ r.toOrder = m.toOrder
      /\ r.precedences = m.precedences /\ r.explicit = m.explicit
      /\ r.onObject = m.onObject \ {t \in ends : PrecedencesOf(m, t) = {}
                                                 /\ ~HasExplicitConstraint(m, t)}
  BY <1>1, <1>2 DEF Clean, Lines
<1>4. \A u : PrecedencesOf(r, u) = PrecedencesOf(m, u)
             /\ (HasExplicitConstraint(r, u) <=> HasExplicitConstraint(m, u))
  BY <1>3 DEF PrecedencesOf, HasExplicitConstraint
<1>5. \A u : u \notin ends <=> \A c \in gone : u \notin {c[1], c[2]}
  OBVIOUS
<1> HIDE DEF ends
<1>6. QED BY <1>1, <1>3, <1>4, <1>5

(* Freeing is sound, and takes the constraint to the object from the       *)
(* tokens that are left without a reason for it.                           *)
LEMMA SoundFree ==
  ASSUME NEW T, NEW l, NEW gone, NEW r,
         T \in SUBSET Token, Sound(l, T), gone \in SUBSET Pairs, r = FreePrecedences(l, gone)
  PROVE  /\ Sound(r, T) /\ Sequenced(r) = Sequenced(l)
         /\ \A u : Held(l, u) => Held(r, u)
         /\ \A c \in gone : Held(r, c[1]) /\ Held(r, c[2])
<1>1. /\ r \in Lines(T) /\ r.sequence = l.sequence /\ r.toOrder = l.toOrder
      /\ r.precedences = l.precedences \ gone /\ r.explicit = l.explicit \ gone
      /\ r.onObject = {u \in l.onObject :
                         \/ \A c \in gone : u \notin {c[1], c[2]}
                         \/ PrecedencesOf(r, u) # {} \/ HasExplicitConstraint(r, u)}
  BY FreeFields DEF Sound
<1>2. Sequenced(r) = Sequenced(l)
  BY <1>1 DEF Sequenced
<1>3. Sound(r, T)
  <2>1. Attached(r)
    BY <1>1, <1>2 DEF Sound, Attached, PrecedencesOf, HasExplicitConstraint
  <2>2. QED BY <2>1, <1>1, <1>2 DEF Sound
<1>4. ASSUME NEW u, Held(l, u) PROVE Held(r, u)
  <2> SUFFICES ASSUME u \in r.onObject, \A c \in gone : u \notin {c[1], c[2]}
               PROVE  PrecedencesOf(r, u) # {} \/ HasExplicitConstraint(r, u)
    BY <1>1 DEF Held
  <2>1. PrecedencesOf(l, u) # {} \/ HasExplicitConstraint(l, u)
    BY <1>1, <1>4 DEF Held
  <2>2. \A c \in l.precedences \cup l.explicit : u \in {c[1], c[2]} => c \notin gone
    OBVIOUS
  <2>3. CASE PrecedencesOf(l, u) # {}
    BY <2>2, <2>3, <1>1 DEF PrecedencesOf
  <2>4. CASE HasExplicitConstraint(l, u)
    BY <2>2, <2>4, <1>1 DEF HasExplicitConstraint
  <2>5. QED BY <2>1, <2>3, <2>4
<1>5. \A c \in gone : Held(r, c[1]) /\ Held(r, c[2])
  BY <1>1 DEF Held
<1>6. QED BY <1>2, <1>3, <1>4, <1>5

LEMMA DropSound ==
  ASSUME NEW T, NEW l, NEW t, NEW r,
         T \in SUBSET Token, Sound(l, T), t \in Sequenced(l), Held(l, t),
         ~HasExplicitConstraint(l, t), r = Drop(l, t)
  PROVE  /\ Sound(r, T) /\ Keeps(l, r)
         /\ r.sequence = RemoveAt(l.sequence, Position(l, t))
         /\ Sequenced(r) = Sequenced(l) \ {t}
         /\ \A u : Held(l, u) => Held(r, u)
<1> DEFINE gone == PrecedencesOf(l, t)
           m == FreePrecedences(l, gone)
           i == Position(l, t)
<1>1. gone \in SUBSET Pairs /\ l \in Lines(T)
  BY DEF PrecedencesOf, Lines, Sound
<1>2. /\ m \in Lines(T) /\ m.sequence = l.sequence /\ m.toOrder = l.toOrder
      /\ m.precedences = l.precedences \ gone /\ m.explicit = l.explicit \ gone
      /\ m.onObject = {u \in l.onObject :
                         \/ \A c \in gone : u \notin {c[1], c[2]}
                         \/ PrecedencesOf(m, u) # {} \/ HasExplicitConstraint(m, u)}
  BY <1>1, FreeFields
<1>3. Sound(m, T) /\ \A u : Held(l, u) => Held(m, u)
  BY <1>1, SoundFree
<1> HIDE DEF m
<1>4. i \in 1 .. Len(l.sequence) /\ l.sequence[i] = t
  BY <1>1, PositionOf, LenProperties DEF Lines
<1> HIDE DEF i
<1>5. l.sequence \in Seq(T) /\ IsInjective(l.sequence) /\ t \in T
  <2>1. l.sequence \in Seq(T) /\ IsInjective(l.sequence)
    BY DEF Lines, Sound
  <2>2. QED BY <2>1, <1>4, ElementOfSeq
<1>6. /\ r \in Lines(T) /\ r.sequence = RemoveAt(l.sequence, i)
      /\ r.precedences = m.precedences /\ r.explicit = m.explicit /\ r.onObject = m.onObject
      /\ r.toOrder = m.toOrder \cup {t}
  <2>1. RemoveAt(l.sequence, i) \in Seq(T)
    BY <1>4, <1>5, TakenOut
  <2>2. r = [m EXCEPT !.sequence = RemoveAt(l.sequence, i), !.toOrder = m.toOrder \cup {t}]
    BY <1>2 DEF Drop, FreeImplicitConstraints, m, i
  <2> DEFINE q == RemoveAt(l.sequence, i)
  <2> HIDE DEF q
  <2>3. q \in Seq(T) /\ r = [m EXCEPT !.sequence = q, !.toOrder = m.toOrder \cup {t}]
    BY <2>1, <2>2 DEF q
  <2>4. /\ r \in Lines(T) /\ r.sequence = q
        /\ r.precedences = m.precedences /\ r.explicit = m.explicit /\ r.onObject = m.onObject
        /\ r.toOrder = m.toOrder \cup {t}
    <3>1. m \in Lines(T) /\ m.toOrder \cup {t} \in SUBSET T
      BY <1>2, <1>5 DEF Lines
    <3>2. QED BY <2>3, <3>1 DEF Lines
  <2>5. QED BY <2>4 DEF q
<1>7. /\ IsInjective(r.sequence) /\ Sequenced(r) = Sequenced(l) \ {t}
      /\ \A a, b : ComesBefore(l.sequence, a, b) /\ t \notin {a, b} => ComesBefore(r.sequence, a, b)
  BY <1>4, <1>5, <1>6, TakenOutOfOrder DEF Sequenced
<1>8. \A c \in gone : c \notin l.explicit
  BY DEF PrecedencesOf, HasExplicitConstraint
<1>9. \A u : Held(l, u) => Held(r, u)
  BY <1>3, <1>6 DEF Held, PrecedencesOf, HasExplicitConstraint
<1>10. t \notin r.onObject
  <2>1. PrecedencesOf(r, t) = {}
    BY <1>2, <1>6 DEF PrecedencesOf
  <2>2. ~HasExplicitConstraint(r, t)
    BY <1>2, <1>6 DEF HasExplicitConstraint
  <2>3. QED BY <2>1, <2>2, <1>9 DEF Held
<1>11. \A c \in r.precedences : c \in l.precedences /\ t \notin {c[1], c[2]}
  BY <1>2, <1>6 DEF PrecedencesOf
<1>12. Sound(r, T)
  <2>1. \A c \in r.precedences : ComesBefore(r.sequence, c[1], c[2])
    BY <1>7, <1>11 DEF Sound
  <2>2. r.onObject \subseteq Sequenced(r)
    BY <1>2, <1>6, <1>7, <1>10 DEF Sound
  <2>3. r.toOrder = T \ Sequenced(r)
    BY <1>2, <1>5, <1>6, <1>7 DEF Sound
  <2>4. Attached(r)
    <3>1. Attached(m) /\ Sequenced(m) = Sequenced(l)
      BY <1>2, <1>3 DEF Sound, Sequenced
    <3>2. QED BY <3>1, <1>6, <1>7 DEF Attached, PrecedencesOf, HasExplicitConstraint
  <2>5. QED BY <2>1, <2>2, <2>3, <2>4, <1>6, <1>7 DEF Sound
<1>13. Keeps(l, r)
  <2>1. r.explicit = l.explicit
    BY <1>2, <1>6, <1>8
  <2>2. \A c \in l.explicit : t \notin {c[1], c[2]}
    BY DEF HasExplicitConstraint
  <2>3. QED BY <2>1, <2>2, <1>2, <1>6, <1>7, <1>8 DEF Keeps
<1>14. QED BY <1>6, <1>7, <1>9, <1>12, <1>13 DEF i

LEMMA RelinkedSound ==
  ASSUME NEW T, NEW l, NEW x, NEW y, NEW r,
         T \in SUBSET Token, Sound(l, T), x \in Sequenced(l) \cup {NoToken}, r = Relinked(l, x, y)
  PROVE  Sound(r, T) /\ Keeps(l, r) /\ r.sequence = l.sequence
<1>1. CASE ~ (Adjacent(l, x, y) /\ <<x, y>> \notin l.precedences)
  BY <1>1 DEF Relinked, Keeps
<1>2. CASE Adjacent(l, x, y) /\ <<x, y>> \notin l.precedences
  <2> DEFINE i == Position(l, x)
  <2>1. r = Implicitly(l, x, y)
    BY <1>2 DEF Relinked, Implicitly
  <2>2. l \in Lines(T) /\ l.sequence \in Seq(T) /\ IsInjective(l.sequence)
    BY DEF Sound, Lines
  <2>3. x \in Sequenced(l)
    BY <1>2 DEF Adjacent
  <2>4. i \in 1 .. Len(l.sequence) /\ l.sequence[i] = x
    BY <2>2, <2>3, PositionOf, LenProperties
  <2>5. i + 1 <= Len(l.sequence) /\ l.sequence[i + 1] = y
    BY <1>2 DEF Adjacent
  <2> HIDE DEF i
  <2>6. Len(l.sequence) \in Nat /\ DOMAIN l.sequence = 1 .. Len(l.sequence)
    BY <2>2, LenProperties
  <2>7. i + 1 \in 1 .. Len(l.sequence) /\ i < i + 1
    BY <2>4, <2>5, <2>6
  <2>8. ComesBefore(l.sequence, x, y)
    BY <2>4, <2>5, <2>6, <2>7 DEF ComesBefore
  <2>9. x \in T /\ y \in T /\ {x, y} \subseteq Sequenced(l)
    BY <2>2, <2>3, <2>4, <2>5, <2>6, <2>7, ElementOfSeq DEF Sequenced, ToSet
  <2>10. /\ r \in Lines(T) /\ r.sequence = l.sequence /\ r.toOrder = l.toOrder
         /\ r.explicit = l.explicit
    BY <2>1, <2>2, <2>9, ImplicitFields
  <2>11. /\ l.precedences \subseteq r.precedences
         /\ \A c \in r.precedences : c \in l.precedences \/ c = <<x, y>>
    BY <2>1, <2>2, <2>9, ImplicitFields
  <2>12. \A u \in r.onObject : u \in l.onObject \/ u \in {x, y}
    BY <2>1, <2>2, <2>9, ImplicitFields
  <2>13. Sequenced(r) = Sequenced(l)
    BY <2>10 DEF Sequenced
  <2>14. Attached(r)
    <3>1. /\ l.onObject \subseteq r.onObject
          /\ \A u \in {x, y} : ~IsConstrainedToThisObject(l, u) => u \in r.onObject
      BY <2>1, <2>2, <2>9, ImplicitFields
    <3>2. Attached(l)
      BY DEF Sound
    <3>3. \A u \in {x, y} : u \in r.onObject
      BY <3>1, <3>2, <2>9 DEF Attached, IsConstrainedToThisObject
    <3>4. \A u : u \notin {x, y} => PrecedencesOf(r, u) = {} \/ PrecedencesOf(l, u) # {}
      BY <2>11 DEF PrecedencesOf
    <3>5. QED BY <3>1, <3>2, <3>3, <3>4, <2>10, <2>13 DEF Attached, HasExplicitConstraint
  <2>15. Sound(r, T)
    BY <2>2, <2>8, <2>9, <2>10, <2>11, <2>12, <2>13, <2>14 DEF Sound
  <2>16. QED BY <2>10, <2>11, <2>13, <2>15 DEF Keeps
<1>3. QED BY <1>1, <1>2

LEMMA Neighbours ==
  ASSUME NEW S, NEW l, NEW t,
         l.sequence \in Seq(S), IsInjective(l.sequence), t \in Sequenced(l)
  PROVE  /\ Before(l, t) \in (Sequenced(l) \ {t}) \cup {NoToken}
         /\ After(l, t) \in (Sequenced(l) \ {t}) \cup {NoToken}
<1> DEFINE i == Position(l, t)
           n == Len(l.sequence)
<1>1. n \in Nat /\ DOMAIN l.sequence = 1 .. n /\ i \in 1 .. n /\ l.sequence[i] = t
  BY PositionOf, LenProperties
<1>2. \A j \in 1 .. n : j # i => l.sequence[j] \in Sequenced(l) \ {t}
  BY <1>1 DEF Sequenced, ToSet, IsInjective
<1>3. CASE n = 1
  BY <1>3 DEF Before, After
<1>4. CASE n # 1
  <2> HIDE DEF i, n
  <2>1. n > 1 /\ (n - 1) \in 1 .. n /\ 2 \in 1 .. n
    BY <1>1, <1>4
  <2>2. Before(l, t) = IF i = 1 THEN l.sequence[2] ELSE l.sequence[i - 1]
    BY <2>1, <1>4 DEF Before, i, n
  <2>3. After(l, t) = IF i = n THEN l.sequence[n - 1] ELSE l.sequence[i + 1]
    BY <2>1, <1>4 DEF After, i, n
  <2>4. Before(l, t) \in Sequenced(l) \ {t}
    BY <2>1, <2>2, <1>1, <1>2
  <2>5. After(l, t) \in Sequenced(l) \ {t}
    BY <2>1, <2>3, <1>1, <1>2
  <2>6. QED BY <2>4, <2>5
<1>5. QED BY <1>3, <1>4

LEMMA KeepsTwice ==
  ASSUME NEW l, NEW m, NEW r,
         Keeps(l, m), Keeps(m, r)
  PROVE  Keeps(l, r)
BY DEF Keeps

LEMMA UnlinkSound ==
  ASSUME NEW T, NEW l, NEW t, NEW r,
         T \in SUBSET Token, Sound(l, T), t \in Sequenced(l), Held(l, t),
         ~HasExplicitConstraint(l, t), r = Unlink(l, t)
  PROVE  Sound(r, T) /\ Keeps(l, r)
<1> DEFINE i == Position(l, t)
           n == Len(l.sequence)
           d == Drop(l, t)
           x == l.sequence[i - 1]
<1>1. Sound(d, T) /\ Keeps(l, d) /\ Sequenced(d) = Sequenced(l) \ {t}
  BY DropSound
<1>2. n \in Nat /\ DOMAIN l.sequence = 1 .. n /\ i \in 1 .. n /\ l.sequence[i] = t
  BY PositionOf, LenProperties DEF Sound, Lines
<1>3. CASE i \in {1, n}
  BY <1>1, <1>3 DEF Unlink
<1>4. CASE i \notin {1, n}
  <2>1. r = Relinked(d, x, l.sequence[i + 1])
    BY <1>4 DEF Unlink
  <2> HIDE DEF i, n, d
  <2>2. i - 1 \in 1 .. n /\ i - 1 # i
    BY <1>2, <1>4
  <2>3. x \in Sequenced(l) /\ x # t
    BY <2>2, <1>2 DEF Sequenced, ToSet, Sound, IsInjective
  <2> HIDE DEF x
  <2>4. Sound(r, T) /\ Keeps(d, r)
    BY <2>1, <2>3, <1>1, RelinkedSound
  <2>5. QED BY <2>4, <1>1, KeepsTwice
<1>5. QED BY <1>3, <1>4

LEMMA ObjectFreeSound ==
  ASSUME NEW T, NEW l, NEW p, NEW s, NEW r,
         T \in SUBSET Token, Sound(l, T), p \in T, s \in T, <<p, s>> \notin l.explicit,
         r = ObjectFree(l, p, s)
  PROVE  /\ Sound(r, T) /\ Keeps(l, r) /\ Sequenced(r) = Sequenced(l)
         /\ Held(r, p) /\ Held(r, s)
<1>0. l \in Lines(T)
  BY DEF Sound
<1>1. CASE p # s
  <2> DEFINE gone == {<<p, s>>}
  <2>1. gone \in SUBSET Pairs /\ r = FreePrecedences(l, gone)
    BY <1>1 DEF Pairs, ObjectFree
  <2>2. r.explicit = l.explicit \ gone /\ r.precedences = l.precedences \ gone
    BY <1>0, <2>1, FreeFields
  <2>3. /\ Sound(r, T) /\ Sequenced(r) = Sequenced(l)
        /\ \A c \in gone : Held(r, c[1]) /\ Held(r, c[2])
    BY <2>1, SoundFree
  <2>4. Held(r, p) /\ Held(r, s)
    BY <2>3
  <2>5. QED BY <2>2, <2>3, <2>4 DEF Keeps
<1>2. CASE p = s
  <2>1. r = Clean(l, {p})
    BY <1>2 DEF ObjectFree
  <2>2. /\ r \in Lines(T) /\ r.sequence = l.sequence /\ r.toOrder = l.toOrder
        /\ r.precedences = l.precedences /\ r.explicit = l.explicit
        /\ r.onObject = l.onObject \ {t \in {p} : PrecedencesOf(l, t) = {}
                                                  /\ ~HasExplicitConstraint(l, t)}
    BY <1>0, <2>1 DEF Clean, Lines
  <2>3. Sequenced(r) = Sequenced(l)
    BY <2>2 DEF Sequenced
  <2>4. Sound(r, T)
    <3>1. Attached(r)
      BY <2>2, <2>3 DEF Sound, Attached, PrecedencesOf, HasExplicitConstraint
    <3>2. QED BY <3>1, <2>2, <2>3 DEF Sound
  <2>5. Held(r, p)
    BY <2>2 DEF Held, PrecedencesOf, HasExplicitConstraint
  <2>6. QED BY <1>2, <2>2, <2>3, <2>4, <2>5 DEF Keeps
<1>3. QED BY <1>1, <1>2

LEMMA FreedPairSound ==
  ASSUME NEW T, NEW l, NEW p, NEW s, NEW r,
         T \in SUBSET Token, Sound(l, T), p \in Sequenced(l), s \in Sequenced(l), p # s, p \in T,
         s \in T, <<p, s>> \notin l.explicit, r = FreedPair(l, p, s)
  PROVE  Sound(r, T) /\ Keeps(l, r)
<1> DEFINE m == ObjectFree(l, p, s)
           y == IF HasExplicitConstraint(l, s) THEN s ELSE After(m, s)
           d == IF HasExplicitConstraint(l, s) THEN m ELSE Drop(m, s)
           x == IF HasExplicitConstraint(l, p) THEN p ELSE Before(d, p)
           e == IF HasExplicitConstraint(l, p) THEN d ELSE Drop(d, p)
<1>1. r = Relinked(e, x, y)
  BY DEF FreedPair
<1>2. /\ Sound(m, T) /\ Keeps(l, m) /\ Sequenced(m) = Sequenced(l)
      /\ Held(m, p) /\ Held(m, s)
  BY ObjectFreeSound
<1> HIDE DEF m, y
<1>3. Sound(d, T) /\ Keeps(m, d) /\ p \in Sequenced(d) /\ Held(d, p)
  <2>1. CASE HasExplicitConstraint(l, s)
    BY <2>1, <1>2 DEF Keeps
  <2>2. CASE ~HasExplicitConstraint(l, s)
    <3>1. ~HasExplicitConstraint(m, s)
      BY <2>2, <1>2 DEF Keeps, HasExplicitConstraint
    <3>2. d = Drop(m, s)
      BY <2>2
    <3> HIDE DEF d
    <3>3. /\ Sound(d, T) /\ Keeps(m, d) /\ Sequenced(d) = Sequenced(m) \ {s}
          /\ \A u : Held(m, u) => Held(d, u)
      BY <3>1, <3>2, <1>2, DropSound
    <3>4. QED BY <3>3, <1>2
  <2>3. QED BY <2>1, <2>2
<1> HIDE DEF d
<1>4. Keeps(l, d) /\ Sound(d, T)
  BY <1>2, <1>3, KeepsTwice
<1>5. Sound(e, T) /\ Keeps(d, e) /\ x \in Sequenced(e) \cup {NoToken}
  <2>1. CASE HasExplicitConstraint(l, p)
    BY <2>1, <1>3, <1>4 DEF Keeps
  <2>2. CASE ~HasExplicitConstraint(l, p)
    <3>1. ~HasExplicitConstraint(d, p)
      BY <2>2, <1>4 DEF Keeps, HasExplicitConstraint
    <3>2. e = Drop(d, p) /\ x = Before(d, p)
      BY <2>2
    <3> HIDE DEF e, x
    <3>3. Sound(e, T) /\ Keeps(d, e) /\ Sequenced(e) = Sequenced(d) \ {p}
      BY <3>1, <3>2, <1>3, DropSound
    <3>4. d.sequence \in Seq(T) /\ IsInjective(d.sequence)
      BY <1>4 DEF Sound, Lines
    <3>5. x \in (Sequenced(d) \ {p}) \cup {NoToken}
      BY <3>2, <3>4, <1>3, Neighbours
    <3>6. QED BY <3>3, <3>5
  <2>3. QED BY <2>1, <2>2
<1> HIDE DEF e, x
<1>6. Sound(r, T) /\ Keeps(e, r)
  BY <1>1, <1>5, RelinkedSound
<1>7. QED BY <1>4, <1>5, <1>6, KeepsTwice

(* Freeing a request leaves a sound timeline, and every other mark.        *)
LEMMA FreedSound ==
  ASSUME NEW T, NEW l, NEW p, NEW s, NEW r,
         T \in SUBSET Token, Sound(l, T), p \in Sequenced(l), s \in Sequenced(l), r = Freed(l, p, s)
  PROVE  /\ Sound(r, T) /\ r.explicit = l.explicit \ {<<p, s>>}
         /\ \A c \in r.explicit :
              /\ {c[1], c[2]} \subseteq Sequenced(l) => {c[1], c[2]} \subseteq Sequenced(r)
              /\ c \in l.precedences => c \in r.precedences
<1> DEFINE m == [l EXCEPT !.explicit = @ \ {<<p, s>>}]
<1>1. /\ m \in Lines(T) /\ m.sequence = l.sequence /\ m.toOrder = l.toOrder
      /\ m.precedences = l.precedences /\ m.onObject = l.onObject
      /\ m.explicit = l.explicit \ {<<p, s>>}
  BY DEF Sound, Lines
<1> HIDE DEF m
<1>2. Sequenced(m) = Sequenced(l)
  BY <1>1 DEF Sequenced
<1>3. Sound(m, T)
  <2>1. Attached(m)
    BY <1>1, <1>2 DEF Sound, Attached, PrecedencesOf, HasExplicitConstraint
  <2>2. QED BY <2>1, <1>1, <1>2 DEF Sound
<1>4. p \in T /\ s \in T
  <2>1. l.sequence \in Seq(T)
    BY DEF Sound, Lines
  <2>2. QED BY <2>1, LenProperties, ElementOfSeq DEF Sequenced, ToSet
<1>5. Sound(r, T) /\ Keeps(m, r)
  <2>1. CASE HasExplicitConstraint(m, p) /\ HasExplicitConstraint(m, s)
    BY <2>1, <1>3 DEF Freed, m, Keeps
  <2>2. CASE ~ (HasExplicitConstraint(m, p) /\ HasExplicitConstraint(m, s)) /\ p = s
    <3> DEFINE f == ObjectFree(m, p, p)
    <3>1. r = Unlink(f, p) /\ ~HasExplicitConstraint(m, p)
      <4>1. ~HasExplicitConstraint(m, p)
        BY <2>2
      <4>2. r = IF HasExplicitConstraint(m, p) /\ HasExplicitConstraint(m, s) THEN m
                ELSE IF p = s THEN Unlink(ObjectFree(m, p, p), p) ELSE FreedPair(m, p, s)
        BY DEF Freed, m
      <4>3. QED BY <4>1, <4>2, <2>2
    <3>2. Sound(f, T) /\ Keeps(m, f) /\ Sequenced(f) = Sequenced(m) /\ Held(f, p)
      <4>1. <<p, p>> \notin m.explicit
        BY <2>2, <1>1
      <4>2. QED BY <4>1, <1>3, <1>4, ObjectFreeSound
    <3> HIDE DEF f
    <3>3. ~HasExplicitConstraint(f, p)
      BY <3>1, <3>2 DEF Keeps, HasExplicitConstraint
    <3>4. Sound(r, T) /\ Keeps(f, r)
      BY <3>1, <3>2, <3>3, <1>2, UnlinkSound
    <3>5. QED BY <3>2, <3>4, KeepsTwice
  <2>3. CASE ~ (HasExplicitConstraint(m, p) /\ HasExplicitConstraint(m, s)) /\ p # s
    <3>1. r = FreedPair(m, p, s)
      BY <2>3 DEF Freed, m
    <3>2. QED BY <2>3, <3>1, <1>1, <1>2, <1>3, <1>4, FreedPairSound
  <2>4. QED BY <2>1, <2>2, <2>3
<1>6. QED BY <1>1, <1>2, <1>5 DEF Keeps
-----------------------------------------------------------------------------
(* Putting a token at a place of the sequence: the state of the object     *)
(* afterwards, one lemma for each way in which a request does it.          *)
LEMMA Unconstrained ==
  ASSUME NEW T, NEW l, NEW t,
         Sound(l, T), t \notin Sequenced(l)
  PROVE  ~IsConstrainedToThisObject(l, t) /\ PrecedencesOf(l, t) = {}
<1>1. t \notin l.onObject
  BY DEF Sound
<1>2. \A c \in l.precedences : t \notin {c[1], c[2]}
  BY DEF Sound, ComesBefore, Sequenced, ToSet
<1>3. QED BY <1>1, <1>2 DEF IsConstrainedToThisObject, PrecedencesOf

(* The record of which Constrained makes all others.                       *)
Ordered(l, p, s) == [Explicitly(l, p, s) EXCEPT !.toOrder = @ \ ({p, s} \ Sequenced(l))]

LEMMA OrderedFields ==
  ASSUME NEW T, NEW l, NEW p, NEW s, NEW r,
         T \in SUBSET Token, l \in Lines(T), p \in T, s \in T, r = Ordered(l, p, s)
  PROVE  /\ r \in Lines(T) /\ r.sequence = l.sequence /\ r.explicit = l.explicit \cup {<<p, s>>}
         /\ r.toOrder = l.toOrder \ ({p, s} \ Sequenced(l))
         /\ p = s => r.precedences = l.precedences
         /\ p # s => r.precedences = l.precedences \cup {<<p, s>>}
         /\ \A u : u \in r.onObject <=> u \in l.onObject \/ (u \in {p, s} /\ ~IsConstrainedToThisObject(l, u))
<1> DEFINE m == Explicitly(l, p, s)
<1>1. /\ m \in Lines(T) /\ m.sequence = l.sequence /\ m.toOrder = l.toOrder
      /\ p = s => m.precedences = l.precedences
      /\ p # s => m.precedences = l.precedences \cup {<<p, s>>}
      /\ m.explicit = l.explicit \cup {<<p, s>>}
      /\ \A u : u \in m.onObject <=> u \in l.onObject \/ (u \in {p, s} /\ ~IsConstrainedToThisObject(l, u))
  BY ExplicitFields
<1> HIDE DEF m
<1>2. /\ r \in Lines(T) /\ r.sequence = m.sequence /\ r.precedences = m.precedences
      /\ r.explicit = m.explicit /\ r.onObject = m.onObject
      /\ r.toOrder = m.toOrder \ ({p, s} \ Sequenced(l))
  <2>1. r = [m EXCEPT !.toOrder = m.toOrder \ ({p, s} \ Sequenced(l))]
    BY DEF Ordered, m
  <2>2. m \in Lines(T) /\ m.toOrder \ ({p, s} \ Sequenced(l)) \in SUBSET T
    BY <1>1 DEF Lines
  <2>3. QED BY <2>1, <2>2 DEF Lines
<1>3. QED BY <1>1, <1>2

LEMMA OrderedHolds ==
  ASSUME NEW T, NEW l, NEW p, NEW s, NEW r,
         T \in SUBSET Token, l \in Lines(T), p \in T, s \in T, r = Ordered(l, p, s), Attached(l)
  PROVE  /\ p \in Sequenced(l) \/ ~IsConstrainedToThisObject(l, p) => p \in r.onObject
         /\ s \in Sequenced(l) \/ ~IsConstrainedToThisObject(l, s) => s \in r.onObject
<1>1. \A v : v \in r.onObject <=> v \in l.onObject \/ (v \in {p, s} /\ ~IsConstrainedToThisObject(l, v))
  BY OrderedFields
<1>2. QED BY <1>1 DEF Attached, IsConstrainedToThisObject

LEMMA InsertedFields ==
  ASSUME NEW T, NEW l, NEW i, NEW e, NEW r,
         l \in Lines(T), i \in 1 .. Len(l.sequence) + 1, e \in T,
         r = [l EXCEPT !.sequence = InsertAt(@, i, e)]
  PROVE  /\ r \in Lines(T) /\ r.sequence = InsertAt(l.sequence, i, e)
         /\ r.precedences = l.precedences /\ r.explicit = l.explicit
         /\ r.onObject = l.onObject /\ r.toOrder = l.toOrder
<1> DEFINE q == InsertAt(l.sequence, i, e)
<1>1. q \in Seq(T)
  BY PutIn DEF Lines
<1>2. r = [l EXCEPT !.sequence = q]
  OBVIOUS
<1> HIDE DEF q
<1>3. r \in Lines(T) /\ r.sequence = q
      /\ r.precedences = l.precedences /\ r.explicit = l.explicit
      /\ r.onObject = l.onObject /\ r.toOrder = l.toOrder
  BY <1>1, <1>2 DEF Lines
<1>4. QED BY <1>3 DEF q

LEMMA OrderedAhead ==
  ASSUME NEW T, NEW l, NEW p, NEW s, NEW i, NEW r,
         T \in SUBSET Token, Sound(l, T), p \in T, p \notin Sequenced(l), s \in Sequenced(l),
         s \in T, i = Position(l, s), r = Constrained(l, p, s)
  PROVE  /\ r \in Lines(T) /\ r.sequence = InsertAt(l.sequence, i, p)
         /\ r.toOrder = l.toOrder \ {p} /\ r.explicit = l.explicit \cup {<<p, s>>}
         /\ i = 1 => r.precedences = l.precedences \cup {<<p, s>>}
         /\ i # 1 => r.precedences = l.precedences \cup {<<p, s>>, <<l.sequence[i - 1], p>>}
         /\ l.onObject \cup {p, s} \subseteq r.onObject
         /\ i # 1 => l.sequence[i - 1] \in r.onObject
         /\ r.onObject \subseteq l.onObject \cup {p} \cup Sequenced(l)
<1> DEFINE m == Ordered(l, p, s)
           a == [m EXCEPT !.sequence = InsertAt(@, i, p)]
           x == l.sequence[i - 1]
<1>1. l \in Lines(T) /\ l.sequence \in Seq(T)
  BY DEF Sound, Lines
<1>2. /\ Len(l.sequence) \in Nat /\ DOMAIN l.sequence = 1 .. Len(l.sequence)
      /\ i \in 1 .. Len(l.sequence) /\ l.sequence[i] = s
  BY <1>1, PositionOf, LenProperties
<1>3. l.sequence # << >> /\ p # s
  BY <1>2
<1>4. /\ m \in Lines(T) /\ m.sequence = l.sequence /\ m.explicit = l.explicit \cup {<<p, s>>}
      /\ m.toOrder = l.toOrder \ {p} /\ m.precedences = l.precedences \cup {<<p, s>>}
      /\ l.onObject \cup {p, s} \subseteq m.onObject
      /\ m.onObject \subseteq l.onObject \cup {p, s}
  <2>1. ~IsConstrainedToThisObject(l, p) /\ {p, s} \ Sequenced(l) = {p}
    BY Unconstrained
  <2>2. /\ m \in Lines(T) /\ m.sequence = l.sequence /\ m.explicit = l.explicit \cup {<<p, s>>}
        /\ m.toOrder = l.toOrder \ ({p, s} \ Sequenced(l))
    BY <1>1, OrderedFields
  <2>3. m.precedences = l.precedences \cup {<<p, s>>}
    BY <1>1, <1>3, OrderedFields
  <2>4. \A u : u \in m.onObject <=> u \in l.onObject \/ (u \in {p, s} /\ ~IsConstrainedToThisObject(l, u))
    BY <1>1, OrderedFields
  <2>5. p \in m.onObject /\ s \in m.onObject
    <3>1. Attached(l)
      BY DEF Sound
    <3>2. QED BY <1>1, <2>1, <3>1, OrderedHolds
  <2> HIDE DEF m
  <2>6. QED BY <2>1, <2>2, <2>3, <2>4, <2>5
<1>5. /\ i = 1 => r = a
      /\ i # 1 => r = Implicitly(a, x, p)
  BY <1>3 DEF Constrained, Ordered, Explicitly, Implicitly
<1> HIDE DEF m
<1>6. /\ a \in Lines(T) /\ a.sequence = InsertAt(l.sequence, i, p)
      /\ a.precedences = m.precedences /\ a.explicit = m.explicit
      /\ a.onObject = m.onObject /\ a.toOrder = m.toOrder
  <2>1. i \in 1 .. Len(m.sequence) + 1 /\ m.sequence = l.sequence
    BY <1>2, <1>4
  <2>2. QED BY <2>1, <1>4, InsertedFields
<1> HIDE DEF a
<1>7. CASE i = 1
  BY <1>4, <1>5, <1>6, <1>7
<1>8. CASE i # 1
  <2>1. i - 1 \in 1 .. Len(l.sequence)
    BY <1>2, <1>8
  <2>2. x \in T /\ x \in Sequenced(l) /\ x # p /\ a \in Lines(T)
    BY <2>1, <1>1, <1>2, <1>6, ElementOfSeq DEF Sequenced, ToSet
  <2> HIDE DEF x
  <2>3. r = Implicitly(a, x, p)
    BY <1>5, <1>8
  <2>4. /\ r \in Lines(T) /\ r.sequence = a.sequence /\ r.toOrder = a.toOrder
        /\ r.explicit = a.explicit
    BY <2>2, <2>3, ImplicitFields
  <2>5. r.precedences = a.precedences \cup {<<x, p>>}
    BY <2>2, <2>3, ImplicitFields
  <2>6. /\ a.onObject \subseteq r.onObject /\ r.onObject \subseteq a.onObject \cup {x, p}
        /\ ~IsConstrainedToThisObject(a, x) => x \in r.onObject
    BY <2>2, <2>3, ImplicitFields
  <2>7. r.precedences = l.precedences \cup {<<p, s>>, <<x, p>>}
    BY <2>5, <1>4, <1>6
  <2>8. x \in r.onObject
    <3>1. x # s /\ Attached(l)
      BY <1>2, <2>1 DEF Sound, IsInjective, x
    <3>2. PrecedencesOf(a, x) = PrecedencesOf(l, x)
      BY <1>4, <1>6, <2>2, <3>1 DEF PrecedencesOf
    <3>3. QED BY <1>4, <1>6, <2>2, <2>6, <3>1, <3>2 DEF Attached, IsConstrainedToThisObject
  <2>9. QED BY <1>4, <1>6, <1>8, <2>2, <2>4, <2>6, <2>7, <2>8 DEF x
<1>9. QED BY <1>7, <1>8

LEMMA OrderedAfter ==
  ASSUME NEW T, NEW l, NEW p, NEW s, NEW i, NEW r,
         T \in SUBSET Token, Sound(l, T), p \in Sequenced(l), p \in T, s \in T,
         s \notin Sequenced(l), i = Position(l, p) + 1, r = Constrained(l, p, s)
  PROVE  /\ r \in Lines(T) /\ r.sequence = InsertAt(l.sequence, i, s)
         /\ r.toOrder = l.toOrder \ {s} /\ r.explicit = l.explicit \cup {<<p, s>>}
         /\ i > Len(l.sequence) => r.precedences = l.precedences \cup {<<p, s>>}
         /\ i <= Len(l.sequence) => r.precedences = l.precedences \cup {<<p, s>>, <<s, l.sequence[i]>>}
         /\ l.onObject \cup {p, s} \subseteq r.onObject
         /\ i <= Len(l.sequence) => l.sequence[i] \in r.onObject
         /\ r.onObject \subseteq l.onObject \cup {s} \cup Sequenced(l)
<1> DEFINE m == Ordered(l, p, s)
           a == [m EXCEPT !.sequence = InsertAt(@, i, s)]
           x == l.sequence[i]
<1>1. l \in Lines(T) /\ l.sequence \in Seq(T)
  BY DEF Sound, Lines
<1>2. /\ Len(l.sequence) \in Nat /\ DOMAIN l.sequence = 1 .. Len(l.sequence)
      /\ i \in 2 .. Len(l.sequence) + 1
  <2>1. /\ Len(l.sequence) \in Nat /\ DOMAIN l.sequence = 1 .. Len(l.sequence)
        /\ Position(l, p) \in 1 .. Len(l.sequence)
    BY <1>1, PositionOf, LenProperties
  <2>2. QED BY <2>1
<1>3. l.sequence # << >> /\ p # s
  BY <1>2
<1>4. /\ m \in Lines(T) /\ m.sequence = l.sequence /\ m.explicit = l.explicit \cup {<<p, s>>}
      /\ m.toOrder = l.toOrder \ {s} /\ m.precedences = l.precedences \cup {<<p, s>>}
      /\ l.onObject \cup {p, s} \subseteq m.onObject
      /\ m.onObject \subseteq l.onObject \cup {p, s}
  <2>1. ~IsConstrainedToThisObject(l, s) /\ {p, s} \ Sequenced(l) = {s}
    BY Unconstrained
  <2>2. /\ m \in Lines(T) /\ m.sequence = l.sequence /\ m.explicit = l.explicit \cup {<<p, s>>}
        /\ m.toOrder = l.toOrder \ ({p, s} \ Sequenced(l))
    BY <1>1, OrderedFields
  <2>3. m.precedences = l.precedences \cup {<<p, s>>}
    BY <1>1, <1>3, OrderedFields
  <2>4. \A u : u \in m.onObject <=> u \in l.onObject \/ (u \in {p, s} /\ ~IsConstrainedToThisObject(l, u))
    BY <1>1, OrderedFields
  <2>5. p \in m.onObject /\ s \in m.onObject
    <3>1. Attached(l)
      BY DEF Sound
    <3>2. QED BY <1>1, <2>1, <3>1, OrderedHolds
  <2> HIDE DEF m
  <2>6. QED BY <2>1, <2>2, <2>3, <2>4, <2>5
<1>5. /\ i > Len(l.sequence) => r = a
      /\ ~ (i > Len(l.sequence)) => r = Implicitly(a, s, x)
  <2> DEFINE k == Position(l, p) + 1
             b == [m EXCEPT !.sequence = InsertAt(@, k, s)]
  <2>1. r = IF k > Len(l.sequence) THEN b ELSE ObjectConstrain(b, s, l.sequence[k], FALSE)
    BY <1>3 DEF Constrained, Ordered, Explicitly
  <2>2. k = i
    OBVIOUS
  <2> HIDE DEF m, k
  <2>3. QED BY <2>1, <2>2 DEF Implicitly
<1> HIDE DEF m
<1>6. /\ a \in Lines(T) /\ a.sequence = InsertAt(l.sequence, i, s)
      /\ a.precedences = m.precedences /\ a.explicit = m.explicit
      /\ a.onObject = m.onObject /\ a.toOrder = m.toOrder
  <2>1. i \in 1 .. Len(m.sequence) + 1 /\ m.sequence = l.sequence
    BY <1>2, <1>4
  <2>2. QED BY <2>1, <1>4, InsertedFields
<1> HIDE DEF a
<1>7. CASE i > Len(l.sequence)
  BY <1>2, <1>4, <1>5, <1>6, <1>7
<1>8. CASE i <= Len(l.sequence)
  <2>1. i \in 1 .. Len(l.sequence)
    BY <1>2, <1>8
  <2>2. x \in T /\ x \in Sequenced(l) /\ x # s /\ a \in Lines(T)
    BY <2>1, <1>1, <1>2, <1>6, ElementOfSeq DEF Sequenced, ToSet
  <2> HIDE DEF x
  <2>3. r = Implicitly(a, s, x)
    BY <1>2, <1>5, <1>8
  <2>4. /\ r \in Lines(T) /\ r.sequence = a.sequence /\ r.toOrder = a.toOrder
        /\ r.explicit = a.explicit
    BY <2>2, <2>3, ImplicitFields
  <2>5. r.precedences = a.precedences \cup {<<s, x>>}
    BY <2>2, <2>3, ImplicitFields
  <2>6. /\ a.onObject \subseteq r.onObject /\ r.onObject \subseteq a.onObject \cup {x, s}
        /\ ~IsConstrainedToThisObject(a, x) => x \in r.onObject
    BY <2>2, <2>3, ImplicitFields
  <2>7. r.precedences = l.precedences \cup {<<p, s>>, <<s, x>>}
    BY <2>5, <1>4, <1>6
  <2>8. x \in r.onObject
    <3>1. x # p /\ Attached(l)
      <4>1. Position(l, p) \in 1 .. Len(l.sequence) /\ l.sequence[Position(l, p)] = p
        BY <1>2, PositionOf
      <4>2. QED BY <4>1, <1>2, <2>1 DEF Sound, IsInjective, x
    <3>2. PrecedencesOf(a, x) = PrecedencesOf(l, x)
      BY <1>4, <1>6, <2>2, <3>1 DEF PrecedencesOf
    <3>3. QED BY <1>4, <1>6, <2>2, <2>6, <3>1, <3>2 DEF Attached, IsConstrainedToThisObject
  <2>9. ~ (i > Len(l.sequence))
    BY <2>1, <1>2
  <2>10. QED BY <1>4, <1>6, <2>2, <2>4, <2>6, <2>7, <2>8, <2>9 DEF x
<1>9. QED BY <1>2, <1>7, <1>8

LEMMA OrderedFirst ==
  ASSUME NEW T, NEW l, NEW p, NEW s, NEW r,
         T \in SUBSET Token, Sound(l, T), l.sequence = << >>, p \in T, s \in T,
         r = Constrained(l, p, s)
  PROVE  /\ r \in Lines(T) /\ r.toOrder = l.toOrder \ {p, s}
         /\ r.explicit = l.explicit \cup {<<p, s>>} /\ r.onObject = {p, s}
         /\ p = s => r.sequence = <<s>> /\ r.precedences = {}
         /\ p # s => r.sequence = <<p, s>> /\ r.precedences = {<<p, s>>}
         /\ Sequenced(l) = {} /\ l.precedences = {} /\ l.onObject = {}
<1> DEFINE m == Ordered(l, p, s)
<1>1. l \in Lines(T) /\ Sequenced(l) = {}
  BY DEF Sound, Sequenced, ToSet
<1>2. l.precedences = {} /\ l.onObject = {}
  BY <1>1 DEF Sound, ComesBefore
<1>3. ~IsConstrainedToThisObject(l, p) /\ ~IsConstrainedToThisObject(l, s)
  BY <1>1, Unconstrained
<1>4. /\ m \in Lines(T) /\ m.explicit = l.explicit \cup {<<p, s>>}
      /\ m.toOrder = l.toOrder \ ({p, s} \ Sequenced(l))
  BY <1>1, OrderedFields
<1>5. /\ p = s => m.precedences = l.precedences
      /\ p # s => m.precedences = l.precedences \cup {<<p, s>>}
  BY <1>1, OrderedFields
<1>6. \A u : u \in m.onObject <=> u \in l.onObject \/ (u \in {p, s} /\ ~IsConstrainedToThisObject(l, u))
  BY <1>1, OrderedFields
<1>7. m.onObject = {p, s}
  BY <1>2, <1>3, <1>6
<1>8. /\ p = s => r = [m EXCEPT !.sequence = <<s>>]
      /\ p # s => r = [m EXCEPT !.sequence = <<p, s>>]
  <2>1. r = [m EXCEPT !.sequence = IF p = s THEN <<s>> ELSE <<p, s>>]
    BY <1>1 DEF Constrained, Ordered, Explicitly
  <2> HIDE DEF m
  <2>2. QED BY <2>1
<1> HIDE DEF m
<1>9. <<s>> \in Seq(T) /\ <<p, s>> \in Seq(T)
  OBVIOUS
<1>10. /\ r \in Lines(T) /\ r.precedences = m.precedences /\ r.explicit = m.explicit
       /\ r.onObject = m.onObject /\ r.toOrder = m.toOrder
       /\ p = s => r.sequence = <<s>>
       /\ p # s => r.sequence = <<p, s>>
  <2>1. CASE p = s
    BY <2>1, <1>4, <1>8, <1>9 DEF Lines
  <2>2. CASE p # s
    BY <2>2, <1>4, <1>8, <1>9 DEF Lines
  <2>3. QED BY <2>1, <2>2
<1>11. QED BY <1>1, <1>2, <1>4, <1>5, <1>7, <1>10

(* Whatever a client may ask for leaves a sound timeline, and holds.       *)
LEMMA ConstrainedSound ==
  ASSUME NEW T, NEW l, NEW p, NEW s, NEW r,
         T \in SUBSET Token, Sound(l, T), p \in T, s \in T,
         l.sequence # << >> => ((p \in Sequenced(l)) # (s \in Sequenced(l))),
         r = Constrained(l, p, s)
  PROVE  /\ Sound(r, T) /\ Sequenced(r) = Sequenced(l) \cup {p, s}
         /\ r.explicit = l.explicit \cup {<<p, s>>} /\ l.precedences \subseteq r.precedences
         /\ p # s => <<p, s>> \in r.precedences
<1>1. l \in Lines(T) /\ l.sequence \in Seq(T) /\ IsInjective(l.sequence)
  BY DEF Sound, Lines
<1>2. Len(l.sequence) \in Nat /\ DOMAIN l.sequence = 1 .. Len(l.sequence)
  BY <1>1, LenProperties
<1>3. CASE l.sequence = << >>
  <2>1. /\ r \in Lines(T) /\ r.toOrder = l.toOrder \ {p, s}
        /\ r.explicit = l.explicit \cup {<<p, s>>} /\ r.onObject = {p, s}
        /\ p = s => r.sequence = <<s>> /\ r.precedences = {}
        /\ p # s => r.sequence = <<p, s>> /\ r.precedences = {<<p, s>>}
        /\ Sequenced(l) = {} /\ l.precedences = {} /\ l.onObject = {}
    BY <1>3, OrderedFirst
  <2>2. CASE p = s
    <3>1. Sequenced(r) = {s} /\ IsInjective(r.sequence)
      BY <2>1, <2>2 DEF Sequenced, ToSet, IsInjective
    <3>2. Attached(r)
      BY <2>1, <3>1, <2>2 DEF Attached
    <3>3. QED BY <2>1, <2>2, <3>1, <3>2 DEF Sound
  <2>3. CASE p # s
    <3>1. Sequenced(r) = {p, s} /\ IsInjective(r.sequence)
      BY <2>1, <2>3 DEF Sequenced, ToSet, IsInjective
    <3>2. ComesBefore(r.sequence, p, s)
      BY <2>1, <2>3 DEF ComesBefore
    <3>3. Attached(r)
      BY <2>1, <3>1 DEF Attached
    <3>4. QED BY <2>1, <2>3, <3>1, <3>2, <3>3 DEF Sound
  <2>4. QED BY <2>2, <2>3
<1>4. CASE p \notin Sequenced(l) /\ s \in Sequenced(l)
  <2> DEFINE i == Position(l, s)
  <2>1. i \in 1 .. Len(l.sequence) /\ l.sequence[i] = s
    BY <1>2, <1>4, PositionOf
  <2>2. /\ r \in Lines(T) /\ r.sequence = InsertAt(l.sequence, i, p)
        /\ r.toOrder = l.toOrder \ {p} /\ r.explicit = l.explicit \cup {<<p, s>>}
        /\ i = 1 => r.precedences = l.precedences \cup {<<p, s>>}
        /\ i # 1 => r.precedences = l.precedences \cup {<<p, s>>, <<l.sequence[i - 1], p>>}
        /\ l.onObject \cup {p, s} \subseteq r.onObject
        /\ i # 1 => l.sequence[i - 1] \in r.onObject
        /\ r.onObject \subseteq l.onObject \cup {p} \cup Sequenced(l)
    BY <1>4, OrderedAhead
  <2> HIDE DEF i
  <2>3. i \in 1 .. Len(l.sequence) + 1 /\ i <= Len(l.sequence)
    BY <1>2, <2>1
  <2>4. /\ IsInjective(r.sequence) /\ Sequenced(r) = Sequenced(l) \cup {p}
        /\ \A a, b : ComesBefore(l.sequence, a, b) => ComesBefore(r.sequence, a, b)
        /\ ComesBefore(r.sequence, p, s)
        /\ i > 1 => ComesBefore(r.sequence, l.sequence[i - 1], p)
    BY <1>1, <1>4, <2>1, <2>2, <2>3, PutInOrder DEF Sequenced
  <2>5. \A c \in r.precedences : ComesBefore(r.sequence, c[1], c[2])
    <3>1. CASE i = 1
      BY <3>1, <2>2, <2>4 DEF Sound
    <3>2. CASE i # 1
      <4>1. i > 1
        BY <3>2, <2>1
      <4>2. QED BY <3>2, <4>1, <2>2, <2>4 DEF Sound
    <3>3. QED BY <3>1, <3>2
  <2>6. Attached(r)
    <3>1. \A u \in Sequenced(r) : u \notin r.onObject =>
            /\ u \in Sequenced(l) /\ u \notin l.onObject /\ u \notin {p, s}
            /\ i # 1 => u # l.sequence[i - 1]
      BY <2>2, <2>4
    <3>2. \A u \in Sequenced(r) : u \notin r.onObject =>
            /\ PrecedencesOf(r, u) = PrecedencesOf(l, u)
            /\ HasExplicitConstraint(r, u) <=> HasExplicitConstraint(l, u)
      BY <2>2, <3>1 DEF PrecedencesOf, HasExplicitConstraint
    <3>3. QED BY <3>1, <3>2 DEF Attached, Sound
  <2>7. Sound(r, T)
    BY <1>4, <2>2, <2>4, <2>5, <2>6 DEF Sound
  <2>8. QED BY <1>4, <2>2, <2>4, <2>7
<1>5. CASE p \in Sequenced(l) /\ s \notin Sequenced(l)
  <2> DEFINE i == Position(l, p) + 1
  <2>0. i = Position(l, p) + 1
    OBVIOUS
  <2>1. i - 1 \in 1 .. Len(l.sequence) /\ l.sequence[i - 1] = p
    BY <1>2, <1>5, PositionOf
  <2> HIDE DEF i
  <2>2. /\ r \in Lines(T) /\ r.sequence = InsertAt(l.sequence, i, s)
        /\ r.toOrder = l.toOrder \ {s} /\ r.explicit = l.explicit \cup {<<p, s>>}
        /\ i > Len(l.sequence) => r.precedences = l.precedences \cup {<<p, s>>}
        /\ i <= Len(l.sequence) => r.precedences = l.precedences \cup {<<p, s>>, <<s, l.sequence[i]>>}
        /\ l.onObject \cup {p, s} \subseteq r.onObject
        /\ i <= Len(l.sequence) => l.sequence[i] \in r.onObject
        /\ r.onObject \subseteq l.onObject \cup {s} \cup Sequenced(l)
    BY <1>5, <2>0, OrderedAfter
  <2>3. i \in 1 .. Len(l.sequence) + 1 /\ i > 1
    BY <1>2, <2>0, <2>1, PositionOf, <1>5
  <2>4. /\ IsInjective(r.sequence) /\ Sequenced(r) = Sequenced(l) \cup {s}
        /\ \A a, b : ComesBefore(l.sequence, a, b) => ComesBefore(r.sequence, a, b)
        /\ ComesBefore(r.sequence, p, s)
        /\ i <= Len(l.sequence) => ComesBefore(r.sequence, s, l.sequence[i])
    BY <1>1, <1>5, <2>1, <2>2, <2>3, PutInOrder DEF Sequenced
  <2>5. \A c \in r.precedences : ComesBefore(r.sequence, c[1], c[2])
    <3>1. CASE i > Len(l.sequence)
      BY <3>1, <2>2, <2>4 DEF Sound
    <3>2. CASE i <= Len(l.sequence)
      BY <3>2, <2>2, <2>4 DEF Sound
    <3>3. QED BY <3>1, <3>2, <2>3, <1>2
  <2>6. l.precedences \cup {<<p, s>>} \subseteq r.precedences
    BY <2>2, <2>3, <1>2
  <2>7. Attached(r)
    <3>1. \A u \in Sequenced(r) : u \notin r.onObject =>
            /\ u \in Sequenced(l) /\ u \notin l.onObject /\ u \notin {p, s}
            /\ i <= Len(l.sequence) => u # l.sequence[i]
      BY <2>2, <2>4
    <3>2. \A u \in Sequenced(r) : u \notin r.onObject =>
            /\ PrecedencesOf(r, u) = PrecedencesOf(l, u)
            /\ HasExplicitConstraint(r, u) <=> HasExplicitConstraint(l, u)
      <4>1. i > Len(l.sequence) \/ i <= Len(l.sequence)
        BY <2>3, <1>2
      <4>2. QED BY <2>2, <3>1, <4>1 DEF PrecedencesOf, HasExplicitConstraint
    <3>3. QED BY <3>1, <3>2 DEF Attached, Sound
  <2>8. Sound(r, T)
    BY <1>5, <2>2, <2>4, <2>5, <2>7 DEF Sound
  <2>9. QED BY <1>5, <2>2, <2>4, <2>6, <2>8
<1>6. QED BY <1>3, <1>4, <1>5

(* All but what is left of a token tells one story.                        *)
SoundWithout(l, T, t) ==
  /\ l \in Lines(T) /\ t \notin Sequenced(l) /\ IsInjective(l.sequence)
  /\ l.onObject \subseteq Sequenced(l) \cup {t} /\ l.toOrder = (T \ {t}) \ Sequenced(l)
  /\ Attached(l)
  /\ \A c \in l.precedences : t \notin {c[1], c[2]} => ComesBefore(l.sequence, c[1], c[2])

(* What has nothing to do with a token stays as it is.                     *)
Spares(l, r, t) ==
  \A c : t \notin {c[1], c[2]} => /\ c \in l.explicit => c \in r.explicit
                                  /\ c \in l.precedences => c \in r.precedences

(* A token that is gone leaves nothing on the timeline.                    *)
LEMMA ForgottenSound ==
  ASSUME NEW T, NEW l, NEW t, NEW r,
         T \in SUBSET Token, t \in T, SoundWithout(l, T, t), r = ObjectRemove(l, t)
  PROVE  Sound(r, T \ {t}) /\ Sequenced(r) = Sequenced(l) /\ Spares(l, r, t)
<1> DEFINE gone == PrecedencesOf(l, t)
           m == RemovePrecedences(l, gone)
<1>1. /\ m \in Lines(T) /\ m.sequence = l.sequence /\ m.toOrder = l.toOrder
      /\ m.precedences = l.precedences \ gone /\ m.explicit = l.explicit \ gone
      /\ m.onObject = l.onObject
  BY DEF RemovePrecedences, Lines, SoundWithout
<1>2. r = [m EXCEPT !.onObject = @ \ {t}]
  BY DEF ObjectRemove
<1> HIDE DEF m
<1>3. /\ r \in Lines(T) /\ r.sequence = m.sequence /\ r.toOrder = m.toOrder
      /\ r.precedences = m.precedences /\ r.explicit = m.explicit /\ r.onObject = m.onObject \ {t}
  BY <1>1, <1>2 DEF Lines
<1>4. Sequenced(r) = Sequenced(l)
  BY <1>1, <1>3 DEF Sequenced
<1>5. r.sequence \in Seq(T \ {t})
  <2>1. r.sequence \in Seq(T)
    BY <1>3 DEF Lines
  <2>2. /\ Len(r.sequence) \in Nat /\ r.sequence \in [1 .. Len(r.sequence) -> T]
        /\ DOMAIN r.sequence = 1 .. Len(r.sequence)
    BY <2>1, LenProperties
  <2>3. \A i \in 1 .. Len(r.sequence) : r.sequence[i] \in T \ {t}
    BY <2>2, <1>4 DEF Sequenced, ToSet, SoundWithout
  <2>4. r.sequence \in [1 .. Len(r.sequence) -> T \ {t}]
    BY <2>2, <2>3
  <2>5. QED BY <2>2, <2>4, SeqDef
<1>6. r \in Lines(T \ {t})
  <2>1. r.onObject \subseteq T \ {t} /\ r.toOrder \subseteq T \ {t}
    BY <1>1, <1>3 DEF Lines, SoundWithout
  <2>2. r \in Lines(T)
    BY <1>3
  <2>3. QED BY <1>5, <2>1, <2>2 DEF Lines
<1>7. \A c \in r.precedences : t \notin {c[1], c[2]} /\ c \in l.precedences
  BY <1>1, <1>3 DEF PrecedencesOf
<1>8. Sound(r, T \ {t})
  <2>1. \A u \in Sequenced(r) : u # t /\ (u \in l.onObject => u \in r.onObject)
    BY <1>1, <1>3, <1>4 DEF SoundWithout
  <2>2. Attached(r)
    BY <2>1, <1>1, <1>3, <1>4 DEF SoundWithout, Attached, PrecedencesOf, HasExplicitConstraint
  <2>3. QED BY <2>2, <1>1, <1>3, <1>4, <1>6, <1>7 DEF Sound, SoundWithout
<1>9. Spares(l, r, t)
  <2>1. \A c : t \notin {c[1], c[2]} => c \notin gone
    BY DEF PrecedencesOf
  <2>2. QED BY <2>1, <1>1, <1>3 DEF Spares
<1>10. QED BY <1>4, <1>8, <1>9

LEMMA RemovedSound ==
  ASSUME NEW T, NEW l, NEW t, NEW r,
         T \in SUBSET Token, Sound(l, T), t \in T, r = Removed(l, t)
  PROVE  Sound(r, T \ {t}) /\ Sequenced(r) = Sequenced(l) \ {t} /\ Spares(l, r, t)
<1> DEFINE i == Position(l, t)
           n == Len(l.sequence)
           without == [l EXCEPT !.sequence = RemoveAt(@, i)]
           earlier == l.sequence[i - 1]
           later == l.sequence[i + 1]
<1>1. l \in Lines(T) /\ l.sequence \in Seq(T) /\ IsInjective(l.sequence)
  BY DEF Sound, Lines
<1>2. CASE t \notin Sequenced(l)
  <2> DEFINE m == [l EXCEPT !.toOrder = @ \ {t}]
  <2>1. r = ObjectRemove(m, t)
    BY <1>2 DEF Removed
  <2>2. /\ m \in Lines(T) /\ m.sequence = l.sequence /\ m.toOrder = l.toOrder \ {t}
        /\ m.precedences = l.precedences /\ m.explicit = l.explicit /\ m.onObject = l.onObject
    BY <1>1 DEF Lines
  <2> HIDE DEF m
  <2>3. Sequenced(m) = Sequenced(l)
    BY <2>2 DEF Sequenced
  <2>4. SoundWithout(m, T, t)
    <3>1. Attached(m)
      BY <2>2, <2>3 DEF Sound, Attached, PrecedencesOf, HasExplicitConstraint
    <3>2. QED BY <3>1, <1>2, <2>2, <2>3 DEF Sound, SoundWithout
  <2>5. Sound(r, T \ {t}) /\ Sequenced(r) = Sequenced(m) /\ Spares(m, r, t)
    BY <2>1, <2>4, ForgottenSound
  <2>6. QED BY <1>2, <2>2, <2>3, <2>5 DEF Spares
<1>3. CASE t \in Sequenced(l)
  <2>1. n \in Nat /\ DOMAIN l.sequence = 1 .. n /\ i \in 1 .. n /\ l.sequence[i] = t
    BY <1>1, <1>3, PositionOf, LenProperties
  <2> HIDE DEF i, n
  <2>2. /\ without \in Lines(T) /\ without.sequence = RemoveAt(l.sequence, i)
        /\ without.precedences = l.precedences /\ without.explicit = l.explicit
        /\ without.onObject = l.onObject /\ without.toOrder = l.toOrder
    <3> DEFINE q == RemoveAt(l.sequence, i)
    <3>1. q \in Seq(T)
      BY <1>1, <2>1, TakenOut DEF n
    <3>2. without = [l EXCEPT !.sequence = q]
      OBVIOUS
    <3> HIDE DEF q, without
    <3>3. /\ without \in Lines(T) /\ without.sequence = q
          /\ without.precedences = l.precedences /\ without.explicit = l.explicit
          /\ without.onObject = l.onObject /\ without.toOrder = l.toOrder
      BY <3>1, <3>2, <1>1 DEF Lines
    <3>4. QED BY <3>3 DEF q
  <2> HIDE DEF without
  <2>3. /\ IsInjective(without.sequence) /\ Sequenced(without) = Sequenced(l) \ {t}
        /\ \A a, b : ComesBefore(l.sequence, a, b) /\ t \notin {a, b} => ComesBefore(without.sequence, a, b)
    BY <1>1, <2>1, <2>2, TakenOutOfOrder DEF Sequenced, n
  <2>4. SoundWithout(without, T, t)
    <3>1. Attached(without)
      BY <2>2, <2>3 DEF Sound, Attached, PrecedencesOf, HasExplicitConstraint
    <3>2. QED BY <3>1, <1>3, <2>2, <2>3 DEF Sound, SoundWithout
  <2>5. CASE 1 < i /\ i < n /\ <<earlier, later>> \notin l.precedences
    <3> DEFINE w == Ordered(without, earlier, later)
    <3>1. i - 1 \in 1 .. n /\ i + 1 \in 1 .. n /\ i - 1 # i + 1 /\ i - 1 # i /\ i + 1 # i /\ i - 1 < i + 1
      BY <2>1, <2>5
    <3>2. earlier # later /\ earlier # t /\ later # t
      BY <1>1, <2>1, <3>1 DEF IsInjective
    <3>3. earlier \in Sequenced(l) /\ later \in Sequenced(l) /\ earlier \in T /\ later \in T
      BY <1>1, <2>1, <3>1, ElementOfSeq DEF Sequenced, ToSet, n
    <3>4. ComesBefore(l.sequence, earlier, later)
      BY <2>1, <3>1 DEF ComesBefore
    <3> HIDE DEF earlier, later
    <3>5. earlier \in Sequenced(without) /\ later \in Sequenced(without)
          /\ ComesBefore(without.sequence, earlier, later)
      BY <2>3, <3>2, <3>3, <3>4
    <3>6. without.sequence # << >>
      BY <3>5 DEF ComesBefore
    <3>7. r = ObjectRemove(w, t)
      <4>1. Constrained(without, earlier, later) = w
        BY <3>5, <3>6, Zenon DEF Constrained, Ordered, Explicitly
      <4>2. r = ObjectRemove(Constrained(without, earlier, later), t)
        BY <1>3, <2>5, Zenon DEF Removed, earlier, later, i, n, without
      <4>3. QED BY <4>1, <4>2
    <3>0. w = Ordered(without, earlier, later)
      OBVIOUS
    <3> HIDE DEF w
    <3>8. /\ w \in Lines(T) /\ w.sequence = without.sequence
          /\ w.explicit = without.explicit \cup {<<earlier, later>>}
          /\ w.toOrder = without.toOrder \ ({earlier, later} \ Sequenced(without))
      BY <3>0, <2>2, <3>3, OrderedFields
    <3>9. w.precedences = without.precedences \cup {<<earlier, later>>}
      BY <3>0, <2>2, <3>2, <3>3, OrderedFields
    <3>10. \A u : u \in w.onObject => u \in without.onObject \/ u \in {earlier, later}
      BY <3>0, <2>2, <3>3, OrderedFields
    <3>11. Sequenced(w) = Sequenced(without)
      BY <3>8 DEF Sequenced
    <3>12. SoundWithout(w, T, t)
      <4>1. Attached(without) /\ without.onObject \subseteq w.onObject
        BY <3>0, <2>2, <2>4, <3>3, OrderedFields DEF SoundWithout
      <4>2. earlier \in w.onObject /\ later \in w.onObject
        BY <3>0, <2>2, <3>3, <3>5, <4>1, OrderedHolds
      <4>3. \A u : u \notin {earlier, later} =>
              /\ PrecedencesOf(w, u) # {} => PrecedencesOf(without, u) # {}
              /\ HasExplicitConstraint(w, u) => HasExplicitConstraint(without, u)
        BY <3>8, <3>9 DEF PrecedencesOf, HasExplicitConstraint
      <4>4. Attached(w)
        BY <4>1, <4>2, <4>3, <3>11 DEF Attached
      <4>5. QED BY <4>4, <2>4, <3>5, <3>8, <3>9, <3>10, <3>11 DEF SoundWithout
    <3>13. Sound(r, T \ {t}) /\ Sequenced(r) = Sequenced(w) /\ Spares(w, r, t)
      BY <3>7, <3>12, ForgottenSound
    <3>14. QED BY <2>2, <2>3, <3>8, <3>9, <3>11, <3>13 DEF Spares
  <2>6. CASE ~ (1 < i /\ i < n /\ <<earlier, later>> \notin l.precedences)
    <3>1. r = ObjectRemove(without, t)
      BY <1>3, <2>6, Zenon DEF Removed, earlier, later, i, n, without
    <3>2. Sound(r, T \ {t}) /\ Sequenced(r) = Sequenced(without) /\ Spares(without, r, t)
      BY <3>1, <2>4, ForgottenSound
    <3>3. QED BY <2>2, <2>3, <3>2 DEF Spares
  <2>7. QED BY <2>5, <2>6
<1>4. QED BY <1>2, <1>3
-----------------------------------------------------------------------------
(* The inductive invariant.                                                *)
IInv == TypeOK /\ Sound(line, tokens) /\ RequestsHold

LEMMA InitInv == Init => IInv
<1> SUFFICES ASSUME Init PROVE IInv
  OBVIOUS
<1>1. /\ line \in Lines({}) /\ line.sequence = << >> /\ line.precedences = {}
      /\ line.onObject = {} /\ line.toOrder = {} /\ tokens = {} /\ asked = {}
  BY DEF Init, NewLine, Lines
<1>2. IsInjective(line.sequence) /\ Sequenced(line) = {}
  BY <1>1 DEF IsInjective, Sequenced, ToSet
<1>3. Sound(line, tokens)
  BY <1>1, <1>2 DEF Sound, Attached
<1>4. TypeOK
  BY <1>1, <1>2, TimelineAssumption DEF Init, TypeOK, Lines
<1>5. RequestsHold
  BY <1>1 DEF RequestsHold
<1>6. QED BY <1>3, <1>4, <1>5 DEF IInv

LEMMA SoundIsTyped ==
  ASSUME NEW T, NEW l, Sound(l, T)
  PROVE  /\ l \in [sequence : Seq(T), precedences : SUBSET Pairs, explicit : SUBSET Pairs,
                   onObject : SUBSET T, toOrder : SUBSET T]
         /\ IsInjective(l.sequence)
BY DEF Sound, Lines

LEMMA AddTokenInv ==
  ASSUME IInv, NEW t, t \in Token, AddToken(t)
  PROVE  IInv'
<1>1. /\ tokens' = tokens \cup {t} /\ t \notin tokens /\ line' = [line EXCEPT !.toOrder = @ \cup {t}]
      /\ asked' = asked
  BY DEF AddToken
<1>2. line \in Lines(tokens)
  BY DEF IInv, Sound
<1>3. /\ line'.sequence = line.sequence /\ line'.precedences = line.precedences
      /\ line'.explicit = line.explicit /\ line'.onObject = line.onObject
      /\ line'.toOrder = line.toOrder \cup {t}
  BY <1>1, <1>2 DEF Lines
<1>4. line' \in Lines(tokens')
  <2>1. line.sequence \in Seq(tokens')
    BY <1>1, <1>2, SeqMonotonic DEF Lines
  <2>2. line.onObject \subseteq tokens' /\ line.toOrder \cup {t} \subseteq tokens'
    BY <1>1, <1>2 DEF Lines
  <2>3. QED BY <1>1, <1>2, <2>1, <2>2 DEF Lines
<1>5. Sequenced(line)' = Sequenced(line) /\ Sequenced(line) \subseteq tokens
  <2>1. line.sequence \in Seq(tokens)
    BY <1>2 DEF Lines
  <2>2. QED BY <2>1, <1>3, LenProperties DEF Sequenced, ToSet
<1>6. Sound(line, tokens)'
  <2>1. Attached(line)'
    BY <1>3, <1>5 DEF IInv, Sound, Attached, PrecedencesOf, HasExplicitConstraint
  <2>2. QED BY <2>1, <1>1, <1>3, <1>4, <1>5 DEF IInv, Sound
<1>7. RequestsHold'
  BY <1>1, <1>3, <1>5 DEF IInv, RequestsHold
<1>8. TypeOK'
  <2>1. line' \in [sequence : Seq(tokens'), precedences : SUBSET Pairs, explicit : SUBSET Pairs,
                   onObject : SUBSET tokens', toOrder : SUBSET tokens']
        /\ IsInjective(line'.sequence)
    BY <1>4, <1>3 DEF Lines, IInv, TypeOK
  <2>2. QED BY <2>1, <1>1 DEF IInv, TypeOK, AddToken
<1>9. QED BY <1>6, <1>7, <1>8 DEF IInv

LEMMA RemoveTokenInv ==
  ASSUME IInv, NEW t, t \in Token, RemoveToken(t)
  PROVE  IInv'
<1>1. /\ tokens' = tokens \ {t} /\ t \in tokens /\ line' = Removed(line, t)
      /\ asked' = {r \in asked : t \notin {r[1], r[2]}} /\ removals < MaxRemovals
      /\ removals' = removals + 1 /\ inOrder' = (inOrder /\ line'.explicit \subseteq asked')
      /\ older' = IF inOrder' THEN older \cap (asked' \X asked') ELSE {}
  BY DEF RemoveToken
<1>2. tokens \in SUBSET Token /\ Sound(line, tokens)
  BY DEF IInv, TypeOK
<1>3. /\ Sound(line', tokens \ {t}) /\ Sequenced(line') = Sequenced(line) \ {t}
      /\ Spares(line, line', t)
  BY <1>1, <1>2, RemovedSound
<1>4. RequestsHold'
  BY <1>1, <1>3 DEF IInv, RequestsHold, Spares
<1>5. TypeOK'
  <2>1. /\ line' \in [sequence : Seq(tokens'), precedences : SUBSET Pairs, explicit : SUBSET Pairs,
                      onObject : SUBSET tokens', toOrder : SUBSET tokens']
        /\ IsInjective(line'.sequence)
    BY <1>1, <1>3, SoundIsTyped
  <2>2. removals' \in 0 .. MaxRemovals
    BY <1>1, TimelineAssumption DEF IInv, TypeOK
  <2>3. asked' \subseteq Pairs /\ older' \subseteq asked' \X asked' /\ inOrder' \in BOOLEAN
    BY <1>1 DEF IInv, TypeOK
  <2>4. tokens' \subseteq Token
    BY <1>1 DEF IInv, TypeOK
  <2>5. QED BY <2>1, <2>2, <2>3, <2>4 DEF TypeOK
<1>6. QED BY <1>1, <1>3, <1>4, <1>5 DEF IInv

LEMMA ConstrainInv ==
  ASSUME IInv, NEW p, NEW s, p \in Token, s \in Token, Constrain(p, s)
  PROVE  IInv'
<1>1. /\ {p, s} \subseteq tokens /\ line' = Constrained(line, p, s) /\ asked' = asked \cup {<<p, s>>}
      /\ line.sequence # << >> => ((p \in Sequenced(line)) # (s \in Sequenced(line)))
      /\ tokens' = tokens /\ removals' = removals /\ inOrder' = inOrder
      /\ older' = IF inOrder THEN older \cup {<<r, <<p, s>>>> : r \in asked} ELSE {}
  BY DEF Constrain, MayConstrain
<1>2. tokens \in SUBSET Token /\ Sound(line, tokens)
  BY DEF IInv, TypeOK
<1>3. /\ Sound(line', tokens) /\ Sequenced(line') = Sequenced(line) \cup {p, s}
      /\ line'.explicit = line.explicit \cup {<<p, s>>} /\ line.precedences \subseteq line'.precedences
      /\ p # s => <<p, s>> \in line'.precedences
  BY <1>1, <1>2, ConstrainedSound
<1>4. RequestsHold'
  <2> SUFFICES ASSUME NEW r, r \in asked \cup {<<p, s>>}
               PROVE  /\ {r[1], r[2]} \subseteq Sequenced(line') /\ r \in line'.explicit
                      /\ r[1] # r[2] => r \in line'.precedences
    BY <1>1 DEF RequestsHold
  <2>1. CASE r \in asked
    BY <2>1, <1>3 DEF IInv, RequestsHold
  <2>2. CASE r = <<p, s>>
    BY <2>2, <1>3
  <2>3. QED BY <2>1, <2>2
<1>5. TypeOK'
  <2>1. /\ line' \in [sequence : Seq(tokens), precedences : SUBSET Pairs, explicit : SUBSET Pairs,
                      onObject : SUBSET tokens, toOrder : SUBSET tokens]
        /\ IsInjective(line'.sequence)
    BY <1>3, SoundIsTyped
  <2>2. asked' \subseteq Pairs
    BY <1>1 DEF IInv, TypeOK, Pairs
  <2>3. older' \subseteq asked' \X asked'
    <3>1. older \subseteq asked \X asked
      BY DEF IInv, TypeOK
    <3>2. QED BY <3>1, <1>1
  <2>4. QED BY <2>1, <2>2, <2>3, <1>1 DEF IInv, TypeOK
<1>6. QED BY <1>1, <1>3, <1>4, <1>5 DEF IInv

LEMMA FreeInv ==
  ASSUME IInv, NEW p, NEW s, p \in Token, s \in Token, Free(p, s)
  PROVE  IInv'
<1>1. /\ <<p, s>> \in asked /\ line' = Freed(line, p, s) /\ asked' = asked \ {<<p, s>>}
      /\ inOrder' = (inOrder /\ \A r \in asked' : <<r, <<p, s>>>> \in older)
      /\ older' = IF inOrder' THEN older \cap (asked' \X asked') ELSE {}
      /\ tokens' = tokens /\ removals' = removals
  BY DEF Free
<1>2. /\ tokens \in SUBSET Token /\ Sound(line, tokens)
      /\ p \in Sequenced(line) /\ s \in Sequenced(line)
  BY <1>1 DEF IInv, TypeOK, RequestsHold
<1>3. /\ Sound(line', tokens) /\ line'.explicit = line.explicit \ {<<p, s>>}
      /\ \A c \in line'.explicit :
           /\ {c[1], c[2]} \subseteq Sequenced(line) => {c[1], c[2]} \subseteq Sequenced(line')
           /\ c \in line.precedences => c \in line'.precedences
  BY <1>1, <1>2, FreedSound
<1>4. RequestsHold'
  <2> SUFFICES ASSUME NEW r, r \in asked, r # <<p, s>>
               PROVE  /\ {r[1], r[2]} \subseteq Sequenced(line') /\ r \in line'.explicit
                      /\ r[1] # r[2] => r \in line'.precedences
    BY <1>1 DEF RequestsHold
  <2>1. /\ {r[1], r[2]} \subseteq Sequenced(line) /\ r \in line.explicit
        /\ r[1] # r[2] => r \in line.precedences
    BY DEF IInv, RequestsHold
  <2>2. QED BY <2>1, <1>3
<1>5. TypeOK'
  <2>1. /\ line' \in [sequence : Seq(tokens), precedences : SUBSET Pairs, explicit : SUBSET Pairs,
                      onObject : SUBSET tokens, toOrder : SUBSET tokens]
        /\ IsInjective(line'.sequence)
    BY <1>3, SoundIsTyped
  <2>2. older' \subseteq asked' \X asked' /\ inOrder' \in BOOLEAN
    BY <1>1
  <2>3. QED BY <2>1, <2>2, <1>1 DEF IInv, TypeOK
<1>6. QED BY <1>1, <1>3, <1>4, <1>5 DEF IInv

LEMMA StepInv == IInv /\ [Next]_vars => IInv'
<1> SUFFICES ASSUME IInv, [Next]_vars PROVE IInv'
  OBVIOUS
<1>1. CASE UNCHANGED vars
  BY <1>1 DEF IInv, TypeOK, RequestsHold, vars, Sequenced, Sound
<1>2. CASE Next
  BY <1>2, AddTokenInv, RemoveTokenInv, ConstrainInv, FreeInv DEF Next
<1>3. QED BY <1>1, <1>2

LEMMA SoundTells == IInv => NothingLeftBehind
<1> SUFFICES ASSUME IInv PROVE NothingLeftBehind
  OBVIOUS
<1>1. Sound(line, tokens)
  BY DEF IInv
<1>2. ASSUME NEW c, c \in line.precedences
      PROVE  /\ {c[1], c[2]} \subseteq Sequenced(line)
             /\ Position(line, c[1]) < Position(line, c[2])
  <2>1. PICK i, j \in DOMAIN line.sequence :
          i < j /\ line.sequence[i] = c[1] /\ line.sequence[j] = c[2]
    BY <1>1, <1>2 DEF Sound, ComesBefore
  <2>2. Position(line, line.sequence[i]) = i /\ Position(line, line.sequence[j]) = j
    BY <1>1, PositionIs DEF Sound
  <2>3. QED BY <2>1, <2>2 DEF Sequenced, ToSet
<1>3. QED BY <1>1, <1>2 DEF NothingLeftBehind, Sound

LEMMA AlwaysIInv == Spec => []IInv
BY InitInv, StepInv, PTL DEF Spec

(* The types hold, and no token is in the sequence twice.                  *)
THEOREM TypeCorrect == Spec => []TypeOK
BY AlwaysIInv, PTL DEF IInv

(* What a client has asked for stays in force until it frees it.           *)
THEOREM RequestsStayInForce == Spec => []RequestsHold
BY AlwaysIInv, PTL DEF IInv

(* The sequence, the constraints and the list of tokens to order agree.    *)
THEOREM ListsAgree == Spec => []NothingLeftBehind
BY AlwaysIInv, SoundTells, PTL
-----------------------------------------------------------------------------
LEMMA DropFields ==
  ASSUME NEW T, NEW l, NEW t, NEW r,
         T \in SUBSET Token, l \in Lines(T), t \in Sequenced(l), r = Drop(l, t)
  PROVE  /\ r \in Lines(T) /\ r.sequence = RemoveAt(l.sequence, Position(l, t))
         /\ r.toOrder = l.toOrder \cup {t}
         /\ r.precedences = l.precedences \ PrecedencesOf(l, t)
         /\ r.explicit = l.explicit \ PrecedencesOf(l, t)
         /\ r.onObject = {u \in l.onObject :
                            \/ \A c \in PrecedencesOf(l, t) : u \notin {c[1], c[2]}
                            \/ PrecedencesOf(r, u) # {} \/ HasExplicitConstraint(r, u)}
<1> DEFINE gone == PrecedencesOf(l, t)
           m == FreePrecedences(l, gone)
           q == RemoveAt(l.sequence, Position(l, t))
<1>1. gone \in SUBSET Pairs
  BY DEF PrecedencesOf, Lines
<1>2. /\ m \in Lines(T) /\ m.sequence = l.sequence /\ m.toOrder = l.toOrder
      /\ m.precedences = l.precedences \ gone /\ m.explicit = l.explicit \ gone
      /\ m.onObject = {u \in l.onObject :
                         \/ \A c \in gone : u \notin {c[1], c[2]}
                         \/ PrecedencesOf(m, u) # {} \/ HasExplicitConstraint(m, u)}
  BY <1>1, FreeFields
<1> HIDE DEF m
<1>3. /\ l.sequence \in Seq(T) /\ Position(l, t) \in 1 .. Len(l.sequence)
      /\ l.sequence[Position(l, t)] = t
  <2>1. l.sequence \in Seq(T)
    BY DEF Lines
  <2>2. QED BY <2>1, PositionOf, LenProperties
<1>4. q \in Seq(T) /\ t \in T
  BY <1>3, TakenOut, ElementOfSeq
<1>5. r = [m EXCEPT !.sequence = q, !.toOrder = m.toOrder \cup {t}]
  BY <1>2 DEF Drop, FreeImplicitConstraints, m
<1> HIDE DEF q, gone
<1>6. /\ r \in Lines(T) /\ r.sequence = q
      /\ r.precedences = m.precedences /\ r.explicit = m.explicit /\ r.onObject = m.onObject
      /\ r.toOrder = m.toOrder \cup {t}
  <2>1. m.toOrder \cup {t} \in SUBSET T
    BY <1>2, <1>4 DEF Lines
  <2>2. QED BY <2>1, <1>2, <1>4, <1>5 DEF Lines
<1>7. \A u : PrecedencesOf(r, u) = PrecedencesOf(m, u)
             /\ (HasExplicitConstraint(r, u) <=> HasExplicitConstraint(m, u))
  BY <1>6 DEF PrecedencesOf, HasExplicitConstraint
<1>8. QED BY <1>2, <1>6, <1>7 DEF q, gone

LEMMA SameLine ==
  ASSUME NEW T, NEW l, NEW r,
         l \in Lines(T), r \in Lines(T), r.sequence = l.sequence, r.precedences = l.precedences,
         r.explicit = l.explicit, r.onObject = l.onObject, r.toOrder = l.toOrder
  PROVE  r = l
BY DEF Lines

(* A timeline on which nothing is missing and nothing is left over.        *)
Settled(l, T) ==
  /\ Sound(l, T)
  /\ \A u \in Sequenced(l) : HasExplicitConstraint(l, u)
  /\ \A c \in l.explicit : {c[1], c[2]} \subseteq Sequenced(l)
  /\ \A i \in 1 .. Len(l.sequence) - 1 :
       <<l.sequence[i], l.sequence[i + 1]>> \in l.precedences

(* Token t is at place i of r, which is l in all else.                     *)
PutAt(l, T, r, i, t) ==
  /\ r \in Lines(T) /\ r.sequence = InsertAt(l.sequence, i, t)
  /\ r.explicit = l.explicit /\ r.toOrder = l.toOrder \ {t}
  /\ \A c \in Pairs : t \notin {c[1], c[2]} => (c \in r.precedences <=> c \in l.precedences)
  /\ \A u : u # t => (u \in r.onObject <=> u \in l.onObject)
  /\ Held(r, t)

(* Dropping the token gives back the timeline without it.                  *)
LEMMA DropPut ==
  ASSUME NEW T, NEW l, NEW t, NEW i, NEW r,
         T \in SUBSET Token, Sound(l, T), t \in T, t \notin Sequenced(l),
         \A u : Held(l, u), ~HasExplicitConstraint(l, t),
         i \in 1 .. Len(l.sequence) + 1, PutAt(l, T, r, i, t)
  PROVE  /\ Drop(r, t) = l /\ t \in Sequenced(r) /\ Sequenced(r) = Sequenced(l) \cup {t}
         /\ IsInjective(r.sequence)
<1> DEFINE d == Drop(r, t)
<1>1. /\ r \in Lines(T) /\ r.sequence = InsertAt(l.sequence, i, t)
      /\ r.explicit = l.explicit /\ r.toOrder = l.toOrder \ {t}
      /\ \A c \in Pairs : t \notin {c[1], c[2]} => (c \in r.precedences <=> c \in l.precedences)
      /\ \A u : u # t => (u \in r.onObject <=> u \in l.onObject)
  BY DEF PutAt
<1>2. l \in Lines(T) /\ l.sequence \in Seq(T) /\ IsInjective(l.sequence)
  BY DEF Sound, Lines
<1>3. /\ r.sequence \in Seq(T) /\ IsInjective(r.sequence) /\ Sequenced(r) = Sequenced(l) \cup {t}
      /\ t \in Sequenced(r)
  BY <1>1, <1>2, PutInOrder DEF Sequenced
<1>4. Position(r, t) = i
  <2>1. /\ Len(l.sequence) \in Nat /\ Len(r.sequence) = Len(l.sequence) + 1
        /\ i \in 1 .. Len(l.sequence) + 1
        /\ \A j \in 1 .. Len(l.sequence) + 1 :
             r.sequence[j] = IF j < i THEN l.sequence[j] ELSE IF j = i THEN t ELSE l.sequence[j - 1]
    <3> DEFINE q == l.sequence
    <3>1. q \in Seq(T) /\ i \in 1 .. Len(q) + 1 /\ t \in T /\ r.sequence = InsertAt(q, i, t)
      BY <1>1, <1>2
    <3> HIDE DEF q
    <3>2. /\ Len(InsertAt(q, i, t)) = Len(q) + 1
          /\ \A j \in 1 .. Len(q) + 1 :
               InsertAt(q, i, t)[j] = IF j < i THEN q[j] ELSE IF j = i THEN t ELSE q[j - 1]
      BY ONLY <3>1, PutIn
    <3>3. Len(q) \in Nat
      BY ONLY <3>1, LenProperties
    <3>4. QED BY ONLY <3>1, <3>2, <3>3 DEF q
  <2>2. DOMAIN r.sequence = 1 .. Len(r.sequence)
    BY <1>3, LenProperties
  <2>3. i \in DOMAIN r.sequence /\ r.sequence[i] = t
    BY <2>1, <2>2
  <2>4. Position(r, r.sequence[i]) = i
    BY <2>3, <1>3, PositionIs
  <2>5. QED BY <2>3, <2>4
<1>5. /\ d \in Lines(T) /\ d.sequence = RemoveAt(r.sequence, Position(r, t))
      /\ d.toOrder = r.toOrder \cup {t}
      /\ d.precedences = r.precedences \ PrecedencesOf(r, t)
      /\ d.explicit = r.explicit \ PrecedencesOf(r, t)
      /\ d.onObject = {u \in r.onObject :
                         \/ \A c \in PrecedencesOf(r, t) : u \notin {c[1], c[2]}
                         \/ PrecedencesOf(d, u) # {} \/ HasExplicitConstraint(d, u)}
  BY <1>1, <1>3, DropFields
<1> HIDE DEF d
<1>6. d.sequence = l.sequence
  <2>1. RemoveAt(InsertAt(l.sequence, i, t), i) = l.sequence
    BY <1>2, PutInTakenOut
  <2>2. QED BY <2>1, <1>1, <1>4, <1>5
<1>7. \A c \in l.precedences : t \notin {c[1], c[2]} /\ c \in Pairs
  BY <1>2 DEF Sound, ComesBefore, Sequenced, ToSet, Lines
<1>8. d.precedences = l.precedences
  <2>1. r.precedences \subseteq Pairs
    BY <1>1 DEF Lines
  <2>2. QED BY <2>1, <1>1, <1>5, <1>7 DEF PrecedencesOf
<1>9. d.explicit = l.explicit
  BY <1>1, <1>5 DEF PrecedencesOf, HasExplicitConstraint
<1>10. d.toOrder = l.toOrder
  <2>1. t \in l.toOrder
    BY DEF Sound
  <2>2. QED BY <2>1, <1>1, <1>5
<1>11. d.onObject = l.onObject
  <2>1. \A u : /\ PrecedencesOf(d, u) = PrecedencesOf(l, u)
               /\ HasExplicitConstraint(d, u) <=> HasExplicitConstraint(l, u)
    BY <1>8, <1>9 DEF PrecedencesOf, HasExplicitConstraint
  <2>2. ASSUME NEW u, u # t PROVE u \in d.onObject <=> u \in l.onObject
    BY <2>1, <2>2, <1>1, <1>5 DEF Held
  <2>3. t \notin l.onObject
    BY DEF Sound
  <2>4. t \notin d.onObject
    <3>1. PrecedencesOf(d, t) = {} /\ ~HasExplicitConstraint(d, t)
      BY <2>1, <1>7 DEF PrecedencesOf
    <3>2. CASE PrecedencesOf(r, t) = {}
      <4>1. ~HasExplicitConstraint(r, t)
        BY <1>1 DEF HasExplicitConstraint
      <4>2. t \notin r.onObject
        BY <3>2, <4>1 DEF PutAt, Held
      <4>3. QED BY <4>2, <1>5
    <3>3. CASE PrecedencesOf(r, t) # {}
      <4>1. PICK c \in PrecedencesOf(r, t) : t \in {c[1], c[2]}
        BY <3>3 DEF PrecedencesOf
      <4>2. QED BY <3>1, <4>1, <1>5
    <3>4. QED BY <3>2, <3>3
  <2>5. \A u : u \in d.onObject <=> u \in l.onObject
    BY <2>2, <2>3, <2>4
  <2>6. d.onObject \subseteq T /\ l.onObject \subseteq T
    BY <1>2, <1>5 DEF Lines
  <2>7. QED BY ONLY <2>5, <2>6
<1>12. d = l
  BY <1>2, <1>5, <1>6, <1>8, <1>9, <1>10, <1>11, SameLine
<1>13. QED BY <1>3, <1>12 DEF d

(* There is nothing to relink where neighbours are tied to each other.     *)
LEMMA RelinkedIdle ==
  ASSUME NEW T, NEW l, NEW x, NEW y,
         Settled(l, T), x \in Sequenced(l) \cup {NoToken}
  PROVE  Relinked(l, x, y) = l
<1> SUFFICES ASSUME Adjacent(l, x, y) PROVE <<x, y>> \in l.precedences
  BY DEF Relinked
<1> DEFINE i == Position(l, x)
<1>1. x \in Sequenced(l) /\ i + 1 <= Len(l.sequence) /\ l.sequence[i + 1] = y
  BY DEF Adjacent
<1>2. l.sequence \in Seq(T)
  BY DEF Settled, Sound, Lines
<1>3. i \in 1 .. Len(l.sequence) /\ l.sequence[i] = x /\ Len(l.sequence) \in Nat
  BY <1>1, <1>2, PositionOf, LenProperties
<1> HIDE DEF i
<1>4. i \in 1 .. Len(l.sequence) - 1
  BY <1>1, <1>3
<1>5. QED BY <1>1, <1>3, <1>4 DEF Settled

LEMMA SettledHolds ==
  ASSUME NEW T, NEW l, Settled(l, T)
  PROVE  /\ Sound(l, T) /\ \A u : Held(l, u)
         /\ l.onObject = Sequenced(l)
         /\ \A u : u \notin Sequenced(l) => ~HasExplicitConstraint(l, u)
<1>1. Sound(l, T)
  BY DEF Settled
<1>2. \A u : u \notin Sequenced(l) => ~HasExplicitConstraint(l, u)
  BY DEF Settled, HasExplicitConstraint
<1>3. l.onObject = Sequenced(l)
  BY DEF Settled, Sound, Attached
<1>4. \A u : Held(l, u)
  BY <1>3 DEF Held, Settled
<1>5. QED BY <1>1, <1>2, <1>3, <1>4

(* A request that has put one token in its place is freed: what is left is *)
(* the token in that place.                                                *)
LEMMA FreedPut ==
  ASSUME NEW T, NEW l, NEW p, NEW s, NEW t, NEW i, NEW r, NEW m,
         T \in SUBSET Token, Settled(l, T), p \in T, s \in T, p # s, t \in {p, s},
         t \notin Sequenced(l), r \in Lines(T), r.sequence = InsertAt(l.sequence, i, t),
         r.toOrder = l.toOrder \ {t}, r.explicit = l.explicit \cup {<<p, s>>},
         l.precedences \subseteq r.precedences,
         \A c \in r.precedences : c \in l.precedences \/ t \in {c[1], c[2]},
         l.onObject \subseteq r.onObject, r.onObject \subseteq l.onObject \cup {t},
         m = [r EXCEPT !.explicit = @ \ {<<p, s>>}]
  PROVE  m.explicit = l.explicit /\ PutAt(l, T, ObjectFree(m, p, s), i, t)
<1> DEFINE gone == {<<p, s>>}
           f == FreePrecedences(m, gone)
<1>1. l \in Lines(T) /\ gone \in SUBSET Pairs
  BY DEF Settled, Sound, Pairs
<1>2. <<p, s>> \notin l.explicit /\ <<p, s>> \notin l.precedences
  <2>1. ~HasExplicitConstraint(l, t) /\ PrecedencesOf(l, t) = {}
    BY SettledHolds, Unconstrained
  <2>2. QED BY <2>1 DEF HasExplicitConstraint, PrecedencesOf
<1>3. /\ m \in Lines(T) /\ m.sequence = r.sequence /\ m.toOrder = r.toOrder
      /\ m.precedences = r.precedences /\ m.onObject = r.onObject /\ m.explicit = l.explicit
  <2>1. r.explicit \ {<<p, s>>} = l.explicit /\ l.explicit \in SUBSET Pairs
    BY <1>1, <1>2 DEF Lines
  <2>2. m = [r EXCEPT !.explicit = l.explicit]
    BY <2>1
  <2>3. QED BY ONLY <2>1, <2>2, r \in Lines(T) DEF Lines
<1>4. /\ f \in Lines(T) /\ f.sequence = m.sequence /\ f.toOrder = m.toOrder
      /\ f.precedences = m.precedences \ gone /\ f.explicit = m.explicit \ gone
      /\ f.onObject = {u \in m.onObject :
                         \/ \A c \in gone : u \notin {c[1], c[2]}
                         \/ PrecedencesOf(f, u) # {} \/ HasExplicitConstraint(f, u)}
  <2>1. m \in Lines(T) /\ gone \in SUBSET Pairs
    BY <1>1, <1>3
  <2> HIDE DEF gone
  <2>2. QED BY ONLY <2>1, T \in SUBSET Token, FreeFields DEF f
<1>5. ObjectFree(m, p, s) = f
  BY DEF ObjectFree
<1> HIDE DEF f
<1>6. f.explicit = l.explicit
  BY <1>2, <1>3, <1>4
<1>7. \A c \in Pairs : t \notin {c[1], c[2]} => (c \in f.precedences <=> c \in l.precedences)
  BY <1>2, <1>3, <1>4
<1>8. ASSUME NEW u, u # t PROVE u \in f.onObject <=> u \in l.onObject
  <2>1. u \in l.onObject => HasExplicitConstraint(f, u)
    BY <1>6, SettledHolds DEF Settled, HasExplicitConstraint
  <2>2. QED BY <2>1, <1>3, <1>4, <1>8
<1>9. Held(f, t)
  BY <1>4 DEF Held
<1>10. PutAt(l, T, f, i, t)
  BY <1>3, <1>4, <1>6, <1>7, <1>8, <1>9 DEF PutAt
<1>11. QED BY <1>3, <1>5, <1>10

LEMMA BackAhead ==
  ASSUME NEW T, NEW l, NEW p, NEW s,
         T \in SUBSET Token, Settled(l, T), p \in T, s \in T, p \notin Sequenced(l),
         s \in Sequenced(l)
  PROVE  Freed(Constrained(l, p, s), p, s) = l
<1> DEFINE i == Position(l, s)
           r == Constrained(l, p, s)
           m == [r EXCEPT !.explicit = @ \ {<<p, s>>}]
           f == ObjectFree(m, p, s)
<1>1. /\ Sound(l, T) /\ \A u : Held(l, u)
      /\ l.onObject = Sequenced(l) /\ ~HasExplicitConstraint(l, p)
      /\ HasExplicitConstraint(l, s)
  BY SettledHolds DEF Settled
<1>2. /\ r \in Lines(T) /\ r.sequence = InsertAt(l.sequence, i, p)
      /\ r.toOrder = l.toOrder \ {p} /\ r.explicit = l.explicit \cup {<<p, s>>}
      /\ i = 1 => r.precedences = l.precedences \cup {<<p, s>>}
      /\ i # 1 => r.precedences = l.precedences \cup {<<p, s>>, <<l.sequence[i - 1], p>>}
      /\ l.onObject \cup {p, s} \subseteq r.onObject
      /\ r.onObject \subseteq l.onObject \cup {p} \cup Sequenced(l)
  BY <1>1, OrderedAhead
<1>3. i \in 1 .. Len(l.sequence) + 1 /\ p # s
  <2>1. i \in 1 .. Len(l.sequence) /\ Len(l.sequence) \in Nat
    BY <1>1, PositionOf, LenProperties DEF Sound, Lines
  <2>2. QED BY <2>1
<1> HIDE DEF r, i
<1>4. m.explicit = l.explicit /\ PutAt(l, T, f, i, p)
  <2>1. /\ l.precedences \subseteq r.precedences
        /\ \A c \in r.precedences : c \in l.precedences \/ p \in {c[1], c[2]}
    BY <1>2
  <2>2. l.onObject \subseteq r.onObject /\ r.onObject \subseteq l.onObject \cup {p}
    BY <1>1, <1>2
  <2>3. QED BY <1>2, <1>3, <2>1, <2>2, FreedPut
<1> HIDE DEF m, f
<1>5. /\ Drop(f, p) = l /\ p \in Sequenced(f) /\ Sequenced(f) = Sequenced(l) \cup {p}
      /\ IsInjective(f.sequence)
  BY <1>1, <1>3, <1>4, DropPut
<1>6. Before(f, p) \in Sequenced(l) \cup {NoToken}
  <2>1. f.sequence \in Seq(T)
    BY <1>4 DEF PutAt, Lines
  <2>2. QED BY <1>5, <2>1, Neighbours
<1>7. HasExplicitConstraint(m, s) /\ ~HasExplicitConstraint(m, p)
  BY <1>1, <1>4 DEF HasExplicitConstraint
<1>8. FreedPair(m, p, s) = Relinked(Drop(f, p), Before(f, p), s)
  BY <1>7 DEF FreedPair, f
<1>9. Freed(r, p, s) = FreedPair(m, p, s)
  BY <1>3, <1>7 DEF Freed, m
<1>10. Relinked(l, Before(f, p), s) = l
  BY <1>6, RelinkedIdle
<1>11. QED BY <1>5, <1>8, <1>9, <1>10 DEF r

LEMMA BackAfter ==
  ASSUME NEW T, NEW l, NEW p, NEW s,
         T \in SUBSET Token, Settled(l, T), p \in T, s \in T, p \in Sequenced(l),
         s \notin Sequenced(l)
  PROVE  Freed(Constrained(l, p, s), p, s) = l
<1> DEFINE i == Position(l, p) + 1
           r == Constrained(l, p, s)
           m == [r EXCEPT !.explicit = @ \ {<<p, s>>}]
           f == ObjectFree(m, p, s)
<1>1. /\ Sound(l, T) /\ \A u : Held(l, u)
      /\ l.onObject = Sequenced(l) /\ ~HasExplicitConstraint(l, s)
      /\ HasExplicitConstraint(l, p)
  BY SettledHolds DEF Settled
<1>2. i \in 1 .. Len(l.sequence) + 1 /\ p # s /\ Len(l.sequence) \in Nat
  <2>1. Position(l, p) \in 1 .. Len(l.sequence) /\ Len(l.sequence) \in Nat
    BY <1>1, PositionOf, LenProperties DEF Sound, Lines
  <2>2. QED BY <2>1
<1>3. i = Position(l, p) + 1
  OBVIOUS
<1> HIDE DEF i
<1>4. /\ r \in Lines(T) /\ r.sequence = InsertAt(l.sequence, i, s)
      /\ r.toOrder = l.toOrder \ {s} /\ r.explicit = l.explicit \cup {<<p, s>>}
      /\ i > Len(l.sequence) => r.precedences = l.precedences \cup {<<p, s>>}
      /\ i <= Len(l.sequence) => r.precedences = l.precedences \cup {<<p, s>>, <<s, l.sequence[i]>>}
      /\ l.onObject \cup {p, s} \subseteq r.onObject
      /\ r.onObject \subseteq l.onObject \cup {s} \cup Sequenced(l)
  <2>1. Sound(l, T)
    BY <1>1
  <2> HIDE DEF r
  <2>2. r = Constrained(l, p, s)
    BY DEF r
  <2>3. QED BY <2>1, <2>2, <1>3, OrderedAfter
<1> HIDE DEF r
<1>5. m.explicit = l.explicit /\ PutAt(l, T, f, i, s)
  <2>1. i > Len(l.sequence) \/ i <= Len(l.sequence)
    BY <1>2
  <2>2. /\ l.precedences \subseteq r.precedences
        /\ \A c \in r.precedences : c \in l.precedences \/ s \in {c[1], c[2]}
    BY <2>1, <1>4
  <2>3. l.onObject \subseteq r.onObject /\ r.onObject \subseteq l.onObject \cup {s}
    BY <1>1, <1>4
  <2>4. QED BY <1>2, <1>4, <2>2, <2>3, FreedPut
<1> HIDE DEF m, f
<1>6. Drop(f, s) = l
  BY <1>1, <1>2, <1>5, DropPut
<1>7. HasExplicitConstraint(m, p) /\ ~HasExplicitConstraint(m, s)
  BY <1>1, <1>5 DEF HasExplicitConstraint
<1>8. FreedPair(m, p, s) = Relinked(Drop(f, s), p, After(f, s))
  BY <1>7 DEF FreedPair, f
<1>9. Freed(r, p, s) = FreedPair(m, p, s)
  BY <1>2, <1>7 DEF Freed, m
<1>10. Relinked(l, p, After(f, s)) = l
  BY RelinkedIdle
<1>11. QED BY <1>6, <1>8, <1>9, <1>10 DEF r

LEMMA BackFirst ==
  ASSUME NEW T, NEW l, NEW p, NEW s,
         T \in SUBSET Token, Settled(l, T), p \in T, s \in T, l.sequence = << >>
  PROVE  Freed(Constrained(l, p, s), p, s) = l
<1> DEFINE r == Constrained(l, p, s)
           m == [r EXCEPT !.explicit = @ \ {<<p, s>>}]
           f == ObjectFree(m, p, s)
<1>1. /\ Sound(l, T) /\ \A u : Held(l, u)
      /\ \A u : u \notin Sequenced(l) => ~HasExplicitConstraint(l, u)
  BY SettledHolds
<1>2. /\ Sequenced(l) = {} /\ l.precedences = {} /\ l.onObject = {} /\ l.toOrder = T
      /\ r \in Lines(T) /\ r.toOrder = l.toOrder \ {p, s}
      /\ r.explicit = l.explicit \cup {<<p, s>>} /\ r.onObject = {p, s}
      /\ p = s => r.sequence = <<s>> /\ r.precedences = {}
      /\ p # s => r.sequence = <<p, s>> /\ r.precedences = {<<p, s>>}
  <2>1. Sound(l, T)
    BY <1>1
  <2> HIDE DEF r
  <2>2. r = Constrained(l, p, s)
    BY DEF r
  <2>3. QED BY <2>1, <2>2, OrderedFirst DEF Sound
<1> HIDE DEF r
<1>3. l.explicit = {} /\ l \in Lines(T)
  BY <1>2 DEF Settled, Sound
<1>4. /\ m \in Lines(T) /\ m.sequence = r.sequence /\ m.toOrder = r.toOrder
      /\ m.precedences = r.precedences /\ m.onObject = r.onObject /\ m.explicit = {}
  <2>1. r.explicit \ {<<p, s>>} = {}
    BY <1>2, <1>3
  <2>2. m = [r EXCEPT !.explicit = {}]
    BY <2>1
  <2> HIDE DEF m
  <2>3. QED BY <2>2, <1>2 DEF Lines
<1>5. Freed(r, p, s) = IF p = s THEN Unlink(f, p) ELSE FreedPair(m, p, s)
  <2>1. ~HasExplicitConstraint(m, p)
    BY <1>4 DEF HasExplicitConstraint
  <2> HIDE DEF f
  <2>2. QED BY <2>1 DEF Freed, f, m
<1> HIDE DEF m
<1>6. InsertAt(<< >>, 1, p) = <<p>> /\ InsertAt(<<p>>, 2, s) = <<p, s>>
  BY PutFirst
<1>7. 1 \in 1 .. Len(l.sequence) + 1
  OBVIOUS
<1>8. CASE p = s
  <2>1. f = Clean(m, {p})
    BY <1>8 DEF ObjectFree
  <2> HIDE DEF f
  <2>2. /\ f \in Lines(T) /\ f.sequence = m.sequence /\ f.toOrder = m.toOrder
        /\ f.precedences = {} /\ f.explicit = {} /\ f.onObject = {}
    BY <1>2, <1>4, <1>8, <2>1 DEF Clean, Lines, PrecedencesOf, HasExplicitConstraint
  <2>3. PutAt(l, T, f, 1, p)
    BY <1>2, <1>3, <1>4, <1>6, <1>8, <2>2 DEF PutAt, Held
  <2>4. Drop(f, p) = l /\ p \in Sequenced(f)
    BY <1>1, <1>2, <1>7, <2>3, DropPut
  <2>5. Position(f, p) = 1
    BY <1>2, <1>4, <1>8, <2>2, <2>4, PositionOf
  <2>6. Unlink(f, p) = Drop(f, p)
    BY <2>5 DEF Unlink
  <2>7. QED BY <1>5, <1>8, <2>4, <2>6 DEF r
<1>9. CASE p # s
  <2> DEFINE k == [l EXCEPT !.sequence = <<p>>, !.toOrder = @ \ {p}]
  <2>1. /\ f \in Lines(T) /\ f.sequence = m.sequence /\ f.toOrder = m.toOrder
        /\ f.precedences = {} /\ f.explicit = {} /\ f.onObject = {}
    <3> DEFINE gone == {<<p, s>>}
    <3>1. f = FreePrecedences(m, gone) /\ gone \in SUBSET Pairs
      BY <1>9 DEF ObjectFree, Pairs
    <3> HIDE DEF f
    <3>2. /\ f \in Lines(T) /\ f.sequence = m.sequence /\ f.toOrder = m.toOrder
          /\ f.precedences = m.precedences \ gone /\ f.explicit = m.explicit \ gone
          /\ f.onObject = {u \in m.onObject :
                             \/ \A c \in gone : u \notin {c[1], c[2]}
                             \/ PrecedencesOf(f, u) # {} \/ HasExplicitConstraint(f, u)}
      <4>1. m \in Lines(T) /\ T \in SUBSET Token
        BY <1>4
      <4> HIDE DEF gone
      <4>2. QED BY ONLY <3>1, <4>1, FreeFields
    <3>3. f.precedences = {} /\ f.explicit = {}
      BY <3>2, <1>2, <1>4, <1>9
    <3>4. \A u : PrecedencesOf(f, u) = {} /\ ~HasExplicitConstraint(f, u)
      BY <3>3 DEF PrecedencesOf, HasExplicitConstraint
    <3>5. \A u \in m.onObject : ~ \A c \in gone : u \notin {c[1], c[2]}
      BY <1>2, <1>4
    <3>6. f.onObject = {}
      <4> HIDE DEF gone
      <4> QED BY <3>2, <3>4, <3>5
    <3>7. QED BY <3>2, <3>3, <3>6
  <2> HIDE DEF f
  <2>2. /\ k \in Lines(T) /\ k.sequence = <<p>> /\ k.toOrder = T \ {p}
        /\ k.precedences = {} /\ k.explicit = {} /\ k.onObject = {}
    <3>1. <<p>> \in Seq(T)
      OBVIOUS
    <3>2. QED BY <3>1, <1>2, <1>3 DEF Lines
  <2> HIDE DEF k
  <2>3. Sequenced(k) = {p} /\ IsInjective(k.sequence)
    BY <2>2 DEF Sequenced, ToSet, IsInjective
  <2>4. \A u : /\ PrecedencesOf(k, u) = {} /\ ~HasExplicitConstraint(k, u) /\ Held(k, u)
    BY <2>2 DEF PrecedencesOf, HasExplicitConstraint, Held
  <2>5. Sound(k, T)
    BY <2>2, <2>3, <2>4 DEF Sound, Attached
  <2>6. PutAt(l, T, k, 1, p)
    BY <1>2, <1>3, <1>6, <2>2 DEF PutAt, Held
  <2>7. Drop(k, p) = l
    BY <1>1, <1>2, <1>7, <2>6, DropPut
  <2>8. PutAt(k, T, f, 2, s)
    BY <1>2, <1>4, <1>6, <1>9, <2>1, <2>2 DEF PutAt, Held
  <2>9. 2 \in 1 .. Len(k.sequence) + 1 /\ s \notin Sequenced(k)
    BY <1>9, <2>2, <2>3
  <2>10. Drop(f, s) = k
    BY <2>4, <2>5, <2>8, <2>9, DropPut
  <2>11. ~HasExplicitConstraint(m, p) /\ ~HasExplicitConstraint(m, s)
    BY <1>4 DEF HasExplicitConstraint
  <2>12. FreedPair(m, p, s) = Relinked(Drop(k, p), Before(k, p), After(f, s))
    BY <2>10, <2>11 DEF FreedPair, f
  <2>13. Before(k, p) = NoToken
    <3>1. k.sequence \in Seq(T) /\ p \in Sequenced(k)
      BY <2>2, <2>3 DEF Lines
    <3>2. Before(k, p) \in (Sequenced(k) \ {p}) \cup {NoToken}
      BY <2>3, <3>1, Neighbours
    <3>3. QED BY <2>3, <3>2
  <2>14. Relinked(l, Before(k, p), After(f, s)) = l
    BY <2>13, RelinkedIdle
  <2>15. QED BY <1>5, <1>9, <2>7, <2>12, <2>14 DEF r
<1>10. QED BY <1>8, <1>9

LEMMA BackAgain == IInv => UndoRestores
<1> SUFFICES ASSUME IInv, NeighboursConstrained, ExplicitIsAsked,
                    \A t \in Sequenced(line) : HasExplicitConstraint(line, t),
                    NEW p, NEW s, p \in tokens, s \in tokens, MayConstrain(p, s)
             PROVE  Freed(Constrained(line, p, s), p, s) = line
  BY DEF UndoRestores
<1>1. tokens \in SUBSET Token
  BY DEF IInv, TypeOK
<1>2. Settled(line, tokens)
  BY DEF IInv, RequestsHold, NeighboursConstrained, ExplicitIsAsked, Settled
<1>3. line.sequence # << >> => ((p \in Sequenced(line)) # (s \in Sequenced(line)))
  BY DEF MayConstrain
<1>4. QED BY <1>1, <1>2, <1>3, BackFirst, BackAhead, BackAfter

(* Undoing a decision takes back what it did, wherever the token was put.  *)
THEOREM UndoingRestores == Spec => []UndoRestores
BY AlwaysIInv, BackAgain, PTL
-----------------------------------------------------------------------------
(* Neighbours stay tied to each other.  The sequence is taken as an order, *)
(* and what an operation does to a place as what it does to that order.    *)
(*                                                                         *)
(* a comes right before b.                                                 *)
NextTo(q, a, b) ==
  /\ ComesBefore(q, a, b)
  /\ \A c : ~ (ComesBefore(q, a, c) /\ ComesBefore(q, c, b))

(* It is a linear order of the tokens in the sequence.                     *)
LEMMA Linear ==
  ASSUME NEW S, NEW q,
         q \in Seq(S), IsInjective(q)
  PROVE  /\ \A a, b : ComesBefore(q, a, b) => a \in ToSet(q) /\ b \in ToSet(q) /\ a # b
         /\ \A a, b : ComesBefore(q, a, b) => ~ComesBefore(q, b, a)
         /\ \A a, b, c : ComesBefore(q, a, b) /\ ComesBefore(q, b, c) => ComesBefore(q, a, c)
         /\ \A a \in ToSet(q), b \in ToSet(q) : a = b \/ ComesBefore(q, a, b) \/ ComesBefore(q, b, a)
<1>1. DOMAIN q = 1 .. Len(q) /\ Len(q) \in Nat
  BY LenProperties
<1>2. \A i, j \in DOMAIN q : q[i] = q[j] => i = j
  BY DEF IsInjective
<1>3. \A i, j, k \in DOMAIN q : (i < j /\ j < k => i < k) /\ ~ (i < j /\ j < i) /\ (i = j \/ i < j \/ j < i)
  BY <1>1
<1>4. ASSUME NEW a, NEW b, ComesBefore(q, a, b)
      PROVE  a \in ToSet(q) /\ b \in ToSet(q) /\ a # b /\ ~ComesBefore(q, b, a)
  BY <1>2, <1>3, <1>4 DEF ComesBefore, ToSet
<1>5. ASSUME NEW a, NEW b, NEW c, ComesBefore(q, a, b), ComesBefore(q, b, c)
      PROVE  ComesBefore(q, a, c)
  BY <1>2, <1>3, <1>5 DEF ComesBefore
<1>6. ASSUME NEW a \in ToSet(q), NEW b \in ToSet(q)
      PROVE  a = b \/ ComesBefore(q, a, b) \/ ComesBefore(q, b, a)
  <2>1. PICK i \in DOMAIN q : q[i] = a
    BY DEF ToSet
  <2>2. PICK j \in DOMAIN q : q[j] = b
    BY DEF ToSet
  <2>3. QED BY <2>1, <2>2, <1>3 DEF ComesBefore
<1>7. QED BY <1>4, <1>5, <1>6

(* Consecutive places, and only they, are next to each other.              *)
LEMMA SideBySide ==
  ASSUME NEW S, NEW q, NEW i,
         q \in Seq(S), IsInjective(q), i \in 1 .. Len(q) - 1
  PROVE  NextTo(q, q[i], q[i + 1])
<1>1. DOMAIN q = 1 .. Len(q) /\ Len(q) \in Nat
  BY LenProperties
<1>2. \A j, k \in DOMAIN q : q[j] = q[k] => j = k
  BY DEF IsInjective
<1>3. i \in DOMAIN q /\ i + 1 \in DOMAIN q /\ i < i + 1
  BY <1>1
<1>4. \A k \in DOMAIN q : ~ (i < k /\ k < i + 1)
  BY <1>1
<1>5. QED BY <1>2, <1>3, <1>4 DEF NextTo, ComesBefore

LEMMA PlacesOf ==
  ASSUME NEW S, NEW q, NEW a, NEW b,
         q \in Seq(S), IsInjective(q), NextTo(q, a, b)
  PROVE  \E i \in 1 .. Len(q) - 1 : a = q[i] /\ b = q[i + 1]
<1>1. DOMAIN q = 1 .. Len(q) /\ Len(q) \in Nat
  BY LenProperties
<1>2. PICK i, j \in DOMAIN q : i < j /\ q[i] = a /\ q[j] = b
  BY DEF NextTo, ComesBefore
<1>3. i + 1 \in DOMAIN q /\ i < i + 1 /\ i \in 1 .. Len(q) - 1
  BY <1>1, <1>2
<1>4. CASE i + 1 < j
  <2>1. ComesBefore(q, a, q[i + 1]) /\ ComesBefore(q, q[i + 1], b)
    BY <1>2, <1>3, <1>4 DEF ComesBefore
  <2>2. QED BY <2>1 DEF NextTo
<1>5. CASE ~ (i + 1 < j)
  <2>1. j = i + 1
    BY <1>1, <1>2, <1>5
  <2>2. QED BY <2>1, <1>2, <1>3
<1>6. QED BY <1>4, <1>5

(* The order once a token is taken out, and once one is put in.            *)
LEMMA OrderWithout ==
  ASSUME NEW S, NEW q, NEW i,
         q \in Seq(S), IsInjective(q), i \in 1 .. Len(q)
  PROVE  \A a, b : ComesBefore(RemoveAt(q, i), a, b) <=> ComesBefore(q, a, b) /\ q[i] \notin {a, b}
<1> DEFINE r == RemoveAt(q, i)
           was(j) == IF j < i THEN j ELSE j + 1
<1>1. Len(q) \in Nat /\ DOMAIN q = 1 .. Len(q) /\ i \in Nat
  BY LenProperties
<1>2. /\ r \in Seq(S) /\ Len(r) = Len(q) - 1
      /\ \A j \in 1 .. Len(q) - 1 : r[j] = IF j < i THEN q[j] ELSE q[j + 1]
  BY TakenOut
<1>3. /\ \A a, b : ComesBefore(q, a, b) /\ q[i] \notin {a, b} => ComesBefore(r, a, b)
      /\ ToSet(r) = ToSet(q) \ {q[i]}
  BY TakenOutOfOrder
<1> HIDE DEF r
<1>4. DOMAIN r = 1 .. Len(q) - 1
  BY <1>2, LenProperties
<1>5. /\ \A j \in DOMAIN r : was(j) \in DOMAIN q /\ r[j] = q[was(j)]
      /\ \A j, k \in DOMAIN r : j < k => was(j) < was(k)
  BY <1>1, <1>2, <1>4
<1>6. ASSUME NEW a, NEW b, ComesBefore(r, a, b)
      PROVE  ComesBefore(q, a, b) /\ q[i] \notin {a, b}
  <2>1. PICK j, k \in DOMAIN r : j < k /\ r[j] = a /\ r[k] = b
    BY <1>6 DEF ComesBefore
  <2>2. a \in ToSet(r) /\ b \in ToSet(r)
    BY <2>1 DEF ToSet
  <2> HIDE DEF was
  <2>3. ComesBefore(q, a, b)
    BY <2>1, <1>5 DEF ComesBefore
  <2>4. QED BY <2>2, <2>3, <1>3
<1>7. QED BY <1>3, <1>6 DEF r

LEMMA OrderWith ==
  ASSUME NEW S, NEW q, NEW i, NEW e,
         q \in Seq(S), IsInjective(q), i \in 1 .. Len(q) + 1, e \in S, e \notin ToSet(q)
  PROVE  LET r == InsertAt(q, i, e)
         IN  /\ \A a, b : e \notin {a, b} => (ComesBefore(r, a, b) <=> ComesBefore(q, a, b))
             /\ i <= Len(q) => NextTo(r, e, q[i])
             /\ i > 1 => NextTo(r, q[i - 1], e)
             /\ i = 1 => \A a : ~ComesBefore(r, a, e)
             /\ i = Len(q) + 1 => \A a : ~ComesBefore(r, e, a)
<1> DEFINE r == InsertAt(q, i, e)
           was(j) == IF j < i THEN j ELSE j - 1
<1>1. Len(q) \in Nat /\ DOMAIN q = 1 .. Len(q) /\ i \in Nat
  BY LenProperties
<1>2. /\ r \in Seq(S) /\ Len(r) = Len(q) + 1
      /\ \A j \in 1 .. Len(q) + 1 : r[j] = IF j < i THEN q[j] ELSE IF j = i THEN e ELSE q[j - 1]
  BY PutIn
<1>3. IsInjective(r) /\ \A a, b : ComesBefore(q, a, b) => ComesBefore(r, a, b)
  BY PutInOrder
<1> HIDE DEF r
<1>4. DOMAIN r = 1 .. Len(q) + 1 /\ i \in DOMAIN r /\ r[i] = e
  BY <1>1, <1>2, LenProperties
<1>5. /\ \A j \in DOMAIN r : j # i => was(j) \in DOMAIN q /\ r[j] = q[was(j)]
      /\ \A j, k \in DOMAIN r : j < k /\ j # i /\ k # i => was(j) < was(k)
  BY <1>1, <1>2, <1>4
<1>6. \A j, k \in DOMAIN r : r[j] = r[k] => j = k
  BY <1>3 DEF IsInjective
<1>7. ASSUME NEW a, NEW b, ComesBefore(r, a, b), e \notin {a, b}
      PROVE  ComesBefore(q, a, b)
  <2>1. PICK j, k \in DOMAIN r : j < k /\ r[j] = a /\ r[k] = b
    BY <1>7 DEF ComesBefore
  <2>2. j # i /\ k # i
    BY <2>1, <1>4, <1>7
  <2> HIDE DEF was
  <2>3. QED BY <2>1, <2>2, <1>5 DEF ComesBefore
<1>8. ASSUME i <= Len(q) PROVE NextTo(r, e, q[i])
  <2>1. i \in 1 .. Len(r) - 1 /\ r[i + 1] = q[i]
    BY <1>1, <1>2, <1>8
  <2>2. NextTo(r, r[i], r[i + 1])
    BY <2>1, <1>2, <1>3, SideBySide
  <2>3. QED BY <2>1, <2>2, <1>4
<1>9. ASSUME i > 1 PROVE NextTo(r, q[i - 1], e)
  <2>1. i - 1 \in 1 .. Len(r) - 1 /\ r[i - 1] = q[i - 1] /\ (i - 1) + 1 = i
    BY <1>1, <1>2, <1>9
  <2>2. NextTo(r, r[i - 1], r[(i - 1) + 1])
    BY <2>1, <1>2, <1>3, SideBySide
  <2>3. QED BY <2>1, <2>2, <1>4
<1>10. ASSUME i = 1, NEW a PROVE ~ComesBefore(r, a, e)
  BY <1>10, <1>4, <1>6 DEF ComesBefore
<1>11. ASSUME i = Len(q) + 1, NEW a PROVE ~ComesBefore(r, e, a)
  <2>1. \A k \in DOMAIN r : ~ (i < k)
    BY <1>11, <1>1, <1>4
  <2>2. QED BY <2>1, <1>4, <1>6 DEF ComesBefore
<1>12. QED BY <1>3, <1>7, <1>8, <1>9, <1>10, <1>11 DEF r
(* Every two neighbours are tied to each other.                            *)
Linked(l) == \A a, b : NextTo(l.sequence, a, b) => <<a, b>> \in l.precedences

(* In places, as Timeline::isValid has it.                                 *)
LEMMA LinkedIs ==
  ASSUME NEW T, NEW l, Sound(l, T)
  PROVE  Linked(l) <=> \A i \in 1 .. Len(l.sequence) - 1 :
                         <<l.sequence[i], l.sequence[i + 1]>> \in l.precedences
<1> DEFINE q == l.sequence
<1>1. q \in Seq(T) /\ IsInjective(q)
  BY DEF Sound, Lines
<1>2. ASSUME Linked(l), NEW i \in 1 .. Len(q) - 1
      PROVE  <<q[i], q[i + 1]>> \in l.precedences
  <2>1. NextTo(q, q[i], q[i + 1])
    BY <1>1, SideBySide
  <2>2. QED BY <2>1, <1>2 DEF Linked
<1>3. ASSUME \A i \in 1 .. Len(q) - 1 : <<q[i], q[i + 1]>> \in l.precedences,
             NEW a, NEW b, NextTo(q, a, b)
      PROVE  <<a, b>> \in l.precedences
  <2>1. PICK i \in 1 .. Len(q) - 1 : a = q[i] /\ b = q[i + 1]
    BY <1>1, <1>3, PlacesOf
  <2>2. QED BY <2>1, <1>3
<1>4. QED BY <1>2, <1>3 DEF Linked

(* removePredecessor and removeSuccessor return the neighbour, if any.     *)
LEMMA NeighboursFound ==
  ASSUME NEW T, NEW l, NEW t,
         Sound(l, T), t \in Sequenced(l)
  PROVE  /\ \A a : NextTo(l.sequence, a, t) => Before(l, t) = a
         /\ \A b : NextTo(l.sequence, t, b) => After(l, t) = b
<1> DEFINE q == l.sequence
           n == Len(q)
           k == Position(l, t)
<1>1. q \in Seq(T) /\ IsInjective(q) /\ n \in Nat /\ DOMAIN q = 1 .. n
  BY LenProperties DEF Sound, Lines
<1>2. ASSUME NEW a, NextTo(q, a, t)
      PROVE  Before(l, t) = a
  <2>1. PICK i \in 1 .. n - 1 : a = q[i] /\ t = q[i + 1]
    BY <1>1, <1>2, PlacesOf
  <2>2. i + 1 \in DOMAIN q
    BY <1>1
  <2>3. k = i + 1
    BY <1>1, <2>1, <2>2, PositionIs
  <2> HIDE DEF k, q, n
  <2>4. k # 1 /\ n # 1 /\ k - 1 = i
    BY <1>1, <2>3
  <2>5. Before(l, t) = q[k - 1]
    BY <2>4 DEF Before, k, n, q
  <2>6. QED BY <2>1, <2>4, <2>5
<1>3. ASSUME NEW b, NextTo(q, t, b)
      PROVE  After(l, t) = b
  <2>1. PICK i \in 1 .. n - 1 : t = q[i] /\ b = q[i + 1]
    BY <1>1, <1>3, PlacesOf
  <2>2. i \in DOMAIN q
    BY <1>1
  <2>3. k = i
    BY <1>1, <2>1, <2>2, PositionIs
  <2> HIDE DEF k, q, n
  <2>4. k # n /\ n # 1
    BY <1>1, <2>3
  <2>5. After(l, t) = q[k + 1]
    BY <2>4 DEF After, k, n, q
  <2>6. QED BY <2>1, <2>3, <2>5
<1>4. QED BY <1>2, <1>3

(* What tying two tokens to each other and dropping a token do to it.      *)
LEMMA RelinkedOrder ==
  ASSUME NEW T, NEW l, NEW x, NEW y, NEW r,
         T \in SUBSET Token, Sound(l, T), x \in Sequenced(l) \cup {NoToken}, r = Relinked(l, x, y)
  PROVE  /\ r.sequence = l.sequence /\ l.precedences \subseteq r.precedences
         /\ NextTo(l.sequence, x, y) => <<x, y>> \in r.precedences
         /\ \A c \in r.precedences : c \in l.precedences \/ NextTo(l.sequence, c[1], c[2])
<1> DEFINE q == l.sequence
<1>1. l \in Lines(T) /\ q \in Seq(T) /\ IsInjective(q) /\ Len(q) \in Nat /\ DOMAIN q = 1 .. Len(q)
  BY LenProperties DEF Sound, Lines
<1>2. Adjacent(l, x, y) <=> NextTo(q, x, y)
  <2>1. ASSUME Adjacent(l, x, y) PROVE NextTo(q, x, y)
    <3> DEFINE i == Position(l, x)
    <3>1. x \in Sequenced(l) /\ i + 1 <= Len(q) /\ q[i + 1] = y
      BY <2>1 DEF Adjacent
    <3>2. i \in DOMAIN q /\ q[i] = x
      BY <3>1, PositionOf
    <3> HIDE DEF i
    <3>3. i \in 1 .. Len(q) - 1
      BY <1>1, <3>1, <3>2
    <3>4. NextTo(q, q[i], q[i + 1])
      BY <1>1, <3>3, SideBySide
    <3>5. QED BY <3>1, <3>2, <3>4
  <2>2. ASSUME NextTo(q, x, y) PROVE Adjacent(l, x, y)
    <3>1. PICK i \in 1 .. Len(q) - 1 : x = q[i] /\ y = q[i + 1]
      BY <1>1, <2>2, PlacesOf
    <3>2. i \in DOMAIN q /\ i + 1 \in DOMAIN q /\ i + 1 <= Len(q)
      BY <1>1
    <3>3. Position(l, x) = i
      BY <1>1, <3>1, <3>2, PositionIs
    <3>4. x \in Token /\ y \in Token
      BY <1>1, <3>1, <3>2, ElementOfSeq
    <3>5. x # NoToken /\ y # NoToken
      BY <3>4, TimelineAssumption
    <3>6. QED BY <3>1, <3>2, <3>3, <3>5 DEF Adjacent
  <2>3. QED BY <2>1, <2>2
<1>3. CASE ~ (Adjacent(l, x, y) /\ <<x, y>> \notin l.precedences)
  BY <1>2, <1>3 DEF Relinked
<1>4. CASE Adjacent(l, x, y) /\ <<x, y>> \notin l.precedences
  <2>1. r = Implicitly(l, x, y)
    BY <1>4 DEF Relinked, Implicitly
  <2>2. x \in ToSet(q) /\ y \in ToSet(q) /\ x # y
    BY <1>1, <1>2, <1>4, Linear DEF NextTo
  <2>3. x \in T /\ y \in T
    BY <1>1, <2>2, ElementOfSeq DEF ToSet
  <2>4. r.sequence = l.sequence /\ r.precedences = l.precedences \cup {<<x, y>>}
    BY <1>1, <2>1, <2>2, <2>3, ImplicitFields
  <2>5. QED BY <2>4, <1>2, <1>4
<1>5. QED BY <1>3, <1>4

LEMMA DropOrder ==
  ASSUME NEW T, NEW l, NEW t, NEW a, NEW b,
         T \in SUBSET Token, Sound(l, T), t \in Sequenced(l)
  PROVE  ComesBefore(Drop(l, t).sequence, a, b) <=> ComesBefore(l.sequence, a, b) /\ t # a /\ t # b
<1>1. l \in Lines(T) /\ l.sequence \in Seq(T) /\ IsInjective(l.sequence)
  BY DEF Sound, Lines
<1>2. Drop(l, t).sequence = RemoveAt(l.sequence, Position(l, t))
  BY <1>1, DropFields
<1>3. Position(l, t) \in 1 .. Len(l.sequence) /\ l.sequence[Position(l, t)] = t
  BY <1>1, PositionOf, LenProperties
<1>4. QED BY <1>1, <1>2, <1>3, OrderWithout

LEMMA DropPrecedences ==
  ASSUME NEW T, NEW l, NEW t,
         T \in SUBSET Token, Sound(l, T), t \in Sequenced(l)
  PROVE  Drop(l, t).precedences = l.precedences \ PrecedencesOf(l, t)
<1>1. l \in Lines(T)
  BY DEF Sound
<1>2. QED BY <1>1, DropFields

(* Once what stood in a gap has gone, its ends are tied to each other.     *)
LEMMA GapClosed ==
  ASSUME NEW l, NEW r, NEW G,
         \A a, b : ComesBefore(r.sequence, a, b) <=> ComesBefore(l.sequence, a, b) /\ a \notin G /\ b \notin G,
         Linked(l),
         \A a, b : <<a, b>> \in l.precedences /\ a \notin G /\ b \notin G => <<a, b>> \in r.precedences,
         \A a, b, g : NextTo(r.sequence, a, b) /\ g \in G /\ ComesBefore(l.sequence, a, g)
                        /\ ComesBefore(l.sequence, g, b) => <<a, b>> \in r.precedences
  PROVE  Linked(r)
<1> SUFFICES ASSUME NEW a, NEW b, NextTo(r.sequence, a, b)
             PROVE  <<a, b>> \in r.precedences
  BY DEF Linked
<1>1. ComesBefore(l.sequence, a, b) /\ a \notin G /\ b \notin G
  BY DEF NextTo
<1>2. CASE NextTo(l.sequence, a, b)
  BY <1>1, <1>2 DEF Linked
<1>3. CASE ~NextTo(l.sequence, a, b)
  <2>1. PICK c : ComesBefore(l.sequence, a, c) /\ ComesBefore(l.sequence, c, b)
    BY <1>1, <1>3 DEF NextTo
  <2>2. c \in G
    BY <2>1, <1>1 DEF NextTo
  <2>3. QED BY <2>1, <2>2
<1>4. QED BY <1>2, <1>3

(* The order of a sound timeline.                                          *)
LEMMA Ordering ==
  ASSUME NEW T, NEW l, Sound(l, T)
  PROVE  /\ \A a, b : ComesBefore(l.sequence, a, b) =>
              a \in Sequenced(l) /\ b \in Sequenced(l) /\ a # b /\ ~ComesBefore(l.sequence, b, a)
         /\ \A a, b, c : ComesBefore(l.sequence, a, b) /\ ComesBefore(l.sequence, b, c) =>
              ComesBefore(l.sequence, a, c)
         /\ \A a \in Sequenced(l), b \in Sequenced(l) :
              a = b \/ ComesBefore(l.sequence, a, b) \/ ComesBefore(l.sequence, b, a)
<1>1. l.sequence \in Seq(T) /\ IsInjective(l.sequence)
  BY DEF Sound, Lines
<1>2. QED BY <1>1, Linear DEF Sequenced

(* Two tokens side by side are taken out together: what they leave are the *)
(* neighbours that After and Before tell.                                  *)
LEMMA FreedPairOrder ==
  ASSUME NEW T, NEW l, NEW p, NEW s, NEW r,
         T \in SUBSET Token, Sound(l, T), p \in Sequenced(l), s \in Sequenced(l), p # s, p \in T,
         s \in T, <<p, s>> \notin l.explicit, NextTo(l.sequence, p, s), Linked(l),
         ~ (HasExplicitConstraint(l, p) /\ HasExplicitConstraint(l, s)), r = FreedPair(l, p, s)
  PROVE  /\ Linked(r)
         /\ \A c \in r.precedences : c \in l.precedences \/ NextTo(r.sequence, c[1], c[2])
         /\ \A a, b : ComesBefore(r.sequence, a, b) => ComesBefore(l.sequence, a, b)
         /\ \A u \in {p, s} : ~HasExplicitConstraint(l, u) => u \notin Sequenced(r)
         /\ Sequenced(r) \subseteq Sequenced(l)
<1> DEFINE G == {u \in {p, s} : ~HasExplicitConstraint(l, u)}
           m == ObjectFree(l, p, s)
           y == IF HasExplicitConstraint(l, s) THEN s ELSE After(m, s)
           d == IF HasExplicitConstraint(l, s) THEN m ELSE Drop(m, s)
           x == IF HasExplicitConstraint(l, p) THEN p ELSE Before(d, p)
           e == IF HasExplicitConstraint(l, p) THEN d ELSE Drop(d, p)
           before(a, b) == ComesBefore(l.sequence, a, b)
<1>1. r = Relinked(e, x, y)
  BY DEF FreedPair
<1>2. /\ Sound(m, T) /\ Keeps(l, m) /\ Sequenced(m) = Sequenced(l)
      /\ Held(m, p) /\ Held(m, s)
  BY ObjectFreeSound
<1>3. m.sequence = l.sequence /\ m.precedences = l.precedences \ {<<p, s>>}
  <2> DEFINE gone == {<<p, s>>}
  <2>1. gone \in SUBSET Pairs /\ m = FreePrecedences(l, gone) /\ l \in Lines(T)
    BY DEF Pairs, ObjectFree, Sound
  <2>2. QED BY <2>1, FreeFields
<1>x. (s \in G <=> ~HasExplicitConstraint(l, s)) /\ (p \in G <=> ~HasExplicitConstraint(l, p)) /\ G \subseteq {p, s}
  OBVIOUS
<1> HIDE DEF m, G
<1>4. /\ Sound(d, T) /\ Keeps(m, d) /\ p \in Sequenced(d) /\ Held(d, p)
      /\ Sequenced(d) = Sequenced(l) \ (G \cap {s})
      /\ d.precedences \subseteq l.precedences
      /\ \A a, b : <<a, b>> \in l.precedences /\ a \notin G /\ b \notin G => <<a, b>> \in d.precedences
      /\ \A a, b : ComesBefore(d.sequence, a, b) <=> before(a, b) /\ {a, b} \cap G \cap {s} = {}
  <2>1. \A a, b : <<a, b>> \in l.precedences /\ a \notin G /\ b \notin G => <<a, b>> \in m.precedences
    BY <1>3, <1>x
  <2>2. CASE s \notin G
    <3>1. d = m
      BY <2>2, <1>x
    <3>2. QED BY <3>1, <2>1, <2>2, <1>2, <1>3 DEF Keeps
  <2>3. CASE s \in G
    <3>1. ~HasExplicitConstraint(m, s)
      BY <2>3, <1>x, <1>2 DEF Keeps, HasExplicitConstraint
    <3>2. d = Drop(m, s)
      BY <2>3, <1>x
    <3> HIDE DEF d
    <3>3. /\ Sound(d, T) /\ Keeps(m, d) /\ Sequenced(d) = Sequenced(m) \ {s}
          /\ \A u : Held(m, u) => Held(d, u)
      BY <3>1, <3>2, <1>2, DropSound
    <3>4. /\ d.precedences = m.precedences \ PrecedencesOf(m, s)
          /\ \A a, b : ComesBefore(d.sequence, a, b) <=> ComesBefore(m.sequence, a, b) /\ s \notin {a, b}
      <4>1. Sound(m, T) /\ s \in Sequenced(m)
        BY <1>2
      <4>2. QED BY ONLY <4>1, <3>2, T \in SUBSET Token, DropOrder, DropPrecedences
    <3>5. \A a, b : <<a, b>> \in l.precedences /\ a \notin G /\ b \notin G => <<a, b>> \in d.precedences
      BY <2>1, <2>3, <3>4 DEF PrecedencesOf
    <3>6. QED BY <3>3, <3>4, <3>5, <2>3, <1>2, <1>3
  <2>4. QED BY <2>2, <2>3
<1>5. /\ Sound(e, T) /\ x \in Sequenced(e) \cup {NoToken}
      /\ Sequenced(e) = Sequenced(l) \ G
      /\ e.precedences \subseteq l.precedences
      /\ \A a, b : <<a, b>> \in l.precedences /\ a \notin G /\ b \notin G => <<a, b>> \in e.precedences
      /\ \A a, b : ComesBefore(e.sequence, a, b) <=> before(a, b) /\ a \notin G /\ b \notin G
  <2> HIDE DEF d
  <2>1. CASE p \notin G
    <3>1. e = d /\ x = p
      BY <2>1, <1>x
    <3>2. QED BY <3>1, <2>1, <1>4, <1>x
  <2>2. CASE p \in G
    <3>1. ~HasExplicitConstraint(d, p)
      BY <2>2, <1>x, <1>2, <1>4 DEF Keeps, HasExplicitConstraint
    <3>2. e = Drop(d, p) /\ x = Before(d, p)
      BY <2>2, <1>x
    <3> HIDE DEF e, x
    <3>3. Sound(e, T) /\ Sequenced(e) = Sequenced(d) \ {p}
      BY <3>1, <3>2, <1>4, DropSound
    <3>4. d.sequence \in Seq(T) /\ IsInjective(d.sequence)
      BY <1>4 DEF Sound, Lines
    <3>5. x \in (Sequenced(d) \ {p}) \cup {NoToken}
      BY <3>2, <3>4, <1>4, Neighbours
    <3>6. /\ e.precedences = d.precedences \ PrecedencesOf(d, p)
          /\ \A a, b : ComesBefore(e.sequence, a, b) <=> ComesBefore(d.sequence, a, b) /\ p \notin {a, b}
      <4>1. Sound(d, T) /\ p \in Sequenced(d)
        BY <1>4
      <4>2. QED BY ONLY <4>1, <3>2, T \in SUBSET Token, DropOrder, DropPrecedences
    <3>7. \A a, b : <<a, b>> \in l.precedences /\ a \notin G /\ b \notin G => <<a, b>> \in e.precedences
      BY <2>2, <3>6, <1>4 DEF PrecedencesOf
    <3>8. \A a, b : ComesBefore(e.sequence, a, b) <=> before(a, b) /\ a \notin G /\ b \notin G
      BY <2>2, <3>6, <1>4, <1>x
    <3>9. Sequenced(e) = Sequenced(l) \ G /\ e.precedences \subseteq l.precedences
      BY <2>2, <3>3, <3>6, <1>4, <1>x
    <3>10. QED BY <3>3, <3>5, <3>7, <3>8, <3>9
  <2>3. QED BY <2>1, <2>2
<1>6. /\ r.sequence = e.sequence /\ e.precedences \subseteq r.precedences
      /\ NextTo(e.sequence, x, y) => <<x, y>> \in r.precedences
      /\ \A c \in r.precedences : c \in e.precedences \/ NextTo(e.sequence, c[1], c[2])
  <2> HIDE DEF e, x, y
  <2>1. QED BY <1>1, <1>5, RelinkedOrder
<1>7. /\ \A a, b : before(a, b) => a \in Sequenced(l) /\ b \in Sequenced(l) /\ a # b /\ ~before(b, a)
      /\ \A a, b, c : before(a, b) /\ before(b, c) => before(a, c)
      /\ \A a \in Sequenced(l), b \in Sequenced(l) : a = b \/ before(a, b) \/ before(b, a)
  BY Ordering
<1>8. before(p, s) /\ \A c : ~ (before(p, c) /\ before(c, s))
  BY DEF NextTo
<1>9. ASSUME NEW a, NEW b, NEW g, NextTo(e.sequence, a, b), g \in G, before(a, g), before(g, b)
      PROVE  x = a /\ y = b
  <2> HIDE DEF before
  <2>1. /\ a \notin G /\ b \notin G
        /\ \A c : before(a, c) /\ before(c, b) => c \in G
    BY <1>5, <1>9 DEF NextTo
  <2>2. CASE p \in G /\ s \notin G
    <3>1. g = p
      BY <2>2, <1>9, <1>x
    <3>2. before(a, p) /\ \A c : ~ (before(a, c) /\ before(c, p))
      BY <3>1, <2>1, <2>2, <1>7, <1>9, <1>x
    <3>3. d = m /\ x = Before(d, p) /\ y = s
      BY <2>2, <1>x
    <3>4. NextTo(d.sequence, a, p)
      BY <3>2, <3>3, <1>3 DEF NextTo, before
    <3>5. x = a
      <4> HIDE DEF x, d
      <4>1. QED BY <3>3, <3>4, <1>4, NeighboursFound
    <3>6. b = s
      BY <3>1, <2>1, <2>2, <1>7, <1>8, <1>9
    <3>7. QED BY <3>3, <3>5, <3>6
  <2>3. CASE p \notin G /\ s \in G
    <3>1. g = s
      BY <2>3, <1>9, <1>x
    <3>2. before(s, b) /\ \A c : ~ (before(s, c) /\ before(c, b))
      BY <3>1, <2>1, <2>3, <1>7, <1>9, <1>x
    <3>3. x = p /\ y = After(m, s)
      BY <2>3, <1>x
    <3>4. NextTo(m.sequence, s, b)
      BY <3>2, <1>3 DEF NextTo, before
    <3>5. y = b
      <4> HIDE DEF y
      <4>1. QED BY <3>3, <3>4, <1>2, NeighboursFound
    <3>6. a = p
      BY <3>1, <2>1, <2>3, <1>7, <1>8, <1>9
    <3>7. QED BY <3>3, <3>5, <3>6
  <2>4. CASE p \in G /\ s \in G
    <3>1. before(a, p) /\ before(s, b)
      BY <2>1, <2>4, <1>7, <1>8, <1>9, <1>x
    <3>2. \A c : ~ (before(s, c) /\ before(c, b))
      BY <3>1, <2>1, <2>4, <1>7, <1>8, <1>x
    <3>3. \A c : ~ (before(a, c) /\ before(c, p))
      BY <3>1, <2>1, <2>4, <1>7, <1>8, <1>x
    <3>4. x = Before(d, p) /\ y = After(m, s)
      BY <2>4, <1>x
    <3>5. NextTo(m.sequence, s, b)
      BY <3>1, <3>2, <1>3 DEF NextTo, before
    <3>6. y = b
      <4> HIDE DEF y
      <4>1. QED BY <3>4, <3>5, <1>2, NeighboursFound
    <3> HIDE DEF d
    <3>7. NextTo(d.sequence, a, p)
      <4>1. a # s /\ p # s
        BY <2>1, <2>4
      <4>2. QED BY <4>1, <3>1, <3>3, <1>4 DEF NextTo
    <3>8. x = a
      <4> HIDE DEF x
      <4>1. QED BY <3>4, <3>7, <1>4, NeighboursFound
    <3>9. QED BY <3>6, <3>8
  <2>5. QED BY <2>2, <2>3, <2>4, <1>9, <1>x
<1> HIDE DEF e, x, y, d
<1>10. Linked(r)
  <2>1. \A a, b : ComesBefore(r.sequence, a, b) <=> ComesBefore(l.sequence, a, b) /\ a \notin G /\ b \notin G
    BY <1>5, <1>6
  <2>2. \A a, b : <<a, b>> \in l.precedences /\ a \notin G /\ b \notin G => <<a, b>> \in r.precedences
    BY <1>5, <1>6
  <2>3. \A a, b, g : NextTo(r.sequence, a, b) /\ g \in G /\ ComesBefore(l.sequence, a, g)
                       /\ ComesBefore(l.sequence, g, b) => <<a, b>> \in r.precedences
    BY <1>6, <1>9
  <2>4. QED BY ONLY Linked(l), <2>1, <2>2, <2>3, GapClosed
<1>11. Sequenced(r) = Sequenced(l) \ G
  BY <1>5, <1>6 DEF Sequenced
<1>12. \A c \in r.precedences : c \in l.precedences \/ NextTo(r.sequence, c[1], c[2])
  BY <1>5, <1>6
<1>13. QED BY <1>10, <1>11, <1>12, <1>5, <1>6, <1>x

(* There is one neighbour on each side.                                    *)
LEMMA OneNeighbour ==
  ASSUME NEW T, NEW l, Sound(l, T)
  PROVE  /\ \A a, b, c : NextTo(l.sequence, a, c) /\ NextTo(l.sequence, b, c) => a = b
         /\ \A a, b, c : NextTo(l.sequence, c, a) /\ NextTo(l.sequence, c, b) => a = b
<1>1. /\ \A a, b : ComesBefore(l.sequence, a, b) => a \in Sequenced(l) /\ b \in Sequenced(l)
      /\ \A a \in Sequenced(l), b \in Sequenced(l) :
           a = b \/ ComesBefore(l.sequence, a, b) \/ ComesBefore(l.sequence, b, a)
  BY Ordering
<1>2. QED BY <1>1 DEF NextTo

(* A token that leaves by itself leaves its neighbours tied together.      *)
LEMMA UnlinkOrder ==
  ASSUME NEW T, NEW l, NEW t, NEW r,
         T \in SUBSET Token, Sound(l, T), t \in Sequenced(l), Held(l, t),
         ~HasExplicitConstraint(l, t), Linked(l), r = Unlink(l, t)
  PROVE  /\ Linked(r)
         /\ \A c \in r.precedences : c \in l.precedences \/ NextTo(r.sequence, c[1], c[2])
         /\ \A a, b : ComesBefore(r.sequence, a, b) => ComesBefore(l.sequence, a, b)
         /\ Sequenced(r) = Sequenced(l) \ {t}
<1> DEFINE q == l.sequence
           i == Position(l, t)
           n == Len(q)
           d == Drop(l, t)
           x == q[i - 1]
           y == q[i + 1]
           G == {t}
<1>1. Sound(d, T) /\ Sequenced(d) = Sequenced(l) \ {t}
  BY DropSound
<1>2. /\ d.precedences = l.precedences \ PrecedencesOf(l, t)
      /\ \A a, b : ComesBefore(d.sequence, a, b) <=> ComesBefore(q, a, b) /\ t # a /\ t # b
  <2>1. QED BY ONLY T \in SUBSET Token, Sound(l, T), t \in Sequenced(l), DropOrder, DropPrecedences
<1>3. /\ n \in Nat /\ DOMAIN q = 1 .. n /\ i \in 1 .. n /\ q[i] = t
      /\ q \in Seq(T) /\ IsInjective(q)
  BY PositionOf, LenProperties DEF Sound, Lines
<1>4. \A a, b : <<a, b>> \in l.precedences /\ t # a /\ t # b => <<a, b>> \in d.precedences
  BY <1>2 DEF PrecedencesOf
<1>5. ASSUME NEW a, NEW b, NextTo(d.sequence, a, b), ComesBefore(q, a, t), ComesBefore(q, t, b)
      PROVE  NextTo(q, a, t) /\ NextTo(q, t, b)
  <2>1. /\ \A c, e : ComesBefore(q, c, e) => c # e
        /\ \A c, e, g : ComesBefore(q, c, e) /\ ComesBefore(q, e, g) => ComesBefore(q, c, g)
    BY Ordering
  <2>2. a # t /\ b # t
    BY <1>5, <2>1
  <2>3. QED BY <1>2, <1>5, <2>1, <2>2 DEF NextTo
<1>6. CASE i \in {1, n}
  <2>1. r = d
    BY <1>6 DEF Unlink
  <2>2. \A a, b, g : NextTo(r.sequence, a, b) /\ g \in G /\ ComesBefore(l.sequence, a, g)
                       /\ ComesBefore(l.sequence, g, b) => <<a, b>> \in r.precedences
    <3> SUFFICES ASSUME NEW a, NEW b, ComesBefore(q, a, t), ComesBefore(q, t, b) PROVE FALSE
      BY <2>1
    <3>1. PICK j, k \in DOMAIN q : j < k /\ q[j] = a /\ q[k] = t
      BY DEF ComesBefore
    <3>2. PICK j2, k2 \in DOMAIN q : j2 < k2 /\ q[j2] = t /\ q[k2] = b
      BY DEF ComesBefore
    <3>3. k = i /\ j2 = i
      BY <1>3, <3>1, <3>2 DEF IsInjective
    <3> HIDE DEF q, n, i
    <3>4. QED BY <3>1, <3>2, <3>3, <1>3, <1>6
  <2> HIDE DEF d
  <2>3. /\ \A a, b : ComesBefore(r.sequence, a, b) <=> ComesBefore(l.sequence, a, b) /\ a \notin G /\ b \notin G
        /\ \A a, b : <<a, b>> \in l.precedences /\ a \notin G /\ b \notin G => <<a, b>> \in r.precedences
    BY <2>1, <1>2, <1>4
  <2> HIDE DEF G
  <2>4. Linked(r)
    BY ONLY Linked(l), <2>2, <2>3, GapClosed
  <2>5. QED BY <2>1, <2>4, <1>1, <1>2
<1>7. CASE i \notin {1, n}
  <2>1. r = Relinked(d, x, y)
    BY <1>7 DEF Unlink
  <2>2. i - 1 \in 1 .. n - 1 /\ i \in 1 .. n - 1 /\ (i - 1) + 1 = i /\ i - 1 \in DOMAIN q /\ i - 1 # i
    <3> HIDE DEF q, n, i
    <3>1. QED BY <1>3, <1>7
  <2>3. NextTo(q, x, t) /\ NextTo(q, t, y)
    <3>1. NextTo(q, q[i - 1], q[(i - 1) + 1]) /\ NextTo(q, q[i], q[i + 1])
      BY <1>3, <2>2, SideBySide
    <3>2. QED BY <3>1, <2>2, <1>3
  <2> HIDE DEF x, y, d
  <2>4. x \in Sequenced(d) \cup {NoToken}
    <3>1. x \in Sequenced(l) /\ x # t
      BY <2>3, Ordering DEF NextTo
    <3>2. QED BY <3>1, <1>1
  <2>5. /\ r.sequence = d.sequence /\ d.precedences \subseteq r.precedences
        /\ NextTo(d.sequence, x, y) => <<x, y>> \in r.precedences
        /\ \A c \in r.precedences : c \in d.precedences \/ NextTo(d.sequence, c[1], c[2])
    BY <2>1, <2>4, <1>1, RelinkedOrder
  <2>6. \A a, b, g : NextTo(r.sequence, a, b) /\ g \in G /\ ComesBefore(l.sequence, a, g)
                       /\ ComesBefore(l.sequence, g, b) => <<a, b>> \in r.precedences
    <3> SUFFICES ASSUME NEW a, NEW b, NextTo(d.sequence, a, b), ComesBefore(q, a, t), ComesBefore(q, t, b)
                 PROVE  <<a, b>> \in r.precedences
      BY <2>5
    <3>1. NextTo(q, a, t) /\ NextTo(q, t, b)
      BY <1>5
    <3>2. a = x /\ b = y
      BY <3>1, <2>3, OneNeighbour
    <3>3. QED BY <3>2, <2>5
  <2>7. /\ \A a, b : ComesBefore(r.sequence, a, b) <=> ComesBefore(l.sequence, a, b) /\ a \notin G /\ b \notin G
        /\ \A a, b : <<a, b>> \in l.precedences /\ a \notin G /\ b \notin G => <<a, b>> \in r.precedences
    BY <2>5, <1>2, <1>4
  <2> HIDE DEF G
  <2>8. Linked(r)
    BY ONLY Linked(l), <2>6, <2>7, GapClosed
  <2>9. \A c \in r.precedences : c \in l.precedences \/ NextTo(r.sequence, c[1], c[2])
    BY <2>5, <1>2
  <2>10. Sequenced(r) = Sequenced(l) \ {t}
    BY <2>5, <1>1 DEF Sequenced
  <2>11. QED BY <2>5, <2>8, <2>9, <2>10, <1>2
<1>8. QED BY <1>6, <1>7

(* Freeing a request whose tokens are side by side: what it leaves is      *)
(* tied together, and nothing that is not.                                 *)
LEMMA FreedOrder ==
  ASSUME NEW T, NEW l, NEW p, NEW s, NEW r,
         T \in SUBSET Token, Sound(l, T), p \in Sequenced(l), s \in Sequenced(l),
         p # s => NextTo(l.sequence, p, s), Linked(l), r = Freed(l, p, s)
  PROVE  /\ Linked(r)
         /\ \A c \in r.precedences : c \in l.precedences \/ NextTo(r.sequence, c[1], c[2])
         /\ \A a, b : ComesBefore(r.sequence, a, b) => ComesBefore(l.sequence, a, b)
         /\ \A u \in {p, s} : (\A c \in l.explicit : c = <<p, s>> \/ u \notin {c[1], c[2]})
                                => u \notin Sequenced(r)
         /\ Sequenced(r) \subseteq Sequenced(l)
<1> DEFINE m == [l EXCEPT !.explicit = @ \ {<<p, s>>}]
<1>1. /\ m \in Lines(T) /\ m.sequence = l.sequence /\ m.toOrder = l.toOrder
      /\ m.precedences = l.precedences /\ m.onObject = l.onObject
      /\ m.explicit = l.explicit \ {<<p, s>>}
  BY DEF Sound, Lines
<1> HIDE DEF m
<1>2. Sequenced(m) = Sequenced(l) /\ Linked(m)
  BY <1>1 DEF Sequenced, Linked
<1>3. Sound(m, T)
  <2>1. Attached(m)
    BY <1>1, <1>2 DEF Sound, Attached, PrecedencesOf, HasExplicitConstraint
  <2>2. QED BY <2>1, <1>1, <1>2 DEF Sound
<1>4. p \in T /\ s \in T
  <2>1. l.sequence \in Seq(T)
    BY DEF Sound, Lines
  <2>2. QED BY <2>1, LenProperties, ElementOfSeq DEF Sequenced, ToSet
<1>5. \A u : (\A c \in l.explicit : c = <<p, s>> \/ u \notin {c[1], c[2]}) => ~HasExplicitConstraint(m, u)
  BY <1>1 DEF HasExplicitConstraint
<1>6. r = IF HasExplicitConstraint(m, p) /\ HasExplicitConstraint(m, s) THEN m
          ELSE IF p = s THEN Unlink(ObjectFree(m, p, p), p) ELSE FreedPair(m, p, s)
  BY DEF Freed, m
<1>7. CASE HasExplicitConstraint(m, p) /\ HasExplicitConstraint(m, s)
  <2>1. r = m
    BY <1>6, <1>7
  <2>2. QED BY <2>1, <1>1, <1>2, <1>5, <1>7
<1>8. CASE ~ (HasExplicitConstraint(m, p) /\ HasExplicitConstraint(m, s)) /\ p = s
  <2> DEFINE f == ObjectFree(m, p, p)
  <2>1. r = Unlink(f, p) /\ ~HasExplicitConstraint(m, p)
    BY <1>6, <1>8
  <2>2. Sound(f, T) /\ Keeps(m, f) /\ Sequenced(f) = Sequenced(m) /\ Held(f, p)
    <3>1. <<p, p>> \notin m.explicit
      BY <1>8, <1>1
    <3>2. QED BY <3>1, <1>3, <1>4, ObjectFreeSound
  <2>3. f.sequence = m.sequence /\ f.precedences = m.precedences
    BY <1>1 DEF ObjectFree, Clean, Lines
  <2> HIDE DEF f
  <2>4. ~HasExplicitConstraint(f, p) /\ Linked(f)
    BY <2>1, <2>2, <2>3, <1>2 DEF Keeps, HasExplicitConstraint, Linked
  <2>5. /\ Linked(r)
        /\ \A c \in r.precedences : c \in f.precedences \/ NextTo(r.sequence, c[1], c[2])
        /\ \A a, b : ComesBefore(r.sequence, a, b) => ComesBefore(f.sequence, a, b)
        /\ Sequenced(r) = Sequenced(f) \ {p}
    BY <2>1, <2>2, <2>4, <1>2, UnlinkOrder
  <2>6. QED BY <2>2, <2>3, <2>5, <1>1, <1>2, <1>8
<1>9. CASE ~ (HasExplicitConstraint(m, p) /\ HasExplicitConstraint(m, s)) /\ p # s
  <2>1. r = FreedPair(m, p, s)
    BY <1>6, <1>9
  <2>2. /\ p \in Sequenced(m) /\ s \in Sequenced(m) /\ <<p, s>> \notin m.explicit
        /\ NextTo(m.sequence, p, s)
    BY <1>1, <1>2, <1>9
  <2>3. /\ Linked(r)
        /\ \A c \in r.precedences : c \in m.precedences \/ NextTo(r.sequence, c[1], c[2])
        /\ \A a, b : ComesBefore(r.sequence, a, b) => ComesBefore(m.sequence, a, b)
        /\ \A u \in {p, s} : ~HasExplicitConstraint(m, u) => u \notin Sequenced(r)
        /\ Sequenced(r) \subseteq Sequenced(m)
    BY <2>1, <2>2, <1>2, <1>3, <1>4, <1>9, FreedPairOrder
  <2>4. QED BY <2>3, <1>1, <1>2, <1>5
<1>10. QED BY <1>7, <1>8, <1>9

Over(l, a, x, b) == ComesBefore(l.sequence, a, x) /\ ComesBefore(l.sequence, x, b)

(* Requests are nested.  A token gets a rank when it comes into the        *)
(* sequence, n for the next.  What stands between two tokens tied to each  *)
(* other came after both; if the two were asked for, it was brought by a   *)
(* request; and of two requests the newer, as O tells, brought a token     *)
(* newer than any of the older.                                            *)
Covers(l, rank) ==
  \A c, x : c \in l.precedences /\ Over(l, c[1], x, c[2]) => rank[c[1]] < rank[x] /\ rank[c[2]] < rank[x]

BroughtBy(o, x, rank) == x \in {o[1], o[2]} /\ \A u \in {o[1], o[2]} : u = x \/ rank[u] < rank[x]

Brought(l, A, rank) ==
  \A q, x : q \in A /\ Over(l, q[1], x, q[2]) => \E o \in A : BroughtBy(o, x, rank)

Newer(q, o, rank) == \E t \in {o[1], o[2]} : \A u \in {q[1], q[2]} : rank[u] < rank[t]

Ages(A, O, rank) ==
  /\ \A q, o : q \in A /\ o \in A /\ <<q, o>> \in O => Newer(q, o, rank)
  /\ \A q, o : q \in A /\ o \in A => q = o \/ <<q, o>> \in O \/ <<o, q>> \in O

Ranked(l, rank, n) ==
  /\ n \in Nat /\ rank \in [Token -> Nat]
  /\ \A u, v : u \in Sequenced(l) /\ v \in Sequenced(l) /\ u # v => rank[u] # rank[v]
  /\ \A u \in Sequenced(l) : rank[u] < n

Nested(l, A, O, rank, n) ==
  Covers(l, rank) /\ Brought(l, A, rank) /\ Ages(A, O, rank) /\ Ranked(l, rank, n)

(* The latest request has nothing between its tokens.                      *)
LEMMA LatestSideBySide ==
  ASSUME NEW T, NEW l, NEW A, NEW O, NEW rank, NEW n, NEW p, NEW s,
         T \in SUBSET Token, Sound(l, T), Nested(l, A, O, rank, n), <<p, s>> \in A, p # s,
         <<p, s>> \in l.precedences, \A o \in A : {o[1], o[2]} \subseteq Sequenced(l),
         \A o \in A : o = <<p, s>> \/ <<o, <<p, s>>>> \in O
  PROVE  NextTo(l.sequence, p, s)
<1>1. ComesBefore(l.sequence, p, s)
  BY DEF Sound
<1>2. ASSUME NEW x, Over(l, p, x, s) PROVE FALSE
  <2>1. rank[p] < rank[x] /\ rank[s] < rank[x]
    BY <1>2 DEF Nested, Covers
  <2>2. PICK o \in A : x \in {o[1], o[2]}
    <3>1. Brought(l, A, rank)
      BY DEF Nested
    <3>2. Over(l, <<p, s>>[1], x, <<p, s>>[2])
      BY <1>2
    <3>3. \E o \in A : BroughtBy(o, x, rank)
      BY ONLY <3>1, <3>2, <<p, s>> \in A DEF Brought
    <3>4. QED BY <3>3 DEF BroughtBy
  <2>3. x # p /\ x # s /\ x \in Sequenced(l)
    BY <1>2, Ordering DEF Over
  <2>4. o # <<p, s>>
    BY <2>2, <2>3
  <2>5. PICK t \in {p, s} : rank[x] < rank[t]
    <3>1. Newer(o, <<p, s>>, rank)
      <4>1. <<o, <<p, s>>>> \in O
        BY <2>4
      <4>2. QED BY ONLY <4>1, Nested(l, A, O, rank, n), <<p, s>> \in A, o \in A DEF Nested, Ages
    <3>2. QED BY <3>1, <2>2 DEF Newer
  <2>6. {p, s, x} \subseteq Token
    <3>1. l.sequence \in Seq(T)
      BY DEF Sound, Lines
    <3>2. Sequenced(l) \subseteq T
      BY <3>1, LenProperties, ElementOfSeq DEF Sequenced, ToSet
    <3>3. QED BY <2>3, <3>2
  <2>7. rank[p] \in Nat /\ rank[s] \in Nat /\ rank[x] \in Nat
    BY <2>6 DEF Nested, Ranked
  <2>8. QED BY <2>1, <2>5, <2>7
<1>3. QED BY <1>1, <1>2 DEF NextTo, Over

LEMMA TokensOf ==
  ASSUME NEW T, NEW l, Sound(l, T)
  PROVE  Sequenced(l) \subseteq T
<1>1. l.sequence \in Seq(T)
  BY DEF Sound, Lines
<1>2. QED BY <1>1, LenProperties, ElementOfSeq DEF Sequenced, ToSet

(* It stays so when the latest request is freed.                           *)
LEMMA FreedNested ==
  ASSUME NEW T, NEW l, NEW A, NEW O, NEW rank, NEW n, NEW p, NEW s, NEW r,
         T \in SUBSET Token, Sound(l, T), Nested(l, A, O, rank, n), Linked(l),
         <<p, s>> \in A, \A o \in A : {o[1], o[2]} \subseteq Sequenced(l),
         \A o \in A : o[1] # o[2] => o \in l.precedences,
         \A o \in A : o = <<p, s>> \/ <<o, <<p, s>>>> \in O,
         l.explicit \subseteq A, r = Freed(l, p, s)
  PROVE  /\ Linked(r)
         /\ Nested(r, A \ {<<p, s>>}, O \cap ((A \ {<<p, s>>}) \X (A \ {<<p, s>>})), rank, n)
<1> DEFINE B == A \ {<<p, s>>}
           P == O \cap (B \X B)
<1>1. p \in Sequenced(l) /\ s \in Sequenced(l)
  OBVIOUS
<1>2. p # s => NextTo(l.sequence, p, s)
  BY LatestSideBySide
<1>3. /\ Linked(r)
      /\ \A c \in r.precedences : c \in l.precedences \/ NextTo(r.sequence, c[1], c[2])
      /\ \A a, b : ComesBefore(r.sequence, a, b) => ComesBefore(l.sequence, a, b)
      /\ \A u \in {p, s} : (\A c \in l.explicit : c = <<p, s>> \/ u \notin {c[1], c[2]})
                             => u \notin Sequenced(r)
      /\ Sequenced(r) \subseteq Sequenced(l)
  BY <1>1, <1>2, FreedOrder
<1>4. Covers(r, rank)
  <2> SUFFICES ASSUME NEW c, NEW x, c \in r.precedences, Over(r, c[1], x, c[2])
               PROVE  rank[c[1]] < rank[x] /\ rank[c[2]] < rank[x]
    BY DEF Covers
  <2>1. ~NextTo(r.sequence, c[1], c[2])
    BY DEF Over, NextTo
  <2>2. c \in l.precedences /\ Over(l, c[1], x, c[2])
    BY <2>1, <1>3 DEF Over
  <2>3. QED BY <2>2 DEF Nested, Covers
<1>5. Brought(r, B, rank)
  <2> SUFFICES ASSUME NEW q, NEW x, q \in B, Over(r, q[1], x, q[2])
               PROVE  \E o \in B : BroughtBy(o, x, rank)
    BY DEF Brought
  <2>1. Over(l, q[1], x, q[2])
    BY <1>3 DEF Over
  <2>2. PICK o \in A : BroughtBy(o, x, rank)
    BY <2>1 DEF Nested, Brought
  <2>3. CASE o # <<p, s>>
    BY <2>2, <2>3
  <2>4. CASE o = <<p, s>>
    <3>1. x \in {p, s} /\ \A u \in {p, s} : u = x \/ rank[u] < rank[x]
      BY <2>2, <2>4 DEF BroughtBy
    <3>2. x \in Sequenced(r)
      BY DEF Over, ComesBefore, Sequenced, ToSet
    <3>3. PICK c \in l.explicit : c # <<p, s>> /\ x \in {c[1], c[2]}
      BY <3>1, <3>2, <1>3
    <3>4. PICK t \in {p, s} : rank[x] < rank[t]
      <4>1. <<c, <<p, s>>>> \in O /\ c \in A
        BY <3>3
      <4>2. Newer(c, <<p, s>>, rank)
        BY ONLY <4>1, Nested(l, A, O, rank, n), <<p, s>> \in A DEF Nested, Ages
      <4>3. QED BY <4>2, <3>3 DEF Newer
    <3>5. t \in Token /\ x \in Token
      BY <3>1, <1>1, TokensOf
    <3>6. rank[t] \in Nat /\ rank[x] \in Nat
      BY <3>5 DEF Nested, Ranked
    <3>7. t = x \/ rank[t] < rank[x]
      BY <3>1
    <3>8. QED BY <3>4, <3>6, <3>7
  <2>5. QED BY <2>3, <2>4
<1>6. Ages(B, P, rank)
  BY DEF Nested, Ages
<1>7. Ranked(r, rank, n)
  BY <1>3 DEF Nested, Ranked
<1>8. QED BY <1>3, <1>4, <1>5, <1>6, <1>7 DEF Nested

(* How a token leaves the timeline without a mark being left behind.       *)
LEMMA RemovedOrder ==
  ASSUME NEW T, NEW l, NEW t, NEW r,
         T \in SUBSET Token, Sound(l, T), t \in T, t \in Sequenced(l), r = Removed(l, t),
         \A o \in r.explicit : o[1] # o[2] => o \in l.precedences
  PROVE  /\ \A a, b : ComesBefore(r.sequence, a, b) <=> ComesBefore(l.sequence, a, b) /\ a # t /\ b # t
         /\ \A c : c \in r.precedences <=> c \in l.precedences /\ c[1] # t /\ c[2] # t
         /\ \A a, b : NextTo(l.sequence, a, t) /\ NextTo(l.sequence, t, b) => <<a, b>> \in l.precedences
<1> DEFINE i == Position(l, t)
           n == Len(l.sequence)
           q == RemoveAt(l.sequence, i)
           without == [l EXCEPT !.sequence = RemoveAt(@, i)]
           earlier == l.sequence[i - 1]
           later == l.sequence[i + 1]
           gap == 1 < i /\ i < n /\ <<earlier, later>> \notin l.precedences
<1>1. l \in Lines(T) /\ l.sequence \in Seq(T) /\ IsInjective(l.sequence)
  BY DEF Sound, Lines
<1>2. n \in Nat /\ DOMAIN l.sequence = 1 .. n /\ i \in 1 .. n /\ l.sequence[i] = t
  BY <1>1, PositionOf, LenProperties
<1>3. \A a, b : ComesBefore(q, a, b) <=> ComesBefore(l.sequence, a, b) /\ a # t /\ b # t
  BY <1>1, <1>2, OrderWithout
<1>4. /\ without \in Lines(T) /\ without.sequence = q
      /\ without.precedences = l.precedences /\ without.explicit = l.explicit
  <2>1. q \in Seq(T)
    BY <1>1, <1>2, TakenOut
  <2>2. without = [l EXCEPT !.sequence = q]
    OBVIOUS
  <2> HIDE DEF q, without
  <2>3. QED BY <2>1, <2>2, <1>1 DEF Lines
<1>5. r = IF gap THEN ObjectRemove(Constrained(without, earlier, later), t) ELSE ObjectRemove(without, t)
  <2>1. CASE gap
    BY <2>1, Zenon DEF Removed, i, n, without, earlier, later, gap
  <2>2. CASE ~gap
    BY <2>2, Zenon DEF Removed, i, n, without, earlier, later, gap
  <2>3. QED BY <2>1, <2>2
<1> HIDE DEF without, q
<1>6. CASE gap
  <2>1. i - 1 \in 1 .. n /\ i + 1 \in 1 .. n /\ i - 1 # i + 1 /\ i - 1 # i /\ i + 1 # i /\ i - 1 < i + 1
    BY <1>2, <1>6
  <2>2. earlier # later /\ earlier # t /\ later # t
    BY <1>1, <1>2, <2>1 DEF IsInjective
  <2>3. earlier \in T /\ later \in T /\ ComesBefore(l.sequence, earlier, later)
    BY <1>1, <1>2, <2>1, ElementOfSeq DEF ComesBefore
  <2> HIDE DEF earlier, later
  <2>4. ComesBefore(q, earlier, later)
    BY <1>3, <2>2, <2>3
  <2>5. earlier \in Sequenced(without) /\ later \in Sequenced(without) /\ without.sequence # << >>
    BY <1>4, <2>4 DEF ComesBefore, Sequenced, ToSet
  <2> DEFINE w == Ordered(without, earlier, later)
  <2>6. r = ObjectRemove(w, t)
    <3>1. Constrained(without, earlier, later) = w
      BY <2>5, Zenon DEF Constrained, Ordered, Explicitly
    <3>2. QED BY <3>1, <1>5, <1>6
  <2>7. w = Ordered(without, earlier, later)
    OBVIOUS
  <2> HIDE DEF w
  <2>8. w \in Lines(T) /\ w.explicit = without.explicit \cup {<<earlier, later>>}
    BY <2>7, <2>3, <1>4, OrderedFields
  <2>9. r.explicit = w.explicit \ PrecedencesOf(w, t)
    BY <2>6, <2>8 DEF ObjectRemove, RemovePrecedences, Lines
  <2>10. <<earlier, later>> \in r.explicit
    BY <2>2, <2>8, <2>9 DEF PrecedencesOf
  <2>11. <<earlier, later>> \in l.precedences
    BY <2>2, <2>10
  <2>12. QED BY <2>11, <1>6
<1>7. CASE ~gap
  <2>1. r = ObjectRemove(without, t)
    BY <1>5, <1>7
  <2>2. r.sequence = q /\ \A c : c \in r.precedences <=> c \in l.precedences /\ c[1] # t /\ c[2] # t
    BY <2>1, <1>4 DEF ObjectRemove, RemovePrecedences, Lines, PrecedencesOf
  <2>3. ASSUME NEW a, NEW b, NextTo(l.sequence, a, t), NextTo(l.sequence, t, b)
        PROVE  <<a, b>> \in l.precedences
    <3>1. PICK j \in 1 .. n - 1 : a = l.sequence[j] /\ t = l.sequence[j + 1]
      BY <1>1, <2>3, PlacesOf
    <3>2. PICK k \in 1 .. n - 1 : t = l.sequence[k] /\ b = l.sequence[k + 1]
      BY <1>1, <2>3, PlacesOf
    <3>3. j + 1 \in DOMAIN l.sequence /\ k \in DOMAIN l.sequence
      BY <1>2
    <3>4. j + 1 = i /\ k = i
      BY <3>1, <3>2, <3>3, <1>1, <1>2 DEF IsInjective
    <3> HIDE DEF n, i
    <3>5. j = i - 1 /\ 1 < i /\ i < n
      BY <3>4, <1>2
    <3>6. a = earlier /\ b = later
      BY <3>1, <3>2, <3>4, <3>5
    <3>7. QED BY <3>5, <3>6, <1>7
  <2>4. QED BY <2>2, <2>3, <1>3
<1>8. QED BY <1>6, <1>7

(* What has a token before it has one right before it.                     *)
LEMMA HasPrevious ==
  ASSUME NEW T, NEW l, NEW t, NEW a, Sound(l, T), ComesBefore(l.sequence, a, t)
  PROVE  \E b : NextTo(l.sequence, b, t)
<1> DEFINE q == l.sequence
<1>1. q \in Seq(T) /\ IsInjective(q)
  BY DEF Sound, Lines
<1>2. DOMAIN q = 1 .. Len(q) /\ Len(q) \in Nat
  BY <1>1, LenProperties
<1>3. PICK i, j \in DOMAIN q : i < j /\ q[j] = t
  BY DEF ComesBefore
<1>4. j - 1 \in 1 .. Len(q) - 1 /\ (j - 1) + 1 = j
  BY <1>2, <1>3
<1>5. NextTo(q, q[j - 1], q[(j - 1) + 1])
  BY <1>1, <1>4, SideBySide
<1>6. QED BY <1>3, <1>4, <1>5

LEMMA HasNext ==
  ASSUME NEW T, NEW l, NEW t, NEW b, Sound(l, T), ComesBefore(l.sequence, t, b)
  PROVE  \E a : NextTo(l.sequence, t, a)
<1> DEFINE q == l.sequence
<1>1. q \in Seq(T) /\ IsInjective(q)
  BY DEF Sound, Lines
<1>2. DOMAIN q = 1 .. Len(q) /\ Len(q) \in Nat
  BY <1>1, LenProperties
<1>3. PICK i, j \in DOMAIN q : i < j /\ q[i] = t
  BY DEF ComesBefore
<1>4. i \in 1 .. Len(q) - 1
  BY <1>2, <1>3
<1>5. NextTo(q, q[i], q[i + 1])
  BY <1>1, <1>4, SideBySide
<1>6. QED BY <1>3, <1>5

(* It stays so when a token leaves: whatever it brought that is still      *)
(* there would stand next to it, and what is next to it came before it.    *)
LEMMA RemovedNested ==
  ASSUME NEW T, NEW l, NEW A, NEW O, NEW rank, NEW n, NEW t, NEW B, NEW r,
         T \in SUBSET Token, Sound(l, T), Nested(l, A, O, rank, n), Linked(l), t \in T,
         t \in Sequenced(l), \A o \in A : {o[1], o[2]} \subseteq Sequenced(l), A \subseteq Pairs,
         \A o \in A : o[1] # o[2] => o \in l.precedences,
         B = {o \in A : t \notin {o[1], o[2]}}, r = Removed(l, t), r.explicit \subseteq B
  PROVE  Linked(r) /\ Nested(r, B, O \cap (B \X B), rank, n)
<1> DEFINE before(a, b) == ComesBefore(l.sequence, a, b)
           P == O \cap (B \X B)
<1>1. /\ \A a, b : ComesBefore(r.sequence, a, b) <=> ComesBefore(l.sequence, a, b) /\ a # t /\ b # t
      /\ \A c : c \in r.precedences <=> c \in l.precedences /\ c[1] # t /\ c[2] # t
      /\ \A a, b : NextTo(l.sequence, a, t) /\ NextTo(l.sequence, t, b) => <<a, b>> \in l.precedences
  <2>1. \A o \in r.explicit : o[1] # o[2] => o \in l.precedences
    OBVIOUS
  <2>2. QED BY ONLY <2>1, T \in SUBSET Token, Sound(l, T), t \in T, t \in Sequenced(l),
                    r = Removed(l, t), RemovedOrder
<1>2. /\ \A a, b : before(a, b) => a \in Sequenced(l) /\ b \in Sequenced(l) /\ a # b /\ ~before(b, a)
      /\ \A a, b, c : before(a, b) /\ before(b, c) => before(a, c)
      /\ \A a \in Sequenced(l), b \in Sequenced(l) : a = b \/ before(a, b) \/ before(b, a)
  BY Ordering
<1>3. Sequenced(r) \subseteq Sequenced(l)
  <2>1. Sound(r, T \ {t}) /\ Sequenced(r) = Sequenced(l) \ {t} /\ Spares(l, r, t)
    BY ONLY T \in SUBSET Token, Sound(l, T), t \in T, r = Removed(l, t), RemovedSound
  <2>2. QED BY <2>1
<1>4. Linked(r)
  <2> DEFINE G == {t}
  <2>1. \A a, b : ComesBefore(r.sequence, a, b) <=> ComesBefore(l.sequence, a, b) /\ a \notin G /\ b \notin G
    BY <1>1
  <2>2. \A a, b : <<a, b>> \in l.precedences /\ a \notin G /\ b \notin G => <<a, b>> \in r.precedences
    BY <1>1
  <2>3. ASSUME NEW a, NEW b, NEW g, NextTo(r.sequence, a, b), g \in G, ComesBefore(l.sequence, a, g),
               ComesBefore(l.sequence, g, b)
        PROVE  <<a, b>> \in r.precedences
    <3>1. g = t /\ a # t /\ b # t
      BY <2>3, <1>2
    <3>2. NextTo(l.sequence, a, t) /\ NextTo(l.sequence, t, b)
      BY <3>1, <2>3, <1>1, <1>2 DEF NextTo
    <3>3. QED BY <3>1, <3>2, <1>1
  <2> HIDE DEF G
  <2>4. QED BY ONLY Linked(l), <2>1, <2>2, <2>3, GapClosed
<1>5. Covers(r, rank)
  BY <1>1 DEF Nested, Covers, Over
<1>6. Ages(B, P, rank)
  BY DEF Nested, Ages
<1>7. Ranked(r, rank, n)
  BY <1>3 DEF Nested, Ranked
<1>8. Brought(r, B, rank)
  <2> SUFFICES ASSUME NEW q, NEW x, q \in B, Over(r, q[1], x, q[2])
               PROVE  \E o \in B : BroughtBy(o, x, rank)
    BY DEF Brought
  <2>1. Over(l, q[1], x, q[2]) /\ x # t
    BY <1>1 DEF Over
  <2>2. PICK o \in A : BroughtBy(o, x, rank)
    BY <2>1 DEF Nested, Brought
  <2>3. CASE t \notin {o[1], o[2]}
    BY <2>2, <2>3
  <2>4. CASE t \in {o[1], o[2]}
    <3>0. \A c, e : c \in l.precedences /\ Over(l, c[1], e, c[2]) => rank[c[1]] < rank[e] /\ rank[c[2]] < rank[e]
      BY DEF Nested, Covers
    <3>a. \A u \in Sequenced(l) : rank[u] \in Nat
      BY TokensOf DEF Nested, Ranked
    <3>1. rank[t] < rank[x] /\ {o[1], o[2]} = {x, t} /\ o = <<o[1], o[2]>>
      BY <2>1, <2>2, <2>4 DEF BroughtBy, Pairs
    <3>2. o \in l.precedences
      BY <2>1, <3>1
    <3>3. q \in l.precedences
      <4>1. q[1] # q[2]
        BY <2>1, <1>2 DEF Over
      <4>2. QED BY <4>1
    <3>4. x \in Sequenced(l) /\ q[1] \in Sequenced(l) /\ q[2] \in Sequenced(l)
          /\ before(q[1], x) /\ before(x, q[2])
      BY <2>1, <1>2 DEF Over
    <3>5. rank[q[1]] < rank[x] /\ rank[q[2]] < rank[x]
      BY <2>1, <3>0, <3>3
    <3>6. \A e : (before(x, e) /\ before(e, t)) \/ (before(t, e) /\ before(e, x)) => rank[x] < rank[e]
      <4> TAKE e
      <4>1. before(o[1], o[2])
        BY <3>2 DEF Sound
      <4>2. (before(x, e) /\ before(e, t)) \/ (before(t, e) /\ before(e, x)) => Over(l, o[1], e, o[2])
        BY <3>1, <4>1, <1>2 DEF Over
      <4>3. Over(l, o[1], e, o[2]) => rank[o[1]] < rank[e] /\ rank[o[2]] < rank[e]
        BY <3>0, <3>2
      <4>4. x \in {o[1], o[2]}
        BY <3>1
      <4>5. QED BY <4>2, <4>3, <4>4
    <3>7. before(q[1], t) /\ before(t, q[2])
      <4>1. t # q[1] /\ t # q[2]
        OBVIOUS
      <4>2. ~before(t, q[1])
        <5>1. before(t, q[1]) => rank[x] < rank[q[1]]
          BY <3>4, <3>6
        <5>2. QED BY <5>1, <3>4, <3>5, <3>a
      <4>3. ~before(q[2], t)
        <5>1. before(q[2], t) => rank[x] < rank[q[2]]
          BY <3>4, <3>6
        <5>2. QED BY <5>1, <3>4, <3>5, <3>a
      <4>4. QED BY <4>1, <4>2, <4>3, <3>4, <1>2
    <3>8. PICK a, b : NextTo(l.sequence, a, t) /\ NextTo(l.sequence, t, b)
      <4>1. \E a : NextTo(l.sequence, a, t)
        BY <3>7, HasPrevious
      <4>2. \E b : NextTo(l.sequence, t, b)
        BY <3>7, HasNext
      <4>3. QED BY <4>1, <4>2
    <3>9. rank[a] < rank[t] /\ rank[b] < rank[t]
      <4>1. <<a, b>> \in l.precedences /\ Over(l, a, t, b)
        BY <3>8, <1>1 DEF NextTo, Over
      <4>2. <<a, b>>[1] = a /\ <<a, b>>[2] = b
        OBVIOUS
      <4>3. QED BY <3>0, <4>1, <4>2
    <3>10. a \in Sequenced(l) /\ b \in Sequenced(l) /\ before(a, t) /\ before(t, b)
      BY <3>8, <1>2 DEF NextTo
    <3>11. CASE before(x, t)
      <4>1. x = a \/ (before(x, a) /\ before(a, t))
        BY <3>8, <3>10, <3>11, <3>4, <1>2 DEF NextTo
      <4>2. x = a \/ rank[x] < rank[a]
        BY <4>1, <3>6
      <4>3. QED BY <4>2, <3>1, <3>9, <3>10, <3>4, <3>a
    <3>12. CASE before(t, x)
      <4>1. x = b \/ (before(t, b) /\ before(b, x))
        BY <3>8, <3>10, <3>12, <3>4, <1>2 DEF NextTo
      <4>2. x = b \/ rank[x] < rank[b]
        BY <4>1, <3>6
      <4>3. QED BY <4>2, <3>1, <3>9, <3>10, <3>4, <3>a
    <3>13. QED BY <3>11, <3>12, <2>1, <3>4, <1>2
  <2>5. QED BY <2>3, <2>4
<1>9. QED BY <1>4, <1>5, <1>6, <1>7, <1>8 DEF Nested

(* What is asked for is in the sequence, and what is older was asked for.  *)
Requests(l, A, O) == (\A o \in A : {o[1], o[2]} \subseteq Sequenced(l)) /\ O \subseteq A \X A

(* Every request made so far is older than the next one.                   *)
AllBefore(A, p, s) == {<<q, <<p, s>>>> : q \in A}

(* A request <<p, s>> has put f at place i, next to g, and tied it to what *)
(* is next to it.                                                          *)
PutNextTo(l, r, p, s, i, f, g) ==
  /\ (p = f /\ s = g) \/ (p = g /\ s = f)
  /\ f \notin Sequenced(l) /\ g \in Sequenced(l)
  /\ i \in 1 .. Len(l.sequence) + 1 /\ r.sequence = InsertAt(l.sequence, i, f)
  /\ l.precedences \subseteq r.precedences
  /\ \A c \in r.precedences : c \in l.precedences \/ NextTo(r.sequence, c[1], c[2])
  /\ NextTo(r.sequence, p, s)
  /\ \A a : NextTo(r.sequence, a, f) => <<a, f>> \in r.precedences
  /\ \A b : NextTo(r.sequence, f, b) => <<f, b>> \in r.precedences

(* It stays so when a request puts a token next to another one and the     *)
(* new token is tied to what is next to it.                                *)
LEMMA PutNested ==
  ASSUME NEW T, NEW l, NEW A, NEW O, NEW rank, NEW n, NEW p, NEW s, NEW i, NEW f, NEW g, NEW r,
         T \in SUBSET Token, Sound(l, T), Nested(l, A, O, rank, n), Linked(l),
         Requests(l, A, O), f \in T, PutNextTo(l, r, p, s, i, f, g)
  PROVE  /\ Linked(r)
         /\ Nested(r, A \cup {<<p, s>>}, O \cup AllBefore(A, p, s),
                   [rank EXCEPT ![f] = n], n + 1)
<1> DEFINE B == A \cup {<<p, s>>}
           P == O \cup {<<q, <<p, s>>>> : q \in A}
           k == [rank EXCEPT ![f] = n]
<1>0. /\ \A o \in A : {o[1], o[2]} \subseteq Sequenced(l)
      /\ O \subseteq A \X A
      /\ (p = f /\ s = g) \/ (p = g /\ s = f)
      /\ f \notin Sequenced(l) /\ g \in Sequenced(l)
      /\ i \in 1 .. Len(l.sequence) + 1 /\ r.sequence = InsertAt(l.sequence, i, f)
      /\ l.precedences \subseteq r.precedences
      /\ \A c \in r.precedences : c \in l.precedences \/ NextTo(r.sequence, c[1], c[2])
      /\ NextTo(r.sequence, p, s)
      /\ \A a : NextTo(r.sequence, a, f) => <<a, f>> \in r.precedences
      /\ \A b : NextTo(r.sequence, f, b) => <<f, b>> \in r.precedences
  BY DEF Requests, PutNextTo
<1> USE <1>0
<1>1. l.sequence \in Seq(T) /\ IsInjective(l.sequence) /\ f \notin ToSet(l.sequence)
  BY DEF Sound, Lines, Sequenced
<1>2. \A a, b : f # a /\ f # b => (ComesBefore(r.sequence, a, b) <=> ComesBefore(l.sequence, a, b))
  <2>1. LET z == InsertAt(l.sequence, i, f)
        IN \A a, b : f \notin {a, b} => (ComesBefore(z, a, b) <=> ComesBefore(l.sequence, a, b))
    BY <1>1, OrderWith
  <2>2. QED BY <2>1
<1>3. Sequenced(r) = Sequenced(l) \cup {f}
  <2>1. ToSet(InsertAt(l.sequence, i, f)) = ToSet(l.sequence) \cup {f}
    BY <1>1, PutInOrder
  <2>2. QED BY <2>1 DEF Sequenced
<1>4. /\ Sequenced(l) \subseteq Token /\ f \in Token /\ n \in Nat /\ rank \in [Token -> Nat]
      /\ \A u \in Sequenced(l) : rank[u] \in Nat /\ rank[u] < n
  BY TokensOf DEF Nested, Ranked
<1>5. /\ k \in [Token -> Nat] /\ k[f] = n
      /\ \A u \in Sequenced(l) : k[u] = rank[u] /\ k[u] < k[f]
  BY <1>4
<1> HIDE DEF k
<1>a. \A a, b : ComesBefore(l.sequence, a, b) => a \in Sequenced(l) /\ b \in Sequenced(l)
  BY DEF ComesBefore, Sequenced, ToSet
<1>b. \A c \in l.precedences : ComesBefore(l.sequence, c[1], c[2])
  BY DEF Sound
<1>6. Linked(r)
  <2> SUFFICES ASSUME NEW a, NEW b, NextTo(r.sequence, a, b) PROVE <<a, b>> \in r.precedences
    BY DEF Linked
  <2>1. CASE f = a \/ f = b
    BY <2>1
  <2>2. CASE f # a /\ f # b
    <3>1. ASSUME NEW c, Over(l, a, c, b) PROVE FALSE
      <4>1. c # f
        BY <3>1, <1>a DEF Over
      <4>2. QED BY <4>1, <3>1, <2>2, <1>2 DEF NextTo, Over
    <3>2. NextTo(l.sequence, a, b)
      BY <2>2, <3>1, <1>2 DEF NextTo, Over
    <3>3. QED BY <3>2 DEF Linked
  <2>3. QED BY <2>1, <2>2
<1>7. Covers(r, k)
  <2> SUFFICES ASSUME NEW c, NEW x, c \in r.precedences, Over(r, c[1], x, c[2])
               PROVE  k[c[1]] < k[x] /\ k[c[2]] < k[x]
    BY DEF Covers
  <2>1. c \in l.precedences
    BY DEF Over, NextTo
  <2>2. c[1] \in Sequenced(l) /\ c[2] \in Sequenced(l)
    BY <2>1, <1>a, <1>b
  <2>3. CASE x = f
    BY <2>2, <2>3, <1>5
  <2>4. CASE x # f
    <3>1. Over(l, c[1], x, c[2])
      BY <2>2, <2>4, <1>2 DEF Over
    <3>2. x \in Sequenced(l)
      BY <3>1, <1>a DEF Over
    <3>3. rank[c[1]] < rank[x] /\ rank[c[2]] < rank[x]
      BY <2>1, <3>1 DEF Nested, Covers
    <3>4. QED BY <2>2, <3>2, <3>3, <1>5
  <2>5. QED BY <2>3, <2>4
<1>8. Brought(r, B, k)
  <2> SUFFICES ASSUME NEW q, NEW x, q \in B, Over(r, q[1], x, q[2])
               PROVE  \E o \in B : BroughtBy(o, x, k)
    BY DEF Brought
  <2>1. q \in A
    BY DEF Over, NextTo
  <2>2. CASE x = f
    <3>1. BroughtBy(<<p, s>>, x, k)
      BY <2>2, <1>5 DEF BroughtBy
    <3>2. QED BY <3>1
  <2>3. CASE x # f
    <3>1. Over(l, q[1], x, q[2])
      <4>1. q[1] # f /\ q[2] # f
        BY <2>1
      <4>2. QED BY <4>1, <2>3, <1>2 DEF Over
    <3>2. PICK o \in A : BroughtBy(o, x, rank)
      BY <2>1, <3>1 DEF Nested, Brought
    <3>3. {o[1], o[2]} \subseteq Sequenced(l) /\ x \in {o[1], o[2]}
      BY <3>2 DEF BroughtBy
    <3>4. BroughtBy(o, x, k)
      BY <3>2, <3>3, <1>5 DEF BroughtBy
    <3>5. QED BY <3>4
  <2>4. QED BY <2>2, <2>3
<1>9. Ages(B, P, k)
  <2>1. <<p, s>> \notin A
    BY DEF Pairs
  <2>2. ASSUME NEW q, NEW o, q \in B, o \in B, <<q, o>> \in P
        PROVE  Newer(q, o, k)
    <3>1. CASE <<q, o>> \in O
      <4>1. q \in A /\ o \in A
        BY <3>1
      <4>2. Newer(q, o, rank)
        BY <3>1, <4>1 DEF Nested, Ages
      <4>3. \A u \in {q[1], q[2], o[1], o[2]} : k[u] = rank[u]
        BY <4>1, <1>5
      <4>4. QED BY <4>2, <4>3 DEF Newer
    <3>2. CASE o = <<p, s>> /\ q \in A
      <4>1. f \in {o[1], o[2]}
        BY <3>2
      <4>2. \A u \in {q[1], q[2]} : k[u] < k[f]
        BY <3>2, <1>5
      <4>3. QED BY <4>1, <4>2 DEF Newer
    <3>3. QED BY <3>1, <3>2, <2>2
  <2>3. ASSUME NEW q, NEW o, q \in B, o \in B
        PROVE  q = o \/ <<q, o>> \in P \/ <<o, q>> \in P
    <3>1. q \in A /\ o \in A => q = o \/ <<q, o>> \in O \/ <<o, q>> \in O
      BY DEF Nested, Ages
    <3>2. QED BY <3>1, <2>3
  <2>4. QED BY <2>2, <2>3 DEF Ages
<1>10. Ranked(r, k, n + 1)
  <2>1. \A u \in Sequenced(l), v \in Sequenced(l) : u # v => rank[u] # rank[v]
    BY DEF Nested, Ranked
  <2>2. \A u \in Sequenced(r), v \in Sequenced(r) : u # v => k[u] # k[v]
    BY <2>1, <1>3, <1>4, <1>5
  <2>3. \A u \in Sequenced(r) : k[u] < n + 1
    BY <1>3, <1>4, <1>5
  <2>4. QED BY <2>2, <2>3, <1>4, <1>5 DEF Ranked
<1>11. QED BY <1>6, <1>7, <1>8, <1>9, <1>10 DEF Nested, k, AllBefore

(* The three ways of Timeline::constrain.                                  *)
LEMMA AheadNested ==
  ASSUME NEW T, NEW l, NEW A, NEW O, NEW rank, NEW n, NEW p, NEW s, NEW r,
         T \in SUBSET Token, Sound(l, T), Nested(l, A, O, rank, n), Linked(l),
         Requests(l, A, O),
         p \in T, p \notin Sequenced(l), s \in Sequenced(l), s \in T, r = Constrained(l, p, s), Sound(r, T)
  PROVE  /\ Linked(r)
         /\ Nested(r, A \cup {<<p, s>>}, O \cup AllBefore(A, p, s),
                   [rank EXCEPT ![p] = n], n + 1)
<1> DEFINE i == Position(l, s)
           x == l.sequence[i - 1]
<1>1. l.sequence \in Seq(T) /\ IsInjective(l.sequence) /\ Len(l.sequence) \in Nat /\ p \notin ToSet(l.sequence)
  BY LenProperties DEF Sound, Lines, Sequenced
<1>2. i \in 1 .. Len(l.sequence) /\ l.sequence[i] = s
  BY <1>1, PositionOf, LenProperties
<1>3. /\ r.sequence = InsertAt(l.sequence, i, p)
      /\ i = 1 => r.precedences = l.precedences \cup {<<p, s>>}
      /\ i # 1 => r.precedences = l.precedences \cup {<<p, s>>, <<x, p>>}
  <2>1. i = Position(l, s)
    OBVIOUS
  <2> HIDE DEF i
  <2>2. QED BY <2>1, OrderedAhead
<1> HIDE DEF i
<1>4. /\ NextTo(r.sequence, p, s)
      /\ i > 1 => NextTo(r.sequence, x, p)
      /\ i = 1 => \A a : ~ComesBefore(r.sequence, a, p)
  <2> DEFINE z == InsertAt(l.sequence, i, p)
  <2>1. i \in 1 .. Len(l.sequence) + 1 /\ i <= Len(l.sequence)
    BY <1>1, <1>2
  <2>2. /\ NextTo(z, p, l.sequence[i])
        /\ i > 1 => NextTo(z, l.sequence[i - 1], p)
        /\ i = 1 => \A a : ~ComesBefore(z, a, p)
    BY <1>1, <2>1, OrderWith
  <2>3. QED BY <2>2, <1>2, <1>3
<1>5. /\ \A a, b, c : NextTo(r.sequence, a, c) /\ NextTo(r.sequence, b, c) => a = b
      /\ \A a, b, c : NextTo(r.sequence, c, a) /\ NextTo(r.sequence, c, b) => a = b
  BY OneNeighbour
<1>6. i = 1 \/ i > 1
  BY <1>2
<1>7. ASSUME NEW a, NextTo(r.sequence, a, p) PROVE <<a, p>> \in r.precedences
  <2>1. i > 1
    BY <1>4, <1>6, <1>7 DEF NextTo
  <2>2. a = x /\ i # 1
    BY <2>1, <1>4, <1>5, <1>7
  <2>3. QED BY <2>2, <1>3
<1>8. ASSUME NEW b, NextTo(r.sequence, p, b) PROVE <<p, b>> \in r.precedences
  <2>1. b = s
    BY <1>4, <1>5, <1>8
  <2>2. QED BY <2>1, <1>3, <1>6
<1>9. ASSUME NEW c, c \in r.precedences, c \notin l.precedences PROVE NextTo(r.sequence, c[1], c[2])
  <2>1. c = <<p, s>> \/ (i > 1 /\ c = <<x, p>>)
    BY <1>3, <1>6, <1>9
  <2>2. QED BY <2>1, <1>4
<1>10. l.precedences \subseteq r.precedences /\ i \in 1 .. Len(l.sequence) + 1
  BY <1>1, <1>2, <1>3, <1>6
<1> HIDE DEF x
<1>11. /\ l.precedences \subseteq r.precedences
       /\ \A c \in r.precedences : c \in l.precedences \/ NextTo(r.sequence, c[1], c[2])
       /\ \A a : NextTo(r.sequence, a, p) => <<a, p>> \in r.precedences
       /\ \A b : NextTo(r.sequence, p, b) => <<p, b>> \in r.precedences
       /\ r.sequence = InsertAt(l.sequence, i, p) /\ NextTo(r.sequence, p, s)
       /\ i \in 1 .. Len(l.sequence) + 1
  BY <1>3, <1>4, <1>7, <1>8, <1>9, <1>10
<1>12. PutNextTo(l, r, p, s, i, p, s)
  BY ONLY <1>11, p \notin Sequenced(l), s \in Sequenced(l) DEF PutNextTo
<1>13. QED BY ONLY <1>12, T \in SUBSET Token, Sound(l, T), Nested(l, A, O, rank, n), Linked(l),
                 Requests(l, A, O), p \in T, PutNested

LEMMA AfterNested ==
  ASSUME NEW T, NEW l, NEW A, NEW O, NEW rank, NEW n, NEW p, NEW s, NEW r,
         T \in SUBSET Token, Sound(l, T), Nested(l, A, O, rank, n), Linked(l),
         Requests(l, A, O),
         s \in T, s \notin Sequenced(l), p \in Sequenced(l), p \in T, r = Constrained(l, p, s), Sound(r, T)
  PROVE  /\ Linked(r)
         /\ Nested(r, A \cup {<<p, s>>}, O \cup AllBefore(A, p, s),
                   [rank EXCEPT ![s] = n], n + 1)
<1> DEFINE i == Position(l, p) + 1
           x == l.sequence[i]
<1>1. l.sequence \in Seq(T) /\ IsInjective(l.sequence) /\ Len(l.sequence) \in Nat /\ s \notin ToSet(l.sequence)
  BY LenProperties DEF Sound, Lines, Sequenced
<1>2. Position(l, p) \in 1 .. Len(l.sequence) /\ l.sequence[Position(l, p)] = p
  BY <1>1, PositionOf, LenProperties
<1>3. /\ r.sequence = InsertAt(l.sequence, i, s)
      /\ i > Len(l.sequence) => r.precedences = l.precedences \cup {<<p, s>>}
      /\ i <= Len(l.sequence) => r.precedences = l.precedences \cup {<<p, s>>, <<s, x>>}
  <2>1. i = Position(l, p) + 1
    OBVIOUS
  <2> HIDE DEF i
  <2>2. /\ r \in Lines(T) /\ r.sequence = InsertAt(l.sequence, i, s)
        /\ r.toOrder = l.toOrder \ {s} /\ r.explicit = l.explicit \cup {<<p, s>>}
        /\ i > Len(l.sequence) => r.precedences = l.precedences \cup {<<p, s>>}
        /\ i <= Len(l.sequence) => r.precedences = l.precedences \cup {<<p, s>>, <<s, l.sequence[i]>>}
        /\ l.onObject \cup {p, s} \subseteq r.onObject
        /\ r.onObject \subseteq l.onObject \cup {s} \cup Sequenced(l)
    BY ONLY <2>1, T \in SUBSET Token, Sound(l, T), p \in Sequenced(l), p \in T, s \in T,
            s \notin Sequenced(l), r = Constrained(l, p, s), OrderedAfter
  <2>3. QED BY <2>2
<1>a. /\ i \in 1 .. Len(l.sequence) + 1 /\ i > 1 /\ l.sequence[i - 1] = p
      /\ i <= Len(l.sequence) \/ (i > Len(l.sequence) /\ i = Len(l.sequence) + 1)
  <2> HIDE DEF i
  <2>1. i = Position(l, p) + 1
    BY DEF i
  <2> DEFINE k == Position(l, p)
  <2> HIDE DEF k
  <2>2. k \in 1 .. Len(l.sequence) /\ i = k + 1 /\ l.sequence[k] = p
    BY <2>1, <1>2 DEF k
  <2>3. i - 1 = k
    BY <2>2
  <2>4. QED BY <2>2, <2>3, <1>1
<1> HIDE DEF i
<1>4. /\ NextTo(r.sequence, p, s)
      /\ i <= Len(l.sequence) => NextTo(r.sequence, s, x)
      /\ i = Len(l.sequence) + 1 => \A a : ~ComesBefore(r.sequence, s, a)
  <2> DEFINE z == InsertAt(l.sequence, i, s)
  <2>1. /\ NextTo(z, l.sequence[i - 1], s)
        /\ i <= Len(l.sequence) => NextTo(z, s, l.sequence[i])
        /\ i = Len(l.sequence) + 1 => \A a : ~ComesBefore(z, s, a)
    BY <1>1, <1>a, OrderWith
  <2>2. QED BY <2>1, <1>a, <1>3
<1>5. /\ \A a, b, c : NextTo(r.sequence, a, c) /\ NextTo(r.sequence, b, c) => a = b
      /\ \A a, b, c : NextTo(r.sequence, c, a) /\ NextTo(r.sequence, c, b) => a = b
  BY OneNeighbour
<1>7. ASSUME NEW b, NextTo(r.sequence, s, b) PROVE <<s, b>> \in r.precedences
  <2>1. i <= Len(l.sequence)
    BY <1>4, <1>a, <1>7 DEF NextTo
  <2>2. b = x
    BY <2>1, <1>4, <1>5, <1>7
  <2>3. QED BY <2>1, <2>2, <1>3
<1>8. ASSUME NEW a, NextTo(r.sequence, a, s) PROVE <<a, s>> \in r.precedences
  <2>1. a = p
    BY <1>4, <1>5, <1>8
  <2>2. QED BY <2>1, <1>3, <1>a
<1>9. ASSUME NEW c, c \in r.precedences, c \notin l.precedences PROVE NextTo(r.sequence, c[1], c[2])
  <2>1. c = <<p, s>> \/ (i <= Len(l.sequence) /\ c = <<s, x>>)
    BY <1>3, <1>a, <1>9
  <2>2. QED BY <2>1, <1>4
<1>10. l.precedences \subseteq r.precedences
  BY <1>3, <1>a
<1> HIDE DEF x
<1>11. /\ l.precedences \subseteq r.precedences
       /\ \A c \in r.precedences : c \in l.precedences \/ NextTo(r.sequence, c[1], c[2])
       /\ \A a : NextTo(r.sequence, a, s) => <<a, s>> \in r.precedences
       /\ \A b : NextTo(r.sequence, s, b) => <<s, b>> \in r.precedences
       /\ r.sequence = InsertAt(l.sequence, i, s) /\ NextTo(r.sequence, p, s)
       /\ i \in 1 .. Len(l.sequence) + 1
  BY <1>3, <1>a, <1>4, <1>7, <1>8, <1>9, <1>10
<1>12. PutNextTo(l, r, p, s, i, s, p)
  BY ONLY <1>11, s \notin Sequenced(l), p \in Sequenced(l) DEF PutNextTo
<1>13. QED BY ONLY <1>12, T \in SUBSET Token, Sound(l, T), Nested(l, A, O, rank, n), Linked(l),
                 Requests(l, A, O), s \in T, PutNested

LEMMA FirstNested ==
  ASSUME NEW T, NEW l, NEW A, NEW O, NEW rank, NEW n, NEW p, NEW s, NEW r,
         T \in SUBSET Token, Sound(l, T), Nested(l, A, O, rank, n), l.sequence = << >>,
         Requests(l, A, O),
         p \in T, s \in T, r = Constrained(l, p, s)
  PROVE  /\ Linked(r)
         /\ Nested(r, A \cup {<<p, s>>}, O \cup AllBefore(A, p, s),
                   [[rank EXCEPT ![p] = n] EXCEPT ![s] = n + 1], n + 2)
<1> DEFINE k == [[rank EXCEPT ![p] = n] EXCEPT ![s] = n + 1]
           B == A \cup {<<p, s>>}
           P == O \cup {<<q, <<p, s>>>> : q \in A}
<1>1. /\ p = s => r.sequence = <<s>> /\ r.precedences = {}
      /\ p # s => r.sequence = <<p, s>> /\ r.precedences = {<<p, s>>}
      /\ Sequenced(l) = {}
  <2>1. /\ r \in Lines(T) /\ r.toOrder = l.toOrder \ {p, s}
        /\ r.explicit = l.explicit \cup {<<p, s>>} /\ r.onObject = {p, s}
        /\ p = s => r.sequence = <<s>> /\ r.precedences = {}
        /\ p # s => r.sequence = <<p, s>> /\ r.precedences = {<<p, s>>}
        /\ Sequenced(l) = {} /\ l.precedences = {} /\ l.onObject = {}
    BY ONLY T \in SUBSET Token, Sound(l, T), l.sequence = << >>, p \in T, s \in T,
            r = Constrained(l, p, s), OrderedFirst
  <2>2. QED BY <2>1
<1>2. A = {} /\ O = {}
  BY <1>1 DEF Requests
<1>3. /\ \A a, b : ComesBefore(r.sequence, a, b) => a = p /\ b = s /\ p # s
      /\ Sequenced(r) = {p, s}
  <2>1. CASE p = s
    <3>1. r.sequence = <<s>> /\ DOMAIN r.sequence = {1}
      BY <1>1, <2>1
    <3>2. QED BY <2>1, <3>1 DEF ComesBefore, Sequenced, ToSet
  <2>2. CASE p # s
    <3>1. r.sequence = <<p, s>> /\ DOMAIN r.sequence = {1, 2} /\ r.sequence[1] = p /\ r.sequence[2] = s
      BY <1>1, <2>2
    <3>2. Sequenced(r) = {p, s}
      BY <3>1 DEF Sequenced, ToSet
    <3>3. \A a, b : ComesBefore(r.sequence, a, b) => a = p /\ b = s
      BY ONLY <3>1 DEF ComesBefore
    <3>4. QED BY <2>2, <3>2, <3>3
  <2>3. QED BY <2>1, <2>2
<1>4. Linked(r)
  BY <1>1, <1>3 DEF Linked, NextTo
<1>5. \A a, x, b : ~Over(r, a, x, b)
  BY <1>3 DEF Over
<1>6. Covers(r, k) /\ Brought(r, B, k)
  BY <1>5 DEF Covers, Brought
<1>7. Ages(B, P, k)
  BY <1>2 DEF Ages
<1>8. Ranked(r, k, n + 2)
  <2>1. p \in Token /\ s \in Token /\ n \in Nat /\ rank \in [Token -> Nat]
    BY DEF Nested, Ranked
  <2>2. k \in [Token -> Nat] /\ k[s] = n + 1 /\ (p # s => k[p] = n)
    BY <2>1
  <2> HIDE DEF k
  <2>3. QED BY <2>1, <2>2, <1>3 DEF Ranked
<1>9. QED BY <1>4, <1>6, <1>7, <1>8 DEF Nested, AllBefore
-----------------------------------------------------------------------------
(* As long as requests are freed in the order of a search, no mark is left *)
(* behind, neighbours are tied to each other and requests are nested.      *)
OrderInv ==
  inOrder => /\ ExplicitIsAsked /\ Linked(line)
             /\ \E rank, n : Nested(line, asked, older, rank, n)

(* Each step keeps the invariant.                                          *)
LEMMA InitOrder == Init => OrderInv
<1> SUFFICES ASSUME Init PROVE OrderInv
  OBVIOUS
<1>1. /\ line.sequence = << >> /\ line.precedences = {} /\ line.explicit = {}
      /\ asked = {} /\ older = {}
  BY DEF Init, NewLine
<1>2. \A a, b : ~ComesBefore(line.sequence, a, b)
  BY <1>1 DEF ComesBefore
<1>3. Sequenced(line) = {}
  BY <1>1 DEF Sequenced, ToSet
<1>4. Nested(line, asked, older, [t \in Token |-> 0], 0)
  BY <1>1, <1>3 DEF Nested, Covers, Brought, Ages, Ranked
<1>5. QED BY <1>1, <1>2, <1>4 DEF OrderInv, ExplicitIsAsked, Linked, NextTo

(* Only the sequence and the precedences matter.                           *)
LEMMA SameNested ==
  ASSUME NEW l, NEW A, NEW O, NEW rank, NEW n, NEW r,
         r.sequence = l.sequence, r.precedences = l.precedences,
         Nested(l, A, O, rank, n), Linked(l)
  PROVE  Nested(r, A, O, rank, n) /\ Linked(r)
BY DEF Nested, Covers, Brought, Ages, Ranked, Over, Sequenced, Linked

LEMMA AddTokenOrder ==
  ASSUME IInv, OrderInv, NEW t, AddToken(t)
  PROVE  OrderInv'
<1>1. line' = [line EXCEPT !.toOrder = @ \cup {t}] /\ asked' = asked /\ older' = older /\ inOrder' = inOrder
  BY DEF AddToken
<1>2. line \in Lines(tokens)
  BY DEF IInv, Sound
<1>3. /\ line'.sequence = line.sequence /\ line'.precedences = line.precedences
      /\ line'.explicit = line.explicit
  BY <1>1, <1>2 DEF Lines
<1> SUFFICES ASSUME inOrder
             PROVE  /\ ExplicitIsAsked' /\ Linked(line')
                    /\ \E rank, n : Nested(line', asked', older', rank, n)
  BY <1>1 DEF OrderInv
<1>4. PICK rank, n : Nested(line, asked, older, rank, n)
  BY DEF OrderInv
<1>5. Nested(line', asked, older, rank, n) /\ Linked(line')
  BY <1>3, <1>4, SameNested DEF OrderInv
<1>6. QED BY <1>1, <1>3, <1>5 DEF OrderInv, ExplicitIsAsked

LEMMA RemoveTokenOrder ==
  ASSUME IInv, OrderInv, NEW t, t \in Token, RemoveToken(t)
  PROVE  OrderInv'
<1>1. /\ t \in tokens /\ line' = Removed(line, t)
      /\ asked' = {r \in asked : t \notin {r[1], r[2]}}
      /\ inOrder' = (inOrder /\ line'.explicit \subseteq asked')
      /\ older' = IF inOrder' THEN older \cap (asked' \X asked') ELSE {}
  BY DEF RemoveToken
<1>2. /\ tokens \in SUBSET Token /\ Sound(line, tokens) /\ asked \subseteq Pairs
      /\ older \subseteq asked \X asked
      /\ \A o \in asked : {o[1], o[2]} \subseteq Sequenced(line)
      /\ \A o \in asked : o[1] # o[2] => o \in line.precedences
  BY DEF IInv, TypeOK, RequestsHold
<1> SUFFICES ASSUME inOrder, line'.explicit \subseteq asked', older' = older \cap (asked' \X asked')
             PROVE  Linked(line') /\ \E rank, n : Nested(line', asked', older', rank, n)
  BY <1>1 DEF OrderInv, ExplicitIsAsked
<1>3. PICK rank, n : Nested(line, asked, older, rank, n)
  BY DEF OrderInv
<1>4. Linked(line)
  BY DEF OrderInv
<1>5. CASE t \notin Sequenced(line)
  <2> DEFINE m == [line EXCEPT !.toOrder = @ \ {t}]
  <2>1. line' = ObjectRemove(m, t)
    BY <1>1, <1>5 DEF Removed
  <2>2. line'.sequence = line.sequence /\ line'.precedences = line.precedences \ PrecedencesOf(line, t)
    BY <2>1, <1>2 DEF ObjectRemove, RemovePrecedences, PrecedencesOf, Sound, Lines
  <2>3. PrecedencesOf(line, t) = {}
    BY <1>2, <1>5, Unconstrained
  <2>4. asked' = asked /\ older' = older
    BY <1>1, <1>2, <1>5
  <2>5. line'.precedences = line.precedences
    BY <2>2, <2>3
  <2>6. Nested(line', asked, older, rank, n) /\ Linked(line')
    BY <2>2, <2>5, <1>3, <1>4, SameNested
  <2>7. QED BY <2>4, <2>6
<1>6. CASE t \in Sequenced(line)
  <2>1. /\ tokens \in SUBSET Token /\ Sound(line, tokens) /\ Nested(line, asked, older, rank, n)
        /\ Linked(line) /\ t \in tokens /\ t \in Sequenced(line) /\ asked \subseteq Pairs
        /\ \A o \in asked : {o[1], o[2]} \subseteq Sequenced(line)
        /\ \A o \in asked : o[1] # o[2] => o \in line.precedences
        /\ asked' = {o \in asked : t \notin {o[1], o[2]}}
        /\ line' = Removed(line, t) /\ line'.explicit \subseteq asked'
    BY <1>1, <1>2, <1>3, <1>4, <1>6
  <2>2. Linked(line') /\ Nested(line', asked', older \cap (asked' \X asked'), rank, n)
    BY ONLY <2>1, RemovedNested
  <2>3. QED BY <2>2
<1>7. QED BY <1>5, <1>6

LEMMA ConstrainOrder ==
  ASSUME IInv, OrderInv, NEW p, NEW s, Constrain(p, s)
  PROVE  OrderInv'
<1>1. /\ {p, s} \subseteq tokens /\ line' = Constrained(line, p, s) /\ asked' = asked \cup {<<p, s>>}
      /\ line.sequence # << >> => ((p \in Sequenced(line)) # (s \in Sequenced(line)))
      /\ inOrder' = inOrder
      /\ older' = IF inOrder THEN older \cup {<<r, <<p, s>>>> : r \in asked} ELSE {}
  BY DEF Constrain, MayConstrain
<1>2. /\ tokens \in SUBSET Token /\ Sound(line, tokens)
      /\ Requests(line, asked, older)
  BY DEF IInv, TypeOK, RequestsHold, Requests
<1>3. /\ Sound(line', tokens) /\ Sequenced(line') = Sequenced(line) \cup {p, s}
      /\ line'.explicit = line.explicit \cup {<<p, s>>} /\ line.precedences \subseteq line'.precedences
      /\ p # s => <<p, s>> \in line'.precedences
  BY <1>1, <1>2, ConstrainedSound
<1> SUFFICES ASSUME inOrder
             PROVE  /\ ExplicitIsAsked' /\ Linked(line')
                    /\ \E rank, n : Nested(line', asked', older', rank, n)
  BY <1>1 DEF OrderInv
<1>4. PICK rank, n : Nested(line, asked, older, rank, n)
  BY DEF OrderInv
<1>5. Linked(line) /\ ExplicitIsAsked'
  BY <1>1, <1>3 DEF OrderInv, ExplicitIsAsked
<1>6. older' = older \cup AllBefore(asked, p, s)
  BY <1>1 DEF AllBefore
<1>7. CASE line.sequence = << >>
  <2>1. /\ Linked(line')
        /\ Nested(line', asked \cup {<<p, s>>}, older \cup AllBefore(asked, p, s),
                  [[rank EXCEPT ![p] = n] EXCEPT ![s] = n + 1], n + 2)
    BY <1>1, <1>2, <1>4, <1>7, FirstNested
  <2>2. QED BY <2>1, <1>1, <1>5, <1>6
<1>8. CASE p \notin Sequenced(line) /\ s \in Sequenced(line)
  <2>1. /\ Linked(line')
        /\ Nested(line', asked \cup {<<p, s>>}, older \cup AllBefore(asked, p, s),
                  [rank EXCEPT ![p] = n], n + 1)
    <3>1. /\ p \in tokens /\ s \in tokens /\ line' = Constrained(line, p, s)
          /\ tokens \in SUBSET Token /\ Sound(line, tokens) /\ Requests(line, asked, older)
          /\ Sound(line', tokens) /\ Linked(line) /\ Nested(line, asked, older, rank, n)
      BY <1>1, <1>2, <1>3, <1>4, <1>5
    <3>2. p \notin Sequenced(line) /\ s \in Sequenced(line)
      BY <1>8
    <3>3. QED BY ONLY <3>1, <3>2, AheadNested
  <2>2. QED BY <2>1, <1>1, <1>5, <1>6
<1>9. CASE p \in Sequenced(line) /\ s \notin Sequenced(line)
  <2>1. /\ Linked(line')
        /\ Nested(line', asked \cup {<<p, s>>}, older \cup AllBefore(asked, p, s),
                  [rank EXCEPT ![s] = n], n + 1)
    <3>1. /\ p \in tokens /\ s \in tokens /\ line' = Constrained(line, p, s)
          /\ tokens \in SUBSET Token /\ Sound(line, tokens) /\ Requests(line, asked, older)
          /\ Sound(line', tokens) /\ Linked(line) /\ Nested(line, asked, older, rank, n)
      BY <1>1, <1>2, <1>3, <1>4, <1>5
    <3>2. QED BY ONLY <3>1, <1>9, AfterNested
  <2>2. QED BY <2>1, <1>1, <1>5, <1>6
<1>10. line.sequence # << >> => \/ p \notin Sequenced(line) /\ s \in Sequenced(line)
                                \/ p \in Sequenced(line) /\ s \notin Sequenced(line)
  BY <1>1
<1>11. QED BY <1>7, <1>8, <1>9, <1>10

LEMMA FreeOrder ==
  ASSUME IInv, OrderInv, NEW p, NEW s, Free(p, s)
  PROVE  OrderInv'
<1>1. /\ <<p, s>> \in asked /\ line' = Freed(line, p, s) /\ asked' = asked \ {<<p, s>>}
      /\ inOrder' = (inOrder /\ \A r \in asked' : <<r, <<p, s>>>> \in older)
      /\ older' = IF inOrder' THEN older \cap (asked' \X asked') ELSE {}
  BY DEF Free
<1>2. /\ tokens \in SUBSET Token /\ Sound(line, tokens)
      /\ \A o \in asked : {o[1], o[2]} \subseteq Sequenced(line)
      /\ \A o \in asked : o[1] # o[2] => o \in line.precedences
  BY DEF IInv, TypeOK, RequestsHold
<1>3. line'.explicit = line.explicit \ {<<p, s>>}
  <2>1. p \in Sequenced(line) /\ s \in Sequenced(line)
    BY <1>1, <1>2
  <2>2. /\ Sound(line', tokens) /\ line'.explicit = line.explicit \ {<<p, s>>}
        /\ \A c \in line'.explicit :
             /\ {c[1], c[2]} \subseteq Sequenced(line) => {c[1], c[2]} \subseteq Sequenced(line')
             /\ c \in line.precedences => c \in line'.precedences
    BY <1>1, <1>2, <2>1, FreedSound
  <2>3. QED BY <2>2
<1> SUFFICES ASSUME inOrder, \A r \in asked' : <<r, <<p, s>>>> \in older,
                    older' = older \cap (asked' \X asked')
             PROVE  /\ ExplicitIsAsked' /\ Linked(line')
                    /\ \E rank, n : Nested(line', asked', older', rank, n)
  BY <1>1 DEF OrderInv
<1>4. PICK rank, n : Nested(line, asked, older, rank, n)
  BY DEF OrderInv
<1>5. Linked(line) /\ line.explicit \subseteq asked /\ ExplicitIsAsked'
  BY <1>1, <1>3 DEF OrderInv, ExplicitIsAsked
<1>6. \A o \in asked : o = <<p, s>> \/ <<o, <<p, s>>>> \in older
  BY <1>1
<1>7. /\ Linked(line')
      /\ Nested(line', asked \ {<<p, s>>},
                older \cap ((asked \ {<<p, s>>}) \X (asked \ {<<p, s>>})), rank, n)
  BY <1>1, <1>2, <1>4, <1>5, <1>6, FreedNested
<1>8. QED BY <1>1, <1>5, <1>7

LEMMA OrderStep == IInv /\ OrderInv /\ [Next]_vars => OrderInv'
<1> SUFFICES ASSUME IInv, OrderInv, [Next]_vars PROVE OrderInv'
  OBVIOUS
<1>1. CASE UNCHANGED vars
  BY <1>1 DEF OrderInv, ExplicitIsAsked, vars
<1>2. CASE Next
  BY <1>2, AddTokenOrder, RemoveTokenOrder, ConstrainOrder, FreeOrder DEF Next
<1>3. QED BY <1>1, <1>2

LEMMA OrderTells == IInv /\ OrderInv => NeighboursConstrainedInOrder
<1>1. IInv => (Linked(line) <=> NeighboursConstrained)
  BY LinkedIs DEF IInv, NeighboursConstrained
<1>2. QED BY <1>1 DEF OrderInv, NeighboursConstrainedInOrder

(* Neighbours are tied to each other as long as requests are freed in the  *)
(* order of a search and no removal leaves a mark for which nobody asks.   *)
THEOREM NeighboursStayConstrained == Spec => []NeighboursConstrainedInOrder
<1>1. Spec => []IInv
  BY AlwaysIInv
<1>2. Spec /\ []IInv => []OrderInv
  BY InitOrder, OrderStep, PTL DEF Spec
<1>3. QED BY <1>1, <1>2, OrderTells, PTL

-----------------------------------------------------------------------------
(* Finite sets: every family of subsets of one has a member that is        *)
(* minimal in it, and a set of integers its least and its greatest.        *)
LEMMA MinimalSet ==
  ASSUME NEW S, IsFiniteSet(S), NEW X, X \subseteq SUBSET S, X # {}
  PROVE  \E s \in X : \A t \in X : t \subseteq s => t = s
<1>1. FiniteSubsetsOf(S) = SUBSET S
  BY FS_FiniteSubsetsOfFinite
<1>2. IsWellFoundedOn(StrictSubsetOrdering(S), SUBSET S)
  BY <1>1, FS_StrictSubsetOrderingWellFounded
<1>3. PICK s \in X : \A t \in X : ~(<<t, s>> \in StrictSubsetOrdering(S))
  BY <1>2, WFMin
<1>4. QED
  BY <1>3 DEF StrictSubsetOrdering

(* A set of integers that is finite has a least element, by the least of   *)
(* its initial segments, and a greatest one.                               *)
LEMMA LeastOf ==
  ASSUME NEW S, IsFiniteSet(S), S # {}, \A x \in S : x \in Int
  PROVE  Min(S) \in S /\ \A x \in S : Min(S) <= x
<1> DEFINE below(m) == {x \in S : x <= m}
           X == {below(m) : m \in S}
<1>1. X \subseteq SUBSET S /\ X # {}
  OBVIOUS
<1>2. PICK s \in X : \A t \in X : t \subseteq s => t = s
  <2> HIDE DEF X
  <2>1. QED
    BY ONLY IsFiniteSet(S), <1>1, MinimalSet
<1>3. PICK m \in S : s = below(m)
  BY <1>2
<1>4. ASSUME NEW x \in S, x < m PROVE FALSE
  <2>1. below(x) \in X
    OBVIOUS
  <2>4. below(x) \subseteq below(m)
    <3>1. \A y \in S : y \in Int
      OBVIOUS
    <3>2. \A y \in S : y <= x => y <= m
      BY <1>4, <3>1
    <3>3. QED
      BY <3>2
  <2>2. m \in below(m) /\ m \notin below(x)
    BY <1>4
  <2>3. QED
    BY <1>2, <1>3, <2>1, <2>2, <2>4
<1>5. \E y \in S : \A x \in S : y <= x
  BY <1>4
<1>6. QED
  BY <1>5, Zenon DEF Min

LEMMA GreatestOf ==
  ASSUME NEW S, IsFiniteSet(S), S # {}, \A x \in S : x \in Int
  PROVE  Max(S) \in S /\ \A x \in S : x <= Max(S)
<1> DEFINE above(m) == {x \in S : x >= m}
           X == {above(m) : m \in S}
<1>1. X \subseteq SUBSET S /\ X # {}
  OBVIOUS
<1>2. PICK s \in X : \A t \in X : t \subseteq s => t = s
  <2> HIDE DEF X
  <2>1. QED
    BY ONLY IsFiniteSet(S), <1>1, MinimalSet
<1>3. PICK m \in S : s = above(m)
  BY <1>2
<1>4. ASSUME NEW x \in S, x > m PROVE FALSE
  <2>1. above(x) \in X
    OBVIOUS
  <2>4. above(x) \subseteq above(m)
    <3>1. \A y \in S : y \in Int
      OBVIOUS
    <3>2. \A y \in S : y >= x => y >= m
      BY <1>4, <3>1
    <3>3. QED
      BY <3>2
  <2>2. m \in above(m) /\ m \notin above(x)
    BY <1>4
  <2>3. QED
    BY <1>2, <1>3, <2>1, <2>2, <2>4
<1>5. \E y \in S : \A x \in S : y >= x
  BY <1>4
<1>6. QED
  BY <1>5, Zenon DEF Max

LEMMA ValuesFinite ==
  ASSUME NEW S, IsFiniteSet(S), NEW f
  PROVE  IsFiniteSet({f[x] : x \in S})
<1> DEFINE g == [x \in S |-> f[x]]
           T == {f[x] : x \in S}
<1>1. g \in Surjection(S, T)
  BY DEF Surjection
<1>2. QED
  BY <1>1, FS_Surjection

-----------------------------------------------------------------------------
(***************************************************************************)
(* The places that are offered.  Windows are taken as what the recursion   *)
(* in EarliestEnd and LatestStart makes of them: nothing but a token that  *)
(* is tied to another moves a bound.                                       *)
(***************************************************************************)
BeforeIn(R, q, i) == {j \in 1 .. i - 1 : <<q[j], q[i]>> \in R}
AfterIn(R, q, i) == {j \in i + 1 .. Len(q) : <<q[i], q[j]>> \in R}

EndIn(R, q, f, i) ==
  Max({Earliest[q[i]]} \cup {f[j] : j \in BeforeIn(R, q, i)}) + Duration[q[i]]
StartIn(R, q, f, i) ==
  Min({Latest[q[i]]} \cup {f[j] : j \in AfterIn(R, q, i)}) - Duration[q[i]]

(* The recursion has a solution: what comes first is known first.          *)
LEMMA EndsExist ==
  ASSUME NEW R, NEW q, NEW n \in Nat
  PROVE  \E f : f = [i \in 1 .. n |-> EndIn(R, q, f, i)]
<1> DEFINE Solved(m) == \E f : f = [i \in 1 .. m |-> EndIn(R, q, f, i)]
           X == {m \in 0 .. n : ~Solved(m)}
<1>1. SUFFICES ASSUME X # {} PROVE FALSE
  OBVIOUS
<1>2. IsFiniteSet(X) /\ \A m \in X : m \in Int
  <2>1. IsFiniteSet(0 .. n)
    BY FS_Interval
  <2>2. X \subseteq 0 .. n
    OBVIOUS
  <2>3. QED
    BY <2>1, <2>2, FS_Subset
<1>3. PICK m \in X : \A k \in X : m <= k
  <2> HIDE DEF X
  <2>1. QED
    BY <1>1, <1>2, LeastOf
<1>4. m \in 0 .. n /\ ~Solved(m)
  OBVIOUS
<1>5. m # 0
  <2>1. SUFFICES ASSUME m = 0 PROVE FALSE
    OBVIOUS
  <2> DEFINE f == [i \in {} |-> 0]
  <2>2. 1 .. m = {}
    BY <2>1
  <2>3. f = [i \in 1 .. m |-> EndIn(R, q, f, i)]
    BY <2>2
  <2>4. QED
    BY <1>4, <2>3
<1>6. m - 1 \in 0 .. n /\ m - 1 \notin X
  BY <1>3, <1>4, <1>5
<1>7. PICK g : g = [i \in 1 .. m - 1 |-> EndIn(R, q, g, i)]
  BY <1>6
<1> DEFINE of(i) == IF i = m THEN EndIn(R, q, g, m) ELSE g[i]
           f == [i \in 1 .. m |-> of(i)]
<1>8. ASSUME NEW i \in 1 .. m PROVE f[i] = EndIn(R, q, f, i)
  <2>1. BeforeIn(R, q, i) \subseteq 1 .. i - 1
    BY DEF BeforeIn
  <2>2. \A j \in 1 .. i - 1 : j \in 1 .. m /\ j # m
    BY <1>4
  <2>3. \A j \in BeforeIn(R, q, i) : f[j] = g[j]
    BY <2>1, <2>2
  <2>4. f[i] = EndIn(R, q, g, i)
    <3>1. CASE i = m
      BY <3>1
    <3>2. CASE i # m
      <4>1. i \in 1 .. m - 1
        BY <1>4, <3>2
      <4>2. g[i] = EndIn(R, q, g, i)
        BY <1>7, <4>1
      <4>3. QED
        BY <3>2, <4>2
    <3>3. QED
      BY <3>1, <3>2
  <2>5. {f[j] : j \in BeforeIn(R, q, i)} = {g[j] : j \in BeforeIn(R, q, i)}
    <3> HIDE DEF f
    <3>1. QED
      BY <2>3
  <2>6. EndIn(R, q, f, i) = EndIn(R, q, g, i)
    <3> HIDE DEF f
    <3>1. QED
      BY <2>5 DEF EndIn
  <2>7. QED
    BY <2>4, <2>6
<1>9. f = [i \in 1 .. m |-> EndIn(R, q, f, i)]
  <2>1. f = [i \in 1 .. m |-> f[i]]
    OBVIOUS
  <2> HIDE DEF f
  <2>2. QED
    BY <1>8, <2>1
<1>10. QED
  BY <1>4, <1>9

LEMMA StartsExist ==
  ASSUME NEW R, NEW q, Len(q) \in Nat
  PROVE  \E f : f = [i \in 1 .. Len(q) |-> StartIn(R, q, f, i)]
<1> DEFINE n == Len(q)
           Solved(m) == \E f : f = [i \in m .. n |-> StartIn(R, q, f, i)]
           X == {m \in 1 .. n + 1 : ~Solved(m)}
<1>1. SUFFICES ASSUME X # {} PROVE FALSE
  <2>1. 1 \in 1 .. n + 1
    OBVIOUS
  <2>2. QED
    BY <2>1
<1>2. IsFiniteSet(X) /\ \A m \in X : m \in Int
  <2>1. IsFiniteSet(1 .. n + 1)
    BY FS_Interval
  <2>2. X \subseteq 1 .. n + 1
    OBVIOUS
  <2>3. QED
    BY <2>1, <2>2, FS_Subset
<1>3. PICK m \in X : \A k \in X : k <= m
  <2> HIDE DEF X
  <2>1. QED
    BY <1>1, <1>2, GreatestOf
<1>4. m \in 1 .. n + 1 /\ ~Solved(m)
  OBVIOUS
<1>5. m # n + 1
  <2>1. SUFFICES ASSUME m = n + 1 PROVE FALSE
    OBVIOUS
  <2> DEFINE f == [i \in {} |-> 0]
  <2>2. m .. n = {}
    BY <2>1
  <2>3. f = [i \in m .. n |-> StartIn(R, q, f, i)]
    BY <2>2
  <2>4. QED
    BY <1>4, <2>3
<1>6. m + 1 \in 1 .. n + 1 /\ m + 1 \notin X
  BY <1>3, <1>4, <1>5
<1>7. PICK g : g = [i \in m + 1 .. n |-> StartIn(R, q, g, i)]
  BY <1>6
<1> DEFINE of(i) == IF i = m THEN StartIn(R, q, g, m) ELSE g[i]
           f == [i \in m .. n |-> of(i)]
<1>8. ASSUME NEW i \in m .. n PROVE f[i] = StartIn(R, q, f, i)
  <2>1. AfterIn(R, q, i) \subseteq i + 1 .. n
    BY DEF AfterIn
  <2>2. \A j \in i + 1 .. n : j \in m .. n /\ j # m
    BY <1>4
  <2>3. \A j \in AfterIn(R, q, i) : f[j] = g[j]
    BY <2>1, <2>2
  <2>4. f[i] = StartIn(R, q, g, i)
    <3>1. CASE i = m
      BY <3>1
    <3>2. CASE i # m
      <4>1. i \in m + 1 .. n
        BY <1>4, <3>2
      <4>2. g[i] = StartIn(R, q, g, i)
        BY <1>7, <4>1
      <4>3. QED
        BY <3>2, <4>2
    <3>3. QED
      BY <3>1, <3>2
  <2>5. {f[j] : j \in AfterIn(R, q, i)} = {g[j] : j \in AfterIn(R, q, i)}
    <3> HIDE DEF f
    <3>1. QED
      BY <2>3
  <2>6. StartIn(R, q, f, i) = StartIn(R, q, g, i)
    <3> HIDE DEF f
    <3>1. QED
      BY <2>5 DEF StartIn
  <2>7. QED
    BY <2>4, <2>6
<1>9. f = [i \in m .. n |-> StartIn(R, q, f, i)]
  <2>1. f = [i \in m .. n |-> f[i]]
    OBVIOUS
  <2> HIDE DEF f
  <2>2. QED
    BY <1>8, <2>1
<1>10. QED
  BY <1>4, <1>9

EndsOf(l) ==
  CHOOSE f : f = [i \in 1 .. Len(l.sequence) |-> EndIn(l.precedences, l.sequence, f, i)]
StartsOf(l) ==
  CHOOSE f : f = [i \in 1 .. Len(l.sequence) |-> StartIn(l.precedences, l.sequence, f, i)]

LEMMA EndIs ==
  ASSUME NEW l, NEW t
  PROVE  EarliestEnd(l, t) = IF t \in Sequenced(l) THEN EndsOf(l)[Position(l, t)]
                                                   ELSE Earliest[t] + Duration[t]
BY DEF EarliestEnd, EndsOf, EndIn, BeforeIn

LEMMA StartIs ==
  ASSUME NEW l, NEW t
  PROVE  LatestStart(l, t) = IF t \in Sequenced(l) THEN StartsOf(l)[Position(l, t)]
                                                   ELSE Latest[t] - Duration[t]
BY DEF LatestStart, StartsOf, StartIn, AfterIn

(* A window opens no earlier than the token by itself and those that it is *)
(* tied to allow, and no later than one of them makes it.                  *)
IsEnds(R, q, f) ==
  \A i \in 1 .. Len(q) :
    /\ f[i] \in Int /\ Earliest[q[i]] + Duration[q[i]] <= f[i]
    /\ \A j \in BeforeIn(R, q, i) : f[j] + Duration[q[i]] <= f[i]
    /\ \/ f[i] = Earliest[q[i]] + Duration[q[i]]
       \/ \E j \in BeforeIn(R, q, i) : f[i] = f[j] + Duration[q[i]]

IsStarts(R, q, f) ==
  \A i \in 1 .. Len(q) :
    /\ f[i] \in Int /\ f[i] <= Latest[q[i]] - Duration[q[i]]
    /\ \A j \in AfterIn(R, q, i) : f[i] <= f[j] - Duration[q[i]]
    /\ \/ f[i] = Latest[q[i]] - Duration[q[i]]
       \/ \E j \in AfterIn(R, q, i) : f[i] = f[j] - Duration[q[i]]

LEMMA TokenNumbers ==
  \A t \in Token : Earliest[t] \in Nat /\ Latest[t] \in Nat /\ Duration[t] \in Nat
BY TimelineAssumption

LEMMA LowestOf ==
  ASSUME NEW n \in Nat, NEW S, S \subseteq 1 .. n, S # {}
  PROVE  /\ \E m \in S : \A k \in S : m <= k
         /\ \E m \in S : \A k \in S : k <= m
<1>1. IsFiniteSet(1 .. n)
  BY FS_Interval
<1>2. IsFiniteSet(S)
  BY <1>1, FS_Subset
<1>3. \A x \in S : x \in Int
  OBVIOUS
<1>4. QED
  BY <1>2, <1>3, LeastOf, GreatestOf

(* One step of the recursion.                                              *)
LEMMA EndStep ==
  ASSUME NEW R, NEW q \in Seq(Token), NEW f, NEW i \in 1 .. Len(q), f[i] = EndIn(R, q, f, i),
         \A j \in 1 .. i - 1 : f[j] \in Int
  PROVE  /\ f[i] \in Int /\ Earliest[q[i]] + Duration[q[i]] <= f[i]
         /\ \A j \in BeforeIn(R, q, i) : f[j] + Duration[q[i]] <= f[i]
         /\ \/ f[i] = Earliest[q[i]] + Duration[q[i]]
            \/ \E j \in BeforeIn(R, q, i) : f[i] = f[j] + Duration[q[i]]
<1> DEFINE B == BeforeIn(R, q, i)
           V == {f[j] : j \in B}
           e == Earliest[q[i]]
           d == Duration[q[i]]
           S == {e} \cup V
<1>1. q[i] \in Token
  BY ElementOfSeq
<1>2. e \in Int /\ d \in Int
  BY <1>1, TokenNumbers
<1>3. B \subseteq 1 .. i - 1
  BY DEF BeforeIn
<1>4. IsFiniteSet(B) /\ \A j \in B : f[j] \in Int
  <2>1. IsFiniteSet(1 .. i - 1)
    BY FS_Interval
  <2> HIDE DEF B
  <2>2. IsFiniteSet(B)
    BY <1>3, <2>1, FS_Subset
  <2>3. QED
    BY <1>3, <2>2
<1>5. IsFiniteSet(V)
  <2> HIDE DEF B
  <2>1. QED
    BY <1>4, ValuesFinite
<1>6. f[i] = Max(S) + d
  BY DEF EndIn
<1> HIDE DEF B, e, d
<1>7. IsFiniteSet(S) /\ S # {} /\ \A x \in S : x \in Int
  <2>1. \A x \in V : x \in Int
    BY <1>4
  <2> HIDE DEF V
  <2>2. IsFiniteSet(S)
    BY <1>5, FS_Singleton, FS_Union
  <2>3. QED
    BY <1>2, <2>1, <2>2
<1>8. Max(S) \in S /\ \A x \in S : x <= Max(S)
  <2> HIDE DEF S
  <2>1. QED
    BY <1>7, GreatestOf
<1> DEFINE m == Max(S)
<1>9. m \in Int /\ e <= m /\ (\A j \in B : f[j] <= m) /\ (m = e \/ \E j \in B : m = f[j])
  <2> HIDE DEF m
  <2>1. m \in S /\ \A x \in S : x <= m
    BY <1>8 DEF m
  <2>2. QED
    BY <1>7, <2>1
<1> HIDE DEF m
<1>10. f[i] = m + d
  BY <1>6 DEF m
<1>11. f[i] \in Int /\ e + d <= f[i] /\ (\A j \in B : f[j] + d <= f[i])
       /\ (f[i] = e + d \/ \E j \in B : f[i] = f[j] + d)
  <2>1. f[i] \in Int /\ e + d <= f[i]
    BY <1>2, <1>9, <1>10
  <2>2. \A j \in B : f[j] + d <= f[i]
    BY <1>2, <1>4, <1>9, <1>10
  <2>3. f[i] = e + d \/ \E j \in B : f[i] = f[j] + d
    BY <1>9, <1>10
  <2>4. QED
    BY <2>1, <2>2, <2>3
<1>12. QED
  BY <1>11 DEF B, e, d

LEMMA StartStep ==
  ASSUME NEW R, NEW q \in Seq(Token), NEW f, NEW i \in 1 .. Len(q), f[i] = StartIn(R, q, f, i),
         \A j \in i + 1 .. Len(q) : f[j] \in Int
  PROVE  /\ f[i] \in Int /\ f[i] <= Latest[q[i]] - Duration[q[i]]
         /\ \A j \in AfterIn(R, q, i) : f[i] <= f[j] - Duration[q[i]]
         /\ \/ f[i] = Latest[q[i]] - Duration[q[i]]
            \/ \E j \in AfterIn(R, q, i) : f[i] = f[j] - Duration[q[i]]
<1> DEFINE B == AfterIn(R, q, i)
           V == {f[j] : j \in B}
           e == Latest[q[i]]
           d == Duration[q[i]]
           S == {e} \cup V
<1>1. q[i] \in Token /\ Len(q) \in Nat
  BY ElementOfSeq, LenProperties
<1>2. e \in Int /\ d \in Int
  BY <1>1, TokenNumbers
<1>3. B \subseteq i + 1 .. Len(q)
  BY DEF AfterIn
<1>4. IsFiniteSet(B) /\ \A j \in B : f[j] \in Int
  <2>1. IsFiniteSet(i + 1 .. Len(q))
    BY <1>1, FS_Interval
  <2> HIDE DEF B
  <2>2. IsFiniteSet(B)
    BY <1>3, <2>1, FS_Subset
  <2>3. QED
    BY <1>3, <2>2
<1>5. IsFiniteSet(V)
  <2> HIDE DEF B
  <2>1. QED
    BY <1>4, ValuesFinite
<1>6. f[i] = Min(S) - d
  BY DEF StartIn
<1> HIDE DEF B, e, d
<1>7. IsFiniteSet(S) /\ S # {} /\ \A x \in S : x \in Int
  <2>1. \A x \in V : x \in Int
    BY <1>4
  <2> HIDE DEF V
  <2>2. IsFiniteSet(S)
    BY <1>5, FS_Singleton, FS_Union
  <2>3. QED
    BY <1>2, <2>1, <2>2
<1>8. Min(S) \in S /\ \A x \in S : Min(S) <= x
  <2> HIDE DEF S
  <2>1. QED
    BY <1>7, LeastOf
<1> DEFINE m == Min(S)
<1>9. m \in Int /\ m <= e /\ (\A j \in B : m <= f[j]) /\ (m = e \/ \E j \in B : m = f[j])
  <2> HIDE DEF m
  <2>1. m \in S /\ \A x \in S : m <= x
    BY <1>8 DEF m
  <2>2. QED
    BY <1>7, <2>1
<1> HIDE DEF m
<1>10. f[i] = m - d
  BY <1>6 DEF m
<1>11. f[i] \in Int /\ f[i] <= e - d /\ (\A j \in B : f[i] <= f[j] - d)
       /\ (f[i] = e - d \/ \E j \in B : f[i] = f[j] - d)
  <2>1. f[i] \in Int /\ f[i] <= e - d
    BY <1>2, <1>9, <1>10
  <2>2. \A j \in B : f[i] <= f[j] - d
    BY <1>2, <1>4, <1>9, <1>10
  <2>3. f[i] = e - d \/ \E j \in B : f[i] = f[j] - d
    BY <1>9, <1>10
  <2>4. QED
    BY <2>1, <2>2, <2>3
<1>12. QED
  BY <1>11 DEF B, e, d

LEMMA EndsSolve ==
  ASSUME NEW R, NEW q \in Seq(Token), NEW f,
         \A i \in 1 .. Len(q) : f[i] = EndIn(R, q, f, i)
  PROVE  IsEnds(R, q, f)
<1> DEFINE n == Len(q)
           X == {i \in 1 .. n : f[i] \notin Int}
<1>1. n \in Nat
  BY LenProperties
<1>2. ASSUME X # {} PROVE FALSE
  <2>1. PICK m \in X : \A k \in X : m <= k
    <3>1. X \subseteq 1 .. n
      OBVIOUS
    <3> HIDE DEF X
    <3>2. QED
      BY <1>1, <1>2, <3>1, LowestOf
  <2>2. \A j \in 1 .. m - 1 : f[j] \in Int
    BY <2>1
  <2>3. f[m] \in Int
    BY <2>1, <2>2, EndStep
  <2>4. QED
    BY <2>3
<1>3. ASSUME NEW i \in 1 .. n
      PROVE  /\ f[i] \in Int /\ Earliest[q[i]] + Duration[q[i]] <= f[i]
             /\ \A j \in BeforeIn(R, q, i) : f[j] + Duration[q[i]] <= f[i]
             /\ \/ f[i] = Earliest[q[i]] + Duration[q[i]]
                \/ \E j \in BeforeIn(R, q, i) : f[i] = f[j] + Duration[q[i]]
  <2>1. \A j \in 1 .. i - 1 : f[j] \in Int
    BY <1>2
  <2>2. QED
    BY <2>1, EndStep
<1>4. QED
  BY <1>3 DEF IsEnds

LEMMA EndsAre ==
  ASSUME NEW l, l.sequence \in Seq(Token)
  PROVE  IsEnds(l.precedences, l.sequence, EndsOf(l))
<1> DEFINE q == l.sequence
           R == l.precedences
           f == EndsOf(l)
<1>1. q \in Seq(Token) /\ Len(q) \in Nat
  BY LenProperties
<1>2. f = [i \in 1 .. Len(q) |-> EndIn(R, q, f, i)]
  BY <1>1, EndsExist DEF EndsOf
<1> HIDE DEF f, q, R
<1>3. \A i \in 1 .. Len(q) : f[i] = EndIn(R, q, f, i)
  BY ONLY <1>2
<1>4. IsEnds(R, q, f)
  BY ONLY <1>1, <1>3, EndsSolve
<1>5. QED
  BY <1>4 DEF f, q, R

LEMMA StartsSolve ==
  ASSUME NEW R, NEW q \in Seq(Token), NEW f,
         \A i \in 1 .. Len(q) : f[i] = StartIn(R, q, f, i)
  PROVE  IsStarts(R, q, f)
<1> DEFINE n == Len(q)
           X == {i \in 1 .. n : f[i] \notin Int}
<1>1. n \in Nat
  BY LenProperties
<1>2. ASSUME X # {} PROVE FALSE
  <2>1. PICK m \in X : \A k \in X : k <= m
    <3>1. X \subseteq 1 .. n
      OBVIOUS
    <3> HIDE DEF X
    <3>2. QED
      BY <1>1, <1>2, <3>1, LowestOf
  <2>2. \A j \in m + 1 .. n : f[j] \in Int
    BY <2>1
  <2>3. f[m] \in Int
    BY <2>1, <2>2, StartStep
  <2>4. QED
    BY <2>3
<1>3. ASSUME NEW i \in 1 .. n
      PROVE  /\ f[i] \in Int /\ f[i] <= Latest[q[i]] - Duration[q[i]]
             /\ \A j \in AfterIn(R, q, i) : f[i] <= f[j] - Duration[q[i]]
             /\ \/ f[i] = Latest[q[i]] - Duration[q[i]]
                \/ \E j \in AfterIn(R, q, i) : f[i] = f[j] - Duration[q[i]]
  <2>1. \A j \in i + 1 .. n : f[j] \in Int
    BY <1>2
  <2>2. QED
    BY <2>1, StartStep
<1>4. QED
  BY <1>3 DEF IsStarts

LEMMA StartsAre ==
  ASSUME NEW l, l.sequence \in Seq(Token)
  PROVE  IsStarts(l.precedences, l.sequence, StartsOf(l))
<1> DEFINE q == l.sequence
           R == l.precedences
           f == StartsOf(l)
<1>1. q \in Seq(Token) /\ Len(q) \in Nat
  BY LenProperties
<1>2. f = [i \in 1 .. Len(q) |-> StartIn(R, q, f, i)]
  BY <1>1, StartsExist DEF StartsOf
<1> HIDE DEF f, q, R
<1>3. \A i \in 1 .. Len(q) : f[i] = StartIn(R, q, f, i)
  BY ONLY <1>2
<1>4. IsStarts(R, q, f)
  BY ONLY <1>1, <1>3, StartsSolve
<1>5. QED
  BY <1>4 DEF f, q, R

(* A token is put into the sequence at a place; the others keep their      *)
(* order, and whatever ties them.                                          *)
PutAtPlace(q, r, i, t) ==
  /\ Len(r) = Len(q) + 1
  /\ \A j \in 1 .. Len(q) + 1 : r[j] = IF j < i THEN q[j] ELSE IF j = i THEN t ELSE q[j - 1]

MovedTo(i, j) == IF j < i THEN j ELSE j + 1

LEMMA MovedIs ==
  ASSUME NEW q, NEW r, NEW i, NEW t,
         Len(q) \in Nat, i \in 1 .. Len(q) + 1, PutAtPlace(q, r, i, t)
  PROVE  /\ \A j \in 1 .. Len(q) : MovedTo(i, j) \in 1 .. Len(r) /\ r[MovedTo(i, j)] = q[j]
         /\ \A j, k \in 1 .. Len(q) : j < k => MovedTo(i, j) < MovedTo(i, k)
<1>1. ASSUME NEW j \in 1 .. Len(q) PROVE MovedTo(i, j) \in 1 .. Len(r) /\ r[MovedTo(i, j)] = q[j]
  <2>1. CASE j < i
    BY <2>1 DEF MovedTo, PutAtPlace
  <2>2. CASE ~ (j < i)
    <3>1. j + 1 \in 1 .. Len(q) + 1 /\ ~ (j + 1 < i) /\ j + 1 # i /\ (j + 1) - 1 = j
      BY <2>2
    <3>2. r[j + 1] = q[j]
      BY <3>1 DEF PutAtPlace
    <3>3. MovedTo(i, j) = j + 1
      BY <2>2 DEF MovedTo
    <3>4. QED
      BY <3>1, <3>2, <3>3 DEF PutAtPlace
  <2>3. QED
    BY <2>1, <2>2
<1>2. \A j, k \in 1 .. Len(q) : j < k => MovedTo(i, j) < MovedTo(i, k)
  BY DEF MovedTo
<1>3. QED
  BY <1>1, <1>2

(* A window only gets smaller when a token is put in.                      *)
LEMMA EndsLater ==
  ASSUME NEW R, NEW S, NEW q, NEW r, NEW i, NEW t, NEW f, NEW g,
         q \in Seq(Token), i \in 1 .. Len(q) + 1, PutAtPlace(q, r, i, t), R \subseteq S,
         IsEnds(R, q, f), IsEnds(S, r, g)
  PROVE  \A j \in 1 .. Len(q) : f[j] <= g[MovedTo(i, j)]
<1> DEFINE n == Len(q)
           X == {j \in 1 .. n : ~(f[j] <= g[MovedTo(i, j)])}
<1>1. n \in Nat
  BY LenProperties
<1>2. SUFFICES ASSUME X # {} PROVE FALSE
  OBVIOUS
<1>3. PICK m \in X : \A k \in X : m <= k
  <2>1. X \subseteq 1 .. n
    OBVIOUS
  <2> HIDE DEF X
  <2>2. QED
    BY <1>1, <1>2, <2>1, LowestOf
<1>4. /\ \A j \in 1 .. n : MovedTo(i, j) \in 1 .. Len(r) /\ r[MovedTo(i, j)] = q[j]
      /\ \A j, k \in 1 .. n : j < k => MovedTo(i, j) < MovedTo(i, k)
  BY <1>1, MovedIs
<1>5. m \in 1 .. n /\ ~(f[m] <= g[MovedTo(i, m)]) /\ \A k \in 1 .. m - 1 : f[k] <= g[MovedTo(i, k)]
  BY <1>1, <1>3
<1> DEFINE a == MovedTo(i, m)
<1>6. a \in 1 .. Len(r) /\ r[a] = q[m]
  BY <1>4, <1>5
<1>7. /\ g[a] \in Int /\ Earliest[q[m]] + Duration[q[m]] <= g[a]
      /\ \A j \in BeforeIn(S, r, a) : g[j] + Duration[q[m]] <= g[a]
  BY <1>6 DEF IsEnds
<1>8. /\ f[m] \in Int
      /\ \/ f[m] = Earliest[q[m]] + Duration[q[m]]
         \/ \E j \in BeforeIn(R, q, m) : f[m] = f[j] + Duration[q[m]]
  BY <1>5 DEF IsEnds
<1>9. Duration[q[m]] \in Int
  BY <1>5, ElementOfSeq, TokenNumbers
<1>10. CASE f[m] = Earliest[q[m]] + Duration[q[m]]
  BY <1>5, <1>7, <1>10
<1>11. CASE \E j \in BeforeIn(R, q, m) : f[m] = f[j] + Duration[q[m]]
  <2>1. PICK j \in BeforeIn(R, q, m) : f[m] = f[j] + Duration[q[m]]
    BY <1>11
  <2>2. j \in 1 .. m - 1 /\ j \in 1 .. n /\ <<q[j], q[m]>> \in S
    BY <1>1, <1>5 DEF BeforeIn
  <2>3. MovedTo(i, j) \in 1 .. Len(r) /\ r[MovedTo(i, j)] = q[j] /\ MovedTo(i, j) < a
    BY <1>4, <1>5, <2>2
  <2>4. MovedTo(i, j) \in 1 .. a - 1
    BY <1>6, <2>3
  <2>5. MovedTo(i, j) \in BeforeIn(S, r, a)
    BY <1>6, <2>2, <2>3, <2>4 DEF BeforeIn
  <2>6. g[MovedTo(i, j)] + Duration[q[m]] <= g[a] /\ f[j] <= g[MovedTo(i, j)]
    BY <1>5, <1>7, <2>2, <2>5
  <2>7. f[j] \in Int /\ g[MovedTo(i, j)] \in Int
    BY <2>2, <2>3 DEF IsEnds
  <2>8. f[m] <= g[a]
    <3> HIDE DEF a
    <3>1. QED
      BY <1>7, <1>8, <1>9, <2>1, <2>6, <2>7
  <2>9. QED
    BY <1>5, <2>8
<1>12. QED
  BY <1>8, <1>10, <1>11

LEMMA StartsEarlier ==
  ASSUME NEW R, NEW S, NEW q, NEW r, NEW i, NEW t, NEW f, NEW g,
         q \in Seq(Token), i \in 1 .. Len(q) + 1, PutAtPlace(q, r, i, t), R \subseteq S,
         IsStarts(R, q, f), IsStarts(S, r, g)
  PROVE  \A j \in 1 .. Len(q) : g[MovedTo(i, j)] <= f[j]
<1> DEFINE n == Len(q)
           X == {j \in 1 .. n : ~(g[MovedTo(i, j)] <= f[j])}
<1>1. n \in Nat
  BY LenProperties
<1>2. SUFFICES ASSUME X # {} PROVE FALSE
  OBVIOUS
<1>3. PICK m \in X : \A k \in X : k <= m
  <2>1. X \subseteq 1 .. n
    OBVIOUS
  <2> HIDE DEF X
  <2>2. QED
    BY <1>1, <1>2, <2>1, LowestOf
<1>4. /\ \A j \in 1 .. n : MovedTo(i, j) \in 1 .. Len(r) /\ r[MovedTo(i, j)] = q[j]
      /\ \A j, k \in 1 .. n : j < k => MovedTo(i, j) < MovedTo(i, k)
  BY <1>1, MovedIs
<1>5. /\ m \in 1 .. n /\ ~(g[MovedTo(i, m)] <= f[m])
      /\ \A k \in m + 1 .. n : g[MovedTo(i, k)] <= f[k]
  BY <1>1, <1>3
<1> DEFINE a == MovedTo(i, m)
<1>6. a \in 1 .. Len(r) /\ r[a] = q[m]
  BY <1>4, <1>5
<1>7. /\ g[a] \in Int /\ g[a] <= Latest[q[m]] - Duration[q[m]]
      /\ \A j \in AfterIn(S, r, a) : g[a] <= g[j] - Duration[q[m]]
  BY <1>6 DEF IsStarts
<1>8. /\ f[m] \in Int
      /\ \/ f[m] = Latest[q[m]] - Duration[q[m]]
         \/ \E j \in AfterIn(R, q, m) : f[m] = f[j] - Duration[q[m]]
  BY <1>5 DEF IsStarts
<1>9. Duration[q[m]] \in Int
  BY <1>5, ElementOfSeq, TokenNumbers
<1>10. CASE f[m] = Latest[q[m]] - Duration[q[m]]
  BY <1>5, <1>7, <1>10
<1>11. CASE \E j \in AfterIn(R, q, m) : f[m] = f[j] - Duration[q[m]]
  <2>1. PICK j \in AfterIn(R, q, m) : f[m] = f[j] - Duration[q[m]]
    BY <1>11
  <2>2. j \in m + 1 .. n /\ j \in 1 .. n /\ <<q[m], q[j]>> \in S
    BY <1>1, <1>5 DEF AfterIn
  <2>3. MovedTo(i, j) \in 1 .. Len(r) /\ r[MovedTo(i, j)] = q[j] /\ a < MovedTo(i, j)
    BY <1>4, <1>5, <2>2
  <2>4. MovedTo(i, j) \in a + 1 .. Len(r)
    BY <1>6, <2>3
  <2>5. MovedTo(i, j) \in AfterIn(S, r, a)
    BY <1>6, <2>2, <2>3, <2>4 DEF AfterIn
  <2>6. g[a] <= g[MovedTo(i, j)] - Duration[q[m]] /\ g[MovedTo(i, j)] <= f[j]
    BY <1>5, <1>7, <2>2, <2>5
  <2>7. f[j] \in Int /\ g[MovedTo(i, j)] \in Int
    BY <2>2, <2>3 DEF IsStarts
  <2>8. g[a] <= f[m]
    <3> HIDE DEF a
    <3>1. QED
      BY <1>7, <1>8, <1>9, <2>1, <2>6, <2>7
  <2>9. QED
    BY <1>5, <2>8
<1>12. QED
  BY <1>8, <1>10, <1>11

(* Along a sequence of neighbours the tokens end in its order.             *)
LEMMA EndsInOrder ==
  ASSUME NEW R, NEW q, NEW f, NEW i,
         q \in Seq(Token), IsEnds(R, q, f), i \in 1 .. Len(q),
         \A j \in 1 .. Len(q) - 1 : <<q[j], q[j + 1]>> \in R
  PROVE  \A k \in i .. Len(q) : f[i] <= f[k]
<1> DEFINE n == Len(q)
           X == {k \in 1 .. n : i <= k /\ ~(f[i] <= f[k])}
<1>1. n \in Nat
  BY LenProperties
<1>2. SUFFICES ASSUME X # {} PROVE FALSE
  BY <1>1
<1>3. PICK m \in X : \A k \in X : m <= k
  <2>1. X \subseteq 1 .. n
    OBVIOUS
  <2> HIDE DEF X
  <2>2. QED
    BY <1>1, <1>2, <2>1, LowestOf
<1>4. f[i] \in Int /\ f[m] \in Int
  BY <1>3 DEF IsEnds
<1>5. m # i
  BY <1>3, <1>4
<1>6. m - 1 \in 1 .. n - 1 /\ m - 1 \in 1 .. n /\ i <= m - 1 /\ m - 1 \in 1 .. m - 1
      /\ (m - 1) + 1 = m /\ m \in 1 .. n
  BY <1>1, <1>3, <1>5
<1>7. f[i] <= f[m - 1]
  BY <1>1, <1>3, <1>6
<1>8. <<q[m - 1], q[m]>> \in R
  BY <1>6
<1>9. m - 1 \in BeforeIn(R, q, m)
  BY <1>6, <1>8 DEF BeforeIn
<1>10. f[m - 1] + Duration[q[m]] <= f[m] /\ f[m - 1] \in Int
  BY <1>6, <1>9 DEF IsEnds
<1>11. Duration[q[m]] \in Nat
  BY <1>6, ElementOfSeq, TokenNumbers
<1>12. f[i] <= f[m]
  <2>1. \A a, b, c \in Int, d \in Nat : a <= b /\ b + d <= c => a <= c
    OBVIOUS
  <2>2. QED
    BY ONLY <1>4, <1>7, <1>10, <1>11, <2>1
<1>13. QED
  BY <1>3, <1>12

(* What the windows of a timeline and of the one with a token put in say   *)
(* of the place, when the latter are consistent.                           *)
LEMMA PlaceFits ==
  ASSUME NEW R, NEW S, NEW q, NEW r, NEW i, NEW t, NEW f, NEW g, NEW u, NEW v,
         q \in Seq(Token), t \in Token, i \in 1 .. Len(q) + 1, PutAtPlace(q, r, i, t), R \subseteq S,
         IsEnds(R, q, f), IsEnds(S, r, g), IsStarts(R, q, u), IsStarts(S, r, v),
         \A j \in 1 .. Len(q) - 1 : <<q[j], q[j + 1]>> \in R,
         i <= Len(q) => <<t, q[i]>> \in S, 1 < i => <<q[i - 1], t>> \in S,
         g[i] - Duration[t] <= v[i]
  PROVE  /\ i <= Len(q) => Earliest[t] + Duration[t] <= u[i]
         /\ \A j \in 1 .. i - 1 : f[j] <= Latest[t] - Duration[t]
         /\ 1 < i /\ i <= Len(q) => u[i] - f[i - 1] >= Duration[t]
<1> DEFINE n == Len(q)
<1>1. n \in Nat
  BY LenProperties
<1>2. i \in 1 .. Len(r) /\ r[i] = t /\ Len(r) = n + 1
  BY <1>1 DEF PutAtPlace
<1>3. Duration[t] \in Nat /\ Earliest[t] \in Nat /\ Latest[t] \in Nat
  BY TokenNumbers
<1>4. /\ g[i] \in Int /\ Earliest[t] + Duration[t] <= g[i]
      /\ \A j \in BeforeIn(S, r, i) : g[j] + Duration[t] <= g[i]
  BY <1>2 DEF IsEnds
<1>5. /\ v[i] \in Int /\ v[i] <= Latest[t] - Duration[t]
      /\ \A j \in AfterIn(S, r, i) : v[i] <= v[j] - Duration[t]
  BY <1>2 DEF IsStarts
<1>6. \A j \in 1 .. n : f[j] <= g[MovedTo(i, j)] /\ v[MovedTo(i, j)] <= u[j]
  BY EndsLater, StartsEarlier
<1>7. ASSUME i <= n PROVE u[i] \in Int /\ v[i] <= u[i] - Duration[t]
  <2>1. i \in 1 .. n /\ MovedTo(i, i) = i + 1
    BY <1>1, <1>7 DEF MovedTo
  <2>2. i + 1 \in 1 .. Len(q) + 1 /\ ~(i + 1 < i) /\ i + 1 # i /\ (i + 1) - 1 = i
    BY <1>1, <1>7
  <2>3. r[i + 1] = q[i]
    BY <2>2 DEF PutAtPlace
  <2>4. i + 1 \in AfterIn(S, r, i) /\ i + 1 \in 1 .. Len(r)
    <3>1. <<r[i], r[i + 1]>> \in S
      BY <1>2, <1>7, <2>3
    <3>2. i + 1 \in i + 1 .. Len(r) /\ i + 1 \in 1 .. Len(r)
      BY <1>1, <1>2, <2>2
    <3>3. QED
      BY <3>1, <3>2 DEF AfterIn
  <2>5. v[i] <= v[i + 1] - Duration[t] /\ v[i + 1] <= u[i]
    BY <1>5, <1>6, <2>1, <2>4
  <2>6. v[i + 1] \in Int /\ u[i] \in Int
    BY <2>1, <2>4 DEF IsStarts
  <2>7. QED
    BY <1>3, <1>5, <2>5, <2>6
<1>8. ASSUME 1 < i PROVE f[i - 1] \in Int /\ f[i - 1] + Duration[t] <= g[i]
  <2>1. i - 1 \in 1 .. n /\ MovedTo(i, i - 1) = i - 1
    BY <1>1, <1>8 DEF MovedTo
  <2>2. i - 1 \in 1 .. Len(q) + 1 /\ i - 1 < i
    BY <1>1, <1>8
  <2>3. r[i - 1] = q[i - 1]
    BY <2>2 DEF PutAtPlace
  <2>4. i - 1 \in BeforeIn(S, r, i) /\ i - 1 \in 1 .. Len(r)
    <3>1. <<r[i - 1], r[i]>> \in S
      BY <1>2, <1>8, <2>3
    <3>2. i - 1 \in 1 .. i - 1 /\ i - 1 \in 1 .. Len(r)
      BY <1>1, <1>2, <1>8, <2>2
    <3>3. QED
      BY <3>1, <3>2 DEF BeforeIn
  <2>5. g[i - 1] + Duration[t] <= g[i] /\ f[i - 1] <= g[i - 1]
    BY <1>4, <1>6, <2>1, <2>4
  <2>6. g[i - 1] \in Int /\ f[i - 1] \in Int
    BY <2>1, <2>4 DEF IsEnds
  <2>7. QED
    BY <1>3, <1>4, <2>5, <2>6
<1>9. ASSUME i <= n PROVE Earliest[t] + Duration[t] <= u[i]
  BY <1>3, <1>4, <1>5, <1>7, <1>9
<1>10. ASSUME NEW j \in 1 .. i - 1 PROVE f[j] <= Latest[t] - Duration[t]
  <2>1. 1 < i /\ j \in 1 .. n /\ i - 1 \in j .. n
    BY <1>1
  <2>2. f[j] <= f[i - 1]
    BY <2>1, EndsInOrder
  <2>3. f[j] \in Int
    BY <2>1 DEF IsEnds
  <2>4. \A a, b, c, d, e, x \in Int :
          a <= b /\ b + d <= c /\ c - d <= e /\ e <= x - d => a <= x - d
    OBVIOUS
  <2>5. /\ f[i - 1] \in Int /\ f[i - 1] + Duration[t] <= g[i]
        /\ Duration[t] \in Int /\ Latest[t] \in Int
    BY <1>3, <1>8, <2>1
  <2>6. QED
    BY ONLY <1>4, <1>5, <2>2, <2>3, <2>4, <2>5, g[i] - Duration[t] <= v[i]
<1>11. ASSUME 1 < i, i <= n PROVE u[i] - f[i - 1] >= Duration[t]
  <2>1. \A a, b, c, d, e \in Int :
          a + d <= b /\ b - d <= c /\ c <= e - d => e - a >= d
    OBVIOUS
  <2>2. /\ f[i - 1] \in Int /\ f[i - 1] + Duration[t] <= g[i] /\ Duration[t] \in Int
        /\ u[i] \in Int /\ v[i] <= u[i] - Duration[t]
    BY <1>3, <1>7, <1>8, <1>11
  <2>3. QED
    BY ONLY <1>4, <1>5, <2>1, <2>2, g[i] - Duration[t] <= v[i]
<1>12. QED
  BY <1>9, <1>10, <1>11

(* The places of OrderingChoices: one before which the token can go is     *)
(* offered, if it can come after all that are ahead of it and fits.        *)
LEMMA OfferedInside ==
  ASSUME NEW l, NEW t, NEW i, Len(l.sequence) \in Nat, Consistent(l),
         i \in 1 .. Len(l.sequence), CanPrecede(l, t, l.sequence[i]),
         \A j \in 1 .. i - 1 : CanPrecede(l, l.sequence[j], t),
         1 < i => CanFitBetween(l, t, l.sequence[i - 1], l.sequence[i])
  PROVE  <<t, l.sequence[i]>> \in OrderingChoices(l, t)
<1> DEFINE n == Len(l.sequence)
           token(j) == l.sequence[j]
           F == {j \in 1 .. n : CanPrecede(l, t, token(j))} \cup {n + 1}
           first == Min(F)
           start == Max({first, 2})
           inner == {k \in start .. n : \A j \in start .. k : CanPrecede(l, token(j - 1), t)}
           between == {k \in inner : CanFitBetween(l, t, token(k - 1), token(k))}
<1>1. first \in 1 .. n + 1 /\ first <= i
  <2>1. F \subseteq 1 .. n + 1 /\ i \in F
    OBVIOUS
  <2> HIDE DEF F
  <2>2. IsFiniteSet(1 .. n + 1)
    <3>1. 1 \in Int /\ n + 1 \in Int
      OBVIOUS
    <3> HIDE DEF n
    <3>2. QED
      BY ONLY <3>1, FS_Interval
  <2>3. IsFiniteSet(F)
    BY <2>1, <2>2, FS_Subset
  <2>4. F # {} /\ \A x \in F : x \in Int
    BY <2>1
  <2>5. Min(F) \in F /\ \A x \in F : Min(F) <= x
    BY <2>3, <2>4, LeastOf
  <2>6. QED
    BY <2>1, <2>5
<1> HIDE DEF first
<1>2. start \in {first, 2} /\ first <= start /\ 2 <= start
  <2>1. IsFiniteSet({first, 2}) /\ {first, 2} # {}
    <3>1. IsFiniteSet({first} \cup {2}) /\ {first} \cup {2} = {first, 2}
      BY FS_Singleton, FS_Union
    <3>2. QED
      BY <3>1
  <2>2. \A x \in {first, 2} : x \in Int
    BY <1>1
  <2>3. Max({first, 2}) \in {first, 2} /\ \A x \in {first, 2} : x <= Max({first, 2})
    BY <2>1, <2>2, GreatestOf
  <2>4. QED
    BY <2>3
<1> HIDE DEF start
<1>3. i \in between \cup {j \in {1} : first = 1}
  <2>1. CASE i = 1
    BY <1>1, <2>1
  <2>2. CASE i # 1
    <3>1. i \in start .. n /\ start \in Int
      BY <1>1, <1>2, <2>2
    <3>2. \A j \in start .. i : CanPrecede(l, token(j - 1), t)
      BY <1>2, <3>1
    <3>3. i \in inner
      BY <3>1, <3>2
    <3>4. QED
      BY <2>2, <3>3
  <2>3. QED
    BY <2>1, <2>2
<1> DEFINE Offered == {<<t, token(k)>> : k \in between \cup {j \in {1} : first = 1}}
<1>4. Offered \subseteq OrderingChoices(l, t)
  <2>1. n # 0
    OBVIOUS
  <2>2. QED
    BY <2>1 DEF OrderingChoices, first, start
<1>5. <<t, token(i)>> \in Offered
  BY <1>3
<1>6. QED
  BY <1>4, <1>5

LEMMA OfferedLast ==
  ASSUME NEW l, NEW t, Len(l.sequence) \in Nat, Len(l.sequence) # 0, Consistent(l),
         \A j \in 1 .. Len(l.sequence) : CanPrecede(l, l.sequence[j], t)
  PROVE  <<l.sequence[Len(l.sequence)], t>> \in OrderingChoices(l, t)
<1> DEFINE n == Len(l.sequence)
           token(j) == l.sequence[j]
           F == {j \in 1 .. n : CanPrecede(l, t, token(j))} \cup {n + 1}
           first == Min(F)
           start == Max({first, 2})
           inner == {k \in start .. n : \A j \in start .. k : CanPrecede(l, token(j - 1), t)}
<1>1. first \in 1 .. n + 1
  <2>1. F \subseteq 1 .. n + 1 /\ n + 1 \in F
    OBVIOUS
  <2> HIDE DEF F
  <2>2. IsFiniteSet(1 .. n + 1)
    <3>1. 1 \in Int /\ n + 1 \in Int
      OBVIOUS
    <3> HIDE DEF n
    <3>2. QED
      BY ONLY <3>1, FS_Interval
  <2>3. IsFiniteSet(F)
    BY <2>1, <2>2, FS_Subset
  <2>4. F # {} /\ \A x \in F : x \in Int
    BY <2>1
  <2>5. Min(F) \in F
    BY <2>3, <2>4, LeastOf
  <2>6. QED
    BY <2>1, <2>5
<1> HIDE DEF first
<1>2. start \in Int /\ 2 <= start
  <2>1. IsFiniteSet({first, 2}) /\ {first, 2} # {}
    <3>1. IsFiniteSet({first} \cup {2}) /\ {first} \cup {2} = {first, 2}
      BY FS_Singleton, FS_Union
    <3>2. QED
      BY <3>1
  <2>2. \A x \in {first, 2} : x \in Int
    BY <1>1
  <2>3. Max({first, 2}) \in {first, 2} /\ \A x \in {first, 2} : x <= Max({first, 2})
    BY <2>1, <2>2, GreatestOf
  <2>4. QED
    BY <2>2, <2>3
<1> HIDE DEF start
<1>3. inner = start .. n
  <2>1. ASSUME NEW k \in start .. n, NEW j \in start .. k PROVE CanPrecede(l, token(j - 1), t)
    <3>1. j - 1 \in 1 .. n
      BY <1>2
    <3>2. QED
      BY <3>1
  <2>2. QED
    BY <2>1
<1> DEFINE Offered == {<<token(n), t>> : i \in {i \in {n} : inner = start .. n
                                                           /\ CanPrecede(l, token(n), t)}}
<1>4. Offered \subseteq OrderingChoices(l, t)
  BY DEF OrderingChoices, first, start
<1>5. <<token(n), t>> \in Offered
  BY <1>3
<1>6. QED
  BY <1>4, <1>5

(* What the timeline says of itself, in its windows.                       *)
LEMMA Windows ==
  ASSUME NEW l, l.sequence \in Seq(Token), IsInjective(l.sequence), NEW i \in 1 .. Len(l.sequence)
  PROVE  /\ EarliestEnd(l, l.sequence[i]) = EndsOf(l)[i]
         /\ LatestStart(l, l.sequence[i]) = StartsOf(l)[i]
         /\ l.sequence[i] \in Sequenced(l)
<1>1. i \in DOMAIN l.sequence
  BY LenProperties
<1>2. l.sequence[i] \in Sequenced(l)
  BY <1>1 DEF Sequenced, ToSet
<1>3. Position(l, l.sequence[i]) = i
  BY <1>1, PositionIs
<1>4. QED
  BY <1>2, <1>3, EndIs, StartIs

(* A consistent timeline with one more token in it: the place was offered. *)
LEMMA PlaceOffered ==
  ASSUME NEW T, NEW l, NEW r, NEW t, NEW i,
         T \in SUBSET Token, Sound(l, T), r \in Lines(T), t \in T, t \notin Sequenced(l),
         i \in 1 .. Len(l.sequence) + 1, r.sequence = InsertAt(l.sequence, i, t),
         l.precedences \subseteq r.precedences,
         \A j \in 1 .. Len(l.sequence) - 1 : <<l.sequence[j], l.sequence[j + 1]>> \in l.precedences,
         i <= Len(l.sequence) => <<t, l.sequence[i]>> \in r.precedences,
         1 < i => <<l.sequence[i - 1], t>> \in r.precedences,
         IsInjective(r.sequence), Consistent(r)
  PROVE  /\ i <= Len(l.sequence) => CanPrecede(l, t, l.sequence[i])
         /\ \A j \in 1 .. i - 1 : CanPrecede(l, l.sequence[j], t)
         /\ 1 < i /\ i <= Len(l.sequence) => CanFitBetween(l, t, l.sequence[i - 1], l.sequence[i])
<1> DEFINE q == l.sequence
           s == r.sequence
           f == EndsOf(l)
           g == EndsOf(r)
           u == StartsOf(l)
           v == StartsOf(r)
<1>1. q \in Seq(Token) /\ s \in Seq(Token) /\ t \in Token /\ IsInjective(q) /\ Len(q) \in Nat
      /\ q \in Seq(T)
  <2>1. q \in Seq(T) /\ s \in Seq(T)
    BY DEF Sound, Lines
  <2>2. QED
    BY <2>1, LenProperties DEF Sound
<1>2. PutAtPlace(q, s, i, t)
  <2>1. /\ Len(InsertAt(q, i, t)) = Len(q) + 1
        /\ \A j \in 1 .. Len(q) + 1 :
             InsertAt(q, i, t)[j] = IF j < i THEN q[j] ELSE IF j = i THEN t ELSE q[j - 1]
    BY <1>1, PutIn
  <2>2. s = InsertAt(q, i, t)
    OBVIOUS
  <2> HIDE DEF q, s
  <2>3. QED
    BY <2>1, <2>2 DEF PutAtPlace
<1>3. /\ IsEnds(l.precedences, q, f) /\ IsEnds(r.precedences, s, g)
      /\ IsStarts(l.precedences, q, u) /\ IsStarts(r.precedences, s, v)
  BY <1>1, EndsAre, StartsAre
<1>4. s[i] = t /\ i \in 1 .. Len(s)
  <2> HIDE DEF q, s
  <2>1. i \in 1 .. Len(q) + 1
    BY DEF q
  <2>2. ~(i < i)
    BY <2>1
  <2>3. QED
    BY <1>1, <1>2, <2>1, <2>2 DEF PutAtPlace
<1>5. g[i] - Duration[t] <= v[i]
  <2>1. EarliestEnd(r, s[i]) = g[i] /\ LatestStart(r, s[i]) = v[i] /\ s[i] \in Sequenced(r)
    BY <1>1, <1>4, Windows
  <2>2. QED
    BY <1>4, <2>1 DEF Consistent
<1>6. EarliestEnd(l, t) = Earliest[t] + Duration[t] /\ LatestStart(l, t) = Latest[t] - Duration[t]
  BY EndIs, StartIs
<1>7. \A j \in 1 .. Len(q) : EarliestEnd(l, q[j]) = f[j] /\ LatestStart(l, q[j]) = u[j]
  BY <1>1, Windows
<1> DEFINE R == l.precedences
           S == r.precedences
<1>8. /\ i \in 1 .. Len(q) + 1 /\ R \subseteq S
      /\ \A j \in 1 .. Len(q) - 1 : <<q[j], q[j + 1]>> \in R
      /\ i <= Len(q) => <<t, q[i]>> \in S
      /\ 1 < i => <<q[i - 1], t>> \in S
  OBVIOUS
<1>9. /\ i <= Len(q) => Earliest[t] + Duration[t] <= u[i]
      /\ \A j \in 1 .. i - 1 : f[j] <= Latest[t] - Duration[t]
      /\ 1 < i /\ i <= Len(q) => u[i] - f[i - 1] >= Duration[t]
  <2>1. IsEnds(R, q, f) /\ IsEnds(S, s, g) /\ IsStarts(R, q, u) /\ IsStarts(S, s, v)
    BY <1>3
  <2> HIDE DEF q, s, f, g, u, v, R, S
  <2>2. QED
    BY ONLY <1>1, <1>2, <1>5, <1>8, <2>1, PlaceFits
<1> HIDE DEF f, u
<1>10. i \in 1 .. Len(q) + 1 /\ (i <= Len(q) => i \in 1 .. Len(q)) /\ \A j \in 1 .. i - 1 : j \in 1 .. Len(q)
  BY <1>1
<1>11. i <= Len(q) => CanPrecede(l, t, q[i])
  BY <1>6, <1>7, <1>9, <1>10 DEF CanPrecede
<1>12. \A j \in 1 .. i - 1 : CanPrecede(l, q[j], t)
  BY <1>6, <1>7, <1>9, <1>10 DEF CanPrecede
<1>13. 1 < i /\ i <= Len(q) => CanFitBetween(l, t, q[i - 1], q[i])
  <2>1. 1 < i /\ i <= Len(q) => i - 1 \in 1 .. Len(q) /\ i \in 1 .. Len(q)
    BY <1>1, <1>10
  <2>2. QED
    BY <1>7, <1>9, <2>1 DEF CanFitBetween
<1>14. QED
  BY <1>11, <1>12, <1>13

(* Ahead of a token of the sequence.                                       *)
LEMMA AheadOffered ==
  ASSUME NEW T, NEW l, NEW t, NEW i,
         T \in SUBSET Token, Sound(l, T), t \in l.toOrder, i \in 1 .. Len(l.sequence),
         \A j \in 1 .. Len(l.sequence) - 1 : <<l.sequence[j], l.sequence[j + 1]>> \in l.precedences,
         Consistent(l), Consistent(Constrained(l, t, l.sequence[i]))
  PROVE  <<t, l.sequence[i]>> \in OrderingChoices(l, t)
<1> DEFINE q == l.sequence
           s == q[i]
           r == Constrained(l, t, s)
<1>1. q \in Seq(T) /\ IsInjective(q) /\ t \in T /\ t \notin Sequenced(l) /\ Len(q) \in Nat
      /\ DOMAIN q = 1 .. Len(q)
  BY LenProperties DEF Sound, Lines
<1>2. s \in Sequenced(l) /\ s \in T /\ Position(l, s) = i
  <2>1. i \in DOMAIN q
    BY <1>1
  <2>2. QED
    BY <1>1, <2>1, PositionIs, ElementOfSeq DEF Sequenced, ToSet
<1>3. /\ r \in Lines(T) /\ r.sequence = InsertAt(q, i, t)
      /\ i = 1 => r.precedences = l.precedences \cup {<<t, s>>}
      /\ i # 1 => r.precedences = l.precedences \cup {<<t, s>>, <<q[i - 1], t>>}
  <2>1. /\ T \in SUBSET Token /\ Sound(l, T) /\ t \in T /\ t \notin Sequenced(l)
        /\ s \in Sequenced(l) /\ s \in T /\ i = Position(l, s) /\ r = Constrained(l, t, s)
    BY <1>1, <1>2
  <2> HIDE DEF s, r
  <2>2. QED
    BY ONLY <2>1, OrderedAhead
<1>4. IsInjective(r.sequence)
  <2>1. /\ T \in SUBSET Token /\ Sound(l, T) /\ t \in T /\ s \in T /\ r = Constrained(l, t, s)
        /\ l.sequence # << >> => ((t \in Sequenced(l)) # (s \in Sequenced(l)))
    BY <1>1, <1>2
  <2> HIDE DEF s, r
  <2>2. Sound(r, T)
    BY ONLY <2>1, ConstrainedSound
  <2>3. QED
    BY <2>2 DEF Sound
<1> HIDE DEF r
<1>5. /\ l.precedences \subseteq r.precedences /\ <<t, s>> \in r.precedences
      /\ 1 < i => <<q[i - 1], t>> \in r.precedences
  BY <1>3
<1>6. /\ i <= Len(q) => CanPrecede(l, t, q[i])
      /\ \A j \in 1 .. i - 1 : CanPrecede(l, q[j], t)
      /\ 1 < i /\ i <= Len(q) => CanFitBetween(l, t, q[i - 1], q[i])
  <2>1. i \in 1 .. Len(q) + 1 /\ Consistent(r)
    BY <1>1 DEF r
  <2>2. QED
    BY <1>1, <1>3, <1>4, <1>5, <2>1, PlaceOffered
<1>7. /\ Len(l.sequence) \in Nat /\ Consistent(l) /\ i \in 1 .. Len(l.sequence)
      /\ CanPrecede(l, t, l.sequence[i]) /\ \A j \in 1 .. i - 1 : CanPrecede(l, l.sequence[j], t)
      /\ 1 < i => CanFitBetween(l, t, l.sequence[i - 1], l.sequence[i])
  <2>1. i <= Len(q)
    BY <1>1
  <2>2. QED
    BY <1>1, <1>6, <2>1
<1>8. QED
  BY ONLY <1>7, OfferedInside

(* Behind the last one.                                                    *)
LEMMA LastOffered ==
  ASSUME NEW T, NEW l, NEW t,
         T \in SUBSET Token, Sound(l, T), t \in l.toOrder, l.sequence # << >>,
         \A j \in 1 .. Len(l.sequence) - 1 : <<l.sequence[j], l.sequence[j + 1]>> \in l.precedences,
         Consistent(l), Consistent(Constrained(l, l.sequence[Len(l.sequence)], t))
  PROVE  <<l.sequence[Len(l.sequence)], t>> \in OrderingChoices(l, t)
<1> DEFINE q == l.sequence
           n == Len(q)
           p == q[n]
           r == Constrained(l, p, t)
<1>1. q \in Seq(T) /\ IsInjective(q) /\ t \in T /\ t \notin Sequenced(l) /\ n \in Nat
      /\ DOMAIN q = 1 .. n
  BY LenProperties DEF Sound, Lines
<1>2. n \in 1 .. n /\ n # 0
  BY <1>1, EmptySeq
<1>3. p \in Sequenced(l) /\ p \in T /\ Position(l, p) = n
  <2>1. n \in DOMAIN q
    BY <1>1, <1>2
  <2>2. QED
    BY <1>1, <1>2, <2>1, PositionIs, ElementOfSeq DEF Sequenced, ToSet
<1>4. /\ r \in Lines(T) /\ r.sequence = InsertAt(q, n + 1, t)
      /\ r.precedences = l.precedences \cup {<<p, t>>}
  <2>1. n + 1 > Len(l.sequence)
    BY <1>1
  <2>2. /\ T \in SUBSET Token /\ Sound(l, T) /\ t \in T /\ t \notin Sequenced(l)
        /\ p \in Sequenced(l) /\ p \in T /\ n + 1 = Position(l, p) + 1
        /\ r = Constrained(l, p, t)
    BY <1>1, <1>3
  <2> HIDE DEF p, r
  <2>3. /\ r \in Lines(T) /\ r.sequence = InsertAt(l.sequence, n + 1, t)
        /\ n + 1 > Len(l.sequence) => r.precedences = l.precedences \cup {<<p, t>>}
    BY ONLY <2>2, OrderedAfter
  <2>4. QED
    BY <2>1, <2>3
<1>5. IsInjective(r.sequence)
  <2>1. /\ T \in SUBSET Token /\ Sound(l, T) /\ t \in T /\ p \in T /\ r = Constrained(l, p, t)
        /\ l.sequence # << >> => ((p \in Sequenced(l)) # (t \in Sequenced(l)))
    BY <1>1, <1>3
  <2> HIDE DEF p, r
  <2>2. Sound(r, T)
    BY ONLY <2>1, ConstrainedSound
  <2>3. QED
    BY <2>2 DEF Sound
<1> HIDE DEF r
<1>6. \A j \in 1 .. (n + 1) - 1 : CanPrecede(l, q[j], t)
  <2>1. n + 1 \in 1 .. n + 1 /\ ~(n + 1 <= n) /\ (n + 1) - 1 = n /\ Consistent(r)
    BY <1>1 DEF r
  <2>2. l.precedences \subseteq r.precedences /\ <<q[(n + 1) - 1], t>> \in r.precedences
    BY <1>4, <2>1
  <2>3. QED
    BY <1>1, <1>4, <1>5, <2>1, <2>2, PlaceOffered
<1>7. \A j \in 1 .. n : CanPrecede(l, q[j], t)
  BY <1>1, <1>6
<1>8. QED
  BY <1>1, <1>2, <1>7, OfferedLast

LEMMA NothingWithheld == IInv => NoPlaceWithheld
<1> SUFFICES ASSUME IInv, NeighboursConstrained, Consistent(line),
                    NEW t \in line.toOrder, NEW i \in 1 .. Len(line.sequence) + 1,
                    LET c == PlaceOf(line, t, i) IN Consistent(Constrained(line, c[1], c[2]))
             PROVE  PlaceOf(line, t, i) \in OrderingChoices(line, t)
  BY DEF NoPlaceWithheld
<1> DEFINE q == line.sequence
           n == Len(q)
<1>1. tokens \in SUBSET Token /\ Sound(line, tokens)
  BY DEF IInv, TypeOK
<1>2. n \in Nat /\ DOMAIN q = 1 .. n /\ q \in Seq(tokens)
  BY <1>1, LenProperties DEF Sound, Lines
<1>3. \A j \in 1 .. Len(line.sequence) - 1 :
        <<line.sequence[j], line.sequence[j + 1]>> \in line.precedences
  BY DEF NeighboursConstrained
<1>4. CASE q = << >>
  <2>1. PlaceOf(line, t, i) = <<t, t>>
    BY <1>4 DEF PlaceOf
  <2>2. n = 0
    BY <1>4
  <2>3. <<t, t>> \in OrderingChoices(line, t)
    BY <2>2 DEF OrderingChoices
  <2>4. QED
    BY <2>1, <2>3
<1>5. CASE q # << >> /\ i <= n
  <2>1. PlaceOf(line, t, i) = <<t, q[i]>>
    BY <1>5 DEF PlaceOf
  <2>2. Consistent(Constrained(line, t, q[i])) /\ i \in 1 .. n
    BY <1>2, <1>5, <2>1
  <2>3. QED
    BY <1>1, <1>3, <2>1, <2>2, AheadOffered
<1>6. CASE q # << >> /\ ~(i <= n)
  <2>1. i - 1 = n
    BY <1>2, <1>6
  <2>2. PlaceOf(line, t, i) = <<q[n], t>>
    BY <1>6, <2>1 DEF PlaceOf
  <2>3. Consistent(Constrained(line, q[n], t))
    BY <2>2
  <2>4. QED
    BY <1>1, <1>3, <1>6, <2>2, <2>3, LastOffered
<1>7. QED
  BY <1>4, <1>5, <1>6

(* getOrderingChoices withholds no place at which a token would fit: a     *)
(* search that tries all of its choices misses no solution.                *)
THEOREM NoPlaceIsWithheld == Spec => []NoPlaceWithheld
BY AlwaysIInv, NothingWithheld, PTL
=============================================================================
