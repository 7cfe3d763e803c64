--------------------------- MODULE FilteringProofs ---------------------------
(* Facts about Dropping, proved by induction over the length of a sequence. *)
EXTENDS Filtering, SequenceTheorems, WellFoundedInduction, TLAPS

\* A set of numbers with 0 that is closed under successor is all of Nat.
LEMMA Induction ==
  ASSUME NEW T \in SUBSET Nat, 0 \in T, \A n \in T : n + 1 \in T
  PROVE  T = Nat
<1> DEFINE less == {ss \in Nat \X Nat : ss[1] < ss[2]}
           rest == Nat \ T
<1>1. IsWellFoundedOn(less, Nat)
  BY NatLessThanWellFounded, Zenon DEF OpToRel
<1>2. \A i, j \in Nat : i < j => <<i, j>> \in less
  OBVIOUS
<1> HIDE DEF less
<1>3. SUFFICES ASSUME rest # {} PROVE FALSE
  OBVIOUS
<1>4. PICK x \in rest : \A y \in rest : ~ (<<y, x>> \in less)
  BY <1>1, <1>3, WFMin
<1>5. x \in Nat \ {0}
  BY <1>4
<1>6. x - 1 \in Nat /\ <<x - 1, x>> \in less
  BY <1>2, <1>5
<1>7. x - 1 \in T
  BY <1>4, <1>6
<1>8. (x - 1) + 1 \in T
  BY <1>7
<1>9. QED
  BY <1>4, <1>5, <1>8

KeptOf(s, S, n, f) ==
  f = [i \in 0..n |-> IF i = 0 THEN <<>>
                      ELSE IF s[i] \in S THEN f[i - 1] ELSE Append(f[i - 1], s[i])]

\* The filter's recursion has a solution up to every length.
LEMMA KeptExists ==
  ASSUME NEW s, NEW S
  PROVE  \A n \in Nat : \E f : KeptOf(s, S, n, f)
<1> DEFINE T == {n \in Nat : \E f : KeptOf(s, S, n, f)}
<1>1. 0 \in T
  <2> DEFINE f == [i \in 0..0 |-> <<>>]
  <2>1. f = [i \in 0..0 |-> IF i = 0 THEN <<>>
                      ELSE IF s[i] \in S THEN f[i - 1] ELSE Append(f[i - 1], s[i])]
    OBVIOUS
  <2>2. KeptOf(s, S, 0, f)
    BY <2>1 DEF KeptOf
  <2>3. QED
    BY <2>2
<1>2. ASSUME NEW n \in T PROVE n + 1 \in T
  <2>1. PICK f : KeptOf(s, S, n, f)
    OBVIOUS
  <2> DEFINE last == IF s[n + 1] \in S THEN f[n] ELSE Append(f[n], s[n + 1])
             g == [i \in 0..(n + 1) |-> IF i = n + 1 THEN last ELSE f[i]]
  <2> HIDE DEF last
  <2>2. /\ n \in Nat /\ DOMAIN g = 0..(n + 1) 
        /\ \A i \in 0..n : g[i] = f[i]
        /\ g[n + 1] = last
    OBVIOUS
  <2>3. ASSUME NEW i \in 0..(n + 1)
        PROVE g[i] = IF i = 0 THEN <<>>
                     ELSE IF s[i] \in S THEN g[i - 1] ELSE Append(g[i - 1], s[i])
    <3>1. CASE i = n + 1
      <4>1. g[i] = last /\ i # 0 /\ g[i - 1] = f[n] /\ i = n + 1
        BY <2>2, <3>1
      <4> HIDE DEF g
      <4>2. QED
        BY <4>1 DEF last
    <3>2. CASE i \in 0..n
      <4>1. g[i] = f[i] /\ (i # 0 => g[i - 1] = f[i - 1])
        BY <2>2, <3>2
      <4> HIDE DEF g
      <4>2. QED
        BY <2>1, <4>1, <3>2 DEF KeptOf
    <3>3. QED
      BY <2>2, <3>1, <3>2
  <2>4. g = [i \in 0..(n + 1) |-> IF i = 0 THEN <<>>
                     ELSE IF s[i] \in S THEN g[i - 1] ELSE Append(g[i - 1], s[i])]
    BY <2>3
  <2> HIDE DEF g
  <2>5. KeptOf(s, S, n + 1, g)
    BY <2>4 DEF KeptOf
  <2>6. QED
    BY <2>2, <2>5
<1> HIDE DEF T
<1>3. T = Nat
  BY <1>1, <1>2, Induction, T \in SUBSET Nat DEF T
<1>4. QED
  BY <1>3 DEF T

Agree(s, t, n) == \A i \in 1..n : s[i] = t[i]

\* Two such solutions agree as far as their sequences do.
LEMMA KeptAgrees ==
  ASSUME NEW s, NEW t, NEW S, NEW n \in Nat,
         Agree(s, t, n),
         NEW f, KeptOf(s, S, n, f), NEW g, KeptOf(t, S, n + 1, g)
  PROVE  \A i \in 0..n : f[i] = g[i]
<1> DEFINE T == {i \in Nat : i <= n => f[i] = g[i]}
<1>1. 0 \in T
  BY DEF KeptOf
<1>2. ASSUME NEW i \in T PROVE i + 1 \in T
  <2>1. SUFFICES ASSUME i + 1 <= n PROVE f[i + 1] = g[i + 1]
    OBVIOUS
  <2>2. i + 1 \in 0..n /\ i + 1 \in 0..(n + 1) /\ i + 1 # 0 /\ (i + 1) - 1 = i /\ f[i] = g[i]
    BY <2>1
  <2>3. f[i + 1] = IF s[i + 1] \in S THEN f[i] ELSE Append(f[i], s[i + 1])
    BY <2>2 DEF KeptOf
  <2>4. g[i + 1] = IF t[i + 1] \in S THEN g[i] ELSE Append(g[i], t[i + 1])
    BY <2>2 DEF KeptOf
  <2>5. s[i + 1] = t[i + 1]
    BY <2>1 DEF Agree
  <2>6. QED
    BY <2>2, <2>3, <2>4, <2>5
<1> HIDE DEF T
<1>3. T = Nat
  BY <1>1, <1>2, Induction, T \in SUBSET Nat DEF T
<1>4. QED
  BY <1>3 DEF T

\* Dropping is the last value of that recursion.
LEMMA DroppingIsKept ==
  ASSUME NEW X, NEW s \in Seq(X), NEW S
  PROVE  \E f : KeptOf(s, S, Len(s), f) /\ Dropping(s, S) = f[Len(s)]
<1> DEFINE f == CHOOSE f : KeptOf(s, S, Len(s), f)
<1>1. KeptOf(s, S, Len(s), f)
  BY KeptExists
<1>2. Dropping(s, S) = f[Len(s)]
  BY DEF Dropping, KeptOf
<1>3. QED
  BY <1>1, <1>2

\* What is left of no elements, and of one more.
THEOREM DroppingEmpty == \A S : Dropping(<<>>, S) = <<>>
<1> SUFFICES ASSUME NEW S PROVE Dropping(<<>>, S) = <<>>
  OBVIOUS
<1>1. <<>> \in Seq({}) /\ Len(<<>>) = 0
  OBVIOUS
<1>2. PICK f : KeptOf(<<>>, S, Len(<<>>), f) /\ Dropping(<<>>, S) = f[Len(<<>>)]
  BY <1>1, DroppingIsKept
<1>3. QED
  BY <1>1, <1>2 DEF KeptOf

\* An element at the end is dropped or stays at the end.
THEOREM DroppingAppend ==
  ASSUME NEW X, NEW s \in Seq(X), NEW e \in X, NEW S
  PROVE  Dropping(Append(s, e), S)
           = IF e \in S THEN Dropping(s, S) ELSE Append(Dropping(s, S), e)
<1> SUFFICES ASSUME NEW t, t = Append(s, e), NEW n \in Nat, n = Len(s)
             PROVE  Dropping(t, S) = IF e \in S THEN Dropping(s, S) ELSE Append(Dropping(s, S), e)
  BY LenProperties
<1>1. t \in Seq(X) /\ Len(t) = n + 1 /\ t[n + 1] = e /\ \A i \in 1..n : s[i] = t[i]
  BY AppendProperties
<1>2. PICK f : KeptOf(s, S, n, f) /\ Dropping(s, S) = f[n]
  BY DroppingIsKept
<1>3. PICK g : KeptOf(t, S, n + 1, g) /\ Dropping(t, S) = g[n + 1]
  BY <1>1, DroppingIsKept
<1>4. n \in Nat
  OBVIOUS
<1>5. f[n] = g[n]
  <2>1. Agree(s, t, n)
    BY <1>1 DEF Agree
  <2>2. KeptOf(s, S, n, f) /\ KeptOf(t, S, n + 1, g)
    BY <1>2, <1>3
  <2>3. \A i \in 0..n : f[i] = g[i]
    BY <2>1, <2>2, KeptAgrees
  <2>4. QED
    BY <2>3
<1>6. g[n + 1] = IF t[n + 1] \in S THEN g[n] ELSE Append(g[n], t[n + 1])
  <2>1. n + 1 \in 0..(n + 1) /\ n + 1 # 0 /\ (n + 1) - 1 = n
    BY <1>4
  <2>2. QED
    BY <1>3, <2>1 DEF KeptOf
<1>7. QED
  BY <1>1, <1>2, <1>3, <1>5, <1>6

\* A set of sequences with <<>> that is closed under Append is all of Seq(X).
LEMMA SequenceInduction ==
  ASSUME NEW X, NEW P \in SUBSET Seq(X), <<>> \in P,
         \A s \in P, e \in X : Append(s, e) \in P
  PROVE  P = Seq(X)
<1> DEFINE T == {n \in Nat : \A s \in Seq(X) : Len(s) = n => s \in P}
<1>1. 0 \in T
  BY EmptySeq
<1>2. ASSUME NEW n \in T PROVE n + 1 \in T
  <2>1. SUFFICES ASSUME NEW s \in Seq(X), Len(s) = n + 1 PROVE s \in P
    OBVIOUS
  <2>2. s # <<>>
    BY <2>1
  <2>3. PICK t \in Seq(X), e \in X : s = Append(t, e)
    BY <2>2, SequenceEmptyOrAppend
  <2>4. Len(t) = n
    BY <2>1, <2>3, AppendProperties, LenProperties
  <2>5. t \in P
    BY <2>4
  <2>6. QED
    BY <2>3, <2>5
<1> HIDE DEF T
<1>3. T = Nat
  BY <1>1, <1>2, Induction, T \in SUBSET Nat DEF T
<1>4. \A s \in Seq(X) : s \in P
  BY <1>3, LenProperties DEF T
<1>5. QED
  BY <1>4

\* Exactly the elements of S are gone.
THEOREM DroppingElements ==
  ASSUME NEW X, NEW s \in Seq(X), NEW S
  PROVE  /\ Dropping(s, S) \in Seq(X)
         /\ Len(Dropping(s, S)) <= Len(s)
         /\ \A x : (\E i \in DOMAIN Dropping(s, S) : Dropping(s, S)[i] = x)
                     <=> x \notin S /\ \E i \in DOMAIN s : s[i] = x
<1> DEFINE In(x, t) == \E i \in DOMAIN t : t[i] = x
           Left(t) == Dropping(t, S)
           P == {t \in Seq(X) : /\ Left(t) \in Seq(X) /\ Len(Left(t)) <= Len(t)
                                /\ \A x : In(x, Left(t)) <=> x \notin S /\ In(x, t)}
<1>0. ASSUME NEW t \in Seq(X), NEW e \in X, NEW x
      PROVE  In(x, Append(t, e)) <=> In(x, t) \/ x = e
  <2>1. /\ DOMAIN Append(t, e) = 1..(Len(t) + 1) /\ DOMAIN t = 1..Len(t) /\ Len(t) \in Nat
        /\ \A i \in 1..Len(t) : Append(t, e)[i] = t[i] /\ Append(t, e)[Len(t) + 1] = e
        /\ Append(t, e)[Len(t) + 1] = e
    BY AppendProperties, LenProperties
  <2>2. 1..(Len(t) + 1) = 1..Len(t) \cup {Len(t) + 1}
    BY <2>1
  <2>3. QED
    BY <2>1, <2>2
<1>1. <<>> \in P
  <2>1. <<>> \in Seq(X) /\ Left(<<>>) = <<>> /\ Len(<<>>) = 0 /\ \A x : ~ In(x, <<>>)
    BY DroppingEmpty
  <2>2. Len(Left(<<>>)) <= Len(<<>>)
    BY <2>1
  <2> HIDE DEF Left, In
  <2>3. \A x : In(x, Left(<<>>)) <=> x \notin S /\ In(x, <<>>)
    BY <2>1
  <2>4. Left(<<>>) \in Seq(X)
    BY <2>1
  <2>5. QED
    BY <2>1, <2>2, <2>3, <2>4
<1>2. ASSUME NEW t \in P, NEW e \in X PROVE Append(t, e) \in P
  <2>1. t \in Seq(X) /\ Left(t) \in Seq(X) /\ Len(Left(t)) <= Len(t)
        /\ \A x : In(x, Left(t)) <=> x \notin S /\ In(x, t)
    OBVIOUS
  <2>2. Append(t, e) \in Seq(X) /\ Len(Append(t, e)) = Len(t) + 1 /\ Len(t) \in Nat
    BY <2>1, AppendProperties, LenProperties
  <2>3. CASE e \in S
    <3>1. Left(Append(t, e)) = Left(t)
      BY <2>1, <2>3, DroppingAppend
    <3> HIDE DEF P, Left, In
    <3>2. Len(Left(t)) <= Len(t) + 1
      BY <2>1, <2>2, LenProperties
    <3>3. \A x : In(x, Left(t)) <=> x \notin S /\ In(x, Append(t, e))
      BY <1>0, <2>1, <2>3
    <3>4. QED
      BY <2>1, <2>2, <3>1, <3>2, <3>3 DEF P
  <2>4. CASE e \notin S
    <3>1. Left(Append(t, e)) = Append(Left(t), e)
      BY <2>1, <2>4, DroppingAppend
    <3> HIDE DEF P, Left, In
    <3>2. /\ Append(Left(t), e) \in Seq(X)
          /\ Len(Append(Left(t), e)) = Len(Left(t)) + 1 /\ Len(Left(t)) \in Nat
      BY <2>1, AppendProperties, LenProperties
    <3>3. \A x : In(x, Append(Left(t), e)) <=> x \notin S /\ In(x, Append(t, e))
      BY <1>0, <2>1, <2>4
    <3>4. Len(Left(Append(t, e))) <= Len(Append(t, e)) /\ Left(Append(t, e)) \in Seq(X)
      BY <2>1, <2>2, <3>1, <3>2
    <3>5. \A x : In(x, Left(Append(t, e))) <=> x \notin S /\ In(x, Append(t, e))
      BY <3>1, <3>3
    <3>6. QED
      BY <2>2, <3>4, <3>5 DEF P
  <2>5. QED
    BY <2>3, <2>4
<1> HIDE DEF P
<1>3. P = Seq(X)
  BY <1>1, <1>2, SequenceInduction, P \in SUBSET Seq(X) DEF P
<1>4. s \in P
  BY <1>3
<1>5. QED
  BY <1>4 DEF P

\* Append goes through a concatenation.
LEMMA ConcatAppend ==
  ASSUME NEW X, NEW s \in Seq(X), NEW t \in Seq(X), NEW e \in X
  PROVE  s \o Append(t, e) = Append(s \o t, e)
<1>1. <<e>> \in Seq(X) /\ s \o t \in Seq(X)
  BY ConcatProperties
<1>2. Append(t, e) = t \o <<e>> /\ Append(s \o t, e) = (s \o t) \o <<e>>
  BY <1>1, AppendIsConcat
<1>3. QED
  BY <1>1, <1>2, ConcatAssociative

\* What is left of two sequences one after the other.
THEOREM DroppingConcat ==
  ASSUME NEW X, NEW s \in Seq(X), NEW t \in Seq(X), NEW S
  PROVE  Dropping(s \o t, S) = Dropping(s, S) \o Dropping(t, S)
<1> DEFINE P == {u \in Seq(X) : Dropping(s \o u, S) = Dropping(s, S) \o Dropping(u, S)}
<1>0. Dropping(s, S) \in Seq(X)
  BY DroppingElements
<1>1. <<>> \in P
  <2>1. <<>> \in Seq(X) /\ s \o <<>> = s /\ Dropping(s, S) \o <<>> = Dropping(s, S)
    BY <1>0, ConcatEmptySeq
  <2>2. QED
    BY <2>1, DroppingEmpty
<1>2. ASSUME NEW u \in P, NEW e \in X PROVE Append(u, e) \in P
  <2>1. u \in Seq(X) /\ Dropping(s \o u, S) = Dropping(s, S) \o Dropping(u, S)
    OBVIOUS
  <2>2. s \o u \in Seq(X) /\ Append(u, e) \in Seq(X) /\ s \o Append(u, e) = Append(s \o u, e)
    BY <2>1, ConcatAppend, ConcatProperties, AppendProperties
  <2>3. Dropping(u, S) \in Seq(X)
    BY <2>1, DroppingElements
  <2>4. Dropping(Append(s \o u, e), S)
          = IF e \in S THEN Dropping(s \o u, S) ELSE Append(Dropping(s \o u, S), e)
    <3>1. PICK v \in Seq(X) : v = s \o u
      BY <2>2
    <3>2. Dropping(Append(v, e), S) = IF e \in S THEN Dropping(v, S) ELSE Append(Dropping(v, S), e)
      BY DroppingAppend
    <3>3. QED
      BY <3>1, <3>2
  <2>5. Dropping(Append(u, e), S) = IF e \in S THEN Dropping(u, S) ELSE Append(Dropping(u, S), e)
    BY <2>1, DroppingAppend
  <2>6. Dropping(s, S) \o Append(Dropping(u, S), e) = Append(Dropping(s, S) \o Dropping(u, S), e)
    BY <1>0, <2>3, ConcatAppend
  <2> HIDE DEF P
  <2>7. Dropping(s \o Append(u, e), S) = Dropping(s, S) \o Dropping(Append(u, e), S)
    BY <2>1, <2>2, <2>4, <2>5, <2>6
  <2>8. QED
    BY <2>2, <2>7 DEF P
<1> HIDE DEF P
<1>3. P = Seq(X)
  BY <1>1, <1>2, SequenceInduction, P \in SUBSET Seq(X) DEF P
<1>4. QED
  BY <1>3 DEF P

\* What is left of a sequence, from its first element.
THEOREM DroppingHead ==
  ASSUME NEW X, NEW s \in Seq(X), s # <<>>, NEW S
  PROVE  Dropping(s, S)
           = IF Head(s) \in S THEN Dropping(Tail(s), S) ELSE <<Head(s)>> \o Dropping(Tail(s), S)
<1>1. PICK e \in X, t \in Seq(X), one \in Seq(X) :
        e = Head(s) /\ t = Tail(s) /\ one = <<e>> /\ s = one \o t
  <2>1. Head(s) \in X /\ Tail(s) \in Seq(X) /\ <<Head(s)>> \in Seq(X) /\ s = <<Head(s)>> \o Tail(s)
    OBVIOUS
  <2>2. QED
    BY <2>1
<1>2. Dropping(one \o t, S) = Dropping(one, S) \o Dropping(t, S)
  BY DroppingConcat
<1>3. PICK none \in Seq(X) : none = <<>>
  BY EmptySeq
<1>4. Dropping(Append(none, e), S) = IF e \in S THEN Dropping(none, S) ELSE Append(Dropping(none, S), e)
  BY DroppingAppend
<1>5. Dropping(none, S) = none
  BY <1>3, DroppingEmpty
<1>6. Append(none, e) = one
  BY <1>1, <1>3
<1>7. Dropping(one, S) = IF e \in S THEN none ELSE one
  BY <1>4, <1>5, <1>6
<1>8. Dropping(t, S) \in Seq(X)
  BY DroppingElements
<1>9. none \o Dropping(t, S) = Dropping(t, S)
  BY <1>3, <1>8, ConcatEmptySeq
<1>10. QED
  BY <1>1, <1>2, <1>7, <1>9

\* Nothing goes when there is nothing to drop.
THEOREM DroppingNothing ==
  ASSUME NEW X, NEW s \in Seq(X), NEW S, \A i \in DOMAIN s : s[i] \notin S
  PROVE  Dropping(s, S) = s
<1> DEFINE None(u) == \A i \in DOMAIN u : u[i] \notin S
           P == {u \in Seq(X) : None(u) => Dropping(u, S) = u}
<1>1. <<>> \in P
  BY DroppingEmpty
<1>2. ASSUME NEW u \in P, NEW e \in X PROVE Append(u, e) \in P
  <2>1. u \in Seq(X) /\ Append(u, e) \in Seq(X)
    BY AppendProperties
  <2>2. SUFFICES ASSUME None(Append(u, e)) PROVE Dropping(Append(u, e), S) = Append(u, e)
    BY <2>1
  <2>3. /\ DOMAIN u = 1..Len(u) /\ Len(u) \in Nat /\ DOMAIN Append(u, e) = 1..(Len(u) + 1)
        /\ Append(u, e)[Len(u) + 1] = e /\ \A i \in 1..Len(u) : Append(u, e)[i] = u[i]
    BY <2>1, AppendProperties, LenProperties
  <2>4. Len(u) + 1 \in DOMAIN Append(u, e) /\ \A i \in DOMAIN u : i \in DOMAIN Append(u, e)
    BY <2>3
  <2>5. None(u) /\ e \notin S
    BY <2>2, <2>3, <2>4
  <2>6. Dropping(u, S) = u
    BY <2>5
  <2>7. QED
    BY <2>1, <2>5, <2>6, DroppingAppend
<1> HIDE DEF P
<1>3. P = Seq(X)
  BY <1>1, <1>2, SequenceInduction, P \in SUBSET Seq(X) DEF P
<1>4. QED
  BY <1>3 DEF P

\* Dropping some elements and then others is dropping them together.
THEOREM DroppingTwice ==
  ASSUME NEW X, NEW s \in Seq(X), NEW S, NEW T
  PROVE  Dropping(Dropping(s, S), T) = Dropping(s, S \cup T)
<1> DEFINE P == {u \in Seq(X) : Dropping(Dropping(u, S), T) = Dropping(u, S \cup T)}
<1>1. <<>> \in P
  BY DroppingEmpty
<1>2. ASSUME NEW u \in P, NEW e \in X PROVE Append(u, e) \in P
  <2>1. /\ u \in Seq(X) /\ Append(u, e) \in Seq(X)
        /\ Dropping(Dropping(u, S), T) = Dropping(u, S \cup T)
    BY AppendProperties
  <2>2. PICK v \in Seq(X) : v = Dropping(u, S)
    BY <2>1, DroppingElements
  <2>3. Dropping(Append(u, e), S) = IF e \in S THEN v ELSE Append(v, e)
    BY <2>1, <2>2, DroppingAppend
  <2>4. Dropping(Append(v, e), T) = IF e \in T THEN Dropping(v, T) ELSE Append(Dropping(v, T), e)
    BY DroppingAppend
  <2>5. PICK U : U = S \cup T
    OBVIOUS
  <2>6. Dropping(Append(u, e), U) = IF e \in U THEN Dropping(u, U) ELSE Append(Dropping(u, U), e)
    BY <2>1, DroppingAppend
  <2>7. Dropping(Dropping(Append(u, e), S), T) = Dropping(Append(u, e), S \cup T)
    BY <2>1, <2>2, <2>3, <2>4, <2>5, <2>6
  <2>8. QED
    BY <2>1, <2>7
<1> HIDE DEF P
<1>3. P = Seq(X)
  BY <1>1, <1>2, SequenceInduction, P \in SUBSET Seq(X) DEF P
<1>4. QED
  BY <1>3 DEF P

\* Nothing is left when everything is dropped.
THEOREM DroppingAll ==
  ASSUME NEW X, NEW s \in Seq(X), NEW S, \A i \in DOMAIN s : s[i] \in S
  PROVE  Dropping(s, S) = <<>>
<1>1. PICK t \in Seq(X) : t = Dropping(s, S)
  BY DroppingElements
<1>2. \A x : ~ \E i \in DOMAIN t : t[i] = x
  BY <1>1, DroppingElements
<1>3. Len(t) \in Nat /\ DOMAIN t = 1..Len(t)
  BY LenProperties
<1>4. ~ (1 \in DOMAIN t)
  BY <1>2
<1>5. Len(t) = 0
  BY <1>3, <1>4
<1>6. QED
  BY <1>1, <1>5, EmptySeq

Ordered(x, y, s) == \E k, l \in DOMAIN s : k < l /\ s[k] = x /\ s[l] = y

\* What a longer sequence orders: what it ordered, and all it had before its end.
LEMMA OrderedAppend ==
  ASSUME NEW X, NEW s \in Seq(X), NEW e \in X, NEW x, NEW y
  PROVE  Ordered(x, y, Append(s, e))
           <=> Ordered(x, y, s) \/ (y = e /\ \E k \in DOMAIN s : s[k] = x)
<1>1. /\ DOMAIN s = 1..Len(s) /\ Len(s) \in Nat /\ DOMAIN Append(s, e) = 1..(Len(s) + 1)
      /\ Append(s, e)[Len(s) + 1] = e /\ \A i \in 1..Len(s) : Append(s, e)[i] = s[i]
  BY AppendProperties, LenProperties
<1>2. 1..(Len(s) + 1) = 1..Len(s) \cup {Len(s) + 1}
  BY <1>1
<1>3. ASSUME Ordered(x, y, Append(s, e))
      PROVE  Ordered(x, y, s) \/ (y = e /\ \E k \in DOMAIN s : s[k] = x)
  <2>1. PICK k, l \in 1..(Len(s) + 1) : k < l /\ Append(s, e)[k] = x /\ Append(s, e)[l] = y
    BY <1>1, <1>3 DEF Ordered
  <2>2. k \in 1..Len(s) /\ s[k] = x
    BY <1>1, <2>1
  <2>3. CASE l = Len(s) + 1
    BY <1>1, <2>1, <2>2, <2>3
  <2>4. CASE l \in 1..Len(s)
    BY <1>1, <2>1, <2>2, <2>4 DEF Ordered
  <2>5. QED
    BY <1>2, <2>1, <2>3, <2>4
<1>4. ASSUME Ordered(x, y, s) PROVE Ordered(x, y, Append(s, e))
  BY <1>1, <1>2, <1>4 DEF Ordered
<1>5. ASSUME y = e, NEW k \in DOMAIN s, s[k] = x PROVE Ordered(x, y, Append(s, e))
  <2>1. k < Len(s) + 1 /\ k \in 1..(Len(s) + 1) /\ Len(s) + 1 \in 1..(Len(s) + 1)
    BY <1>1
  <2>2. QED
    BY <1>1, <1>5, <2>1 DEF Ordered
<1>6. QED
  BY <1>3, <1>4, <1>5

\* What is left keeps its order.
THEOREM DroppingOrder ==
  ASSUME NEW X, NEW s \in Seq(X), NEW S, NEW x, NEW y
  PROVE  Ordered(x, y, Dropping(s, S)) <=> x \notin S /\ y \notin S /\ Ordered(x, y, s)
<1> DEFINE P == {u \in Seq(X) : Ordered(x, y, Dropping(u, S))
                                  <=> x \notin S /\ y \notin S /\ Ordered(x, y, u)}
<1>1. <<>> \in P
  BY DroppingEmpty DEF Ordered
<1>2. ASSUME NEW u \in P, NEW e \in X PROVE Append(u, e) \in P
  <2>1. /\ u \in Seq(X) /\ Append(u, e) \in Seq(X)
        /\ Ordered(x, y, Dropping(u, S)) <=> x \notin S /\ y \notin S /\ Ordered(x, y, u)
    BY AppendProperties
  <2>2. /\ Dropping(u, S) \in Seq(X)
        /\ (\E i \in DOMAIN Dropping(u, S) : Dropping(u, S)[i] = x)
             <=> x \notin S /\ \E i \in DOMAIN u : u[i] = x
    BY <2>1, DroppingElements
  <2>3. Dropping(Append(u, e), S) = IF e \in S THEN Dropping(u, S) ELSE Append(Dropping(u, S), e)
    BY <2>1, DroppingAppend
  <2>4. Ordered(x, y, Append(u, e)) <=> Ordered(x, y, u) \/ (y = e /\ \E k \in DOMAIN u : u[k] = x)
    BY <2>1, OrderedAppend
  <2>5. Ordered(x, y, Append(Dropping(u, S), e))
          <=> \/ Ordered(x, y, Dropping(u, S))
              \/ y = e /\ \E k \in DOMAIN Dropping(u, S) : Dropping(u, S)[k] = x
    BY <2>2, OrderedAppend
  <2> HIDE DEF P
  <2>6. Ordered(x, y, Dropping(Append(u, e), S))
          <=> x \notin S /\ y \notin S /\ Ordered(x, y, Append(u, e))
    <3>1. CASE e \in S
      BY <2>1, <2>3, <2>4, <3>1
    <3>2. CASE e \notin S
      BY <2>1, <2>2, <2>3, <2>4, <2>5, <3>2
    <3>3. QED
      BY <3>1, <3>2
  <2>7. QED
    BY <2>1, <2>6 DEF P
<1> HIDE DEF P
<1>3. P = Seq(X)
  BY <1>1, <1>2, SequenceInduction, P \in SUBSET Seq(X) DEF P
<1>4. QED
  BY <1>3 DEF P

-----------------------------------------------------------------------------
(* Sequences without repetition. *)
Distinct(s) == \A i, j \in DOMAIN s : s[i] = s[j] => i = j

\* Nothing occurs twice if, and only if, nothing comes before itself.
LEMMA DistinctIsUnordered ==
  ASSUME NEW X, NEW s \in Seq(X)
  PROVE  Distinct(s) <=> \A x : ~Ordered(x, x, s)
<1>1. \A i, j \in DOMAIN s : i # j => i < j \/ j < i
  BY LenProperties
<1>2. ASSUME \A x : ~Ordered(x, x, s) PROVE Distinct(s)
  BY <1>1, <1>2 DEF Distinct, Ordered
<1>3. ASSUME Distinct(s), NEW x, Ordered(x, x, s) PROVE FALSE
  <2>1. PICK k, l \in DOMAIN s : k < l /\ s[k] = x /\ s[l] = x
    BY <1>3 DEF Ordered
  <2>2. k = l /\ k \in Nat
    BY <1>3, <2>1, LenProperties DEF Distinct
  <2>3. QED
    BY <2>1, <2>2
<1>4. QED
  BY <1>2, <1>3

\* A filter of a sequence without repetitions has none.
THEOREM DroppingDistinct ==
  ASSUME NEW X, NEW s \in Seq(X), Distinct(s), NEW S
  PROVE  Distinct(Dropping(s, S))
<1>1. Dropping(s, S) \in Seq(X)
  BY DroppingElements
<1>2. \A x : ~Ordered(x, x, s)
  BY DistinctIsUnordered
<1>3. \A x : ~Ordered(x, x, Dropping(s, S))
  BY <1>2, DroppingOrder
<1>4. PICK w \in Seq(X) : w = Dropping(s, S)
  BY <1>1
<1>5. Distinct(w)
  BY <1>3, <1>4, DistinctIsUnordered
<1>6. QED
  BY <1>4, <1>5

\* The first element stays the first when it stays at all.
THEOREM DroppingFirst ==
  ASSUME NEW X, NEW s \in Seq(X), s # <<>>, NEW S, Head(s) \notin S
  PROVE  Dropping(s, S) # <<>> /\ Head(Dropping(s, S)) = Head(s)
<1>1. Head(s) \in X /\ Tail(s) \in Seq(X)
  OBVIOUS
<1>2. Dropping(Tail(s), S) \in Seq(X)
  BY <1>1, DroppingElements
<1>3. Dropping(s, S) = <<Head(s)>> \o Dropping(Tail(s), S)
  BY DroppingHead
<1>4. QED
  BY <1>1, <1>2, <1>3

\* Without its first element a sequence has the others, once each.
THEOREM TailDistinct ==
  ASSUME NEW X, NEW s \in Seq(X), s # <<>>, Distinct(s)
  PROVE  /\ Tail(s) \in Seq(X) /\ Distinct(Tail(s))
         /\ \A x : (\E i \in DOMAIN Tail(s) : Tail(s)[i] = x)
                     <=> x # Head(s) /\ \E i \in DOMAIN s : s[i] = x
<1>1. /\ Tail(s) \in Seq(X) /\ Len(Tail(s)) = Len(s) - 1 /\ Len(s) \in Nat \ {0}
      /\ \A i \in 1..Len(Tail(s)) : Tail(s)[i] = s[i + 1]
      /\ DOMAIN s = 1..Len(s) /\ DOMAIN Tail(s) = 1..(Len(s) - 1) /\ Head(s) = s[1]
  BY HeadTailProperties, LenProperties, EmptySeq
<1>2. Distinct(Tail(s))
  <2>1. SUFFICES ASSUME NEW i \in 1..(Len(s) - 1), NEW j \in 1..(Len(s) - 1),
                        Tail(s)[i] = Tail(s)[j]
                 PROVE  i = j
    BY <1>1 DEF Distinct
  <2>2. i + 1 \in DOMAIN s /\ j + 1 \in DOMAIN s /\ s[i + 1] = s[j + 1]
    BY <1>1, <2>1
  <2>3. i + 1 = j + 1
    BY <2>2 DEF Distinct
  <2>4. QED
    BY <2>3
<1>3. ASSUME NEW i \in DOMAIN Tail(s) PROVE Tail(s)[i] # Head(s) /\ \E j \in DOMAIN s : s[j] = Tail(s)[i]
  <2>1. i + 1 \in DOMAIN s /\ 1 \in DOMAIN s /\ Tail(s)[i] = s[i + 1] /\ i + 1 # 1
    BY <1>1
  <2>2. s[i + 1] # s[1]
    BY <2>1 DEF Distinct
  <2>3. QED
    BY <1>1, <2>1, <2>2
<1>4. ASSUME NEW j \in DOMAIN s, s[j] # Head(s) PROVE \E i \in DOMAIN Tail(s) : Tail(s)[i] = s[j]
  <2>1. j # 1
    BY <1>1, <1>4
  <2>2. j - 1 \in DOMAIN Tail(s) /\ (j - 1) + 1 = j
    BY <1>1, <2>1
  <2>3. QED
    BY <1>1, <2>2
<1>5. QED
  BY <1>1, <1>2, <1>3, <1>4
=============================================================================
