------------------------- MODULE RootSnapshotProofs -------------------------
(***************************************************************************)
(* Theorems about RootSnapshot: patching the snapshot of the roots comes   *)
(* to the same as rebuilding it, a pass that trusts the filters it pinned  *)
(* is right to, and what a pass pinned is never edited.                    *)
(***************************************************************************)
EXTENDS RootSnapshot, WellFoundedInduction, FiniteSetTheorems, TLAPS

-----------------------------------------------------------------------------
(***************************************************************************)
(* What Only and Without keep of a list.  The library's induction          *)
(* theorems take an operator; these are about sets, of numbers and of      *)
(* sequences, and rest on every set of numbers having a least one.         *)
(***************************************************************************)
\* Induction.
LEMMA Least ==
  ASSUME NEW T, T \subseteq Nat, T # {}
  PROVE  \E n \in T : \A m \in T : n <= m
<1> DEFINE R == {ss \in Nat \X Nat : ss[1] < ss[2]}
<1>1. IsWellFoundedOn(R, Nat)
  BY NatLessThanWellFounded, Zenon DEF OpToRel
<1>2. \A x, y \in Nat : <<y, x>> \in R \/ x <= y
  OBVIOUS
<1> HIDE DEF R
<1>3. PICK x \in T : \A y \in T : ~(<<y, x>> \in R)
  BY <1>1, WFMin, Zenon
<1>4. \A y \in T : x <= y
  BY <1>2, <1>3, Zenon
<1>5. QED
  BY <1>4

LEMMA NatSetInduction ==
  ASSUME NEW P, 0 \in P, \A n \in Nat : n \in P => n + 1 \in P
  PROVE  Nat \subseteq P
<1>1. SUFFICES ASSUME Nat \ P # {} PROVE FALSE
  OBVIOUS
<1>2. PICK n \in Nat \ P : \A m \in Nat \ P : n <= m
  BY <1>1, Least
<1>3. n # 0 /\ n - 1 \in Nat /\ n - 1 \in P
  BY <1>2
<1>4. QED
  BY <1>3

LEMMA SeqSetInduction ==
  ASSUME NEW X, NEW P, <<>> \in P,
         \A s \in Seq(X), e \in X : s \in P => Append(s, e) \in P
  PROVE  Seq(X) \subseteq P
<1> DEFINE Q == {n \in Nat : \A s \in Seq(X) : Len(s) = n => s \in P}
<1>1. 0 \in Q
  <2>1. \A s \in Seq(X) : Len(s) = 0 => s = <<>>
    OBVIOUS
  <2>2. QED
    BY <2>1
<1>2. ASSUME NEW n \in Nat, n \in Q PROVE n + 1 \in Q
  <2>1. SUFFICES ASSUME NEW s \in Seq(X), Len(s) = n + 1 PROVE s \in P
    OBVIOUS
  <2> DEFINE r == SubSeq(s, 1, n)
  <2>2. r \in Seq(X) /\ Len(r) = n /\ s[n + 1] \in X
    BY <2>1
  <2>3. s = Append(r, s[n + 1])
    BY <2>1
  <2>4. r \in P
    BY <1>2, <2>2
  <2> HIDE DEF r
  <2>5. QED
    BY <2>2, <2>3, <2>4
<1> HIDE DEF Q
<1>3. Nat \subseteq Q
  BY <1>1, <1>2, NatSetInduction
<1>4. QED
  BY <1>3 DEF Q

-----------------------------------------------------------------------------
\* Only(), read off its recursion.
KeptOn(f, s, S, N) ==
    f = [n \in 0..N |-> IF n = 0 THEN <<>> ELSE Grown(f[n - 1], s[n], S)]

LEMMA KeptExists ==
  ASSUME NEW s, NEW S, NEW N \in Nat
  PROVE  \E f : KeptOn(f, s, S, N)
<1> DEFINE P == {n \in Nat : \E f : KeptOn(f, s, S, n)}
<1>1. 0 \in P
  <2>1. KeptOn([n \in 0..0 |-> <<>>], s, S, 0)
    BY DEF KeptOn
  <2>2. QED
    BY <2>1
<1>2. ASSUME NEW n \in Nat, n \in P PROVE n + 1 \in P
  <2>1. PICK f : KeptOn(f, s, S, n)
    BY <1>2
  <2> DEFINE g == [m \in 0..(n + 1) |-> IF m = n + 1 THEN Grown(f[n], s[n + 1], S) ELSE f[m]]
  <2>2. ASSUME NEW m \in 0..(n + 1)
        PROVE  g[m] = IF m = 0 THEN <<>> ELSE Grown(g[m - 1], s[m], S)
    <3>1. CASE m = n + 1
      BY <3>1
    <3>2. CASE m \in 0..n
      <4>1. g[m] = f[m] /\ (m # 0 => g[m - 1] = f[m - 1])
        BY <3>2
      <4>2. f[m] = IF m = 0 THEN <<>> ELSE Grown(f[m - 1], s[m], S)
        BY <2>1, <3>2 DEF KeptOn
      <4>3. QED
        BY <4>1, <4>2
    <3>3. QED
      BY <3>1, <3>2
  <2>3. KeptOn(g, s, S, n + 1)
    <3>1. g = [m \in 0..(n + 1) |-> g[m]]
      OBVIOUS
    <3> HIDE DEF g
    <3>2. QED
      BY <2>2, <3>1 DEF KeptOn
  <2>4. QED
    BY <2>3
<1> HIDE DEF P
<1>3. Nat \subseteq P
  BY <1>1, <1>2, NatSetInduction
<1>4. QED
  BY <1>3 DEF P

LEMMA OnlyIs ==
  ASSUME NEW s, NEW S, Len(s) \in Nat
  PROVE  \E f : KeptOn(f, s, S, Len(s)) /\ Only(s, S) = f[Len(s)]
<1>1. KeptOn(CHOOSE f : KeptOn(f, s, S, Len(s)), s, S, Len(s))
  BY KeptExists
<1>2. QED
  BY <1>1 DEF KeptOn, Only

LEMMA OnlyEmpty == ASSUME NEW S PROVE Only(<<>>, S) = <<>>
<1>1. Len(<<>>) = 0
  OBVIOUS
<1>2. PICK f : KeptOn(f, <<>>, S, 0) /\ Only(<<>>, S) = f[0]
  BY <1>1, OnlyIs
<1>3. QED
  BY <1>2 DEF KeptOn

LEMMA OnlyAppend ==
  ASSUME NEW X, NEW s \in Seq(X), NEW e \in X, NEW S
  PROVE  Only(Append(s, e), S) = Grown(Only(s, S), e, S)
<1> DEFINE t == Append(s, e)
<1>1. Len(s) \in Nat /\ Len(t) = Len(s) + 1 /\ t[Len(s) + 1] = e
      /\ \A i \in 1..Len(s) : t[i] = s[i]
  OBVIOUS
<1> HIDE DEF t
<1>2. PICK f : KeptOn(f, s, S, Len(s)) /\ Only(s, S) = f[Len(s)]
  BY <1>1, OnlyIs
<1>3. PICK g : KeptOn(g, t, S, Len(s) + 1) /\ Only(t, S) = g[Len(s) + 1]
  BY <1>1, OnlyIs
<1>4. \A n \in 0..Len(s) : f[n] = IF n = 0 THEN <<>> ELSE Grown(f[n - 1], s[n], S)
  BY <1>2 DEF KeptOn
<1>5. \A n \in 0..(Len(s) + 1) : g[n] = IF n = 0 THEN <<>> ELSE Grown(g[n - 1], t[n], S)
  BY <1>3 DEF KeptOn
<1> DEFINE P == {n \in Nat : n <= Len(s) => f[n] = g[n]}
<1>6. 0 \in P
  BY <1>1, <1>4, <1>5
<1>7. ASSUME NEW n \in Nat, n \in P PROVE n + 1 \in P
  <2>1. SUFFICES ASSUME n + 1 <= Len(s) PROVE f[n + 1] = g[n + 1]
    OBVIOUS
  <2>2. n + 1 \in 0..Len(s) /\ n + 1 \in 0..(Len(s) + 1) /\ n + 1 # 0 /\ (n + 1) - 1 = n
        /\ s[n + 1] = t[n + 1] /\ f[n] = g[n]
    BY <1>1, <1>7, <2>1
  <2>3. QED
    BY <1>4, <1>5, <2>2
<1> HIDE DEF P
<1>8. Nat \subseteq P
  BY <1>6, <1>7, NatSetInduction
<1>9. f[Len(s)] = g[Len(s)]
  BY <1>1, <1>8 DEF P
<1>10. QED
  BY <1>1, <1>2, <1>3, <1>5, <1>9 DEF t

-----------------------------------------------------------------------------
\* What Only() returns.
LEMMA OnlyType ==
  ASSUME NEW X, NEW s \in Seq(X), NEW S
  PROVE  Only(s, S) \in Seq(X)
<1> DEFINE P == {r \in Seq(X) : Only(r, S) \in Seq(X)}
<1>1. <<>> \in P
  <2>1. <<>> \in Seq(X)
    OBVIOUS
  <2>2. QED
    BY <2>1, OnlyEmpty
<1>2. ASSUME NEW r \in Seq(X), NEW e \in X, r \in P PROVE Append(r, e) \in P
  <2>1. Append(r, e) \in Seq(X) /\ Only(r, S) \in Seq(X)
    BY <1>2
  <2>2. Grown(Only(r, S), e, S) \in Seq(X)
    BY <2>1 DEF Grown
  <2>3. QED
    BY <2>1, <2>2, OnlyAppend
<1> HIDE DEF P
<1>3. Seq(X) \subseteq P
  BY <1>1, <1>2, SeqSetInduction
<1>4. QED
  BY <1>3 DEF P

LEMMA ElementsAppend ==
  ASSUME NEW X, NEW s \in Seq(X), NEW e \in X
  PROVE  Elements(Append(s, e)) = Elements(s) \union {e}
<1>1. Len(s) \in Nat /\ DOMAIN s = 1..Len(s) /\ DOMAIN Append(s, e) = 1..(Len(s) + 1)
      /\ Append(s, e)[Len(s) + 1] = e /\ \A i \in 1..Len(s) : Append(s, e)[i] = s[i]
  OBVIOUS
<1>2. QED
  BY <1>1 DEF Elements

LEMMA OnlyElements ==
  ASSUME NEW X, NEW s \in Seq(X), NEW S
  PROVE  Elements(Only(s, S)) = Elements(s) \intersect S
<1> DEFINE P == {r \in Seq(X) : Elements(Only(r, S)) = Elements(r) \intersect S}
<1>1. <<>> \in P
  BY OnlyEmpty DEF Elements
<1>2. ASSUME NEW r \in Seq(X), NEW e \in X, r \in P PROVE Append(r, e) \in P
  <2>1. Only(r, S) \in Seq(X)
    BY OnlyType
  <2>2. Elements(Append(r, e)) = Elements(r) \union {e}
    BY ElementsAppend
  <2>3. Elements(Grown(Only(r, S), e, S)) =
           IF e \in S THEN Elements(Only(r, S)) \union {e} ELSE Elements(Only(r, S))
    <3>1. Elements(Append(Only(r, S), e)) = Elements(Only(r, S)) \union {e}
      BY <2>1, ElementsAppend
    <3>2. QED
      BY <3>1, Zenon DEF Grown
  <2>4. QED
    BY <1>2, <2>2, <2>3, OnlyAppend
<1> HIDE DEF P
<1>3. Seq(X) \subseteq P
  BY <1>1, <1>2, SeqSetInduction
<1>4. QED
  BY <1>3 DEF P

LEMMA DistinctAppend ==
  ASSUME NEW X, NEW s \in Seq(X), NEW e \in X
  PROVE  Distinct(Append(s, e)) <=> Distinct(s) /\ e \notin Elements(s)
<1> DEFINE t == Append(s, e)
<1>1. Len(s) \in Nat /\ DOMAIN s = 1..Len(s) /\ DOMAIN t = 1..(Len(s) + 1)
      /\ t[Len(s) + 1] = e /\ \A i \in 1..Len(s) : t[i] = s[i]
  OBVIOUS
<1> HIDE DEF t
<1>2. QED
  <2>1. ASSUME Distinct(t) PROVE Distinct(s) /\ e \notin Elements(s)
    BY <1>1, <2>1 DEF Elements, Distinct
  <2>2. ASSUME Distinct(s), e \notin Elements(s) PROVE Distinct(t)
    BY <1>1, <2>2 DEF Elements, Distinct
  <2>3. QED
    BY <2>1, <2>2 DEF t

LEMMA OnlyDistinct ==
  ASSUME NEW X, NEW s \in Seq(X), NEW S, Distinct(s)
  PROVE  Distinct(Only(s, S))
<1> DEFINE P == {r \in Seq(X) : Distinct(r) => Distinct(Only(r, S))}
<1>1. <<>> \in P
  BY OnlyEmpty DEF Distinct
<1>2. ASSUME NEW r \in Seq(X), NEW e \in X, r \in P PROVE Append(r, e) \in P
  <2>1. SUFFICES ASSUME Distinct(Append(r, e)) PROVE Distinct(Only(Append(r, e), S))
    OBVIOUS
  <2>2. Distinct(r) /\ e \notin Elements(r)
    BY <2>1, DistinctAppend
  <2>3. Only(r, S) \in Seq(X) /\ Distinct(Only(r, S)) /\ e \notin Elements(Only(r, S))
    BY <1>2, <2>2, OnlyType, OnlyElements
  <2>4. Distinct(Grown(Only(r, S), e, S))
    BY <2>3, DistinctAppend DEF Grown
  <2>5. QED
    BY <2>4, OnlyAppend
<1> HIDE DEF P
<1>3. Seq(X) \subseteq P
  BY <1>1, <1>2, SeqSetInduction
<1>4. QED
  BY <1>3 DEF P

LEMMA OnlyConcat ==
  ASSUME NEW X, NEW s \in Seq(X), NEW t \in Seq(X), NEW S
  PROVE  Only(s \o t, S) = Only(s, S) \o Only(t, S)
<1> DEFINE P == {r \in Seq(X) : Only(s \o r, S) = Only(s, S) \o Only(r, S)}
<1>1. <<>> \in P
  <2>1. Only(s, S) \in Seq(X) /\ s \o <<>> = s /\ Only(s, S) \o <<>> = Only(s, S)
    BY OnlyType
  <2>2. QED
    BY <2>1, OnlyEmpty
<1>2. ASSUME NEW r \in Seq(X), NEW e \in X, r \in P PROVE Append(r, e) \in P
  <2>1. s \o r \in Seq(X) /\ s \o Append(r, e) = Append(s \o r, e)
    OBVIOUS
  <2>2. Only(Append(s \o r, e), S) = Grown(Only(s \o r, S), e, S)
    BY <2>1, OnlyAppend
  <2>3. Only(Append(r, e), S) = Grown(Only(r, S), e, S)
    BY OnlyAppend
  <2>4. Only(s, S) \in Seq(X) /\ Only(r, S) \in Seq(X)
    BY OnlyType
  <2>5. Grown(Only(s, S) \o Only(r, S), e, S) = Only(s, S) \o Grown(Only(r, S), e, S)
    <3>1. (Only(s, S) \o Append(Only(r, S), e)) = Append(Only(s, S) \o Only(r, S), e)
      BY <2>4
    <3>2. QED
      BY <3>1, Zenon DEF Grown
  <2>6. Append(r, e) \in Seq(X) /\ Only(s \o r, S) = Only(s, S) \o Only(r, S)
    BY <1>2
  <2> HIDE DEF P
  <2>7. Only(s \o Append(r, e), S) = Only(s, S) \o Only(Append(r, e), S)
    BY <2>1, <2>2, <2>3, <2>5, <2>6, Zenon
  <2>8. QED
    BY <2>6, <2>7 DEF P
<1> HIDE DEF P
<1>3. Seq(X) \subseteq P
  BY <1>1, <1>2, SeqSetInduction
<1>4. QED
  BY <1>3 DEF P

-----------------------------------------------------------------------------
\* Two lists, one after the other.
LEMMA ConcatIs ==
  ASSUME NEW X, NEW s \in Seq(X), NEW t \in Seq(X)
  PROVE  /\ s \o t \in Seq(X) /\ Len(s \o t) = Len(s) + Len(t)
         /\ DOMAIN (s \o t) = 1..(Len(s) + Len(t))
         /\ \A i \in 1..Len(s) : (s \o t)[i] = s[i]
         /\ \A i \in 1..Len(t) : (s \o t)[Len(s) + i] = t[i]
<1>1. QED
  OBVIOUS

LEMMA ElementsConcat ==
  ASSUME NEW X, NEW s \in Seq(X), NEW t \in Seq(X)
  PROVE  Elements(s \o t) = Elements(s) \union Elements(t)
<1> DEFINE u == s \o t
<1>1. Len(s) \in Nat /\ Len(t) \in Nat /\ DOMAIN s = 1..Len(s) /\ DOMAIN t = 1..Len(t)
      /\ DOMAIN u = 1..(Len(s) + Len(t))
      /\ (\A i \in 1..Len(s) : u[i] = s[i])
      /\ (\A i \in (Len(s) + 1)..(Len(s) + Len(t)) : u[i] = t[i - Len(s)])
  OBVIOUS
<1> HIDE DEF u
<1>2. Elements(u) \subseteq Elements(s) \union Elements(t)
  BY <1>1 DEF Elements
<1>3. Elements(s) \subseteq Elements(u)
  BY <1>1 DEF Elements
<1>4. ASSUME NEW i \in 1..Len(t) PROVE t[i] \in Elements(u)
  <2>1. Len(s) + i \in (Len(s) + 1)..(Len(s) + Len(t)) /\ (Len(s) + i) - Len(s) = i
    BY <1>1
  <2>2. u[Len(s) + i] = t[i] /\ Len(s) + i \in DOMAIN u
    BY <1>1, <2>1
  <2>3. QED
    BY <2>2 DEF Elements
<1>5. QED
  BY <1>1, <1>2, <1>3, <1>4 DEF Elements, u

LEMMA DistinctConcat ==
  ASSUME NEW X, NEW s \in Seq(X), NEW t \in Seq(X), Distinct(s), Distinct(t),
         Elements(s) \intersect Elements(t) = {}
  PROVE  Distinct(s \o t)
<1> DEFINE u == s \o t
<1>1. Len(s) \in Nat /\ Len(t) \in Nat /\ DOMAIN s = 1..Len(s) /\ DOMAIN t = 1..Len(t)
      /\ DOMAIN u = 1..(Len(s) + Len(t))
      /\ (\A i \in 1..Len(s) : u[i] = s[i])
      /\ (\A i \in (Len(s) + 1)..(Len(s) + Len(t)) : u[i] = t[i - Len(s)])
  OBVIOUS
<1> HIDE DEF u
<1>2. SUFFICES ASSUME NEW i \in DOMAIN u, NEW j \in DOMAIN u, u[i] = u[j] PROVE i = j
  BY DEF Distinct, u
<1>3. CASE i \in 1..Len(s) /\ j \in 1..Len(s)
  BY <1>1, <1>2, <1>3 DEF Distinct
<1>4. CASE i \notin 1..Len(s) /\ j \notin 1..Len(s)
  <2>1. i \in (Len(s) + 1)..(Len(s) + Len(t)) /\ j \in (Len(s) + 1)..(Len(s) + Len(t))
        /\ i - Len(s) \in 1..Len(t) /\ j - Len(s) \in 1..Len(t)
    BY <1>1, <1>4
  <2>2. t[i - Len(s)] = t[j - Len(s)]
    BY <1>1, <1>2, <2>1
  <2>3. i - Len(s) = j - Len(s)
    BY <1>1, <2>1, <2>2 DEF Distinct
  <2>4. QED
    BY <1>1, <2>1, <2>3
<1>5. ASSUME NEW k \in 1..Len(s), NEW l \in DOMAIN u \ 1..Len(s) PROVE u[k] # u[l]
  <2>1. l \in (Len(s) + 1)..(Len(s) + Len(t)) /\ l - Len(s) \in 1..Len(t)
    BY <1>1
  <2>2. u[k] \in Elements(s) /\ u[l] \in Elements(t)
    BY <1>1, <2>1 DEF Elements
  <2>3. QED
    BY <2>2
<1>6. QED
  BY <1>2, <1>3, <1>4, <1>5

LEMMA ElementsOne == ASSUME NEW e PROVE Elements(<<e>>) = {e} /\ Distinct(<<e>>)
<1>1. DOMAIN <<e>> = 1..1 /\ <<e>>[1] = e
  OBVIOUS
<1>2. QED
  BY <1>1 DEF Elements, Distinct

-----------------------------------------------------------------------------
\* Without() is Only() of the rest.
LEMMA WithoutIs ==
  ASSUME NEW X, NEW s \in Seq(X), NEW S
  PROVE  /\ Without(s, S) \in Seq(X)
         /\ Elements(Without(s, S)) = Elements(s) \ S
         /\ Distinct(s) => Distinct(Without(s, S))
<1>1. Only(s, Elements(s) \ S) \in Seq(X)
  BY OnlyType
<1>2. Elements(Only(s, Elements(s) \ S)) = Elements(s) \ S
  BY OnlyElements
<1>3. Distinct(s) => Distinct(Only(s, Elements(s) \ S))
  BY OnlyDistinct
<1>4. QED
  BY <1>1, <1>2, <1>3 DEF Without

-----------------------------------------------------------------------------
\* The ends of a list.
LEMMA TailIs ==
  ASSUME NEW X, NEW s \in Seq(X), NEW m \in Nat, m <= Len(s)
  PROVE  LET tail == SubSeq(s, m + 1, Len(s)) IN
         /\ tail \in Seq(X) /\ Len(tail) = Len(s) - m
         /\ \A i \in 1..(Len(s) - m) : tail[i] = s[m + i]
<1>1. Len(s) \in Nat /\ Len(s) - m \in Nat /\ DOMAIN s = 1..Len(s)
  OBVIOUS
<1> DEFINE tail == SubSeq(s, m + 1, Len(s))
<1>2. tail = [i \in 1..(Len(s) - m) |-> s[m + i]]
  <2>1. tail = [i \in 1..(Len(s) - (m + 1) + 1) |-> s[i + (m + 1) - 1]]
    BY <1>1
  <2>2. Len(s) - (m + 1) + 1 = Len(s) - m
    BY <1>1
  <2>3. \A i \in 1..(Len(s) - m) : i + (m + 1) - 1 = m + i
    BY <1>1
  <2>4. QED
    BY <2>1, <2>2, <2>3
<1>3. \A i \in 1..(Len(s) - m) : m + i \in 1..Len(s) /\ s[m + i] \in X
  BY <1>1
<1> HIDE DEF tail
<1>4. tail \in [1..(Len(s) - m) -> X]
  BY <1>2, <1>3
<1> DEFINE n == Len(s) - m
<1>5. tail \in Seq(X) /\ Len(tail) = n
  <2>1. n \in Nat /\ tail \in [1..n -> X]
    BY <1>1, <1>4
  <2> HIDE DEF n
  <2>2. tail \in Seq(X) /\ DOMAIN tail = 1..n
    BY <2>1
  <2>3. Len(tail) \in Nat /\ 1..Len(tail) = 1..n
    BY <2>2
  <2>4. QED
    BY <2>1, <2>2, <2>3
<1>6. QED
  BY <1>2, <1>5 DEF tail

LEMMA HeadIs ==
  ASSUME NEW X, NEW s \in Seq(X), NEW m \in Nat, m <= Len(s)
  PROVE  LET head == SubSeq(s, 1, m) IN
         /\ head \in Seq(X) /\ Len(head) = m
         /\ \A i \in 1..m : head[i] = s[i]
<1>1. Len(s) \in Nat /\ DOMAIN s = 1..Len(s)
  OBVIOUS
<1> DEFINE head == SubSeq(s, 1, m)
<1>2. head = [i \in 1..m |-> s[i]]
  <2>1. head = [i \in 1..(m - 1 + 1) |-> s[i + 1 - 1]]
    BY <1>1
  <2>2. m - 1 + 1 = m /\ \A i \in 1..m : i + 1 - 1 = i
    OBVIOUS
  <2>3. QED
    BY <2>1, <2>2
<1>3. \A i \in 1..m : s[i] \in X
  BY <1>1
<1> HIDE DEF head
<1>4. head \in [1..m -> X]
  BY <1>2, <1>3
<1>5. head \in Seq(X) /\ Len(head) = m
  <2>1. head \in Seq(X) /\ DOMAIN head = 1..m
    BY <1>4
  <2>2. Len(head) \in Nat /\ 1..Len(head) = 1..m
    BY <2>1
  <2>3. QED
    BY <2>1, <2>2
<1>6. QED
  BY <1>2, <1>5 DEF head

-----------------------------------------------------------------------------
\* Two lists of the same length that have the same at the places that count.
LEMMA OnlyAlike ==
  ASSUME NEW s, NEW t, NEW A, NEW B, Len(s) \in Nat, Len(t) = Len(s),
         \A i \in 1..Len(s) : (s[i] \in A <=> t[i] \in B) /\ (s[i] \in A => s[i] = t[i])
  PROVE  Only(s, A) = Only(t, B)
<1>1. PICK f : KeptOn(f, s, A, Len(s)) /\ Only(s, A) = f[Len(s)]
  BY OnlyIs
<1>2. PICK g : KeptOn(g, t, B, Len(s)) /\ Only(t, B) = g[Len(s)]
  BY OnlyIs
<1> DEFINE P == {n \in Nat : n <= Len(s) => f[n] = g[n]}
<1>3. 0 \in P
  BY <1>1, <1>2 DEF KeptOn
<1>4. ASSUME NEW n \in Nat, n \in P PROVE n + 1 \in P
  <2>1. CASE n + 1 <= Len(s)
    <3>1. n + 1 \in 1..Len(s) /\ n + 1 \in 0..Len(s) /\ n + 1 # 0 /\ (n + 1) - 1 = n /\ f[n] = g[n]
      BY <1>4, <2>1
    <3>2. f[n + 1] = Grown(f[n], s[n + 1], A) /\ g[n + 1] = Grown(g[n], t[n + 1], B)
      BY <1>1, <1>2, <3>1 DEF KeptOn
    <3>3. Grown(f[n], s[n + 1], A) = Grown(g[n], t[n + 1], B)
      BY <3>1, Zenon DEF Grown
    <3>4. QED
      BY <3>2, <3>3
  <2>2. QED
    BY <2>1
<1> HIDE DEF P
<1>5. Nat \subseteq P
  BY <1>3, <1>4, NatSetInduction
<1>6. QED
  BY <1>1, <1>2, <1>5 DEF P

LEMMA OnlyOnly ==
  ASSUME NEW X, NEW s \in Seq(X), NEW A, NEW B
  PROVE  Only(Only(s, A), B) = Only(s, A \intersect B)
<1> DEFINE P == {r \in Seq(X) : Only(Only(r, A), B) = Only(r, A \intersect B)}
<1>1. <<>> \in P
  <2>1. <<>> \in Seq(X)
    OBVIOUS
  <2>2. QED
    BY <2>1, OnlyEmpty
<1>2. ASSUME NEW r \in Seq(X), NEW e \in X, r \in P PROVE Append(r, e) \in P
  <2>1. Only(r, A) \in Seq(X) /\ Append(r, e) \in Seq(X)
    BY OnlyType
  <2>2. Only(Append(r, e), A) = Grown(Only(r, A), e, A)
    BY OnlyAppend
  <2>3. Only(Append(r, e), A \intersect B) = Grown(Only(r, A \intersect B), e, A \intersect B)
    BY OnlyAppend
  <2>4. Only(Append(Only(r, A), e), B) = Grown(Only(Only(r, A), B), e, B)
    BY <2>1, OnlyAppend
  <2>5. Only(Only(r, A), B) = Only(r, A \intersect B)
    BY <1>2
  <2>6. Only(Only(Append(r, e), A), B) = Only(Append(r, e), A \intersect B)
    <3>1. CASE e \in A
      <4>1. Only(Append(r, e), A) = Append(Only(r, A), e)
        BY <2>2, <3>1 DEF Grown
      <4>2. Only(Only(Append(r, e), A), B) = Grown(Only(r, A \intersect B), e, B)
        BY <2>4, <2>5, <4>1, Zenon
      <4>3. e \in B <=> e \in A \intersect B
        BY <3>1
      <4>4. Grown(Only(r, A \intersect B), e, B) = Grown(Only(r, A \intersect B), e, A \intersect B)
        BY <4>3 DEF Grown
      <4>5. QED
        BY <2>3, <4>2, <4>4
    <3>2. CASE e \notin A
      BY <2>2, <2>3, <2>5, <3>2, Zenon DEF Grown
    <3>3. QED
      BY <3>1, <3>2
  <2>7. QED
    BY <2>1, <2>6
<1> HIDE DEF P
<1>3. Seq(X) \subseteq P
  BY <1>1, <1>2, SeqSetInduction
<1>4. QED
  BY <1>3 DEF P

LEMMA OnlyAll ==
  ASSUME NEW X, NEW s \in Seq(X), NEW S, Elements(s) \subseteq S
  PROVE  Only(s, S) = s
<1> DEFINE P == {r \in Seq(X) : Elements(r) \subseteq S => Only(r, S) = r}
<1>1. <<>> \in P
  <2>1. <<>> \in Seq(X)
    OBVIOUS
  <2>2. QED
    BY <2>1, OnlyEmpty
<1>2. ASSUME NEW r \in Seq(X), NEW e \in X, r \in P PROVE Append(r, e) \in P
  <2>1. Append(r, e) \in Seq(X)
    OBVIOUS
  <2>2. Elements(Append(r, e)) = Elements(r) \union {e}
    BY ElementsAppend
  <2>3. Only(Append(r, e), S) = Grown(Only(r, S), e, S)
    BY OnlyAppend
  <2>4. QED
    BY <1>2, <2>1, <2>2, <2>3, Zenon DEF Grown
<1> HIDE DEF P
<1>3. Seq(X) \subseteq P
  BY <1>1, <1>2, SeqSetInduction
<1>4. QED
  BY <1>3 DEF P

LEMMA WithoutIsOnly ==
  ASSUME NEW X, NEW s \in Seq(X), NEW S
  PROVE  Without(s, S) = Only(s, X \ S)
<1>1. Len(s) \in Nat /\ \A i \in 1..Len(s) : s[i] \in Elements(s) /\ s[i] \in X
  BY DEF Elements
<1>2. \A i \in 1..Len(s) : s[i] \in Elements(s) \ S <=> s[i] \in X \ S
  BY <1>1
<1>3. Only(s, Elements(s) \ S) = Only(s, X \ S)
  BY <1>1, <1>2, OnlyAlike
<1>4. QED
  BY <1>3 DEF Without

LEMMA WithoutNone ==
  ASSUME NEW X, NEW s \in Seq(X), NEW S, Elements(s) \intersect S = {}
  PROVE  Without(s, S) = s
<1>1. Elements(s) \subseteq Elements(s) \ S
  OBVIOUS
<1>2. QED
  BY <1>1, OnlyAll DEF Without

LEMMA WithoutConcat ==
  ASSUME NEW X, NEW s \in Seq(X), NEW t \in Seq(X), NEW S
  PROVE  Without(s \o t, S) = Without(s, S) \o Without(t, S)
<1>1. s \o t \in Seq(X)
  OBVIOUS
<1>2. Without(s \o t, S) = Only(s \o t, X \ S)
  BY <1>1, WithoutIsOnly
<1>3. Only(s \o t, X \ S) = Only(s, X \ S) \o Only(t, X \ S)
  BY OnlyConcat
<1>4. QED
  BY <1>2, <1>3, WithoutIsOnly

\* A list put in another order, and one with an element put in.
LEMMA Reordered ==
  ASSUME NEW X, NEW s \in Seq(X), NEW T, Distinct(s)
  PROVE  /\ Without(s, T) \o Only(s, T) \in Seq(X)
         /\ Distinct(Without(s, T) \o Only(s, T))
         /\ Elements(Without(s, T) \o Only(s, T)) = Elements(s)
<1> DEFINE ahead == Without(s, T)
           behind == Only(s, T)
<1>1. ahead \in Seq(X) /\ Elements(ahead) = Elements(s) \ T /\ Distinct(ahead)
  BY WithoutIs
<1>2. behind \in Seq(X) /\ Elements(behind) = Elements(s) \intersect T /\ Distinct(behind)
  BY OnlyType, OnlyElements, OnlyDistinct
<1> HIDE DEF ahead, behind
<1>3. Elements(ahead \o behind) = Elements(ahead) \union Elements(behind)
  BY <1>1, <1>2, ElementsConcat
<1>4. Distinct(ahead \o behind)
  <2>1. Elements(ahead) \intersect Elements(behind) = {}
    BY <1>1, <1>2
  <2>2. QED
    BY <1>1, <1>2, <2>1, DistinctConcat
<1>5. ahead \o behind \in Seq(X)
  BY <1>1, <1>2
<1>6. QED
  BY <1>1, <1>2, <1>3, <1>4, <1>5 DEF ahead, behind

LEMMA Inserted ==
  ASSUME NEW X, NEW s \in Seq(X), NEW i \in DOMAIN s, NEW e \in X, Distinct(s), e \notin Elements(s)
  PROVE  LET t == SubSeq(s, 1, i - 1) \o <<e>> \o SubSeq(s, i, Len(s)) IN
         t \in Seq(X) /\ Distinct(t) /\ Elements(t) = Elements(s) \union {e}
<1> DEFINE m == i - 1
           head == SubSeq(s, 1, m)
           tail == SubSeq(s, m + 1, Len(s))
           one == <<e>>
<1>1. Len(s) \in Nat /\ DOMAIN s = 1..Len(s) /\ m \in Nat /\ m <= Len(s) /\ m + 1 = i
  OBVIOUS
<1>2. SubSeq(s, 1, i - 1) \o <<e>> \o SubSeq(s, i, Len(s)) = (head \o one) \o tail
  BY <1>1
<1> HIDE DEF m
<1>3. /\ head \in Seq(X) /\ DOMAIN head = 1..m
      /\ \A k \in 1..m : head[k] = s[k]
  <2>1. head \in Seq(X) /\ Len(head) = m /\ \A k \in 1..m : head[k] = s[k]
    BY <1>1, HeadIs
  <2> HIDE DEF head
  <2>2. QED
    BY <2>1
<1>4. /\ tail \in Seq(X) /\ DOMAIN tail = 1..(Len(s) - m)
      /\ \A k \in 1..(Len(s) - m) : tail[k] = s[m + k]
  <2>1. /\ tail \in Seq(X) /\ Len(tail) = Len(s) - m
        /\ \A k \in 1..(Len(s) - m) : tail[k] = s[m + k]
    BY <1>1, TailIs
  <2> HIDE DEF tail
  <2>2. QED
    BY <2>1
<1>5. one \in Seq(X) /\ Elements(one) = {e} /\ Distinct(one)
  BY ElementsOne
<1> HIDE DEF head, tail, one
<1>6. Elements(head) \union Elements(tail) = Elements(s)
  <2>1. \A k \in 1..Len(s) : k \in 1..m \/ (k - m \in 1..(Len(s) - m) /\ m + (k - m) = k)
    BY <1>1
  <2>2. \A k \in 1..(Len(s) - m) : m + k \in 1..Len(s)
    BY <1>1
  <2>3. ASSUME NEW k \in 1..Len(s)
        PROVE  s[k] \in Elements(head) \union Elements(tail)
    <3>1. CASE k \in 1..m
      BY <1>3, <3>1 DEF Elements
    <3>2. CASE k - m \in 1..(Len(s) - m) /\ m + (k - m) = k
      <4>1. tail[k - m] = s[k]
        BY <1>4, <3>2
      <4>2. QED
        BY <1>4, <3>2, <4>1 DEF Elements
    <3>3. QED
      BY <2>1, <3>1, <3>2
  <2>4. \A k \in 1..m : head[k] \in Elements(s)
    <3>1. \A k \in 1..m : k \in DOMAIN s
      BY <1>1
    <3>2. QED
      BY <1>3, <3>1 DEF Elements
  <2>5. \A k \in 1..(Len(s) - m) : tail[k] \in Elements(s)
    BY <1>1, <1>4, <2>2 DEF Elements
  <2>6. Elements(head) \subseteq Elements(s) /\ Elements(tail) \subseteq Elements(s)
    BY <1>3, <1>4, <2>4, <2>5 DEF Elements
  <2>7. Elements(s) \subseteq Elements(head) \union Elements(tail)
    <3>1. \A x \in Elements(s) : \E k \in 1..Len(s) : x = s[k]
      BY <1>1 DEF Elements
    <3>2. QED
      BY <2>3, <3>1
  <2>8. QED
    BY <2>6, <2>7
<1>7. Distinct(head) /\ Distinct(tail) /\ Elements(head) \intersect Elements(tail) = {}
  <2>1. Distinct(head)
    BY <1>1, <1>3 DEF Distinct
  <2>2. Distinct(tail)
    <3>1. \A j, k \in 1..(Len(s) - m) :
             m + j \in DOMAIN s /\ m + k \in DOMAIN s /\ (m + j = m + k => j = k)
      BY <1>1
    <3>2. QED
      BY <1>4, <3>1 DEF Distinct
  <2>3. \A j \in 1..m, k \in 1..(Len(s) - m) : head[j] # tail[k]
    <3>1. \A j \in 1..m, k \in 1..(Len(s) - m) :
             j \in DOMAIN s /\ m + k \in DOMAIN s /\ j # m + k
      BY <1>1
    <3>2. QED
      BY <1>3, <1>4, <3>1 DEF Distinct
  <2>4. QED
    BY <1>3, <1>4, <2>1, <2>2, <2>3 DEF Elements
<1>8. /\ head \o one \in Seq(X) /\ Elements(head \o one) = Elements(head) \union {e}
      /\ Distinct(head \o one)
  <2>1. e \notin Elements(head)
    BY <1>6
  <2>2. head \o one \in Seq(X)
    BY <1>3, <1>5
  <2>3. Elements(head \o one) = Elements(head) \union {e}
    BY <1>3, <1>5, ElementsConcat
  <2>4. Distinct(head \o one)
    BY <1>3, <1>5, <1>7, <2>1, DistinctConcat
  <2>5. QED
    BY <2>2, <2>3, <2>4
<1> DEFINE both == head \o one
<1>9. /\ both \in Seq(X) /\ Elements(both) = Elements(head) \union {e} /\ Distinct(both)
      /\ Elements(both) \intersect Elements(tail) = {}
  BY <1>6, <1>7, <1>8
<1> HIDE DEF both
<1>10. both \o tail \in Seq(X) /\ Distinct(both \o tail)
       /\ Elements(both \o tail) = Elements(both) \union Elements(tail)
  BY <1>4, <1>7, <1>9, ElementsConcat, DistinctConcat
<1>11. Elements(both \o tail) = Elements(s) \union {e}
  BY <1>6, <1>9, <1>10
<1>12. QED
  BY <1>2, <1>10, <1>11 DEF both

-----------------------------------------------------------------------------
(***************************************************************************)
(* The inductive invariant.                                                *)
(***************************************************************************)
Slots == Triggers \union {None}
Positions == (Nat \ {0}) \union {NeverSnapshotted, Dropped}
Snapshots == [children : Seq(Slots), filters : Seq(Filters), holes : Nat]
PassRecords == [snapshot : Addresses, position : Nat, trusts : BOOLEAN]

TypeOK ==
    /\ mTriggerRootNodeList \in Seq(Triggers)
    /\ rootFilter \in [Triggers -> Filters]
    /\ mRootSnapshotPosition \in [Triggers -> Positions]
    /\ snapshots \in [Addresses -> Snapshots]
    /\ mpRootNodeSnapshot \in Addresses
    /\ mRootNodeSnapshotStale \in BOOLEAN
    /\ mRootNodeSnapshotNeedsRebuild \in BOOLEAN
    /\ mRootNodesAppended \in Seq(Triggers)
    /\ mRootNodesRemoved \subseteq Nat /\ IsFiniteSet(mRootNodesRemoved)
    /\ mRootNodesRefiled \subseteq Nat
    /\ passes \in Seq(PassRecords)

\* A trigger that is no root knows of no slot.
RootsOK ==
    /\ Distinct(mTriggerRootNodeList)
    /\ \A t \in Triggers \ Elements(mTriggerRootNodeList) : mRootSnapshotPosition[t] < 0

\* The slots of the current snapshot that removals have left.
Kept == [i \in DOMAIN Snapshot.children |->
            IF i \in mRootNodesRemoved THEN None ELSE Snapshot.children[i]]

\* Unless it is to be built anew, the current snapshot with what is queued is
\* the root list, with every trigger where it is filed and every filter current
\* or about to be copied again.
QueuesOK ==
    ~mRootNodeSnapshotNeedsRebuild =>
        /\ Without(Kept, {None}) \o mRootNodesAppended = mTriggerRootNodeList
        /\ \A t \in Elements(mRootNodesAppended) : mRootSnapshotPosition[t] < 0
        /\ Len(Snapshot.filters) = Len(Snapshot.children)
        /\ \A i \in DOMAIN Kept : Kept[i] # None =>
              /\ mRootSnapshotPosition[Kept[i]] = i
              /\ i \in mRootNodesRefiled \/ Snapshot.filters[i] = rootFilter[Kept[i]]

\* With nothing queued there is nothing to do.
FreshOK ==
    ~mRootNodeSnapshotStale =>
        /\ ~mRootNodeSnapshotNeedsRebuild
        /\ mRootNodesAppended = <<>>
        /\ mRootNodesRemoved = {}
        /\ mRootNodesRefiled = {}

\* A trigger that a pass has pinned is known to have been in a snapshot, and the
\* filters of a pass that trusts them are current throughout.
PinsOK ==
    \A n \in DOMAIN passes :
        LET pinned == snapshots[passes[n].snapshot] IN
        \A i \in DOMAIN pinned.children : pinned.children[i] # None =>
            /\ mRootSnapshotPosition[pinned.children[i]] # NeverSnapshotted
            /\ passes[n].trusts => pinned.filters[i] = rootFilter[pinned.children[i]]

IInv == TypeOK /\ RootsOK /\ QueuesOK /\ FreshOK /\ PinsOK

-----------------------------------------------------------------------------
(***************************************************************************)
(* The current snapshot.                                                   *)
(***************************************************************************)
LEMMA CurrentType ==
  ASSUME TypeOK
  PROVE  /\ Snapshot \in Snapshots
         /\ Snapshot.children \in Seq(Slots) /\ Snapshot.filters \in Seq(Filters)
         /\ Snapshot.holes \in Nat
         /\ Len(Snapshot.children) \in Nat
         /\ DOMAIN Snapshot.children = 1..Len(Snapshot.children)
<1>1. Snapshot \in Snapshots
  BY DEF TypeOK, Snapshot
<1>2. /\ Snapshot.children \in Seq(Slots) /\ Snapshot.filters \in Seq(Filters)
      /\ Snapshot.holes \in Nat
  BY <1>1 DEF Snapshots
<1> HIDE DEF Snapshot
<1>3. Len(Snapshot.children) \in Nat /\ DOMAIN Snapshot.children = 1..Len(Snapshot.children)
  BY <1>2
<1>4. QED
  BY <1>1, <1>2, <1>3

\* A list of slots with some of them emptied.
LEMMA Emptied ==
  ASSUME NEW s \in Seq(Slots), NEW R
  PROVE  LET kept == [i \in DOMAIN s |-> IF i \in R THEN None ELSE s[i]] IN
         kept \in Seq(Slots) /\ Len(kept) = Len(s) /\ DOMAIN kept = 1..Len(s)
<1> DEFINE kept == [i \in DOMAIN s |-> IF i \in R THEN None ELSE s[i]]
<1>1. Len(s) \in Nat /\ DOMAIN s = 1..Len(s) /\ \A i \in 1..Len(s) : s[i] \in Slots
  OBVIOUS
<1>2. kept \in [1..Len(s) -> Slots]
  BY <1>1 DEF Slots
<1>3. DOMAIN kept = 1..Len(s)
  BY <1>2
<1> HIDE DEF kept
<1>4. kept \in Seq(Slots)
  BY <1>1, <1>2
<1>5. Len(kept) = Len(s)
  <2>1. Len(kept) \in Nat /\ 1..Len(kept) = 1..Len(s)
    BY <1>3, <1>4
  <2>2. QED
    BY <1>1, <2>1
<1>6. QED
  BY <1>3, <1>4, <1>5 DEF kept

LEMMA KeptType ==
  ASSUME TypeOK
  PROVE  /\ Kept \in Seq(Slots) /\ Len(Kept) = Len(Snapshot.children)
         /\ Len(Kept) \in Nat /\ DOMAIN Kept = 1..Len(Kept)
<1>1. Kept \in Seq(Slots) /\ Len(Kept) = Len(Snapshot.children)
  BY CurrentType, Emptied DEF Kept
<1> HIDE DEF Kept
<1>2. QED
  BY <1>1

\* The triggers in the slots that are left, in their order.
Live == Without(Kept, {None})

LEMMA LiveSlots ==
  ASSUME TypeOK
  PROVE  /\ Live \in Seq(Slots) /\ Elements(Live) = Elements(Kept) \ {None}
         /\ Elements(Live) \subseteq Triggers
<1>1. Kept \in Seq(Slots)
  BY KeptType
<1>2. Live \in Seq(Slots) /\ Elements(Live) = Elements(Kept) \ {None}
  BY <1>1, WithoutIs DEF Live
<1>3. Elements(Kept) \subseteq Slots
  <2> HIDE DEF Kept
  <2>1. QED
    BY <1>1 DEF Elements
<1>4. QED
  BY <1>2, <1>3 DEF Slots

\* A root of a snapshot that may be patched is in the slot where it is filed, or
\* is waiting for one.
LEMMA RootsAreFiled ==
  ASSUME IInv, ~mRootNodeSnapshotNeedsRebuild
  PROVE  /\ Elements(mTriggerRootNodeList) = Elements(Live) \union Elements(mRootNodesAppended)
         /\ \A t \in Elements(mTriggerRootNodeList) :
               LET position == mRootSnapshotPosition[t] IN
               IF position > 0
               THEN /\ position \in DOMAIN Kept /\ Kept[position] = t
                    /\ t \notin Elements(mRootNodesAppended)
               ELSE t \in Elements(mRootNodesAppended)
         /\ \A i \in DOMAIN Kept : Kept[i] # None => Kept[i] \in Elements(Live)
<1>1. /\ Live \in Seq(Slots) /\ Elements(Live) = Elements(Kept) \ {None}
      /\ mRootNodesAppended \in Seq(Triggers)
      /\ mRootSnapshotPosition \in [Triggers -> Positions]
  BY LiveSlots DEF IInv, TypeOK
<1>2. mRootNodesAppended \in Seq(Slots)
  BY <1>1 DEF Slots
<1>3. Elements(Live \o mRootNodesAppended) = Elements(Live) \union Elements(mRootNodesAppended)
  BY <1>1, <1>2, ElementsConcat
<1>4. Live \o mRootNodesAppended = mTriggerRootNodeList
  BY DEF Live, IInv, QueuesOK
<1>5. ASSUME NEW t \in Elements(Live)
      PROVE  /\ mRootSnapshotPosition[t] \in DOMAIN Kept /\ mRootSnapshotPosition[t] > 0
             /\ Kept[mRootSnapshotPosition[t]] = t
  <2>1. PICK i \in DOMAIN Kept : Kept[i] = t /\ t # None
    BY <1>1 DEF Elements
  <2>2. i > 0
    BY KeptType DEF IInv
  <2>3. mRootSnapshotPosition[t] = i
    BY <2>1 DEF IInv, QueuesOK
  <2>4. QED
    BY <2>1, <2>2, <2>3
<1>6. \A t \in Elements(mRootNodesAppended) : mRootSnapshotPosition[t] < 0
  BY DEF IInv, QueuesOK
<1>7. \A t \in Elements(mRootNodesAppended) : mRootSnapshotPosition[t] \in Int
  <2>1. Elements(mRootNodesAppended) \subseteq Triggers
    BY <1>1 DEF Elements
  <2>2. QED
    BY <1>1, <2>1 DEF Positions, NeverSnapshotted, Dropped
<1>8. ASSUME NEW t \in Elements(mRootNodesAppended) PROVE ~(mRootSnapshotPosition[t] > 0)
  <2>1. mRootSnapshotPosition[t] < 0 /\ mRootSnapshotPosition[t] \in Int
    BY <1>6, <1>7
  <2>2. QED
    BY <2>1
<1>9. \A i \in DOMAIN Kept : Kept[i] # None => Kept[i] \in Elements(Live)
  BY <1>1 DEF Elements
<1>10. Elements(mTriggerRootNodeList) = Elements(Live) \union Elements(mRootNodesAppended)
  BY <1>3, <1>4
<1>11. QED
  BY <1>5, <1>8, <1>9, <1>10

-----------------------------------------------------------------------------
(***************************************************************************)
(* Changes to the root list.                                               *)
(***************************************************************************)
\* What is pinned stays where it is, and what is trusted stays current.
LEMMA PinsStay ==
  ASSUME PinsOK, UNCHANGED snapshots, DOMAIN passes' = DOMAIN passes,
         \A n \in DOMAIN passes :
            /\ passes'[n].snapshot = passes[n].snapshot
            /\ passes'[n].trusts => passes[n].trusts
            /\ \A t \in Elements(snapshots[passes[n].snapshot].children) \ {None} :
                  /\ mRootSnapshotPosition[t] # NeverSnapshotted =>
                        mRootSnapshotPosition'[t] # NeverSnapshotted
                  /\ passes'[n].trusts => rootFilter'[t] = rootFilter[t]
  PROVE  PinsOK'
<1> SUFFICES ASSUME NEW n \in DOMAIN passes,
                    NEW i \in DOMAIN snapshots[passes[n].snapshot].children,
                    snapshots[passes[n].snapshot].children[i] # None
             PROVE  LET pinned == snapshots[passes[n].snapshot] IN
                    /\ mRootSnapshotPosition'[pinned.children[i]] # NeverSnapshotted
                    /\ passes'[n].trusts =>
                          pinned.filters[i] = rootFilter'[pinned.children[i]]
  BY DEF PinsOK
<1> DEFINE pinned == snapshots[passes[n].snapshot]
           t == pinned.children[i]
<1>1. t \in Elements(pinned.children) \ {None}
  BY DEF Elements
<1>2. /\ mRootSnapshotPosition[t] # NeverSnapshotted
      /\ passes[n].trusts => pinned.filters[i] = rootFilter[t]
  BY DEF PinsOK
<1>3. /\ passes'[n].trusts => passes[n].trusts
      /\ mRootSnapshotPosition[t] # NeverSnapshotted =>
            mRootSnapshotPosition'[t] # NeverSnapshotted
      /\ passes'[n].trusts => rootFilter'[t] = rootFilter[t]
  BY <1>1
<1> HIDE DEF t
<1>4. QED
  BY <1>2, <1>3 DEF t

LEMMA PinnedAreTriggers ==
  ASSUME TypeOK, PinsOK, NEW n \in DOMAIN passes,
         NEW u \in Elements(snapshots[passes[n].snapshot].children) \ {None}
  PROVE  u \in Triggers /\ mRootSnapshotPosition[u] # NeverSnapshotted
<1> DEFINE pinned == snapshots[passes[n].snapshot]
<1>1. passes[n] \in PassRecords
  BY DEF TypeOK
<1>2. pinned \in Snapshots
  BY <1>1 DEF TypeOK, PassRecords
<1>3. pinned.children \in Seq(Slots)
  BY <1>2 DEF Snapshots
<1>4. PICK i \in DOMAIN pinned.children : u = pinned.children[i]
  BY DEF Elements
<1>5. u \in Slots
  BY <1>3, <1>4
<1>6. mRootSnapshotPosition[u] # NeverSnapshotted
  BY <1>4 DEF PinsOK
<1>7. QED
  BY <1>5, <1>6 DEF Slots

LEMMA PassesDistrust ==
  ASSUME passes \in Seq(PassRecords),
         passes' = [n \in DOMAIN passes |-> [passes[n] EXCEPT !.trusts = FALSE]]
  PROVE  /\ passes' \in Seq(PassRecords) /\ DOMAIN passes' = DOMAIN passes
         /\ \A n \in DOMAIN passes :
               passes'[n].snapshot = passes[n].snapshot /\ ~passes'[n].trusts
<1>1. Len(passes) \in Nat /\ DOMAIN passes = 1..Len(passes)
  OBVIOUS
<1>2. ASSUME NEW n \in DOMAIN passes
      PROVE  /\ passes'[n] \in PassRecords
             /\ passes'[n].snapshot = passes[n].snapshot /\ ~passes'[n].trusts
  <2>1. passes[n] \in PassRecords
    OBVIOUS
  <2>2. passes'[n] = [passes[n] EXCEPT !.trusts = FALSE]
    OBVIOUS
  <2>3. QED
    BY <2>1, <2>2 DEF PassRecords
<1>3. passes' \in [1..Len(passes) -> PassRecords] /\ DOMAIN passes' = DOMAIN passes
  BY <1>1, <1>2
<1>4. passes' \in Seq(PassRecords)
  BY <1>1, <1>3
<1>5. QED
  BY <1>2, <1>3, <1>4

LEMMA PinsUntouched ==
  ASSUME PinsOK, UNCHANGED <<snapshots, passes, rootFilter, mRootSnapshotPosition>>
  PROVE  PinsOK'
<1>1. QED
  BY DEF PinsOK

LEMMA KeptStays ==
  ASSUME UNCHANGED <<snapshots, mpRootNodeSnapshot>>
  PROVE  /\ Snapshot' = Snapshot
         /\ UNCHANGED mRootNodesRemoved => Kept' = Kept
<1>1. Snapshot' = Snapshot
  BY DEF Snapshot
<1> HIDE DEF Snapshot
<1>2. QED
  BY <1>1 DEF Kept

LEMMA AppendingKeepsIInv ==
  ASSUME IInv, NEW t \in Triggers, AppendRoot(t)
  PROVE  IInv'
<1>1. /\ mTriggerRootNodeList \in Seq(Triggers) /\ Distinct(mTriggerRootNodeList)
      /\ t \notin Elements(mTriggerRootNodeList)
      /\ mRootNodesAppended \in Seq(Triggers)
  BY DEF AppendRoot, IInv, TypeOK, RootsOK
<1>2. /\ mTriggerRootNodeList' = Append(mTriggerRootNodeList, t)
      /\ mRootNodeSnapshotStale' = TRUE
      /\ mRootNodesAppended' = IF mRootNodeSnapshotNeedsRebuild THEN mRootNodesAppended
                               ELSE Append(mRootNodesAppended, t)
      /\ UNCHANGED <<mRootNodeSnapshotNeedsRebuild, mRootNodesRemoved, mRootNodesRefiled,
                     rootFilter, mRootSnapshotPosition, snapshots, mpRootNodeSnapshot, passes>>
  BY DEF AppendRoot, QueueAppended, current
<1>3. /\ Append(mTriggerRootNodeList, t) \in Seq(Triggers)
      /\ Append(mRootNodesAppended, t) \in Seq(Triggers)
  BY <1>1
<1>4. Distinct(Append(mTriggerRootNodeList, t))
      /\ Elements(Append(mTriggerRootNodeList, t)) = Elements(mTriggerRootNodeList) \union {t}
      /\ Elements(Append(mRootNodesAppended, t)) = Elements(mRootNodesAppended) \union {t}
  BY <1>1, DistinctAppend, ElementsAppend
<1>5. TypeOK'
  BY <1>2, <1>3 DEF IInv, TypeOK
<1>6. RootsOK'
  BY <1>2, <1>4 DEF IInv, RootsOK
<1>7. FreshOK'
  BY <1>2 DEF FreshOK
<1>8. PinsOK'
  BY <1>2, PinsUntouched DEF IInv
<1>9. QueuesOK'
  <2>1. SUFFICES ASSUME ~mRootNodeSnapshotNeedsRebuild PROVE QueuesOK'
    BY <1>2 DEF QueuesOK
  <2>2. Snapshot' = Snapshot /\ Kept' = Kept
    BY <1>2, KeptStays
  <2>3. Live \in Seq(Slots)
    BY LiveSlots DEF IInv
  <2>4. Live \o Append(mRootNodesAppended, t) = Append(Live \o mRootNodesAppended, t)
    <3>1. mRootNodesAppended \in Seq(Slots) /\ t \in Slots
      BY <1>1 DEF Slots
    <3> HIDE DEF Live
    <3>2. QED
      BY <2>3, <3>1
  <2>5. Live \o mRootNodesAppended = mTriggerRootNodeList
    BY <2>1 DEF Live, IInv, QueuesOK
  <2>6. mRootSnapshotPosition[t] < 0
    BY <1>1 DEF IInv, RootsOK
  <2>7. Without(Kept, {None}) \o mRootNodesAppended' = mTriggerRootNodeList'
    BY <1>2, <2>1, <2>4, <2>5 DEF Live
  <2>8. \A u \in Elements(mRootNodesAppended') : mRootSnapshotPosition[u] < 0
    BY <1>2, <1>4, <2>1, <2>6 DEF IInv, QueuesOK
  <2>9. QED
    BY <1>2, <2>1, <2>2, <2>7, <2>8 DEF IInv, QueuesOK
<1>10. QED
  BY <1>5, <1>6, <1>7, <1>8, <1>9 DEF IInv

\* After a change of the order only the root list counts: the next pass builds
\* its snapshot anew.
LEMMA ReorderingKeepsIInv ==
  ASSUME IInv, QueueReordered,
         mTriggerRootNodeList' \in Seq(Triggers), Distinct(mTriggerRootNodeList'),
         Elements(mTriggerRootNodeList) \subseteq Elements(mTriggerRootNodeList'),
         UNCHANGED <<rootFilter, mRootSnapshotPosition, current, passes>>
  PROVE  IInv'
<1>1. TypeOK'
  BY DEF QueueReordered, current, IInv, TypeOK
<1>2. RootsOK'
  BY DEF IInv, RootsOK
<1>3. PinsOK'
  BY PinsUntouched DEF IInv, current
<1>4. QueuesOK' /\ FreshOK'
  BY DEF QueueReordered, QueuesOK, FreshOK
<1>5. QED
  BY <1>1, <1>2, <1>3, <1>4 DEF IInv

LEMMA InsertKeepsIInv ==
  ASSUME IInv, NEW t \in Triggers, NEW i \in DOMAIN mTriggerRootNodeList, InsertRoot(t, i)
  PROVE  IInv'
<1>1. /\ mTriggerRootNodeList \in Seq(Triggers) /\ Distinct(mTriggerRootNodeList)
      /\ t \notin Elements(mTriggerRootNodeList)
  BY DEF InsertRoot, IInv, TypeOK, RootsOK
<1>2. mTriggerRootNodeList' = SubSeq(mTriggerRootNodeList, 1, i - 1) \o <<t>>
                              \o SubSeq(mTriggerRootNodeList, i, Len(mTriggerRootNodeList))
  BY DEF InsertRoot
<1>3. /\ mTriggerRootNodeList' \in Seq(Triggers) /\ Distinct(mTriggerRootNodeList')
      /\ Elements(mTriggerRootNodeList') = Elements(mTriggerRootNodeList) \union {t}
  BY <1>1, <1>2, Inserted
<1>4. QED
  BY <1>3, ReorderingKeepsIInv DEF InsertRoot

LEMMA ReorderKeepsIInv ==
  ASSUME IInv, NEW temporary, ReorderRoots(temporary)
  PROVE  IInv'
<1>1. mTriggerRootNodeList \in Seq(Triggers) /\ Distinct(mTriggerRootNodeList)
  BY DEF IInv, TypeOK, RootsOK
<1>2. /\ mTriggerRootNodeList' \in Seq(Triggers) /\ Distinct(mTriggerRootNodeList')
      /\ Elements(mTriggerRootNodeList') = Elements(mTriggerRootNodeList)
  BY <1>1, Reordered DEF ReorderRoots
<1>3. QED
  BY <1>2, ReorderingKeepsIInv DEF ReorderRoots

\* A root leaves the slot where it is filed: that slot is emptied.
LEMMA SlotEmptied ==
  ASSUME TypeOK, NEW t \in Triggers, NEW position \in DOMAIN Kept,
         \A i \in DOMAIN Kept : Kept[i] = t <=> i = position,
         UNCHANGED <<snapshots, mpRootNodeSnapshot>>,
         mRootNodesRemoved' = mRootNodesRemoved \union {position}
  PROVE  /\ \A i \in DOMAIN Kept : Kept'[i] = IF i = position THEN None ELSE Kept[i]
         /\ Len(Kept') = Len(Kept) /\ DOMAIN Kept' = DOMAIN Kept
         /\ Without(Kept', {None}) = Without(Live, {t})
<1>1. /\ Kept \in Seq(Slots) /\ Len(Kept) = Len(Snapshot.children)
      /\ Len(Kept) \in Nat /\ DOMAIN Kept = 1..Len(Kept)
  BY KeptType
<1>2. Snapshot.children \in Seq(Slots) /\ Snapshot' = Snapshot
      /\ DOMAIN Snapshot.children = 1..Len(Snapshot.children)
  BY CurrentType, KeptStays
<1>3. Kept' = [i \in DOMAIN Snapshot.children |->
                  IF i \in mRootNodesRemoved \union {position} THEN None
                  ELSE Snapshot.children[i]]
  BY <1>2 DEF Kept
<1>4. /\ Kept' \in Seq(Slots) /\ Len(Kept') = Len(Snapshot.children)
      /\ DOMAIN Kept' = 1..Len(Snapshot.children)
  BY <1>2, <1>3, Emptied
<1>5. ASSUME NEW i \in DOMAIN Kept
      PROVE  Kept'[i] = IF i = position THEN None ELSE Kept[i]
  <2>1. i \in DOMAIN Snapshot.children
    BY <1>1, <1>2
  <2>2. Kept[i] = IF i \in mRootNodesRemoved THEN None ELSE Snapshot.children[i]
    BY <2>1 DEF Kept
  <2>3. QED
    BY <1>3, <2>1, <2>2
<1>6. Without(Kept', {None}) = Only(Kept', Slots \ {None})
  BY <1>4, WithoutIsOnly
<1>7. Live = Only(Kept, Slots \ {None}) /\ Live \in Seq(Slots)
  BY <1>1, WithoutIsOnly, LiveSlots DEF Live
<1>8. Without(Live, {t}) = Only(Live, Slots \ {t})
  BY <1>7, WithoutIsOnly
<1>9. Only(Live, Slots \ {t}) = Only(Kept, (Slots \ {None}) \intersect (Slots \ {t}))
  BY <1>1, <1>7, OnlyOnly
<1>10. Only(Kept, (Slots \ {None}) \intersect (Slots \ {t})) = Only(Kept', Slots \ {None})
  <2> DEFINE A == (Slots \ {None}) \intersect (Slots \ {t})
             B == Slots \ {None}
  <2>1. ASSUME NEW i \in 1..Len(Kept)
        PROVE  (Kept[i] \in A <=> Kept'[i] \in B) /\ (Kept[i] \in A => Kept[i] = Kept'[i])
    <3>1. i \in DOMAIN Kept /\ Kept[i] \in Slots
      BY <1>1
    <3>2. CASE i = position
      BY <1>5, <3>1, <3>2
    <3>3. CASE i # position
      BY <1>5, <3>1, <3>3
    <3>4. QED
      BY <3>2, <3>3
  <2> HIDE DEF A, B
  <2>2. Len(Kept) \in Nat /\ Len(Kept') = Len(Kept)
    BY <1>1, <1>4
  <2>3. Only(Kept, A) = Only(Kept', B)
    BY <2>1, <2>2, OnlyAlike
  <2>4. QED
    BY <2>3 DEF A, B
<1>11. QED
  BY <1>1, <1>4, <1>5, <1>6, <1>8, <1>9, <1>10

\* The root list without t is what the slots and the queue hold without it.
LEMMA RootTakenOut ==
  ASSUME IInv, ~mRootNodeSnapshotNeedsRebuild, NEW t \in Triggers
  PROVE  Without(mTriggerRootNodeList, {t}) =
             Without(Live, {t}) \o Without(mRootNodesAppended, {t})
<1>1. Live \o mRootNodesAppended = mTriggerRootNodeList
  BY DEF Live, IInv, QueuesOK
<1>2. Live \in Seq(Slots) /\ mRootNodesAppended \in Seq(Slots)
  BY LiveSlots DEF IInv, TypeOK, Slots
<1> DEFINE live == Live
           queued == mRootNodesAppended
           T == {t}
<1>3. live \in Seq(Slots) /\ queued \in Seq(Slots)
  BY <1>2
<1> HIDE DEF live, queued, T
<1>4. Without(live \o queued, T) = Without(live, T) \o Without(queued, T)
  BY <1>3, WithoutConcat
<1>5. QED
  BY <1>1, <1>4 DEF live, queued, T

LEMMA RemovalKeepsQueues ==
  ASSUME IInv, ~mRootNodeSnapshotNeedsRebuild,
         NEW t \in Elements(mTriggerRootNodeList), t \in Triggers, NEW after,
         mTriggerRootNodeList' = Without(mTriggerRootNodeList, {t}),
         QueueRemoved(t, after),
         UNCHANGED <<snapshots, mpRootNodeSnapshot>>,
         \A u \in Triggers \ {t} : rootFilter'[u] = rootFilter[u]
  PROVE  QueuesOK'
<1>1. /\ mRootNodesAppended \in Seq(Triggers) /\ mRootNodesAppended \in Seq(Slots)
      /\ mRootSnapshotPosition \in [Triggers -> Positions]
  BY DEF IInv, TypeOK, Slots
<1>2. /\ mRootSnapshotPosition' = [mRootSnapshotPosition EXCEPT ![t] = after]
      /\ UNCHANGED <<mRootNodeSnapshotNeedsRebuild, mRootNodesRefiled>>
  BY DEF QueueRemoved
<1>3. \A u \in Triggers \ {t} : mRootSnapshotPosition'[u] = mRootSnapshotPosition[u]
  BY <1>1, <1>2
<1>4. \A i \in DOMAIN Kept : Kept[i] # None => Kept[i] \in Triggers
  BY RootsAreFiled, LiveSlots DEF IInv
<1>5. Snapshot' = Snapshot
  BY KeptStays
<1>6. /\ Len(Snapshot.filters) = Len(Snapshot.children)
      /\ \A i \in DOMAIN Kept : Kept[i] # None =>
            /\ mRootSnapshotPosition[Kept[i]] = i
            /\ i \in mRootNodesRefiled \/ Snapshot.filters[i] = rootFilter[Kept[i]]
      /\ \A u \in Elements(mRootNodesAppended) : mRootSnapshotPosition[u] < 0
  BY DEF IInv, QueuesOK
<1>7. Elements(mRootNodesAppended) \subseteq Triggers
  BY <1>1 DEF Elements
<1>8. t # None
  BY RootSnapshotAssumption
<1>9. CASE mRootSnapshotPosition[t] > 0
  <2> DEFINE position == mRootSnapshotPosition[t]
  <2>1. /\ position \in DOMAIN Kept /\ Kept[position] = t
        /\ t \notin Elements(mRootNodesAppended)
    BY <1>9, RootsAreFiled
  <2>2. /\ mRootNodesRemoved' = mRootNodesRemoved \union {position}
        /\ UNCHANGED mRootNodesAppended
    BY <1>9 DEF QueueRemoved
  <2>3. \A i \in DOMAIN Kept : Kept[i] = t <=> i = position
    BY <1>6, <1>8, <2>1
  <2> HIDE DEF position
  <2>4. /\ \A i \in DOMAIN Kept : Kept'[i] = IF i = position THEN None ELSE Kept[i]
        /\ DOMAIN Kept' = DOMAIN Kept
        /\ Without(Kept', {None}) = Without(Live, {t})
    BY <2>1, <2>2, <2>3, SlotEmptied DEF IInv
  <2>5. Without(mRootNodesAppended, {t}) = mRootNodesAppended
    <3>1. Elements(mRootNodesAppended) \intersect {t} = {}
      BY <2>1
    <3>2. QED
      BY <1>1, <3>1, WithoutNone
  <2>6. Without(Kept', {None}) \o mRootNodesAppended' = mTriggerRootNodeList'
    BY <2>2, <2>4, <2>5, RootTakenOut
  <2>7. \A u \in Elements(mRootNodesAppended') : mRootSnapshotPosition'[u] < 0
    BY <1>3, <1>6, <1>7, <2>1, <2>2
  <2>8. ASSUME NEW i \in DOMAIN Kept', Kept'[i] # None
        PROVE  /\ mRootSnapshotPosition'[Kept'[i]] = i
               /\ i \in mRootNodesRefiled' \/ Snapshot'.filters[i] = rootFilter'[Kept'[i]]
    <3>1. i \in DOMAIN Kept /\ i # position /\ Kept'[i] = Kept[i] /\ Kept[i] # None
      BY <2>4, <2>8
    <3>2. Kept[i] \in Triggers \ {t}
      BY <1>4, <2>3, <3>1
    <3>3. QED
      BY <1>2, <1>3, <1>5, <1>6, <3>1, <3>2
  <2>9. QED
    BY <1>5, <1>6, <2>6, <2>7, <2>8 DEF QueuesOK
<1>10. CASE ~(mRootSnapshotPosition[t] > 0)
  <2>1. /\ mRootNodesAppended' = Without(mRootNodesAppended, {t})
        /\ UNCHANGED mRootNodesRemoved
    BY <1>10 DEF QueueRemoved
  <2>2. Kept' = Kept
    BY <2>1, KeptStays
  <2>3. \A i \in DOMAIN Kept : i > 0
    BY KeptType DEF IInv
  <2>4. \A i \in DOMAIN Kept : Kept[i] # t
    BY <1>6, <1>8, <1>10, <2>3
  <2>5. Without(Live, {t}) = Live
    <3>1. t \notin Elements(Live)
      BY <2>4, LiveSlots DEF IInv, Elements
    <3>2. Elements(Live) \intersect {t} = {} /\ Live \in Seq(Slots)
      BY <3>1, LiveSlots DEF IInv
    <3>3. QED
      BY <3>2, WithoutNone
  <2>6. Without(Kept', {None}) \o mRootNodesAppended' = mTriggerRootNodeList'
    BY <2>1, <2>2, <2>5, RootTakenOut DEF Live
  <2>7. Elements(mRootNodesAppended') = Elements(mRootNodesAppended) \ {t}
    BY <1>1, <2>1, WithoutIs
  <2>8. \A u \in Elements(mRootNodesAppended') : mRootSnapshotPosition'[u] < 0
    BY <1>3, <1>6, <1>7, <2>7
  <2>9. ASSUME NEW i \in DOMAIN Kept, Kept[i] # None
        PROVE  /\ mRootSnapshotPosition'[Kept[i]] = i
               /\ i \in mRootNodesRefiled' \/ Snapshot.filters[i] = rootFilter'[Kept[i]]
    <3>1. Kept[i] \in Triggers \ {t}
      BY <1>4, <2>4, <2>9
    <3>2. QED
      BY <1>2, <1>3, <1>6, <2>9, <3>1
  <2>10. QED
    BY <1>2, <1>5, <1>6, <2>2, <2>6, <2>8, <2>9 DEF QueuesOK
<1>11. QED
  BY <1>9, <1>10

LEMMA RemovalKeepsIInv ==
  ASSUME IInv, NEW t \in Triggers, NEW after \in {Dropped, NeverSnapshotted},
         t \in Elements(mTriggerRootNodeList),
         mTriggerRootNodeList' = Without(mTriggerRootNodeList, {t}),
         QueueRemoved(t, after), UNCHANGED <<current, passes>>,
         rootFilter' \in [Triggers -> Filters],
         \A u \in Triggers \ {t} : rootFilter'[u] = rootFilter[u],
         \/ after = Dropped /\ UNCHANGED rootFilter
         \/ \A n \in DOMAIN passes : t \notin Elements(snapshots[passes[n].snapshot].children)
  PROVE  IInv'
<1>1. /\ mTriggerRootNodeList \in Seq(Triggers) /\ Distinct(mTriggerRootNodeList)
      /\ mRootNodesAppended \in Seq(Triggers)
      /\ mRootSnapshotPosition \in [Triggers -> Positions]
  BY DEF IInv, TypeOK, RootsOK
<1>2. /\ mTriggerRootNodeList' \in Seq(Triggers) /\ Distinct(mTriggerRootNodeList')
      /\ Elements(mTriggerRootNodeList') = Elements(mTriggerRootNodeList) \ {t}
  BY <1>1, WithoutIs
<1>3. /\ mRootNodeSnapshotStale' = TRUE
      /\ mRootSnapshotPosition' = [mRootSnapshotPosition EXCEPT ![t] = after]
      /\ UNCHANGED <<mRootNodeSnapshotNeedsRebuild, mRootNodesRefiled>>
      /\ UNCHANGED <<snapshots, mpRootNodeSnapshot, passes>>
  BY DEF QueueRemoved, current
<1>4. /\ mRootSnapshotPosition' \in [Triggers -> Positions]
      /\ mRootSnapshotPosition'[t] = after
      /\ \A u \in Triggers \ {t} : mRootSnapshotPosition'[u] = mRootSnapshotPosition[u]
  BY <1>1, <1>3 DEF Positions
<1>5. mRootNodesAppended' \in Seq(Triggers)
  <2>1. Without(mRootNodesAppended, {t}) \in Seq(Triggers)
    BY <1>1, WithoutIs
  <2>2. QED
    BY <1>1, <2>1 DEF QueueRemoved
<1>6. mRootNodesRemoved' \subseteq Nat /\ IsFiniteSet(mRootNodesRemoved')
  <2>1. mRootNodesRemoved \subseteq Nat /\ IsFiniteSet(mRootNodesRemoved)
    BY DEF IInv, TypeOK
  <2>2. CASE UNCHANGED mRootNodesRemoved
    BY <2>1, <2>2
  <2>3. CASE /\ mRootSnapshotPosition[t] > 0
             /\ mRootNodesRemoved' = mRootNodesRemoved \union {mRootSnapshotPosition[t]}
    <3>1. mRootSnapshotPosition[t] \in Nat
      BY <1>1, <2>3 DEF Positions, Dropped, NeverSnapshotted
    <3>2. QED
      BY <2>1, <2>3, <3>1, FS_AddElement
  <2>4. QED
    BY <2>2, <2>3 DEF QueueRemoved
<1>7. TypeOK'
  BY <1>2, <1>3, <1>4, <1>5, <1>6 DEF IInv, TypeOK
<1>8. RootsOK'
  <2>1. mRootSnapshotPosition'[t] < 0
    BY <1>4 DEF Dropped, NeverSnapshotted
  <2>2. QED
    BY <1>2, <1>4, <2>1 DEF IInv, RootsOK
<1>9. FreshOK'
  BY <1>3 DEF FreshOK
<1>10. QueuesOK'
  <2>1. CASE mRootNodeSnapshotNeedsRebuild
    BY <1>3, <2>1 DEF QueuesOK
  <2>2. CASE ~mRootNodeSnapshotNeedsRebuild
    BY <1>3, <2>2, RemovalKeepsQueues
  <2>3. QED
    BY <2>1, <2>2
<1>11. PinsOK'
  <2>1. ASSUME NEW n \in DOMAIN passes,
               NEW u \in Elements(snapshots[passes[n].snapshot].children) \ {None}
        PROVE  /\ mRootSnapshotPosition[u] # NeverSnapshotted =>
                     mRootSnapshotPosition'[u] # NeverSnapshotted
               /\ rootFilter'[u] = rootFilter[u]
    <3>1. u \in Triggers
      BY <2>1, PinnedAreTriggers DEF IInv
    <3>2. CASE u = t
      <4>1. after = Dropped /\ UNCHANGED rootFilter
        BY <2>1, <3>2
      <4>2. QED
        BY <1>4, <3>2, <4>1 DEF Dropped, NeverSnapshotted
    <3>3. CASE u # t
      BY <1>4, <3>1, <3>3
    <3>4. QED
      BY <3>2, <3>3
  <2>2. QED
    BY <1>3, <2>1, PinsStay DEF IInv
<1>12. QED
  BY <1>7, <1>8, <1>9, <1>10, <1>11 DEF IInv

LEMMA RemoveKeepsIInv ==
  ASSUME IInv, NEW t \in Triggers, RemoveRoot(t)
  PROVE  IInv'
<1>1. rootFilter' \in [Triggers -> Filters] /\ UNCHANGED rootFilter
  BY DEF RemoveRoot, IInv, TypeOK
<1>2. /\ t \in Elements(mTriggerRootNodeList)
      /\ mTriggerRootNodeList' = Without(mTriggerRootNodeList, {t})
      /\ QueueRemoved(t, Dropped) /\ UNCHANGED <<current, passes>>
  BY DEF RemoveRoot
<1>3. QED
  BY <1>1, <1>2, RemovalKeepsIInv

LEMMA DeleteKeepsIInv ==
  ASSUME IInv, NEW t \in Triggers, DeleteRoot(t)
  PROVE  IInv'
<1>1. rootFilter \in [Triggers -> Filters] /\ rootFilter' = [rootFilter EXCEPT ![t] = Visit]
  BY DEF DeleteRoot, IInv, TypeOK
<1>2. /\ rootFilter' \in [Triggers -> Filters]
      /\ \A u \in Triggers \ {t} : rootFilter'[u] = rootFilter[u]
  BY <1>1, RootSnapshotAssumption
<1>3. /\ t \in Elements(mTriggerRootNodeList)
      /\ mTriggerRootNodeList' = Without(mTriggerRootNodeList, {t})
      /\ QueueRemoved(t, NeverSnapshotted) /\ UNCHANGED <<current, passes>>
      /\ \A n \in DOMAIN passes : t \notin Elements(snapshots[passes[n].snapshot].children)
  BY DEF DeleteRoot
<1>4. QED
  BY <1>2, <1>3, RemovalKeepsIInv

-----------------------------------------------------------------------------
(***************************************************************************)
(* Changes to a trigger where it is.                                       *)
(***************************************************************************)
\* A change to t's filter, or the end of a t that is no root, disturbs neither
\* the slots nor the queue, if t's slot is queued to be refiled.
LEMMA FiltersKeepQueues ==
  ASSUME IInv, NEW t \in Triggers,
         UNCHANGED <<mTriggerRootNodeList, snapshots, mpRootNodeSnapshot,
                     mRootNodeSnapshotNeedsRebuild, mRootNodesAppended, mRootNodesRemoved>>,
         \A u \in Triggers \ {t} :
            rootFilter'[u] = rootFilter[u] /\ mRootSnapshotPosition'[u] = mRootSnapshotPosition[u],
         mRootSnapshotPosition[t] < 0 => mRootSnapshotPosition'[t] < 0,
         mRootSnapshotPosition[t] > 0 =>
            /\ mRootSnapshotPosition'[t] = mRootSnapshotPosition[t]
            /\ ~mRootNodeSnapshotNeedsRebuild => mRootSnapshotPosition[t] \in mRootNodesRefiled',
         mRootNodesRefiled \subseteq mRootNodesRefiled'
  PROVE  QueuesOK'
<1> SUFFICES ASSUME ~mRootNodeSnapshotNeedsRebuild PROVE QueuesOK'
  BY DEF QueuesOK
<1>1. Kept' = Kept /\ Snapshot' = Snapshot
  BY KeptStays
<1>2. \A i \in DOMAIN Kept : i > 0 /\ (Kept[i] # None => Kept[i] \in Triggers)
  BY KeptType, RootsAreFiled, LiveSlots DEF IInv
<1>3. /\ \A i \in DOMAIN Kept : Kept[i] # None =>
            /\ mRootSnapshotPosition[Kept[i]] = i
            /\ i \in mRootNodesRefiled \/ Snapshot.filters[i] = rootFilter[Kept[i]]
      /\ \A u \in Elements(mRootNodesAppended) : mRootSnapshotPosition[u] < 0
  BY DEF IInv, QueuesOK
<1>4. ASSUME NEW i \in DOMAIN Kept, Kept[i] # None
      PROVE  /\ mRootSnapshotPosition'[Kept[i]] = i
             /\ i \in mRootNodesRefiled' \/ Snapshot.filters[i] = rootFilter'[Kept[i]]
  <2>1. CASE Kept[i] = t
    BY <1>2, <1>3, <1>4, <2>1
  <2>2. CASE Kept[i] # t
    BY <1>2, <1>3, <1>4, <2>2
  <2>3. QED
    BY <2>1, <2>2
<1>5. \A u \in Elements(mRootNodesAppended) : mRootSnapshotPosition'[u] < 0
  <2>1. Elements(mRootNodesAppended) \subseteq Triggers
    BY DEF IInv, TypeOK, Elements
  <2>2. QED
    BY <1>3, <2>1
<1>6. QED
  BY <1>1, <1>4, <1>5 DEF IInv, QueuesOK

LEMMA DeleteChildKeepsIInv ==
  ASSUME IInv, NEW t \in Triggers, DeleteChild(t)
  PROVE  IInv'
<1>1. /\ rootFilter \in [Triggers -> Filters] /\ mRootSnapshotPosition \in [Triggers -> Positions]
      /\ rootFilter' = [rootFilter EXCEPT ![t] = Visit]
      /\ mRootSnapshotPosition' = [mRootSnapshotPosition EXCEPT ![t] = NeverSnapshotted]
      /\ UNCHANGED <<mTriggerRootNodeList, snapshots, mpRootNodeSnapshot, passes,
                     mRootNodeSnapshotStale, mRootNodeSnapshotNeedsRebuild,
                     mRootNodesAppended, mRootNodesRemoved, mRootNodesRefiled>>
      /\ t \notin Elements(mTriggerRootNodeList)
  BY DEF DeleteChild, current, queues, IInv, TypeOK
<1>2. /\ rootFilter' \in [Triggers -> Filters] /\ mRootSnapshotPosition' \in [Triggers -> Positions]
      /\ mRootSnapshotPosition'[t] < 0
      /\ \A u \in Triggers \ {t} :
            rootFilter'[u] = rootFilter[u] /\ mRootSnapshotPosition'[u] = mRootSnapshotPosition[u]
  BY <1>1, RootSnapshotAssumption DEF Positions, NeverSnapshotted
<1>3. TypeOK'
  BY <1>1, <1>2 DEF IInv, TypeOK
<1>4. RootsOK'
  BY <1>1, <1>2 DEF IInv, RootsOK
<1>5. FreshOK'
  BY <1>1 DEF IInv, FreshOK
<1>6. QueuesOK'
  <2>1. mRootSnapshotPosition[t] < 0 /\ mRootSnapshotPosition[t] \in Int
    BY <1>1 DEF IInv, RootsOK, Positions, NeverSnapshotted, Dropped
  <2>2. ~(mRootSnapshotPosition[t] > 0)
    BY <2>1
  <2>3. QED
    BY <1>1, <1>2, <2>2, FiltersKeepQueues
<1>7. PinsOK'
  <2>1. ASSUME NEW n \in DOMAIN passes,
               NEW u \in Elements(snapshots[passes[n].snapshot].children) \ {None}
        PROVE  /\ mRootSnapshotPosition'[u] = mRootSnapshotPosition[u]
               /\ rootFilter'[u] = rootFilter[u]
    <3>1. u \in Triggers /\ u # t
      BY <2>1, PinnedAreTriggers DEF IInv, DeleteChild
    <3>2. QED
      BY <1>2, <3>1
  <2>2. QED
    BY <1>1, <2>1, PinsStay DEF IInv
<1>8. QED
  BY <1>3, <1>4, <1>5, <1>6, <1>7 DEF IInv

LEMMA RefileKeepsIInv ==
  ASSUME IInv, NEW t \in Triggers, NEW f \in Filters, Refile(t, f)
  PROVE  IInv'
<1> DEFINE position == mRootSnapshotPosition[t]
<1>1. /\ rootFilter \in [Triggers -> Filters] /\ mRootSnapshotPosition \in [Triggers -> Positions]
      /\ rootFilter' = [rootFilter EXCEPT ![t] = f]
      /\ UNCHANGED <<mTriggerRootNodeList, mRootSnapshotPosition, snapshots, mpRootNodeSnapshot,
                     mRootNodeSnapshotNeedsRebuild, mRootNodesAppended, mRootNodesRemoved>>
  BY DEF Refile, current, IInv, TypeOK
<1>2. /\ rootFilter' \in [Triggers -> Filters]
      /\ \A u \in Triggers \ {t} : rootFilter'[u] = rootFilter[u]
  BY <1>1
<1>3. position \in Int /\ position # 0 /\ (position > 0 => position \in Nat)
  BY <1>1 DEF Positions, NeverSnapshotted, Dropped
<1>4. passes \in Seq(PassRecords) /\ mRootNodesRefiled \subseteq Nat
  BY DEF IInv, TypeOK
<1>5. IF position = NeverSnapshotted
      THEN UNCHANGED <<mRootNodeSnapshotStale, mRootNodesRefiled, passes>>
      ELSE /\ passes' = [n \in DOMAIN passes |-> [passes[n] EXCEPT !.trusts = FALSE]]
           /\ IF position > 0
              THEN /\ mRootNodeSnapshotStale' = TRUE
                   /\ mRootNodesRefiled' =
                          IF mRootNodeSnapshotNeedsRebuild THEN mRootNodesRefiled
                          ELSE mRootNodesRefiled \union {position}
              ELSE UNCHANGED <<mRootNodeSnapshotStale, mRootNodesRefiled>>
  BY DEF Refile
<1>6. /\ mRootNodesRefiled' \subseteq Nat /\ mRootNodesRefiled \subseteq mRootNodesRefiled'
      /\ mRootNodeSnapshotStale' \in BOOLEAN
      /\ position > 0 => /\ mRootNodeSnapshotStale' = TRUE
                         /\ ~mRootNodeSnapshotNeedsRebuild => position \in mRootNodesRefiled'
      /\ ~(position > 0) => UNCHANGED <<mRootNodeSnapshotStale, mRootNodesRefiled>>
  <2>1. position = NeverSnapshotted => ~(position > 0)
    BY DEF NeverSnapshotted
  <2>2. mRootNodeSnapshotStale \in BOOLEAN
    BY DEF IInv, TypeOK
  <2> HIDE DEF position
  <2>3. QED
    BY <1>3, <1>4, <1>5, <2>1, <2>2
<1>7. /\ passes' \in Seq(PassRecords) /\ DOMAIN passes' = DOMAIN passes
      /\ \A n \in DOMAIN passes :
            /\ passes'[n].snapshot = passes[n].snapshot
            /\ passes'[n].trusts => passes[n].trusts /\ position = NeverSnapshotted
  <2>1. CASE UNCHANGED passes /\ position = NeverSnapshotted
    BY <1>4, <2>1
  <2>2. CASE passes' = [n \in DOMAIN passes |-> [passes[n] EXCEPT !.trusts = FALSE]]
    BY <1>4, <2>2, PassesDistrust
  <2>3. QED
    BY <1>5, <2>1, <2>2
<1>8. TypeOK'
  BY <1>1, <1>2, <1>6, <1>7 DEF IInv, TypeOK
<1>9. RootsOK'
  BY <1>1 DEF IInv, RootsOK
<1>10. FreshOK'
  <2>1. CASE position > 0
    BY <1>6, <2>1 DEF FreshOK
  <2>2. CASE ~(position > 0)
    BY <1>1, <1>6, <2>2 DEF IInv, FreshOK
  <2>3. QED
    BY <2>1, <2>2
<1>11. QueuesOK'
  BY <1>1, <1>2, <1>6, FiltersKeepQueues
<1>12. PinsOK'
  <2>1. ASSUME NEW n \in DOMAIN passes,
               NEW u \in Elements(snapshots[passes[n].snapshot].children) \ {None},
               passes'[n].trusts
        PROVE  rootFilter'[u] = rootFilter[u]
    <3>1. u \in Triggers /\ mRootSnapshotPosition[u] # NeverSnapshotted
      BY <2>1, PinnedAreTriggers DEF IInv
    <3>2. u # t
      BY <1>7, <2>1, <3>1
    <3>3. QED
      BY <1>2, <3>1, <3>2
  <2>2. QED
    BY <1>1, <1>7, <2>1, PinsStay DEF IInv
<1>13. QED
  BY <1>8, <1>9, <1>10, <1>11, <1>12 DEF IInv

-----------------------------------------------------------------------------
(***************************************************************************)
(* refreshRootNodeSnapshot().                                              *)
(***************************************************************************)
\* A snapshot that shows the root list as it is.
Shows(s) ==
    /\ s \in Snapshots
    /\ Without(s.children, {None}) = mTriggerRootNodeList
    /\ Len(s.filters) = Len(s.children)
    /\ \A i, j \in DOMAIN s.children :
          s.children[i] = s.children[j] /\ s.children[i] # None => i = j
    /\ \A i \in DOMAIN s.children :
          s.children[i] # None => s.filters[i] = rootFilter[s.children[i]]

LEMMA RebuiltShows ==
  ASSUME IInv
  PROVE  Shows(RebuiltSnapshot)
<1> DEFINE roots == mTriggerRootNodeList
           filters == [i \in DOMAIN roots |-> rootFilter[roots[i]]]
<1>1. roots \in Seq(Triggers) /\ Distinct(roots) /\ rootFilter \in [Triggers -> Filters]
  BY DEF IInv, TypeOK, RootsOK
<1>2. roots \in Seq(Slots) /\ None \notin Elements(roots)
  BY <1>1, RootSnapshotAssumption DEF Slots, Elements
<1>3. Without(roots, {None}) = roots
  <2>1. Elements(roots) \intersect {None} = {}
    BY <1>2
  <2>2. QED
    BY <1>2, <2>1, WithoutNone
<1>4. filters \in Seq(Filters) /\ Len(filters) = Len(roots)
  <2> HIDE DEF roots
  <2>1. Len(roots) \in Nat /\ DOMAIN roots = 1..Len(roots) /\ \A i \in 1..Len(roots) : roots[i] \in Triggers
    BY <1>1
  <2>2. filters \in [1..Len(roots) -> Filters]
    BY <1>1, <2>1
  <2> HIDE DEF filters
  <2>3. filters \in Seq(Filters) /\ DOMAIN filters = 1..Len(roots)
    BY <2>1, <2>2
  <2>4. Len(filters) \in Nat /\ 1..Len(filters) = 1..Len(roots)
    BY <2>3
  <2>5. QED
    BY <2>1, <2>3, <2>4
<1> DEFINE s == [children |-> roots, filters |-> filters, holes |-> 0]
<1>5. s.children = roots /\ s.filters = filters
  OBVIOUS
<1>6. s \in Snapshots
  <2> HIDE DEF roots, filters
  <2>1. QED
    BY <1>2, <1>4 DEF Snapshots
<1>7. \A i \in DOMAIN roots : filters[i] = rootFilter[roots[i]]
  OBVIOUS
<1>8. s = RebuiltSnapshot
  BY DEF RebuiltSnapshot
<1> HIDE DEF s, roots, filters
<1>9. Shows(s)
  BY <1>1, <1>3, <1>4, <1>5, <1>6, <1>7 DEF Shows, Distinct, roots
<1>10. QED
  BY <1>8, <1>9

\* Removals, refilings and additions, made in place, come to the same.
LEMMA PatchedShows ==
  ASSUME IInv, ~mRootNodeSnapshotNeedsRebuild
  PROVE  Shows(PatchedSnapshot)
<1> DEFINE added == mRootNodesAppended
           n == Len(Kept)
           m == Len(added)
           old == [i \in DOMAIN Kept |->
                      IF i \in mRootNodesRemoved THEN Visit
                      ELSE IF i \in mRootNodesRefiled /\ Kept[i] # None
                      THEN rootFilter[Kept[i]]
                      ELSE Snapshot.filters[i]]
           new == [i \in DOMAIN added |-> rootFilter[added[i]]]
<1>1. /\ added \in Seq(Triggers) /\ m \in Nat /\ DOMAIN added = 1..m
      /\ rootFilter \in [Triggers -> Filters]
      /\ mRootSnapshotPosition \in [Triggers -> Positions]
      /\ Cardinality(mRootNodesRemoved) \in Nat
  <2>1. added \in Seq(Triggers)
    BY DEF IInv, TypeOK
  <2>2. m \in Nat /\ DOMAIN added = 1..m
    <3> HIDE DEF added
    <3>1. QED
      BY <2>1
  <2>3. QED
    BY <2>1, <2>2, FS_CardinalityType DEF IInv, TypeOK
<1>2. /\ Kept \in Seq(Slots) /\ n = Len(Snapshot.children) /\ n \in Nat /\ DOMAIN Kept = 1..n
      /\ Snapshot.filters \in Seq(Filters) /\ Snapshot.holes \in Nat
  BY KeptType, CurrentType DEF IInv
<1>3. /\ Live \o added = mTriggerRootNodeList
      /\ \A t \in Elements(added) : mRootSnapshotPosition[t] < 0
      /\ Len(Snapshot.filters) = Len(Snapshot.children)
      /\ \A i \in DOMAIN Kept : Kept[i] # None =>
            /\ mRootSnapshotPosition[Kept[i]] = i
            /\ i \in mRootNodesRefiled \/ Snapshot.filters[i] = rootFilter[Kept[i]]
  BY DEF Live, IInv, QueuesOK
<1>4. /\ \A i \in 1..n : Kept[i] # None => Kept[i] \in Triggers
      /\ \A i \in 1..m : added[i] \in Triggers
  <2>1. \A i \in DOMAIN Kept : Kept[i] # None => Kept[i] \in Triggers
    BY RootsAreFiled, LiveSlots DEF IInv
  <2>2. \A i \in 1..m : added[i] \in Triggers
    <3> HIDE DEF added
    <3>1. QED
      BY <1>1
  <2>3. QED
    BY <1>2, <2>1, <2>2
<1>5. /\ PatchedSnapshot.children = Kept \o added
      /\ PatchedSnapshot.filters = old \o new
      /\ PatchedSnapshot.holes = Snapshot.holes + Cardinality(mRootNodesRemoved)
      /\ PatchedSnapshot = [children |-> PatchedSnapshot.children,
                            filters |-> PatchedSnapshot.filters,
                            holes |-> PatchedSnapshot.holes]
  BY DEF PatchedSnapshot, Kept
<1>6. \A i \in 1..n :
         /\ old[i] \in Filters
         /\ Kept[i] # None => old[i] = rootFilter[Kept[i]]
  <2>1. ASSUME NEW i \in 1..n
        PROVE  Snapshot.filters[i] \in Filters
    <3> DEFINE filters == Snapshot.filters
    <3>1. filters \in Seq(Filters) /\ Len(filters) = n
      BY <1>2, <1>3
    <3> HIDE DEF filters
    <3>2. filters[i] \in Filters
      BY <3>1
    <3>3. QED
      BY <3>2 DEF filters
  <2>2. \A i \in 1..n : Kept[i] # None => i \notin mRootNodesRemoved
    BY <1>2 DEF Kept
  <2>3. \A i \in 1..n : old[i] = IF i \in mRootNodesRemoved THEN Visit
                                 ELSE IF i \in mRootNodesRefiled /\ Kept[i] # None
                                 THEN rootFilter[Kept[i]]
                                 ELSE Snapshot.filters[i]
    BY <1>2
  <2> HIDE DEF old, n
  <2>4. ASSUME NEW i \in 1..n
        PROVE  old[i] \in Filters /\ (Kept[i] # None => old[i] = rootFilter[Kept[i]])
    <3>1. CASE i \in mRootNodesRemoved
      BY <2>2, <2>3, <3>1, RootSnapshotAssumption
    <3>2. CASE i \notin mRootNodesRemoved /\ i \in mRootNodesRefiled /\ Kept[i] # None
      <4>1. old[i] = rootFilter[Kept[i]] /\ Kept[i] \in Triggers
        BY <1>4, <2>3, <3>2
      <4>2. QED
        BY <1>1, <4>1
    <3>3. CASE i \notin mRootNodesRemoved /\ ~(i \in mRootNodesRefiled /\ Kept[i] # None)
      <4>1. old[i] = Snapshot.filters[i]
        BY <2>3, <3>3
      <4>2. Kept[i] # None => Snapshot.filters[i] = rootFilter[Kept[i]]
        BY <1>2, <1>3, <3>3
      <4>3. QED
        BY <2>1, <4>1, <4>2
    <3>4. QED
      BY <3>1, <3>2, <3>3
  <2>5. QED
    BY <2>4
<1>7. old \in Seq(Filters) /\ DOMAIN old = 1..n /\ Len(old) = n
  <2>1. DOMAIN old = 1..n /\ old = [i \in 1..n |-> old[i]]
    BY <1>2
  <2> HIDE DEF old
  <2>2. old \in [1..n -> Filters]
    BY <1>6, <2>1
  <2>3. old \in Seq(Filters)
    BY <1>2, <2>2
  <2>4. Len(old) \in Nat /\ 1..Len(old) = 1..n
    BY <2>1, <2>3
  <2>5. QED
    BY <1>2, <2>1, <2>3, <2>4
<1>8. /\ new \in Seq(Filters) /\ DOMAIN new = 1..m /\ Len(new) = m
      /\ \A i \in 1..m : new[i] = rootFilter[added[i]]
  <2>1. DOMAIN new = 1..m /\ \A i \in 1..m : new[i] = rootFilter[added[i]]
    BY <1>1
  <2>2. new \in [1..m -> Filters]
    BY <1>1, <1>4
  <2> HIDE DEF new
  <2>3. new \in Seq(Filters)
    BY <1>1, <2>2
  <2>4. Len(new) \in Nat /\ 1..Len(new) = 1..m
    BY <2>1, <2>3
  <2>5. QED
    BY <1>1, <2>1, <2>3, <2>4
<1> HIDE DEF old, new
<1>9. Without(Kept \o added, {None}) = mTriggerRootNodeList
  <2> DEFINE T == {None}
  <2>1. added \in Seq(Slots) /\ Elements(added) \intersect T = {}
    BY <1>1, RootSnapshotAssumption DEF Slots, Elements
  <2> HIDE DEF T
  <2>2. Without(Kept \o added, T) = Without(Kept, T) \o Without(added, T)
    BY <1>2, <2>1, WithoutConcat
  <2>3. Without(added, T) = added
    BY <2>1, WithoutNone
  <2>4. QED
    BY <1>3, <2>2, <2>3 DEF Live, T
<1> HIDE DEF added
<1>10. /\ Kept \o added \in Seq(Slots) /\ Len(Kept \o added) = n + m
       /\ DOMAIN (Kept \o added) = 1..(n + m)
       /\ \A i \in 1..n : (Kept \o added)[i] = Kept[i]
       /\ \A i \in 1..m : (Kept \o added)[n + i] = added[i]
  <2>1. added \in Seq(Slots)
    BY <1>1 DEF Slots
  <2>2. Kept \in Seq(Slots)
    BY <1>2
  <2> HIDE DEF n, m
  <2>3. /\ Kept \o added \in Seq(Slots) /\ Len(Kept \o added) = Len(Kept) + Len(added)
        /\ DOMAIN (Kept \o added) = 1..(Len(Kept) + Len(added))
        /\ \A i \in 1..Len(Kept) : (Kept \o added)[i] = Kept[i]
        /\ \A i \in 1..Len(added) : (Kept \o added)[Len(Kept) + i] = added[i]
    BY <2>1, <2>2, ConcatIs
  <2>4. QED
    BY <2>3 DEF n, m
<1>11. /\ old \o new \in Seq(Filters) /\ Len(old \o new) = n + m
       /\ \A i \in 1..n : (old \o new)[i] = old[i]
       /\ \A i \in 1..m : (old \o new)[n + i] = new[i]
  <2>1. old \in Seq(Filters) /\ new \in Seq(Filters)
    BY <1>7, <1>8
  <2>2. /\ old \o new \in Seq(Filters) /\ Len(old \o new) = Len(old) + Len(new)
        /\ \A i \in 1..Len(old) : (old \o new)[i] = old[i]
        /\ \A i \in 1..Len(new) : (old \o new)[Len(old) + i] = new[i]
    BY <2>1, ConcatIs
  <2>3. Len(old) = n /\ Len(new) = m
    BY <1>7, <1>8
  <2> HIDE DEF n, m
  <2>4. QED
    BY <2>2, <2>3
<1> DEFINE children == Kept \o added
           filters == old \o new
<1>12. /\ \A i \in 1..n : children[i] = Kept[i] /\ filters[i] = old[i]
       /\ \A i \in 1..m : children[n + i] = added[i] /\ filters[n + i] = new[i]
       /\ children \in Seq(Slots) /\ Len(children) = n + m /\ DOMAIN children = 1..(n + m)
       /\ filters \in Seq(Filters) /\ Len(filters) = n + m
  BY <1>10, <1>11
<1>13. PatchedSnapshot.children = children /\ PatchedSnapshot.filters = filters
  BY <1>5
<1> HIDE DEF children, filters, n, m
<1>14. PatchedSnapshot \in Snapshots
  <2>1. Snapshot.holes + Cardinality(mRootNodesRemoved) \in Nat
    BY <1>1, <1>2
  <2>2. QED
    BY <1>5, <1>12, <1>13, <2>1 DEF Snapshots
<1>15. \A i \in 1..(n + m) : i \in 1..n \/ (i - n \in 1..m /\ n + (i - n) = i)
  BY <1>1, <1>2
<1>16. ASSUME NEW i \in 1..(n + m), children[i] # None
       PROVE  filters[i] = rootFilter[children[i]]
  <2>1. CASE i \in 1..n
    BY <1>6, <1>12, <1>16, <2>1
  <2>2. CASE i - n \in 1..m /\ n + (i - n) = i
    BY <1>8, <1>12, <2>2
  <2>3. QED
    BY <1>15, <2>1, <2>2
<1>17. Distinct(added)
  <2>1. Live \in Seq(Slots) /\ added \in Seq(Slots) /\ Len(Live) \in Nat
    BY <1>1, LiveSlots DEF IInv, Slots
  <2>2. Distinct(Live \o added)
    BY <1>3 DEF IInv, RootsOK
  <2> HIDE DEF Live
  <2>3. \A i, j \in 1..m : added[i] = added[j] => i = j
    <3>1. \A i \in 1..m : /\ Len(Live) + i \in DOMAIN (Live \o added)
                          /\ (Live \o added)[Len(Live) + i] = added[i]
      BY <1>1, <2>1
    <3>2. \A i, j \in 1..m : Len(Live) + i = Len(Live) + j => i = j
      BY <2>1
    <3>3. QED
      BY <2>2, <3>1, <3>2 DEF Distinct
  <2>4. QED
    BY <1>1, <2>3 DEF Distinct
<1>18. ASSUME NEW i \in 1..(n + m), NEW j \in 1..(n + m),
              children[i] = children[j], children[i] # None
       PROVE  i = j
  <2>1. ASSUME NEW k \in 1..n, Kept[k] # None
        PROVE  mRootSnapshotPosition[Kept[k]] = k /\ ~(k < 0)
    BY <1>2, <1>3, <2>1
  <2>2. \A k \in 1..m : mRootSnapshotPosition[added[k]] < 0
    BY <1>1, <1>3 DEF Elements
  <2>3. CASE i \in 1..n /\ j \in 1..n
    BY <1>12, <1>18, <2>1, <2>3
  <2>4. CASE i \in 1..n /\ j - n \in 1..m /\ n + (j - n) = j
    BY <1>12, <1>18, <2>1, <2>2, <2>4
  <2>5. CASE j \in 1..n /\ i - n \in 1..m /\ n + (i - n) = i
    BY <1>12, <1>18, <2>1, <2>2, <2>5
  <2>6. CASE i - n \in 1..m /\ n + (i - n) = i /\ j - n \in 1..m /\ n + (j - n) = j
    <3>1. i - n = j - n
      BY <1>1, <1>12, <1>17, <1>18, <2>6 DEF Distinct
    <3>2. QED
      BY <2>6, <3>1
  <2>7. QED
    BY <1>15, <2>3, <2>4, <2>5, <2>6
<1>19. Without(children, {None}) = mTriggerRootNodeList
  BY <1>9 DEF children, added
<1>20. QED
  BY <1>12, <1>13, <1>14, <1>16, <1>18, <1>19 DEF Shows

\* Filing the slots of a snapshot: each trigger in one knows where it is.
LEMMA FiledIs ==
  ASSUME TypeOK, NEW s, Shows(s)
  PROVE  /\ Filed(s.children) \in [Triggers -> Positions]
         /\ \A i \in DOMAIN s.children :
               s.children[i] # None => Filed(s.children)[s.children[i]] = i
         /\ \A t \in Triggers :
               \/ Filed(s.children)[t] > 0
               \/ Filed(s.children)[t] = mRootSnapshotPosition[t] /\ t \notin Elements(s.children)
<1> DEFINE slots == s.children
<1>1. slots \in Seq(Slots)
  BY DEF Shows, Snapshots
<1>2. \A i, j \in DOMAIN slots : slots[i] = slots[j] /\ slots[i] # None => i = j
  BY DEF Shows
<1> HIDE DEF slots
<1>3. /\ DOMAIN slots \subseteq Nat \ {0}
      /\ \A i \in DOMAIN slots : slots[i] # None => slots[i] \in Triggers
  BY <1>1 DEF Slots
<1>4. mRootSnapshotPosition \in [Triggers -> Positions]
  BY DEF TypeOK
<1>5. ASSUME NEW t \in Triggers
      PROVE  IF t \in Elements(slots)
             THEN Filed(slots)[t] \in DOMAIN slots /\ slots[Filed(slots)[t]] = t
             ELSE Filed(slots)[t] = mRootSnapshotPosition[t]
  <2>1. CASE t \in Elements(slots)
    <3>1. \E i \in DOMAIN slots : slots[i] = t
      BY <2>1 DEF Elements
    <3>2. Filed(slots)[t] = CHOOSE i \in DOMAIN slots : slots[i] = t
      BY <2>1 DEF Filed
    <3>3. QED
      BY <2>1, <3>1, <3>2
  <2>2. CASE t \notin Elements(slots)
    BY <2>2 DEF Filed
  <2>3. QED
    BY <2>1, <2>2
<1>6. ASSUME NEW t \in Triggers
      PROVE  /\ Filed(slots)[t] \in Positions
             /\ \/ Filed(slots)[t] > 0
                \/ Filed(slots)[t] = mRootSnapshotPosition[t] /\ t \notin Elements(slots)
  <2>1. CASE t \in Elements(slots)
    <3>1. Filed(slots)[t] \in Nat \ {0}
      BY <1>3, <1>5, <2>1
    <3>2. QED
      BY <3>1 DEF Positions
  <2>2. CASE t \notin Elements(slots)
    BY <1>4, <1>5, <2>2
  <2>3. QED
    BY <2>1, <2>2
<1>7. Filed(slots) \in [Triggers -> Positions]
  BY <1>6 DEF Filed
<1>8. ASSUME NEW i \in DOMAIN slots, slots[i] # None
      PROVE  Filed(slots)[slots[i]] = i
  <2> DEFINE t == slots[i]
  <2>1. t \in Triggers /\ t \in Elements(slots) /\ t # None
    BY <1>3, <1>8, RootSnapshotAssumption DEF Elements
  <2> HIDE DEF t
  <2>2. Filed(slots)[t] \in DOMAIN slots /\ slots[Filed(slots)[t]] = t
    BY <1>5, <2>1
  <2>3. Filed(slots)[t] = i
    BY <1>2, <2>1, <2>2 DEF t
  <2>4. QED
    BY <2>3 DEF t
<1>9. QED
  BY <1>6, <1>7, <1>8 DEF slots

\* There is one object more than there are passes to pin one.
LEMMA FreeAddress ==
  ASSUME TypeOK, Len(passes) < MaxProcessingDepth
  PROVE  \E a \in Addresses : ~Pinned(a)
<1>1. passes \in Seq(PassRecords) /\ Len(passes) \in Nat /\ DOMAIN passes = 1..Len(passes)
  <2>1. passes \in Seq(PassRecords)
    BY DEF TypeOK
  <2>2. QED
    BY <2>1
<1>2. MaxProcessingDepth \in Nat
  BY RootSnapshotAssumption
<1> DEFINE holder == [a \in Addresses |-> CHOOSE n \in DOMAIN passes : passes[n].snapshot = a]
<1>3. SUFFICES ASSUME \A a \in Addresses : Pinned(a) PROVE FALSE
  OBVIOUS
<1>4. \A a \in Addresses : holder[a] \in DOMAIN passes /\ passes[holder[a]].snapshot = a
  BY <1>3 DEF Pinned
<1>5. holder \in [Addresses -> 1..Len(passes)]
  BY <1>1, <1>4
<1> HIDE DEF holder
<1>6. holder \in Injection(Addresses, 1..Len(passes))
  BY <1>4, <1>5 DEF Injection, IsInjective
<1>7. IsFiniteSet(1..Len(passes)) /\ Cardinality(1..Len(passes)) = Len(passes)
  BY <1>1, FS_Interval
<1>8. Cardinality(Addresses) = MaxProcessingDepth + 1
  BY <1>2, FS_Interval DEF Addresses
<1>9. Cardinality(Addresses) <= Cardinality(1..Len(passes))
  BY <1>6, <1>7, FS_Injection
<1>10. QED
  BY <1>1, <1>2, <1>7, <1>8, <1>9

\* The object that a refresh patches or fills is pinned by no pass.
LEMMA RefreshTakesUnpinned ==
  ASSUME IInv, Len(passes) < MaxProcessingDepth, RefreshRootNodeSnapshot
  PROVE  /\ mpRootNodeSnapshot' \in Addresses /\ ~Pinned(mpRootNodeSnapshot')
         /\ snapshots' \in [Addresses -> Snapshots]
         /\ \A a \in Addresses \ {mpRootNodeSnapshot'} : snapshots'[a] = snapshots[a]
         /\ \E s : /\ Shows(s) /\ Snapshot' = s
                   /\ mRootSnapshotPosition' = Filed(s.children)
<1> DEFINE s == IF CanPatch THEN PatchedSnapshot ELSE RebuiltSnapshot
<1>1. mpRootNodeSnapshot' \in Addresses /\ ~Pinned(mpRootNodeSnapshot')
  <2>1. (CHOOSE a \in Addresses : ~Pinned(a)) \in Addresses
        /\ ~Pinned(CHOOSE a \in Addresses : ~Pinned(a))
    BY FreeAddress DEF IInv
  <2>2. CASE Pinned(mpRootNodeSnapshot) /\ ~CanPatch
    BY <2>1, <2>2 DEF RefreshRootNodeSnapshot
  <2>3. CASE ~(Pinned(mpRootNodeSnapshot) /\ ~CanPatch)
    <3>1. ~Pinned(mpRootNodeSnapshot)
      BY <2>3 DEF CanPatch
    <3>2. QED
      BY <2>3, <3>1 DEF RefreshRootNodeSnapshot, IInv, TypeOK
  <2>4. QED
    BY <2>2, <2>3
<1>2. Shows(s)
  <2>1. CASE CanPatch
    BY <2>1, PatchedShows DEF CanPatch
  <2>2. CASE ~CanPatch
    BY <2>2, RebuiltShows
  <2>3. QED
    BY <2>1, <2>2
<1>3. snapshots' = [snapshots EXCEPT ![mpRootNodeSnapshot'] = s]
  BY DEF RefreshRootNodeSnapshot
<1>4. s \in Snapshots /\ snapshots \in [Addresses -> Snapshots]
  BY <1>2 DEF Shows, IInv, TypeOK
<1>5. mRootSnapshotPosition' = Filed(snapshots'[mpRootNodeSnapshot'].children)
  BY DEF RefreshRootNodeSnapshot
<1> HIDE DEF s
<1>6. snapshots' \in [Addresses -> Snapshots] /\ snapshots'[mpRootNodeSnapshot'] = s
      /\ \A a \in Addresses \ {mpRootNodeSnapshot'} : snapshots'[a] = snapshots[a]
  BY <1>1, <1>3, <1>4
<1>7. Snapshot' = s /\ mRootSnapshotPosition' = Filed(s.children)
  BY <1>5, <1>6 DEF Snapshot
<1>8. QED
  BY <1>1, <1>2, <1>6, <1>7

\* What a pass would pin now if it found the snapshot not stale.
ShowsFiled ==
    /\ Without(Snapshot.children, {None}) = mTriggerRootNodeList
    /\ \A i \in DOMAIN Snapshot.children : Snapshot.children[i] # None =>
          /\ mRootSnapshotPosition[Snapshot.children[i]] = i
          /\ Snapshot.filters[i] = rootFilter[Snapshot.children[i]]

LEMMA FreshShows ==
  ASSUME IInv, ~mRootNodeSnapshotStale
  PROVE  ShowsFiled
<1>1. /\ ~mRootNodeSnapshotNeedsRebuild /\ mRootNodesAppended = <<>>
      /\ mRootNodesRemoved = {} /\ mRootNodesRefiled = {}
  BY DEF IInv, FreshOK
<1> DEFINE slots == Snapshot.children
<1>2. slots \in Seq(Slots)
  BY CurrentType DEF IInv
<1> HIDE DEF slots
<1>3. slots = [i \in DOMAIN slots |-> IF i \in {} THEN None ELSE slots[i]]
  BY <1>2
<1>4. Kept = Snapshot.children
  BY <1>1, <1>3 DEF Kept, slots
<1>5. Live \in Seq(Slots) /\ Live \o <<>> = mTriggerRootNodeList
  BY <1>1, LiveSlots DEF Live, IInv, QueuesOK
<1>6. Live = mTriggerRootNodeList
  <2> HIDE DEF Live
  <2>1. QED
    BY <1>5
<1>7. QED
  BY <1>1, <1>4, <1>6 DEF Live, ShowsFiled, IInv, QueuesOK

-----------------------------------------------------------------------------
(***************************************************************************)
(* Passes.                                                                 *)
(***************************************************************************)
\* A pass that begins pins a snapshot that shows the root list.
Starts(a) == passes' = Append(passes, [snapshot |-> a, position |-> 0, trusts |-> TRUE])

LEMMA PassStarted ==
  ASSUME TypeOK, NEW a \in Addresses, Starts(a)
  PROVE  /\ passes' \in Seq(PassRecords) /\ DOMAIN passes = 1..Len(passes)
         /\ DOMAIN passes' = DOMAIN passes \union {Len(passes) + 1}
         /\ \A n \in DOMAIN passes : passes'[n] = passes[n]
         /\ passes'[Len(passes) + 1].snapshot = a
<1> DEFINE pass == [snapshot |-> a, position |-> 0, trusts |-> TRUE]
<1>1. passes \in Seq(PassRecords)
  BY DEF TypeOK
<1>2. pass \in PassRecords /\ pass.snapshot = a
  BY DEF PassRecords
<1>3. passes' = Append(passes, pass)
  BY DEF Starts
<1> HIDE DEF pass
<1>4. /\ Len(passes) \in Nat /\ DOMAIN passes = 1..Len(passes)
      /\ Append(passes, pass) \in Seq(PassRecords)
      /\ DOMAIN Append(passes, pass) = 1..(Len(passes) + 1)
      /\ \A n \in 1..Len(passes) : Append(passes, pass)[n] = passes[n]
      /\ Append(passes, pass)[Len(passes) + 1] = pass
  BY <1>1, <1>2
<1>5. 1..(Len(passes) + 1) = 1..Len(passes) \union {Len(passes) + 1}
  BY <1>4
<1>6. QED
  BY <1>2, <1>3, <1>4, <1>5

\* What is pinned stays pinned when a pass begins, and the new one pins a.
LEMMA StartingKeepsPins ==
  ASSUME TypeOK, PinsOK, NEW a \in Addresses, Starts(a),
         \A n \in DOMAIN passes :
            snapshots'[passes[n].snapshot] = snapshots[passes[n].snapshot],
         UNCHANGED rootFilter,
         \A t \in Triggers : mRootSnapshotPosition[t] # NeverSnapshotted =>
            mRootSnapshotPosition'[t] # NeverSnapshotted,
         \A i \in DOMAIN snapshots'[a].children : snapshots'[a].children[i] # None =>
            /\ mRootSnapshotPosition'[snapshots'[a].children[i]] # NeverSnapshotted
            /\ snapshots'[a].filters[i] = rootFilter[snapshots'[a].children[i]]
  PROVE  PinsOK'
<1>1. /\ DOMAIN passes' = DOMAIN passes \union {Len(passes) + 1}
      /\ \A n \in DOMAIN passes : passes'[n] = passes[n]
      /\ passes'[Len(passes) + 1].snapshot = a
  BY PassStarted
<1>2. SUFFICES ASSUME NEW n \in DOMAIN passes',
                      NEW i \in DOMAIN snapshots'[passes'[n].snapshot].children,
                      snapshots'[passes'[n].snapshot].children[i] # None
               PROVE  LET pinned == snapshots'[passes'[n].snapshot] IN
                      /\ mRootSnapshotPosition'[pinned.children[i]] # NeverSnapshotted
                      /\ pinned.filters[i] = rootFilter'[pinned.children[i]] \/ ~passes'[n].trusts
  BY DEF PinsOK
<1>3. CASE n \in DOMAIN passes
  <2> DEFINE pinned == snapshots[passes[n].snapshot]
  <2>1. passes'[n] = passes[n] /\ snapshots'[passes'[n].snapshot] = pinned
    BY <1>1, <1>3
  <2>2. /\ mRootSnapshotPosition[pinned.children[i]] # NeverSnapshotted
        /\ passes[n].trusts => pinned.filters[i] = rootFilter[pinned.children[i]]
    BY <1>2, <1>3, <2>1 DEF PinsOK
  <2>3. pinned.children[i] \in Triggers
    <3>1. pinned.children[i] \in Elements(pinned.children) \ {None}
      BY <1>2, <2>1 DEF Elements
    <3>2. QED
      BY <1>3, <3>1, PinnedAreTriggers
  <2> HIDE DEF pinned
  <2>4. QED
    BY <2>1, <2>2, <2>3
<1>4. CASE n = Len(passes) + 1
  BY <1>1, <1>2, <1>4
<1>5. QED
  BY <1>1, <1>3, <1>4

LEMMA FreshBeginKeepsIInv ==
  ASSUME IInv, BeginPass, ~mRootNodeSnapshotStale
  PROVE  IInv' /\ UNCHANGED snapshots
<1> DEFINE a == mpRootNodeSnapshot
<1>1. /\ UNCHANGED <<mTriggerRootNodeList, rootFilter, mRootSnapshotPosition, snapshots,
                     mpRootNodeSnapshot, mRootNodeSnapshotStale, mRootNodeSnapshotNeedsRebuild,
                     mRootNodesAppended, mRootNodesRemoved, mRootNodesRefiled>>
      /\ Starts(a)
  BY DEF BeginPass, current, queues, Starts
<1>2. a \in Addresses
  BY DEF IInv, TypeOK
<1>3. TypeOK'
  BY <1>1, <1>2, PassStarted DEF IInv, TypeOK
<1>4. Snapshot' = Snapshot /\ Kept' = Kept
  BY <1>1, KeptStays
<1>5. RootsOK' /\ FreshOK' /\ QueuesOK'
  BY <1>1, <1>4 DEF IInv, RootsOK, FreshOK, QueuesOK
<1>6. PinsOK'
  <2>1. \A i \in DOMAIN snapshots[a].children : snapshots[a].children[i] # None =>
           /\ mRootSnapshotPosition[snapshots[a].children[i]] # NeverSnapshotted
           /\ snapshots[a].filters[i] = rootFilter[snapshots[a].children[i]]
    <3>1. ShowsFiled
      BY FreshShows
    <3>2. \A i \in DOMAIN Snapshot.children : i # NeverSnapshotted
      BY CurrentType DEF IInv, NeverSnapshotted
    <3>3. QED
      BY <3>1, <3>2 DEF ShowsFiled, Snapshot
  <2>2. QED
    BY <1>1, <1>2, <2>1, StartingKeepsPins DEF IInv
<1>7. QED
  BY <1>1, <1>3, <1>5, <1>6 DEF IInv

LEMMA StaleBeginKeepsIInv ==
  ASSUME IInv, BeginPass, mRootNodeSnapshotStale
  PROVE  /\ IInv'
         /\ \A n \in DOMAIN passes :
               snapshots'[passes[n].snapshot] = snapshots[passes[n].snapshot]
<1> DEFINE a == mpRootNodeSnapshot'
<1>1. /\ Len(passes) < MaxProcessingDepth /\ RefreshRootNodeSnapshot
      /\ UNCHANGED <<mTriggerRootNodeList, rootFilter>> /\ Starts(a)
  BY DEF BeginPass, Starts
<1>2. /\ mRootNodesAppended' = <<>> /\ mRootNodesRemoved' = {} /\ mRootNodesRefiled' = {}
      /\ mRootNodeSnapshotNeedsRebuild' = FALSE /\ mRootNodeSnapshotStale' = FALSE
  BY <1>1 DEF RefreshRootNodeSnapshot
<1>3. /\ a \in Addresses /\ ~Pinned(a) /\ snapshots' \in [Addresses -> Snapshots]
      /\ \A b \in Addresses \ {a} : snapshots'[b] = snapshots[b]
  BY <1>1, RefreshTakesUnpinned
<1>4. PICK s : Shows(s) /\ Snapshot' = s /\ mRootSnapshotPosition' = Filed(s.children)
  BY <1>1, RefreshTakesUnpinned
<1>5. snapshots'[a] = s
  BY <1>4 DEF Snapshot
<1>6. /\ mRootSnapshotPosition' \in [Triggers -> Positions]
      /\ \A i \in DOMAIN s.children :
            s.children[i] # None => mRootSnapshotPosition'[s.children[i]] = i
      /\ \A t \in Triggers :
            \/ mRootSnapshotPosition'[t] > 0
            \/ mRootSnapshotPosition'[t] = mRootSnapshotPosition[t] /\ t \notin Elements(s.children)
  BY <1>4, FiledIs DEF IInv
<1>7. /\ s \in Snapshots /\ s.children \in Seq(Slots)
      /\ Without(s.children, {None}) = mTriggerRootNodeList
      /\ Len(s.filters) = Len(s.children)
      /\ \A i \in DOMAIN s.children :
            s.children[i] # None => s.filters[i] = rootFilter[s.children[i]]
  BY <1>4 DEF Shows, Snapshots
<1> HIDE DEF a
<1>8. \A n \in DOMAIN passes :
         snapshots'[passes[n].snapshot] = snapshots[passes[n].snapshot]
  <2>1. \A n \in DOMAIN passes : passes[n].snapshot \in Addresses
    <3>1. \A n \in DOMAIN passes : passes[n] \in PassRecords
      BY DEF IInv, TypeOK
    <3>2. QED
      BY <3>1 DEF PassRecords
  <2>2. QED
    BY <1>3, <2>1 DEF Pinned
<1>9. TypeOK'
  <2>1. <<>> \in Seq(Triggers) /\ IsFiniteSet({})
    BY FS_EmptySet
  <2>2. passes' \in Seq(PassRecords)
    BY <1>1, <1>3, PassStarted DEF IInv
  <2>3. mpRootNodeSnapshot' \in Addresses
    BY <1>3 DEF a
  <2>4. QED
    BY <1>1, <1>2, <1>3, <1>6, <2>1, <2>2, <2>3 DEF IInv, TypeOK
<1>10. RootsOK'
  <2>1. ASSUME NEW t \in Triggers \ Elements(mTriggerRootNodeList)
        PROVE  mRootSnapshotPosition'[t] < 0
    <3>1. Elements(mTriggerRootNodeList) = Elements(s.children) \ {None}
      BY <1>7, WithoutIs
    <3>2. t \notin Elements(s.children)
      BY <3>1, RootSnapshotAssumption
    <3>3. mRootSnapshotPosition[t] < 0
      BY DEF IInv, RootsOK
    <3>4. ~(mRootSnapshotPosition'[t] > 0)
      <4>1. t \in Elements(s.children) \/ Filed(s.children)[t] = mRootSnapshotPosition[t]
        BY DEF Filed
      <4>2. mRootSnapshotPosition'[t] = mRootSnapshotPosition[t]
        BY <1>4, <3>2, <4>1
      <4>3. mRootSnapshotPosition[t] \in Int
        BY DEF IInv, TypeOK, Positions, NeverSnapshotted, Dropped
      <4>4. QED
        BY <3>3, <4>2, <4>3
    <3>5. QED
      BY <1>6, <3>3, <3>4
  <2>2. QED
    BY <1>1, <2>1 DEF IInv, RootsOK
<1>11. Kept' = s.children
  <2>1. Kept' = [i \in DOMAIN s.children |-> IF i \in {} THEN None ELSE s.children[i]]
    BY <1>2, <1>4 DEF Kept
  <2>2. s.children = [i \in DOMAIN s.children |-> s.children[i]]
    <3> DEFINE slots == s.children
    <3>1. slots \in Seq(Slots)
      BY <1>7
    <3> HIDE DEF slots
    <3>2. slots = [i \in DOMAIN slots |-> slots[i]]
      BY <3>1
    <3>3. QED
      BY <3>2 DEF slots
  <2>3. QED
    BY <2>1, <2>2
<1>12. QueuesOK'
  <2>1. Without(Kept', {None}) \o mRootNodesAppended' = mTriggerRootNodeList'
    <3>1. mTriggerRootNodeList \in Seq(Triggers)
      BY DEF IInv, TypeOK
    <3>2. mTriggerRootNodeList \o <<>> = mTriggerRootNodeList
      BY <3>1
    <3>3. QED
      BY <1>1, <1>2, <1>7, <1>11, <3>2
  <2>2. Elements(mRootNodesAppended') = {}
    BY <1>2 DEF Elements
  <2>3. QED
    BY <1>1, <1>4, <1>6, <1>7, <1>11, <2>1, <2>2 DEF QueuesOK
<1>13. FreshOK'
  BY <1>2 DEF FreshOK
<1>14. PinsOK'
  <2>1. \A t \in Triggers : mRootSnapshotPosition[t] # NeverSnapshotted =>
           mRootSnapshotPosition'[t] # NeverSnapshotted
    BY <1>6 DEF NeverSnapshotted
  <2>2. \A i \in DOMAIN s.children : i # NeverSnapshotted
    <3> DEFINE slots == s.children
    <3>1. slots \in Seq(Slots)
      BY <1>7
    <3> HIDE DEF slots
    <3>2. \A i \in DOMAIN slots : i # NeverSnapshotted
      BY <3>1 DEF NeverSnapshotted
    <3>3. QED
      BY <3>2 DEF slots
  <2>3. \A i \in DOMAIN snapshots'[a].children : snapshots'[a].children[i] # None =>
           /\ mRootSnapshotPosition'[snapshots'[a].children[i]] # NeverSnapshotted
           /\ snapshots'[a].filters[i] = rootFilter[snapshots'[a].children[i]]
    BY <1>5, <1>6, <1>7, <2>2 DEF a
  <2>4. QED
    BY <1>1, <1>3, <1>8, <2>1, <2>3, StartingKeepsPins DEF IInv
<1>15. QED
  BY <1>8, <1>9, <1>10, <1>12, <1>13, <1>14 DEF IInv

LEMMA BeginKeepsIInv ==
  ASSUME IInv, BeginPass
  PROVE  /\ IInv'
         /\ \A n \in DOMAIN passes :
               snapshots'[passes[n].snapshot] = snapshots[passes[n].snapshot]
<1>1. CASE mRootNodeSnapshotStale
  BY <1>1, StaleBeginKeepsIInv
<1>2. CASE ~mRootNodeSnapshotStale
  BY <1>2, FreshBeginKeepsIInv
<1>3. QED
  BY <1>1, <1>2

\* A step that leaves the roots, the filters, the slots and the queues alone.
LEMMA UntouchedKeepsIInv ==
  ASSUME IInv, TypeOK', PinsOK', Snapshot' = Snapshot,
         UNCHANGED <<mTriggerRootNodeList, rootFilter, mRootSnapshotPosition, queues>>
  PROVE  IInv'
<1>1. Kept' = Kept
  BY DEF Kept, queues
<1>2. RootsOK' /\ FreshOK' /\ QueuesOK'
  BY <1>1 DEF queues, IInv, RootsOK, FreshOK, QueuesOK
<1>3. QED
  BY <1>2 DEF IInv

LEMMA VisitKeepsIInv ==
  ASSUME IInv, VisitRoot
  PROVE  IInv'
<1>1. passes \in Seq(PassRecords) /\ passes # <<>>
  BY DEF VisitRoot, IInv, TypeOK
<1>2. UNCHANGED <<mTriggerRootNodeList, rootFilter, mRootSnapshotPosition, snapshots,
                  mpRootNodeSnapshot, queues>>
  BY DEF VisitRoot, current
<1> DEFINE top == Len(passes)
<1>3. top \in DOMAIN passes /\ passes[top] \in PassRecords
  BY <1>1
<1>4. PICK i \in DOMAIN snapshots[passes[top].snapshot].children :
         passes' = [passes EXCEPT ![top].position = i]
  BY DEF VisitRoot
<1>5. i \in Nat
  <2> DEFINE slots == snapshots[passes[top].snapshot].children
  <2>1. passes[top].snapshot \in Addresses
    BY <1>3 DEF PassRecords
  <2>2. snapshots[passes[top].snapshot] \in Snapshots
    BY <2>1 DEF IInv, TypeOK
  <2>3. slots \in Seq(Slots) /\ i \in DOMAIN slots
    BY <1>4, <2>2 DEF Snapshots
  <2> HIDE DEF slots
  <2>4. QED
    BY <2>3
<1> DEFINE moved == [passes[top] EXCEPT !.position = i]
<1>6. /\ moved \in PassRecords /\ moved.snapshot = passes[top].snapshot
      /\ moved.trusts = passes[top].trusts
  BY <1>3, <1>5 DEF PassRecords
<1>7. passes' = [passes EXCEPT ![top] = moved]
  BY <1>4
<1> HIDE DEF moved, top
<1>8. /\ passes' \in Seq(PassRecords) /\ DOMAIN passes' = DOMAIN passes
      /\ \A n \in DOMAIN passes : passes'[n] = IF n = top THEN moved ELSE passes[n]
  BY <1>1, <1>3, <1>6, <1>7
<1>9. TypeOK'
  BY <1>2, <1>8 DEF IInv, TypeOK, queues
<1>10. PinsOK'
  <2>1. \A n \in DOMAIN passes :
           passes'[n].snapshot = passes[n].snapshot /\ passes'[n].trusts = passes[n].trusts
    BY <1>6, <1>8
  <2>2. QED
    BY <1>2, <1>8, <2>1, PinsStay DEF IInv
<1>11. Snapshot' = Snapshot
  BY <1>2, KeptStays
<1>12. QED
  BY <1>2, <1>9, <1>10, <1>11, UntouchedKeepsIInv

\* The outer passes go on with what they pinned, and the current snapshot stays.
LEMMA EndKeepsIInv ==
  ASSUME IInv, EndPass
  PROVE  /\ IInv'
         /\ \A n \in DOMAIN passes \intersect DOMAIN passes' :
               snapshots'[passes[n].snapshot] = snapshots[passes[n].snapshot]
<1>1. passes \in Seq(PassRecords) /\ passes # <<>>
  BY DEF EndPass, IInv, TypeOK
<1>2. /\ passes' = SubSeq(passes, 1, Len(passes) - 1)
      /\ snapshots' = [a \in Addresses |->
                          IF a = mpRootNodeSnapshot \/ Pinned(a)' THEN snapshots[a]
                                                                 ELSE EmptySnapshot]
      /\ UNCHANGED <<mTriggerRootNodeList, rootFilter, mRootSnapshotPosition,
                     mpRootNodeSnapshot, queues>>
  BY DEF EndPass
<1> DEFINE m == Len(passes) - 1
<1>3. Len(passes) \in Nat /\ DOMAIN passes = 1..Len(passes) /\ m \in Nat /\ m <= Len(passes)
  BY <1>1
<1>4. /\ passes' \in Seq(PassRecords) /\ Len(passes') = m
      /\ \A n \in 1..m : passes'[n] = passes[n]
  <2>1. passes' = SubSeq(passes, 1, m)
    BY <1>2
  <2> HIDE DEF m
  <2>2. QED
    BY <1>1, <1>3, <2>1, HeadIs
<1>5. DOMAIN passes' = 1..m /\ DOMAIN passes' \subseteq DOMAIN passes
  BY <1>3, <1>4
<1> HIDE DEF m
<1>6. /\ snapshots \in [Addresses -> Snapshots] /\ mpRootNodeSnapshot \in Addresses
      /\ \A n \in DOMAIN passes : passes[n].snapshot \in Addresses
  <2>1. \A n \in DOMAIN passes : passes[n] \in PassRecords
    BY <1>1
  <2>2. QED
    BY <2>1 DEF IInv, TypeOK, PassRecords
<1>7. EmptySnapshot \in Snapshots
  <2>1. <<>> \in Seq(Slots) /\ <<>> \in Seq(Filters)
    OBVIOUS
  <2>2. QED
    BY <2>1 DEF EmptySnapshot, Snapshots
<1>8. snapshots' \in [Addresses -> Snapshots]
  BY <1>2, <1>6, <1>7
<1>9. ASSUME NEW n \in DOMAIN passes'
      PROVE  /\ passes'[n] = passes[n]
             /\ snapshots'[passes[n].snapshot] = snapshots[passes[n].snapshot]
  <2>1. passes'[n] = passes[n] /\ passes[n].snapshot \in Addresses
    BY <1>4, <1>5, <1>6
  <2>2. Pinned(passes[n].snapshot)'
    BY <2>1 DEF Pinned
  <2>3. QED
    BY <1>2, <2>1, <2>2
<1>10. TypeOK'
  BY <1>2, <1>4, <1>8 DEF IInv, TypeOK, queues
<1>11. Snapshot' = Snapshot
  BY <1>2, <1>6 DEF Snapshot
<1>12. PinsOK'
  <2>1. SUFFICES ASSUME NEW n \in DOMAIN passes',
                        NEW i \in DOMAIN snapshots'[passes'[n].snapshot].children,
                        snapshots'[passes'[n].snapshot].children[i] # None
                 PROVE  LET pinned == snapshots'[passes'[n].snapshot] IN
                        /\ mRootSnapshotPosition'[pinned.children[i]] # NeverSnapshotted
                        /\ passes'[n].trusts =>
                              pinned.filters[i] = rootFilter'[pinned.children[i]]
    BY DEF PinsOK
  <2>2. n \in DOMAIN passes /\ passes'[n] = passes[n]
        /\ snapshots'[passes'[n].snapshot] = snapshots[passes[n].snapshot]
    BY <1>5, <1>9
  <2> DEFINE pinned == snapshots[passes[n].snapshot]
  <2>3. /\ snapshots'[passes'[n].snapshot] = pinned /\ passes'[n].trusts = passes[n].trusts
        /\ i \in DOMAIN pinned.children /\ pinned.children[i] # None
    BY <2>1, <2>2
  <2>4. /\ mRootSnapshotPosition[pinned.children[i]] # NeverSnapshotted
        /\ passes[n].trusts => pinned.filters[i] = rootFilter[pinned.children[i]]
    BY <2>2, <2>3 DEF IInv, PinsOK
  <2> HIDE DEF pinned
  <2>5. QED
    BY <1>2, <2>3, <2>4
<1>13. IInv'
  BY <1>2, <1>10, <1>11, <1>12, UntouchedKeepsIInv
<1>14. QED
  BY <1>9, <1>13

-----------------------------------------------------------------------------
(***************************************************************************)
(* The theorems.                                                           *)
(***************************************************************************)
LEMMA InitEstablishesIInv == Init => IInv
<1> SUFFICES ASSUME Init PROVE IInv
  OBVIOUS
<1>1. /\ <<>> \in Seq(Triggers) /\ <<>> \in Seq(Slots) /\ <<>> \in Seq(Filters)
      /\ <<>> \in Seq(PassRecords) /\ DOMAIN <<>> = {} /\ IsFiniteSet({})
  BY FS_EmptySet
<1>2. EmptySnapshot \in Snapshots
  BY <1>1 DEF EmptySnapshot, Snapshots
<1>3. 1 \in Addresses
  BY RootSnapshotAssumption DEF Addresses
<1>4. TypeOK
  BY <1>1, <1>2, <1>3, RootSnapshotAssumption DEF Init, TypeOK, Positions
<1>5. RootsOK
  BY <1>1 DEF Init, RootsOK, Distinct, NeverSnapshotted
<1>6. QueuesOK /\ FreshOK /\ PinsOK
  BY <1>1 DEF Init, QueuesOK, FreshOK, PinsOK
<1>7. QED
  BY <1>4, <1>5, <1>6 DEF IInv

LEMMA MutationKeepsIInv ==
  ASSUME IInv, Mutation
  PROVE  IInv' /\ UNCHANGED snapshots
<1>1. CASE \E t \in Triggers : AppendRoot(t)
  BY <1>1, AppendingKeepsIInv DEF AppendRoot, current
<1>2. CASE \E t \in Triggers : RemoveRoot(t)
  BY <1>2, RemoveKeepsIInv DEF RemoveRoot, current
<1>3. CASE \E t \in Triggers : DeleteRoot(t)
  BY <1>3, DeleteKeepsIInv DEF DeleteRoot, current
<1>4. CASE \E t \in Triggers : DeleteChild(t)
  BY <1>4, DeleteChildKeepsIInv DEF DeleteChild, current
<1>5. CASE \E t \in Triggers, i \in DOMAIN mTriggerRootNodeList : InsertRoot(t, i)
  BY <1>5, InsertKeepsIInv DEF InsertRoot, current
<1>6. CASE \E t \in Triggers, f \in Filters : Refile(t, f)
  BY <1>6, RefileKeepsIInv DEF Refile, current
<1>7. CASE \E temporary : ReorderRoots(temporary)
  BY <1>7, ReorderKeepsIInv DEF ReorderRoots, current
<1>8. QED
  BY <1>1, <1>2, <1>3, <1>4, <1>5, <1>6, <1>7 DEF Mutation

\* Every step keeps the invariant, and what the passes that go on have pinned.
LEMMA NextKeepsIInv ==
  ASSUME IInv, [Next]_vars
  PROVE  /\ IInv'
         /\ \A n \in DOMAIN passes \intersect DOMAIN passes' :
               snapshots'[passes[n].snapshot] = snapshots[passes[n].snapshot]
<1>1. CASE Mutation
  BY <1>1, MutationKeepsIInv
<1>2. CASE BeginPass
  BY <1>2, BeginKeepsIInv
<1>3. CASE VisitRoot
  BY <1>3, VisitKeepsIInv DEF VisitRoot, current
<1>4. CASE EndPass
  BY <1>4, EndKeepsIInv
<1>5. CASE UNCHANGED vars
  <2>1. UNCHANGED <<mTriggerRootNodeList, rootFilter, mRootSnapshotPosition, snapshots,
                    mpRootNodeSnapshot, queues, passes>>
    BY <1>5 DEF vars, current
  <2>2. TypeOK'
    BY <2>1 DEF IInv, TypeOK, queues
  <2>3. PinsOK'
    BY <2>1, PinsUntouched DEF IInv
  <2>4. Snapshot' = Snapshot
    BY <2>1, KeptStays
  <2>5. QED
    BY <2>1, <2>2, <2>3, <2>4, UntouchedKeepsIInv
<1>6. QED
  BY <1>1, <1>2, <1>3, <1>4, <1>5 DEF Next

\* However edits of the root list, refreshes and nested passes interleave, the
\* inductive invariant holds (TriggerUnit.cpp 830-897).
THEOREM IInvHolds == Spec => []IInv
<1>1. Init => IInv
  BY InitEstablishesIInv
<1>2. IInv /\ [Next]_vars => IInv'
  BY NextKeepsIInv
<1>3. QED
  BY <1>1, <1>2, PTL DEF Spec

\* Patching the snapshot with what was queued comes to the same as rebuilding
\* it: the roots in their order, each filed where it is and under its current
\* filter (TriggerUnit.cpp 830-897).
THEOREM SnapshotShowsRoots == Spec => []SnapshotIsRootList
<1>1. IInv => SnapshotIsRootList
  BY FreshShows DEF ShowsFiled, SnapshotIsRootList
<1>2. QED
  BY <1>1, IInvHolds, PTL

\* No pass rules a root out by a filter that is out of date
\* (TriggerUnit.cpp 778-786, 1042-1052).
THEOREM TrustIsWarranted == Spec => []TrustedFiltersAreCurrent
<1>1. IInv => TrustedFiltersAreCurrent
  BY DEF IInv, PinsOK, TrustedFiltersAreCurrent
<1>2. QED
  BY <1>1, IInvHolds, PTL

\* Neither a change to the root list nor the refresh of a nested pass edits what
\* a pass walks (TriggerUnit.cpp 945-953).
THEOREM WhatIsPinnedStays == Spec => PinnedIsNeverEdited
<1>1. IInv /\ [Next]_vars =>
         [\A n \in DOMAIN passes \intersect DOMAIN passes' :
             snapshots'[passes[n].snapshot] = snapshots[passes[n].snapshot]]_vars
  BY NextKeepsIInv
<1>2. QED
  BY <1>1, IInvHolds, PTL DEF Spec, PinnedIsNeverEdited

=============================================================================
