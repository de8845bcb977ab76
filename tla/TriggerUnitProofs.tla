-------------------------- MODULE TriggerUnitProofs --------------------------
(***************************************************************************)
(* Theorems about TriggerUnit: no pointer outlives its trigger, nothing    *)
(* that is to be freed is active, every pass gives every root its turn     *)
(* once, up to the cap on those made on the line, a runaway chain of feeds *)
(* unwinds, and no trigger is freed twice as long as the package was not   *)
(* installed a second time.                                                *)
(***************************************************************************)
EXTENDS TriggerUnit, WellFoundedInduction, FiniteSetTheorems, TLAPS

-----------------------------------------------------------------------------
(***************************************************************************)
(* What Only and Without keep of a list.  The library's induction          *)
(* theorems take an operator; these are about sets, of numbers and of      *)
(* sequences, and rest on every set of numbers having a least one.         *)
(***************************************************************************)
\* Induction.
LEMMA Least ==
  ASSUME NEW T, T \subseteq Nat, T # {}
  PROVE  \E n \in T : \A m \in T : n <= m
<1> DEFINE R == {ss \in Nat \X Nat : ss[1] < ss[2]}
<1>1. IsWellFoundedOn(R, Nat)
  BY NatLessThanWellFounded, Zenon DEF OpToRel
<1>2. \A x, y \in Nat : <<y, x>> \in R \/ x <= y
  OBVIOUS
<1> HIDE DEF R
<1>3. PICK x \in T : \A y \in T : ~(<<y, x>> \in R)
  BY <1>1, WFMin, Zenon
<1>4. \A y \in T : x <= y
  BY <1>2, <1>3, Zenon
<1>5. QED
  BY <1>4

LEMMA NatSetInduction ==
  ASSUME NEW P, 0 \in P, \A n \in Nat : n \in P => n + 1 \in P
  PROVE  Nat \subseteq P
<1>1. SUFFICES ASSUME Nat \ P # {} PROVE FALSE
  OBVIOUS
<1>2. PICK n \in Nat \ P : \A m \in Nat \ P : n <= m
  BY <1>1, Least
<1>3. n # 0 /\ n - 1 \in Nat /\ n - 1 \in P
  BY <1>2
<1>4. QED
  BY <1>3

LEMMA SeqSetInduction ==
  ASSUME NEW X, NEW P, <<>> \in P,
         \A s \in Seq(X), e \in X : s \in P => Append(s, e) \in P
  PROVE  Seq(X) \subseteq P
<1> DEFINE Q == {n \in Nat : \A s \in Seq(X) : Len(s) = n => s \in P}
<1>1. 0 \in Q
  <2>1. \A s \in Seq(X) : Len(s) = 0 => s = <<>>
    OBVIOUS
  <2>2. QED
    BY <2>1
<1>2. ASSUME NEW n \in Nat, n \in Q PROVE n + 1 \in Q
  <2>1. SUFFICES ASSUME NEW s \in Seq(X), Len(s) = n + 1 PROVE s \in P
    OBVIOUS
  <2> DEFINE r == SubSeq(s, 1, n)
  <2>2. r \in Seq(X) /\ Len(r) = n /\ s[n + 1] \in X
    BY <2>1
  <2>3. s = Append(r, s[n + 1])
    BY <2>1
  <2>4. r \in P
    BY <1>2, <2>2
  <2> HIDE DEF r
  <2>5. QED
    BY <2>2, <2>3, <2>4
<1> HIDE DEF Q
<1>3. Nat \subseteq Q
  BY <1>1, <1>2, NatSetInduction
<1>4. QED
  BY <1>3 DEF Q

-----------------------------------------------------------------------------
\* Only(), read off its recursion.
KeptOn(f, s, S, N) ==
    f = [n \in 0..N |-> IF n = 0 THEN <<>> ELSE Grown(f[n - 1], s[n], S)]

LEMMA KeptExists ==
  ASSUME NEW s, NEW S, NEW N \in Nat
  PROVE  \E f : KeptOn(f, s, S, N)
<1> DEFINE P == {n \in Nat : \E f : KeptOn(f, s, S, n)}
<1>1. 0 \in P
  <2>1. KeptOn([n \in 0..0 |-> <<>>], s, S, 0)
    BY DEF KeptOn
  <2>2. QED
    BY <2>1
<1>2. ASSUME NEW n \in Nat, n \in P PROVE n + 1 \in P
  <2>1. PICK f : KeptOn(f, s, S, n)
    BY <1>2
  <2> DEFINE g == [m \in 0..(n + 1) |-> IF m = n + 1 THEN Grown(f[n], s[n + 1], S) ELSE f[m]]
  <2>2. ASSUME NEW m \in 0..(n + 1)
        PROVE  g[m] = IF m = 0 THEN <<>> ELSE Grown(g[m - 1], s[m], S)
    <3>1. CASE m = n + 1
      BY <3>1
    <3>2. CASE m \in 0..n
      <4>1. g[m] = f[m] /\ (m # 0 => g[m - 1] = f[m - 1])
        BY <3>2
      <4>2. f[m] = IF m = 0 THEN <<>> ELSE Grown(f[m - 1], s[m], S)
        BY <2>1, <3>2 DEF KeptOn
      <4>3. QED
        BY <4>1, <4>2
    <3>3. QED
      BY <3>1, <3>2
  <2>3. KeptOn(g, s, S, n + 1)
    <3>1. g = [m \in 0..(n + 1) |-> g[m]]
      OBVIOUS
    <3> HIDE DEF g
    <3>2. QED
      BY <2>2, <3>1 DEF KeptOn
  <2>4. QED
    BY <2>3
<1> HIDE DEF P
<1>3. Nat \subseteq P
  BY <1>1, <1>2, NatSetInduction
<1>4. QED
  BY <1>3 DEF P

LEMMA OnlyIs ==
  ASSUME NEW s, NEW S, Len(s) \in Nat
  PROVE  \E f : KeptOn(f, s, S, Len(s)) /\ Only(s, S) = f[Len(s)]
<1>1. KeptOn(CHOOSE f : KeptOn(f, s, S, Len(s)), s, S, Len(s))
  BY KeptExists
<1>2. QED
  BY <1>1 DEF KeptOn, Only

LEMMA OnlyEmpty == ASSUME NEW S PROVE Only(<<>>, S) = <<>>
<1>1. Len(<<>>) = 0
  OBVIOUS
<1>2. PICK f : KeptOn(f, <<>>, S, 0) /\ Only(<<>>, S) = f[0]
  BY <1>1, OnlyIs
<1>3. QED
  BY <1>2 DEF KeptOn

LEMMA OnlyAppend ==
  ASSUME NEW X, NEW s \in Seq(X), NEW e \in X, NEW S
  PROVE  Only(Append(s, e), S) = Grown(Only(s, S), e, S)
<1> DEFINE t == Append(s, e)
<1>1. Len(s) \in Nat /\ Len(t) = Len(s) + 1 /\ t[Len(s) + 1] = e
      /\ \A i \in 1..Len(s) : t[i] = s[i]
  OBVIOUS
<1> HIDE DEF t
<1>2. PICK f : KeptOn(f, s, S, Len(s)) /\ Only(s, S) = f[Len(s)]
  BY <1>1, OnlyIs
<1>3. PICK g : KeptOn(g, t, S, Len(s) + 1) /\ Only(t, S) = g[Len(s) + 1]
  BY <1>1, OnlyIs
<1>4. \A n \in 0..Len(s) : f[n] = IF n = 0 THEN <<>> ELSE Grown(f[n - 1], s[n], S)
  BY <1>2 DEF KeptOn
<1>5. \A n \in 0..(Len(s) + 1) : g[n] = IF n = 0 THEN <<>> ELSE Grown(g[n - 1], t[n], S)
  BY <1>3 DEF KeptOn
<1> DEFINE P == {n \in Nat : n <= Len(s) => f[n] = g[n]}
<1>6. 0 \in P
  BY <1>1, <1>4, <1>5
<1>7. ASSUME NEW n \in Nat, n \in P PROVE n + 1 \in P
  <2>1. SUFFICES ASSUME n + 1 <= Len(s) PROVE f[n + 1] = g[n + 1]
    OBVIOUS
  <2>2. n + 1 \in 0..Len(s) /\ n + 1 \in 0..(Len(s) + 1) /\ n + 1 # 0 /\ (n + 1) - 1 = n
        /\ s[n + 1] = t[n + 1] /\ f[n] = g[n]
    BY <1>1, <1>7, <2>1
  <2>3. QED
    BY <1>4, <1>5, <2>2
<1> HIDE DEF P
<1>8. Nat \subseteq P
  BY <1>6, <1>7, NatSetInduction
<1>9. f[Len(s)] = g[Len(s)]
  BY <1>1, <1>8 DEF P
<1>10. QED
  BY <1>1, <1>2, <1>3, <1>5, <1>9 DEF t

-----------------------------------------------------------------------------
\* What Only() returns.
LEMMA OnlyType ==
  ASSUME NEW X, NEW s \in Seq(X), NEW S
  PROVE  Only(s, S) \in Seq(X)
<1> DEFINE P == {r \in Seq(X) : Only(r, S) \in Seq(X)}
<1>1. <<>> \in P
  <2>1. <<>> \in Seq(X)
    OBVIOUS
  <2>2. QED
    BY <2>1, OnlyEmpty
<1>2. ASSUME NEW r \in Seq(X), NEW e \in X, r \in P PROVE Append(r, e) \in P
  <2>1. Append(r, e) \in Seq(X) /\ Only(r, S) \in Seq(X)
    BY <1>2
  <2>2. Grown(Only(r, S), e, S) \in Seq(X)
    BY <2>1 DEF Grown
  <2>3. QED
    BY <2>1, <2>2, OnlyAppend
<1> HIDE DEF P
<1>3. Seq(X) \subseteq P
  BY <1>1, <1>2, SeqSetInduction
<1>4. QED
  BY <1>3 DEF P

LEMMA ElementsAppend ==
  ASSUME NEW X, NEW s \in Seq(X), NEW e \in X
  PROVE  Elements(Append(s, e)) = Elements(s) \union {e}
<1>1. Len(s) \in Nat /\ DOMAIN s = 1..Len(s) /\ DOMAIN Append(s, e) = 1..(Len(s) + 1)
      /\ Append(s, e)[Len(s) + 1] = e /\ \A i \in 1..Len(s) : Append(s, e)[i] = s[i]
  OBVIOUS
<1>2. QED
  BY <1>1 DEF Elements

LEMMA OnlyElements ==
  ASSUME NEW X, NEW s \in Seq(X), NEW S
  PROVE  Elements(Only(s, S)) = Elements(s) \intersect S
<1> DEFINE P == {r \in Seq(X) : Elements(Only(r, S)) = Elements(r) \intersect S}
<1>1. <<>> \in P
  BY OnlyEmpty DEF Elements
<1>2. ASSUME NEW r \in Seq(X), NEW e \in X, r \in P PROVE Append(r, e) \in P
  <2>1. Only(r, S) \in Seq(X)
    BY OnlyType
  <2>2. Elements(Append(r, e)) = Elements(r) \union {e}
    BY ElementsAppend
  <2>3. Elements(Grown(Only(r, S), e, S)) =
           IF e \in S THEN Elements(Only(r, S)) \union {e} ELSE Elements(Only(r, S))
    <3>1. Elements(Append(Only(r, S), e)) = Elements(Only(r, S)) \union {e}
      BY <2>1, ElementsAppend
    <3>2. QED
      BY <3>1, Zenon DEF Grown
  <2>4. QED
    BY <1>2, <2>2, <2>3, OnlyAppend
<1> HIDE DEF P
<1>3. Seq(X) \subseteq P
  BY <1>1, <1>2, SeqSetInduction
<1>4. QED
  BY <1>3 DEF P

LEMMA DistinctAppend ==
  ASSUME NEW X, NEW s \in Seq(X), NEW e \in X
  PROVE  Distinct(Append(s, e)) <=> Distinct(s) /\ e \notin Elements(s)
<1> DEFINE t == Append(s, e)
<1>1. Len(s) \in Nat /\ DOMAIN s = 1..Len(s) /\ DOMAIN t = 1..(Len(s) + 1)
      /\ t[Len(s) + 1] = e /\ \A i \in 1..Len(s) : t[i] = s[i]
  OBVIOUS
<1> HIDE DEF t
<1>2. QED
  <2>1. ASSUME Distinct(t) PROVE Distinct(s) /\ e \notin Elements(s)
    BY <1>1, <2>1 DEF Elements, Distinct
  <2>2. ASSUME Distinct(s), e \notin Elements(s) PROVE Distinct(t)
    BY <1>1, <2>2 DEF Elements, Distinct
  <2>3. QED
    BY <2>1, <2>2 DEF t

LEMMA OnlyDistinct ==
  ASSUME NEW X, NEW s \in Seq(X), NEW S, Distinct(s)
  PROVE  Distinct(Only(s, S))
<1> DEFINE P == {r \in Seq(X) : Distinct(r) => Distinct(Only(r, S))}
<1>1. <<>> \in P
  BY OnlyEmpty DEF Distinct
<1>2. ASSUME NEW r \in Seq(X), NEW e \in X, r \in P PROVE Append(r, e) \in P
  <2>1. SUFFICES ASSUME Distinct(Append(r, e)) PROVE Distinct(Only(Append(r, e), S))
    OBVIOUS
  <2>2. Distinct(r) /\ e \notin Elements(r)
    BY <2>1, DistinctAppend
  <2>3. Only(r, S) \in Seq(X) /\ Distinct(Only(r, S)) /\ e \notin Elements(Only(r, S))
    BY <1>2, <2>2, OnlyType, OnlyElements
  <2>4. Distinct(Grown(Only(r, S), e, S))
    BY <2>3, DistinctAppend DEF Grown
  <2>5. QED
    BY <2>4, OnlyAppend
<1> HIDE DEF P
<1>3. Seq(X) \subseteq P
  BY <1>1, <1>2, SeqSetInduction
<1>4. QED
  BY <1>3 DEF P

-----------------------------------------------------------------------------
\* Two lists, one after the other.
LEMMA ElementsConcat ==
  ASSUME NEW X, NEW s \in Seq(X), NEW t \in Seq(X)
  PROVE  Elements(s \o t) = Elements(s) \union Elements(t)
<1> DEFINE u == s \o t
<1>1. Len(s) \in Nat /\ Len(t) \in Nat /\ DOMAIN s = 1..Len(s) /\ DOMAIN t = 1..Len(t)
      /\ DOMAIN u = 1..(Len(s) + Len(t))
      /\ (\A i \in 1..Len(s) : u[i] = s[i])
      /\ (\A i \in (Len(s) + 1)..(Len(s) + Len(t)) : u[i] = t[i - Len(s)])
  OBVIOUS
<1> HIDE DEF u
<1>2. Elements(u) \subseteq Elements(s) \union Elements(t)
  BY <1>1 DEF Elements
<1>3. Elements(s) \subseteq Elements(u)
  BY <1>1 DEF Elements
<1>4. ASSUME NEW i \in 1..Len(t) PROVE t[i] \in Elements(u)
  <2>1. Len(s) + i \in (Len(s) + 1)..(Len(s) + Len(t)) /\ (Len(s) + i) - Len(s) = i
    BY <1>1
  <2>2. u[Len(s) + i] = t[i] /\ Len(s) + i \in DOMAIN u
    BY <1>1, <2>1
  <2>3. QED
    BY <2>2 DEF Elements
<1>5. QED
  BY <1>1, <1>2, <1>3, <1>4 DEF Elements, u

LEMMA DistinctConcat ==
  ASSUME NEW X, NEW s \in Seq(X), NEW t \in Seq(X), Distinct(s), Distinct(t),
         Elements(s) \intersect Elements(t) = {}
  PROVE  Distinct(s \o t)
<1> DEFINE u == s \o t
<1>1. Len(s) \in Nat /\ Len(t) \in Nat /\ DOMAIN s = 1..Len(s) /\ DOMAIN t = 1..Len(t)
      /\ DOMAIN u = 1..(Len(s) + Len(t))
      /\ (\A i \in 1..Len(s) : u[i] = s[i])
      /\ (\A i \in (Len(s) + 1)..(Len(s) + Len(t)) : u[i] = t[i - Len(s)])
  OBVIOUS
<1> HIDE DEF u
<1>2. SUFFICES ASSUME NEW i \in DOMAIN u, NEW j \in DOMAIN u, u[i] = u[j] PROVE i = j
  BY DEF Distinct, u
<1>3. CASE i \in 1..Len(s) /\ j \in 1..Len(s)
  BY <1>1, <1>2, <1>3 DEF Distinct
<1>4. CASE i \notin 1..Len(s) /\ j \notin 1..Len(s)
  <2>1. i \in (Len(s) + 1)..(Len(s) + Len(t)) /\ j \in (Len(s) + 1)..(Len(s) + Len(t))
        /\ i - Len(s) \in 1..Len(t) /\ j - Len(s) \in 1..Len(t)
    BY <1>1, <1>4
  <2>2. t[i - Len(s)] = t[j - Len(s)]
    BY <1>1, <1>2, <2>1
  <2>3. i - Len(s) = j - Len(s)
    BY <1>1, <2>1, <2>2 DEF Distinct
  <2>4. QED
    BY <1>1, <2>1, <2>3
<1>5. ASSUME NEW k \in 1..Len(s), NEW l \in DOMAIN u \ 1..Len(s) PROVE u[k] # u[l]
  <2>1. l \in (Len(s) + 1)..(Len(s) + Len(t)) /\ l - Len(s) \in 1..Len(t)
    BY <1>1
  <2>2. u[k] \in Elements(s) /\ u[l] \in Elements(t)
    BY <1>1, <2>1 DEF Elements
  <2>3. QED
    BY <2>2
<1>6. QED
  BY <1>2, <1>3, <1>4, <1>5

LEMMA ElementsOne == ASSUME NEW e PROVE Elements(<<e>>) = {e} /\ Distinct(<<e>>)
<1>1. DOMAIN <<e>> = 1..1 /\ <<e>>[1] = e
  OBVIOUS
<1>2. QED
  BY <1>1 DEF Elements, Distinct

-----------------------------------------------------------------------------
\* Without() is Only() of the rest.
LEMMA WithoutIs ==
  ASSUME NEW X, NEW s \in Seq(X), NEW S
  PROVE  /\ Without(s, S) \in Seq(X)
         /\ Elements(Without(s, S)) = Elements(s) \ S
         /\ Distinct(s) => Distinct(Without(s, S))
<1>1. Only(s, Elements(s) \ S) \in Seq(X)
  BY OnlyType
<1>2. Elements(Only(s, Elements(s) \ S)) = Elements(s) \ S
  BY OnlyElements
<1>3. Distinct(s) => Distinct(Only(s, Elements(s) \ S))
  BY OnlyDistinct
<1>4. QED
  BY <1>1, <1>2, <1>3 DEF Without

-----------------------------------------------------------------------------
\* The middle of a list, which is empty where it would end before it begins.
LEMMA MiddleIs ==
  ASSUME NEW X, NEW s \in Seq(X), NEW m \in Nat, NEW i \in 0..Len(s)
  PROVE  LET middle == SubSeq(s, m + 1, i) IN
         /\ middle \in Seq(X)
         /\ \A j \in (m + 1)..i : s[j] \in Elements(middle)
         /\ \A e \in Elements(middle) : \E j \in (m + 1)..i : e = s[j]
         /\ Distinct(s) => Distinct(middle)
<1> DEFINE middle == SubSeq(s, m + 1, i)
<1>1. Len(s) \in Nat /\ i \in Nat /\ i <= Len(s) /\ DOMAIN s = 1..Len(s)
  OBVIOUS
<1>2. /\ middle \in Seq(X) /\ DOMAIN middle = 1..(i - m)
      /\ \A k \in 1..(i - m) : middle[k] = s[m + k]
  <2>1. middle = [k \in 1..(i - (m + 1) + 1) |-> s[k + (m + 1) - 1]]
    BY <1>1
  <2>2. i - (m + 1) + 1 = i - m
    BY <1>1
  <2>3. \A k \in 1..(i - m) : k + (m + 1) - 1 = m + k /\ m + k \in 1..Len(s)
    BY <1>1
  <2>4. middle = [k \in 1..(i - m) |-> s[m + k]]
    BY <2>1, <2>2, <2>3
  <2>5. \A k \in 1..(i - m) : s[m + k] \in X
    BY <1>1, <2>3
  <2> HIDE DEF middle
  <2>6. middle \in [1..(i - m) -> X]
    BY <2>4, <2>5
  <2>7. \E n \in Nat : 1..(i - m) = 1..n
    <3>1. CASE i - m \in Nat
      BY <3>1
    <3>2. CASE i - m \notin Nat
      <4>1. 1..(i - m) = 1..0
        BY <1>1, <3>2
      <4>2. QED
        BY <4>1
    <3>3. QED
      BY <3>1, <3>2
  <2>8. QED
    BY <2>4, <2>6, <2>7
<1> HIDE DEF middle
<1>3. Elements(middle) \subseteq {s[j] : j \in (m + 1)..i}
  <2>1. \A k \in 1..(i - m) : m + k \in (m + 1)..i
    BY <1>1
  <2>2. QED
    BY <1>2, <2>1 DEF Elements
<1>4. {s[j] : j \in (m + 1)..i} \subseteq Elements(middle)
  <2>1. \A j \in (m + 1)..i : j - m \in 1..(i - m) /\ m + (j - m) = j
    BY <1>1
  <2>2. ASSUME NEW j \in (m + 1)..i PROVE s[j] \in Elements(middle)
    <3>1. j - m \in DOMAIN middle /\ middle[j - m] = s[m + (j - m)]
      BY <1>2, <2>1
    <3>2. QED
      BY <2>1, <3>1 DEF Elements
  <2>3. QED
    BY <2>2
<1>5. Distinct(s) => Distinct(middle)
  <2>1. \A k \in 1..(i - m) : m + k \in DOMAIN s
    BY <1>1
  <2>2. \A k, l \in 1..(i - m) : m + k = m + l => k = l
    BY <1>1
  <2>3. QED
    BY <1>2, <2>1, <2>2 DEF Distinct
<1>6. QED
  BY <1>2, <1>3, <1>4, <1>5 DEF middle

-----------------------------------------------------------------------------
(***************************************************************************)
(* The inductive invariant.                                                *)
(***************************************************************************)
MatchCalls == [trigger : IDs, stage : {"script", "children"}, at : IDs \union {0},
               expires : BOOLEAN]
Passes == [pinned : Seq(IDs), position : Nat, first : Nat, next : Nat,
           frames : Seq(MatchCalls), offered : Seq(IDs)]

\* A trigger is younger than what it is in, and in whatever that is in.
TreeOK ==
    /\ \A t \in IDs, a \in IDs : a \in mAncestors[t] =>
          a < t /\ mAncestors[a] \subseteq mAncestors[t]
    /\ \A t \in IDs \ mTriggerMap : mAncestors[t] = {}

\* Between lines nothing of a line is left.
IdleOK ==
    passes = <<>> => mRootNodesAddedWhileProcessing = <<>> /\ uninstallList = <<>>

\* What is offered to whom: every root is pinned or added after the pass began,
\* and never both.
OffersOK ==
    /\ Distinct(mTriggerRootNodeList)
    /\ \A i, j \in DOMAIN mRootNodesAddedWhileProcessing :
          mRootNodesAddedWhileProcessing[i] = mRootNodesAddedWhileProcessing[j]
          /\ mRootNodesAddedWhileProcessing[i] # 0 => i = j
    /\ \A n \in DOMAIN passes :
          /\ Distinct(passes[n].pinned)
          /\ passes[n].first <= Len(mRootNodesAddedWhileProcessing)
          /\ \A i \in DOMAIN mRootNodesAddedWhileProcessing :
                i > passes[n].first =>
                    mRootNodesAddedWhileProcessing[i] \notin Elements(passes[n].pinned)
          /\ \A r \in Elements(mTriggerRootNodeList) \ Elements(passes[n].pinned) :
                \E i \in DOMAIN mRootNodesAddedWhileProcessing :
                    i > passes[n].first /\ mRootNodesAddedWhileProcessing[i] = r

IInv ==
    /\ TypeOK
    /\ TreeOK
    /\ NoDanglingPointers
    /\ IdleOK
    /\ OffersOK
    /\ NothingPendingIsActive

-----------------------------------------------------------------------------
(***************************************************************************)
(* The order in which a package's triggers are queued.  Where the paths to *)
(* two triggers part, the one with the older trigger comes first; this is  *)
(* a total order, so each trigger has a rank of its own and each rank is   *)
(* some trigger's: ChildrenFirst() lists them all.                         *)
(***************************************************************************)
Path(t) == mAncestors[t] \union {t}

LEMMA Ranks ==
  ASSUME NEW S, IsFiniteSet(S), NEW R,
         \A t \in S : <<t, t>> \notin R,
         \A t, u \in S : t # u => <<t, u>> \in R \/ <<u, t>> \in R,
         \A t, u, v \in S : <<t, u>> \in R /\ <<u, v>> \in R => <<t, v>> \in R
  PROVE  /\ \A i \in 1..Cardinality(S) : \E t \in S :
               Cardinality({u \in S : <<u, t>> \in R}) = i - 1
         /\ \A t \in S : Cardinality({u \in S : <<u, t>> \in R}) + 1 \in 1..Cardinality(S)
         /\ \A t, u \in S : Cardinality({w \in S : <<w, t>> \in R})
                                = Cardinality({w \in S : <<w, u>> \in R}) => t = u
<1> DEFINE Below(t) == {u \in S : <<u, t>> \in R}
           rank == [t \in S |-> Cardinality(Below(t))]
           n == Cardinality(S)
<1>1. n \in Nat
  BY FS_CardinalityType
<1>2. ASSUME NEW t \in S
      PROVE  /\ IsFiniteSet(Below(t)) /\ Cardinality(Below(t)) \in Nat
             /\ rank[t] = Cardinality(Below(t)) /\ rank[t] < n
  <2>1. Below(t) \in SUBSET S /\ Below(t) # S
    OBVIOUS
  <2>2. IsFiniteSet(Below(t)) /\ Cardinality(Below(t)) <= n /\ Cardinality(Below(t)) # n
    BY <2>1, FS_Subset
  <2>3. Cardinality(Below(t)) \in Nat
    BY <2>2, FS_CardinalityType
  <2>4. QED
    BY <1>1, <2>2, <2>3
<1>3. ASSUME NEW t \in S, NEW u \in S, <<t, u>> \in R PROVE rank[t] < rank[u]
  <2>1. Below(t) \in SUBSET Below(u) /\ Below(t) # Below(u)
    BY <1>3
  <2>2. Cardinality(Below(t)) <= Cardinality(Below(u))
        /\ Cardinality(Below(t)) # Cardinality(Below(u))
    BY <1>2, <2>1, FS_Subset
  <2>3. /\ rank[t] = Cardinality(Below(t)) /\ Cardinality(Below(t)) \in Nat
        /\ rank[u] = Cardinality(Below(u)) /\ Cardinality(Below(u)) \in Nat
    BY <1>2
  <2> HIDE DEF rank, Below
  <2>4. QED
    BY <2>2, <2>3
<1>4. \A t, u \in S : rank[t] = rank[u] => t = u
  <2>0. \A t \in S : rank[t] \in Nat
    BY <1>2
  <2>1. \A t, u \in S : <<t, u>> \in R => rank[t] # rank[u]
    <3> HIDE DEF rank
    <3>1. QED
      BY <1>3, <2>0
  <2>2. QED
    BY <2>1
<1>5. rank \in Injection(S, 0..(n - 1))
  <2>1. \A t \in S : rank[t] \in Nat /\ rank[t] < n
    BY <1>2
  <2>2. DOMAIN rank = S /\ rank = [t \in S |-> rank[t]]
    OBVIOUS
  <2> HIDE DEF rank, n
  <2>3. \A t \in S : rank[t] \in 0..(n - 1)
    BY <1>1, <2>1
  <2>4. rank \in [S -> 0..(n - 1)]
    BY <2>2, <2>3
  <2>5. QED
    BY <1>4, <2>2, <2>4 DEF Injection, IsInjective
<1>6. IsFiniteSet(0..(n - 1)) /\ Cardinality(0..(n - 1)) = n
  <2> HIDE DEF n
  <2>1. 0 \in Int /\ n - 1 \in Int
    BY <1>1
  <2>2. IsFiniteSet(0..(n - 1))
        /\ Cardinality(0..(n - 1)) = IF 0 > n - 1 THEN 0 ELSE (n - 1) - 0 + 1
    BY <2>1, FS_Interval
  <2>3. QED
    BY <1>1, <2>2
<1>7. rank \in Surjection(S, 0..(n - 1))
  BY <1>5, <1>6, FS_Injection
<1>8. \A i \in 0..(n - 1) : \E t \in S : rank[t] = i
  BY <1>7 DEF Surjection
<1>9. ASSUME NEW i \in 1..n PROVE \E t \in S : Cardinality(Below(t)) = i - 1
  <2>1. i - 1 \in 0..(n - 1)
    BY <1>1
  <2>2. PICK t \in S : rank[t] = i - 1
    BY <1>8, <2>1
  <2>3. QED
    BY <2>2
<1>10. \A t \in S : Cardinality(Below(t)) + 1 \in 1..n
  BY <1>1, <1>2
<1>11. \A t, u \in S : Cardinality(Below(t)) = Cardinality(Below(u)) => t = u
  BY <1>4
<1>12. QED
  BY <1>9, <1>10, <1>11

LEMMA PathsAreNumbers == ASSUME TypeOK, NEW t \in IDs PROVE Path(t) \subseteq Nat
<1>1. mAncestors \in [IDs -> SUBSET IDs]
  BY DEF TypeOK
<1>2. IDs \subseteq Nat
  BY TriggerUnitAssumption DEF IDs
<1>3. QED
  BY <1>1, <1>2 DEF Path

\* Where two paths part first.
LEMMA PathsPart ==
  ASSUME TypeOK, TreeOK, NEW a \in IDs, NEW b \in IDs, a # b
  PROVE  \E x \in Nat :
            /\ x \in (Path(a) \ Path(b)) \union (Path(b) \ Path(a))
            /\ \A y \in (Path(a) \ Path(b)) \union (Path(b) \ Path(a)) : x <= y
<1>1. Path(a) \subseteq Nat /\ Path(b) \subseteq Nat
  BY PathsAreNumbers
<1>2. ~(a \in mAncestors[b] /\ b \in mAncestors[a])
  <2>1. a \in mAncestors[b] => a < b
    BY DEF TreeOK
  <2>2. b \in mAncestors[a] => b < a
    BY DEF TreeOK
  <2>3. QED
    BY <2>1, <2>2 DEF IDs
<1>3. (Path(a) \ Path(b)) \union (Path(b) \ Path(a)) # {}
  BY <1>2 DEF Path
<1>4. QED
  BY <1>1, <1>3, Least

LEMMA ListedBeforeIs ==
  ASSUME TypeOK, TreeOK, NEW a \in IDs, NEW b \in IDs
  PROVE  ListedBefore(a, b) <=>
            \E x \in Path(a) \ Path(b) : \A y \in Path(b) \ Path(a) : x < y
<1>1. ASSUME b \in mAncestors[a]
      PROVE  \E x \in Path(a) \ Path(b) : \A y \in Path(b) \ Path(a) : x < y
  <2>1. b < a /\ mAncestors[b] \subseteq mAncestors[a]
    BY <1>1 DEF TreeOK
  <2>2. Path(b) \ Path(a) = {}
    BY <1>1, <2>1 DEF Path
  <2>3. a \notin mAncestors[b] /\ a # b
    BY <2>1 DEF TreeOK, IDs
  <2>4. QED
    BY <2>2, <2>3 DEF Path
<1>2. QED
  BY <1>1 DEF ListedBefore, Path

LEMMA ListedBeforeOrders ==
  ASSUME TypeOK, TreeOK
  PROVE  /\ \A a \in IDs : ~ListedBefore(a, a)
         /\ \A a, b \in IDs : a # b => ListedBefore(a, b) \/ ListedBefore(b, a)
         /\ \A a, b, c \in IDs :
               ListedBefore(a, b) /\ ListedBefore(b, c) => ListedBefore(a, c)
<1>1. \A t \in IDs : Path(t) \subseteq Nat
  BY PathsAreNumbers
<1>2. \A a \in IDs : ~ListedBefore(a, a)
  BY ListedBeforeIs
<1>3. ASSUME NEW a \in IDs, NEW b \in IDs, a # b
      PROVE  ListedBefore(a, b) \/ ListedBefore(b, a)
  <2>1. PICK x \in Nat :
           /\ x \in (Path(a) \ Path(b)) \union (Path(b) \ Path(a))
           /\ \A y \in (Path(a) \ Path(b)) \union (Path(b) \ Path(a)) : x <= y
    BY <1>3, PathsPart
  <2>2. CASE x \in Path(a) \ Path(b)
    <3>1. ASSUME NEW y \in Path(b) \ Path(a) PROVE x < y
      <4>1. y \in Nat /\ x # y /\ x <= y
        BY <1>1, <2>1, <2>2
      <4>2. QED
        BY <4>1
    <3>2. QED
      BY <2>2, <3>1, ListedBeforeIs
  <2>3. CASE x \in Path(b) \ Path(a)
    <3>1. ASSUME NEW y \in Path(a) \ Path(b) PROVE x < y
      <4>1. y \in Nat /\ x # y /\ x <= y
        BY <1>1, <2>1, <2>3
      <4>2. QED
        BY <4>1
    <3>2. QED
      BY <2>3, <3>1, ListedBeforeIs
  <2>4. QED
    BY <2>1, <2>2, <2>3
<1>4. ASSUME NEW a \in IDs, NEW b \in IDs, NEW c \in IDs,
             ListedBefore(a, b), ListedBefore(b, c)
      PROVE  ListedBefore(a, c)
  <2>1. PICK x \in Path(a) \ Path(b) : \A z \in Path(b) \ Path(a) : x < z
    BY <1>4, ListedBeforeIs
  <2>2. PICK y \in Path(b) \ Path(c) : \A z \in Path(c) \ Path(b) : y < z
    BY <1>4, ListedBeforeIs
  <2>3. x \in Nat /\ y \in Nat /\ x # y
    BY <1>1, <2>1, <2>2
  <2>4. CASE x < y
    <3>1. x \in Path(a) \ Path(c)
      BY <2>1, <2>2, <2>3, <2>4
    <3>2. ASSUME NEW z \in Path(c) \ Path(a) PROVE x < z
      <4>1. z \in Nat
        BY <1>1
      <4>2. z \in Path(b) \/ y < z
        BY <2>2
      <4>3. QED
        BY <2>1, <2>3, <2>4, <4>1, <4>2
    <3>3. QED
      BY <3>1, <3>2, ListedBeforeIs
  <2>5. CASE y < x
    <3>1. y \in Path(a) \ Path(c)
      BY <2>1, <2>2, <2>3, <2>5
    <3>2. ASSUME NEW z \in Path(c) \ Path(a) PROVE y < z
      <4>1. z \in Nat
        BY <1>1
      <4>2. z \in Path(b) => x < z
        BY <2>1
      <4>3. z \notin Path(b) => y < z
        BY <2>2
      <4>4. QED
        BY <2>3, <2>5, <4>1, <4>2, <4>3
    <3>3. QED
      BY <3>1, <3>2, ListedBeforeIs
  <2>6. QED
    BY <2>3, <2>4, <2>5
<1>5. QED
  BY <1>2, <1>3, <1>4

LEMMA ChildrenFirstLists ==
  ASSUME TypeOK, TreeOK, NEW S, S \subseteq IDs
  PROVE  /\ ChildrenFirst(S) \in Seq(S) /\ Elements(ChildrenFirst(S)) = S
         /\ \A j \in DOMAIN ChildrenFirst(S) : \A i \in 1..(j - 1) :
               ChildrenFirst(S)[i] \notin mAncestors[ChildrenFirst(S)[j]]
<1> DEFINE R == {p \in S \X S : p[1] # p[2] /\ ListedBefore(p[1], p[2])}
           n == Cardinality(S)
           Before(t) == {u \in S : u # t /\ ListedBefore(u, t)}
<1>1. IsFiniteSet(S)
  <2>1. MaxTriggers \in Int
    BY TriggerUnitAssumption
  <2>2. IsFiniteSet(IDs)
    BY <2>1, FS_Interval DEF IDs
  <2>3. QED
    BY <2>2, FS_Subset
<1>2. /\ \A t \in S : <<t, t>> \notin R
      /\ \A t, u \in S : t # u => <<t, u>> \in R \/ <<u, t>> \in R
      /\ \A t, u, v \in S : <<t, u>> \in R /\ <<u, v>> \in R => <<t, v>> \in R
  <2>1. \A t, u \in S : <<t, u>> \in R <=> t # u /\ ListedBefore(t, u)
    OBVIOUS
  <2>2. /\ \A a \in S : ~ListedBefore(a, a)
        /\ \A a, b \in S : a # b => ListedBefore(a, b) \/ ListedBefore(b, a)
        /\ \A a, b, c \in S : ListedBefore(a, b) /\ ListedBefore(b, c) => ListedBefore(a, c)
    BY ListedBeforeOrders
  <2> HIDE DEF R
  <2>3. QED
    BY <2>1, <2>2
<1>3. \A t \in S : {u \in S : <<u, t>> \in R} = Before(t)
  OBVIOUS
<1> HIDE DEF R
<1>4. /\ \A i \in 1..n : \E t \in S : Cardinality({u \in S : <<u, t>> \in R}) = i - 1
      /\ \A t \in S : Cardinality({u \in S : <<u, t>> \in R}) + 1 \in 1..n
      /\ \A t, u \in S : Cardinality({w \in S : <<w, t>> \in R})
                             = Cardinality({w \in S : <<w, u>> \in R}) => t = u
  BY <1>1, <1>2, Ranks
<1>5. \A i \in 1..n : \E t \in S : Cardinality(Before(t)) = i - 1
  BY <1>3, <1>4
<1>6. \A t \in S : Cardinality(Before(t)) + 1 \in 1..n
  BY <1>3, <1>4
<1>7. \A t, u \in S : Cardinality(Before(t)) = Cardinality(Before(u)) => t = u
  BY <1>3, <1>4
<1> DEFINE chosen(i) == CHOOSE t \in S : Cardinality(Before(t)) = i - 1
<1>8. \A i \in 1..n : chosen(i) \in S /\ Cardinality(Before(chosen(i))) = i - 1
  BY <1>5
<1>9. ChildrenFirst(S) = [i \in 1..n |-> chosen(i)]
  BY DEF ChildrenFirst
<1>10. n \in Nat
  BY <1>1, FS_CardinalityType
<1> HIDE DEF n, chosen
<1>11. ChildrenFirst(S) \in Seq(S) /\ DOMAIN ChildrenFirst(S) = 1..n
  <2>1. \A i \in 1..n : chosen(i) \in S
    BY <1>8
  <2>2. ChildrenFirst(S) \in [1..n -> S]
    BY <1>9, <2>1, Zenon
  <2> HIDE DEF Before
  <2>3. QED
    BY <1>10, <2>2
<1>12. \A i \in 1..n : ChildrenFirst(S)[i] = chosen(i)
  BY <1>9
<1>13. ASSUME NEW t \in S PROVE \E i \in 1..n : chosen(i) = t
  <2> DEFINE i == Cardinality(Before(t)) + 1
  <2>0. Before(t) \in SUBSET S
    OBVIOUS
  <2>1. Cardinality(Before(t)) \in Nat
    BY <1>1, <2>0, FS_Subset, FS_CardinalityType
  <2>2. i \in 1..n /\ i - 1 = Cardinality(Before(t))
    BY <1>6, <2>1
  <2>3. chosen(i) \in S /\ Cardinality(Before(chosen(i))) = Cardinality(Before(t))
    BY <1>8, <2>2
  <2> HIDE DEF i, Before
  <2>4. chosen(i) = t
    BY <1>7, <2>3
  <2>5. QED
    BY <2>2, <2>4
<1>14. ASSUME NEW j \in 1..n, NEW i \in 1..(j - 1) PROVE chosen(i) \notin mAncestors[chosen(j)]
  <2>1. i \in 1..n /\ i - 1 < j - 1
    BY <1>10
  <2>2. /\ chosen(i) \in S /\ Cardinality(Before(chosen(i))) = i - 1
        /\ chosen(j) \in S /\ Cardinality(Before(chosen(j))) = j - 1
    BY <1>8, <2>1
  <2>3. ASSUME NEW a \in S, NEW b \in S, a \in mAncestors[b]
        PROVE  Cardinality(Before(b)) <= Cardinality(Before(a))
    <3>1. ListedBefore(b, a)
      BY <2>3 DEF ListedBefore
    <3>2. Before(b) \subseteq Before(a)
      BY <3>1, ListedBeforeOrders
    <3>3. Before(a) \subseteq S
      OBVIOUS
    <3> HIDE DEF Before
    <3>4. QED
      BY <1>1, <3>2, <3>3, FS_Subset
  <2> HIDE DEF Before
  <2>4. QED
    BY <1>10, <2>1, <2>2, <2>3
<1> HIDE DEF Before
<1>15. Elements(ChildrenFirst(S)) = S
  BY <1>8, <1>11, <1>12, <1>13 DEF Elements
<1>16. ASSUME NEW j \in DOMAIN ChildrenFirst(S), NEW i \in 1..(j - 1)
       PROVE  ChildrenFirst(S)[i] \notin mAncestors[ChildrenFirst(S)[j]]
  <2>1. j \in 1..n /\ i \in 1..n
    BY <1>10, <1>11
  <2>2. QED
    BY <1>12, <1>14, <2>1
<1>17. QED
  BY <1>11, <1>15, <1>16

-----------------------------------------------------------------------------
(***************************************************************************)
(* The tree: where a path starts, and what goes when a trigger goes.       *)
(***************************************************************************)
LEMMA RootOfIs ==
  ASSUME TypeOK, TreeOK, NEW t \in IDs
  PROVE  RootOf(t) \in Path(t) /\ RootOf(t) \in IDs
<1>1. Path(t) \subseteq Nat /\ Path(t) # {}
  BY PathsAreNumbers DEF Path
<1>2. Path(t) \subseteq IDs
  BY DEF Path, TypeOK
<1>3. PICK r \in Path(t) : \A a \in Path(t) : r <= a
  BY <1>1, Least
<1>4. mAncestors[r] = {}
  <2>1. mAncestors[r] \subseteq IDs /\ r \in IDs
    BY <1>2 DEF TypeOK
  <2>2. \A a \in mAncestors[r] : a < r /\ a \in Path(t)
    BY <2>1, <1>3 DEF TreeOK, Path
  <2>3. \A a \in mAncestors[r] : a < r /\ r <= a /\ a \in Nat /\ r \in Nat
    BY <1>1, <1>3, <2>2
  <2>4. QED
    BY <2>3
<1>5. RootOf(t) \in Path(t)
  BY <1>3, <1>4 DEF RootOf, Path
<1>6. QED
  BY <1>2, <1>5

LEMMA MapIsIDs == ASSUME TypeOK PROVE mTriggerMap \subseteq IDs
<1>1. mTriggerMap \subseteq 1..mMaxID /\ mMaxID \in 0..MaxTriggers
  BY DEF TypeOK
<1>2. QED
  BY <1>1, TriggerUnitAssumption DEF IDs

\* What is in a trigger of S is itself in S.
Closed(S) == \A t \in mTriggerMap : mAncestors[t] \intersect S # {} => t \in S

LEMMA SubtreesClosed ==
  ASSUME TypeOK, TreeOK, NEW S
  PROVE  Closed(S \union Descendants(S))
<1>1. SUFFICES ASSUME NEW t \in mTriggerMap,
                      mAncestors[t] \intersect (S \union Descendants(S)) # {}
               PROVE  mAncestors[t] \intersect S # {}
  BY DEF Closed, Descendants
<1>2. PICK a \in mAncestors[t] : a \in S \union Descendants(S)
  BY <1>1
<1>3. CASE a \in S
  BY <1>3, <1>2
<1>4. CASE a \in Descendants(S)
  <2>1. t \in IDs /\ a \in IDs
    BY <1>2, MapIsIDs DEF TypeOK
  <2>2. mAncestors[a] \subseteq mAncestors[t]
    BY <1>2, <2>1 DEF TreeOK
  <2>3. mAncestors[a] \intersect S # {}
    BY <1>4 DEF Descendants
  <2>4. QED
    BY <2>2, <2>3
<1>5. QED
  BY <1>2, <1>3, <1>4

\* Triggers freed with all that is in them leave a tree, a root list and
\* ancestors of triggers that exist.
LEMMA Freeing ==
  ASSUME TypeOK, TreeOK, NoDanglingPointers, NEW freed, Closed(freed),
         mTriggerMap' = mTriggerMap \ freed,
         mAncestors' = [t \in IDs |-> IF t \in freed THEN {} ELSE mAncestors[t]],
         mTriggerRootNodeList' = Without(mTriggerRootNodeList, freed)
  PROVE  /\ TreeOK'
         /\ mAncestors' \in [IDs -> SUBSET IDs]
         /\ \A t \in mTriggerMap' : mAncestors'[t] \subseteq mTriggerMap'
         /\ mTriggerRootNodeList' \in Seq(IDs)
         /\ Elements(mTriggerRootNodeList') \subseteq mTriggerMap'
         /\ Distinct(mTriggerRootNodeList) => Distinct(mTriggerRootNodeList')
<1>1. mAncestors \in [IDs -> SUBSET IDs] /\ mTriggerRootNodeList \in Seq(IDs)
      /\ mTriggerMap \subseteq IDs
  BY MapIsIDs DEF TypeOK
<1>2. mAncestors' \in [IDs -> SUBSET IDs]
  BY <1>1
<1>3. ASSUME NEW t \in mTriggerMap' PROVE mAncestors'[t] \subseteq mTriggerMap'
  <2>1. t \in mTriggerMap /\ t \notin freed /\ mAncestors'[t] = mAncestors[t]
    BY <1>1
  <2>2. mAncestors[t] \subseteq mTriggerMap /\ mAncestors[t] \intersect freed = {}
    BY <2>1 DEF NoDanglingPointers, Closed
  <2>3. QED
    BY <2>1, <2>2
<1>4. TreeOK'
  <2>1. ASSUME NEW t \in IDs, NEW a \in IDs, a \in mAncestors'[t]
        PROVE  a < t /\ mAncestors'[a] \subseteq mAncestors'[t]
    <3>1. t \notin freed /\ mAncestors'[t] = mAncestors[t] /\ a \in mAncestors[t]
      BY <2>1
    <3>2. a < t /\ mAncestors[a] \subseteq mAncestors[t]
      BY <3>1 DEF TreeOK
    <3>3. QED
      BY <3>1, <3>2
  <2>2. ASSUME NEW t \in IDs \ mTriggerMap' PROVE mAncestors'[t] = {}
    BY DEF TreeOK
  <2>3. QED
    BY <2>1, <2>2 DEF TreeOK
<1>5. /\ mTriggerRootNodeList' \in Seq(IDs)
      /\ Elements(mTriggerRootNodeList') = Elements(mTriggerRootNodeList) \ freed
      /\ Distinct(mTriggerRootNodeList) => Distinct(mTriggerRootNodeList')
  BY <1>1, WithoutIs
<1>6. Elements(mTriggerRootNodeList') \subseteq mTriggerMap'
  BY <1>5 DEF NoDanglingPointers
<1>7. QED
  BY <1>2, <1>3, <1>4, <1>5, <1>6

-----------------------------------------------------------------------------
(***************************************************************************)
(* The stack of passes.                                                    *)
(***************************************************************************)
LEMMA TopPass ==
  ASSUME TypeOK, passes # <<>>
  PROVE  /\ Len(passes) \in Nat \ {0} /\ DOMAIN passes = 1..Len(passes)
         /\ Len(passes) \in DOMAIN passes
         /\ Pass \in Passes
         /\ Pass.frames \in Seq(MatchCalls)
         /\ Pass.frames # <<>> => /\ Len(Pass.frames) \in Nat \ {0}
                                  /\ Len(Pass.frames) \in DOMAIN Pass.frames
                                  /\ Frame \in MatchCalls
<1>1. passes \in Seq(Passes)
  BY DEF TypeOK, Passes, MatchCalls
<1>2. Len(passes) \in Nat \ {0} /\ DOMAIN passes = 1..Len(passes)
      /\ Len(passes) \in DOMAIN passes
  BY <1>1
<1>3. Pass \in Passes
  BY <1>1, <1>2 DEF Pass
<1>4. Pass.frames \in Seq(MatchCalls)
  BY <1>3 DEF Passes
<1> HIDE DEF Pass
<1>5. Pass.frames # <<>> => /\ Len(Pass.frames) \in Nat \ {0}
                            /\ Len(Pass.frames) \in DOMAIN Pass.frames
                            /\ Frame \in MatchCalls
  BY <1>4 DEF Frame
<1>6. QED
  BY <1>2, <1>3, <1>4, <1>5

\* What has become of pass p after a step.
Becomes(p, q, i, n, o, c) ==
    /\ q \in Passes /\ q.pinned = p.pinned /\ q.first = p.first
    /\ q.position = i /\ q.next = n /\ q.offered = o /\ q.frames = c

LEMMA OneFieldSet ==
  ASSUME NEW p \in Passes, NEW i \in Nat, NEW n \in Nat, NEW o \in Seq(IDs),
         NEW c \in Seq(MatchCalls)
  PROVE  /\ Becomes(p, [p EXCEPT !.position = i], i, p.next, p.offered, p.frames)
         /\ Becomes(p, [p EXCEPT !.next = n], p.position, n, p.offered, p.frames)
         /\ Becomes(p, [p EXCEPT !.offered = o], p.position, p.next, o, p.frames)
         /\ Becomes(p, [p EXCEPT !.frames = c], p.position, p.next, p.offered, c)
<1>1. Becomes(p, [p EXCEPT !.position = i], i, p.next, p.offered, p.frames)
  BY DEF Becomes, Passes
<1>2. Becomes(p, [p EXCEPT !.next = n], p.position, n, p.offered, p.frames)
  BY DEF Becomes, Passes
<1>3. Becomes(p, [p EXCEPT !.offered = o], p.position, p.next, o, p.frames)
  BY DEF Becomes, Passes
<1>4. Becomes(p, [p EXCEPT !.frames = c], p.position, p.next, p.offered, c)
  BY DEF Becomes, Passes
<1>5. QED
  BY <1>1, <1>2, <1>3, <1>4

LEMMA FieldsSet ==
  ASSUME NEW p \in Passes, NEW i \in Nat, NEW n \in Nat, NEW o \in Seq(IDs),
         NEW c \in Seq(MatchCalls)
  PROVE  /\ Becomes(p, [p EXCEPT !.position = i, !.offered = o, !.frames = c], i, p.next, o, c)
         /\ Becomes(p, [p EXCEPT !.position = i, !.offered = o, !.next = n], i, n, o, p.frames)
         /\ Becomes(p, [p EXCEPT !.next = n, !.offered = o], p.position, n, o, p.frames)
         /\ Becomes(p, [p EXCEPT !.next = n, !.offered = o, !.frames = c], p.position, n, o, c)
<1> DEFINE q == [p EXCEPT !.position = i]
           r == [q EXCEPT !.offered = o]
           s == [p EXCEPT !.next = n]
           t == [s EXCEPT !.offered = o]
<1>1. Becomes(p, q, i, p.next, p.offered, p.frames) /\ Becomes(p, s, p.position, n, p.offered, p.frames)
  BY OneFieldSet
<1>2. q \in Passes /\ s \in Passes
  BY <1>1 DEF Becomes
<1>3. [r EXCEPT !.frames = c] = [p EXCEPT !.position = i, !.offered = o, !.frames = c]
      /\ [r EXCEPT !.next = n] = [p EXCEPT !.position = i, !.offered = o, !.next = n]
      /\ t = [p EXCEPT !.next = n, !.offered = o]
      /\ [t EXCEPT !.frames = c] = [p EXCEPT !.next = n, !.offered = o, !.frames = c]
  OBVIOUS
<1> HIDE DEF q, s
<1>4. Becomes(q, r, q.position, q.next, o, q.frames) /\ Becomes(s, t, s.position, s.next, o, s.frames)
  BY <1>2, OneFieldSet
<1>5. r \in Passes /\ t \in Passes
  BY <1>4 DEF Becomes
<1> HIDE DEF r, t
<1>6. /\ Becomes(r, [r EXCEPT !.frames = c], r.position, r.next, r.offered, c)
      /\ Becomes(r, [r EXCEPT !.next = n], r.position, n, r.offered, r.frames)
      /\ Becomes(t, [t EXCEPT !.frames = c], t.position, t.next, t.offered, c)
  BY <1>5, OneFieldSet
<1> DEFINE u == [r EXCEPT !.frames = c]
           v == [r EXCEPT !.next = n]
           w == [t EXCEPT !.frames = c]
<1> HIDE DEF u, v, w
<1>7. /\ Becomes(p, u, i, p.next, o, c)
      /\ Becomes(p, v, i, n, o, p.frames)
      /\ Becomes(p, t, p.position, n, o, p.frames)
      /\ Becomes(p, w, p.position, n, o, c)
  BY <1>1, <1>4, <1>6 DEF Becomes, u, v, w
<1>8. QED
  BY <1>3, <1>7 DEF u, v, w

\* A pass has gone on, and nothing else about the stack has changed.
Moved ==
    /\ passes # <<>>
    /\ passes' \in Seq(Passes) /\ DOMAIN passes' = DOMAIN passes /\ Len(passes') = Len(passes)
    /\ \A n \in DOMAIN passes :
          /\ passes'[n].pinned = passes[n].pinned
          /\ passes'[n].first = passes[n].first
          /\ \A k \in DOMAIN passes'[n].frames : passes'[n].frames[k].trigger \in mTriggerMap

\* The top pass has become a pass at place i of the pinned roots and n of the added
\* ones, with o as the roots that have had their turn.
Goes(i, n, o) ==
    \E p \in Passes, c \in Seq(MatchCalls) :
        /\ SetPass(p) /\ Becomes(Pass, p, i, n, o, c)
        /\ \A k \in DOMAIN c : c[k].trigger \in mTriggerMap

LEMMA PassGoesOn ==
  ASSUME TypeOK, NoDanglingPointers, passes # <<>>, NEW i, NEW n, NEW o, Goes(i, n, o)
  PROVE  Moved
<1>1. passes \in Seq(Passes) /\ Len(passes) \in DOMAIN passes
  BY TopPass DEF TypeOK, Passes, MatchCalls
<1>2. PICK p \in Passes, c \in Seq(MatchCalls) :
         /\ SetPass(p) /\ Becomes(Pass, p, i, n, o, c)
         /\ \A k \in DOMAIN c : c[k].trigger \in mTriggerMap
  BY DEF Goes
<1>3. passes' = [passes EXCEPT ![Len(passes)] = p]
  BY <1>2 DEF SetPass
<1>4. passes' \in Seq(Passes) /\ DOMAIN passes' = DOMAIN passes /\ Len(passes') = Len(passes)
  BY <1>1, <1>3
<1>5. \A m \in DOMAIN passes : passes'[m] = IF m = Len(passes) THEN p ELSE passes[m]
  BY <1>1, <1>3
<1>6. /\ p.pinned = Pass.pinned /\ p.first = Pass.first
      /\ \A k \in DOMAIN p.frames : p.frames[k].trigger \in mTriggerMap
  BY <1>2 DEF Becomes
<1>7. ASSUME NEW m \in DOMAIN passes
      PROVE  /\ passes'[m].pinned = passes[m].pinned
             /\ passes'[m].first = passes[m].first
             /\ \A k \in DOMAIN passes'[m].frames :
                   passes'[m].frames[k].trigger \in mTriggerMap
  <2>1. CASE m = Len(passes)
    BY <1>5, <1>6, <2>1 DEF Pass
  <2>2. CASE m # Len(passes)
    BY <1>5, <2>2 DEF NoDanglingPointers
  <2>3. QED
    BY <2>1, <2>2
<1>8. QED
  BY <1>4, <1>7 DEF Moved

LEMMA MatchCallType ==
  ASSUME TypeOK, NEW t \in IDs
  PROVE  MatchCall(t) \in MatchCalls /\ MatchCall(t).trigger = t
<1>1. QED
  BY DEF MatchCall, MatchCalls

-----------------------------------------------------------------------------
(***************************************************************************)
(* The steps within a pass.                                                *)
(***************************************************************************)
LEMMA PinnedAndCalledExist ==
  ASSUME TypeOK, NoDanglingPointers, passes # <<>>
  PROVE  /\ \A i \in DOMAIN Pass.pinned : Pass.pinned[i] \in mTriggerMap
         /\ \A k \in DOMAIN Pass.frames : Pass.frames[k].trigger \in mTriggerMap
<1>1. Len(passes) \in DOMAIN passes
  BY TopPass
<1>2. QED
  BY <1>1 DEF NoDanglingPointers, Pass, Elements

LEMMA OfferedIsOfIDs ==
  ASSUME TypeOK, passes # <<>>
  PROVE  /\ \A i \in 0..Len(Pass.pinned) : OfferedUpTo(i) \in Seq(IDs)
         /\ Added \in IDs \union {0} => OfferedToAdded \in Seq(IDs)
<1>1. /\ Pass.pinned \in Seq(IDs) /\ Pass.position \in Nat /\ Pass.offered \in Seq(IDs)
  BY TopPass DEF Passes
<1>2. ASSUME NEW i \in 0..Len(Pass.pinned) PROVE OfferedUpTo(i) \in Seq(IDs)
  <2>1. SubSeq(Pass.pinned, Pass.position + 1, i) \in Seq(IDs)
    BY <1>1, MiddleIs
  <2>2. QED
    BY <1>1, <2>1 DEF OfferedUpTo
<1>3. Added \in IDs \union {0} => OfferedToAdded \in Seq(IDs)
  BY <1>1 DEF OfferedToAdded
<1>4. QED
  BY <1>2, <1>3

LEMMA RootStepsGo ==
  ASSUME TypeOK, NoDanglingPointers
  PROVE  /\ MatchRoot =>
               /\ passes # <<>> /\ Pass.next = 0
               /\ \E i \in (Pass.position + 1)..Len(Pass.pinned) : Goes(i, 0, OfferedUpTo(i))
         /\ EndOfRoots =>
               /\ passes # <<>> /\ Pass.next = 0
               /\ Goes(Len(Pass.pinned), Pass.first + 1, OfferedUpTo(Len(Pass.pinned)))
<1>1. MatchRoot \/ EndOfRoots => passes # <<>> /\ Pass.next = 0
  BY DEF MatchRoot, EndOfRoots, BetweenRoots
<1>2. passes # <<>> => /\ Pass \in Passes /\ Pass.pinned \in Seq(IDs) /\ Pass.position \in Nat
                       /\ Pass.first \in Nat /\ Pass.next \in Nat
                       /\ Pass.frames \in Seq(MatchCalls) /\ Len(Pass.pinned) \in Nat
  BY TopPass DEF Passes
<1>3. ASSUME MatchRoot
      PROVE  \E i \in (Pass.position + 1)..Len(Pass.pinned) : Goes(i, 0, OfferedUpTo(i))
  <2>1. PICK i \in (Pass.position + 1)..Len(Pass.pinned) :
           SetPass([Pass EXCEPT !.position = i, !.offered = OfferedUpTo(i),
                                !.frames = <<MatchCall(Pass.pinned[i])>>])
    BY <1>3 DEF MatchRoot
  <2> DEFINE t == Pass.pinned[i]
             calls == <<MatchCall(t)>>
             o == OfferedUpTo(i)
             p == [Pass EXCEPT !.position = i, !.offered = o, !.frames = calls]
  <2>2. i \in DOMAIN Pass.pinned /\ i \in Nat /\ i \in 0..Len(Pass.pinned)
    BY <1>1, <1>2, <1>3
  <2>3. o \in Seq(IDs)
    BY <1>1, <1>3, <2>2, OfferedIsOfIDs
  <2>4. t \in IDs /\ t \in mTriggerMap
    BY <1>1, <1>2, <1>3, <2>2, PinnedAndCalledExist
  <2>5. SetPass(p)
    BY <2>1
  <2> HIDE DEF t, o
  <2>6. MatchCall(t) \in MatchCalls /\ MatchCall(t).trigger = t
    BY <2>4, MatchCallType
  <2>7. calls \in Seq(MatchCalls) /\ \A k \in DOMAIN calls : calls[k].trigger \in mTriggerMap
    BY <2>4, <2>6
  <2> HIDE DEF calls
  <2>8. Becomes(Pass, p, i, Pass.next, o, calls)
    BY <1>1, <1>2, <1>3, <2>2, <2>3, <2>7, FieldsSet
  <2> HIDE DEF p
  <2>9. Becomes(Pass, p, i, 0, o, calls) /\ p \in Passes
    BY <1>1, <1>3, <2>8 DEF Becomes
  <2>10. Goes(i, 0, o)
    BY <2>5, <2>7, <2>9 DEF Goes
  <2>11. QED
    BY <2>10 DEF o
<1>4. ASSUME EndOfRoots
      PROVE  Goes(Len(Pass.pinned), Pass.first + 1, OfferedUpTo(Len(Pass.pinned)))
  <2> DEFINE i == Len(Pass.pinned)
             n == Pass.first + 1
             o == OfferedUpTo(i)
             p == [Pass EXCEPT !.position = i, !.offered = o, !.next = n]
  <2>1. SetPass(p)
    BY <1>4 DEF EndOfRoots
  <2>2. i \in Nat /\ i \in 0..Len(Pass.pinned) /\ n \in Nat
    BY <1>1, <1>2, <1>4
  <2>3. o \in Seq(IDs)
    BY <1>1, <1>4, <2>2, OfferedIsOfIDs
  <2>4. \A k \in DOMAIN Pass.frames : Pass.frames[k].trigger \in mTriggerMap
    BY <1>1, <1>4, PinnedAndCalledExist
  <2> HIDE DEF i, n, o
  <2>5. Becomes(Pass, p, i, n, o, Pass.frames)
    BY <1>1, <1>2, <1>4, <2>2, <2>3, FieldsSet
  <2> HIDE DEF p
  <2>6. p \in Passes
    BY <2>5 DEF Becomes
  <2>7. Goes(i, n, o)
    BY <1>1, <1>2, <1>4, <2>1, <2>4, <2>5, <2>6 DEF Goes
  <2>8. QED
    BY <2>7 DEF i, n, o
<1>5. QED
  BY <1>1, <1>3, <1>4

LEMMA AddedExists ==
  ASSUME TypeOK, NoDanglingPointers, BetweenAdded, ~AddedLoopEnds
  PROVE  /\ Pass.next \in DOMAIN mRootNodesAddedWhileProcessing
         /\ Added # 0 => Added \in IDs /\ Added \in mTriggerMap
<1>1. Pass \in Passes
  BY TopPass DEF BetweenAdded
<1>2. Pass.next \in DOMAIN mRootNodesAddedWhileProcessing
  <2>1. Pass.next \in Nat /\ Pass.next > 0 /\ Pass.next <= Len(mRootNodesAddedWhileProcessing)
    BY <1>1 DEF Passes, BetweenAdded, AddedLoopEnds, TypeOK
  <2>2. mRootNodesAddedWhileProcessing \in Seq(IDs \union {0})
    BY DEF TypeOK
  <2>3. QED
    BY <2>1, <2>2
<1>3. Added # 0 => Added \in Elements(mRootNodesAddedWhileProcessing) \ {0}
  BY <1>2 DEF Added, Elements
<1>4. QED
  BY <1>2, <1>3, MapIsIDs DEF NoDanglingPointers

LEMMA AddedStepsGo ==
  ASSUME TypeOK, NoDanglingPointers, PassOverAdded \/ MatchAdded \/ StopSameLineCreationLoop
  PROVE  /\ passes # <<>> /\ BetweenAdded /\ ~AddedLoopEnds
         /\ Goes(Pass.position, Pass.next + 1, OfferedToAdded)
<1>1. passes # <<>> /\ BetweenAdded /\ ~AddedLoopEnds
  BY DEF PassOverAdded, MatchAdded, StopSameLineCreationLoop, BetweenAdded
<1>2. /\ Pass \in Passes /\ Pass.position \in Nat /\ Pass.next \in Nat
      /\ Pass.frames \in Seq(MatchCalls) /\ Pass.next + 1 \in Nat
  BY <1>1, TopPass DEF Passes
<1> DEFINE o == OfferedToAdded
           n == Pass.next + 1
<1>3. o \in Seq(IDs) /\ n \in Nat
  <2>1. Added \in IDs \union {0}
    BY <1>1, AddedExists
  <2>2. QED
    BY <1>1, <1>2, <2>1, OfferedIsOfIDs
<1>4. CASE PassOverAdded \/ StopSameLineCreationLoop
  <2> DEFINE p == [Pass EXCEPT !.next = n, !.offered = o]
  <2>1. SetPass(p)
    BY <1>4 DEF PassOverAdded, StopSameLineCreationLoop
  <2>2. \A k \in DOMAIN Pass.frames : Pass.frames[k].trigger \in mTriggerMap
    BY <1>1, PinnedAndCalledExist
  <2> HIDE DEF n, o
  <2>3. Becomes(Pass, p, Pass.position, n, o, Pass.frames)
    BY <1>2, <1>3, FieldsSet
  <2> HIDE DEF p
  <2>4. p \in Passes
    BY <2>3 DEF Becomes
  <2>5. Goes(Pass.position, n, o)
    BY <1>2, <2>1, <2>2, <2>3, <2>4 DEF Goes
  <2>6. QED
    BY <1>1, <2>5 DEF n, o
<1>5. CASE MatchAdded
  <2> DEFINE calls == <<MatchCall(Added)>>
             p == [Pass EXCEPT !.next = n, !.offered = o, !.frames = calls]
  <2>1. Added \in IDs /\ Added \in mTriggerMap
    BY <1>1, <1>5, AddedExists DEF MatchAdded
  <2>2. MatchCall(Added) \in MatchCalls /\ MatchCall(Added).trigger = Added
    BY <2>1, MatchCallType
  <2>3. calls \in Seq(MatchCalls) /\ \A k \in DOMAIN calls : calls[k].trigger \in mTriggerMap
    BY <2>1, <2>2
  <2>4. SetPass(p)
    BY <1>5 DEF MatchAdded
  <2> HIDE DEF n, o, calls
  <2>5. Becomes(Pass, p, Pass.position, n, o, calls)
    BY <1>2, <1>3, <2>3, FieldsSet
  <2> HIDE DEF p
  <2>6. p \in Passes
    BY <2>5 DEF Becomes
  <2>7. Goes(Pass.position, n, o)
    BY <2>3, <2>4, <2>5, <2>6 DEF Goes
  <2>8. QED
    BY <1>1, <2>7 DEF n, o
<1>6. QED
  BY <1>4, <1>5

\* The top pass with other calls on it.
LEMMA CallsReplaced ==
  ASSUME TypeOK, NoDanglingPointers, passes # <<>>, NEW calls \in Seq(MatchCalls),
         SetPass([Pass EXCEPT !.frames = calls]),
         \A k \in DOMAIN calls : calls[k].trigger \in mTriggerMap
  PROVE  Goes(Pass.position, Pass.next, Pass.offered)
<1> DEFINE p == [Pass EXCEPT !.frames = calls]
<1>1. Becomes(Pass, p, Pass.position, Pass.next, Pass.offered, calls)
  <2>1. /\ Pass \in Passes /\ Pass.position \in Nat /\ Pass.next \in Nat
        /\ Pass.offered \in Seq(IDs)
    BY TopPass DEF Passes
  <2>2. QED
    BY <2>1, OneFieldSet
<1>2. SetPass(p)
  OBVIOUS
<1> HIDE DEF p
<1>3. p \in Passes
  BY <1>1 DEF Becomes
<1>4. QED
  BY <1>1, <1>2, <1>3 DEF Goes

LEMMA CallStepsGo ==
  ASSUME TypeOK, NoDanglingPointers, ScriptReturns \/ MatchChild \/ MatchReturns
  PROVE  passes # <<>> /\ Goes(Pass.position, Pass.next, Pass.offered)
<1> DEFINE calls == Pass.frames
<1>1. passes # <<>> /\ Pass \in Passes /\ calls # <<>>
  BY TopPass DEF ScriptReturns, MatchChild, MatchReturns, ScriptRuns, InChildren
<1>2. /\ calls \in Seq(MatchCalls) /\ Len(calls) \in Nat \ {0} /\ Len(calls) \in DOMAIN calls
      /\ Frame \in MatchCalls /\ Frame = calls[Len(calls)]
  BY <1>1, TopPass DEF Frame
<1>3. \A k \in DOMAIN calls : calls[k].trigger \in mTriggerMap
  BY <1>1, PinnedAndCalledExist
<1>4. CASE ScriptReturns
  <2> DEFINE f == [Frame EXCEPT !.stage = "children"]
             others == [calls EXCEPT ![Len(calls)] = f]
  <2>1. f \in MatchCalls /\ f.trigger = Frame.trigger
    BY <1>2 DEF MatchCalls
  <2>2. SetPass([Pass EXCEPT !.frames[Len(calls)] = f])
    BY <1>4 DEF ScriptReturns, SetFrame
  <2>3. [Pass EXCEPT !.frames[Len(calls)] = f] = [Pass EXCEPT !.frames = others]
    OBVIOUS
  <2> HIDE DEF f, calls
  <2>4. others \in Seq(MatchCalls) /\ DOMAIN others = DOMAIN calls
        /\ \A k \in DOMAIN calls : others[k] = IF k = Len(calls) THEN f ELSE calls[k]
    BY <1>2, <2>1
  <2>5. \A k \in DOMAIN others : others[k].trigger \in mTriggerMap
    BY <1>2, <1>3, <2>1, <2>4
  <2> HIDE DEF others
  <2>6. QED
    BY <1>1, <2>2, <2>3, <2>4, <2>5, CallsReplaced
<1>5. CASE MatchChild
  <2>1. PICK c \in Children(Frame.trigger) :
           SetPass([Pass EXCEPT !.frames =
                       Append([calls EXCEPT ![Len(calls)].at = c], MatchCall(c))])
    BY <1>5 DEF MatchChild
  <2> DEFINE f == [calls[Len(calls)] EXCEPT !.at = c]
             under == [calls EXCEPT ![Len(calls)] = f]
             others == Append(under, MatchCall(c))
  <2>2. c \in mTriggerMap /\ c \in IDs
    BY MapIsIDs DEF Children
  <2>3. f \in MatchCalls /\ f.trigger = Frame.trigger
    BY <1>2, <2>2 DEF MatchCalls
  <2>4. SetPass([Pass EXCEPT !.frames = others])
    BY <2>1
  <2> HIDE DEF f, calls
  <2>5. under \in Seq(MatchCalls) /\ DOMAIN under = DOMAIN calls /\ Len(under) = Len(calls)
        /\ \A k \in DOMAIN calls : under[k] = IF k = Len(calls) THEN f ELSE calls[k]
    BY <1>2, <2>3
  <2>6. \A k \in DOMAIN under : under[k].trigger \in mTriggerMap
    BY <1>2, <1>3, <2>3, <2>5
  <2>7. MatchCall(c) \in MatchCalls /\ MatchCall(c).trigger \in mTriggerMap
    BY <2>2, MatchCallType
  <2> HIDE DEF under
  <2>8. others \in Seq(MatchCalls) /\ \A k \in DOMAIN others : others[k].trigger \in mTriggerMap
    BY <2>5, <2>6, <2>7
  <2> HIDE DEF others
  <2>9. QED
    BY <1>1, <2>4, <2>8, CallsReplaced
<1>6. CASE MatchReturns
  <2> DEFINE others == SubSeq(calls, 1, Len(calls) - 1)
  <2>1. SetPass([Pass EXCEPT !.frames = others])
    BY <1>6 DEF MatchReturns
  <2> HIDE DEF calls
  <2>2. others \in Seq(MatchCalls) /\ DOMAIN others \subseteq DOMAIN calls
        /\ \A k \in DOMAIN others : others[k] = calls[k]
    BY <1>2
  <2>3. \A k \in DOMAIN others : others[k].trigger \in mTriggerMap
    BY <1>3, <2>2
  <2> HIDE DEF others
  <2>4. QED
    BY <1>1, <2>1, <2>2, <2>3, CallsReplaced
<1>7. QED
  BY <1>4, <1>5, <1>6

-----------------------------------------------------------------------------
(***************************************************************************)
(* What each kind of step leaves of the invariant.                         *)
(***************************************************************************)
treeAndLists == <<items, mTriggerRootNodeList, lineage>>

LEMMA MovingKeepsIInv ==
  ASSUME IInv, Moved, UNCHANGED <<treeAndLists, uninstallList, mInstalledPackages>>,
         mRunawayFeedStopped' = mRunawayFeedStopped,
         mActive' \subseteq mActive, mUserActiveState' \subseteq mUserActiveState,
         mExpiryCount' \in [IDs -> Int], mCleanupSet' \subseteq mTriggerMap,
         \A t \in mCleanupSet' : t \in mCleanupSet \/ t \notin mActive'
  PROVE  IInv'
<1> USE DEF treeAndLists, items, lineage
<1>1. TypeOK'
  <2>1. passes' \in Seq(Passes) /\ mCleanupSet' \subseteq IDs
    BY MapIsIDs DEF Moved, IInv
  <2>2. QED
    BY <2>1 DEF IInv, TypeOK, Passes, MatchCalls, IDs
<1>2. TreeOK'
  BY DEF IInv, TreeOK
<1>3. NoDanglingPointers'
  <2>1. \A n \in DOMAIN passes' :
           /\ Elements(passes'[n].pinned) \subseteq mTriggerMap'
           /\ \A k \in DOMAIN passes'[n].frames : passes'[n].frames[k].trigger \in mTriggerMap'
    BY DEF IInv, NoDanglingPointers, Moved
  <2>2. QED
    BY <2>1 DEF IInv, NoDanglingPointers
<1>4. IdleOK'
  <2>1. passes' # <<>>
    <3>1. passes \in Seq(Passes) /\ passes # <<>>
      BY DEF Moved, IInv, TypeOK, Passes, MatchCalls
    <3>2. QED
      BY <3>1 DEF Moved
  <2>2. QED
    BY <2>1 DEF IdleOK
<1>5. OffersOK'
  BY DEF IInv, OffersOK, Moved
<1>6. NothingPendingIsActive'
  BY DEF IInv, NothingPendingIsActive, IsActive
<1>7. QED
  BY <1>1, <1>2, <1>3, <1>4, <1>5, <1>6 DEF IInv

LEMMA QueueingKeepsIInv ==
  ASSUME IInv, UNCHANGED <<treeAndLists, passes>>,
         mRunawayFeedStopped' \in BOOLEAN, mInstalledPackages' \in BOOLEAN,
         mActive' \subseteq mTriggerMap, mUserActiveState' \subseteq mTriggerMap,
         mExpiryCount' \in [IDs -> Int], mCleanupSet' \subseteq mTriggerMap,
         uninstallList' \in Seq(IDs), Elements(uninstallList') \subseteq mTriggerMap,
         passes = <<>> => uninstallList' = <<>>,
         NothingPendingIsActive'
  PROVE  IInv'
<1> USE DEF treeAndLists, items, lineage
<1>1. TypeOK'
  <2>1. mCleanupSet' \subseteq IDs
    BY MapIsIDs DEF IInv
  <2>2. QED
    BY <2>1 DEF IInv, TypeOK, IDs
<1>2. TreeOK'
  BY DEF IInv, TreeOK
<1>3. NoDanglingPointers'
  BY DEF IInv, NoDanglingPointers
<1>4. IdleOK'
  BY DEF IInv, IdleOK
<1>5. OffersOK'
  BY DEF IInv, OffersOK
<1>6. QED
  BY <1>1, <1>2, <1>3, <1>4, <1>5 DEF IInv

LEMMA StartingKeepsIInv ==
  ASSUME IInv, StartPass,
         UNCHANGED <<treeAndLists, actives, mExpiryCount, doomed, mInstalledPackages>>,
         mRunawayFeedStopped' = mRunawayFeedStopped
  PROVE  IInv'
<1> USE DEF treeAndLists, items, lineage, actives, doomed
<1> DEFINE p == [pinned |-> mTriggerRootNodeList, position |-> 0,
                 first |-> Len(mRootNodesAddedWhileProcessing), next |-> 0, frames |-> <<>>,
                 offered |-> <<>>]
<1>1. mTriggerRootNodeList \in Seq(IDs) /\ Len(mRootNodesAddedWhileProcessing) \in Nat
      /\ DOMAIN mRootNodesAddedWhileProcessing = 1..Len(mRootNodesAddedWhileProcessing)
      /\ passes \in Seq(Passes)
  BY DEF IInv, TypeOK, Passes, MatchCalls
<1>2. p \in Passes
  BY <1>1 DEF Passes
<1>3. /\ p.pinned = mTriggerRootNodeList /\ p.first = Len(mRootNodesAddedWhileProcessing)
      /\ p.frames = <<>> /\ DOMAIN p.frames = {}
  OBVIOUS
<1>4. passes' = Append(passes, p)
  BY DEF StartPass
<1> HIDE DEF p
<1>5. /\ passes' \in Seq(Passes) /\ passes' # <<>>
      /\ \A n \in DOMAIN passes' : (n \in DOMAIN passes /\ passes'[n] = passes[n]) \/ passes'[n] = p
  BY <1>1, <1>2, <1>4
<1>6. TypeOK'
  BY <1>5 DEF IInv, TypeOK, Passes, MatchCalls, IDs
<1>7. TreeOK'
  BY DEF IInv, TreeOK
<1>8. NoDanglingPointers'
  <2>1. \A n \in DOMAIN passes' :
           /\ Elements(passes'[n].pinned) \subseteq mTriggerMap'
           /\ \A k \in DOMAIN passes'[n].frames : passes'[n].frames[k].trigger \in mTriggerMap'
    BY <1>3, <1>5 DEF IInv, NoDanglingPointers
  <2>2. QED
    BY <2>1 DEF IInv, NoDanglingPointers
<1>9. IdleOK'
  BY <1>5 DEF IdleOK
<1>10. OffersOK'
  <2>1. ASSUME NEW n \in DOMAIN passes', passes'[n] = p
        PROVE  /\ Distinct(passes'[n].pinned)
               /\ passes'[n].first <= Len(mRootNodesAddedWhileProcessing)
               /\ \A i \in DOMAIN mRootNodesAddedWhileProcessing : ~(i > passes'[n].first)
               /\ Elements(mTriggerRootNodeList) \ Elements(passes'[n].pinned) = {}
    BY <1>1, <1>3, <2>1 DEF IInv, OffersOK
  <2>2. QED
    BY <1>5, <2>1 DEF IInv, OffersOK
<1>11. NothingPendingIsActive'
  BY DEF IInv, NothingPendingIsActive, IsActive
<1>12. QED
  BY <1>6, <1>7, <1>8, <1>9, <1>10, <1>11 DEF IInv

\* A pass ends that another one waits for.
LEMMA EndingKeepsIInv ==
  ASSUME IInv, Len(passes) > 1, passes' = SubSeq(passes, 1, Len(passes) - 1),
         UNCHANGED <<treeAndLists, actives, mExpiryCount, doomed, mInstalledPackages>>,
         mRunawayFeedStopped' \in BOOLEAN
  PROVE  IInv'
<1> USE DEF treeAndLists, items, lineage, actives, doomed
<1>1. passes \in Seq(Passes)
  BY DEF IInv, TypeOK, Passes, MatchCalls
<1>2. /\ passes' \in Seq(Passes) /\ passes' # <<>>
      /\ \A n \in DOMAIN passes' : n \in DOMAIN passes /\ passes'[n] = passes[n]
  <2>1. Len(passes) \in Nat /\ Len(passes) - 1 \in Nat /\ DOMAIN passes = 1..Len(passes)
    BY <1>1
  <2>2. passes' \in Seq(Passes) /\ Len(passes') = Len(passes) - 1
        /\ DOMAIN passes' = 1..(Len(passes) - 1)
    BY <1>1, <2>1
  <2>3. \A n \in 1..(Len(passes) - 1) : passes'[n] = passes[n]
    BY <1>1, <2>1
  <2>4. Len(passes') # 0 /\ Len(<<>>) = 0
    BY <2>1, <2>2
  <2>5. passes' # <<>>
    BY <2>4, Zenon
  <2>6. QED
    BY <2>1, <2>2, <2>3, <2>5
<1>3. TypeOK'
  BY <1>2 DEF IInv, TypeOK, Passes, MatchCalls, IDs
<1>4. TreeOK'
  BY DEF IInv, TreeOK
<1>5. NoDanglingPointers'
  BY <1>2 DEF IInv, NoDanglingPointers
<1>6. IdleOK'
  BY <1>2 DEF IdleOK
<1>7. OffersOK'
  BY <1>2 DEF IInv, OffersOK
<1>8. NothingPendingIsActive'
  BY DEF IInv, NothingPendingIsActive, IsActive
<1>9. QED
  BY <1>3, <1>4, <1>5, <1>6, <1>7, <1>8 DEF IInv

LEMMA FreeingKeepsIInv ==
  ASSUME IInv, NEW freed, Closed(freed),
         mTriggerMap' = mTriggerMap \ freed,
         mAncestors' = [t \in IDs |-> IF t \in freed THEN {} ELSE mAncestors[t]],
         mExpiryCount' = [t \in IDs |-> IF t \in freed THEN -1 ELSE mExpiryCount[t]],
         mTriggerRootNodeList' = Without(mTriggerRootNodeList, freed),
         UNCHANGED <<mMaxID, mPackageName>>,
         mTemporary' \subseteq mTriggerMap \ freed,
         mActive' \subseteq mTriggerMap \ freed,
         mUserActiveState' \subseteq mTriggerMap \ freed,
         mCleanupSet' \subseteq mCleanupSet \ freed,
         passes' = <<>>, mRootNodesAddedWhileProcessing' = <<>>, uninstallList' = <<>>,
         mSameLineChain' \in [IDs -> [chain : Nat, generation : Nat]],
         mRunawayFeedStopped' \in BOOLEAN, mInstalledPackages' \in BOOLEAN,
         NothingPendingIsActive'
  PROVE  IInv'
<1>1. /\ TreeOK'
      /\ mAncestors' \in [IDs -> SUBSET IDs]
      /\ \A t \in mTriggerMap' : mAncestors'[t] \subseteq mTriggerMap'
      /\ mTriggerRootNodeList' \in Seq(IDs)
      /\ Elements(mTriggerRootNodeList') \subseteq mTriggerMap'
      /\ Distinct(mTriggerRootNodeList) => Distinct(mTriggerRootNodeList')
  BY Freeing DEF IInv
<1>2. /\ passes' \in Seq(Passes) /\ uninstallList' \in Seq(IDs)
      /\ mRootNodesAddedWhileProcessing' \in Seq(IDs \union {0})
      /\ DOMAIN passes' = {} /\ DOMAIN uninstallList' = {}
      /\ DOMAIN mRootNodesAddedWhileProcessing' = {}
  OBVIOUS
<1>3. mExpiryCount' \in [IDs -> Int]
  BY DEF IInv, TypeOK
<1>4. TypeOK'
  <2>1. IDs' = IDs
    BY DEF IDs
  <2>2. mTemporary' \subseteq mTriggerMap' /\ mActive' \subseteq mTriggerMap'
        /\ mUserActiveState' \subseteq mTriggerMap' /\ mCleanupSet' \subseteq IDs
        /\ mTriggerMap' \subseteq 1..mMaxID' /\ mMaxID' \in 0..MaxTriggers
        /\ mPackageName' \subseteq 1..mMaxID'
    BY DEF IInv, TypeOK
  <2>3. QED
    BY <1>1, <1>2, <1>3, <2>1, <2>2 DEF TypeOK, Passes, MatchCalls
<1>5. NoDanglingPointers'
  <2>1. mCleanupSet' \subseteq mTriggerMap'
    BY DEF IInv, NoDanglingPointers
  <2>2. QED
    BY <1>1, <1>2, <2>1 DEF NoDanglingPointers, Elements
<1>6. IdleOK'
  BY DEF IdleOK
<1>7. OffersOK'
  BY <1>1, <1>2 DEF IInv, OffersOK
<1>8. QED
  BY <1>1, <1>4, <1>5, <1>6, <1>7 DEF IInv

-----------------------------------------------------------------------------
(***************************************************************************)
(* New triggers.                                                           *)
(***************************************************************************)
LEMMA ChainType ==
  ASSUME IInv, NEW t \in IDs
  PROVE  SameLineChainOfNew(t) \in [chain : Nat, generation : Nat]
<1>1. mSameLineChain \in [IDs -> [chain : Nat, generation : Nat]]
  BY DEF IInv, TypeOK
<1>2. CurrentSameLineChain \in [chain : Nat, generation : Nat]
  <2>1. CASE ScriptRuns
    <3>1. Frame.trigger \in IDs
      BY <2>1, TopPass DEF ScriptRuns, IInv, MatchCalls
    <3>2. RootOf(Frame.trigger) \in IDs
      BY <3>1, RootOfIs DEF IInv
    <3>3. QED
      BY <1>1, <2>1, <3>2 DEF CurrentSameLineChain
  <2>2. CASE ~ScriptRuns
    BY <2>2 DEF CurrentSameLineChain, NoChain
  <2>3. QED
    BY <2>1, <2>2
<1>3. t \in Nat
  BY DEF IDs
<1>4. QED
  BY <1>2, <1>3 DEF SameLineChainOfNew

\* A root joins the list, and what is remembered of the line.
Joins(t) ==
    /\ mTriggerRootNodeList' \in Seq(IDs) /\ Distinct(mTriggerRootNodeList')
    /\ Elements(mTriggerRootNodeList') = Elements(mTriggerRootNodeList) \union {t}
    /\ IF mProcessingDepth > 0
       THEN /\ mRootNodesAddedWhileProcessing' = Append(mRootNodesAddedWhileProcessing, t)
            /\ mSameLineChain' = [mSameLineChain EXCEPT ![t] = SameLineChainOfNew(t)]
       ELSE UNCHANGED lineage

\* A new trigger is in no list.
LEMMA NewIsNowhere ==
  ASSUME IInv, NEW t \in IDs, t > mMaxID
  PROVE  /\ t \notin mTriggerMap /\ t \notin Elements(mTriggerRootNodeList)
         /\ t \notin Elements(mRootNodesAddedWhileProcessing)
         /\ t \notin mCleanupSet /\ t \notin Elements(uninstallList)
         /\ \A n \in DOMAIN passes : t \notin Elements(passes[n].pinned)
         /\ \A u \in IDs : t \notin mAncestors[u]
<1>1. t # 0 /\ t \notin mTriggerMap
  <2>1. mTriggerMap \subseteq 1..mMaxID /\ mMaxID \in Nat /\ t \in Nat /\ t # 0
    BY TriggerUnitAssumption DEF IInv, TypeOK, IDs
  <2>2. QED
    BY <2>1
<1>2. \A u \in IDs : t \notin mAncestors[u]
  BY <1>1 DEF IInv, NoDanglingPointers, TreeOK
<1>3. QED
  BY <1>1, <1>2 DEF IInv, NoDanglingPointers

LEMMA JoiningOffers ==
  ASSUME IInv, NEW t \in IDs, t > mMaxID, Joins(t), passes' = passes
  PROVE  /\ OffersOK'
         /\ passes = <<>> => mRootNodesAddedWhileProcessing' = <<>>
         /\ mRootNodesAddedWhileProcessing' \in Seq(IDs \union {0})
         /\ Elements(mRootNodesAddedWhileProcessing')
                \subseteq Elements(mRootNodesAddedWhileProcessing) \union {t}
         /\ mSameLineChain' \in [IDs -> [chain : Nat, generation : Nat]]
<1> DEFINE added == mRootNodesAddedWhileProcessing
<1>1. /\ added \in Seq(IDs \union {0}) /\ Len(added) \in Nat /\ DOMAIN added = 1..Len(added)
      /\ mSameLineChain \in [IDs -> [chain : Nat, generation : Nat]]
      /\ passes \in Seq(Passes)
  BY DEF IInv, TypeOK, Passes, MatchCalls
<1>2. /\ t \notin Elements(mTriggerRootNodeList) /\ t \notin Elements(added)
      /\ \A n \in DOMAIN passes : t \notin Elements(passes[n].pinned)
  BY NewIsNowhere
<1>3. CASE mProcessingDepth > 0
  <2>1. /\ added' = Append(added, t)
        /\ mSameLineChain' = [mSameLineChain EXCEPT ![t] = SameLineChainOfNew(t)]
    BY <1>3 DEF Joins
  <2>2. /\ added' \in Seq(IDs \union {0}) /\ DOMAIN added' = 1..(Len(added) + 1)
        /\ Len(added') = Len(added) + 1
        /\ added'[Len(added) + 1] = t /\ \A i \in 1..Len(added) : added'[i] = added[i]
    BY <1>1, <2>1
  <2>3. Elements(added') = Elements(added) \union {t}
    <3>1. t \in IDs \union {0}
      OBVIOUS
    <3>2. Elements(Append(added, t)) = Elements(added) \union {t}
      BY <1>1, <3>1, ElementsAppend
    <3>3. QED
      BY <2>1, <3>2, Zenon
  <2>4. mSameLineChain' \in [IDs -> [chain : Nat, generation : Nat]]
    BY <1>1, <2>1, ChainType
  <2>5. \A n \in DOMAIN passes : passes[n].first \in Nat /\ passes[n].first <= Len(added)
    <3>1. ASSUME NEW n \in DOMAIN passes PROVE passes[n].first \in Nat
      <4>1. passes[n] \in Passes
        BY <1>1
      <4>2. QED
        BY <4>1 DEF Passes
    <3>2. QED
      BY <3>1 DEF IInv, OffersOK
  <2>6. ASSUME NEW n \in DOMAIN passes
        PROVE  /\ Distinct(passes[n].pinned)
               /\ passes[n].first <= Len(added')
               /\ \A i \in DOMAIN added' : i > passes[n].first =>
                     added'[i] \notin Elements(passes[n].pinned)
               /\ \A r \in Elements(mTriggerRootNodeList') \ Elements(passes[n].pinned) :
                     \E i \in DOMAIN added' : i > passes[n].first /\ added'[i] = r
    <3>1. Distinct(passes[n].pinned) /\ passes[n].first <= Len(added')
      BY <1>1, <2>2, <2>5 DEF IInv, OffersOK
    <3>2. ASSUME NEW i \in DOMAIN added', i > passes[n].first
          PROVE  added'[i] \notin Elements(passes[n].pinned)
      <4>1. CASE i = Len(added) + 1
        BY <1>2, <2>2, <4>1
      <4>2. CASE i # Len(added) + 1
        <5>1. i \in DOMAIN added /\ added'[i] = added[i]
          BY <1>1, <2>2, <4>2
        <5>2. QED
          BY <3>2, <5>1 DEF IInv, OffersOK
      <4>3. QED
        BY <4>1, <4>2
    <3>3. ASSUME NEW r \in Elements(mTriggerRootNodeList') \ Elements(passes[n].pinned)
          PROVE  \E i \in DOMAIN added' : i > passes[n].first /\ added'[i] = r
      <4>1. CASE r = t
        BY <1>1, <2>2, <2>5, <4>1
      <4>2. CASE r # t
        <5>1. r \in Elements(mTriggerRootNodeList) \ Elements(passes[n].pinned)
          BY <4>2 DEF Joins
        <5>2. PICK i \in DOMAIN added : i > passes[n].first /\ added[i] = r
          BY <5>1 DEF IInv, OffersOK
        <5>3. i \in DOMAIN added' /\ added'[i] = r
          BY <1>1, <2>2, <5>2
        <5>4. QED
          BY <5>2, <5>3
      <4>3. QED
        BY <4>1, <4>2
    <3>4. QED
      BY <3>1, <3>2, <3>3
  <2>7. ASSUME NEW i \in DOMAIN added', NEW j \in DOMAIN added',
               added'[i] = added'[j], added'[i] # 0
        PROVE  i = j
    <3>1. \A k \in 1..Len(added) : added[k] # t
      BY <1>1, <1>2 DEF Elements
    <3>2. CASE i \in 1..Len(added) /\ j \in 1..Len(added)
      BY <1>1, <2>2, <2>7, <3>2 DEF IInv, OffersOK
    <3>3. CASE i \notin 1..Len(added) \/ j \notin 1..Len(added)
      BY <1>1, <2>2, <2>7, <3>1, <3>3
    <3>4. QED
      BY <3>2, <3>3
  <2>8. OffersOK'
    BY <2>6, <2>7 DEF OffersOK, Joins
  <2>9. passes # <<>>
    BY <1>3 DEF mProcessingDepth
  <2>10. QED
    BY <2>2, <2>3, <2>4, <2>8, <2>9
<1>4. CASE ~(mProcessingDepth > 0)
  <2>1. added' = added /\ mSameLineChain' = mSameLineChain
    BY <1>4 DEF Joins, lineage
  <2>2. passes = <<>>
    BY <1>1, <1>4 DEF mProcessingDepth
  <2>3. DOMAIN passes = {}
    BY <2>2
  <2>4. OffersOK'
    BY <2>1, <2>3 DEF IInv, OffersOK, Joins
  <2>5. QED
    BY <1>1, <2>1, <2>4 DEF IInv, IdleOK
<1>5. QED
  BY <1>3, <1>4

LEMMA AddingKeepsIInv ==
  ASSUME IInv, NEW new, mMaxID' \in 0..MaxTriggers, mMaxID <= mMaxID',
         \A u \in new : u \in IDs /\ mMaxID < u /\ u <= mMaxID',
         mTriggerMap' = mTriggerMap \union new,
         mAncestors' \in [IDs -> SUBSET IDs],
         \A u \in IDs \ new : mAncestors'[u] = mAncestors[u],
         \A u \in new : \A a \in mAncestors'[u] :
             a < u /\ a \in mTriggerMap' /\ mAncestors'[a] \subseteq mAncestors'[u],
         mTemporary' \subseteq mTriggerMap', mPackageName' \subseteq 1..mMaxID',
         mActive' = mActive \union new, mUserActiveState' = mUserActiveState \union new,
         mExpiryCount' \in [IDs -> Int],
         UNCHANGED <<doomed, passes>>,
         mRunawayFeedStopped' \in BOOLEAN, mInstalledPackages' \in BOOLEAN,
         mTriggerRootNodeList' \in Seq(IDs),
         Elements(mTriggerRootNodeList') \subseteq mTriggerMap',
         mRootNodesAddedWhileProcessing' \in Seq(IDs \union {0}),
         Elements(mRootNodesAddedWhileProcessing')
             \subseteq Elements(mRootNodesAddedWhileProcessing) \union new \union {0},
         mSameLineChain' \in [IDs -> [chain : Nat, generation : Nat]],
         OffersOK', passes = <<>> => mRootNodesAddedWhileProcessing' = <<>>
  PROVE  IInv'
<1> USE DEF doomed
<1>1. mTriggerMap \subseteq IDs /\ mMaxID \in Nat /\ mMaxID' \in Nat /\ IDs' = IDs
      /\ mTriggerMap \subseteq 1..mMaxID /\ IDs \subseteq Nat \ {0}
  <2>1. mTriggerMap \subseteq IDs
    BY MapIsIDs DEF IInv
  <2>2. mMaxID \in 0..MaxTriggers /\ mTriggerMap \subseteq 1..mMaxID
    BY DEF IInv, TypeOK
  <2>3. IDs' = IDs /\ IDs \subseteq Nat \ {0}
    BY TriggerUnitAssumption DEF IDs
  <2>4. QED
    BY <2>1, <2>2, <2>3, TriggerUnitAssumption
<1>2. TypeOK'
  <2>1. \A u \in mTriggerMap' : u \in 1..mMaxID'
    BY <1>1
  <2>2. mActive' \subseteq mTriggerMap' /\ mUserActiveState' \subseteq mTriggerMap'
    BY DEF IInv, TypeOK
  <2>3. mCleanupSet' \subseteq IDs /\ uninstallList' \in Seq(IDs) /\ passes' \in Seq(Passes)
    BY DEF IInv, TypeOK, Passes, MatchCalls
  <2>4. QED
    BY <1>1, <2>1, <2>2, <2>3 DEF TypeOK, Passes, MatchCalls
<1>3. ASSUME NEW u \in new PROVE u \notin mTriggerMap
  <2>1. mMaxID < u /\ u \in Nat
    BY <1>1
  <2>2. u \notin 1..mMaxID
    BY <1>1, <2>1
  <2>3. QED
    BY <1>1, <2>2
<1>4. TreeOK'
  <2>1. ASSUME NEW u \in IDs, NEW a \in IDs, a \in mAncestors'[u]
        PROVE  a < u /\ mAncestors'[a] \subseteq mAncestors'[u]
    <3>1. CASE u \in new
      BY <2>1, <3>1
    <3>2. CASE u \notin new
      <4>1. a \in mAncestors[u] /\ mAncestors'[u] = mAncestors[u]
        BY <2>1, <3>2
      <4>2. a < u /\ mAncestors[a] \subseteq mAncestors[u]
        BY <4>1 DEF IInv, TreeOK
      <4>3. a \in mTriggerMap
        BY <4>1 DEF IInv, TreeOK, NoDanglingPointers
      <4>4. mAncestors'[a] = mAncestors[a]
        BY <1>3, <4>3
      <4>5. QED
        BY <4>1, <4>2, <4>4
    <3>3. QED
      BY <3>1, <3>2
  <2>2. ASSUME NEW u \in IDs \ mTriggerMap' PROVE mAncestors'[u] = {}
    BY DEF IInv, TreeOK
  <2>3. QED
    BY <1>1, <2>1, <2>2 DEF TreeOK
<1>5. NoDanglingPointers'
  <2>1. ASSUME NEW u \in mTriggerMap' PROVE mAncestors'[u] \subseteq mTriggerMap'
    <3>1. CASE u \in new
      BY <3>1
    <3>2. CASE u \notin new
      BY <1>1, <3>2 DEF IInv, NoDanglingPointers
    <3>3. QED
      BY <3>1, <3>2
  <2>2. QED
    BY <2>1 DEF IInv, NoDanglingPointers
<1>6. IdleOK'
  BY DEF IInv, IdleOK
<1>7. NothingPendingIsActive'
  <2>1. mCleanupSet \union Elements(uninstallList) \subseteq mTriggerMap
    BY DEF IInv, NoDanglingPointers
  <2>2. QED
    BY <1>3, <2>1 DEF IInv, NothingPendingIsActive, IsActive
<1>8. QED
  BY <1>2, <1>4, <1>5, <1>6, <1>7 DEF IInv

\* registerTrigger() of a root puts it at the end.
LEMMA RegisteringJoins ==
  ASSUME IInv, NEW t \in IDs, t > mMaxID, RegisterRoot(t)
  PROVE  Joins(t)
<1>1. mTriggerRootNodeList \in Seq(IDs) /\ Distinct(mTriggerRootNodeList)
      /\ t \notin Elements(mTriggerRootNodeList)
  BY NewIsNowhere DEF IInv, TypeOK, OffersOK
<1>2. mTriggerRootNodeList' = Append(mTriggerRootNodeList, t)
  BY DEF RegisterRoot
<1>3. Append(mTriggerRootNodeList, t) \in Seq(IDs)
  BY <1>1
<1>4. Distinct(Append(mTriggerRootNodeList, t))
  BY <1>1, DistinctAppend
<1>5. Elements(Append(mTriggerRootNodeList, t)) = Elements(mTriggerRootNodeList) \union {t}
  BY <1>1, ElementsAppend
<1>6. QED
  BY <1>2, <1>3, <1>4, <1>5, Zenon DEF RegisterRoot, Joins

\* reorderTriggersAfterPackageImport() keeps every root, once.
LEMMA ReorderedRoots ==
  ASSUME IInv, NEW T
  PROVE  /\ Without(mTriggerRootNodeList, T) \in Seq(IDs)
         /\ Only(mTriggerRootNodeList, T) \in Seq(IDs)
         /\ Distinct(Without(mTriggerRootNodeList, T)) /\ Distinct(Only(mTriggerRootNodeList, T))
         /\ Elements(Without(mTriggerRootNodeList, T)) = Elements(mTriggerRootNodeList) \ T
         /\ Elements(Only(mTriggerRootNodeList, T)) = Elements(mTriggerRootNodeList) \intersect T
<1>1. mTriggerRootNodeList \in Seq(IDs) /\ Distinct(mTriggerRootNodeList)
  BY DEF IInv, TypeOK, OffersOK
<1>2. Only(mTriggerRootNodeList, T) \in Seq(IDs)
  BY <1>1, OnlyType
<1>3. Distinct(Only(mTriggerRootNodeList, T))
  BY <1>1, OnlyDistinct
<1>4. Elements(Only(mTriggerRootNodeList, T)) = Elements(mTriggerRootNodeList) \intersect T
  BY <1>1, OnlyElements
<1>5. QED
  BY <1>1, <1>2, <1>3, <1>4, WithoutIs

LEMMA FolderJoins ==
  ASSUME IInv, InstallPackage
  PROVE  Joins(mMaxID + 1)
<1> DEFINE t == mMaxID + 1
           ahead == Without(mTriggerRootNodeList, mTemporary)
           behind == Only(mTriggerRootNodeList, mTemporary)
           one == <<t>>
<1>1. t \in IDs /\ t > mMaxID
  BY TriggerUnitAssumption DEF InstallPackage, IInv, TypeOK, IDs
<1>2. t \notin Elements(mTriggerRootNodeList)
  BY <1>1, NewIsNowhere
<1>3. /\ ahead \in Seq(IDs) /\ behind \in Seq(IDs) /\ Distinct(ahead) /\ Distinct(behind)
      /\ Elements(ahead) = Elements(mTriggerRootNodeList) \ mTemporary
      /\ Elements(behind) = Elements(mTriggerRootNodeList) \intersect mTemporary
  BY ReorderedRoots
<1>4. mTriggerRootNodeList' = ahead \o one \o behind
  BY DEF InstallPackage
<1>5. IF mProcessingDepth > 0
      THEN /\ mRootNodesAddedWhileProcessing' = Append(mRootNodesAddedWhileProcessing, t)
           /\ mSameLineChain' = [mSameLineChain EXCEPT ![t] = SameLineChainOfNew(t)]
      ELSE UNCHANGED lineage
  BY DEF InstallPackage
<1> HIDE DEF t, ahead, behind
<1>6. Elements(one) = {t} /\ Distinct(one) /\ one \in Seq(IDs)
  BY <1>1, ElementsOne
<1> HIDE DEF one
<1>7. ahead \o one \in Seq(IDs) /\ (ahead \o one) \o behind \in Seq(IDs)
  BY <1>3, <1>6
<1>8. Elements(ahead \o one) = Elements(ahead) \union {t}
  BY <1>3, <1>6, ElementsConcat
<1>9. Elements((ahead \o one) \o behind) = (Elements(ahead) \union {t}) \union Elements(behind)
  <2> DEFINE both == ahead \o one
  <2>1. both \in Seq(IDs) /\ Elements(both) = Elements(ahead) \union {t}
    BY <1>7, <1>8
  <2> HIDE DEF both
  <2>2. Elements(both \o behind) = Elements(both) \union Elements(behind)
    BY <1>3, <2>1, ElementsConcat
  <2>3. QED
    BY <2>1, <2>2 DEF both
<1>10. Distinct(ahead \o one)
  <2>1. Elements(ahead) \intersect Elements(one) = {}
    BY <1>2, <1>3, <1>6
  <2>2. QED
    BY <1>3, <1>6, <2>1, DistinctConcat
<1>11. Distinct((ahead \o one) \o behind)
  <2>1. Elements(ahead \o one) \intersect Elements(behind) = {}
    BY <1>2, <1>3, <1>8
  <2>2. QED
    BY <1>3, <1>7, <1>10, <2>1, DistinctConcat
<1>12. Elements(mTriggerRootNodeList') = Elements(mTriggerRootNodeList) \union {t}
  BY <1>3, <1>4, <1>9
<1>13. mTriggerRootNodeList' \in Seq(IDs) /\ Distinct(mTriggerRootNodeList')
  BY <1>4, <1>7, <1>11, Zenon
<1>14. QED
  BY <1>5, <1>12, <1>13 DEF Joins, t

LEMMA NewID ==
  ASSUME IInv, mMaxID + 1 \in IDs
  PROVE  /\ mMaxID \in Nat /\ mMaxID + 1 \in 0..MaxTriggers /\ mMaxID + 1 > mMaxID
         /\ mMaxID + 1 \in Nat \ {0} /\ mMaxID + 1 \notin mTriggerMap
<1>1. mMaxID \in Nat /\ mTriggerMap \subseteq 1..mMaxID
  BY TriggerUnitAssumption DEF IInv, TypeOK
<1>2. QED
  BY <1>1, TriggerUnitAssumption DEF IDs

LEMMA TempTriggerKeepsIInv ==
  ASSUME IInv, NEW e \in ExpiryCounts, TempTrigger(e)
  PROVE  IInv'
<1> DEFINE t == mMaxID + 1
<1>1. t \in IDs /\ t > mMaxID /\ mMaxID \in Nat /\ t \in 0..MaxTriggers /\ t \notin mTriggerMap
  BY NewID DEF TempTrigger
<1>2. /\ mMaxID' = t /\ mTriggerMap' = mTriggerMap \union {t}
      /\ mTemporary' = mTemporary \union {t} /\ mActive' = mActive \union {t}
      /\ mUserActiveState' = mUserActiveState \union {t}
      /\ mExpiryCount' = [mExpiryCount EXCEPT ![t] = e] /\ RegisterRoot(t)
      /\ UNCHANGED <<mAncestors, mPackageName, doomed, mRunawayFeedStopped,
                     mInstalledPackages, passes>>
  BY DEF TempTrigger
<1> HIDE DEF t
<1>3. Joins(t)
  BY <1>1, <1>2, RegisteringJoins
<1>4. /\ OffersOK'
      /\ passes = <<>> => mRootNodesAddedWhileProcessing' = <<>>
      /\ mRootNodesAddedWhileProcessing' \in Seq(IDs \union {0})
      /\ Elements(mRootNodesAddedWhileProcessing')
             \subseteq Elements(mRootNodesAddedWhileProcessing) \union {t}
      /\ mSameLineChain' \in [IDs -> [chain : Nat, generation : Nat]]
  BY <1>1, <1>2, <1>3, JoiningOffers
<1>5. /\ mTriggerRootNodeList' \in Seq(IDs)
      /\ Elements(mTriggerRootNodeList') \subseteq mTriggerMap'
  BY <1>2, <1>3 DEF Joins, IInv, NoDanglingPointers
<1>6. mExpiryCount' \in [IDs -> Int]
  <2>1. e \in Int
    BY TriggerUnitAssumption
  <2>2. mExpiryCount \in [IDs -> Int]
    BY DEF IInv, TypeOK
  <2>3. QED
    BY <1>1, <1>2, <2>1, <2>2
<1>7. mAncestors' \in [IDs -> SUBSET IDs] /\ mAncestors'[t] = {}
  BY <1>1, <1>2 DEF IInv, TypeOK, TreeOK
<1>8. mTemporary' \subseteq mTriggerMap' /\ mPackageName' \subseteq 1..mMaxID'
  BY <1>1, <1>2 DEF IInv, TypeOK
<1>9. /\ mMaxID' \in 0..MaxTriggers /\ mMaxID <= mMaxID'
      /\ \A u \in {t} : u \in IDs /\ mMaxID < u /\ u <= mMaxID'
  BY <1>1, <1>2
<1>10. mRunawayFeedStopped' \in BOOLEAN /\ mInstalledPackages' \in BOOLEAN
  BY <1>2 DEF IInv, TypeOK
<1>11. \A u \in IDs \ {t} : mAncestors'[u] = mAncestors[u]
  BY <1>2
<1>12. \A u \in {t} : \A a \in mAncestors'[u] :
          a < u /\ a \in mTriggerMap' /\ mAncestors'[a] \subseteq mAncestors'[u]
  BY <1>7
<1>13. UNCHANGED <<doomed, passes>>
  BY <1>2
<1>14. Elements(mRootNodesAddedWhileProcessing')
           \subseteq Elements(mRootNodesAddedWhileProcessing) \union {t} \union {0}
  BY <1>4
<1>15. QED
  <2> DEFINE new == {t}
  <2>1. /\ mTriggerMap' = mTriggerMap \union new
        /\ mActive' = mActive \union new /\ mUserActiveState' = mUserActiveState \union new
    BY <1>2
  <2>2. /\ \A u \in new : u \in IDs /\ mMaxID < u /\ u <= mMaxID'
        /\ \A u \in IDs \ new : mAncestors'[u] = mAncestors[u]
        /\ \A u \in new : \A a \in mAncestors'[u] :
               a < u /\ a \in mTriggerMap' /\ mAncestors'[a] \subseteq mAncestors'[u]
    BY <1>9, <1>11, <1>12
  <2>3. Elements(mRootNodesAddedWhileProcessing')
            \subseteq Elements(mRootNodesAddedWhileProcessing) \union new \union {0}
    BY <1>14
  <2> HIDE DEF new
  <2>4. QED
    BY <1>4, <1>5, <1>6, <1>7, <1>8, <1>9, <1>10, <1>13, <2>1, <2>2, <2>3, AddingKeepsIInv

LEMMA PermTriggerKeepsIInv ==
  ASSUME IInv, NEW p \in mTriggerMap \union {0}, PermTrigger(p)
  PROVE  IInv'
<1> DEFINE t == mMaxID + 1
<1>1. t \in IDs /\ t > mMaxID /\ mMaxID \in Nat /\ t \in 0..MaxTriggers /\ t \notin mTriggerMap
  BY NewID DEF PermTrigger
<1>2. /\ mMaxID' = t /\ mTriggerMap' = mTriggerMap \union {t} /\ mActive' = mActive \union {t}
      /\ mUserActiveState' = mUserActiveState \union {t}
      /\ IF p = 0
         THEN RegisterRoot(t) /\ UNCHANGED mAncestors
         ELSE /\ mAncestors' = [mAncestors EXCEPT ![t] = mAncestors[p] \union {p}]
              /\ UNCHANGED <<mTriggerRootNodeList, lineage>>
      /\ UNCHANGED <<mTemporary, mPackageName, mExpiryCount, doomed,
                     mRunawayFeedStopped, mInstalledPackages, passes>>
  BY DEF PermTrigger
<1> HIDE DEF t
<1>3. /\ OffersOK'
      /\ passes = <<>> => mRootNodesAddedWhileProcessing' = <<>>
      /\ mRootNodesAddedWhileProcessing' \in Seq(IDs \union {0})
      /\ Elements(mRootNodesAddedWhileProcessing')
             \subseteq Elements(mRootNodesAddedWhileProcessing) \union {t}
      /\ mSameLineChain' \in [IDs -> [chain : Nat, generation : Nat]]
      /\ mTriggerRootNodeList' \in Seq(IDs)
      /\ Elements(mTriggerRootNodeList') \subseteq mTriggerMap'
  <2>1. CASE p = 0
    <3>1. Joins(t)
      BY <1>1, <1>2, <2>1, RegisteringJoins
    <3>2. /\ OffersOK'
          /\ passes = <<>> => mRootNodesAddedWhileProcessing' = <<>>
          /\ mRootNodesAddedWhileProcessing' \in Seq(IDs \union {0})
          /\ Elements(mRootNodesAddedWhileProcessing')
                 \subseteq Elements(mRootNodesAddedWhileProcessing) \union {t}
          /\ mSameLineChain' \in [IDs -> [chain : Nat, generation : Nat]]
      BY <1>1, <1>2, <3>1, JoiningOffers
    <3>3. QED
      BY <1>2, <3>1, <3>2 DEF Joins, IInv, NoDanglingPointers
  <2>2. CASE p # 0
    <3>1. UNCHANGED <<mTriggerRootNodeList, lineage, passes>>
      BY <1>2, <2>2
    <3>2. OffersOK'
      BY <3>1 DEF lineage, IInv, OffersOK
    <3>3. QED
      BY <1>2, <3>1, <3>2 DEF lineage, IInv, IdleOK, TypeOK, NoDanglingPointers
  <2>3. QED
    BY <2>1, <2>2
<1>4. /\ mAncestors' \in [IDs -> SUBSET IDs]
      /\ \A u \in IDs \ {t} : mAncestors'[u] = mAncestors[u]
      /\ \A a \in mAncestors'[t] :
            a < t /\ a \in mTriggerMap' /\ mAncestors'[a] \subseteq mAncestors'[t]
  <2>1. mAncestors \in [IDs -> SUBSET IDs] /\ mTriggerMap \subseteq IDs /\ mAncestors[t] = {}
        /\ mTriggerMap \subseteq 1..mMaxID
    BY <1>1, MapIsIDs DEF IInv, TypeOK, TreeOK
  <2>2. CASE p = 0
    BY <1>2, <2>1, <2>2
  <2>3. CASE p # 0
    <3>1. p \in mTriggerMap /\ p \in IDs /\ p < t /\ p # t
      BY <1>1, <2>1, <2>3
    <3>2. mAncestors' = [mAncestors EXCEPT ![t] = mAncestors[p] \union {p}]
      BY <1>2, <2>3
    <3>3. /\ mAncestors' \in [IDs -> SUBSET IDs]
          /\ \A u \in IDs \ {t} : mAncestors'[u] = mAncestors[u]
          /\ mAncestors'[t] = mAncestors[p] \union {p}
      BY <1>1, <2>1, <3>1, <3>2
    <3>4. ASSUME NEW a \in mAncestors'[t]
          PROVE  a < t /\ a \in mTriggerMap' /\ mAncestors'[a] \subseteq mAncestors'[t]
      <4>1. a \in mTriggerMap
        BY <3>1, <3>3 DEF IInv, NoDanglingPointers
      <4>2. a < t /\ a # t /\ a \in IDs
        BY <1>1, <2>1, <4>1
      <4>3. mAncestors[a] \subseteq mAncestors[p]
        BY <3>1, <3>3, <4>2 DEF IInv, TreeOK
      <4>4. QED
        BY <1>2, <3>3, <4>1, <4>2, <4>3
    <3>5. QED
      BY <3>3, <3>4
  <2>4. QED
    BY <2>2, <2>3
<1>5. mTemporary' \subseteq mTriggerMap' /\ mPackageName' \subseteq 1..mMaxID'
      /\ mExpiryCount' \in [IDs -> Int]
  BY <1>1, <1>2 DEF IInv, TypeOK
<1>6. /\ mMaxID' \in 0..MaxTriggers /\ mMaxID <= mMaxID'
      /\ \A u \in {t} : u \in IDs /\ mMaxID < u /\ u <= mMaxID'
  BY <1>1, <1>2
<1>7. mRunawayFeedStopped' \in BOOLEAN /\ mInstalledPackages' \in BOOLEAN
  BY <1>2 DEF IInv, TypeOK
<1>8. \A u \in {t} : \A a \in mAncestors'[u] :
         a < u /\ a \in mTriggerMap' /\ mAncestors'[a] \subseteq mAncestors'[u]
  BY <1>4
<1>9. UNCHANGED <<doomed, passes>>
  BY <1>2
<1>10. QED
  BY <1>2, <1>3, <1>4, <1>5, <1>6, <1>7, <1>8, <1>9, AddingKeepsIInv

LEMMA InstallPackageKeepsIInv ==
  ASSUME IInv, InstallPackage
  PROVE  IInv'
<1> DEFINE t == mMaxID + 1
           leaf == mMaxID + 2
<1>1. /\ t \in IDs /\ t > mMaxID /\ mMaxID \in Nat /\ t \notin mTriggerMap
      /\ leaf \in IDs /\ leaf > t /\ leaf \in 0..MaxTriggers /\ leaf \notin mTriggerMap
      /\ t \in Nat /\ leaf \in Nat
  <2>1. mMaxID \in Nat /\ mTriggerMap \subseteq 1..mMaxID
    BY TriggerUnitAssumption DEF IInv, TypeOK
  <2>2. leaf \in IDs
    BY DEF InstallPackage
  <2>3. QED
    BY <2>1, <2>2, TriggerUnitAssumption DEF IDs
<1>2. /\ mMaxID' = leaf /\ mTriggerMap' = mTriggerMap \union {t, leaf}
      /\ mAncestors' = [mAncestors EXCEPT ![leaf] = {t}]
      /\ mPackageName' = mPackageName \union {t} /\ mActive' = mActive \union {t, leaf}
      /\ mUserActiveState' = mUserActiveState \union {t, leaf} /\ mInstalledPackages' = TRUE
      /\ UNCHANGED <<mTemporary, mExpiryCount, doomed, mRunawayFeedStopped, passes>>
  BY DEF InstallPackage
<1>3. Joins(t)
  BY FolderJoins
<1> HIDE DEF t, leaf
<1>4. /\ OffersOK'
      /\ passes = <<>> => mRootNodesAddedWhileProcessing' = <<>>
      /\ mRootNodesAddedWhileProcessing' \in Seq(IDs \union {0})
      /\ Elements(mRootNodesAddedWhileProcessing')
             \subseteq Elements(mRootNodesAddedWhileProcessing) \union {t}
      /\ mSameLineChain' \in [IDs -> [chain : Nat, generation : Nat]]
  BY <1>1, <1>2, <1>3, JoiningOffers
<1>5. /\ mTriggerRootNodeList' \in Seq(IDs)
      /\ Elements(mTriggerRootNodeList') \subseteq mTriggerMap'
  BY <1>2, <1>3 DEF Joins, IInv, NoDanglingPointers
<1>6. /\ mAncestors' \in [IDs -> SUBSET IDs]
      /\ \A u \in IDs \ {t, leaf} : mAncestors'[u] = mAncestors[u]
      /\ mAncestors'[leaf] = {t} /\ mAncestors'[t] = {}
  BY <1>1, <1>2 DEF IInv, TypeOK, TreeOK
<1>7. \A u \in {t, leaf} : \A a \in mAncestors'[u] :
         a < u /\ a \in mTriggerMap' /\ mAncestors'[a] \subseteq mAncestors'[u]
  BY <1>1, <1>2, <1>6
<1>8. mTemporary' \subseteq mTriggerMap' /\ mPackageName' \subseteq 1..mMaxID'
      /\ mExpiryCount' \in [IDs -> Int]
  BY <1>1, <1>2 DEF IInv, TypeOK
<1>9. /\ mMaxID' \in 0..MaxTriggers /\ mMaxID <= mMaxID'
      /\ \A u \in {t, leaf} : u \in IDs /\ mMaxID < u /\ u <= mMaxID'
  BY <1>1, <1>2
<1>10. mRunawayFeedStopped' \in BOOLEAN /\ mInstalledPackages' \in BOOLEAN
  BY <1>2 DEF IInv, TypeOK
<1>11. UNCHANGED <<doomed, passes>>
  BY <1>2
<1>12. Elements(mRootNodesAddedWhileProcessing')
           \subseteq Elements(mRootNodesAddedWhileProcessing) \union {t, leaf} \union {0}
  BY <1>4
<1>13. QED
  <2> DEFINE new == {t, leaf}
  <2>1. /\ mTriggerMap' = mTriggerMap \union new
        /\ mActive' = mActive \union new /\ mUserActiveState' = mUserActiveState \union new
    BY <1>2
  <2>2. /\ \A u \in new : u \in IDs /\ mMaxID < u /\ u <= mMaxID'
        /\ \A u \in IDs \ new : mAncestors'[u] = mAncestors[u]
        /\ \A u \in new : \A a \in mAncestors'[u] :
               a < u /\ a \in mTriggerMap' /\ mAncestors'[a] \subseteq mAncestors'[u]
    BY <1>6, <1>7, <1>9
  <2>3. Elements(mRootNodesAddedWhileProcessing')
            \subseteq Elements(mRootNodesAddedWhileProcessing) \union new \union {0}
    BY <1>12
  <2> HIDE DEF new
  <2>4. QED
    BY <1>4, <1>5, <1>6, <1>8, <1>9, <1>10, <1>11, <2>1, <2>2, <2>3, AddingKeepsIInv

\* A package without triggers: its folder is gone when the call returns, and
\* has left a slot that is 0.
LEMMA FolderGoesAgain ==
  ASSUME IInv, InstallPackageWithoutTriggers
  PROVE  IInv'
<1> DEFINE ahead == Without(mTriggerRootNodeList, mTemporary)
           behind == Only(mTriggerRootNodeList, mTemporary)
           added == mRootNodesAddedWhileProcessing
<1>1. /\ mMaxID' = mMaxID + 1 /\ mMaxID + 1 \in IDs /\ mInstalledPackages' = TRUE
      /\ mPackageName' = mPackageName \union {mMaxID + 1}
      /\ mTriggerRootNodeList' = ahead \o behind
      /\ added' = IF mProcessingDepth > 0 THEN Append(added, 0) ELSE added
      /\ UNCHANGED <<mTriggerMap, mAncestors, mTemporary, actives, mExpiryCount, doomed,
                     mSameLineChain, mRunawayFeedStopped, passes>>
  BY DEF InstallPackageWithoutTriggers
<1>2. /\ ahead \in Seq(IDs) /\ behind \in Seq(IDs) /\ Distinct(ahead) /\ Distinct(behind)
      /\ Elements(ahead) = Elements(mTriggerRootNodeList) \ mTemporary
      /\ Elements(behind) = Elements(mTriggerRootNodeList) \intersect mTemporary
  BY ReorderedRoots
<1> HIDE DEF ahead, behind
<1>3. /\ mTriggerRootNodeList' \in Seq(IDs) /\ Distinct(mTriggerRootNodeList')
      /\ Elements(mTriggerRootNodeList') = Elements(mTriggerRootNodeList)
  <2>1. Elements(ahead) \intersect Elements(behind) = {}
    BY <1>2
  <2>2. ahead \o behind \in Seq(IDs) /\ Distinct(ahead \o behind)
        /\ Elements(ahead \o behind) = Elements(ahead) \union Elements(behind)
    BY <1>2, <2>1, DistinctConcat, ElementsConcat
  <2>3. QED
    BY <1>1, <1>2, <2>2
<1>4. /\ added \in Seq(IDs \union {0}) /\ Len(added) \in Nat /\ DOMAIN added = 1..Len(added)
      /\ passes \in Seq(Passes)
  BY DEF IInv, TypeOK, Passes, MatchCalls
<1>5. /\ added' \in Seq(IDs \union {0})
      /\ Len(added') \in Nat /\ DOMAIN added' = 1..Len(added') /\ Len(added) <= Len(added')
      /\ \A i \in DOMAIN added : i \in DOMAIN added' /\ added'[i] = added[i]
      /\ \A i \in DOMAIN added' \ DOMAIN added : added'[i] = 0
  <2>1. CASE mProcessingDepth > 0
    <3>1. added' = Append(added, 0)
      BY <1>1, <2>1
    <3>2. Len(added') = Len(added) + 1 /\ DOMAIN added' = 1..(Len(added) + 1)
          /\ added'[Len(added) + 1] = 0 /\ added' \in Seq(IDs \union {0})
          /\ \A i \in 1..Len(added) : added'[i] = added[i]
      BY <1>4, <3>1
    <3>3. QED
      BY <1>4, <3>2
  <2>2. CASE ~(mProcessingDepth > 0)
    BY <1>1, <1>4, <2>2
  <2>3. QED
    BY <2>1, <2>2
<1>6. passes = <<>> => added' = <<>>
  <2>1. passes = <<>> => Len(passes) = 0
    BY <1>4
  <2>2. QED
    BY <1>1, <2>1 DEF mProcessingDepth, IInv, IdleOK
<1>7. OffersOK'
  <2>1. ASSUME NEW n \in DOMAIN passes
        PROVE  /\ Distinct(passes[n].pinned)
               /\ passes[n].first <= Len(added')
               /\ \A i \in DOMAIN added' : i > passes[n].first =>
                     added'[i] \notin Elements(passes[n].pinned)
               /\ \A r \in Elements(mTriggerRootNodeList') \ Elements(passes[n].pinned) :
                     \E i \in DOMAIN added' : i > passes[n].first /\ added'[i] = r
    <3>1. passes[n].first \in Nat /\ passes[n].pinned \in Seq(IDs)
      <4>1. passes[n] \in Passes
        BY <1>4
      <4>2. QED
        BY <4>1 DEF Passes
    <3>2. 0 \notin Elements(passes[n].pinned)
      <4>1. 0 \notin IDs
        BY DEF IDs
      <4>2. \A i \in DOMAIN passes[n].pinned : passes[n].pinned[i] \in IDs
        BY <3>1
      <4>3. QED
        BY <4>1, <4>2 DEF Elements
    <3>3. Distinct(passes[n].pinned) /\ passes[n].first <= Len(added)
      BY DEF IInv, OffersOK
    <3>4. ASSUME NEW i \in DOMAIN added', i > passes[n].first
          PROVE  added'[i] \notin Elements(passes[n].pinned)
      <4>1. CASE i \in DOMAIN added
        BY <1>5, <3>4, <4>1 DEF IInv, OffersOK
      <4>2. CASE i \notin DOMAIN added
        BY <1>5, <3>2, <4>2
      <4>3. QED
        BY <4>1, <4>2
    <3>5. ASSUME NEW r \in Elements(mTriggerRootNodeList') \ Elements(passes[n].pinned)
          PROVE  \E i \in DOMAIN added' : i > passes[n].first /\ added'[i] = r
      <4>1. PICK i \in DOMAIN added : i > passes[n].first /\ added[i] = r
        BY <1>3 DEF IInv, OffersOK
      <4>2. QED
        BY <1>5, <4>1
    <3>6. QED
      BY <1>4, <1>5, <3>1, <3>3, <3>4, <3>5
  <2>2. ASSUME NEW i \in DOMAIN added', NEW j \in DOMAIN added',
               added'[i] = added'[j], added'[i] # 0
        PROVE  i = j
    <3>1. i \in DOMAIN added /\ j \in DOMAIN added
      BY <1>5, <2>2
    <3>2. added[i] = added[j] /\ added[i] # 0
      BY <1>5, <2>2, <3>1
    <3>3. QED
      BY <3>1, <3>2 DEF IInv, OffersOK
  <2>3. passes' = passes
    BY <1>1
  <2>4. QED
    BY <1>3, <2>1, <2>2, <2>3 DEF OffersOK
<1>8. Elements(added') \subseteq Elements(added) \union {0}
  BY <1>5 DEF Elements
<1>9. mMaxID' \in 0..MaxTriggers /\ mMaxID <= mMaxID' /\ mPackageName' \subseteq 1..mMaxID'
  <2>1. mMaxID \in Nat /\ mMaxID + 1 \in 0..MaxTriggers
    BY <1>1, NewID
  <2>2. mPackageName \subseteq 1..mMaxID
    BY DEF IInv, TypeOK
  <2>3. QED
    BY <1>1, <2>1, <2>2
<1>10. /\ mAncestors' \in [IDs -> SUBSET IDs] /\ mTemporary' \subseteq mTriggerMap'
       /\ mExpiryCount' \in [IDs -> Int]
       /\ mRunawayFeedStopped' \in BOOLEAN /\ mInstalledPackages' \in BOOLEAN
       /\ mSameLineChain' \in [IDs -> [chain : Nat, generation : Nat]]
       /\ Elements(mTriggerRootNodeList') \subseteq mTriggerMap'
  BY <1>1, <1>3 DEF IInv, TypeOK, NoDanglingPointers
<1> DEFINE new == {}
<1>11. /\ mTriggerMap' = mTriggerMap \union new
       /\ mActive' = mActive \union new /\ mUserActiveState' = mUserActiveState \union new
       /\ \A u \in new : u \in IDs /\ mMaxID < u /\ u <= mMaxID'
       /\ \A u \in IDs \ new : mAncestors'[u] = mAncestors[u]
       /\ \A u \in new : \A a \in mAncestors'[u] :
              a < u /\ a \in mTriggerMap' /\ mAncestors'[a] \subseteq mAncestors'[u]
       /\ Elements(added') \subseteq Elements(added) \union new \union {0}
  BY <1>1, <1>8 DEF actives
<1>12. UNCHANGED <<doomed, passes>>
  BY <1>1
<1> HIDE DEF new
<1>13. QED
  BY <1>3, <1>5, <1>6, <1>7, <1>9, <1>10, <1>11, <1>12, AddingKeepsIInv

-----------------------------------------------------------------------------
(***************************************************************************)
(* What scripts do to the triggers there are.                              *)
(***************************************************************************)
LEMMA FlagsKeepIInv ==
  ASSUME IInv, NEW t \in mTriggerMap, EnableTrigger(t) \/ DisableTrigger(t) \/ KillTrigger(t)
  PROVE  IInv'
<1>1. /\ UNCHANGED <<treeAndLists, passes, mExpiryCount, uninstallList,
                     mRunawayFeedStopped, mInstalledPackages>>
      /\ mActive' \subseteq mTriggerMap /\ mUserActiveState' \subseteq mTriggerMap
      /\ mCleanupSet' \subseteq mTriggerMap
  BY DEF treeAndLists, EnableTrigger, DisableTrigger, KillTrigger, IInv, TypeOK,
         NoDanglingPointers, doomed
<1>2. NothingPendingIsActive'
  <2>1. CASE EnableTrigger(t)
    BY <2>1 DEF EnableTrigger, doomed, IInv, NothingPendingIsActive, IsActive
  <2>2. CASE DisableTrigger(t)
    BY <2>2 DEF DisableTrigger, doomed, IInv, NothingPendingIsActive, IsActive
  <2>3. CASE KillTrigger(t)
    BY <2>3 DEF KillTrigger, IInv, NothingPendingIsActive, IsActive
  <2>4. QED
    BY <2>1, <2>2, <2>3
<1>3. /\ mExpiryCount' \in [IDs -> Int] /\ uninstallList' \in Seq(IDs)
      /\ Elements(uninstallList') \subseteq mTriggerMap
      /\ mRunawayFeedStopped' \in BOOLEAN /\ mInstalledPackages' \in BOOLEAN
      /\ passes = <<>> => uninstallList' = <<>>
  BY <1>1 DEF IInv, TypeOK, NoDanglingPointers, IdleOK
<1>4. UNCHANGED <<treeAndLists, passes>>
  BY <1>1
<1>5. QED
  BY <1>1, <1>2, <1>3, <1>4, QueueingKeepsIInv

LEMMA PackageTriggersAre ==
  ASSUME TypeOK, TreeOK, NoDanglingPointers
  PROVE  PackageTriggers \subseteq mTriggerMap /\ PackageTriggers \subseteq IDs
         /\ Closed(PackageTriggers)
<1> DEFINE folders == mPackageName \intersect Elements(mTriggerRootNodeList)
<1>1. PackageTriggers = folders \union Descendants(folders)
  BY DEF PackageTriggers
<1>2. folders \subseteq mTriggerMap
  BY DEF NoDanglingPointers
<1> HIDE DEF folders
<1>3. PackageTriggers \subseteq mTriggerMap
  BY <1>1, <1>2 DEF Descendants
<1>4. QED
  BY <1>1, <1>3, SubtreesClosed, MapIsIDs

LEMMA UninstallKeepsIInv ==
  ASSUME IInv, UninstallPackage
  PROVE  IInv'
<1>1. PackageTriggers \subseteq mTriggerMap /\ PackageTriggers \subseteq IDs
      /\ Closed(PackageTriggers)
  BY PackageTriggersAre DEF IInv
<1>2. passes \in Seq(Passes) /\ uninstallList \in Seq(IDs)
  BY DEF IInv, TypeOK, Passes, MatchCalls
<1>3. CASE mProcessingDepth = 0
  <2>1. passes = <<>>
    BY <1>2, <1>3 DEF mProcessingDepth
  <2>2. mRootNodesAddedWhileProcessing = <<>> /\ uninstallList = <<>>
    BY <2>1 DEF IInv, IdleOK
  <2>3. /\ Free(PackageTriggers) /\ mCleanupSet' = mCleanupSet \ PackageTriggers
        /\ mInstalledPackages' = FALSE
        /\ UNCHANGED <<mMaxID, mPackageName, lineage, mRunawayFeedStopped, passes, uninstallList>>
    BY <1>3 DEF UninstallPackage
  <2>4. NothingPendingIsActive'
    BY <2>3 DEF Free, IInv, NothingPendingIsActive, IsActive
  <2>5. /\ mTemporary' \subseteq mTriggerMap \ PackageTriggers
        /\ mActive' \subseteq mTriggerMap \ PackageTriggers
        /\ mUserActiveState' \subseteq mTriggerMap \ PackageTriggers
        /\ mSameLineChain' \in [IDs -> [chain : Nat, generation : Nat]]
        /\ mRunawayFeedStopped' \in BOOLEAN /\ mInstalledPackages' \in BOOLEAN
    BY <2>3 DEF Free, lineage, IInv, TypeOK
  <2>6. /\ passes' = <<>> /\ mRootNodesAddedWhileProcessing' = <<>> /\ uninstallList' = <<>>
        /\ UNCHANGED <<mMaxID, mPackageName>>
    BY <2>1, <2>2, <2>3 DEF lineage
  <2>7. QED
    BY <1>1, <2>3, <2>4, <2>5, <2>6, FreeingKeepsIInv DEF Free
<1>4. CASE mProcessingDepth # 0
  <2> DEFINE queued == ChildrenFirst(PackageTriggers)
  <2>1. queued \in Seq(IDs) /\ Elements(queued) = PackageTriggers
    <3>1. queued \in Seq(PackageTriggers) /\ Elements(queued) = PackageTriggers
      BY <1>1, ChildrenFirstLists DEF IInv
    <3> HIDE DEF queued
    <3>2. QED
      BY <1>1, <3>1
  <2>2. /\ uninstallList' = uninstallList \o queued
        /\ mActive' = mActive \ Elements(uninstallList')
        /\ mUserActiveState' = mUserActiveState \ Elements(uninstallList')
        /\ mCleanupSet' = mCleanupSet \ Elements(uninstallList')
        /\ mInstalledPackages' = FALSE
        /\ UNCHANGED <<mTriggerMap, mAncestors, mTemporary, mExpiryCount, mTriggerRootNodeList,
                       mMaxID, mPackageName, lineage, mRunawayFeedStopped, passes>>
    BY <1>4 DEF UninstallPackage
  <2> HIDE DEF queued
  <2>3. /\ uninstallList' \in Seq(IDs)
        /\ Elements(uninstallList') = Elements(uninstallList) \union PackageTriggers
    <3>1. uninstallList \o queued \in Seq(IDs)
      BY <1>2, <2>1
    <3>2. Elements(uninstallList \o queued) = Elements(uninstallList) \union Elements(queued)
      BY <1>2, <2>1, ElementsConcat
    <3>3. QED
      BY <2>1, <2>2, <3>1, <3>2, Zenon
  <2>4. Elements(uninstallList') \subseteq mTriggerMap
    BY <1>1, <2>3 DEF IInv, NoDanglingPointers
  <2>5. passes # <<>>
    BY <1>4 DEF mProcessingDepth
  <2>6. NothingPendingIsActive'
    BY <2>2 DEF IInv, NothingPendingIsActive, IsActive
  <2>7. /\ mActive' \subseteq mTriggerMap /\ mUserActiveState' \subseteq mTriggerMap
        /\ mExpiryCount' \in [IDs -> Int] /\ mCleanupSet' \subseteq mTriggerMap
        /\ mRunawayFeedStopped' \in BOOLEAN /\ mInstalledPackages' \in BOOLEAN
    BY <2>2 DEF IInv, TypeOK, NoDanglingPointers
  <2>8. UNCHANGED <<treeAndLists, passes>>
    BY <2>2 DEF treeAndLists, items
  <2>9. QED
    BY <2>3, <2>4, <2>5, <2>6, <2>7, <2>8, QueueingKeepsIInv
<1>5. QED
  BY <1>3, <1>4

-----------------------------------------------------------------------------
(***************************************************************************)
(* The cleanups.                                                           *)
(***************************************************************************)
LEMMA DoomedClosed ==
  ASSUME TypeOK, TreeOK
  PROVE  Closed(Doomed)
<1> DEFINE named == mCleanupSet \union Elements(uninstallList)
<1>1. Doomed = named \union Descendants(named)
  BY DEF Doomed
<1> HIDE DEF named
<1>2. QED
  BY <1>1, SubtreesClosed

LEMMA CleanupKeepsIInv ==
  ASSUME IInv, DoCleanup, UNCHANGED <<mMaxID, mPackageName>>,
         passes' = <<>>, mRootNodesAddedWhileProcessing' = <<>>,
         mSameLineChain' \in [IDs -> [chain : Nat, generation : Nat]],
         mRunawayFeedStopped' \in BOOLEAN, mInstalledPackages' \in BOOLEAN
  PROVE  IInv'
<1>1. Closed(Doomed)
  BY DoomedClosed DEF IInv
<1>2. Free(Doomed) /\ mCleanupSet' = {} /\ uninstallList' = <<>>
  BY DEF DoCleanup
<1>3. NothingPendingIsActive'
  BY <1>2 DEF NothingPendingIsActive, Elements
<1>4. /\ mTemporary' \subseteq mTriggerMap \ Doomed /\ mActive' \subseteq mTriggerMap \ Doomed
      /\ mUserActiveState' \subseteq mTriggerMap \ Doomed
      /\ mCleanupSet' \subseteq mCleanupSet \ Doomed
  BY <1>2 DEF Free, IInv, TypeOK
<1>5. QED
  BY <1>1, <1>2, <1>3, <1>4, FreeingKeepsIInv DEF Free

LEMMA PurgingKeepsIInv ==
  ASSUME IInv, PurgeTemps
  PROVE  IInv'
<1>1. /\ DoCleanup /\ passes = <<>>
      /\ UNCHANGED <<mMaxID, mPackageName, lineage, mRunawayFeedStopped,
                     mInstalledPackages, passes>>
  BY DEF PurgeTemps
<1>2. mRootNodesAddedWhileProcessing = <<>>
  BY <1>1 DEF IInv, IdleOK
<1>3. /\ passes' = <<>> /\ mRootNodesAddedWhileProcessing' = <<>>
      /\ mSameLineChain' \in [IDs -> [chain : Nat, generation : Nat]]
      /\ mRunawayFeedStopped' \in BOOLEAN /\ mInstalledPackages' \in BOOLEAN
  BY <1>1, <1>2 DEF lineage, IInv, TypeOK
<1>4. QED
  BY <1>1, <1>3, CleanupKeepsIInv

LEMMA ResettingKeepsIInv ==
  ASSUME IInv, ResetProfile
  PROVE  IInv'
<1> DEFINE temps == mTemporary \union Descendants(mTemporary)
           freed == Doomed \union temps
<1>1. Closed(freed)
  <2>1. Closed(Doomed) /\ Closed(temps)
    BY DoomedClosed, SubtreesClosed DEF IInv
  <2> HIDE DEF temps
  <2>2. QED
    BY <2>1 DEF Closed
<1>2. /\ passes = <<>> /\ mTriggerMap' = mTriggerMap \ freed /\ mTemporary' = {}
      /\ mUserActiveState' = mUserActiveState \ freed /\ mActive' = mUserActiveState'
      /\ mAncestors' = [t \in IDs |-> IF t \in freed THEN {} ELSE mAncestors[t]]
      /\ mExpiryCount' = [t \in IDs |-> IF t \in freed THEN -1 ELSE mExpiryCount[t]]
      /\ mTriggerRootNodeList' = Without(mTriggerRootNodeList, freed)
      /\ mCleanupSet' = {} /\ uninstallList' = <<>>
      /\ UNCHANGED <<mMaxID, mPackageName, lineage, mRunawayFeedStopped,
                     mInstalledPackages, passes>>
  <2>1. Doomed \union mTemporary \union Descendants(mTemporary) = freed
    OBVIOUS
  <2>2. QED
    BY <2>1, Zenon DEF ResetProfile
<1> HIDE DEF freed
<1>3. mRootNodesAddedWhileProcessing = <<>>
  BY <1>2 DEF IInv, IdleOK
<1>4. NothingPendingIsActive'
  BY <1>2 DEF NothingPendingIsActive, Elements
<1>5. /\ mTemporary' \subseteq mTriggerMap \ freed /\ mActive' \subseteq mTriggerMap \ freed
      /\ mUserActiveState' \subseteq mTriggerMap \ freed
      /\ mCleanupSet' \subseteq mCleanupSet \ freed
  BY <1>2 DEF IInv, TypeOK
<1>6. /\ passes' = <<>> /\ mRootNodesAddedWhileProcessing' = <<>>
      /\ mSameLineChain' \in [IDs -> [chain : Nat, generation : Nat]]
      /\ mRunawayFeedStopped' \in BOOLEAN /\ mInstalledPackages' \in BOOLEAN
      /\ UNCHANGED <<mMaxID, mPackageName>>
  BY <1>2, <1>3 DEF lineage, IInv, TypeOK
<1>7. QED
  BY <1>1, <1>2, <1>4, <1>5, <1>6, FreeingKeepsIInv

LEMMA EndPassKeepsIInv ==
  ASSUME IInv, EndPass
  PROVE  IInv'
<1>1. /\ passes # <<>> /\ passes \in Seq(Passes) /\ Len(passes) \in Nat \ {0}
      /\ passes' = SubSeq(passes, 1, Len(passes) - 1)
      /\ mRunawayFeedStopped' \in BOOLEAN
      /\ UNCHANGED <<mMaxID, mPackageName, mInstalledPackages>>
  BY TopPass DEF EndPass, BetweenAdded, IInv, TypeOK, Passes, MatchCalls
<1>2. CASE Len(passes) > 1
  <2>1. UNCHANGED <<treeAndLists, actives, mExpiryCount, doomed, mInstalledPackages>>
    BY <1>1, <1>2 DEF EndPass, treeAndLists, items
  <2>2. QED
    BY <1>1, <1>2, <2>1, EndingKeepsIInv
<1>3. CASE ~(Len(passes) > 1)
  <2>1. /\ mSameLineChain' = [t \in IDs |-> NoChain]
        /\ mRootNodesAddedWhileProcessing' = <<>> /\ DoCleanup
    BY <1>3 DEF EndPass
  <2>2. passes' = <<>>
    BY <1>1, <1>3
  <2>3. mSameLineChain' \in [IDs -> [chain : Nat, generation : Nat]]
    BY <2>1 DEF NoChain
  <2>4. mInstalledPackages' \in BOOLEAN
    BY <1>1 DEF IInv, TypeOK
  <2>5. QED
    BY <1>1, <2>1, <2>2, <2>3, <2>4, CleanupKeepsIInv
<1>4. QED
  BY <1>2, <1>3

-----------------------------------------------------------------------------
(***************************************************************************)
(* The steps of a pass, and of what starts one.                            *)
(***************************************************************************)
Moves ==
    \/ MatchRoot \/ EndOfRoots
    \/ PassOverAdded \/ MatchAdded \/ StopSameLineCreationLoop
    \/ ScriptReturns \/ MatchChild \/ MatchReturns

LEMMA MovesMove ==
  ASSUME TypeOK, NoDanglingPointers, Moves
  PROVE  /\ Moved
         /\ UNCHANGED <<treeAndLists, uninstallList, mInstalledPackages, mRunawayFeedStopped>>
<1>1. Moved
  BY RootStepsGo, AddedStepsGo, CallStepsGo, PassGoesOn DEF Moves
<1>2. UNCHANGED <<treeAndLists, uninstallList, mInstalledPackages, mRunawayFeedStopped>>
  BY DEF Moves, MatchRoot, EndOfRoots, PassOverAdded, MatchAdded, StopSameLineCreationLoop,
         ScriptReturns, MatchChild, MatchReturns, treeAndLists, doomed
<1>3. QED
  BY <1>1, <1>2

LEMMA MovesKeepIInv ==
  ASSUME IInv, Moves
  PROVE  IInv'
<1>1. /\ Moved /\ UNCHANGED <<treeAndLists, uninstallList, mInstalledPackages>>
      /\ mRunawayFeedStopped' = mRunawayFeedStopped
  BY MovesMove DEF IInv
<1>2. /\ mExpiryCount \in [IDs -> Int] /\ mCleanupSet \subseteq mTriggerMap
      /\ mTemporary \subseteq mTriggerMap
  BY DEF IInv, TypeOK, NoDanglingPointers
<1>3. /\ mActive' \subseteq mActive /\ mUserActiveState' \subseteq mUserActiveState
      /\ mExpiryCount' \in [IDs -> Int] /\ mCleanupSet' \subseteq mTriggerMap
      /\ \A t \in mCleanupSet' : t \in mCleanupSet \/ t \notin mActive'
  <2>1. CASE MatchRoot \/ EndOfRoots \/ PassOverAdded \/ MatchAdded \/ MatchChild
    BY <1>2, <2>1 DEF MatchRoot, EndOfRoots, PassOverAdded, MatchAdded, MatchChild,
                      actives, doomed
  <2>2. CASE StopSameLineCreationLoop
    <3> DEFINE members == {t \in Elements(mRootNodesAddedWhileProcessing) \ {0} :
                              mSameLineChain[t].chain = mSameLineChain[Added].chain}
    <3>1. /\ mActive' = mActive \ members
          /\ mUserActiveState' = mUserActiveState \ (members \intersect mTemporary)
          /\ mCleanupSet' = mCleanupSet \union (members \intersect mTemporary)
          /\ mExpiryCount' = mExpiryCount
      BY <2>2 DEF StopSameLineCreationLoop
    <3> HIDE DEF members
    <3>2. QED
      BY <1>2, <3>1
  <2>3. CASE ScriptReturns
    <3>1. Frame.trigger \in IDs
      BY <2>3, TopPass DEF IInv, ScriptReturns, ScriptRuns, MatchCalls
    <3>2. mExpiryCount' \in [IDs -> Int]
      BY <1>2, <2>3, <3>1 DEF ScriptReturns
    <3>3. QED
      BY <1>2, <2>3, <3>2 DEF ScriptReturns, actives, doomed
  <2>4. CASE MatchReturns
    <3> DEFINE t == Frame.trigger
    <3>1. t \in IDs /\ t \in mTriggerMap
      BY <2>4, TopPass, PinnedAndCalledExist
         DEF IInv, MatchReturns, InChildren, MatchCalls, Frame
    <3>2. /\ mExpiryCount' = [mExpiryCount EXCEPT ![t] = IF @ > -1 THEN @ - 1 ELSE @]
          /\ IF mExpiryCount[t] = 1
             THEN /\ mActive' = mActive \ {t}
                  /\ mUserActiveState' = mUserActiveState \ {t}
                  /\ mCleanupSet' = mCleanupSet \union {t}
             ELSE UNCHANGED <<actives, mCleanupSet>>
      BY <2>4 DEF MatchReturns
    <3> HIDE DEF t
    <3>3. mExpiryCount' \in [IDs -> Int]
      BY <1>2, <3>1, <3>2
    <3>4. QED
      BY <1>2, <3>1, <3>2, <3>3 DEF actives
  <2>5. QED
    BY <2>1, <2>2, <2>3, <2>4 DEF Moves
<1>4. QED
  BY <1>1, <1>3, MovingKeepsIInv

LEMMA FeedingKeepsIInv ==
  ASSUME IInv, ReceiveLine \/ FeedTriggers
  PROVE  IInv'
<1>1. UNCHANGED <<treeAndLists, actives, mExpiryCount, doomed, mInstalledPackages>>
  BY DEF ReceiveLine, FeedTriggers, treeAndLists
<1>2. CASE StartPass /\ mRunawayFeedStopped' = mRunawayFeedStopped
  BY <1>1, <1>2, StartingKeepsIInv
<1>3. CASE mRunawayFeedStopped' = TRUE /\ UNCHANGED passes
  <2>1. /\ mActive' \subseteq mTriggerMap /\ mUserActiveState' \subseteq mTriggerMap
        /\ mExpiryCount' \in [IDs -> Int] /\ mCleanupSet' \subseteq mTriggerMap
        /\ uninstallList' \in Seq(IDs) /\ Elements(uninstallList') \subseteq mTriggerMap
        /\ passes = <<>> => uninstallList' = <<>>
        /\ mRunawayFeedStopped' \in BOOLEAN /\ mInstalledPackages' \in BOOLEAN
        /\ UNCHANGED <<treeAndLists, passes>>
    BY <1>1, <1>3 DEF actives, doomed, IInv, TypeOK, NoDanglingPointers, IdleOK
  <2>2. NothingPendingIsActive'
    BY <1>1 DEF actives, doomed, IInv, NothingPendingIsActive, IsActive
  <2>3. QED
    BY <2>1, <2>2, QueueingKeepsIInv
<1>4. QED
  BY <1>2, <1>3 DEF ReceiveLine, FeedTriggers

LEMMA StutteringKeepsIInv ==
  ASSUME IInv, UNCHANGED vars
  PROVE  IInv'
<1>1. /\ mActive' \subseteq mTriggerMap /\ mUserActiveState' \subseteq mTriggerMap
      /\ mExpiryCount' \in [IDs -> Int] /\ mCleanupSet' \subseteq mTriggerMap
      /\ uninstallList' \in Seq(IDs) /\ Elements(uninstallList') \subseteq mTriggerMap
      /\ passes = <<>> => uninstallList' = <<>>
      /\ mRunawayFeedStopped' \in BOOLEAN /\ mInstalledPackages' \in BOOLEAN
      /\ UNCHANGED <<treeAndLists, passes>>
  BY DEF vars, treeAndLists, actives, doomed, IInv, TypeOK, NoDanglingPointers, IdleOK
<1>2. NothingPendingIsActive'
  BY DEF vars, actives, doomed, IInv, NothingPendingIsActive, IsActive
<1>3. QED
  BY <1>1, <1>2, QueueingKeepsIInv

-----------------------------------------------------------------------------
(***************************************************************************)
(* The theorems.                                                           *)
(***************************************************************************)
LEMMA InitEstablishesIInv == Init => IInv
<1> SUFFICES ASSUME Init PROVE IInv
  OBVIOUS
<1>1. /\ DOMAIN <<>> = {} /\ <<>> \in Seq(IDs) /\ <<>> \in Seq(IDs \union {0})
      /\ <<>> \in Seq(Passes) /\ Elements(<<>>) = {} /\ Distinct(<<>>)
  BY DEF Elements, Distinct
<1>2. TypeOK
  <2>1. 0 \in 0..MaxTriggers /\ NoChain \in [chain : Nat, generation : Nat]
    BY TriggerUnitAssumption DEF NoChain
  <2>2. /\ mAncestors \in [IDs -> SUBSET IDs] /\ mExpiryCount \in [IDs -> Int]
        /\ mSameLineChain \in [IDs -> [chain : Nat, generation : Nat]]
    BY <2>1 DEF Init
  <2>3. /\ mMaxID \in 0..MaxTriggers /\ mTriggerMap \subseteq 1..mMaxID
        /\ mTemporary \subseteq mTriggerMap /\ mPackageName \subseteq 1..mMaxID
        /\ mActive \subseteq mTriggerMap /\ mUserActiveState \subseteq mTriggerMap
        /\ mCleanupSet \subseteq IDs
    BY <2>1 DEF Init
  <2>4. /\ mTriggerRootNodeList \in Seq(IDs) /\ uninstallList \in Seq(IDs)
        /\ mRootNodesAddedWhileProcessing \in Seq(IDs \union {0}) /\ passes \in Seq(Passes)
        /\ mRunawayFeedStopped \in BOOLEAN /\ mInstalledPackages \in BOOLEAN
    BY <1>1 DEF Init
  <2>5. QED
    BY <2>2, <2>3, <2>4 DEF TypeOK, Passes, MatchCalls
<1>3. TreeOK /\ NoDanglingPointers /\ IdleOK /\ OffersOK /\ NothingPendingIsActive
  BY <1>1 DEF Init, TreeOK, NoDanglingPointers, IdleOK, OffersOK, NothingPendingIsActive
<1>4. QED
  BY <1>2, <1>3 DEF IInv

LEMMA NextKeepsIInv == IInv /\ [Next]_vars => IInv'
<1> SUFFICES ASSUME IInv, [Next]_vars PROVE IInv'
  OBVIOUS
<1>1. CASE LuaCall
  <2>1. CASE \E e \in ExpiryCounts : TempTrigger(e)
    BY <2>1, TempTriggerKeepsIInv
  <2>2. CASE \E p \in mTriggerMap \union {0} : PermTrigger(p)
    BY <2>2, PermTriggerKeepsIInv
  <2>3. CASE \E t \in mTriggerMap : EnableTrigger(t) \/ DisableTrigger(t) \/ KillTrigger(t)
    BY <2>3, FlagsKeepIInv
  <2>4. CASE InstallPackage
    BY <2>4, InstallPackageKeepsIInv
  <2>5. CASE InstallPackageWithoutTriggers
    BY <2>5, FolderGoesAgain
  <2>6. CASE UninstallPackage
    BY <2>6, UninstallKeepsIInv
  <2>7. QED
    BY <1>1, <2>1, <2>2, <2>3, <2>4, <2>5, <2>6 DEF LuaCall
<1>2. CASE MatchStep
  <2>1. CASE ReceiveLine \/ FeedTriggers
    BY <2>1, FeedingKeepsIInv
  <2>2. CASE Moves
    BY <2>2, MovesKeepIInv
  <2>3. CASE EndPass
    BY <2>3, EndPassKeepsIInv
  <2>4. QED
    BY <1>2, <2>1, <2>2, <2>3 DEF MatchStep, Moves
<1>3. CASE PurgeTemps
  BY <1>3, PurgingKeepsIInv
<1>4. CASE ResetProfile
  BY <1>4, ResettingKeepsIInv
<1>5. CASE UNCHANGED vars
  BY <1>5, StutteringKeepsIInv
<1>6. QED
  BY <1>1, <1>2, <1>3, <1>4, <1>5 DEF Next

\* Whatever scripts do to the triggers in the middle of a pass, and however
\* passes nest, the inductive invariant holds (TriggerUnit.cpp 899-1100, 1353-1395).
THEOREM IInvHolds == Spec => []IInv
<1>1. Init => IInv
  BY InitEstablishesIInv
<1>2. IInv /\ [Next]_vars => IInv'
  BY NextKeepsIInv
<1>3. QED
  BY <1>1, <1>2, PTL DEF Spec

\* Every variable keeps its type, the stack of passes and calls included.
THEOREM TypeCorrect == Spec => []TypeOK
<1>1. IInv => TypeOK
  BY DEF IInv
<1>2. QED
  BY <1>1, IInvHolds, PTL

\* Whatever scripts create, kill, uninstall and feed, no list, queue, snapshot
\* or match() call holds a trigger that was freed (TriggerUnit.cpp 88-94, 930-936).
THEOREM NoPointerOutlivesItsTrigger == Spec => []NoDanglingPointers
<1>1. IInv => NoDanglingPointers
  BY DEF IInv
<1>2. QED
  BY <1>1, IInvHolds, PTL

\* Nothing brings a killed, expired or uninstalled trigger back before it is
\* freed (TriggerUnit.cpp 1210-1216, 2234-2245).
THEOREM DoomedTriggersStayOff == Spec => []NothingPendingIsActive
<1>1. IInv => NothingPendingIsActive
  BY DEF IInv
<1>2. QED
  BY <1>1, IInvHolds, PTL

-----------------------------------------------------------------------------
(***************************************************************************)
(* Who has had a turn.  OffersOK says where the roots are; WalkOK says how *)
(* far a pass has come: while it visits the pinned roots those up to its   *)
(* place have had their turn, and after that all of them and the added     *)
(* ones before its place, which never gets further than the cap.           *)
(***************************************************************************)
WalkOK(p, added) ==
    /\ p.position <= Len(p.pinned)
    /\ Distinct(p.offered)
    /\ p.next = 0 => Elements(p.offered) = {p.pinned[i] : i \in 1..p.position}
    /\ p.next > 0 =>
          /\ p.first < p.next /\ p.next <= Len(added) + 1
          /\ p.next - 1 - p.first <= MaxSameLineCreationsPerLine
          /\ Elements(p.offered) =
                Elements(p.pinned) \union ({added[i] : i \in (p.first + 1)..(p.next - 1)} \ {0})

WalksOK == \A n \in DOMAIN passes : WalkOK(passes[n], mRootNodesAddedWhileProcessing)

\* The added list stays as it is or grows at its end.
AddedGrows ==
    LET added == mRootNodesAddedWhileProcessing IN
    \/ added' = added
    \/ \E t \in IDs \union {0} : added' = Append(added, t)

LEMMA GrowingKeepsWalks ==
  ASSUME IInv, WalksOK, AddedGrows,
         \A n \in DOMAIN passes' : n \in DOMAIN passes /\ passes'[n] = passes[n]
  PROVE  WalksOK'
<1> DEFINE added == mRootNodesAddedWhileProcessing
<1>1. /\ passes \in Seq(Passes) /\ added \in Seq(IDs \union {0})
      /\ Len(added) \in Nat /\ DOMAIN added = 1..Len(added)
  BY DEF IInv, TypeOK, Passes, MatchCalls
<1>2. Len(added') \in Nat /\ Len(added) <= Len(added')
      /\ \A i \in 1..Len(added) : added'[i] = added[i]
  BY <1>1 DEF AddedGrows
<1>3. SUFFICES ASSUME NEW n \in DOMAIN passes' PROVE WalkOK(passes'[n], added')
  BY DEF WalksOK
<1> DEFINE p == passes[n]
<1>4. p \in Passes /\ WalkOK(p, added) /\ passes'[n] = p
  BY <1>1, <1>3 DEF WalksOK
<1>5. p.next \in Nat /\ p.first \in Nat
  BY <1>4 DEF Passes
<1>6. p.next > 0 =>
         {added'[i] : i \in (p.first + 1)..(p.next - 1)} =
         {added[i] : i \in (p.first + 1)..(p.next - 1)}
  <2> SUFFICES ASSUME p.next > 0, NEW i \in (p.first + 1)..(p.next - 1)
               PROVE  added'[i] = added[i]
    OBVIOUS
  <2>1. p.next <= Len(added) + 1
    BY <1>4 DEF WalkOK
  <2> HIDE DEF p, added
  <2>2. i \in 1..Len(added)
    BY <1>1, <1>5, <2>1
  <2>3. QED
    BY <1>2, <2>2
<1> DEFINE k == Len(added)
           l == Len(added')
<1>7. p.next <= k + 1 => p.next <= l + 1
  <2>1. k \in Nat /\ l \in Nat /\ k <= l
    BY <1>1, <1>2
  <2> HIDE DEF p, k, l
  <2>2. QED
    BY <1>5, <2>1
<1> HIDE DEF p, added
<1>8. WalkOK(p, added')
  <2>1. CASE p.next > 0
    <3>1. p.next # 0
      BY <1>5, <2>1
    <3>2. /\ p.position <= Len(p.pinned) /\ Distinct(p.offered)
          /\ p.first < p.next /\ p.next <= l + 1
          /\ p.next - 1 - p.first <= MaxSameLineCreationsPerLine
          /\ Elements(p.offered) =
                Elements(p.pinned) \union ({added'[i] : i \in (p.first + 1)..(p.next - 1)} \ {0})
      BY <1>4, <1>6, <1>7, <2>1 DEF WalkOK
    <3>3. QED
      BY <3>1, <3>2, Zenon DEF WalkOK
  <2>2. CASE ~(p.next > 0)
    BY <1>4, <2>2 DEF WalkOK
  <2>3. QED
    BY <2>1, <2>2
<1>9. QED
  BY <1>4, <1>8, Zenon

\* A pass that goes on, the others being where they were.
LEMMA GoingKeepsWalks ==
  ASSUME IInv, WalksOK, passes # <<>>, NEW i, NEW n, NEW o, Goes(i, n, o),
         mRootNodesAddedWhileProcessing' = mRootNodesAddedWhileProcessing,
         \A p \in Passes, c \in Seq(MatchCalls) :
            Becomes(Pass, p, i, n, o, c) => WalkOK(p, mRootNodesAddedWhileProcessing)
  PROVE  WalksOK'
<1>1. passes \in Seq(Passes) /\ Len(passes) \in DOMAIN passes
  BY TopPass DEF IInv, TypeOK, Passes, MatchCalls
<1>2. PICK p \in Passes : SetPass(p) /\ WalkOK(p, mRootNodesAddedWhileProcessing)
  BY DEF Goes
<1>3. passes' = [passes EXCEPT ![Len(passes)] = p]
  BY <1>2 DEF SetPass
<1>4. /\ DOMAIN passes' = DOMAIN passes
      /\ \A m \in DOMAIN passes : passes'[m] = IF m = Len(passes) THEN p ELSE passes[m]
  BY <1>1, <1>3
<1>5. \A m \in DOMAIN passes' : WalkOK(passes'[m], mRootNodesAddedWhileProcessing)
  BY <1>2, <1>4 DEF WalksOK
<1>6. QED
  BY <1>5 DEF WalksOK

\* A line or a feed: the new pass has offered nothing yet.
LEMMA StartingKeepsWalks ==
  ASSUME IInv, WalksOK, ReceiveLine \/ FeedTriggers
  PROVE  WalksOK'
<1>1. mRootNodesAddedWhileProcessing' = mRootNodesAddedWhileProcessing
  BY DEF ReceiveLine, FeedTriggers, lineage
<1>2. passes \in Seq(Passes) /\ mTriggerRootNodeList \in Seq(IDs)
  BY DEF IInv, TypeOK, Passes, MatchCalls
<1>3. CASE passes' = passes
  BY <1>1, <1>3, GrowingKeepsWalks DEF AddedGrows
<1>4. CASE StartPass
  <2> DEFINE p == [pinned |-> mTriggerRootNodeList, position |-> 0,
                   first |-> Len(mRootNodesAddedWhileProcessing), next |-> 0, frames |-> <<>>,
                   offered |-> <<>>]
  <2>1. passes' = Append(passes, p)
    BY <1>4 DEF StartPass
  <2>2. /\ p.pinned = mTriggerRootNodeList /\ p.position = 0 /\ p.next = 0
        /\ p.offered = <<>>
    OBVIOUS
  <2> HIDE DEF p
  <2>3. WalkOK(p, mRootNodesAddedWhileProcessing)
    <3>1. /\ Distinct(<<>>) /\ Elements(<<>>) = {} /\ 0 <= Len(mTriggerRootNodeList)
      BY <1>2 DEF Distinct, Elements
    <3>2. \A j : j \notin 1..0
      OBVIOUS
    <3>3. {p.pinned[j] : j \in 1..0} = {}
      BY <3>2
    <3>4. QED
      BY <2>2, <3>1, <3>3 DEF WalkOK
  <2>4. \A n \in DOMAIN passes' : (n \in DOMAIN passes /\ passes'[n] = passes[n]) \/ passes'[n] = p
    BY <1>2, <2>1
  <2>5. \A n \in DOMAIN passes' : WalkOK(passes'[n], mRootNodesAddedWhileProcessing)
    BY <2>3, <2>4 DEF WalksOK
  <2>6. QED
    BY <1>1, <2>5 DEF WalksOK
<1>5. QED
  BY <1>3, <1>4 DEF ReceiveLine, FeedTriggers

LEMMA TopWalk ==
  ASSUME IInv, WalksOK, passes # <<>>
  PROVE  /\ Pass \in Passes /\ WalkOK(Pass, mRootNodesAddedWhileProcessing)
         /\ Distinct(Pass.pinned)
         /\ Pass.pinned \in Seq(IDs) /\ Len(Pass.pinned) \in Nat /\ Pass.offered \in Seq(IDs)
         /\ DOMAIN Pass.pinned = 1..Len(Pass.pinned)
         /\ Pass.position \in Nat /\ Pass.first \in Nat /\ Pass.next \in Nat
         /\ Pass.first <= Len(mRootNodesAddedWhileProcessing)
         /\ \A i \in DOMAIN mRootNodesAddedWhileProcessing :
               i > Pass.first => mRootNodesAddedWhileProcessing[i] \notin Elements(Pass.pinned)
         /\ \A r \in Elements(mTriggerRootNodeList) \ Elements(Pass.pinned) :
               \E i \in DOMAIN mRootNodesAddedWhileProcessing :
                   i > Pass.first /\ mRootNodesAddedWhileProcessing[i] = r
<1>1. Len(passes) \in DOMAIN passes /\ Pass \in Passes
  BY TopPass DEF IInv
<1>2. /\ Pass.pinned \in Seq(IDs) /\ Pass.offered \in Seq(IDs) /\ Pass.position \in Nat
      /\ Pass.first \in Nat /\ Pass.next \in Nat
  BY <1>1 DEF Passes
<1>3. Len(Pass.pinned) \in Nat /\ DOMAIN Pass.pinned = 1..Len(Pass.pinned)
  BY <1>2
<1>4. WalkOK(Pass, mRootNodesAddedWhileProcessing)
  BY <1>1 DEF WalksOK, Pass
<1>5. /\ Distinct(Pass.pinned)
      /\ Pass.first <= Len(mRootNodesAddedWhileProcessing)
      /\ \A i \in DOMAIN mRootNodesAddedWhileProcessing :
            i > Pass.first => mRootNodesAddedWhileProcessing[i] \notin Elements(Pass.pinned)
      /\ \A r \in Elements(mTriggerRootNodeList) \ Elements(Pass.pinned) :
            \E i \in DOMAIN mRootNodesAddedWhileProcessing :
                i > Pass.first /\ mRootNodesAddedWhileProcessing[i] = r
  BY <1>1 DEF IInv, OffersOK, Pass
<1>6. QED
  BY <1>1, <1>2, <1>3, <1>4, <1>5

\* While the pinned roots are visited, those passed over have had their turn too.
LEMMA OfferedUpToIs ==
  ASSUME IInv, WalksOK, passes # <<>>, Pass.next = 0,
         NEW i \in Pass.position..Len(Pass.pinned)
  PROVE  /\ Distinct(OfferedUpTo(i))
         /\ Elements(OfferedUpTo(i)) = {Pass.pinned[j] : j \in 1..i}
<1> DEFINE pinned == Pass.pinned
           m == Pass.position
           middle == SubSeq(pinned, m + 1, i)
           offered == Pass.offered
<1>1. /\ pinned \in Seq(IDs) /\ offered \in Seq(IDs) /\ m \in Nat /\ Len(pinned) \in Nat
      /\ Distinct(pinned) /\ DOMAIN pinned = 1..Len(pinned)
  BY TopWalk
<1>2. Distinct(offered) /\ Elements(offered) = {pinned[j] : j \in 1..m}
  BY TopWalk DEF WalkOK
<1>3. i \in Nat /\ m <= i /\ i <= Len(pinned) /\ i \in 0..Len(pinned)
  BY <1>1
<1> HIDE DEF pinned, m
<1>4. /\ middle \in Seq(IDs) /\ Distinct(middle)
      /\ Elements(middle) = {pinned[j] : j \in (m + 1)..i}
  <2>1. pinned \in Seq(IDs) /\ m \in Nat /\ i \in 0..Len(pinned) /\ Distinct(pinned)
    BY <1>1, <1>3
  <2>2. middle \in Seq(IDs)
    BY <2>1, MiddleIs
  <2>3. /\ \A j \in (m + 1)..i : pinned[j] \in Elements(middle)
        /\ \A e \in Elements(middle) : \E j \in (m + 1)..i : e = pinned[j]
    BY <2>1, MiddleIs
  <2>4. Distinct(middle)
    BY <2>1, MiddleIs
  <2>5. QED
    BY <2>2, <2>3, <2>4
<1>5. OfferedUpTo(i) = offered \o middle
  BY DEF OfferedUpTo, pinned, m
<1> HIDE DEF middle, offered
<1>6. Elements(offered) \intersect Elements(middle) = {}
  <2>1. \A j \in 1..m, k \in (m + 1)..i : j \in DOMAIN pinned /\ k \in DOMAIN pinned /\ j # k
    BY <1>1, <1>3
  <2>2. QED
    BY <1>1, <1>2, <1>4, <2>1 DEF Distinct
<1>7. Distinct(offered \o middle)
      /\ Elements(offered \o middle) = Elements(offered) \union Elements(middle)
  BY <1>1, <1>2, <1>4, <1>6, DistinctConcat, ElementsConcat
<1>8. {pinned[j] : j \in 1..m} \union {pinned[j] : j \in (m + 1)..i} = {pinned[j] : j \in 1..i}
  <2>1. 1..i = (1..m) \union ((m + 1)..i)
    BY <1>1, <1>3
  <2>2. QED
    BY <2>1
<1>9. QED
  BY <1>2, <1>4, <1>5, <1>7, <1>8 DEF pinned

LEMMA RootStepsKeepWalks ==
  ASSUME IInv, WalksOK, MatchRoot \/ EndOfRoots
  PROVE  WalksOK'
<1> DEFINE added == mRootNodesAddedWhileProcessing
<1>1. TypeOK /\ NoDanglingPointers /\ added' = added
  BY DEF IInv, MatchRoot, EndOfRoots, lineage
<1>2. passes # <<>> /\ Pass.next = 0
  BY <1>1, RootStepsGo
<1>3. /\ Pass.position \in Nat /\ Len(Pass.pinned) \in Nat /\ Pass.first \in Nat
      /\ Pass.first <= Len(added) /\ Pass.position <= Len(Pass.pinned)
      /\ DOMAIN Pass.pinned = 1..Len(Pass.pinned)
  BY <1>2, TopWalk DEF WalkOK
<1>4. CASE MatchRoot
  <2>1. PICK i \in (Pass.position + 1)..Len(Pass.pinned) : Goes(i, 0, OfferedUpTo(i))
    BY <1>1, <1>4, RootStepsGo
  <2>2. i \in Pass.position..Len(Pass.pinned) /\ i <= Len(Pass.pinned)
    BY <1>3
  <2>3. /\ Distinct(OfferedUpTo(i))
        /\ Elements(OfferedUpTo(i)) = {Pass.pinned[j] : j \in 1..i}
    BY <1>2, <2>2, OfferedUpToIs
  <2> DEFINE o == OfferedUpTo(i)
  <2> HIDE DEF o
  <2>4. ASSUME NEW p \in Passes, NEW c \in Seq(MatchCalls), Becomes(Pass, p, i, 0, o, c)
        PROVE  WalkOK(p, added)
    <3>1. p.pinned = Pass.pinned /\ p.position = i /\ p.next = 0 /\ p.offered = o
      BY <2>4 DEF Becomes
    <3>2. QED
      BY <2>2, <2>3, <3>1 DEF WalkOK, o
  <2>5. Goes(i, 0, o)
    BY <2>1 DEF o
  <2>6. QED
    BY <1>1, <1>2, <2>4, <2>5, GoingKeepsWalks
<1>5. CASE EndOfRoots
  <2> DEFINE i == Len(Pass.pinned)
             n == Pass.first + 1
             o == OfferedUpTo(i)
  <2>1. Goes(i, n, o)
    BY <1>1, <1>5, RootStepsGo
  <2>2. i \in Pass.position..Len(Pass.pinned)
    BY <1>3
  <2>3. Distinct(o) /\ Elements(o) = {Pass.pinned[j] : j \in 1..i}
    BY <1>2, <2>2, OfferedUpToIs
  <2>4. Elements(o) = Elements(Pass.pinned)
    BY <1>3, <2>3 DEF Elements
  <2>5. Len(added) \in Nat /\ MaxSameLineCreationsPerLine \in Nat
    BY <1>1, TriggerUnitAssumption DEF TypeOK
  <2> HIDE DEF o, added
  <2>6. ASSUME NEW p \in Passes, NEW c \in Seq(MatchCalls), Becomes(Pass, p, i, n, o, c)
        PROVE  WalkOK(p, added)
    <3>1. /\ p.pinned = Pass.pinned /\ p.position = i /\ p.first = Pass.first
          /\ p.next = Pass.first + 1 /\ p.offered = o
      BY <2>6 DEF Becomes
    <3>2. /\ p.next > 0 /\ p.first < p.next /\ p.next <= Len(added) + 1
          /\ p.next - 1 - p.first <= MaxSameLineCreationsPerLine
          /\ p.position <= Len(p.pinned)
      BY <1>3, <2>5, <3>1
    <3>3. {added[j] : j \in (p.first + 1)..(p.next - 1)} = {}
      <4>1. \A j : j \notin (p.first + 1)..(p.next - 1)
        BY <1>3, <3>1
      <4>2. QED
        BY <4>1
    <3>4. p.next # 0 /\ Elements(p.offered) = Elements(p.pinned) /\ Distinct(p.offered)
      BY <1>3, <2>3, <2>4, <3>1
    <3>5. QED
      BY <3>2, <3>3, <3>4 DEF WalkOK
  <2> HIDE DEF i, n
  <2>7. QED
    BY <1>1, <1>2, <2>1, <2>6, GoingKeepsWalks DEF added
<1>6. QED
  BY <1>4, <1>5

LEMMA AddedStepsKeepWalks ==
  ASSUME IInv, WalksOK, PassOverAdded \/ MatchAdded \/ StopSameLineCreationLoop
  PROVE  WalksOK'
<1> DEFINE added == mRootNodesAddedWhileProcessing
           first == Pass.first
           next == Pass.next
           o == OfferedToAdded
           n == next + 1
<1>1. TypeOK /\ NoDanglingPointers /\ added' = added
  BY DEF IInv, PassOverAdded, MatchAdded, StopSameLineCreationLoop, lineage
<1>2. /\ passes # <<>> /\ BetweenAdded /\ ~AddedLoopEnds
      /\ Goes(Pass.position, n, o)
  BY <1>1, AddedStepsGo
<1>3. /\ first \in Nat /\ next \in Nat /\ next > 0 /\ Pass.position <= Len(Pass.pinned)
      /\ Pass.offered \in Seq(IDs) /\ Distinct(Pass.offered)
      /\ first < next
      /\ Elements(Pass.offered) =
            Elements(Pass.pinned) \union ({added[i] : i \in (first + 1)..(next - 1)} \ {0})
  BY <1>2, TopWalk DEF WalkOK, BetweenAdded
<1>4. /\ next <= Len(added) /\ ~(next - 1 - first >= MaxSameLineCreationsPerLine)
      /\ Len(added) \in Nat /\ DOMAIN added = 1..Len(added)
      /\ MaxSameLineCreationsPerLine \in Nat
  <2>1. added \in Seq(IDs \union {0})
    BY <1>1 DEF TypeOK
  <2>2. ~(next > Len(added)) /\ ~(next - 1 - first >= MaxSameLineCreationsPerLine)
    BY <1>2 DEF AddedLoopEnds
  <2> HIDE DEF added, first, next
  <2>3. Len(added) \in Nat /\ DOMAIN added = 1..Len(added)
    BY <2>1
  <2>4. QED
    BY <1>3, <2>2, <2>3, TriggerUnitAssumption
<1>5. /\ Added = added[next] /\ next \in DOMAIN added
      /\ Added # 0 => Added \in IDs
  BY <1>1, <1>2, AddedExists DEF Added
<1>6. /\ \A i \in DOMAIN added : i > first => added[i] \notin Elements(Pass.pinned)
      /\ \A i, j \in DOMAIN added : added[i] = added[j] /\ added[i] # 0 => i = j
  BY <1>2, TopWalk DEF IInv, OffersOK
<1> HIDE DEF added, first, next
<1>7. Added # 0 => Added \notin Elements(Pass.offered)
  <2>1. Added \notin Elements(Pass.pinned)
    BY <1>3, <1>4, <1>5, <1>6
  <2>2. \A i \in (first + 1)..(next - 1) : i \in DOMAIN added /\ i # next
    BY <1>3, <1>4
  <2>3. Added # 0 => Added \notin {added[i] : i \in (first + 1)..(next - 1)}
    BY <1>5, <1>6, <2>2
  <2>4. QED
    BY <1>3, <2>1, <2>3
<1>8. Distinct(o) /\ Elements(o) = Elements(Pass.offered) \union ({Added} \ {0})
  <2>1. CASE Added = 0
    BY <1>3, <2>1 DEF OfferedToAdded
  <2>2. CASE Added # 0
    <3>1. o = Append(Pass.offered, Added)
      BY <2>2 DEF OfferedToAdded
    <3>2. Distinct(Append(Pass.offered, Added))
      BY <1>3, <1>5, <1>7, <2>2, DistinctAppend
    <3>3. Elements(Append(Pass.offered, Added)) = Elements(Pass.offered) \union {Added}
      BY <1>3, <1>5, <2>2, ElementsAppend
    <3>4. QED
      BY <2>2, <3>1, <3>2, <3>3
  <2>3. QED
    BY <2>1, <2>2
<1>9. {added[i] : i \in (first + 1)..(n - 1)}
         = {added[i] : i \in (first + 1)..(next - 1)} \union {Added}
  <2>1. (first + 1)..(n - 1) = ((first + 1)..(next - 1)) \union {next}
    BY <1>3
  <2>2. QED
    BY <1>5, <2>1
<1>10. /\ n > 0 /\ n # 0 /\ first < n /\ n <= Len(added) + 1
       /\ n - 1 - first <= MaxSameLineCreationsPerLine
  BY <1>3, <1>4
<1>11. Elements(o) = Elements(Pass.pinned) \union ({added[i] : i \in (first + 1)..(n - 1)} \ {0})
  BY <1>3, <1>8, <1>9
<1> HIDE DEF o, n
<1>12. ASSUME NEW p \in Passes, NEW c \in Seq(MatchCalls), Becomes(Pass, p, Pass.position, n, o, c)
       PROVE  WalkOK(p, added)
  <2>1. /\ p.pinned = Pass.pinned /\ p.position = Pass.position /\ p.first = first
        /\ p.next = n /\ p.offered = o
    BY <1>12 DEF Becomes, first
  <2>2. QED
    BY <1>3, <1>8, <1>10, <1>11, <2>1 DEF WalkOK
<1>13. QED
  BY <1>1, <1>2, <1>12, GoingKeepsWalks DEF added

LEMMA MovesKeepWalks ==
  ASSUME IInv, WalksOK, Moves
  PROVE  WalksOK'
<1>1. CASE MatchRoot \/ EndOfRoots
  BY <1>1, RootStepsKeepWalks
<1>2. CASE PassOverAdded \/ MatchAdded \/ StopSameLineCreationLoop
  BY <1>2, AddedStepsKeepWalks
<1>3. CASE ScriptReturns \/ MatchChild \/ MatchReturns
  <2>1. passes # <<>> /\ Goes(Pass.position, Pass.next, Pass.offered)
    BY <1>3, CallStepsGo DEF IInv
  <2>2. mRootNodesAddedWhileProcessing' = mRootNodesAddedWhileProcessing
    BY <1>3 DEF ScriptReturns, MatchChild, MatchReturns, lineage
  <2>3. ASSUME NEW p \in Passes, NEW c \in Seq(MatchCalls),
               Becomes(Pass, p, Pass.position, Pass.next, Pass.offered, c)
        PROVE  WalkOK(p, mRootNodesAddedWhileProcessing)
    <3>1. WalkOK(Pass, mRootNodesAddedWhileProcessing)
      BY <2>1, TopWalk
    <3>2. QED
      BY <2>3, <3>1 DEF Becomes, WalkOK
  <2>4. QED
    BY <2>1, <2>2, <2>3, GoingKeepsWalks
<1>4. QED
  BY <1>1, <1>2, <1>3 DEF Moves

LEMMA EndingKeepsWalks ==
  ASSUME IInv, WalksOK, EndPass
  PROVE  WalksOK'
<1>1. /\ passes \in Seq(Passes) /\ Len(passes) \in Nat \ {0}
      /\ passes' = SubSeq(passes, 1, Len(passes) - 1)
  BY TopPass DEF EndPass, BetweenAdded, IInv, TypeOK, Passes, MatchCalls
<1>2. CASE Len(passes) > 1
  <2>1. AddedGrows
    BY <1>2 DEF EndPass, lineage, AddedGrows
  <2>2. \A n \in DOMAIN passes' : n \in DOMAIN passes /\ passes'[n] = passes[n]
    BY <1>1
  <2>3. QED
    BY <2>1, <2>2, GrowingKeepsWalks
<1>3. CASE ~(Len(passes) > 1)
  <2>1. passes' = <<>>
    BY <1>1, <1>3
  <2>2. QED
    BY <2>1 DEF WalksOK
<1>4. QED
  BY <1>2, <1>3

\* What a script calls adds to the list at its end, if at all.
LEMMA CallsGrowAdded ==
  ASSUME IInv, LuaCall
  PROVE  AddedGrows
<1>1. ASSUME NEW t \in IDs, RegisterRoot(t) PROVE AddedGrows
  BY <1>1 DEF RegisterRoot, AddedGrows, lineage
<1>2. ASSUME NEW e \in ExpiryCounts, TempTrigger(e) PROVE AddedGrows
  BY <1>1, <1>2 DEF TempTrigger
<1>3. ASSUME NEW p \in mTriggerMap \union {0}, PermTrigger(p) PROVE AddedGrows
  <2>1. mMaxID + 1 \in IDs
        /\ (RegisterRoot(mMaxID + 1)
            \/ mRootNodesAddedWhileProcessing' = mRootNodesAddedWhileProcessing)
    BY <1>3 DEF PermTrigger, lineage
  <2>2. QED
    BY <1>1, <2>1 DEF AddedGrows
<1>4. ASSUME NEW t \in mTriggerMap, EnableTrigger(t) \/ DisableTrigger(t) \/ KillTrigger(t)
      PROVE  AddedGrows
  BY <1>4 DEF EnableTrigger, DisableTrigger, KillTrigger, AddedGrows, lineage
<1>5. ASSUME InstallPackage PROVE AddedGrows
  <2>1. mMaxID + 1 \in IDs
    <3>1. mMaxID + 2 \in 1..MaxTriggers
      BY <1>5 DEF InstallPackage, IDs
    <3>2. mMaxID \in Nat
      BY TriggerUnitAssumption DEF IInv, TypeOK
    <3>3. QED
      BY <3>1, <3>2, TriggerUnitAssumption DEF IDs
  <2>2. \/ mRootNodesAddedWhileProcessing' = Append(mRootNodesAddedWhileProcessing, mMaxID + 1)
        \/ mRootNodesAddedWhileProcessing' = mRootNodesAddedWhileProcessing
    BY <1>5 DEF InstallPackage, lineage
  <2>3. QED
    BY <2>1, <2>2 DEF AddedGrows
<1>6. ASSUME InstallPackageWithoutTriggers PROVE AddedGrows
  BY <1>6 DEF InstallPackageWithoutTriggers, AddedGrows
<1>7. ASSUME UninstallPackage PROVE AddedGrows
  BY <1>7 DEF UninstallPackage, AddedGrows, lineage
<1>8. QED
  BY <1>2, <1>3, <1>4, <1>5, <1>6, <1>7 DEF LuaCall

LEMMA WalkStep ==
  ASSUME IInv, WalksOK, [Next]_vars
  PROVE  WalksOK'
<1>1. CASE LuaCall
  <2>1. passes' = passes
    BY <1>1 DEF LuaCall, TempTrigger, PermTrigger, EnableTrigger, DisableTrigger, KillTrigger,
                InstallPackage, InstallPackageWithoutTriggers, UninstallPackage
  <2>2. AddedGrows
    BY <1>1, CallsGrowAdded
  <2>3. QED
    BY <2>1, <2>2, GrowingKeepsWalks
<1>2. CASE ReceiveLine \/ FeedTriggers
  BY <1>2, StartingKeepsWalks
<1>3. CASE Moves
  BY <1>3, MovesKeepWalks
<1>4. CASE EndPass
  BY <1>4, EndingKeepsWalks
<1>5. CASE PurgeTemps \/ ResetProfile \/ UNCHANGED vars
  <2>1. UNCHANGED <<mRootNodesAddedWhileProcessing, passes>>
    BY <1>5 DEF PurgeTemps, ResetProfile, vars, lineage
  <2>2. QED
    BY <2>1, GrowingKeepsWalks DEF AddedGrows
<1>6. QED
  BY <1>1, <1>2, <1>3, <1>4, <1>5 DEF Next, MatchStep, Moves

\* The only step that takes a pass off the stack is its end, and there nothing is
\* ahead of it but what the cap keeps out.
LEMMA TurnsTaken ==
  ASSUME IInv, WalksOK, [Next]_vars, Len(passes') < Len(passes)
  PROVE  /\ Distinct(Pass.offered)
         /\ Elements(Pass.offered) \intersect BeyondCap = {}
         /\ Elements(mTriggerRootNodeList) \subseteq Elements(Pass.offered) \union BeyondCap
<1> DEFINE added == mRootNodesAddedWhileProcessing
           pinned == Pass.pinned
           first == Pass.first
           next == Pass.next
           max == MaxSameLineCreationsPerLine
           beyond == {added[i] : i \in {j \in DOMAIN added : j > first + max}}
<1>1. EndPass
  <2>1. passes \in Seq(Passes) /\ Len(passes) \in Nat
    BY DEF IInv, TypeOK, Passes, MatchCalls
  <2>2. CASE LuaCall \/ PurgeTemps \/ ResetProfile \/ UNCHANGED vars
    <3>1. UNCHANGED passes
      BY <2>2 DEF LuaCall, PurgeTemps, ResetProfile, vars, TempTrigger, PermTrigger,
                  EnableTrigger, DisableTrigger, KillTrigger, InstallPackage,
                  InstallPackageWithoutTriggers, UninstallPackage
    <3>2. QED
      BY <2>1, <3>1
  <2>3. CASE Moves
    BY <2>1, <2>3, MovesMove DEF IInv, Moved
  <2>4. CASE ReceiveLine \/ FeedTriggers
    <3>1. passes' = passes \/ Len(passes') = Len(passes) + 1
      BY <2>1, <2>4 DEF ReceiveLine, FeedTriggers, StartPass
    <3>2. QED
      BY <2>1, <3>1
  <2>5. QED
    BY <2>2, <2>3, <2>4 DEF Next, MatchStep, Moves
<1>2. passes # <<>> /\ next > 0 /\ AddedLoopEnds
  BY <1>1 DEF EndPass, BetweenAdded
<1>3. /\ first \in Nat /\ next \in Nat /\ max \in Nat
      /\ first < next /\ next <= Len(added) + 1 /\ next - 1 - first <= max
      /\ Distinct(Pass.offered)
      /\ Elements(Pass.offered) =
            Elements(pinned) \union ({added[i] : i \in (first + 1)..(next - 1)} \ {0})
  BY <1>2, TopWalk, TriggerUnitAssumption DEF WalkOK
<1>4. /\ added \in Seq(IDs \union {0}) /\ Len(added) \in Nat /\ DOMAIN added = 1..Len(added)
      /\ \A i, j \in DOMAIN added : added[i] = added[j] /\ added[i] # 0 => i = j
      /\ 0 \notin IDs /\ mTriggerRootNodeList \in Seq(IDs) /\ Pass.offered \in Seq(IDs)
  <2>1. /\ added \in Seq(IDs \union {0}) /\ mTriggerRootNodeList \in Seq(IDs)
        /\ Pass.offered \in Seq(IDs)
    BY <1>2, TopWalk DEF IInv, TypeOK
  <2>2. \A i, j \in DOMAIN added : added[i] = added[j] /\ added[i] # 0 => i = j
    BY DEF IInv, OffersOK
  <2>3. 0 \notin IDs
    BY DEF IDs
  <2> HIDE DEF added
  <2>4. Len(added) \in Nat /\ DOMAIN added = 1..Len(added)
    BY <2>1
  <2>5. QED
    BY <2>1, <2>2, <2>3, <2>4
<1>5. /\ \A i \in DOMAIN added : i > first => added[i] \notin Elements(pinned)
      /\ \A r \in Elements(mTriggerRootNodeList) \ Elements(pinned) :
            \E i \in DOMAIN added : i > first /\ added[i] = r
  BY <1>2, TopWalk
<1>6. next > Len(added) \/ next - 1 - first >= max
  BY <1>2 DEF AddedLoopEnds
<1>7. BeyondCap = beyond
  BY DEF BeyondCap
<1>8. 0 \notin Elements(Pass.offered) /\ 0 \notin Elements(mTriggerRootNodeList)
  BY <1>4 DEF Elements
<1> HIDE DEF added, pinned, first, next, max
<1>9. Elements(Pass.offered) \intersect beyond = {}
  <2> SUFFICES ASSUME NEW j \in DOMAIN added, j > first + max, added[j] \in Elements(Pass.offered)
               PROVE  FALSE
    OBVIOUS
  <2>1. added[j] \notin Elements(pinned) /\ added[j] # 0
    <3>1. j > first
      BY <1>3, <1>4
    <3>2. QED
      BY <1>5, <1>8, <3>1
  <2>2. PICK i \in (first + 1)..(next - 1) : added[i] = added[j]
    BY <1>3, <2>1
  <2>3. i \in DOMAIN added /\ i # j
    BY <1>3, <1>4
  <2>4. QED
    BY <1>4, <2>1, <2>2, <2>3
<1>10. Elements(mTriggerRootNodeList) \subseteq Elements(Pass.offered) \union beyond
  <2> SUFFICES ASSUME NEW r \in Elements(mTriggerRootNodeList), r \notin beyond,
                      r \notin Elements(pinned)
               PROVE  r \in Elements(Pass.offered)
    BY <1>3
  <2>1. PICK i \in DOMAIN added : i > first /\ added[i] = r
    BY <1>5
  <2>2. ~(i > first + max)
    BY <2>1
  <2>3. i \in (first + 1)..(next - 1)
    BY <1>3, <1>4, <1>6, <2>1, <2>2
  <2>4. r # 0
    BY <1>8
  <2>5. QED
    BY <1>3, <2>1, <2>3, <2>4
<1>11. QED
  BY <1>3, <1>7, <1>9, <1>10

\* By the end of a pass, however nested, every root has had its turn on the pass's
\* line, those made on the line included, and none has had it twice; only what was
\* registered beyond the cap has not (TriggerUnit.cpp 963-970, 1095-1100).
THEOREM EveryRootHasItsTurn == Spec => EveryRootOfferedOnce
<1>1. Init => WalksOK
  <2>1. DOMAIN <<>> = {}
    OBVIOUS
  <2>2. QED
    BY <2>1 DEF Init, WalksOK
<1>2. IInv /\ WalksOK /\ [Next]_vars => WalksOK'
  BY WalkStep
<1>3. IInv /\ WalksOK /\ [Next]_vars =>
         [Len(passes') < Len(passes) =>
             /\ Distinct(Pass.offered)
             /\ Elements(Pass.offered) \intersect BeyondCap = {}
             /\ Elements(mTriggerRootNodeList) \subseteq Elements(Pass.offered) \union BeyondCap]_vars
  BY TurnsTaken
<1>4. QED
  BY <1>1, <1>2, <1>3, IInvHolds, PTL DEF Spec, EveryRootOfferedOnce

-----------------------------------------------------------------------------
\* A feed is only refused with MaxProcessingDepth passes on the stack, so a chain
\* that is being unwound has an outer pass to go back to.
RunawayOK == mRunawayFeedStopped => Len(passes) > 1

LEMMA InnerPassEnds ==
  ASSUME TypeOK, EndPass
  PROVE  /\ Len(passes) \in Nat \ {0} /\ Len(passes') = Len(passes) - 1
         /\ mRunawayFeedStopped' = (mRunawayFeedStopped /\ Len(passes) > 2)
<1>1. /\ passes \in Seq(Passes) /\ Len(passes) \in Nat \ {0}
      /\ passes' = SubSeq(passes, 1, Len(passes) - 1)
      /\ mRunawayFeedStopped' = (mRunawayFeedStopped /\ Len(passes) > 2)
  BY TopPass DEF EndPass, BetweenAdded, TypeOK, Passes, MatchCalls
<1> DEFINE n == Len(passes) - 1
<1>2. Len(passes') = n
  <2>1. n \in Nat /\ n <= Len(passes) /\ passes' = SubSeq(passes, 1, n)
    BY <1>1
  <2> HIDE DEF n
  <2>2. CASE n = 0
    <3>1. passes' = <<>>
      BY <1>1, <2>1, <2>2
    <3>2. QED
      BY <2>2, <3>1
  <2>3. CASE n # 0
    <3>1. 1 <= n
      BY <2>1, <2>3
    <3>2. QED
      BY <1>1, <2>1, <3>1
  <2>4. QED
    BY <2>2, <2>3
<1>3. QED
  BY <1>1, <1>2

\* What each step does to the depth of the stack and to the flag.
LEMMA FeedsAndUnwinding ==
  ASSUME IInv, RunawayOK, [Next]_vars, MaxProcessingDepth > 1
  PROVE  /\ RunawayOK'
         /\ mRunawayFeedStopped => /\ Len(passes') <= Len(passes)
                                   /\ mRunawayFeedStopped' <=> Len(passes') > 1
<1>1. passes \in Seq(Passes) /\ Len(passes) \in Nat /\ mRunawayFeedStopped \in BOOLEAN
  BY DEF IInv, TypeOK, Passes, MatchCalls
<1>2. CASE Len(passes') = Len(passes) /\ mRunawayFeedStopped' = mRunawayFeedStopped
  BY <1>1, <1>2 DEF RunawayOK
<1>3. CASE LuaCall \/ PurgeTemps \/ ResetProfile \/ UNCHANGED vars
  <2>1. UNCHANGED <<passes, mRunawayFeedStopped>>
    BY <1>3 DEF LuaCall, PurgeTemps, ResetProfile, vars, TempTrigger, PermTrigger,
                EnableTrigger, DisableTrigger, KillTrigger, InstallPackage,
                InstallPackageWithoutTriggers, UninstallPackage
  <2>2. QED
    BY <1>2, <2>1
<1>4. CASE Moves
  BY <1>2, <1>4, MovesMove DEF IInv, Moved
<1>5. CASE EndPass
  <2>1. /\ Len(passes) \in Nat \ {0} /\ Len(passes') = Len(passes) - 1
        /\ mRunawayFeedStopped' = (mRunawayFeedStopped /\ Len(passes) > 2)
    BY <1>5, InnerPassEnds DEF IInv
  <2>2. mRunawayFeedStopped' <=> mRunawayFeedStopped /\ Len(passes) > 2
    BY <2>1, Zenon
  <2>3. QED
    BY <2>1, <2>2 DEF RunawayOK
<1>6. CASE ReceiveLine
  <2>1. ~mRunawayFeedStopped /\ ~mRunawayFeedStopped'
    BY <1>6 DEF ReceiveLine, RunawayOK
  <2>2. QED
    BY <2>1 DEF RunawayOK
<1>7. CASE FeedTriggers
  <2>1. ~mRunawayFeedStopped
    BY <1>7 DEF FeedTriggers
  <2>2. CASE mProcessingDepth >= MaxProcessingDepth
    <3>1. UNCHANGED passes /\ Len(passes) > 1
      BY <1>1, <1>7, <2>2, TriggerUnitAssumption DEF FeedTriggers, mProcessingDepth
    <3>2. QED
      BY <2>1, <3>1 DEF RunawayOK
  <2>3. CASE ~(mProcessingDepth >= MaxProcessingDepth)
    <3>1. mRunawayFeedStopped' = mRunawayFeedStopped
      BY <1>7, <2>3 DEF FeedTriggers
    <3>2. QED
      BY <2>1, <3>1 DEF RunawayOK
  <2>4. QED
    BY <2>2, <2>3
<1>8. QED
  BY <1>3, <1>4, <1>5, <1>6, <1>7 DEF Next, MatchStep, Moves

\* Once a runaway chain of feeds is stopped nothing starts another pass until the
\* outermost one is back, and then scripts may feed again (TriggerUnit.h 117-121).
\* With a limit of one pass the flag would outlive the chain; the code has 50.
THEOREM RunawayChainUnwinds ==
  ASSUME MaxProcessingDepth > 1
  PROVE  Spec => RunawayUnwinds
<1>1. Init => RunawayOK
  BY DEF Init, RunawayOK
<1>2. IInv /\ RunawayOK /\ [Next]_vars => RunawayOK'
  BY FeedsAndUnwinding
<1>3. IInv /\ RunawayOK /\ [Next]_vars =>
         [mRunawayFeedStopped => /\ Len(passes') <= Len(passes)
                                 /\ mRunawayFeedStopped' <=> Len(passes') > 1]_vars
  BY FeedsAndUnwinding
<1>4. QED
  BY <1>1, <1>2, <1>3, IInvHolds, PTL DEF Spec, RunawayUnwinds

-----------------------------------------------------------------------------
(***************************************************************************)
(* What is freed is freed once.                                            *)
(***************************************************************************)
\* The triggers that one is in are in one another.
ChainOK ==
    \A t \in IDs : \A a, b \in mAncestors[t] :
        a = b \/ a \in mAncestors[b] \/ b \in mAncestors[a]

\* What is killed or expires is temporary, thus a root, and of no package.
TemporaryOK ==
    /\ mCleanupSet \subseteq mTemporary
    /\ \A t \in mTemporary : mAncestors[t] = {} /\ t \notin mPackageName

\* Only what is temporary expires, the triggers whose calls are on the stack
\* included.
ExpiringOK ==
    /\ \A t \in IDs \ mTemporary : mExpiryCount[t] = -1
    /\ \A n \in DOMAIN passes : \A k \in DOMAIN passes[n].frames :
          passes[n].frames[k].expires => passes[n].frames[k].trigger \in mTemporary

\* What was uninstalled is of a package, whose folder is a root.
ListedArePackaged ==
    /\ \A f \in mPackageName : mAncestors[f] = {}
    /\ \A u \in Elements(uninstallList) : Path(u) \intersect mPackageName # {}

\* An uninstallation lists what is in a trigger before it, and is the only one as
\* long as the package was not installed again.
ListedOnce ==
    Cardinality(mPackageName) <= 1 =>
        /\ mInstalledPackages \/ mPackageName = {} => uninstallList = <<>>
        /\ mInstalledPackages => mPackageName # {}
        /\ \A j \in DOMAIN uninstallList : \A i \in 1..(j - 1) :
              uninstallList[i] \notin mAncestors[uninstallList[j]]

QueueInv == ChainOK /\ TemporaryOK /\ ExpiringOK /\ ListedArePackaged /\ ListedOnce

-----------------------------------------------------------------------------
LEMMA FoldersAreIDs ==
  ASSUME IInv
  PROVE  mPackageName \subseteq IDs /\ IsFiniteSet(mPackageName)
<1>1. mPackageName \subseteq 1..mMaxID /\ mMaxID \in 0..MaxTriggers /\ mMaxID \in Nat
  BY TriggerUnitAssumption DEF IInv, TypeOK
<1>2. IsFiniteSet(1..mMaxID)
  BY <1>1, FS_Interval
<1>3. IsFiniteSet(mPackageName)
  BY <1>1, <1>2, FS_Subset
<1>4. QED
  BY <1>1, <1>3, TriggerUnitAssumption DEF IDs

\* A step that leaves the tree and what was uninstalled as they are.
LEMMA SameTreeKeepsQueues ==
  ASSUME QueueInv, TemporaryOK', ExpiringOK',
         UNCHANGED <<mAncestors, mPackageName, uninstallList, mInstalledPackages>>
  PROVE  QueueInv'
<1>1. ChainOK'
  BY DEF QueueInv, ChainOK
<1>2. ListedArePackaged'
  BY DEF QueueInv, ListedArePackaged, Path
<1>3. ListedOnce'
  BY DEF QueueInv, ListedOnce
<1>4. QED
  BY <1>1, <1>2, <1>3 DEF QueueInv

\* The calls of the top pass replaced: of the calls on the stack those that may
\* expire are still of temporary triggers.
LEMMA CallsExpire ==
  ASSUME TypeOK, ExpiringOK, passes # <<>>, NEW p, SetPass(p),
         \A k \in DOMAIN p.frames : p.frames[k].expires => p.frames[k].trigger \in mTemporary,
         \A t \in IDs \ mTemporary : mExpiryCount'[t] = -1,
         mTemporary' = mTemporary
  PROVE  ExpiringOK'
<1>1. passes \in Seq(Passes) /\ Len(passes) \in DOMAIN passes
  BY TopPass DEF TypeOK, Passes, MatchCalls
<1>2. passes' = [passes EXCEPT ![Len(passes)] = p]
  BY DEF SetPass
<1>3. /\ DOMAIN passes' = DOMAIN passes
      /\ \A n \in DOMAIN passes : passes'[n] = IF n = Len(passes) THEN p ELSE passes[n]
  BY <1>1, <1>2
<1>4. ASSUME NEW n \in DOMAIN passes', NEW k \in DOMAIN passes'[n].frames,
             passes'[n].frames[k].expires
      PROVE  passes'[n].frames[k].trigger \in mTemporary
  <2>1. CASE n = Len(passes)
    BY <1>3, <1>4, <2>1
  <2>2. CASE n # Len(passes)
    BY <1>3, <1>4, <2>2 DEF ExpiringOK
  <2>3. QED
    BY <2>1, <2>2
<1>5. QED
  BY <1>4 DEF ExpiringOK

LEMMA TopCallsExpire ==
  ASSUME TypeOK, ExpiringOK, passes # <<>>
  PROVE  \A k \in DOMAIN Pass.frames :
            Pass.frames[k].expires => Pass.frames[k].trigger \in mTemporary
BY TopPass DEF ExpiringOK, Pass

\* A call that begins expires if its trigger does.
LEMMA NewCallExpires ==
  ASSUME TypeOK, ExpiringOK, NEW t \in IDs, MatchCall(t).expires
  PROVE  MatchCall(t).trigger \in mTemporary
<1>1. MatchCall(t).trigger = t /\ MatchCall(t).expires = (mExpiryCount[t] > 0)
  BY Zenon DEF MatchCall
<1>2. mExpiryCount[t] > 0
  BY <1>1, Zenon
<1>3. mExpiryCount[t] # -1
  BY <1>2
<1>4. QED
  BY <1>1, <1>3 DEF ExpiringOK

LEMMA MovesExpire ==
  ASSUME IInv, ExpiringOK, TemporaryOK, Moves, UNCHANGED mTemporary
  PROVE  ExpiringOK' /\ mCleanupSet' \subseteq mTemporary
<1> USE DEF IInv
<1>1. passes # <<>> /\ Pass \in Passes
  BY TopPass DEF Moves, MatchRoot, EndOfRoots, PassOverAdded, MatchAdded,
    StopSameLineCreationLoop, ScriptReturns, MatchChild, MatchReturns, BetweenRoots,
    BetweenAdded, ScriptRuns, InChildren
<1>2. \A t \in IDs \ mTemporary : mExpiryCount[t] = -1
  BY DEF ExpiringOK
<1>3. mCleanupSet \subseteq mTemporary
  BY DEF TemporaryOK
<1> DEFINE calls == Pass.frames
<1>4. \A k \in DOMAIN calls : calls[k].expires => calls[k].trigger \in mTemporary
  BY <1>1, TopCallsExpire
<1>5. CASE MatchRoot
  <2>1. PICK i \in (Pass.position + 1)..Len(Pass.pinned) :
           SetPass([Pass EXCEPT !.position = i, !.offered = OfferedUpTo(i),
                                !.frames = <<MatchCall(Pass.pinned[i])>>])
    BY <1>5 DEF MatchRoot
  <2>2. Pass.pinned[i] \in IDs
    BY <1>1 DEF Passes
  <2> DEFINE c == MatchCall(Pass.pinned[i])
             p == [Pass EXCEPT !.position = i, !.offered = OfferedUpTo(i), !.frames = <<c>>]
  <2>3. c.expires => c.trigger \in mTemporary
    BY <2>2, NewCallExpires
  <2> HIDE DEF c
  <2>4. p.frames = <<c>>
    BY <1>1 DEF Passes
  <2>5. \A k \in DOMAIN p.frames : p.frames[k].expires => p.frames[k].trigger \in mTemporary
    BY <2>3, <2>4
  <2>6. SetPass(p) /\ UNCHANGED <<mExpiryCount, mCleanupSet>>
    BY <1>5, <2>1 DEF MatchRoot, doomed, c
  <2> HIDE DEF p
  <2>7. QED
    BY <1>1, <1>2, <1>3, <2>5, <2>6, CallsExpire
<1>6. CASE EndOfRoots
  <2> DEFINE p == [Pass EXCEPT !.position = Len(Pass.pinned),
                               !.offered = OfferedUpTo(Len(Pass.pinned)),
                               !.next = Pass.first + 1]
  <2>1. SetPass(p) /\ UNCHANGED <<mExpiryCount, mCleanupSet>>
    BY <1>6 DEF EndOfRoots, doomed
  <2>2. p.frames = calls
    BY <1>1 DEF Passes
  <2> HIDE DEF p, calls
  <2>3. QED
    BY <1>1, <1>2, <1>3, <1>4, <2>1, <2>2, CallsExpire
<1>7. CASE PassOverAdded \/ StopSameLineCreationLoop
  <2> DEFINE p == [Pass EXCEPT !.next = Pass.next + 1, !.offered = OfferedToAdded]
  <2>1. SetPass(p) /\ UNCHANGED mExpiryCount
    BY <1>7 DEF PassOverAdded, StopSameLineCreationLoop
  <2>2. mCleanupSet' \subseteq mTemporary
    BY <1>3, <1>7 DEF PassOverAdded, StopSameLineCreationLoop, doomed
  <2>3. p.frames = calls
    BY <1>1 DEF Passes
  <2> HIDE DEF p, calls
  <2>4. QED
    BY <1>1, <1>2, <1>4, <2>1, <2>2, <2>3, CallsExpire
<1>8. CASE MatchAdded
  <2> DEFINE c == MatchCall(Added)
             p == [Pass EXCEPT !.next = Pass.next + 1, !.offered = OfferedToAdded, !.frames = <<c>>]
  <2>1. Added \in IDs
    BY <1>8, AddedExists DEF MatchAdded
  <2>2. c.expires => c.trigger \in mTemporary
    BY <2>1, NewCallExpires
  <2> HIDE DEF c
  <2>3. p.frames = <<c>>
    BY <1>1 DEF Passes
  <2>4. \A k \in DOMAIN p.frames : p.frames[k].expires => p.frames[k].trigger \in mTemporary
    BY <2>2, <2>3
  <2>5. SetPass(p) /\ UNCHANGED <<mExpiryCount, mCleanupSet>>
    BY <1>8 DEF MatchAdded, doomed, c
  <2> HIDE DEF p
  <2>6. QED
    BY <1>1, <1>2, <1>3, <2>4, <2>5, CallsExpire
<1>9. ASSUME ScriptReturns \/ MatchChild \/ MatchReturns
      PROVE  /\ calls \in Seq(MatchCalls) /\ Len(calls) \in Nat \ {0} /\ Len(calls) \in DOMAIN calls
             /\ Frame = calls[Len(calls)] /\ Frame \in MatchCalls
  BY <1>9, TopPass DEF ScriptReturns, MatchChild, MatchReturns, ScriptRuns, InChildren, Frame
<1>10. CASE ScriptReturns
  <2> DEFINE f == [Frame EXCEPT !.stage = "children"]
             others == [calls EXCEPT ![Len(calls)] = f]
             p == [Pass EXCEPT !.frames = others]
  <2>1. f.trigger = Frame.trigger /\ f.expires = Frame.expires
    BY <1>9, <1>10 DEF MatchCalls
  <2>2. SetPass(p)
    BY <1>10 DEF ScriptReturns, SetFrame
  <2>3. p.frames = others
    BY <1>1 DEF Passes
  <2> HIDE DEF f, p, calls
  <2>4. DOMAIN others = DOMAIN calls
        /\ \A k \in DOMAIN calls : others[k] = IF k = Len(calls) THEN f ELSE calls[k]
    BY <1>9, <1>10
  <2> HIDE DEF others
  <2>5. \A k \in DOMAIN others : others[k].expires => others[k].trigger \in mTemporary
    BY <1>4, <1>9, <1>10, <2>1, <2>4
  <2>6. Frame.expires => Frame.trigger \in mTemporary
    BY <1>4, <1>9, <1>10
  <2>7. /\ mCleanupSet' = mCleanupSet
        /\ \/ mExpiryCount' = mExpiryCount
           \/ Frame.expires /\ mExpiryCount' = [mExpiryCount EXCEPT ![Frame.trigger] = @ + 1]
    BY <1>10 DEF ScriptReturns, doomed
  <2>8. \A t \in IDs \ mTemporary : mExpiryCount'[t] = -1
    BY <1>2, <2>6, <2>7 DEF TypeOK
  <2>9. QED
    BY <1>1, <1>3, <2>2, <2>3, <2>5, <2>7, <2>8, CallsExpire
<1>11. CASE MatchChild
  <2>1. PICK c \in Children(Frame.trigger) :
           SetPass([Pass EXCEPT !.frames =
                       Append([calls EXCEPT ![Len(calls)].at = c], MatchCall(c))])
    BY <1>11 DEF MatchChild
  <2> DEFINE f == [calls[Len(calls)] EXCEPT !.at = c]
             under == [calls EXCEPT ![Len(calls)] = f]
             others == Append(under, MatchCall(c))
             p == [Pass EXCEPT !.frames = others]
  <2>2. c \in IDs
    BY MapIsIDs DEF Children
  <2>3. f \in MatchCalls /\ f.trigger = Frame.trigger /\ f.expires = Frame.expires
    BY <1>9, <1>11, <2>2 DEF MatchCalls
  <2>4. SetPass(p) /\ UNCHANGED <<mExpiryCount, mCleanupSet>>
    BY <1>11, <2>1 DEF MatchChild, doomed
  <2>5. p.frames = others
    BY <1>1 DEF Passes
  <2> HIDE DEF f, p, calls
  <2>6. under \in Seq(MatchCalls) /\ DOMAIN under = DOMAIN calls
        /\ \A k \in DOMAIN calls : under[k] = IF k = Len(calls) THEN f ELSE calls[k]
    BY <1>9, <1>11, <2>3
  <2>7. \A k \in DOMAIN under : under[k].expires => under[k].trigger \in mTemporary
    BY <1>4, <1>9, <1>11, <2>3, <2>6
  <2> HIDE DEF under
  <2>8. MatchCall(c).expires => MatchCall(c).trigger \in mTemporary
    BY <2>2, NewCallExpires
  <2>9. \A k \in DOMAIN others : others[k].expires => others[k].trigger \in mTemporary
    BY <2>6, <2>7, <2>8
  <2> HIDE DEF others
  <2>10. QED
    BY <1>1, <1>2, <1>3, <2>4, <2>5, <2>9, CallsExpire
<1>12. CASE MatchReturns
  <2> DEFINE others == SubSeq(calls, 1, Len(calls) - 1)
             p == [Pass EXCEPT !.frames = others]
             t == Frame.trigger
  <2>1. SetPass(p)
    BY <1>12 DEF MatchReturns
  <2>2. p.frames = others
    BY <1>1 DEF Passes
  <2> HIDE DEF p, calls
  <2>3. DOMAIN others \subseteq DOMAIN calls /\ \A k \in DOMAIN others : others[k] = calls[k]
    BY <1>9, <1>12
  <2> HIDE DEF others
  <2>4. /\ mExpiryCount' = [mExpiryCount EXCEPT ![t] = IF @ > -1 THEN @ - 1 ELSE @]
        /\ \/ mCleanupSet' = mCleanupSet
           \/ mExpiryCount[t] = 1 /\ mCleanupSet' = mCleanupSet \union {t}
    BY <1>12 DEF MatchReturns
  <2>5. t \in IDs
    BY <1>9, <1>12 DEF MatchCalls
  <2> HIDE DEF t
  <2>6. \A u \in IDs \ mTemporary : mExpiryCount'[u] = -1
    BY <1>2, <2>4, <2>5 DEF TypeOK
  <2>7. mCleanupSet' \subseteq mTemporary
    BY <1>2, <1>3, <2>4, <2>5
  <2>8. QED
    BY <1>1, <1>4, <2>1, <2>2, <2>3, <2>6, <2>7, CallsExpire
<1>13. QED
  BY <1>5, <1>6, <1>7, <1>8, <1>10, <1>11, <1>12 DEF Moves
\* The triggers of a pass that goes on, and those whose flags a script changes.
LEMMA MovingKeepsQueues ==
  ASSUME IInv, QueueInv, Moves
  PROVE  QueueInv'
<1>1. UNCHANGED <<items, uninstallList, mInstalledPackages>>
  BY MovesMove DEF IInv, treeAndLists
<1>2. ExpiringOK' /\ mCleanupSet' \subseteq mTemporary
  BY <1>1, MovesExpire DEF QueueInv, items
<1>3. TemporaryOK'
  BY <1>1, <1>2 DEF QueueInv, TemporaryOK, items
<1>4. QED
  BY <1>1, <1>2, <1>3, SameTreeKeepsQueues DEF items

LEMMA FlagsKeepQueues ==
  ASSUME QueueInv, NEW t \in mTriggerMap, EnableTrigger(t) \/ DisableTrigger(t) \/ KillTrigger(t)
  PROVE  QueueInv'
<1>1. /\ UNCHANGED <<items, mExpiryCount, uninstallList, mInstalledPackages, passes>>
      /\ mCleanupSet' \subseteq mCleanupSet \union mTemporary
  BY DEF EnableTrigger, DisableTrigger, KillTrigger, doomed
<1>2. TemporaryOK' /\ ExpiringOK'
  BY <1>1 DEF QueueInv, TemporaryOK, ExpiringOK, items
<1>3. QED
  BY <1>1, <1>2, SameTreeKeepsQueues DEF items

\* A line or a feed begins a pass that has called nothing yet.
LEMMA StartingKeepsQueues ==
  ASSUME IInv, QueueInv, ReceiveLine \/ FeedTriggers
  PROVE  QueueInv'
<1>1. UNCHANGED <<items, mExpiryCount, doomed, mInstalledPackages>>
  BY DEF ReceiveLine, FeedTriggers
<1>2. passes' = passes \/ StartPass
  BY DEF ReceiveLine, FeedTriggers
<1>3. ASSUME StartPass, NEW n \in DOMAIN passes'
      PROVE  DOMAIN passes'[n].frames = {} \/ (n \in DOMAIN passes /\ passes'[n] = passes[n])
  <2>1. passes \in Seq(Passes)
    BY DEF IInv, TypeOK, Passes, MatchCalls
  <2> DEFINE p == [pinned |-> mTriggerRootNodeList, position |-> 0,
                   first |-> Len(mRootNodesAddedWhileProcessing), next |-> 0, frames |-> <<>>,
                   offered |-> <<>>]
  <2>2. passes' = Append(passes, p) /\ DOMAIN p.frames = {}
    BY <1>3 DEF StartPass
  <2> HIDE DEF p
  <2>3. QED
    BY <1>3, <2>1, <2>2
<1>4. ExpiringOK'
  BY <1>1, <1>2, <1>3 DEF QueueInv, ExpiringOK, items
<1>5. TemporaryOK'
  BY <1>1 DEF QueueInv, TemporaryOK, items, doomed
<1>6. QED
  BY <1>1, <1>4, <1>5, SameTreeKeepsQueues DEF items, doomed

\* Freeing between lines, or at the end of the last one, leaves nothing in the
\* queue.
LEMMA FreeingKeepsQueues ==
  ASSUME IInv, QueueInv, NEW freed, Closed(freed),
         mAncestors' = [t \in IDs |-> IF t \in freed THEN {} ELSE mAncestors[t]],
         mExpiryCount' = [t \in IDs |-> IF t \in freed THEN -1 ELSE mExpiryCount[t]],
         mTemporary' \subseteq mTemporary, mTemporary \ mTemporary' \subseteq freed,
         mCleanupSet' \subseteq mCleanupSet, mCleanupSet' \subseteq mTemporary',
         uninstallList' = <<>>, passes' = <<>>, mPackageName' = mPackageName,
         mInstalledPackages' => mInstalledPackages
  PROVE  QueueInv'
<1>1. ChainOK'
  <2>1. ASSUME NEW t \in IDs, NEW a \in mAncestors'[t]
        PROVE  mAncestors'[t] = mAncestors[t] /\ mAncestors'[a] = mAncestors[a]
    <3>1. t \notin freed /\ a \in mAncestors[t] /\ mAncestors'[t] = mAncestors[t]
      BY <2>1
    <3>2. t \in mTriggerMap
      BY <3>1 DEF IInv, TreeOK
    <3>3. a \in IDs /\ a \in mTriggerMap
      BY <3>1, <3>2, MapIsIDs DEF IInv, NoDanglingPointers
    <3>4. mAncestors[a] \subseteq mAncestors[t]
      BY <3>1, <3>3 DEF IInv, TreeOK
    <3>5. a \notin freed
      BY <3>1, <3>2 DEF Closed
    <3>6. QED
      BY <3>1, <3>3, <3>5
  <2>2. QED
    BY <2>1 DEF QueueInv, ChainOK
<1>2. TemporaryOK'
  <2>1. mTemporary \subseteq IDs
    BY MapIsIDs DEF IInv, TypeOK
  <2>2. QED
    BY <2>1 DEF QueueInv, TemporaryOK
<1>3. ExpiringOK'
  BY DEF QueueInv, ExpiringOK
<1>4. Elements(<<>>) = {} /\ DOMAIN <<>> = {}
  BY DEF Elements
<1>5. ListedArePackaged'
  BY <1>4, FoldersAreIDs DEF QueueInv, ListedArePackaged
<1>6. ListedOnce'
  BY <1>4 DEF QueueInv, ListedOnce
<1>7. QED
  BY <1>1, <1>2, <1>3, <1>5, <1>6 DEF QueueInv

LEMMA CleanupKeepsQueues ==
  ASSUME IInv, QueueInv, DoCleanup, passes' = <<>>, UNCHANGED <<mPackageName, mInstalledPackages>>
  PROVE  QueueInv'
<1>1. Closed(Doomed)
  BY DoomedClosed DEF IInv
<1>2. Free(Doomed) /\ mCleanupSet' = {} /\ uninstallList' = <<>>
  BY DEF DoCleanup
<1>3. QED
  BY <1>1, <1>2, FreeingKeepsQueues DEF Free

LEMMA ResettingKeepsQueues ==
  ASSUME IInv, QueueInv, ResetProfile
  PROVE  QueueInv'
<1> DEFINE temps == mTemporary \union Descendants(mTemporary)
           freed == Doomed \union temps
<1>1. Closed(freed)
  <2>1. Closed(Doomed) /\ Closed(temps)
    BY DoomedClosed, SubtreesClosed DEF IInv
  <2> HIDE DEF temps
  <2>2. QED
    BY <2>1 DEF Closed
<1>2. /\ passes' = <<>> /\ mTemporary' = {} /\ mTemporary \subseteq freed
      /\ mAncestors' = [t \in IDs |-> IF t \in freed THEN {} ELSE mAncestors[t]]
      /\ mExpiryCount' = [t \in IDs |-> IF t \in freed THEN -1 ELSE mExpiryCount[t]]
      /\ mCleanupSet' = {} /\ uninstallList' = <<>>
      /\ UNCHANGED <<mPackageName, mInstalledPackages>>
  <2>1. Doomed \union mTemporary \union Descendants(mTemporary) = freed
    OBVIOUS
  <2>2. passes' = passes /\ passes = <<>>
    BY DEF ResetProfile
  <2>3. QED
    BY <2>1, <2>2, Zenon DEF ResetProfile
<1> HIDE DEF freed
<1>3. QED
  BY <1>1, <1>2, FreeingKeepsQueues

LEMMA EndingKeepsQueues ==
  ASSUME IInv, QueueInv, EndPass
  PROVE  QueueInv'
<1>1. /\ passes # <<>> /\ passes \in Seq(Passes) /\ Len(passes) \in Nat \ {0}
      /\ passes' = SubSeq(passes, 1, Len(passes) - 1)
      /\ UNCHANGED <<mPackageName, mInstalledPackages>>
  BY TopPass DEF EndPass, BetweenAdded, IInv, TypeOK, Passes, MatchCalls
<1>2. CASE Len(passes) > 1
  <2>1. UNCHANGED <<mAncestors, mTemporary, mExpiryCount, doomed>>
    BY <1>2 DEF EndPass
  <2>2. DOMAIN passes' \subseteq DOMAIN passes /\ \A n \in DOMAIN passes' : passes'[n] = passes[n]
    BY <1>1
  <2>3. ExpiringOK'
    BY <2>1, <2>2 DEF QueueInv, ExpiringOK
  <2>4. TemporaryOK'
    BY <1>1, <2>1 DEF QueueInv, TemporaryOK, doomed
  <2>5. QED
    BY <1>1, <2>1, <2>3, <2>4, SameTreeKeepsQueues DEF doomed
<1>3. CASE ~(Len(passes) > 1)
  <2>1. DoCleanup
    BY <1>3 DEF EndPass
  <2>2. passes' = <<>>
    BY <1>1, <1>3
  <2>3. QED
    BY <1>1, <2>1, <2>2, CleanupKeepsQueues
<1>4. QED
  BY <1>2, <1>3

\* New triggers, of which the queues hold none, and a folder if a package comes.
LEMMA NewKeepsQueues ==
  ASSUME IInv, QueueInv, NEW new \in SUBSET (IDs \ (mTriggerMap \union mPackageName)),
         \A t \in IDs \ new : mAncestors'[t] = mAncestors[t],
         \A t \in new : \A a, b \in mAncestors'[t] :
           a = b \/ a \in mAncestors'[b] \/ b \in mAncestors'[a],
         UNCHANGED <<mTemporary, mExpiryCount, doomed, passes>>,
         \/ UNCHANGED <<mPackageName, mInstalledPackages>>
         \/ /\ ~mInstalledPackages /\ mInstalledPackages'
            /\ \E f \in IDs \ (mTriggerMap \union mPackageName) :
                  mPackageName' = mPackageName \union {f} /\ mAncestors'[f] = {}
  PROVE  QueueInv'
<1>1. ASSUME NEW t \in IDs \ new
      PROVE  /\ mAncestors'[t] = mAncestors[t]
             /\ \A a \in mAncestors[t] : a \in IDs \ new /\ mAncestors'[a] = mAncestors[a]
  <2>1. t \in mTriggerMap \/ mAncestors[t] = {}
    BY DEF IInv, TreeOK
  <2>2. mAncestors[t] \subseteq mTriggerMap
    BY <2>1 DEF IInv, NoDanglingPointers
  <2>3. QED
    BY <2>2, MapIsIDs DEF IInv
<1>2. ChainOK'
  <2>1. ASSUME NEW t \in IDs \ new
        PROVE  \A a, b \in mAncestors'[t] :
                 a = b \/ a \in mAncestors'[b] \/ b \in mAncestors'[a]
    BY <1>1 DEF QueueInv, ChainOK
  <2>2. QED
    BY <2>1 DEF ChainOK
<1>3. mTemporary \subseteq mTriggerMap /\ mTemporary \subseteq IDs \ new
  BY MapIsIDs DEF IInv, TypeOK
<1>4. TemporaryOK'
  BY <1>1, <1>3 DEF QueueInv, TemporaryOK, doomed
<1>5. ExpiringOK'
  BY DEF QueueInv, ExpiringOK
<1>6. ListedArePackaged'
  <2>1. \A u \in Elements(uninstallList) : u \in IDs \ new
    BY MapIsIDs DEF IInv, NoDanglingPointers
  <2>2. \A u \in Elements(uninstallList') : (Path(u) \intersect mPackageName # {})'
    BY <1>1, <2>1 DEF QueueInv, ListedArePackaged, doomed, Path
  <2>3. \A f \in mPackageName' : mAncestors'[f] = {}
    BY <1>1, FoldersAreIDs DEF QueueInv, ListedArePackaged
  <2>4. QED
    BY <2>2, <2>3 DEF ListedArePackaged
<1>7. /\ mPackageName = {} => Cardinality(mPackageName) <= 1
      /\ Cardinality(mPackageName) \in Nat
      /\ Cardinality(mPackageName) = 0 => mPackageName = {}
  BY FoldersAreIDs, FS_CardinalityType, FS_EmptySet
<1>8. ASSUME Cardinality(mPackageName') <= 1
      PROVE  /\ Cardinality(mPackageName) <= 1
             /\ mInstalledPackages' \/ mPackageName' = {} => uninstallList = <<>>
             /\ mInstalledPackages' => mPackageName' # {}
  <2>1. CASE UNCHANGED <<mPackageName, mInstalledPackages>>
    BY <1>8, <2>1 DEF QueueInv, ListedOnce
  <2>2. CASE ~(UNCHANGED <<mPackageName, mInstalledPackages>>)
    <3>1. PICK f \in IDs \ (mTriggerMap \union mPackageName) :
             mPackageName' = mPackageName \union {f}
      BY <2>2
    <3>2. Cardinality(mPackageName \union {f}) = Cardinality(mPackageName) + 1
      BY <3>1, FoldersAreIDs, FS_AddElement
    <3>3. mPackageName = {}
      BY <1>7, <1>8, <3>1, <3>2
    <3>4. uninstallList = <<>>
      BY <1>7, <3>3 DEF QueueInv, ListedOnce
    <3>5. QED
      BY <1>7, <3>1, <3>3, <3>4
  <2>3. QED
    BY <2>1, <2>2
<1>9. ListedOnce'
  <2>1. \A j \in DOMAIN uninstallList : uninstallList[j] \in IDs \ new
    BY MapIsIDs DEF IInv, NoDanglingPointers, Elements
  <2>2. ASSUME Cardinality(mPackageName') <= 1
        PROVE  \A j \in DOMAIN uninstallList : \A i \in 1..(j - 1) :
                  uninstallList[i] \notin mAncestors'[uninstallList[j]]
    BY <1>1, <1>8, <2>1, <2>2 DEF QueueInv, ListedOnce
  <2>3. uninstallList' = uninstallList
    BY DEF doomed
  <2>4. QED
    BY <1>8, <2>2, <2>3 DEF ListedOnce
<1>10. QED
  BY <1>2, <1>4, <1>5, <1>6, <1>9 DEF QueueInv

LEMMA TempTriggerKeepsQueues ==
  ASSUME IInv, QueueInv, NEW e \in ExpiryCounts, TempTrigger(e)
  PROVE  QueueInv'
<1> DEFINE t == mMaxID + 1
<1>1. /\ t \in IDs /\ t \notin mTriggerMap /\ t > mMaxID /\ mMaxID \in Nat
  BY NewID DEF TempTrigger
<1>2. /\ mTemporary' = mTemporary \union {t}
      /\ mExpiryCount' = [mExpiryCount EXCEPT ![t] = e]
      /\ UNCHANGED <<mAncestors, mPackageName, doomed, mInstalledPackages, passes>>
  BY DEF TempTrigger
<1>3. t \notin mPackageName
  BY <1>1 DEF IInv, TypeOK
<1> HIDE DEF t
<1>4. TemporaryOK'
  BY <1>1, <1>2, <1>3 DEF QueueInv, TemporaryOK, IInv, TreeOK, doomed
<1>5. ExpiringOK'
  BY <1>1, <1>2 DEF QueueInv, ExpiringOK
<1>6. QED
  BY <1>2, <1>4, <1>5, SameTreeKeepsQueues DEF doomed

LEMMA PermTriggerKeepsQueues ==
  ASSUME IInv, QueueInv, NEW p \in mTriggerMap \union {0}, PermTrigger(p)
  PROVE  QueueInv'
<1> DEFINE t == mMaxID + 1
           above == IF p = 0 THEN {} ELSE mAncestors[p] \union {p}
<1>1. /\ t \in IDs /\ t \notin mTriggerMap /\ t > mMaxID /\ mMaxID \in Nat
  BY NewID DEF PermTrigger
<1>2. t \notin mPackageName
  BY <1>1 DEF IInv, TypeOK
<1>3. UNCHANGED <<mTemporary, mExpiryCount, doomed, passes, mPackageName, mInstalledPackages>>
  BY DEF PermTrigger
<1>4. mAncestors \in [IDs -> SUBSET IDs]
  BY DEF IInv, TypeOK
<1>5. /\ \A u \in IDs \ {t} : mAncestors'[u] = mAncestors[u]
      /\ mAncestors'[t] = above
  <2>1. CASE p = 0
    BY <1>1, <2>1 DEF PermTrigger, IInv, TreeOK
  <2>2. CASE p # 0
    BY <1>1, <1>4, <2>2 DEF PermTrigger
  <2>3. QED
    BY <2>1, <2>2
<1>6. above \subseteq mTriggerMap
  BY DEF IInv, NoDanglingPointers
<1>7. \A a, b \in above : a = b \/ a \in mAncestors[b] \/ b \in mAncestors[a]
  BY MapIsIDs DEF QueueInv, ChainOK, IInv
<1> HIDE DEF t, above
<1>8. \A a \in above : mAncestors'[a] = mAncestors[a]
  BY <1>1, <1>5, <1>6, MapIsIDs DEF IInv
<1> DEFINE new == {t}
<1>9. /\ new \in SUBSET (IDs \ (mTriggerMap \union mPackageName))
      /\ \A u \in IDs \ new : mAncestors'[u] = mAncestors[u]
      /\ \A u \in new : \A a, b \in mAncestors'[u] :
            a = b \/ a \in mAncestors'[b] \/ b \in mAncestors'[a]
  BY <1>1, <1>2, <1>5, <1>7, <1>8
<1> HIDE DEF new
<1>10. QED
  BY <1>3, <1>9, NewKeepsQueues

LEMMA InstallKeepsQueues ==
  ASSUME IInv, QueueInv, InstallPackage \/ InstallPackageWithoutTriggers
  PROVE  QueueInv'
<1> DEFINE folder == mMaxID + 1
           leaf == mMaxID + 2
<1>1. mMaxID \in Nat /\ mTriggerMap \subseteq 1..mMaxID /\ mPackageName \subseteq 1..mMaxID
  BY TriggerUnitAssumption DEF IInv, TypeOK
<1>2. /\ folder \in IDs \ (mTriggerMap \union mPackageName)
      /\ leaf \in IDs => leaf \notin mTriggerMap \union mPackageName
  BY <1>1, TriggerUnitAssumption DEF InstallPackage, InstallPackageWithoutTriggers, IDs
<1>3. folder # leaf /\ mAncestors[folder] = {}
  BY <1>1, <1>2 DEF IInv, TreeOK
<1>4. /\ ~mInstalledPackages /\ mInstalledPackages'
  BY Zenon DEF InstallPackage, InstallPackageWithoutTriggers
<1>5. /\ mPackageName' = mPackageName \union {folder}
      /\ UNCHANGED <<mTemporary, mExpiryCount, doomed, passes>>
  BY DEF InstallPackage, InstallPackageWithoutTriggers
<1>6. CASE InstallPackage
  <2>1. leaf \in IDs /\ mAncestors' = [mAncestors EXCEPT ![leaf] = {folder}]
    BY <1>6 DEF InstallPackage
  <2> DEFINE new == {leaf}
  <2> HIDE DEF folder, leaf
  <2>2. /\ new \in SUBSET (IDs \ (mTriggerMap \union mPackageName))
        /\ \A u \in IDs \ new : mAncestors'[u] = mAncestors[u]
        /\ mAncestors'[folder] = {}
    BY <1>2, <1>3, <2>1 DEF IInv, TypeOK
  <2>3. \A u \in new : \A a, b \in mAncestors'[u] :
           a = b \/ a \in mAncestors'[b] \/ b \in mAncestors'[a]
    BY <2>1 DEF IInv, TypeOK
  <2> HIDE DEF new
  <2>4. \E f \in IDs \ (mTriggerMap \union mPackageName) :
           mPackageName' = mPackageName \union {f} /\ mAncestors'[f] = {}
    BY <1>2, <1>5, <2>2
  <2>5. UNCHANGED <<mTemporary, mExpiryCount, doomed, passes>>
    BY <1>5
  <2>6. QED
    BY <1>4, <2>2, <2>3, <2>4, <2>5, NewKeepsQueues
<1>7. CASE InstallPackageWithoutTriggers
  <2>1. mAncestors' = mAncestors
    BY <1>7 DEF InstallPackageWithoutTriggers
  <2> HIDE DEF folder
  <2>2. {} \in SUBSET (IDs \ (mTriggerMap \union mPackageName)) /\ mAncestors'[folder] = {}
    BY <1>3, <2>1
  <2>3. QED
    BY <1>2, <1>4, <1>5, <2>1, <2>2, NewKeepsQueues
<1>8. QED
  BY <1>6, <1>7

LEMMA UninstallKeepsQueues ==
  ASSUME IInv, QueueInv, UninstallPackage
  PROVE  QueueInv'
<1>1. PackageTriggers \subseteq IDs /\ Closed(PackageTriggers)
  BY PackageTriggersAre DEF IInv
<1>2. mInstalledPackages /\ ~mInstalledPackages' /\ mPackageName' = mPackageName
      /\ passes' = passes
  BY DEF UninstallPackage
<1>3. passes \in Seq(Passes) /\ uninstallList \in Seq(IDs)
  BY DEF IInv, TypeOK, Passes, MatchCalls
<1>4. CASE mProcessingDepth = 0
  <2>1. passes = <<>>
    BY <1>3, <1>4 DEF mProcessingDepth
  <2>2. uninstallList = <<>>
    BY <2>1 DEF IInv, IdleOK
  <2>3. /\ mAncestors' = [t \in IDs |-> IF t \in PackageTriggers THEN {} ELSE mAncestors[t]]
        /\ mExpiryCount' = [t \in IDs |-> IF t \in PackageTriggers THEN -1 ELSE mExpiryCount[t]]
        /\ mTemporary' = mTemporary \ PackageTriggers
        /\ mCleanupSet' = mCleanupSet \ PackageTriggers
        /\ uninstallList' = uninstallList
    BY <1>4 DEF UninstallPackage, Free
  <2>4. mCleanupSet' \subseteq mTemporary'
    BY <2>3 DEF QueueInv, TemporaryOK
  <2>5. QED
    BY <1>1, <1>2, <2>1, <2>2, <2>3, <2>4, FreeingKeepsQueues
<1>5. CASE mProcessingDepth # 0
  <2> DEFINE listed == ChildrenFirst(PackageTriggers)
  <2>1. /\ uninstallList' = uninstallList \o listed
        /\ mCleanupSet' \subseteq mCleanupSet
        /\ UNCHANGED <<mAncestors, mTemporary, mExpiryCount>>
    BY <1>5 DEF UninstallPackage
  <2>2. /\ listed \in Seq(PackageTriggers) /\ Elements(listed) = PackageTriggers
        /\ \A j \in DOMAIN listed : \A i \in 1..(j - 1) : listed[i] \notin mAncestors[listed[j]]
    BY <1>1, ChildrenFirstLists DEF IInv
  <2> HIDE DEF listed
  <2>3. listed \in Seq(IDs)
    BY <1>1, <2>2
  <2>4. ChainOK' /\ TemporaryOK' /\ ExpiringOK'
    BY <1>2, <2>1 DEF QueueInv, ChainOK, TemporaryOK, ExpiringOK
  <2>5. ListedArePackaged'
    <3>1. \A u \in PackageTriggers : Path(u) \intersect mPackageName # {}
      BY DEF PackageTriggers, Descendants, Path
    <3>2. Elements(uninstallList') = Elements(uninstallList) \union PackageTriggers
      BY <1>3, <2>1, <2>2, <2>3, ElementsConcat
    <3>3. QED
      BY <1>2, <2>1, <3>1, <3>2 DEF QueueInv, ListedArePackaged, Path
  <2>6. ListedOnce'
    <3>1. SUFFICES ASSUME Cardinality(mPackageName) <= 1 PROVE ListedOnce'
      BY <1>2 DEF ListedOnce
    <3>2. uninstallList = <<>> /\ mPackageName # {}
      BY <1>2, <3>1 DEF QueueInv, ListedOnce
    <3>3. uninstallList' = listed
      BY <2>1, <2>3, <3>2
    <3>4. QED
      BY <1>2, <2>1, <2>2, <3>2, <3>3 DEF ListedOnce
  <2>7. QED
    BY <2>4, <2>5, <2>6 DEF QueueInv
<1>6. QED
  BY <1>4, <1>5

LEMMA QueueStep ==
  ASSUME IInv, QueueInv, [Next]_vars
  PROVE  QueueInv'
<1>1. CASE \E e \in ExpiryCounts : TempTrigger(e)
  BY <1>1, TempTriggerKeepsQueues
<1>2. CASE \E p \in mTriggerMap \union {0} : PermTrigger(p)
  BY <1>2, PermTriggerKeepsQueues
<1>3. CASE \E t \in mTriggerMap : EnableTrigger(t) \/ DisableTrigger(t) \/ KillTrigger(t)
  BY <1>3, FlagsKeepQueues
<1>4. CASE InstallPackage \/ InstallPackageWithoutTriggers
  BY <1>4, InstallKeepsQueues
<1>5. CASE UninstallPackage
  BY <1>5, UninstallKeepsQueues
<1>6. CASE ReceiveLine \/ FeedTriggers
  BY <1>6, StartingKeepsQueues
<1>7. CASE Moves
  BY <1>7, MovingKeepsQueues
<1>8. CASE EndPass
  BY <1>8, EndingKeepsQueues
<1>9. CASE PurgeTemps
  <2>1. DoCleanup /\ passes' = <<>> /\ UNCHANGED <<mPackageName, mInstalledPackages>>
    BY <1>9 DEF PurgeTemps
  <2>2. QED
    BY <2>1, CleanupKeepsQueues
<1>10. CASE ResetProfile
  BY <1>10, ResettingKeepsQueues
<1>11. CASE UNCHANGED vars
  <2>1. TemporaryOK' /\ ExpiringOK'
    BY <1>11 DEF vars, items, doomed, QueueInv, TemporaryOK, ExpiringOK
  <2>2. QED
    BY <1>11, <2>1, SameTreeKeepsQueues DEF vars, items, doomed
<1>12. QED
  BY <1>1, <1>2, <1>3, <1>4, <1>5, <1>6, <1>7, <1>8, <1>9, <1>10, <1>11
     DEF Next, LuaCall, MatchStep, Moves

LEMMA QueueInit == Init => QueueInv
<1> SUFFICES ASSUME Init PROVE QueueInv
  OBVIOUS
<1>1. DOMAIN <<>> = {} /\ Elements(<<>>) = {}
  BY DEF Elements
<1>2. ChainOK /\ TemporaryOK /\ ExpiringOK /\ ListedArePackaged
  BY <1>1 DEF Init, ChainOK, TemporaryOK, ExpiringOK, ListedArePackaged
<1>3. ListedOnce
  BY <1>1 DEF Init, ListedOnce
<1>4. QED
  BY <1>2, <1>3 DEF QueueInv

\* Where the first entry is.
LEMMA FirstEntryIs ==
  ASSUME TypeOK, NEW t \in Elements(uninstallList)
  PROVE  FirstEntry(t) \in DOMAIN uninstallList /\ uninstallList[FirstEntry(t)] = t
<1> DEFINE entries == {i \in DOMAIN uninstallList : uninstallList[i] = t}
<1>1. DOMAIN uninstallList = 1..Len(uninstallList) /\ Len(uninstallList) \in Nat
  BY DEF TypeOK
<1>2. entries \subseteq Nat /\ entries # {}
  BY <1>1 DEF Elements
<1>3. PICK i \in entries : \A j \in entries : i <= j
  BY <1>2, Least
<1>4. \A j \in 1..(i - 1) : j \in DOMAIN uninstallList /\ ~(i <= j)
  BY <1>1
<1>5. \A j \in 1..(i - 1) : uninstallList[j] # t
  BY <1>3, <1>4
<1>6. i \in DOMAIN uninstallList /\ uninstallList[i] = t
  BY <1>3
<1> HIDE DEF entries
<1>7. QED
  BY <1>5, <1>6 DEF FirstEntry

\* As long as the package was not installed a second time, doCleanup() deletes no
\* trigger that the delete of a parent has freed (TriggerUnit.cpp 1373-1387).
THEOREM FreedOnceBeforeReinstall ==
  Spec => [](Cardinality(mPackageName) <= 1 => CleanupFreesOnce)
<1>1. Init => IInv /\ QueueInv
  BY InitEstablishesIInv, QueueInit
<1>2. (IInv /\ QueueInv) /\ [Next]_vars => (IInv /\ QueueInv)'
  BY NextKeepsIInv, QueueStep
<1>3. IInv /\ QueueInv => (Cardinality(mPackageName) <= 1 => CleanupFreesOnce)
  <2> SUFFICES ASSUME IInv, QueueInv, Cardinality(mPackageName) <= 1, NEW t \in FreedTwice
               PROVE  FALSE
    BY DEF CleanupFreesOnce
  <2>1. t \notin mCleanupSet
    BY DEF FreedTwice, QueueInv, TemporaryOK
  <2>2. t \in Elements(uninstallList)
    BY <2>1 DEF FreedTwice
  <2>3. t \in IDs
    BY <2>2, MapIsIDs DEF IInv, NoDanglingPointers
  <2>4. ASSUME NEW a \in mAncestors[t] \intersect mCleanupSet PROVE FALSE
    <3>1. PICK f \in Path(t) : f \in mPackageName /\ mAncestors[f] = {}
      BY <2>2 DEF QueueInv, ListedArePackaged
    <3>2. mAncestors[a] = {} /\ a \notin mPackageName
      BY <2>4 DEF QueueInv, TemporaryOK
    <3>3. f \in mAncestors[t] /\ f # a
      BY <2>4, <3>1, <3>2 DEF Path
    <3>4. QED
      BY <2>3, <2>4, <3>1, <3>2, <3>3 DEF QueueInv, ChainOK
  <2>5. ASSUME NEW a \in mAncestors[t] \intersect Elements(uninstallList),
               FirstEntry(a) < FirstEntry(t)
        PROVE  FALSE
    <3> DEFINE i == FirstEntry(a)
               j == FirstEntry(t)
    <3>1. /\ i \in DOMAIN uninstallList /\ uninstallList[i] = a
          /\ j \in DOMAIN uninstallList /\ uninstallList[j] = t
      BY <2>2, <2>5, FirstEntryIs DEF IInv
    <3>2. i < j
      BY <2>5
    <3> HIDE DEF i, j
    <3>3. DOMAIN uninstallList = 1..Len(uninstallList) /\ Len(uninstallList) \in Nat
      BY DEF IInv, TypeOK
    <3>4. i \in 1..(j - 1)
      BY <3>1, <3>2, <3>3
    <3>5. QED
      BY <2>5, <3>1, <3>4 DEF QueueInv, ListedOnce
  <2>6. QED
    BY <2>1, <2>4, <2>5 DEF FreedTwice
<1>4. QED
  BY <1>1, <1>2, <1>3, PTL DEF Spec

=============================================================================
