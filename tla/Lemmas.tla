------------------------------- MODULE Lemmas -------------------------------
(***************************************************************************)
(* Facts about numbers and about sequences used as stacks or arrays, which *)
(* the proofs of several modules need.                                     *)
(***************************************************************************)
EXTENDS Integers, SequencesExt, SequenceTheorems, FiniteSetTheorems, WellFoundedInduction, TLAPS

\* A set of natural numbers that is not empty has a least element.
LEMMA LeastNatural ==
    ASSUME NEW set \in SUBSET Nat, set # {}
    PROVE  \E n \in set : \A m \in set : n <= m
<1> DEFINE less == OpToRel(<, Nat)
<1>1. \A m, n \in Nat : <<m, n>> \in less <=> m < n
  BY DEF OpToRel
<1>2. IsWellFoundedOn(less, Nat)
  BY NatLessThanWellFounded, Zenon
<1> HIDE DEF less
<1>3. PICK n \in set : \A m \in set : <<m, n>> \notin less
  BY <1>2, WFMin
<1>4. ASSUME NEW m \in set PROVE n <= m
  <2>1. m \in Nat /\ n \in Nat /\ <<m, n>> \notin less
    BY <1>3
  <2>2. ~(m < n)
    BY <1>1, <2>1
  <2> QED BY <2>1, <2>2
<1> QED
  BY <1>4

\* What holds at 0 and goes from each number to the next holds up to n.
LEMMA UpTo ==
    ASSUME NEW n \in Nat, NEW set, 0 \in set, \A k \in 1 .. n : k - 1 \in set => k \in set
    PROVE  \A k \in 0 .. n : k \in set
<1> DEFINE out == {k \in 0 .. n : k \notin set}
<1> SUFFICES ASSUME out # {} PROVE FALSE
  OBVIOUS
<1>1. PICK k \in out : \A m \in out : k <= m
  <2>1. out \in SUBSET Nat
    OBVIOUS
  <2> HIDE DEF out
  <2> QED BY <2>1, LeastNatural
<1>2. k \in 1 .. n /\ k - 1 \in 0 .. n /\ ~(k <= k - 1)
  BY <1>1
<1>3. k - 1 \in set
  BY <1>1, <1>2
<1> QED
  BY <1>1, <1>2, <1>3

\* A function on 0 .. n that is base below i and goes from each number to the
\* next as step says.
Unrolls(f, n, i, base, step) ==
    f = [k \in 0 .. n |-> IF k < i THEN base ELSE step[k][f[k - 1]]]

\* There is one.
LEMMA UnrollingExists ==
    ASSUME NEW S, NEW n \in Nat, NEW i \in Nat \ {0}, NEW base \in S, NEW step \in [1 .. n -> [S -> S]]
    PROVE  \E f \in [0 .. n -> S] : Unrolls(f, n, i, base, step)
<1> DEFINE set == {m \in 0 .. n : \E f \in [0 .. m -> S] : Unrolls(f, m, i, base, step)}
<1>1. 0 \in set
  <2> DEFINE f == [k \in 0 .. 0 |-> base]
  <2>1. f = [k \in 0 .. 0 |-> IF k < i THEN base ELSE step[k][f[k - 1]]]
    OBVIOUS
  <2>2. f \in [0 .. 0 -> S]
    OBVIOUS
  <2> HIDE DEF f
  <2> QED BY <2>1, <2>2 DEF Unrolls
<1>2. ASSUME NEW m \in 1 .. n, m - 1 \in set PROVE m \in set
  <2>1. PICK g \in [0 .. m - 1 -> S] : Unrolls(g, m - 1, i, base, step)
    BY <1>2
  <2>2. \A k \in 0 .. m - 1 : g[k] = IF k < i THEN base ELSE step[k][g[k - 1]]
    BY <2>1 DEF Unrolls
  <2> DEFINE new == IF m < i THEN base ELSE step[m][g[m - 1]]
             f == [k \in 0 .. m |-> IF k = m THEN new ELSE g[k]]
  <2>3. new \in S
    <3>1. m - 1 \in 0 .. m - 1 /\ g[m - 1] \in S
      OBVIOUS
    <3> QED BY <3>1
  <2> HIDE DEF new
  <2>4. f \in [0 .. m -> S]
    BY <2>3
  <2>5. ASSUME NEW k \in 0 .. m PROVE f[k] = IF k < i THEN base ELSE step[k][f[k - 1]]
    <3>1. k - 1 \in 0 .. m - 1 => f[k - 1] = g[k - 1]
      OBVIOUS
    <3>2. k >= i => k - 1 \in 0 .. m - 1
      OBVIOUS
    <3>3. CASE k = m
      <4>1. f[m] = new
        OBVIOUS
      <4> HIDE DEF f
      <4> QED BY <3>1, <3>2, <3>3, <4>1 DEF new
    <3>4. CASE k # m
      <4>1. k \in 0 .. m - 1 /\ f[k] = g[k]
        BY <3>4
      <4> HIDE DEF f
      <4> QED BY <2>2, <3>1, <3>2, <4>1
    <3> QED BY <3>3, <3>4
  <2>6. f = [k \in 0 .. m |-> f[k]]
    OBVIOUS
  <2> HIDE DEF f
  <2>7. Unrolls(f, m, i, base, step)
    BY <2>5, <2>6 DEF Unrolls
  <2> QED BY <2>4, <2>7
<1> HIDE DEF set
<1>3. n \in set
  <2>1. \A m \in 1 .. n : m - 1 \in set => m \in set
    BY <1>2
  <2>2. \A m \in 0 .. n : m \in set
    BY <1>1, <2>1, UpTo
  <2> QED BY <2>2
<1> QED
  BY <1>3 DEF set

-----------------------------------------------------------------------------
(***************************************************************************)
(* A search in a finite set A: from a set of its elements to the set of    *)
(* these and more of them, until there are no more.                        *)
(***************************************************************************)
Searches(f, A, more) == f = [as \in SUBSET A |-> IF more[as] = as THEN as ELSE f[more[as]]]

\* What a search goes through only grows, and no less from more.
Growing(A, more) ==
    /\ more \in [SUBSET A -> SUBSET A]
    /\ \A as \in SUBSET A : as \subseteq more[as]
    /\ \A as, bs \in SUBSET A : as \subseteq bs => more[as] \subseteq more[bs]

\* There is such a search.
LEMMA SpreadingExists ==
    ASSUME NEW A, NEW more, Growing(A, more)
    PROVE  \E f : Searches(f, A, more)
<1> DEFINE Least(as) == {b \in A : \A set \in SUBSET A :
                                      as \subseteq set /\ more[set] = set => b \in set}
           least == [as \in SUBSET A |-> Least(as)]
<1>1. ASSUME NEW as \in SUBSET A
      PROVE  Least(as) = IF more[as] = as THEN as ELSE Least(more[as])
  <2>1. CASE more[as] = as
    BY <2>1
  <2>2. CASE more[as] # as
    <3>1. ASSUME NEW set \in SUBSET A, more[set] = set
          PROVE  as \subseteq set <=> more[as] \subseteq set
      <4>1. as \subseteq more[as] /\ (as \subseteq set => more[as] \subseteq more[set])
        BY DEF Growing
      <4> QED BY <3>1, <4>1
    <3>2. more[as] \in SUBSET A
      BY DEF Growing
    <3>3. Least(as) = Least(more[as])
      BY <3>1, <3>2
    <3> QED BY <2>2, <3>3
  <2> QED BY <2>1, <2>2
<1>2. Searches(least, A, more)
  <2>1. \A as \in SUBSET A : more[as] \in SUBSET A
    BY DEF Growing
  <2>2. \A as \in SUBSET A : least[as] = IF more[as] = as THEN as ELSE least[more[as]]
    BY <1>1, <2>1
  <2> HIDE DEF Least
  <2> QED BY <2>2 DEF Searches
<1> QED
  BY <1>2

\* It finds the least set that holds where it starts and has no more.
LEMMA SpreadingIsLeast ==
    ASSUME NEW A, IsFiniteSet(A), NEW more, Growing(A, more), NEW f, Searches(f, A, more),
           NEW from \in SUBSET A
    PROVE  /\ f[from] \in SUBSET A /\ from \subseteq f[from] /\ more[f[from]] = f[from]
           /\ \A set \in SUBSET A : from \subseteq set /\ more[set] = set => f[from] \subseteq set
<1> DEFINE Good(as) == /\ f[as] \in SUBSET A /\ as \subseteq f[as] /\ more[f[as]] = f[as]
                       /\ \A set \in SUBSET A : as \subseteq set /\ more[set] = set => f[as] \subseteq set
           rest == {A \ as : as \in {as \in SUBSET A : ~Good(as)}}
<1>1. SUFFICES ASSUME rest # {} PROVE FALSE
  OBVIOUS
<1>2. IsWellFoundedOn(StrictSubsetOrdering(A), SUBSET A)
  <2>1. FiniteSubsetsOf(A) = SUBSET A
    BY FS_FiniteSubsetsOfFinite
  <2> QED BY <2>1, FS_StrictSubsetOrderingWellFounded
<1>3. PICK least \in rest : \A other \in rest : <<other, least>> \notin StrictSubsetOrdering(A)
  <2>1. rest \subseteq SUBSET A
    OBVIOUS
  <2> HIDE DEF rest
  <2> QED BY <1>1, <2>1, <1>2, WFMin
<1>4. PICK as \in SUBSET A : least = A \ as /\ ~Good(as)
  BY <1>3
<1>5. f[as] = IF more[as] = as THEN as ELSE f[more[as]]
  BY DEF Searches
<1>6. more[as] \in SUBSET A /\ as \subseteq more[as]
  BY DEF Growing
<1>7. more[as] # as /\ f[as] = f[more[as]]
  BY <1>4, <1>5
<1>8. Good(more[as])
  <2>1. <<A \ more[as], A \ as>> \in StrictSubsetOrdering(A)
    BY <1>6, <1>7 DEF StrictSubsetOrdering
  <2>2. A \ more[as] \notin rest
    BY <2>1, <1>3, <1>4
  <2> QED BY <2>2, <1>6
<1>9. ASSUME NEW set \in SUBSET A, as \subseteq set, more[set] = set PROVE more[as] \subseteq set
  <2>1. more[as] \subseteq more[set]
    BY <1>9 DEF Growing
  <2> QED BY <1>9, <2>1
<1> QED
  BY <1>4, <1>6, <1>7, <1>8, <1>9

-----------------------------------------------------------------------------
(***************************************************************************)
(* Stacks.                                                                 *)
(***************************************************************************)

\* How many elements of a sequence are in a set.
Count(s, set) == Cardinality({i \in DOMAIN s : s[i] \in set})

\* The last element and the ones before it.
LEMMA FrontLast ==
    ASSUME NEW S, NEW s \in Seq(S), s # <<>>
    PROVE  /\ Len(s) \in Nat \ {0}
           /\ Last(s) = s[Len(s)] /\ Last(s) \in S
           /\ Front(s) \in Seq(S)
           /\ Len(Front(s)) = Len(s) - 1
           /\ \A i \in 1 .. Len(s) - 1 : Front(s)[i] = s[i]
<1>1. Len(s) \in Nat \ {0} /\ \A i \in 1 .. Len(s) : s[i] \in S
  BY EmptySeq, ElementOfSeq
<1>2. \A i \in 1 .. Len(s) - 1 : s[i] \in S
  BY <1>1
<1>3. /\ Front(s) \in Seq(S)
      /\ Len(Front(s)) = Len(s) - 1
      /\ \A i \in 1 .. Len(s) - 1 : Front(s)[i] = s[i]
  <2> DEFINE n == Len(s) - 1
  <2>1. n \in Nat /\ Len(s) \in Nat /\ 1 \in Int /\ \A i \in 1 .. n : s[i] \in S
    BY <1>1, <1>2
  <2> HIDE DEF n
  <2>2. /\ SubSeq(s, 1, n) \in Seq(S)
        /\ Len(SubSeq(s, 1, n)) = IF 1 <= n THEN n - 1 + 1 ELSE 0
        /\ \A i \in 1 .. n - 1 + 1 : SubSeq(s, 1, n)[i] = s[1 + i - 1]
    BY <2>1, SubSeqProperties
  <2>3. /\ Len(SubSeq(s, 1, n)) = n
        /\ \A i \in 1 .. n : SubSeq(s, 1, n)[i] = s[i]
    BY <2>1, <2>2
  <2> QED BY <2>2, <2>3 DEF Front, n
<1> QED
  BY <1>1, <1>3 DEF Last

\* An appended element is the last one.
LEMMA AppendLast ==
    ASSUME NEW S, NEW s \in Seq(S), NEW e \in S
    PROVE  /\ Len(s) \in Nat /\ DOMAIN s = 1 .. Len(s)
           /\ Append(s, e) \in Seq(S) /\ Append(s, e) # <<>>
           /\ Len(Append(s, e)) = Len(s) + 1 /\ DOMAIN Append(s, e) = 1 .. Len(s) + 1
           /\ \A i \in 1 .. Len(s) : Append(s, e)[i] = s[i]
           /\ Append(s, e)[Len(s) + 1] = e /\ Last(Append(s, e)) = e
<1>1. /\ Len(s) \in Nat /\ DOMAIN s = 1 .. Len(s)
      /\ Append(s, e) \in Seq(S) /\ Append(s, e) # <<>>
      /\ Len(Append(s, e)) = Len(s) + 1
      /\ \A i \in 1 .. Len(s) : Append(s, e)[i] = s[i]
      /\ Append(s, e)[Len(s) + 1] = e
  BY AppendProperties, LenProperties
<1>2. DOMAIN Append(s, e) = 1 .. Len(s) + 1
  BY <1>1, LenProperties
<1> QED
  BY <1>1, <1>2 DEF Last

\* The last element replaced.
LEMMA ExceptLast ==
    ASSUME NEW S, NEW s \in Seq(S), s # <<>>, NEW e \in S
    PROVE  LET t == [s EXCEPT ![Len(s)] = e] IN
           /\ Len(s) \in Nat \ {0} /\ DOMAIN s = 1 .. Len(s)
           /\ t \in Seq(S) /\ Len(t) = Len(s) /\ DOMAIN t = 1 .. Len(s) /\ t # <<>>
           /\ \A i \in 1 .. Len(s) - 1 : t[i] = s[i]
           /\ t[Len(s)] = e /\ Last(t) = e
<1> DEFINE t == [s EXCEPT ![Len(s)] = e]
<1>1. DOMAIN s = 1 .. Len(s)
  BY LenProperties
<1>2. Len(s) \in Nat \ {0}
  BY FrontLast
<1>3. /\ t \in Seq(S) /\ Len(t) = Len(s)
      /\ \A i \in 1 .. Len(s) - 1 : t[i] = s[i]
      /\ t[Len(s)] = e
  <2>1. Len(s) \in 1 .. Len(s)
    BY <1>2
  <2>2. /\ t \in Seq(S) /\ Len(t) = Len(s)
        /\ \A i \in 1 .. Len(s) : t[i] = IF i = Len(s) THEN e ELSE s[i]
    BY <2>1, ExceptSeq
  <2> HIDE DEF t
  <2> QED BY <1>2, <2>2
<1> HIDE DEF t
<1>4. DOMAIN t = 1 .. Len(s) /\ Last(t) = e /\ t # <<>>
  BY <1>2, <1>3, LenProperties DEF Last
<1> QED
  BY <1>1, <1>2, <1>3, <1>4 DEF t

\* A prefix of a sequence.
LEMMA PrefixIs ==
    ASSUME NEW S, NEW s \in Seq(S), NEW n \in Nat, n <= Len(s)
    PROVE  /\ SubSeq(s, 1, n) \in Seq(S) /\ Len(SubSeq(s, 1, n)) = n
           /\ \A i \in 1 .. n : SubSeq(s, 1, n)[i] = s[i]
<1>1. Len(s) \in Nat /\ 1 \in Int
  BY LenProperties
<1>2. \A i \in 1 .. n : s[i] \in S
  <2> SUFFICES ASSUME NEW i \in 1 .. n PROVE s[i] \in S
    OBVIOUS
  <2>1. i \in 1 .. Len(s)
    BY <1>1
  <2> QED BY <2>1, ElementOfSeq
<1>3. /\ SubSeq(s, 1, n) \in Seq(S)
      /\ Len(SubSeq(s, 1, n)) = IF 1 <= n THEN n - 1 + 1 ELSE 0
      /\ \A i \in 1 .. n - 1 + 1 : SubSeq(s, 1, n)[i] = s[1 + i - 1]
  BY <1>1, <1>2, SubSeqProperties
<1> QED
  BY <1>3

\* The positions of some elements of a sequence are finitely many.
LEMMA CountType ==
    ASSUME NEW S, NEW s \in Seq(S), NEW set
    PROVE  /\ IsFiniteSet({i \in DOMAIN s : s[i] \in set})
           /\ Count(s, set) \in Nat
<1>1. DOMAIN s = 1 .. Len(s) /\ Len(s) \in Nat
  BY LenProperties
<1>2. IsFiniteSet(DOMAIN s)
  BY <1>1, FS_Interval
<1>3. IsFiniteSet({i \in DOMAIN s : s[i] \in set})
  BY <1>2, FS_Subset
<1> QED
  BY <1>3, FS_CardinalityType DEF Count

\* An appended element counts once if it is in the set.
LEMMA CountAppend ==
    ASSUME NEW S, NEW s \in Seq(S), NEW e \in S, NEW set
    PROVE  Count(Append(s, e), set) = Count(s, set) + (IF e \in set THEN 1 ELSE 0)
<1> DEFINE before == {i \in DOMAIN s : s[i] \in set}
           after == {i \in DOMAIN Append(s, e) : Append(s, e)[i] \in set}
<1>1. DOMAIN s = 1 .. Len(s) /\ Len(s) \in Nat
  BY LenProperties
<1>2. /\ DOMAIN Append(s, e) = 1 .. Len(s) + 1
      /\ \A i \in 1 .. Len(s) : Append(s, e)[i] = s[i]
      /\ Append(s, e)[Len(s) + 1] = e
  BY AppendProperties, LenProperties
<1>3. IsFiniteSet(before) /\ Count(s, set) = Cardinality(before) /\ Len(s) + 1 \notin before
  <2>1. IsFiniteSet(before)
    BY CountType
  <2>2. Count(s, set) = Cardinality(before)
    BY DEF Count
  <2>3. Len(s) + 1 \notin before
    BY <1>1
  <2> QED BY <2>1, <2>2, <2>3
<1>4. after = IF e \in set THEN before \cup {Len(s) + 1} ELSE before
  <2>1. 1 .. Len(s) + 1 = (1 .. Len(s)) \cup {Len(s) + 1}
    BY <1>1
  <2> QED BY <1>1, <1>2, <2>1
<1> HIDE DEF before
<1>5. Cardinality(before \cup {Len(s) + 1}) = Cardinality(before) + 1
  BY <1>3, FS_AddElement
<1>6. Count(Append(s, e), set) = Cardinality(after)
  BY DEF Count
<1>7. Count(s, set) \in Nat
  BY CountType
<1> HIDE DEF after
<1> QED
  BY <1>3, <1>4, <1>5, <1>6, <1>7

\* The last element counts once if it is in the set.
LEMMA CountFront ==
    ASSUME NEW S, NEW s \in Seq(S), s # <<>>, NEW set
    PROVE  Count(s, set) = Count(Front(s), set) + (IF Last(s) \in set THEN 1 ELSE 0)
<1>1. /\ Front(s) \in Seq(S) /\ Last(s) \in S
      /\ Len(s) \in Nat \ {0} /\ Len(Front(s)) = Len(s) - 1
      /\ \A i \in 1 .. Len(s) - 1 : Front(s)[i] = s[i]
      /\ Last(s) = s[Len(s)]
  BY FrontLast
<1> DEFINE t == Append(Front(s), Last(s))
<1>2. t = s
  <2>1. /\ t \in Seq(S) /\ Len(t) = Len(s)
        /\ \A i \in 1 .. Len(s) - 1 : t[i] = Front(s)[i]
        /\ t[Len(s)] = Last(s)
    BY <1>1, AppendProperties
  <2>2. \A i \in 1 .. Len(s) : t[i] = s[i]
    BY <1>1, <2>1
  <2> QED BY <2>1, <2>2, SeqEqual
<1>3. Count(t, set) = Count(Front(s), set) + (IF Last(s) \in set THEN 1 ELSE 0)
  BY <1>1, CountAppend
<1> HIDE DEF t
<1> QED
  BY <1>2, <1>3

-----------------------------------------------------------------------------
(***************************************************************************)
(* Sequences of anything.                                                  *)
(***************************************************************************)
Sequence(s) == \E S : s \in Seq(S)

\* An element on top.
LEMMA Pushed ==
    ASSUME NEW s, Sequence(s), NEW e
    PROVE  /\ Len(s) \in Nat
           /\ Sequence(Append(s, e)) /\ Append(s, e) # <<>>
           /\ Len(Append(s, e)) = Len(s) + 1
           /\ \A i \in 1 .. Len(s) : Append(s, e)[i] = s[i]
           /\ Append(s, e)[Len(s) + 1] = e
<1>1. PICK S : s \in Seq(S)
  BY DEF Sequence
<1>2. /\ s \in Seq(S \cup {e}) /\ e \in S \cup {e}
  BY <1>1, ElementOfSeq, LenProperties, SeqDef
<1>3. /\ Len(s) \in Nat
      /\ Append(s, e) \in Seq(S \cup {e}) /\ Append(s, e) # <<>>
      /\ Len(Append(s, e)) = Len(s) + 1
      /\ \A i \in 1 .. Len(s) : Append(s, e)[i] = s[i]
      /\ Append(s, e)[Len(s) + 1] = e
  BY <1>2, AppendLast
<1>4. QED
  BY <1>3, Zenon DEF Sequence

\* The top, and what is below it.
LEMMA Popped ==
    ASSUME NEW s, Sequence(s), s # <<>>
    PROVE  /\ Len(s) \in Nat \ {0}
           /\ Last(s) = s[Len(s)]
           /\ Sequence(Front(s)) /\ Len(Front(s)) = Len(s) - 1
           /\ \A i \in 1 .. Len(s) - 1 : Front(s)[i] = s[i]
<1>1. PICK S : s \in Seq(S)
  BY DEF Sequence
<1>2. QED
  BY <1>1, FrontLast, Zenon DEF Sequence

\* Another top.
LEMMA Topped ==
    ASSUME NEW s, Sequence(s), s # <<>>, NEW e
    PROVE  /\ Sequence([s EXCEPT ![Len(s)] = e]) /\ [s EXCEPT ![Len(s)] = e] # <<>>
           /\ Len([s EXCEPT ![Len(s)] = e]) = Len(s)
           /\ \A i \in 1 .. Len(s) - 1 : [s EXCEPT ![Len(s)] = e][i] = s[i]
           /\ [s EXCEPT ![Len(s)] = e][Len(s)] = e
<1>1. PICK S : s \in Seq(S)
  BY DEF Sequence
<1>2. /\ s \in Seq(S \cup {e}) /\ e \in S \cup {e}
  BY <1>1, ElementOfSeq, LenProperties, SeqDef
<1>3. /\ [s EXCEPT ![Len(s)] = e] \in Seq(S \cup {e}) /\ [s EXCEPT ![Len(s)] = e] # <<>>
      /\ Len([s EXCEPT ![Len(s)] = e]) = Len(s)
      /\ \A i \in 1 .. Len(s) - 1 : [s EXCEPT ![Len(s)] = e][i] = s[i]
      /\ [s EXCEPT ![Len(s)] = e][Len(s)] = e
  BY <1>2, ExceptLast
<1>4. QED
  BY <1>3, Zenon DEF Sequence

\* The first n elements.
LEMMA Cut ==
    ASSUME NEW s, Sequence(s), NEW n \in Nat, n <= Len(s)
    PROVE  /\ Sequence(SubSeq(s, 1, n)) /\ Len(SubSeq(s, 1, n)) = n
           /\ \A i \in 1 .. n : SubSeq(s, 1, n)[i] = s[i]
<1>1. PICK S : s \in Seq(S)
  BY DEF Sequence
<1>2. QED
  BY <1>1, PrefixIs, Zenon DEF Sequence

\* An element replaced.
LEMMA Patched ==
    ASSUME NEW s, Sequence(s), NEW k, NEW e
    PROVE  Sequence([s EXCEPT ![k] = e]) /\ Len([s EXCEPT ![k] = e]) = Len(s)
<1>1. PICK S : s \in Seq(S)
  BY DEF Sequence
<1>2. /\ s \in Seq(S \cup {e}) /\ e \in S \cup {e}
  BY <1>1, ElementOfSeq, LenProperties, SeqDef
<1>3. CASE k \in 1 .. Len(s)
  BY <1>2, <1>3, ExceptSeq DEF Sequence
<1>4. CASE k \notin 1 .. Len(s)
  <2>1. DOMAIN s = 1 .. Len(s)
    BY <1>1, LenProperties
  <2>2. s = [i \in 1 .. Len(s) |-> s[i]]
    BY <1>1, SeqDef, LenProperties
  <2>3. [s EXCEPT ![k] = e] = s
    BY <1>4, <2>1, <2>2
  <2>4. QED
    BY <2>3
<1>5. QED
  BY <1>3, <1>4

\* Two more elements.
LEMMA PushedTwice ==
    ASSUME NEW s, Sequence(s), NEW d, NEW e
    PROVE  Sequence(s \o <<d, e>>) /\ Len(s \o <<d, e>>) = Len(s) + 2
<1>1. PICK S : s \in Seq(S)
  BY DEF Sequence
<1>2. s \in Seq(S \cup {d, e})
  BY <1>1, ElementOfSeq, LenProperties, SeqDef
<1>3. <<d, e>> \in Seq(S \cup {d, e}) /\ Len(<<d, e>>) = 2
  OBVIOUS
<1>4. QED
  BY <1>2, <1>3, ConcatProperties DEF Sequence

\* Three more elements.
LEMMA PushedThrice ==
    ASSUME NEW s, Sequence(s), NEW c, NEW d, NEW e
    PROVE  Sequence(s \o <<c, d, e>>) /\ Len(s \o <<c, d, e>>) = Len(s) + 3
<1>1. PICK S : s \in Seq(S)
  BY DEF Sequence
<1>2. s \in Seq(S \cup {c, d, e})
  BY <1>1, ElementOfSeq, LenProperties, SeqDef
<1>3. <<c, d, e>> \in Seq(S \cup {c, d, e}) /\ Len(<<c, d, e>>) = 3
  OBVIOUS
<1>4. QED
  BY <1>2, <1>3, ConcatProperties DEF Sequence
=============================================================================
