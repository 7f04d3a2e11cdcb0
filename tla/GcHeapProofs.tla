---------------------------- MODULE GcHeapProofs ----------------------------
(***************************************************************************)
(* Theorems about GcHeap, for any set of addresses and any capacities.     *)
(*                                                                         *)
(*   TypeCorrect          the type invariant;                              *)
(*   NeverDangling        no usable handle names a freed block;            *)
(*   CyclesStartClean     marks are clear between collections;             *)
(*   CollectsAtomically   the collector implements AbstractHeap;           *)
(*   LiveCountIsExact     the live count is that of the list;              *)
(*   WorklistIsBounded    no object is on the worklist twice.              *)
(*                                                                         *)
(* The inductive invariant, IInv, adds to NoDangling what the collector    *)
(* knows half-way: while it marks, every object it has met is reachable    *)
(* and every reference that leaves the objects it has finished leads to a  *)
(* marked object or to a value still pending; while it sweeps, the objects *)
(* it will leave are exactly the reachable ones.                           *)
(***************************************************************************)
EXTENDS GcHeap, SequenceTheorems, FiniteSetTheorems, TLAPS

-----------------------------------------------------------------------------
(***************************************************************************)
(* Sequences and their ranges.                                             *)
(***************************************************************************)

\* A member of the range of a sequence is one of its elements.
LEMMA RangeIs ==
    ASSUME NEW S, NEW s \in Seq(S)
    PROVE  Range(s) = {s[i] : i \in 1 .. Len(s)}
BY RangeEquality

\* Appending adds the appended element to the range.
LEMMA RangeAppend ==
    ASSUME NEW S, NEW s \in Seq(S), NEW e \in S
    PROVE  Range(Append(s, e)) = Range(s) \cup {e}
<1>1. /\ Append(s, e) \in Seq(S)
      /\ Len(Append(s, e)) = Len(s) + 1
      /\ \A i \in 1 .. Len(s) : Append(s, e)[i] = s[i]
      /\ Append(s, e)[Len(s) + 1] = e
  BY AppendProperties
<1>2. Len(s) \in Nat
  BY LenProperties
<1>3. Range(Append(s, e)) = {Append(s, e)[i] : i \in 1 .. Len(s) + 1}
  BY <1>1, RangeIs
<1>4. 1 .. Len(s) + 1 = (1 .. Len(s)) \cup {Len(s) + 1}
  BY <1>2
<1> QED
  BY <1>1, <1>3, <1>4, RangeIs

\* A non-empty sequence consists of its head and its tail.
LEMMA RangeHeadTail ==
    ASSUME NEW S, NEW s \in Seq(S), s # <<>>
    PROVE  /\ Head(s) \in S
           /\ Tail(s) \in Seq(S)
           /\ Range(s) = {Head(s)} \cup Range(Tail(s))
<1>1. /\ Head(s) \in S
      /\ Tail(s) \in Seq(S)
      /\ Len(Tail(s)) = Len(s) - 1
      /\ \A i \in 1 .. Len(Tail(s)) : Tail(s)[i] = s[i + 1]
  BY HeadTailProperties
<1>2. Len(s) \in Nat \ {0} /\ Head(s) = s[1]
  BY EmptySeq
<1>3. Range(s) = {s[i] : i \in 1 .. Len(s)}
  BY RangeIs
<1>4. Range(Tail(s)) = {s[i + 1] : i \in 1 .. Len(s) - 1}
  <2>1. Range(Tail(s)) = {Tail(s)[i] : i \in 1 .. Len(Tail(s))}
    BY <1>1, RangeIs
  <2> QED BY <2>1, <1>1
<1>5. ASSUME NEW x \in Range(s) PROVE x \in {Head(s)} \cup Range(Tail(s))
  <2>1. PICK i \in 1 .. Len(s) : x = s[i]
    BY <1>3, <1>5
  <2>2. CASE i = 1
    BY <2>1, <2>2, <1>2
  <2>3. CASE i # 1
    <3>1. i - 1 \in 1 .. Len(s) - 1 /\ x = s[(i - 1) + 1]
      BY <2>1, <2>3, <1>2
    <3> QED BY <3>1, <1>4
  <2> QED BY <2>2, <2>3
<1>6. ASSUME NEW x \in {Head(s)} \cup Range(Tail(s)) PROVE x \in Range(s)
  <2>1. CASE x = Head(s)
    BY <2>1, <1>2, <1>3
  <2>2. CASE x \in Range(Tail(s))
    <3>1. PICK i \in 1 .. Len(s) - 1 : x = s[i + 1]
      BY <2>2, <1>4
    <3>2. i + 1 \in 1 .. Len(s)
      BY <1>2, <3>1
    <3> QED BY <3>1, <3>2, <1>3
  <2> QED BY <2>1, <2>2, <1>6
<1> QED
  BY <1>1, <1>5, <1>6

\* A prefix of a sequence is a sequence of some of its elements.
LEMMA RangePrefix ==
    ASSUME NEW S, NEW s \in Seq(S), NEW n \in Int, n <= Len(s)
    PROVE  /\ SubSeq(s, 1, n) \in Seq(S)
           /\ Range(SubSeq(s, 1, n)) \subseteq Range(s)
<1>1. Len(s) \in Nat /\ \A i \in 1 .. Len(s) : s[i] \in S
  BY LenProperties, ElementOfSeq
<1>2. \A i \in 1 .. n : s[i] \in S
  BY <1>1
<1>3. /\ SubSeq(s, 1, n) \in Seq(S)
      /\ Len(SubSeq(s, 1, n)) = IF 1 <= n THEN n - 1 + 1 ELSE 0
      /\ \A i \in 1 .. n - 1 + 1 : SubSeq(s, 1, n)[i] = s[1 + i - 1]
  BY <1>2, SubSeqProperties
<1>4. Range(SubSeq(s, 1, n)) = {SubSeq(s, 1, n)[i] : i \in 1 .. Len(SubSeq(s, 1, n))}
  BY <1>3, RangeIs
<1>5. Range(s) = {s[i] : i \in 1 .. Len(s)}
  BY RangeIs
<1>6. ASSUME NEW x \in Range(SubSeq(s, 1, n)) PROVE x \in Range(s)
  <2>1. PICK i \in 1 .. Len(SubSeq(s, 1, n)) : x = SubSeq(s, 1, n)[i]
    BY <1>4, <1>6
  <2>2. 1 <= n /\ i \in 1 .. n
    BY <2>1, <1>3
  <2>3. x = s[i] /\ i \in 1 .. Len(s)
    BY <2>1, <2>2, <1>3, <1>1
  <2> QED BY <2>3, <1>5
<1> QED
  BY <1>3, <1>6

\* The last element and the ones before it make up a non-empty sequence.
LEMMA RangeLastFront ==
    ASSUME NEW S, NEW s \in Seq(S), s # <<>>
    PROVE  /\ s[Len(s)] \in S
           /\ SubSeq(s, 1, Len(s) - 1) \in Seq(S)
           /\ Len(SubSeq(s, 1, Len(s) - 1)) = Len(s) - 1
           /\ \A i \in 1 .. Len(s) - 1 : SubSeq(s, 1, Len(s) - 1)[i] = s[i]
           /\ Range(s) = {s[Len(s)]} \cup Range(SubSeq(s, 1, Len(s) - 1))
<1>1. Len(s) \in Nat \ {0} /\ \A i \in 1 .. Len(s) : s[i] \in S
  BY EmptySeq, ElementOfSeq
<1> DEFINE front == SubSeq(s, 1, Len(s) - 1)
<1>2. \A i \in 1 .. Len(s) - 1 : s[i] \in S
  BY <1>1
<1>3. /\ front \in Seq(S)
      /\ Len(front) = Len(s) - 1
      /\ \A i \in 1 .. Len(s) - 1 : front[i] = s[i]
  <2>1. /\ front \in Seq(S)
        /\ Len(front) = IF 1 <= Len(s) - 1 THEN (Len(s) - 1) - 1 + 1 ELSE 0
        /\ \A i \in 1 .. (Len(s) - 1) - 1 + 1 : front[i] = s[1 + i - 1]
    BY <1>1, <1>2, SubSeqProperties
  <2>2. (Len(s) - 1) - 1 + 1 = Len(s) - 1
    BY <1>1
  <2>3. Len(front) = Len(s) - 1
    <3> DEFINE n == Len(s)
               k == Len(front)
    <3>1. k = IF 1 <= n - 1 THEN (n - 1) - 1 + 1 ELSE 0
      BY <2>1
    <3>2. n \in Nat \ {0}
      BY <1>1
    <3> HIDE DEF n, k
    <3>3. k = n - 1
      BY <3>1, <3>2
    <3> QED BY <3>3 DEF n, k
  <2>4. ASSUME NEW i \in 1 .. Len(s) - 1 PROVE front[i] = s[i]
    <3>1. front[i] = s[1 + i - 1]
      BY <2>1, <2>2
    <3>2. 1 + i - 1 = i
      OBVIOUS
    <3> QED BY <3>1, <3>2
  <2> QED BY <2>1, <2>3, <2>4
<1>4. Range(front) = {s[i] : i \in 1 .. Len(s) - 1}
  <2>1. Range(front) = {front[i] : i \in 1 .. Len(front)}
    BY <1>3, RangeIs
  <2> QED BY <2>1, <1>3
<1>5. Range(s) = {s[i] : i \in 1 .. Len(s)}
  BY RangeIs
<1>6. 1 .. Len(s) = (1 .. Len(s) - 1) \cup {Len(s)}
  BY <1>1
<1> QED
  BY <1>1, <1>3, <1>4, <1>5, <1>6

\* Overwriting an element brings in no other value than the new one.
LEMMA RangeExcept ==
    ASSUME NEW S, NEW s \in Seq(S), NEW i, NEW e \in S
    PROVE  /\ [s EXCEPT ![i] = e] \in Seq(S)
           /\ Range([s EXCEPT ![i] = e]) \subseteq Range(s) \cup {e}
<1>1. DOMAIN s = 1 .. Len(s)
  BY LenProperties
<1>0. CASE i \notin DOMAIN s
  <2>1. [s EXCEPT ![i] = e] = s
    BY <1>0, <1>1, LenProperties
  <2> QED BY <2>1
<1> SUFFICES ASSUME i \in DOMAIN s
             PROVE  /\ [s EXCEPT ![i] = e] \in Seq(S)
                    /\ Range([s EXCEPT ![i] = e]) \subseteq Range(s) \cup {e}
  BY <1>0
<1>2. /\ [s EXCEPT ![i] = e] \in Seq(S)
      /\ Len([s EXCEPT ![i] = e]) = Len(s)
      /\ \A j \in 1 .. Len(s) : [s EXCEPT ![i] = e][j] = IF j = i THEN e ELSE s[j]
  BY <1>1, ExceptSeq
<1> DEFINE t == [s EXCEPT ![i] = e]
<1>3. Range(t) = {t[j] : j \in 1 .. Len(t)}
  BY <1>2, RangeIs
<1>4. Range(s) = {s[j] : j \in 1 .. Len(s)}
  BY RangeIs
<1>5. Range(t) \subseteq Range(s) \cup {e}
  <2>1. ASSUME NEW j \in 1 .. Len(s) PROVE t[j] \in Range(s) \cup {e}
    <3>1. t[j] = e \/ t[j] = s[j]
      BY <1>2
    <3> QED BY <3>1, <1>4
  <2> QED BY <2>1, <1>3, <1>2
<1> QED
  BY <1>2, <1>5

-----------------------------------------------------------------------------
(***************************************************************************)
(* Reachability.                                                           *)
(***************************************************************************)

\* The roots are reachable.
LEMMA ReachableHasRoots ==
    ASSUME NEW h, NEW R \in SUBSET Obj
    PROVE  R \subseteq ReachableFrom(h, R)
BY DEF ReachableFrom

\* What a reachable object refers to is reachable.
LEMMA ReachableIsClosed ==
    ASSUME NEW h, NEW R
    PROVE  ClosedUnder(h, ReachableFrom(h, R))
<1> SUFFICES ASSUME NEW o \in ReachableFrom(h, R), NEW p \in RefsIn(h, o)
             PROVE  p \in ReachableFrom(h, R)
  BY DEF ClosedUnder
<1>1. p \in Obj
  BY DEF RefsIn
<1>2. ASSUME NEW S \in SUBSET Obj, R \subseteq S, ClosedUnder(h, S)
      PROVE  p \in S
  <2>1. o \in S
    BY <1>2 DEF ReachableFrom
  <2> QED BY <2>1, <1>2 DEF ClosedUnder
<1> QED BY <1>1, <1>2 DEF ReachableFrom

\* Every closed set that holds the roots holds all that is reachable.
LEMMA ReachableIsLeast ==
    ASSUME NEW h, NEW R, NEW S \in SUBSET Obj,
           R \subseteq S, ClosedUnder(h, S)
    PROVE  ReachableFrom(h, R) \subseteq S
BY DEF ReachableFrom

\* Reachability does not depend on the contents of unreachable blocks.
LEMMA ReachableLocal ==
    ASSUME NEW h, NEW g, NEW R \in SUBSET Obj,
           \A o \in ReachableFrom(h, R) : RefsIn(g, o) = RefsIn(h, o)
    PROVE  ReachableFrom(g, R) = ReachableFrom(h, R)
<1>1. ReachableFrom(h, R) \in SUBSET Obj /\ ReachableFrom(g, R) \in SUBSET Obj
  BY DEF ReachableFrom
<1>2. ClosedUnder(g, ReachableFrom(h, R))
  BY ReachableIsClosed DEF ClosedUnder
<1>3. ReachableFrom(g, R) \subseteq ReachableFrom(h, R)
  BY <1>1, <1>2, ReachableHasRoots, ReachableIsLeast
<1>4. ClosedUnder(h, ReachableFrom(g, R))
  BY <1>3, ReachableIsClosed DEF ClosedUnder
<1>5. ReachableFrom(h, R) \subseteq ReachableFrom(g, R)
  BY <1>1, <1>4, ReachableHasRoots, ReachableIsLeast
<1> QED BY <1>3, <1>5

-----------------------------------------------------------------------------
(***************************************************************************)
(* The type invariant.                                                     *)
(***************************************************************************)

\* What the interpreter can name are values.
LEMMA HeldAreValues ==
    ASSUME TypeOK
    PROVE  /\ Reachable \subseteq Obj
           /\ Rooted \subseteq Value
           /\ Held \subseteq Value
BY DEF TypeOK, Reachable, ReachableFrom, Rooted, Held, Value

\* A block's contents are a sequence of values.
LEMMA RefsAreValues ==
    ASSUME TypeOK, NEW o \in Obj
    PROVE  heap[o] \in Object /\ heap[o].refs \in Seq(Value)
BY DEF TypeOK, Object

\* An allocator call keeps the types.
LEMMA RequestTypes ==
    ASSUME TypeOK, NEW k, NEW r \in Seq(Value), Request(k, r)
    PROVE  TypeOK'
<1>1. request' \in Object
  BY DEF Request, Object
<1>2. RootSequence \in Seq(Value)
  <2>1. <<toplevel_env>> \in Seq(Value) /\ protect \in Seq(Value)
    BY DEF TypeOK
  <2> QED BY <2>1, ConcatProperties DEF RootSequence
<1>3. phase' \in Phases /\ pending' \in Seq(Value) /\ worklist' \in Seq(Obj)
  <2>1. CASE Stress \/ live >= threshold
    <3>1. phase' = "mark" /\ pending' = RootSequence /\ worklist' = <<>>
      BY <2>1 DEF Request, MaybeCollect
    <3> QED BY <3>1, <1>2 DEF Phases
  <2>2. CASE ~(Stress \/ live >= threshold)
    <3>1. phase' = "alloc" /\ pending' = pending /\ worklist' = worklist
      BY <2>2 DEF Request, MaybeCollect, markVars
    <3> QED BY <3>1 DEF Phases, TypeOK
  <2> QED BY <2>1, <2>2
<1>4. marked' = marked /\ wcap' = wcap /\ fresh' = Imm
  BY DEF Request, MaybeCollect, markVars
<1> QED
  BY <1>1, <1>3, <1>4 DEF Request, TypeOK, mutatorVars, sweepVars, Value

\* Growing a capacity leaves a number.
LEMMA GrownIsNat ==
    ASSUME NEW cap \in Nat, NEW first \in Nat
    PROVE  Grown(cap, first) \in Nat
BY DEF Grown

\* The type invariant holds initially.
LEMMA InitTypes == Init => TypeOK
<1> SUFFICES ASSUME Init PROVE TypeOK
  OBVIOUS
<1>1. Blank \in Object
  BY DEF Blank, Object
<1>2. <<>> \in Seq(Value) /\ <<>> \in Seq(Obj)
  OBVIOUS
<1> QED BY <1>1, <1>2, ConstantsAssumption DEF Init, TypeOK, Phases, Value

\* Every step keeps the types.
LEMMA NextTypes == TypeOK /\ [Next]_vars => TypeOK'
<1> SUFFICES ASSUME TypeOK, [Next]_vars PROVE TypeOK'
  OBVIOUS
<1> USE ConstantsAssumption
<1>1. CASE AllocPair
  <2>1. PICK car \in Rooted, cdr \in Rooted : Request("PAIR", <<car, cdr>>)
    BY <1>1 DEF AllocPair
  <2>2. <<car, cdr>> \in Seq(Value)
    BY HeldAreValues
  <2> QED BY <2>1, <2>2, RequestTypes
<1>2. CASE AllocString
  <2>1. <<>> \in Seq(Value)
    OBVIOUS
  <2> QED BY <2>1, <1>2, RequestTypes DEF AllocString
<1>3. CASE AllocPrimitive
  <2>1. <<>> \in Seq(Value)
    OBVIOUS
  <2> QED BY <2>1, <1>3, RequestTypes DEF AllocPrimitive
<1>4. CASE AllocClosure
  <2>1. PICK env \in RootedEnvs, params \in RootedLists, body \in RootedLists :
             Request("CLOSURE", <<env, params, body>>)
    BY <1>4 DEF AllocClosure
  <2>2. <<env, params, body>> \in Seq(Value)
    BY HeldAreValues DEF RootedEnvs, RootedLists
  <2> QED BY <2>1, <2>2, RequestTypes
<1>5. CASE AllocEnv
  <2>1. PICK parent \in RootedEnvs \cup {Imm} : Request("ENV", <<parent>>)
    BY <1>5 DEF AllocEnv
  <2>2. <<parent>> \in Seq(Value)
    BY HeldAreValues DEF RootedEnvs, Value
  <2> QED BY <2>1, <2>2, RequestTypes
<1>6. CASE LinkObject
  <2>1. PICK o \in Obj \ linked : /\ heap' = [heap EXCEPT ![o] = request]
                                  /\ linked' = linked \cup {o}
                                  /\ fresh' = o
    BY <1>6 DEF LinkObject
  <2>2. Blank \in Object
    BY DEF Blank, Object
  <2> QED BY <2>1, <2>2, <1>6
          DEF LinkObject, TypeOK, mutatorVars, markVars, sweepVars, Phases, Value
<1>7. CASE AllocFails
  <2>1. Blank \in Object
    BY DEF Blank, Object
  <2> QED BY <2>1, <1>7
          DEF AllocFails, TypeOK, mutatorVars, markVars, sweepVars, Phases
<1>8. CASE VisitSeen
  <2>1. Tail(pending) \in Seq(Value)
    BY <1>8, RangeHeadTail DEF VisitSeen, TypeOK
  <2> QED BY <2>1, <1>8 DEF VisitSeen, TypeOK, mutatorVars, sweepVars
<1>9. CASE VisitNew
  <2>1. Tail(pending) \in Seq(Value)
    BY <1>9, RangeHeadTail DEF VisitNew, TypeOK
  <2>2. Append(worklist, Head(pending)) \in Seq(Obj)
    BY <1>9, AppendProperties DEF VisitNew, TypeOK
  <2>3. Grown(wcap, WorklistInit) \in Nat
    BY GrownIsNat DEF TypeOK
  <2> QED BY <2>1, <2>2, <2>3, <1>9 DEF VisitNew, TypeOK, mutatorVars, sweepVars
<1>10. CASE VisitAborts
  BY <1>10 DEF VisitAborts, TypeOK, mutatorVars, sweepVars, Phases
<1>11. CASE Drain
  <2>1. /\ worklist[Len(worklist)] \in Obj
        /\ SubSeq(worklist, 1, Len(worklist) - 1) \in Seq(Obj)
    BY <1>11, RangeLastFront DEF Drain, TypeOK
  <2>2. heap[worklist[Len(worklist)]].refs \in Seq(Value)
    BY <2>1, RefsAreValues
  <2> QED BY <2>1, <2>2, <1>11 DEF Drain, TypeOK, mutatorVars, sweepVars
<1>12. CASE BeginSweep
  BY <1>12 DEF BeginSweep, TypeOK, mutatorVars, markVars, Phases
<1>13. CASE SweepObject
  <2>1. PICK o \in unswept :
          /\ unswept' = unswept \ {o}
          /\ IF o \in marked
             THEN /\ marked' = marked \ {o}
                  /\ kept' = kept + 1
                  /\ UNCHANGED <<heap, linked>>
             ELSE /\ linked' = linked \ {o}
                  /\ heap' = [heap EXCEPT ![o] = Blank]
                  /\ UNCHANGED <<marked, kept>>
    BY <1>13 DEF SweepObject
  <2>2. Blank \in Object
    BY DEF Blank, Object
  <2> QED BY <2>1, <2>2, <1>13 DEF SweepObject, TypeOK, mutatorVars
<1>14. CASE EndSweep
  <2>1. NewThreshold(kept) \in Nat
    BY DEF NewThreshold, TypeOK
  <2> QED BY <2>1, <1>14 DEF EndSweep, TypeOK, mutatorVars, markVars, Phases
<1>15. CASE Protect
  <2>1. PICK v \in Held : protect' = Append(protect, v)
    BY <1>15 DEF Protect
  <2>2. protect' \in Seq(Value)
    BY <2>1, HeldAreValues, AppendProperties DEF TypeOK
  <2>3. Grown(pcap, ProtectInit) \in Nat
    BY GrownIsNat DEF TypeOK
  <2> QED BY <2>2, <2>3, <1>15 DEF Protect, TypeOK, mutatorKeeps, markVars, sweepVars
<1>16. CASE ProtectFails
  BY <1>16 DEF ProtectFails, TypeOK, mutatorKeeps, mutatorVars, markVars, sweepVars, Value
<1>17. CASE Unprotect
  <2>1. PICK n \in 1 .. MaxProtect + 1 :
          protect' = SubSeq(protect, 1, IF n > Len(protect) THEN 0 ELSE Len(protect) - n)
    BY <1>17 DEF Unprotect
  <2>2. protect \in Seq(Value) /\ Len(protect) \in Nat
    BY LenProperties DEF TypeOK
  <2>3. protect' \in Seq(Value)
    BY <2>1, <2>2, RangePrefix
  <2> QED BY <2>3, <1>17 DEF Unprotect, TypeOK, mutatorKeeps, markVars, sweepVars
<1>18. CASE Restore
  <2>1. PICK saved \in 0 .. MaxProtect :
          protect' = IF saved < Len(protect) THEN SubSeq(protect, 1, saved) ELSE protect
    BY <1>18 DEF Restore
  <2>2. protect \in Seq(Value) /\ Len(protect) \in Nat
    BY LenProperties DEF TypeOK
  <2>3. protect' \in Seq(Value)
    BY <2>1, <2>2, RangePrefix
  <2> QED BY <2>3, <1>18 DEF Restore, TypeOK, mutatorKeeps, markVars, sweepVars
<1>19. CASE RefreshSlot
  <2>1. PICK i \in DOMAIN protect, v \in Held : protect' = [protect EXCEPT ![i] = v]
    BY <1>19 DEF RefreshSlot
  <2>2. protect' \in Seq(Value)
    BY <2>1, HeldAreValues, RangeExcept DEF TypeOK
  <2> QED BY <2>2, <1>19 DEF RefreshSlot, TypeOK, mutatorKeeps, markVars, sweepVars
<1>20. CASE InstallToplevel
  BY <1>20 DEF InstallToplevel, TypeOK, mutatorKeeps, markVars, sweepVars
<1>21. ASSUME NEW o \in Obj, NEW r \in Seq(Value), SetRefs(o, r)
       PROVE  TypeOK'
  <2>1. [heap[o] EXCEPT !.refs = r] \in Object
    BY RefsAreValues, <1>21 DEF Object
  <2>2. heap' \in [Obj -> Object]
    BY <2>1, <1>21 DEF SetRefs, TypeOK
  <2> QED BY <2>2, <1>21 DEF SetRefs, TypeOK, mutatorVars, markVars, sweepVars
<1>22. CASE LinkCdr
  <2>1. PICK o \in Held \cap Obj, v \in Held :
             SetRefs(o, [heap[o].refs EXCEPT ![2] = v])
    BY <1>22 DEF LinkCdr
  <2>2. [heap[o].refs EXCEPT ![2] = v] \in Seq(Value)
    BY RefsAreValues, HeldAreValues, RangeExcept
  <2> QED BY <2>1, <2>2, <1>21
<1>23. CASE Define
  <2>1. PICK o \in Held \cap Obj, v \in Held : SetRefs(o, heap[o].refs \o <<v, Imm>>)
    BY <1>23 DEF Define
  <2>2. <<v, Imm>> \in Seq(Value)
    BY HeldAreValues DEF Value
  <2>3. heap[o].refs \o <<v, Imm>> \in Seq(Value)
    BY <2>2, RefsAreValues, ConcatProperties
  <2> QED BY <2>1, <2>3, <1>21
<1>24. CASE Rebind
  <2>1. PICK o \in Held \cap Obj, v \in Held :
             \E i \in DOMAIN heap[o].refs : SetRefs(o, [heap[o].refs EXCEPT ![i] = v])
    BY <1>24 DEF Rebind
  <2>2. PICK i \in DOMAIN heap[o].refs : SetRefs(o, [heap[o].refs EXCEPT ![i] = v])
    BY <2>1
  <2>3. [heap[o].refs EXCEPT ![i] = v] \in Seq(Value)
    BY RefsAreValues, HeldAreValues, RangeExcept
  <2> QED BY <2>2, <2>3, <1>21
<1>25. CASE UNCHANGED vars
  BY <1>25 DEF vars, TypeOK
<1> QED
  BY <1>1, <1>2, <1>3, <1>4, <1>5, <1>6, <1>7, <1>8, <1>9, <1>10, <1>11, <1>12,
     <1>13, <1>14, <1>15, <1>16, <1>17, <1>18, <1>19, <1>20, <1>22, <1>23, <1>24,
     <1>25
  DEF Next, Allocation, Mark, Sweep, ProtectStack, Mutation

\* The variables of the collector keep their types in every behaviour.
THEOREM TypeCorrect == Spec => []TypeOK
<1>1. Init => TypeOK
  BY InitTypes
<1>2. TypeOK /\ [Next]_vars => TypeOK'
  BY NextTypes
<1> QED BY <1>1, <1>2, PTL DEF Spec

-----------------------------------------------------------------------------
(***************************************************************************)
(* The inductive invariant.                                                *)
(***************************************************************************)

\* What is reachable is there, and what the interpreter holds is there.
LEMMA ReachableSurvives ==
    ASSUME TypeOK, NoDangling
    PROVE  /\ Reachable \subseteq Survivors
           /\ Held \cap Obj \subseteq Survivors
<1>1. Survivors \in SUBSET Obj
  BY DEF Survivors, TypeOK
<1>2. Roots \subseteq Survivors /\ ClosedUnder(heap, Survivors)
  BY DEF NoDangling, ClosedUnder
<1>3. Reachable \subseteq Survivors
  BY <1>1, <1>2, ReachableIsLeast DEF Reachable
<1>4. Held \cap Obj \subseteq Reachable \cup (Obj \cap {fresh})
  BY ConstantsAssumption DEF Held, Rooted
<1> QED BY <1>3, <1>4 DEF NoDangling

\* The invariant holds initially.
LEMMA InitInv == Init => IInv
<1> SUFFICES ASSUME Init PROVE IInv
  OBVIOUS
<1>1. TypeOK
  BY InitTypes
<1>2. /\ phase = "mutator" /\ request = Blank /\ fresh = Imm /\ toplevel_env = Imm
      /\ protect = <<>> /\ linked = {} /\ unswept = {} /\ marked = {}
      /\ worklist = <<>> /\ pending = <<>>
  BY DEF Init
<1>3. Range(<<>>) = {}
  BY DEF Range
<1>4. Roots = {} /\ Survivors = {} /\ Obj \cap {fresh} = {}
  BY <1>2, <1>3, ConstantsAssumption DEF Roots, Survivors
<1>5. NoDangling
  BY <1>2, <1>3, <1>4 DEF NoDangling, Blank
<1>6. MarksClear /\ RequestHeld /\ Marking /\ Sweeping
  BY <1>2 DEF MarksClear, RequestHeld, Marking, Sweeping
<1> QED BY <1>1, <1>5, <1>6 DEF IInv

\* Between two allocations the invariant only asks that no handle dangles.
LEMMA MutatorStep ==
    ASSUME IInv, TypeOK', phase = "mutator",
           UNCHANGED <<linked, phase, request, markVars, sweepVars>>,
           Roots' \cup (Obj \cap {fresh'}) \subseteq linked,
           \A o \in linked : RefsIn(heap', o) \subseteq linked
    PROVE  IInv'
<1>1. Survivors' = linked' /\ linked' = linked /\ phase' = "mutator" /\ request' = request
  BY DEF Survivors
<1>2. request = Blank /\ Range(request.refs) = {}
  BY DEF IInv, RequestHeld, Blank, Range
<1>3. NoDangling'
  BY <1>1, <1>2 DEF NoDangling
<1>4. MarksClear' /\ RequestHeld' /\ Marking'
  BY <1>1, <1>2 DEF IInv, MarksClear, RequestHeld, Marking, markVars, Blank
<1>5. Sweeping'
  BY <1>1 DEF IInv, Sweeping, sweepVars
<1> QED BY <1>3, <1>4, <1>5 DEF IInv

\* Changing the roots to held handles keeps the invariant.
LEMMA RootsStep ==
    ASSUME IInv, TypeOK', phase = "mutator", UNCHANGED mutatorKeeps,
           Roots' \subseteq Held, fresh' \in {fresh, Imm}
    PROVE  IInv'
<1>1. UNCHANGED <<heap, linked, phase, request, markVars, sweepVars>>
  BY DEF mutatorKeeps
<1>2. Survivors = linked /\ NoDangling /\ TypeOK
  BY DEF IInv, Survivors
<1>3. Roots' \subseteq linked
  BY <1>2, ReachableSurvives DEF Roots
<1>4. Obj \cap {fresh'} \subseteq linked
  BY <1>2, ConstantsAssumption DEF NoDangling
<1>5. \A o \in linked : RefsIn(heap', o) \subseteq linked
  BY <1>1, <1>2 DEF NoDangling
<1> QED BY <1>1, <1>3, <1>4, <1>5, MutatorStep

\* Rewiring a held object to held handles keeps the invariant.
LEMMA StoreStep ==
    ASSUME IInv, TypeOK', phase = "mutator",
           NEW o \in Held \cap Obj, NEW r \in Seq(Value), SetRefs(o, r),
           Range(r) \subseteq Range(heap[o].refs) \cup Held \cup {Imm}
    PROVE  IInv'
<1>1. UNCHANGED <<linked, phase, request, markVars, sweepVars, mutatorVars, fresh>>
  BY DEF SetRefs
<1>2. Survivors = linked /\ NoDangling /\ TypeOK
  BY DEF IInv, Survivors
<1>3. o \in linked /\ Held \cap Obj \subseteq linked
  BY <1>2, ReachableSurvives
<1>4. Roots' = Roots /\ fresh' = fresh
  BY <1>1 DEF Roots, mutatorVars
<1>5. Roots' \cup (Obj \cap {fresh'}) \subseteq linked
  BY <1>2, <1>4 DEF NoDangling
<1>6. ASSUME NEW p \in linked PROVE RefsIn(heap', p) \subseteq linked
  <2>1. p \in Obj /\ o \in Obj
    BY <1>2 DEF TypeOK
  <2>2. RefsIn(heap, p) \subseteq linked /\ RefsIn(heap, o) \subseteq linked
    BY <1>2, <1>3 DEF NoDangling
  <2>3. CASE p = o
    <3>1. heap'[p].refs = r
      BY <2>1, <2>3, <1>2 DEF SetRefs, TypeOK, Object
    <3> QED BY <3>1, <2>2, <1>3, ConstantsAssumption DEF RefsIn
  <2>4. CASE p # o
    <3>1. heap'[p] = heap[p]
      BY <2>1, <2>4, <1>2 DEF SetRefs, TypeOK
    <3> QED BY <3>1, <2>2 DEF RefsIn
  <2> QED BY <2>3, <2>4
<1> QED BY <1>1, <1>5, <1>6, MutatorStep DEF markVars, sweepVars

\* An allocator call whose operands are rooted keeps the invariant, whether it
\* starts a collection or not.
LEMMA RequestStep ==
    ASSUME IInv, TypeOK', NEW k, NEW r \in Seq(Value), Range(r) \subseteq Rooted,
           Request(k, r)
    PROVE  IInv'
<1>1. /\ phase = "mutator" /\ request'.refs = r /\ fresh' = Imm
      /\ UNCHANGED <<heap, linked, toplevel_env, protect, unswept, kept, marked>>
  BY DEF Request, MaybeCollect, mutatorVars, sweepVars, markVars
<1>2. phase' = "alloc" \/ phase' = "mark"
  BY DEF Request, MaybeCollect
<1>3. Roots' = Roots /\ Reachable' = Reachable /\ Rooted' = Rooted
  BY <1>1 DEF Roots, Reachable, Rooted
<1>4. /\ TypeOK /\ NoDangling /\ Survivors = linked /\ Survivors' = linked
      /\ marked = {} /\ worklist = <<>> /\ pending = <<>> /\ unswept = {}
  BY <1>1, <1>2 DEF IInv, MarksClear, Sweeping, Survivors
<1>5. RequestHeld'
  BY <1>1, <1>2, <1>3 DEF RequestHeld
<1>6. NoDangling'
  <2>1. Reachable \subseteq linked
    BY <1>4, ReachableSurvives
  <2>2. Range(r) \cap Obj \subseteq linked
    BY <2>1, ConstantsAssumption DEF Rooted
  <2>3. Obj \cap {fresh'} = {}
    BY <1>1, ConstantsAssumption
  <2> QED BY <1>1, <1>3, <1>4, <2>2, <2>3 DEF NoDangling
<1>7. Sweeping'
  BY <1>1, <1>2, <1>4 DEF Sweeping
<1>8. MarksClear' /\ Marking'
  <2>1. CASE phase' = "alloc"
    <3>1. marked' = {} /\ worklist' = <<>> /\ pending' = <<>>
      BY <2>1, <1>4 DEF Request, MaybeCollect, markVars
    <3> QED BY <2>1, <3>1 DEF MarksClear, Marking
  <2>2. CASE phase' = "mark"
    <3>1. marked' = {} /\ worklist' = <<>> /\ pending' = RootSequence
      BY <2>2, <1>4 DEF Request, MaybeCollect, markVars
    <3>2. Range(RootSequence) = {toplevel_env} \cup Range(protect)
      <4>1. <<toplevel_env>> \in Seq(Value) /\ protect \in Seq(Value)
        BY <1>4 DEF TypeOK
      <4>2. Range(<<toplevel_env>>) = {toplevel_env}
        BY DEF Range
      <4>3. Range(<<toplevel_env>> \o protect) = Range(<<toplevel_env>>) \cup Range(protect)
        BY <4>1, RangeConcatenation, ZenonT(30)
      <4> QED BY <4>2, <4>3 DEF RootSequence
    <3>3. Range(RootSequence) \cap Obj = Roots
      BY <3>2 DEF Roots
    <3>4. Roots \subseteq Reachable
      BY ReachableHasRoots DEF Reachable, Roots
    <3>5. Range(<<>>) = {}
      BY DEF Range
    <3>6. Marking'
      BY <3>1, <3>3, <3>4, <3>5, <1>3 DEF Marking
    <3> QED BY <2>2, <3>6 DEF MarksClear
  <2> QED BY <1>2, <2>1, <2>2
<1> QED BY <1>5, <1>6, <1>7, <1>8 DEF IInv

\* While the collector works on its own data, everything but the marking part of
\* the invariant is kept.
LEMMA MarkStep ==
    ASSUME IInv, TypeOK', phase = "mark",
           UNCHANGED <<heap, linked, toplevel_env, protect, fresh, request, unswept>>,
           phase' = "mark", Marking'
    PROVE  IInv'
<1>1. Roots' = Roots /\ Reachable' = Reachable /\ Rooted' = Rooted
  BY DEF Roots, Reachable, Rooted
<1>2. Survivors' = linked /\ Survivors = linked
  BY DEF Survivors
<1>3. NoDangling'
  BY <1>1, <1>2 DEF IInv, NoDangling
<1>4. RequestHeld' /\ MarksClear' /\ Sweeping'
  BY <1>1 DEF IInv, RequestHeld, MarksClear, Sweeping
<1> QED BY <1>3, <1>4 DEF IInv

\* Visiting a marked object or an immediate.
LEMMA VisitSeenStep == ASSUME IInv, TypeOK', VisitSeen PROVE IInv'
<1>1. /\ phase = "mark" /\ pending # <<>> /\ Head(pending) \notin Obj \ marked
      /\ pending' = Tail(pending) /\ phase' = phase
      /\ UNCHANGED <<heap, linked, toplevel_env, protect, fresh, request, unswept,
                     marked, worklist>>
  BY DEF VisitSeen, mutatorVars, sweepVars
<1>2. Range(pending) = {Head(pending)} \cup Range(pending')
  BY <1>1, RangeHeadTail DEF IInv, TypeOK
<1>3. Reachable' = Reachable /\ Roots' = Roots
  BY <1>1 DEF Reachable, Roots
<1>4. Marking /\ Roots \subseteq Obj /\ \A o : RefsIn(heap, o) \subseteq Obj
  BY DEF IInv, Roots, RefsIn
<1>5. \A S \in SUBSET Obj : S \subseteq marked \cup Range(pending)
                              => S \subseteq marked \cup Range(pending')
  BY <1>1, <1>2
<1>6. Roots \subseteq marked \cup Range(pending')
  BY <1>1, <1>4, <1>5 DEF Marking
<1>7. \A o \in marked \ Range(worklist) :
         RefsIn(heap, o) \subseteq marked \cup Range(pending')
  BY <1>1, <1>4, <1>5 DEF Marking
<1>8. Marking'
  BY <1>1, <1>2, <1>3, <1>4, <1>6, <1>7 DEF Marking
<1> QED BY <1>1, <1>8, MarkStep

\* Marking and pushing an object met for the first time.
LEMMA VisitNewStep == ASSUME IInv, TypeOK', VisitNew PROVE IInv'
<1> DEFINE v == Head(pending)
<1>1. /\ phase = "mark" /\ pending # <<>> /\ v \in Obj \ marked
      /\ pending' = Tail(pending) /\ phase' = phase
      /\ marked' = marked \cup {v} /\ worklist' = Append(worklist, v)
      /\ UNCHANGED <<heap, linked, toplevel_env, protect, fresh, request, unswept>>
  BY DEF VisitNew, mutatorVars, sweepVars
<1>2. Range(pending) = {v} \cup Range(pending')
  BY <1>1, RangeHeadTail DEF IInv, TypeOK
<1>3. Range(worklist') = Range(worklist) \cup {v}
  BY <1>1, RangeAppend DEF IInv, TypeOK
<1>4. Reachable' = Reachable /\ Roots' = Roots
  BY <1>1 DEF Reachable, Roots
<1>5. Marking
  BY DEF IInv
<1>6. marked' \cup Range(pending') = marked \cup Range(pending)
  BY <1>1, <1>2
<1>7. marked' \ Range(worklist') \subseteq marked \ Range(worklist)
  BY <1>1, <1>3
<1>8. \A o \in marked' \ Range(worklist') :
         RefsIn(heap, o) \subseteq marked' \cup Range(pending')
  BY <1>1, <1>5, <1>6, <1>7 DEF Marking
<1>9. /\ Range(worklist') \subseteq marked' /\ marked' \subseteq Reachable
      /\ Range(pending') \cap Obj \subseteq Reachable
      /\ Roots \subseteq marked' \cup Range(pending')
  BY <1>1, <1>2, <1>3, <1>5, <1>6 DEF Marking
<1>10. Marking'
  BY <1>1, <1>4, <1>8, <1>9 DEF Marking
<1> QED BY <1>1, <1>10, MarkStep

\* Taking an object off the worklist; its references become pending.
LEMMA DrainStep == ASSUME IInv, TypeOK', Drain PROVE IInv'
<1> DEFINE o == worklist[Len(worklist)]
<1>1. /\ phase = "mark" /\ pending = <<>> /\ worklist # <<>> /\ phase' = phase
      /\ pending' = heap[o].refs /\ worklist' = SubSeq(worklist, 1, Len(worklist) - 1)
      /\ UNCHANGED <<heap, linked, toplevel_env, protect, fresh, request, unswept, marked>>
  BY DEF Drain, mutatorVars, sweepVars
<1>2. Range(worklist) = {o} \cup Range(worklist')
  BY <1>1, RangeLastFront DEF IInv, TypeOK
<1>3. Range(pending) = {}
  BY <1>1 DEF Range
<1>4. Reachable' = Reachable /\ Roots' = Roots
  BY <1>1 DEF Reachable, Roots
<1>5. Marking
  BY DEF IInv
<1>6. o \in Reachable /\ RefsIn(heap, o) = Range(pending') \cap Obj
  BY <1>1, <1>2, <1>5 DEF Marking, RefsIn
<1>7. RefsIn(heap, o) \subseteq Reachable
  BY <1>6, ReachableIsClosed DEF Reachable, ClosedUnder
<1>8. ASSUME NEW p \in marked \ Range(worklist')
      PROVE  RefsIn(heap, p) \subseteq marked \cup Range(pending')
  <2>1. CASE p = o
    BY <2>1, <1>6
  <2>2. CASE p # o
    <3>1. p \in marked \ Range(worklist)
      BY <2>2, <1>2
    <3> QED BY <3>1, <1>1, <1>3, <1>5 DEF Marking
  <2> QED BY <2>1, <2>2
<1>9. Marking'
  BY <1>1, <1>2, <1>3, <1>4, <1>5, <1>6, <1>7, <1>8 DEF Marking
<1> QED BY <1>1, <1>9, MarkStep

\* When nothing is pending the marked objects are the reachable ones.
LEMMA MarkedIsReachable ==
    ASSUME TypeOK, Marking, phase = "mark", pending = <<>>, worklist = <<>>
    PROVE  marked = Reachable
<1>1. Range(<<>>) = {}
  BY DEF Range
<1>2. marked \in SUBSET Obj /\ Roots \subseteq marked /\ ClosedUnder(heap, marked)
  BY <1>1 DEF TypeOK, Marking, ClosedUnder
<1>3. Reachable \subseteq marked
  BY <1>2, ReachableIsLeast DEF Reachable
<1> QED BY <1>3 DEF Marking

\* The sweep begins with exactly the reachable objects marked.
LEMMA BeginSweepStep == ASSUME IInv, TypeOK', BeginSweep PROVE IInv'
<1>1. /\ phase = "mark" /\ pending = <<>> /\ worklist = <<>> /\ phase' = "sweep"
      /\ unswept' = linked
      /\ UNCHANGED <<heap, linked, toplevel_env, protect, fresh, request, marked,
                     worklist, pending>>
  BY DEF BeginSweep, mutatorVars, markVars
<1>2. Roots' = Roots /\ Reachable' = Reachable /\ Rooted' = Rooted
  BY <1>1 DEF Roots, Reachable, Rooted
<1>3. TypeOK /\ NoDangling /\ Survivors = linked
  BY <1>1 DEF IInv, Survivors
<1>4. marked = Reachable /\ Reachable \subseteq linked
  BY <1>1, <1>3, MarkedIsReachable, ReachableSurvives DEF IInv
<1>5. Survivors' = Reachable
  BY <1>1, <1>4 DEF Survivors
<1>6. Sweeping'
  BY <1>1, <1>2, <1>4, <1>5 DEF Sweeping
<1>7. RequestHeld /\ RequestHeld'
  BY <1>1, <1>2 DEF IInv, RequestHeld
<1>8. NoDangling'
  <2>1. Roots \subseteq Reachable /\ ClosedUnder(heap, Reachable)
    BY ReachableHasRoots, ReachableIsClosed DEF Reachable, Roots
  <2>2. Range(request.refs) \cap Obj \subseteq Reachable /\ Obj \cap {fresh} = {}
    BY <1>1, <1>7, ConstantsAssumption DEF RequestHeld, Rooted
  <2> QED BY <1>1, <1>2, <1>5, <2>1, <2>2 DEF NoDangling, ClosedUnder
<1>9. MarksClear' /\ Marking'
  BY <1>1 DEF MarksClear, Marking
<1> QED BY <1>6, <1>7, <1>8, <1>9 DEF IInv

\* A swept object is not reachable, and sweeping it changes no reachable one.
LEMMA SweepObjectStep == ASSUME IInv, TypeOK', SweepObject PROVE IInv'
<1>1. PICK o \in unswept :
        /\ unswept' = unswept \ {o}
        /\ IF o \in marked
           THEN /\ marked' = marked \ {o}
                /\ kept' = kept + 1
                /\ UNCHANGED <<heap, linked>>
           ELSE /\ linked' = linked \ {o}
                /\ heap' = [heap EXCEPT ![o] = Blank]
                /\ UNCHANGED <<marked, kept>>
  BY DEF SweepObject
<1>2. /\ phase = "sweep" /\ phase' = "sweep"
      /\ UNCHANGED <<toplevel_env, protect, fresh, request, worklist, pending>>
  BY DEF SweepObject, mutatorVars
<1>3. /\ TypeOK /\ NoDangling /\ RequestHeld /\ unswept \subseteq linked
      /\ Survivors = Reachable /\ marked \subseteq unswept
      /\ worklist = <<>> /\ pending = <<>>
  BY <1>2 DEF IInv, Sweeping
<1>4. Survivors' = Survivors
  BY <1>1, <1>2, <1>3 DEF Survivors
<1>5. \A p \in Reachable : heap'[p] = heap[p]
  <2>1. CASE o \in marked
    BY <2>1, <1>1
  <2>2. CASE o \notin marked
    <3>1. o \notin Reachable
      BY <2>2, <1>2, <1>3 DEF Survivors
    <3>2. Reachable \subseteq Obj
      BY <1>3, HeldAreValues
    <3> QED BY <2>2, <3>1, <3>2, <1>1, <1>3 DEF TypeOK
  <2> QED BY <2>1, <2>2
<1>6. Roots' = Roots
  BY <1>2 DEF Roots
<1>7. Reachable' = Reachable /\ Rooted' = Rooted
  <2>1. \A p \in ReachableFrom(heap, Roots) : RefsIn(heap', p) = RefsIn(heap, p)
    BY <1>5 DEF Reachable, RefsIn
  <2>2. ReachableFrom(heap', Roots) = ReachableFrom(heap, Roots)
    BY <2>1, ReachableLocal DEF Roots
  <2> QED BY <2>2, <1>6 DEF Reachable, Rooted
<1>8. NoDangling'
  BY <1>2, <1>3, <1>4, <1>5, <1>6 DEF NoDangling, RefsIn
<1>9. Sweeping'
  BY <1>1, <1>2, <1>3, <1>4, <1>7 DEF Sweeping
<1>10. RequestHeld' /\ MarksClear' /\ Marking'
  BY <1>2, <1>3, <1>7 DEF RequestHeld, MarksClear, Marking
<1> QED BY <1>8, <1>9, <1>10 DEF IInv

\* Steps into the raw allocation: the sweep ends, or the collection is given up.
LEMMA ToAllocStep ==
    ASSUME IInv, TypeOK', phase \in {"mark", "sweep"}, phase' = "alloc",
           phase = "sweep" => unswept = {} /\ marked' = marked,
           phase = "mark" => marked' = {},
           worklist' = <<>>, pending' = <<>>,
           UNCHANGED <<heap, linked, toplevel_env, protect, fresh, request, unswept>>
    PROVE  IInv'
<1>1. Roots' = Roots /\ Reachable' = Reachable /\ Rooted' = Rooted
  BY DEF Roots, Reachable, Rooted
<1>2. marked' = {} /\ unswept = {}
  BY DEF IInv, Sweeping
<1>3. Survivors' = Survivors
  BY <1>2 DEF Survivors
<1>4. NoDangling'
  BY <1>1, <1>3 DEF IInv, NoDangling
<1>5. RequestHeld' /\ MarksClear' /\ Marking' /\ Sweeping'
  BY <1>1, <1>2 DEF IInv, RequestHeld, MarksClear, Marking, Sweeping
<1> QED BY <1>4, <1>5 DEF IInv

\* A new object takes a free block, so that no other object changes.
LEMMA LinkObjectStep == ASSUME IInv, TypeOK', LinkObject PROVE IInv'
<1>1. PICK o \in Obj \ linked : /\ heap' = [heap EXCEPT ![o] = request]
                                /\ linked' = linked \cup {o}
                                /\ fresh' = o
  BY DEF LinkObject
<1>2. /\ phase = "alloc" /\ phase' = "mutator" /\ request' = Blank
      /\ UNCHANGED <<toplevel_env, protect, marked, worklist, pending, unswept>>
  BY DEF LinkObject, mutatorVars, markVars, sweepVars
<1>3. /\ TypeOK /\ NoDangling /\ Survivors = linked /\ Survivors' = linked'
  BY <1>2 DEF IInv, Survivors
<1>4. Roots' = Roots
  BY <1>2 DEF Roots
<1>5. ASSUME NEW p \in linked' PROVE RefsIn(heap', p) \subseteq linked'
  <2>1. CASE p = o
    <3>1. heap'[p] = request
      BY <2>1, <1>1, <1>3 DEF TypeOK
    <3> QED BY <3>1, <1>1, <1>3 DEF RefsIn, NoDangling
  <2>2. CASE p # o
    <3>1. heap'[p] = heap[p] /\ p \in linked
      BY <2>2, <1>1, <1>3 DEF TypeOK
    <3> QED BY <3>1, <1>1, <1>3 DEF RefsIn, NoDangling
  <2> QED BY <2>1, <2>2
<1>6. NoDangling'
  <2>1. Range(request'.refs) = {}
    BY <1>2 DEF Blank, Range
  <2> QED BY <2>1, <1>1, <1>3, <1>4, <1>5 DEF NoDangling
<1>7. RequestHeld' /\ MarksClear' /\ Marking' /\ Sweeping'
  BY <1>1, <1>2 DEF IInv, RequestHeld, MarksClear, Marking, Sweeping
<1> QED BY <1>6, <1>7 DEF IInv

\* A raw allocation that fails changes no object.
LEMMA AllocFailsStep == ASSUME IInv, TypeOK', AllocFails PROVE IInv'
<1>1. /\ phase = "alloc" /\ phase' = "mutator" /\ request' = Blank
      /\ UNCHANGED <<heap, linked, toplevel_env, protect, fresh, marked, worklist,
                     pending, unswept>>
  BY DEF AllocFails, mutatorVars, markVars, sweepVars
<1>2. Roots' = Roots /\ Survivors' = Survivors
  BY <1>1 DEF Roots, Survivors
<1>3. Range(request'.refs) = {}
  BY <1>1 DEF Blank, Range
<1>4. NoDangling'
  BY <1>1, <1>2, <1>3 DEF IInv, NoDangling
<1>5. RequestHeld' /\ MarksClear' /\ Marking' /\ Sweeping'
  BY <1>1 DEF IInv, RequestHeld, MarksClear, Marking, Sweeping
<1> QED BY <1>4, <1>5 DEF IInv

\* Protecting, unprotecting, restoring, refreshing a slot and installing the
\* top-level environment make no root of anything the interpreter does not hold.
LEMMA RootsAreHeld ==
    ASSUME TypeOK, Protect \/ Unprotect \/ Restore \/ RefreshSlot \/ InstallToplevel
    PROVE  /\ phase = "mutator" /\ fresh' = fresh /\ UNCHANGED mutatorKeeps
           /\ Roots' \subseteq Held
<1>1. Roots \subseteq Held
  BY ReachableHasRoots DEF Roots, Reachable, Held, Rooted
<1>2. phase = "mutator" /\ fresh' = fresh /\ UNCHANGED mutatorKeeps
  BY DEF Protect, Unprotect, Restore, RefreshSlot, InstallToplevel
<1>3. protect \in Seq(Value) /\ Len(protect) \in Nat
  BY LenProperties DEF TypeOK
<1>4. CASE Protect
  <2>1. PICK v \in Held : protect' = Append(protect, v)
    BY <1>4 DEF Protect
  <2>2. Range(protect') = Range(protect) \cup {v}
    BY <1>3, <2>1, HeldAreValues, RangeAppend
  <2> QED BY <1>1, <1>2, <1>4, <2>2 DEF Roots, Protect
<1>5. CASE Unprotect
  <2>1. PICK n \in 1 .. MaxProtect + 1 :
          protect' = SubSeq(protect, 1,
                            IF n > Len(protect) THEN 0 ELSE Len(protect) - n)
    BY <1>5 DEF Unprotect
  <2>2. Range(protect') \subseteq Range(protect)
    BY <1>3, <2>1, ConstantsAssumption, RangePrefix
  <2> QED BY <1>1, <1>2, <1>5, <2>2 DEF Roots, Unprotect
<1>6. CASE Restore
  <2>1. PICK saved \in 0 .. MaxProtect :
          protect' = IF saved < Len(protect) THEN SubSeq(protect, 1, saved) ELSE protect
    BY <1>6 DEF Restore
  <2>2. Range(protect') \subseteq Range(protect)
    BY <1>3, <2>1, ConstantsAssumption, RangePrefix
  <2> QED BY <1>1, <1>2, <1>6, <2>2 DEF Roots, Restore
<1>7. CASE RefreshSlot
  <2>1. PICK i \in DOMAIN protect, v \in Held : protect' = [protect EXCEPT ![i] = v]
    BY <1>7 DEF RefreshSlot
  <2>2. Range(protect') \subseteq Range(protect) \cup {v}
    BY <1>3, <2>1, HeldAreValues, RangeExcept
  <2> QED BY <1>1, <1>2, <1>7, <2>2 DEF Roots, RefreshSlot
<1>8. CASE InstallToplevel
  BY <1>1, <1>2, <1>8 DEF Roots, InstallToplevel, Held
<1> QED BY <1>4, <1>5, <1>6, <1>7, <1>8

\* Linking cells and binding names rewire one held object to held handles.
LEMMA StoresAreHeld ==
    ASSUME TypeOK, LinkCdr \/ Define \/ Rebind
    PROVE  /\ phase = "mutator"
           /\ \E o \in Held \cap Obj, r \in Seq(Value) :
                 /\ SetRefs(o, r)
                 /\ Range(r) \subseteq Range(heap[o].refs) \cup Held \cup {Imm}
<1>1. phase = "mutator"
  BY DEF LinkCdr, Define, Rebind
<1>2. CASE LinkCdr
  <2>1. PICK o \in Held \cap Obj, v \in Held :
             SetRefs(o, [heap[o].refs EXCEPT ![2] = v])
    BY <1>2 DEF LinkCdr
  <2>2. heap[o].refs \in Seq(Value) /\ v \in Value
    BY RefsAreValues, HeldAreValues
  <2>3. /\ [heap[o].refs EXCEPT ![2] = v] \in Seq(Value)
        /\ Range([heap[o].refs EXCEPT ![2] = v]) \subseteq Range(heap[o].refs) \cup {v}
    BY <2>2, RangeExcept
  <2> QED BY <1>1, <2>1, <2>3
<1>3. CASE Define
  <2>1. PICK o \in Held \cap Obj, v \in Held : SetRefs(o, heap[o].refs \o <<v, Imm>>)
    BY <1>3 DEF Define
  <2>2. heap[o].refs \in Seq(Value)
    BY RefsAreValues
  <2>3. <<v, Imm>> \in Seq(Value) /\ Range(<<v, Imm>>) \subseteq Held
    BY HeldAreValues DEF Value, Range, Held, Rooted
  <2>4. heap[o].refs \o <<v, Imm>> \in Seq(Value)
    BY <2>2, <2>3, ConcatProperties
  <2>5. Range(heap[o].refs \o <<v, Imm>>) = Range(heap[o].refs) \cup Range(<<v, Imm>>)
    BY <2>2, <2>3, RangeConcatenation, ZenonT(30)
  <2> QED BY <1>1, <2>1, <2>3, <2>4, <2>5
<1>4. CASE Rebind
  <2>1. PICK o \in Held \cap Obj, v \in Held :
             \E i \in DOMAIN heap[o].refs : SetRefs(o, [heap[o].refs EXCEPT ![i] = v])
    BY <1>4 DEF Rebind
  <2>2. PICK i \in DOMAIN heap[o].refs : SetRefs(o, [heap[o].refs EXCEPT ![i] = v])
    BY <2>1
  <2>3. heap[o].refs \in Seq(Value) /\ v \in Value
    BY RefsAreValues, HeldAreValues
  <2>4. /\ [heap[o].refs EXCEPT ![i] = v] \in Seq(Value)
        /\ Range([heap[o].refs EXCEPT ![i] = v]) \subseteq Range(heap[o].refs) \cup {v}
    BY <2>3, RangeExcept
  <2> QED BY <1>1, <2>2, <2>4
<1> QED BY <1>2, <1>3, <1>4

\* Every step keeps the inductive invariant.
LEMMA NextInv == IInv /\ [Next]_vars => IInv'
<1> SUFFICES ASSUME IInv, [Next]_vars PROVE IInv'
  OBVIOUS
<1>0. TypeOK /\ TypeOK'
  BY NextTypes DEF IInv
<1>1. CASE AllocPair
  <2>1. PICK car \in Rooted, cdr \in Rooted : Request("PAIR", <<car, cdr>>)
    BY <1>1 DEF AllocPair
  <2>2. <<car, cdr>> \in Seq(Value) /\ Range(<<car, cdr>>) \subseteq Rooted
    BY <1>0, HeldAreValues DEF Range
  <2> QED BY <1>0, <2>1, <2>2, RequestStep
<1>2. CASE AllocString \/ AllocPrimitive
  <2>1. <<>> \in Seq(Value) /\ Range(<<>>) \subseteq Rooted
    BY DEF Range
  <2> QED BY <1>0, <1>2, <2>1, RequestStep DEF AllocString, AllocPrimitive
<1>3. CASE AllocClosure
  <2>1. PICK env \in RootedEnvs, params \in RootedLists, body \in RootedLists :
             Request("CLOSURE", <<env, params, body>>)
    BY <1>3 DEF AllocClosure
  <2>2. env \in Rooted /\ params \in Rooted /\ body \in Rooted
    BY DEF RootedEnvs, RootedLists
  <2>3. /\ <<env, params, body>> \in Seq(Value)
        /\ Range(<<env, params, body>>) \subseteq Rooted
    BY <1>0, <2>2, HeldAreValues DEF Range
  <2> QED BY <1>0, <2>1, <2>3, RequestStep
<1>4. CASE AllocEnv
  <2>1. PICK parent \in RootedEnvs \cup {Imm} : Request("ENV", <<parent>>)
    BY <1>4 DEF AllocEnv
  <2>2. parent \in Rooted
    BY DEF RootedEnvs, Rooted
  <2>3. <<parent>> \in Seq(Value) /\ Range(<<parent>>) \subseteq Rooted
    BY <1>0, <2>2, HeldAreValues DEF Range
  <2> QED BY <1>0, <2>1, <2>3, RequestStep
<1>5. CASE LinkObject
  BY <1>0, <1>5, LinkObjectStep
<1>6. CASE AllocFails
  BY <1>0, <1>6, AllocFailsStep
<1>7. CASE Mark
  <2>1. CASE VisitAborts
    BY <1>0, <2>1, ToAllocStep DEF VisitAborts, mutatorVars, sweepVars
  <2> QED BY <1>0, <1>7, <2>1, VisitSeenStep, VisitNewStep, DrainStep DEF Mark
<1>8. CASE Sweep
  <2>1. CASE EndSweep
    <3>1. worklist = <<>> /\ pending = <<>>
      BY <2>1 DEF EndSweep, IInv, Sweeping
    <3> QED BY <1>0, <2>1, <3>1, ToAllocStep DEF EndSweep, mutatorVars, markVars
  <2> QED BY <1>0, <1>8, <2>1, BeginSweepStep, SweepObjectStep DEF Sweep
<1>9. CASE Protect \/ Unprotect \/ Restore \/ RefreshSlot \/ InstallToplevel
  BY <1>0, <1>9, RootsAreHeld, RootsStep
<1>10. CASE ProtectFails
  <2>1. Roots \subseteq Held /\ Roots' = Roots
    BY <1>10, ReachableHasRoots
    DEF ProtectFails, mutatorVars, Roots, Reachable, Held, Rooted
  <2> QED BY <1>0, <1>10, <2>1, RootsStep DEF ProtectFails
<1>11. CASE LinkCdr \/ Define \/ Rebind
  BY <1>0, <1>11, StoresAreHeld, StoreStep
<1>12. CASE UNCHANGED vars
  BY <1>12 DEF vars, IInv, TypeOK, NoDangling, MarksClear, RequestHeld, Marking,
               Sweeping, Roots, Survivors, Reachable, Rooted
<1> QED
  BY <1>1, <1>2, <1>3, <1>4, <1>5, <1>6, <1>7, <1>8, <1>9, <1>10, <1>11, <1>12
  DEF Next, Allocation, ProtectStack, Mutation

\* The inductive invariant holds in every behaviour.
LEMMA InvHolds == Spec => []IInv
<1> QED BY InitInv, NextInv, PTL DEF Spec

\* Whatever the program allocates, links and protects, and wherever a collection
\* starts, aborts or sweeps, no handle it can still use names a freed block.
THEOREM NeverDangling == Spec => []NoDangling
<1>1. IInv => NoDangling
  BY DEF IInv
<1> QED BY <1>1, InvHolds, PTL

\* Every collection starts with all marks clear, also after one that aborted.
THEOREM CyclesStartClean == Spec => []MarksClear
<1>1. IInv => MarksClear
  BY DEF IInv
<1> QED BY <1>1, InvHolds, PTL

-----------------------------------------------------------------------------
(***************************************************************************)
(* The collector implements the abstract heap.                             *)
(***************************************************************************)

\* The two notions of reachability agree: the survivors hold the roots and are
\* closed, so that blocks outside them play no part.
LEMMA SameReachable ==
    ASSUME TypeOK, NoDangling
    PROVE  /\ Abstract!Allocated = Survivors
           /\ Abstract!Reachable = Reachable
           /\ Abstract!Held = Reachable \cup ({fresh} \ {Imm})
<1>1. Abstract!Allocated = Survivors
  BY DEF Abstract!Allocated
<1>2. \A S : Abstract!ClosedIn(S) <=> \A o \in S \cap Survivors : RefsIn(heap, o) \subseteq S
  BY DEF Abstract!ClosedIn, Abstract!Allocated
<1>3. ASSUME NEW o \in Abstract!Reachable PROVE o \in Reachable
  <2>1. Reachable \in SUBSET Obj /\ Roots \subseteq Reachable
    BY HeldAreValues, ReachableHasRoots DEF Reachable, Roots
  <2>2. Abstract!ClosedIn(Reachable)
    BY <1>2, ReachableIsClosed DEF Reachable, ClosedUnder
  <2> QED BY <2>1, <2>2 DEF Abstract!Reachable
<1>4. ASSUME NEW o \in Reachable, NEW S \in SUBSET Obj, Roots \subseteq S,
             Abstract!ClosedIn(S)
      PROVE  o \in S
  <2>1. Roots \subseteq S \cap Survivors
    BY <1>4 DEF NoDangling
  <2>2. ClosedUnder(heap, S \cap Survivors)
    BY <1>2, <1>4 DEF NoDangling, ClosedUnder
  <2>3. S \cap Survivors \in SUBSET Obj
    OBVIOUS
  <2>4. Reachable \subseteq S \cap Survivors
    BY <2>1, <2>2, <2>3, ReachableIsLeast DEF Reachable
  <2> QED BY <2>4
<1>5. Abstract!Reachable = Reachable
  <2>1. Reachable \subseteq Obj
    BY HeldAreValues
  <2>2. Reachable \subseteq Abstract!Reachable
    BY <2>1, <1>4 DEF Abstract!Reachable
  <2> QED BY <1>3, <2>2
<1> QED BY <1>1, <1>5 DEF Abstract!Held

\* The initial states are those of the abstract heap.
LEMMA InitRefines == Init => Abstract!Init
<1> SUFFICES ASSUME Init PROVE Abstract!Init
  OBVIOUS
<1>1. Range(<<>>) = {}
  BY DEF Range
<1>2. Survivors = {} /\ Roots = {} /\ fresh = Imm
  BY <1>1, ConstantsAssumption DEF Init, Survivors, Roots
<1> QED BY <1>2 DEF Abstract!Init

\* An allocator call begins by giving up the handle returned before.
LEMMA RequestRefines ==
    ASSUME IInv, NEW k, NEW r, Request(k, r)
    PROVE  Abstract!Drop
<1>1. /\ phase = "mutator" /\ phase' \in {"mark", "alloc"} /\ fresh' = Imm
      /\ UNCHANGED <<heap, linked, toplevel_env, protect, unswept, marked>>
  BY DEF Request, MaybeCollect, mutatorVars, sweepVars, markVars
<1>2. Survivors' = Survivors /\ Roots' = Roots
  BY <1>1 DEF Survivors, Roots
<1> QED BY <1>1, <1>2 DEF Abstract!Drop

\* Linking a new object is the abstract allocation.
LEMMA LinkRefines ==
    ASSUME IInv, LinkObject
    PROVE  Abstract!Alloc
<1>1. PICK o \in Obj \ linked : /\ heap' = [heap EXCEPT ![o] = request]
                                /\ linked' = linked \cup {o}
                                /\ fresh' = o
  BY DEF LinkObject
<1>2. /\ phase = "alloc" /\ phase' = "mutator"
      /\ UNCHANGED <<toplevel_env, protect, unswept, marked>>
  BY DEF LinkObject, mutatorVars, markVars, sweepVars
<1>3. TypeOK /\ NoDangling /\ RequestHeld
  BY DEF IInv
<1>4. /\ Roots' = Roots /\ Survivors = linked /\ Survivors' = linked'
      /\ Abstract!Allocated = linked /\ Abstract!Reachable = Reachable
  BY <1>2, <1>3, SameReachable DEF Roots, Survivors
<1> DEFINE ks == Range(request.refs) \cap Obj
<1>5. ks \in SUBSET Abstract!Reachable
  BY <1>2, <1>3, <1>4, ConstantsAssumption DEF RequestHeld, Rooted
<1>6. RefsIn(heap', o) = ks
  BY <1>1, <1>3 DEF TypeOK, RefsIn
<1>7. \A p \in linked : RefsIn(heap', p) = RefsIn(heap, p) /\ p # o
  BY <1>1, <1>3 DEF TypeOK, RefsIn
<1>8. [p \in Survivors' |-> RefsIn(heap', p)] =
      [p \in linked \cup {o} |-> IF p = o THEN ks
                                 ELSE [q \in Survivors |-> RefsIn(heap, q)][p]]
  BY <1>1, <1>4, <1>6, <1>7
<1> QED BY <1>1, <1>4, <1>5, <1>8 DEF Abstract!Alloc

\* Rewiring a held object is the abstract store.
LEMMA StoreRefines ==
    ASSUME IInv, phase = "mutator",
           NEW o \in Held \cap Obj, NEW r \in Seq(Value), SetRefs(o, r),
           Range(r) \subseteq Range(heap[o].refs) \cup Held \cup {Imm}
    PROVE  Abstract!Store
<1>1. UNCHANGED <<linked, phase, unswept, marked, toplevel_env, protect, fresh>>
  BY DEF SetRefs, mutatorVars, markVars, sweepVars
<1>2. TypeOK /\ NoDangling
  BY DEF IInv
<1>3. /\ Roots' = Roots /\ Survivors' = Survivors
      /\ Abstract!Held = Reachable \cup ({fresh} \ {Imm})
  BY <1>1, <1>2, SameReachable DEF Roots, Survivors
<1>4. o \in Abstract!Held /\ o \in Survivors
  BY <1>2, <1>3, ReachableSurvives, ConstantsAssumption DEF Held, Rooted
<1>5. heap'[o].refs = r /\ \A p \in Obj \ {o} : heap'[p] = heap[p]
  BY <1>2 DEF SetRefs, TypeOK, Object
<1> DEFINE ks == Range(r) \cap Obj
<1>6. ks \in SUBSET Obj /\ RefsIn(heap', o) = ks
  BY <1>5 DEF RefsIn
<1>7. ks \subseteq [p \in Survivors |-> RefsIn(heap, p)][o] \cup Abstract!Held
  BY <1>3, <1>4, ConstantsAssumption DEF RefsIn, Held, Rooted
<1>8. [p \in Survivors' |-> RefsIn(heap', p)] =
      [[p \in Survivors |-> RefsIn(heap, p)] EXCEPT ![o] = ks]
  <2>1. \A p \in Survivors \ {o} : RefsIn(heap', p) = RefsIn(heap, p)
    BY <1>2, <1>5 DEF RefsIn, Survivors, TypeOK
  <2> QED BY <2>1, <1>3, <1>6
<1> QED BY <1>1, <1>3, <1>4, <1>6, <1>7, <1>8 DEF Abstract!Store

\* The sweep begins where the abstract collection takes place.
LEMMA BeginSweepRefines ==
    ASSUME IInv, IInv', BeginSweep
    PROVE  Abstract!Collect
<1>1. /\ phase = "mark" /\ phase' = "sweep"
      /\ UNCHANGED <<heap, toplevel_env, protect, fresh>>
  BY DEF BeginSweep, mutatorVars
<1>2. /\ TypeOK /\ NoDangling /\ fresh = Imm
  BY <1>1 DEF IInv, RequestHeld
<1>3. Roots' = Roots /\ Reachable' = Reachable
  BY <1>1 DEF Roots, Reachable
<1>4. Survivors' = Reachable
  BY <1>1, <1>3 DEF IInv, Sweeping
<1>5. Reachable \subseteq Survivors /\ Abstract!Reachable = Reachable
  BY <1>2, ReachableSurvives, SameReachable
<1>6. [p \in Survivors' |-> RefsIn(heap', p)] =
      [p \in Reachable |-> [q \in Survivors |-> RefsIn(heap, q)][p]]
  BY <1>1, <1>4, <1>5
<1> QED BY <1>1, <1>2, <1>3, <1>5, <1>6 DEF Abstract!Collect

\* Freeing one swept object at a time is not seen.
LEMMA SweepObjectRefines ==
    ASSUME IInv, SweepObject
    PROVE  UNCHANGED Abstract!vars
<1>1. PICK o \in unswept :
        /\ unswept' = unswept \ {o}
        /\ IF o \in marked
           THEN /\ marked' = marked \ {o}
                /\ kept' = kept + 1
                /\ UNCHANGED <<heap, linked>>
           ELSE /\ linked' = linked \ {o}
                /\ heap' = [heap EXCEPT ![o] = Blank]
                /\ UNCHANGED <<marked, kept>>
  BY DEF SweepObject
<1>2. /\ phase = "sweep" /\ phase' = "sweep"
      /\ UNCHANGED <<toplevel_env, protect, fresh>>
  BY DEF SweepObject, mutatorVars
<1>3. TypeOK /\ unswept \subseteq linked /\ marked \subseteq unswept
  BY <1>2 DEF IInv, Sweeping
<1>4. Survivors' = Survivors /\ Roots' = Roots
  BY <1>1, <1>2, <1>3 DEF Survivors, Roots
<1>5. \A p \in Survivors : RefsIn(heap', p) = RefsIn(heap, p)
  <2>1. CASE o \in marked
    BY <2>1, <1>1 DEF RefsIn
  <2>2. CASE o \notin marked
    BY <2>2, <1>1, <1>2, <1>3 DEF TypeOK, Survivors, RefsIn
  <2> QED BY <2>1, <2>2
<1> QED BY <1>2, <1>4, <1>5 DEF Abstract!vars

\* Every step of the collector and of its callers is a step of the abstract heap
\* or is not seen there.
LEMMA NextRefines == IInv /\ IInv' /\ [Next]_vars => [Abstract!Next]_(Abstract!vars)
<1> SUFFICES ASSUME IInv, IInv', [Next]_vars
             PROVE  Abstract!Next \/ UNCHANGED Abstract!vars
  OBVIOUS
<1> USE DEF Abstract!Next
<1>1. CASE AllocPair \/ AllocString \/ AllocPrimitive \/ AllocClosure \/ AllocEnv
  BY <1>1, RequestRefines
  DEF AllocPair, AllocString, AllocPrimitive, AllocClosure, AllocEnv
<1>2. CASE LinkObject
  BY <1>2, LinkRefines
<1>3. CASE AllocFails \/ VisitSeen \/ VisitNew \/ VisitAborts \/ Drain
  <2>1. /\ phase # "sweep" /\ phase' # "sweep"
        /\ UNCHANGED <<heap, linked, toplevel_env, protect, fresh>>
    BY <1>3 DEF AllocFails, VisitSeen, VisitNew, VisitAborts, Drain, mutatorVars
  <2>2. Survivors' = Survivors /\ Roots' = Roots
    BY <2>1 DEF Survivors, Roots
  <2> QED BY <2>1, <2>2 DEF Abstract!vars
<1>4. CASE BeginSweep
  BY <1>4, BeginSweepRefines
<1>5. CASE SweepObject
  BY <1>5, SweepObjectRefines
<1>6. CASE EndSweep
  <2>1. /\ phase = "sweep" /\ phase' = "alloc" /\ unswept = {}
        /\ UNCHANGED <<heap, linked, toplevel_env, protect, fresh, unswept, marked>>
    BY <1>6 DEF EndSweep, mutatorVars, markVars
  <2>2. Survivors' = Survivors /\ Roots' = Roots
    BY <2>1 DEF Survivors, Roots
  <2> QED BY <2>1, <2>2 DEF Abstract!vars
<1>7. TypeOK /\ NoDangling /\ Roots \subseteq Reachable
  BY ReachableHasRoots DEF IInv, Reachable, Roots
<1>8. CASE Protect \/ Unprotect \/ Restore \/ RefreshSlot \/ InstallToplevel
  <2>1. /\ UNCHANGED <<heap, linked, unswept, marked, phase, fresh>>
        /\ Roots' \subseteq Held
    BY <1>7, <1>8, RootsAreHeld DEF mutatorKeeps, markVars, sweepVars
  <2>2. Survivors' = Survivors
    BY <2>1 DEF Survivors
  <2>3. Roots' \in SUBSET Abstract!Held
    BY <1>7, <2>1, SameReachable, ConstantsAssumption DEF Held, Rooted, Roots
  <2> QED BY <2>1, <2>2, <2>3 DEF Abstract!Reroot
<1>9. CASE ProtectFails
  <2>1. /\ UNCHANGED <<heap, linked, unswept, marked, phase, toplevel_env, protect>>
        /\ fresh' = Imm
    BY <1>9 DEF ProtectFails, mutatorKeeps, mutatorVars, markVars, sweepVars
  <2>2. Survivors' = Survivors /\ Roots' = Roots
    BY <2>1 DEF Survivors, Roots
  <2> QED BY <2>1, <2>2 DEF Abstract!Drop
<1>10. CASE LinkCdr \/ Define \/ Rebind
  BY <1>7, <1>10, StoresAreHeld, StoreRefines
<1>11. CASE UNCHANGED vars
  BY <1>11 DEF vars, Abstract!vars, Survivors, Roots
<1> QED
  BY <1>1, <1>2, <1>3, <1>4, <1>5, <1>6, <1>8, <1>9, <1>10, <1>11
  DEF Next, Allocation, Mark, Sweep, ProtectStack, Mutation

\* The collector and its callers implement the abstract heap: to its callers a
\* collection is one step that frees every unreachable object and nothing else,
\* and a collection that is given up frees nothing.
THEOREM CollectsAtomically == Spec => ImplementsAbstractHeap
<1>1. Init => Abstract!Init
  BY InitRefines
<1>2. IInv /\ IInv' /\ [Next]_vars => [Abstract!Next]_(Abstract!vars)
  BY NextRefines
<1> QED BY <1>1, <1>2, InvHolds, PTL DEF Spec, ImplementsAbstractHeap, Abstract!Spec

-----------------------------------------------------------------------------
(***************************************************************************)
(* Counting.                                                               *)
(***************************************************************************)

\* What the sweep has counted so far, beside the count the collector keeps.
CountInv == /\ LiveCountExact
            /\ phase = "sweep" => kept = Cardinality(linked \ unswept)

\* A set of objects is finite and its size a number.
LEMMA ObjectsAreFinite ==
    ASSUME NEW S \in SUBSET Obj
    PROVE  IsFiniteSet(S) /\ Cardinality(S) \in Nat
BY FiniteObjAssumption, FS_Subset, FS_CardinalityType

\* Every step keeps the counts right.
LEMMA NextCounts == IInv /\ CountInv /\ [Next]_vars => CountInv'
<1> SUFFICES ASSUME IInv, CountInv, [Next]_vars PROVE CountInv'
  OBVIOUS
<1>0. TypeOK /\ Sweeping
  BY DEF IInv
<1>1. CASE LinkObject
  <2>1. PICK o \in Obj \ linked : linked' = linked \cup {o}
    BY <1>1 DEF LinkObject
  <2>2. phase = "alloc" /\ phase' = "mutator" /\ live' = live + 1
    BY <1>1 DEF LinkObject
  <2>3. IsFiniteSet(linked)
    BY <1>0, ObjectsAreFinite DEF TypeOK
  <2>4. Cardinality(linked') = Cardinality(linked) + 1
    BY <2>1, <2>3, FS_AddElement
  <2> QED BY <2>2, <2>4 DEF CountInv, LiveCountExact
<1>2. CASE BeginSweep
  <2>1. phase' = "sweep" /\ kept' = 0 /\ linked' \ unswept' = {}
    BY <1>2 DEF BeginSweep
  <2> QED BY <2>1, FS_EmptySet DEF CountInv, LiveCountExact
<1>3. CASE SweepObject
  <2>1. PICK o \in unswept :
          /\ unswept' = unswept \ {o}
          /\ IF o \in marked
             THEN /\ marked' = marked \ {o}
                  /\ kept' = kept + 1
                  /\ UNCHANGED <<heap, linked>>
             ELSE /\ linked' = linked \ {o}
                  /\ heap' = [heap EXCEPT ![o] = Blank]
                  /\ UNCHANGED <<marked, kept>>
    BY <1>3 DEF SweepObject
  <2>2. phase = "sweep" /\ phase' = "sweep" /\ o \in linked
    BY <1>0, <1>3 DEF SweepObject, Sweeping
  <2> DEFINE swept == linked \ unswept
  <2>3. IsFiniteSet(swept) /\ o \notin swept
    BY <1>0, ObjectsAreFinite DEF TypeOK
  <2>4. CASE o \in marked
    <3>1. linked' \ unswept' = swept \cup {o} /\ kept' = kept + 1
      BY <2>1, <2>2, <2>4
    <3>2. Cardinality(swept \cup {o}) = Cardinality(swept) + 1
      BY <2>3, FS_AddElement
    <3> QED BY <2>2, <3>1, <3>2 DEF CountInv, LiveCountExact
  <2>5. CASE o \notin marked
    <3>1. linked' \ unswept' = swept /\ kept' = kept
      BY <2>1, <2>2, <2>5
    <3> QED BY <2>2, <3>1 DEF CountInv, LiveCountExact
  <2> QED BY <2>4, <2>5
<1>4. CASE EndSweep
  <2>1. phase = "sweep" /\ phase' = "alloc" /\ live' = kept /\ linked' = linked \ unswept
    BY <1>4 DEF EndSweep
  <2> QED BY <2>1 DEF CountInv, LiveCountExact
<1>5. CASE ~(LinkObject \/ Sweep)
  <2>1. \/ UNCHANGED <<live, linked>> /\ phase # "sweep" /\ phase' # "sweep"
        \/ UNCHANGED <<live, linked, phase, kept, unswept>>
    <3>1. CASE Next
      BY <1>5, <3>1
      DEF Next, Allocation, Mark, ProtectStack, Mutation, AllocPair, AllocString,
          AllocPrimitive, AllocClosure, AllocEnv, Request, MaybeCollect, AllocFails,
          VisitSeen, VisitNew, VisitAborts, Drain, Protect, ProtectFails, Unprotect,
          Restore, RefreshSlot, InstallToplevel, LinkCdr, Define, Rebind, SetRefs,
          mutatorKeeps, sweepVars
    <3>2. CASE UNCHANGED vars
      BY <3>2 DEF vars
    <3> QED BY <3>1, <3>2
  <2> QED BY <2>1 DEF CountInv, LiveCountExact
<1> QED BY <1>1, <1>2, <1>3, <1>4, <1>5 DEF Sweep

\* s->gc_live_objects, on which every decision to collect rests, is the number of
\* objects on the list whenever an allocator reads it.
THEOREM LiveCountIsExact == Spec => []LiveCountExact
<1>1. Init => CountInv
  BY FS_EmptySet DEF Init, CountInv, LiveCountExact
<1>2. CountInv => LiveCountExact
  BY DEF CountInv
<1> QED BY <1>1, <1>2, NextCounts, InvHolds, PTL DEF Spec

\* No object is on the worklist twice.
WorklistDistinct == \A i, j \in DOMAIN worklist : worklist[i] = worklist[j] => i = j

\* Every step keeps the entries of the worklist distinct: an object is pushed only
\* when it is marked for the first time.
LEMMA NextDistinct == IInv /\ IInv' /\ WorklistDistinct /\ [Next]_vars => WorklistDistinct'
<1> SUFFICES ASSUME IInv, IInv', WorklistDistinct, [Next]_vars PROVE WorklistDistinct'
  OBVIOUS
<1>0. TypeOK /\ worklist \in Seq(Obj) /\ Len(worklist) \in Nat
  BY LenProperties DEF IInv, TypeOK
<1>1. CASE VisitNew
  <2>1. /\ phase = "mark" /\ Head(pending) \in Obj \ marked
        /\ worklist' = Append(worklist, Head(pending))
    BY <1>1 DEF VisitNew
  <2>2. Head(pending) \notin Range(worklist)
    BY <2>1 DEF IInv, Marking
  <2>3. \A i \in 1 .. Len(worklist) : worklist[i] # Head(pending)
    BY <1>0, <2>2, RangeIs
  <2>4. /\ worklist' \in Seq(Obj)
        /\ Len(worklist') = Len(worklist) + 1
        /\ \A i \in 1 .. Len(worklist) : worklist'[i] = worklist[i]
        /\ worklist'[Len(worklist) + 1] = Head(pending)
    BY <1>0, <2>1, AppendProperties
  <2>5. DOMAIN worklist' = 1 .. Len(worklist) + 1 /\ DOMAIN worklist = 1 .. Len(worklist)
    BY <1>0, <2>4, LenProperties
  <2> QED BY <1>0, <2>3, <2>4, <2>5 DEF WorklistDistinct
<1>2. CASE Drain
  <2>1. worklist # <<>> /\ worklist' = SubSeq(worklist, 1, Len(worklist) - 1)
    BY <1>2 DEF Drain
  <2>2. Len(worklist) \in Nat \ {0} /\ DOMAIN worklist = 1 .. Len(worklist)
    BY <1>0, <2>1, EmptySeq, LenProperties
  <2>3. /\ worklist' \in Seq(Obj) /\ Len(worklist') = Len(worklist) - 1
        /\ \A i \in 1 .. Len(worklist) - 1 : worklist'[i] = worklist[i]
    BY <1>0, <2>1, RangeLastFront
  <2>4. DOMAIN worklist' = 1 .. Len(worklist) - 1
    BY <2>3, LenProperties
  <2>5. 1 .. Len(worklist) - 1 \subseteq 1 .. Len(worklist)
    BY <2>2
  <2> QED BY <2>2, <2>3, <2>4, <2>5 DEF WorklistDistinct
<1>3. CASE ~(VisitNew \/ Drain)
  <2>1. worklist' = worklist \/ worklist' = <<>>
    BY <1>3
    DEF Next, Allocation, Mark, Sweep, ProtectStack, Mutation, AllocPair, AllocString,
        AllocPrimitive, AllocClosure, AllocEnv, Request, MaybeCollect, LinkObject,
        AllocFails, VisitSeen, VisitAborts, BeginSweep, SweepObject, EndSweep, Protect,
        ProtectFails, Unprotect, Restore, RefreshSlot, InstallToplevel, LinkCdr, Define,
        Rebind, SetRefs, mutatorKeeps, markVars, vars
  <2> QED BY <2>1 DEF WorklistDistinct
<1> QED BY <1>1, <1>2, <1>3

\* Distinct entries that are allocated objects are at most as many as those.
LEMMA DistinctIsBounded == IInv /\ WorklistDistinct => WorklistBounded
<1> SUFFICES ASSUME IInv, WorklistDistinct PROVE Len(worklist) <= Cardinality(linked)
  BY DEF WorklistBounded, WorklistDistinct
<1>0. /\ TypeOK /\ NoDangling /\ worklist \in Seq(Obj) /\ Len(worklist) \in Nat
      /\ DOMAIN worklist = 1 .. Len(worklist)
  BY LenProperties DEF IInv, TypeOK
<1>1. IsFiniteSet(linked) /\ Cardinality(linked) \in Nat
  BY <1>0, ObjectsAreFinite DEF TypeOK
<1>2. CASE phase # "mark"
  <2>1. worklist = <<>>
    BY <1>2 DEF IInv, TypeOK, Phases, MarksClear, Sweeping
  <2> QED BY <1>1, <2>1
<1>3. CASE phase = "mark"
  <2>1. Range(worklist) \subseteq linked
    BY <1>0, <1>3, ReachableSurvives DEF IInv, Marking, Survivors
  <2>2. worklist \in Injection(1 .. Len(worklist), linked)
    <3>1. \A i \in 1 .. Len(worklist) : worklist[i] \in linked
      BY <1>0, <2>1, RangeIs
    <3>2. worklist \in [1 .. Len(worklist) -> linked]
      BY <1>0, <3>1, LenProperties
    <3> QED BY <1>0, <3>2 DEF WorklistDistinct, Injection, IsInjective
  <2>3. Cardinality(1 .. Len(worklist)) <= Cardinality(linked)
    BY <1>1, <2>2, FS_Injection
  <2>4. Cardinality(1 .. Len(worklist)) = Len(worklist)
    BY <1>0, FS_Interval
  <2> QED BY <2>3, <2>4
<1> QED BY <1>2, <1>3

\* The worklist of a collection never holds more entries than there are objects,
\* whatever cycles and sharing the heap has.
THEOREM WorklistIsBounded == Spec => []WorklistBounded
<1>1. Init => WorklistDistinct
  BY DEF Init, WorklistDistinct
<1> QED BY <1>1, NextDistinct, DistinctIsBounded, InvHolds, PTL DEF Spec
=============================================================================
