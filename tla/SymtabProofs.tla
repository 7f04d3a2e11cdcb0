---------------------------- MODULE SymtabProofs ----------------------------
(***************************************************************************)
(* Proofs about the symbol table, for every set of names, first capacity   *)
(* and ceiling.  Unique and Stable need each other: an old entry is found  *)
(* again because it has not moved, and it is the right one because no      *)
(* other entry has its name.                                               *)
(***************************************************************************)
EXTENDS Symtab, TLAPS

\* Indices stay below the ceiling of the tag layout.
UnderCeiling == count <= Ceiling + 1

\* A call that has grown the array has room for its name, and the name is new.
GrownHasRoom == grown # NoCall => count < capacity /\ ~Known(grown)

IInv == TypeOK /\ Unique /\ Stable /\ UnderCeiling /\ GrownHasRoom

\* The empty table.
LEMMA InitInv == Init => IInv
BY SymtabAssumption
   DEF Init, IInv, TypeOK, Unique, Stable, UnderCeiling, GrownHasRoom, Indices

\* Growth makes room and keeps every entry below count.
LEMMA LargerKeeps ==
    ASSUME TypeOK, Full
    PROVE  /\ NewCapacity \in Nat
           /\ count < NewCapacity
           /\ Larger \in [0 .. NewCapacity - 1 -> Name \cup {Garbage}]
           /\ \A i \in Indices : Larger[i] = entries[i]
<1>1. NewCapacity \in Nat /\ count \in Nat /\ count < NewCapacity
  BY SymtabAssumption DEF TypeOK, NewCapacity, Full
<1>2. \A i \in 0 .. NewCapacity - 1 : i < count => entries[i] \in Name \cup {Garbage}
  BY DEF TypeOK, Full, Indices
<1>3. Larger \in [0 .. NewCapacity - 1 -> Name \cup {Garbage}]
  BY <1>2 DEF Larger
<1>4. \A i \in Indices : i \in 0 .. NewCapacity - 1 /\ i < count
  BY <1>1 DEF Indices
<1> QED BY <1>1, <1>3, <1>4 DEF Larger

\* A call that may append has room, and no entry has its name.
LEMMA RoomyIs ==
    ASSUME IInv, NEW name \in Name, Roomy(name)
    PROVE  count < capacity /\ \A i \in Indices : entries[i] # name
<1>1. CASE grown = name
  BY <1>1, SymtabAssumption DEF IInv, GrownHasRoom, Known
<1>2. CASE ~Known(name) /\ ~Full
  BY <1>2 DEF IInv, TypeOK, Known, Full
<1> QED BY <1>1, <1>2 DEF Roomy

\* Every step of an ml_sym_intern call keeps the invariant.
LEMMA NextInv == IInv /\ [Next]_vars => IInv'
<1> SUFFICES ASSUME IInv, [Next]_vars PROVE IInv'
  OBVIOUS
<1> USE SymtabAssumption DEF IInv
<1>1. CASE UNCHANGED vars
  BY <1>1 DEF vars, TypeOK, Unique, Stable, UnderCeiling, GrownHasRoom, Known, Indices
<1>2. ASSUME NEW name \in Name, Found(name) PROVE IInv'
  <2>1. PICK i \in Indices : /\ entries[i] = name
                             /\ reply' = i
                             /\ issued' = issued \cup {<<name, i>>}
    BY <1>2 DEF Found
  <2>2. UNCHANGED <<entries, count, capacity, blocks, grown>>
    BY <1>2 DEF Found
  <2>3. i \in Nat
    BY DEF Indices, TypeOK
  <2>4. TypeOK'
    BY <2>1, <2>2, <2>3 DEF TypeOK, Indices
  <2>5. Stable'
    BY <2>1, <2>2 DEF Stable, Indices
  <2> QED BY <2>2, <2>4, <2>5 DEF Unique, UnderCeiling, GrownHasRoom, Known, Indices
<1>3. ASSUME NEW name \in Name, Appended(name) PROVE IInv'
  <2>1. /\ entries' = [entries EXCEPT ![count] = name]
        /\ capacity' = capacity
        /\ count' = count + 1
        /\ blocks' = blocks + 1
        /\ grown' = NoCall
        /\ reply' = count
        /\ issued' = issued \cup {<<name, count>>}
        /\ count <= Ceiling
    BY <1>3 DEF Appended
  <2>2. count < capacity /\ \A i \in Indices : entries[i] # name
    BY <1>3, RoomyIs DEF Appended
  <2>3. count \in Nat /\ count' \in Nat /\ count \in 0 .. capacity - 1
    BY <2>1, <2>2 DEF TypeOK
  <2>4. entries' \in [0 .. capacity - 1 -> Name \cup {Garbage}]
    BY <2>1, <2>3 DEF TypeOK
  <2>5. \A i \in Indices : entries'[i] = entries[i]
    BY <2>1, <2>2, <2>3 DEF Indices, TypeOK
  <2>6. entries'[count] = name
    BY <2>1, <2>3 DEF TypeOK
  <2>7. Indices' = Indices \cup {count} /\ count \notin Indices
    BY <2>1, <2>3 DEF Indices
  <2>8. TypeOK'
    <3>1. \A i \in Indices' : entries'[i] \in Name
      BY <2>5, <2>6, <2>7 DEF TypeOK
    <3>2. blocks' \in Nat
      BY <2>1 DEF TypeOK
    <3>3. issued' \subseteq Name \X Nat
      BY <2>1, <2>3 DEF TypeOK
    <3>4. count' <= capacity' /\ capacity' \in Nat
      BY <2>1, <2>2, <2>3 DEF TypeOK
    <3> QED BY <2>1, <2>3, <2>4, <3>1, <3>2, <3>3, <3>4 DEF TypeOK
  <2>9. Unique'
    BY <2>2, <2>5, <2>6, <2>7 DEF Unique
  <2>10. Stable'
    BY <2>1, <2>5, <2>6, <2>7 DEF Stable
  <2>11. UnderCeiling' /\ GrownHasRoom'
    BY <2>1, <2>3 DEF UnderCeiling, GrownHasRoom
  <2> QED BY <2>8, <2>9, <2>10, <2>11
<1>4. ASSUME NEW name \in Name, Grow(name) PROVE IInv'
  <2>1. /\ entries' = Larger /\ capacity' = NewCapacity /\ grown' = name
        /\ UNCHANGED <<count, reply, issued>>
        /\ blocks' \in {blocks, blocks + 1}
        /\ \A i \in Indices : entries[i] # name
    BY <1>4 DEF Grow, Known
  <2>2. /\ NewCapacity \in Nat
        /\ count < NewCapacity
        /\ Larger \in [0 .. NewCapacity - 1 -> Name \cup {Garbage}]
        /\ \A i \in Indices : Larger[i] = entries[i]
    BY <1>4, LargerKeeps DEF Grow
  <2>3. Indices' = Indices
    BY <2>1 DEF Indices
  <2>4. TypeOK'
    BY <2>1, <2>2, <2>3 DEF TypeOK
  <2>5. GrownHasRoom'
    BY <2>1, <2>2, <2>3 DEF GrownHasRoom, Known
  <2> QED BY <2>1, <2>2, <2>3, <2>4, <2>5 DEF Unique, Stable, UnderCeiling
<1>5. ASSUME NEW name \in Name, GrowFails(name) \/ CopyFails(name) PROVE IInv'
  <2>1. /\ UNCHANGED <<entries, count, capacity, blocks, issued>>
        /\ reply' = NoSymbol
        /\ grown' = NoCall
    BY <1>5 DEF GrowFails, CopyFails
  <2> QED
    BY <2>1 DEF TypeOK, Unique, Stable, UnderCeiling, GrownHasRoom, Indices
<1> QED BY <1>1, <1>2, <1>3, <1>4, <1>5 DEF Next, Intern

\* The invariant holds for ever.
THEOREM Invariance == Spec => []IInv
<1>1. Init => IInv
  BY InitInv
<1>2. IInv /\ [Next]_vars => IInv'
  BY NextInv
<1> QED BY <1>1, <1>2, PTL DEF Spec

\* The array keeps its size and its entries their type (symtab.c:48-65).
THEOREM SymtabTypeCorrect == Spec => []TypeOK
<1>1. IInv => TypeOK
  BY DEF IInv
<1> QED BY <1>1, Invariance, PTL

\* No name ever has two symbols (symtab.c:39-45).
THEOREM NamesAreUnique == Spec => []Unique
<1>1. IInv => Unique
  BY DEF IInv
<1> QED BY <1>1, Invariance, PTL

\* A symbol keeps its name for the life of the state (symtab.c:95-107).
THEOREM SymbolsAreStable == Spec => []Stable
<1>1. IInv => Stable
  BY DEF IInv
<1> QED BY <1>1, Invariance, PTL

\* No way out of ml_sym_intern leaks a block or frees one twice.
THEOREM NoBlockIsLeaked == Spec => []BlocksExact
<1>1. Init => BlocksExact
  BY DEF Init, BlocksExact
<1>2. IInv /\ BlocksExact /\ [Next]_vars => BlocksExact'
  BY SymtabAssumption
     DEF IInv, TypeOK, GrownHasRoom, BlocksExact, Next, Intern, Found, Appended, GrowFails,
         CopyFails, Grow, Roomy, Full, NewCapacity, vars
<1> QED BY <1>1, <1>2, Invariance, PTL DEF Spec

-----------------------------------------------------------------------------
\* A symbol the table gives agrees with every one it gave before.
LEMMA StepRefines == IInv /\ [Next]_vars => [Abstract!Next]_<<issued, reply>>
<1> SUFFICES ASSUME IInv, [Next]_vars PROVE [Abstract!Next]_<<issued, reply>>
  OBVIOUS
<1> USE SymtabAssumption DEF IInv
<1>1. CASE UNCHANGED vars
  BY <1>1 DEF vars
<1>2. ASSUME NEW name \in Name, Found(name) PROVE Abstract!Next
  <2>1. PICK i \in Indices : /\ entries[i] = name
                             /\ reply' = i
                             /\ issued' = issued \cup {<<name, i>>}
    BY <1>2 DEF Found
  <2>2. i \in 0 .. Ceiling
    BY DEF Indices, UnderCeiling, TypeOK
  <2>3. \A p \in issued : p[1] = name <=> p[2] = i
    BY <2>1 DEF Stable, Unique
  <2>4. Abstract!Intern(name, i)
    BY <2>1, <2>3 DEF Abstract!Intern, Abstract!Agree
  <2> QED BY <2>2, <2>4 DEF Abstract!Next
<1>3. ASSUME NEW name \in Name, Appended(name) PROVE Abstract!Next
  <2>1. /\ reply' = count
        /\ issued' = issued \cup {<<name, count>>}
        /\ count \in 0 .. Ceiling
        /\ \A i \in Indices : entries[i] # name
        /\ count \notin Indices
    BY <1>3, RoomyIs DEF Appended, TypeOK, Indices
  <2>2. \A p \in issued : p[1] = name <=> p[2] = count
    BY <2>1 DEF Stable
  <2>3. Abstract!Intern(name, count)
    BY <2>1, <2>2 DEF Abstract!Intern, Abstract!Agree
  <2> QED BY <2>1, <2>3 DEF Abstract!Next
<1>4. ASSUME NEW name \in Name, GrowFails(name) \/ CopyFails(name) PROVE Abstract!Next
  BY <1>4 DEF GrowFails, CopyFails, Abstract!Next, Abstract!Fail
<1>5. ASSUME NEW name \in Name, Grow(name) PROVE UNCHANGED <<issued, reply>>
  BY <1>5 DEF Grow
<1> QED BY <1>1, <1>2, <1>3, <1>4, <1>5 DEF Next, Intern

\* The growing array implements an interning function that never takes a symbol
\* back: symbols are the same name exactly when they are equal.
THEOREM TableInterns == Spec => ImplementsInterner
<1>1. Init => Abstract!Init
  BY DEF Init, Abstract!Init
<1>2. IInv /\ [Next]_vars => [Abstract!Next]_<<issued, reply>>
  BY StepRefines
<1> QED BY <1>1, <1>2, Invariance, PTL DEF Spec, ImplementsInterner, Abstract!Spec, Abstract!vars
=============================================================================
