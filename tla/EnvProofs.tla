------------------------------ MODULE EnvProofs ------------------------------
(***************************************************************************)
(* Theorems about Env, for any names, values, first capacity and number of *)
(* frames, and with any growth failing.                                    *)
(*                                                                         *)
(*   EnvTypeCorrect    the type invariant;                                 *)
(*   NamesAreDistinct  a frame binds a name once;                          *)
(*   ArraysAreOwned    the arrays in use are those of the frames;          *)
(*   FramesAreScopes   the frames implement nested scopes.                 *)
(*                                                                         *)
(* The search of a frame finds the one entry of a name because names are   *)
(* distinct, and they stay so because define searches before it appends.   *)
(* The search outwards ends because a frame is younger than the one that   *)
(* encloses it.                                                            *)
(***************************************************************************)
EXTENDS Env, Lemmas

Names == Seq(Name \cup {NoValue})
Values == Seq(Value \cup {NoValue})
FrameRecord == [parent : Nat, count : Nat, names : Names, values : Values]

\* A frame as it is between two calls: r is the f-th.
GoodFrame(f, r) ==
    /\ r \in FrameRecord
    /\ r.parent \in 0 .. f - 1
    /\ r.count <= Len(r.names)
    /\ Len(r.values) = Len(r.names)
    /\ \A i \in 1 .. r.count : r.names[i] \in Name /\ r.values[i] \in Value
    /\ \A i, j \in 1 .. r.count : r.names[i] = r.names[j] => i = j

\* A growth in progress is that of a full frame, for a name it does not bind.
GoodGrowth ==
    Idle \/ \E f \in Frames, name \in Name, value \in Value :
                grows = {<<f, name, value>>} /\ Full(f) /\ Slot(f, name) = 0

GoodReply == reply \in [status : {"OK", "UNBOUND", "NOMEM"}, value : Value \cup {NoValue}]

IInv ==
    /\ frames \in Seq(FrameRecord)
    /\ \A f \in Frames : GoodFrame(f, frames[f])
    /\ ArraysExact
    /\ GoodGrowth
    /\ GoodReply

-----------------------------------------------------------------------------
(***************************************************************************)
(* The search of a frame.                                                  *)
(***************************************************************************)

\* The first of n places where the name is, or 0.
FirstAt(names, n, name) ==
    LET at == {i \in 1 .. n : names[i] = name}
    IN  IF at = {} THEN 0 ELSE Min(at)

\* The search finds the name exactly where it is there.
LEMMA FirstAtIs ==
    ASSUME NEW names, NEW n \in Nat, NEW name
    PROVE  /\ FirstAt(names, n, name) \in 0 .. n
           /\ FirstAt(names, n, name) = 0 => \A i \in 1 .. n : names[i] # name
           /\ FirstAt(names, n, name) # 0 => names[FirstAt(names, n, name)] = name
<1> DEFINE at == {i \in 1 .. n : names[i] = name}
<1>1. CASE at = {}
  BY <1>1 DEF FirstAt
<1>2. CASE at # {}
  <2>1. at \in SUBSET Nat
    OBVIOUS
  <2>2. PICK i \in at : \A j \in at : i <= j
    BY <1>2, <2>1, LeastNatural
  <2>3. Min(at) \in at
    BY <2>2 DEF Min
  <2>4. FirstAt(names, n, name) = Min(at)
    BY <1>2 DEF FirstAt
  <2> QED BY <2>3, <2>4
<1> QED
  BY <1>1, <1>2

\* The search of the model is that search.
LEMMA SlotIs ==
    /\ \A f, name : Slot(f, name) = FirstAt(frames[f].names, frames[f].count, name)
    /\ \A f, name : Slot(f, name)' = FirstAt(frames'[f].names, frames'[f].count, name)
BY DEF Slot, Bound, FirstAt

-----------------------------------------------------------------------------
(***************************************************************************)
(* Changes of a frame.                                                     *)
(***************************************************************************)

\* The value at a place of a frame is replaced.
Put(r, i, value) == [r EXCEPT !.values[i] = value]

\* A frame with a value replaced is a frame.
LEMMA PutIsGood ==
    ASSUME NEW f \in Nat, NEW r, GoodFrame(f, r), NEW i \in 1 .. r.count, NEW value \in Value
    PROVE  LET q == Put(r, i, value) IN
           /\ GoodFrame(f, q)
           /\ q.parent = r.parent /\ q.count = r.count /\ q.names = r.names
           /\ \A j \in 1 .. r.count : q.values[j] = IF j = i THEN value ELSE r.values[j]
<1> DEFINE q == Put(r, i, value)
<1>1. /\ r \in FrameRecord /\ r.names \in Names /\ r.values \in Values
      /\ r.count \in Nat /\ r.parent \in Nat
  BY DEF GoodFrame, FrameRecord
<1>2. Len(r.values) \in Nat /\ r.count <= Len(r.values) /\ i \in 1 .. Len(r.values)
  <2>1. Len(r.values) \in Nat
    BY <1>1, LenProperties DEF Values
  <2>2. r.count <= Len(r.values)
    BY DEF GoodFrame
  <2> QED BY <1>1, <2>1, <2>2
<1>3. /\ q.parent = r.parent /\ q.count = r.count /\ q.names = r.names
      /\ q.values = [r.values EXCEPT ![i] = value]
      /\ (q.values \in Values => q \in FrameRecord)
  BY <1>1 DEF Put, FrameRecord
<1>4. /\ q.values \in Values /\ Len(q.values) = Len(r.values)
      /\ \A j \in 1 .. Len(r.values) : q.values[j] = IF j = i THEN value ELSE r.values[j]
  BY <1>1, <1>2, <1>3, ExceptSeq DEF Values
<1> HIDE DEF q
<1>5. \A j \in 1 .. r.count : j \in 1 .. Len(r.values)
  BY <1>1, <1>2
<1>6. \A j \in 1 .. r.count : q.values[j] = IF j = i THEN value ELSE r.values[j]
  BY <1>4, <1>5
<1>7. GoodFrame(f, q)
  BY <1>3, <1>4, <1>6 DEF GoodFrame
<1> QED
  BY <1>3, <1>6, <1>7 DEF q

\* A binding is written to the first place that is not in use, of a frame that
\* has room for it and does not bind the name.
LEMMA ExtendIsGood ==
    ASSUME NEW f \in Nat, NEW r, GoodFrame(f, r), r.count < Len(r.names),
           NEW name \in Name, NEW value \in Value, \A i \in 1 .. r.count : r.names[i] # name
    PROVE  LET q == Extend(r, name, value) IN
           /\ GoodFrame(f, q)
           /\ q.parent = r.parent /\ q.count = r.count + 1 /\ Len(q.names) = Len(r.names)
           /\ q.names[q.count] = name /\ q.values[q.count] = value
           /\ \A i \in 1 .. r.count : q.names[i] = r.names[i] /\ q.values[i] = r.values[i]
<1> DEFINE q == Extend(r, name, value)
           n == r.count + 1
<1>1. /\ r \in FrameRecord /\ r.names \in Names /\ r.values \in Values
      /\ r.count \in Nat /\ r.parent \in Nat
  BY DEF GoodFrame, FrameRecord
<1>2. /\ Len(r.names) \in Nat /\ Len(r.values) = Len(r.names)
  BY <1>1, LenProperties DEF Names, GoodFrame
<1>3. n \in 1 .. Len(r.names) /\ \A i \in 1 .. r.count : i \in 1 .. Len(r.names) /\ i # n
  BY <1>1, <1>2
<1>4. /\ q.parent = r.parent /\ q.count = n
      /\ q.names = [r.names EXCEPT ![n] = name] /\ q.values = [r.values EXCEPT ![n] = value]
      /\ (n \in Nat /\ q.names \in Names /\ q.values \in Values => q \in FrameRecord)
  BY <1>1 DEF Extend, FrameRecord
<1> HIDE DEF q
<1>5. /\ q.names \in Names /\ Len(q.names) = Len(r.names)
      /\ \A j \in 1 .. Len(r.names) : q.names[j] = IF j = n THEN name ELSE r.names[j]
  BY <1>1, <1>2, <1>3, <1>4, ExceptSeq DEF Names
<1>6. /\ q.values \in Values /\ Len(q.values) = Len(r.names)
      /\ \A j \in 1 .. Len(r.names) : q.values[j] = IF j = n THEN value ELSE r.values[j]
  BY <1>1, <1>2, <1>3, <1>4, ExceptSeq DEF Values
<1>7. n \in Nat /\ n <= Len(r.names) /\ \A i \in 1 .. n : i = n \/ i \in 1 .. r.count
  BY <1>1, <1>3
<1> HIDE DEF n
<1>8. q.names[n] = name /\ q.values[n] = value
  BY <1>3, <1>5, <1>6
<1>9. \A i \in 1 .. r.count : q.names[i] = r.names[i] /\ q.values[i] = r.values[i]
  BY <1>3, <1>5, <1>6
<1>10. \A i \in 1 .. n : q.names[i] \in Name /\ q.values[i] \in Value
  BY <1>7, <1>8, <1>9 DEF GoodFrame
<1>11. \A i, j \in 1 .. n : q.names[i] = q.names[j] => i = j
  BY <1>7, <1>8, <1>9 DEF GoodFrame
<1>12. GoodFrame(f, q)
  BY <1>4, <1>5, <1>6, <1>7, <1>10, <1>11 DEF GoodFrame
<1> QED
  BY <1>4, <1>5, <1>8, <1>9, <1>12 DEF q, n

\* A sequence given by its elements.
LEMMA ArrayIs ==
    ASSUME NEW S, NEW n \in Nat, NEW array \in [1 .. n -> S]
    PROVE  array \in Seq(S) /\ Len(array) = n
OBVIOUS

\* Growing copies the entries in use.
LEMMA GrownIsGood ==
    ASSUME IInv, NEW f \in Frames
    PROVE  LET q == Grown(f)
               r == frames[f]
           IN  /\ GoodFrame(f, q)
               /\ q.parent = r.parent /\ q.count = r.count /\ r.count < Len(q.names)
               /\ Len(q.names) > 0
               /\ \A i \in 1 .. r.count : q.names[i] = r.names[i] /\ q.values[i] = r.values[i]
<1> DEFINE q == Grown(f)
           r == frames[f]
           n == NewCapacity(f)
<1>1. /\ r \in FrameRecord /\ r.names \in Names /\ r.values \in Values /\ GoodFrame(f, r)
      /\ r.count \in Nat /\ r.parent \in Nat /\ Len(r.names) \in Nat
  BY LenProperties DEF IInv, GoodFrame, FrameRecord, Names
<1>2. Capacity(f) = Len(r.names) /\ Bound(f) = 1 .. r.count /\ r.count <= Len(r.names)
  BY <1>1 DEF Capacity, Bound, GoodFrame
<1>3. n \in Nat /\ n > 0 /\ Len(r.names) <= n /\ Len(r.names) < n
  BY <1>1, <1>2, EnvAssumption DEF NewCapacity
<1>4. /\ q.parent = r.parent /\ q.count = r.count
      /\ q.names = [i \in 1 .. n |-> IF i \in Bound(f) THEN r.names[i] ELSE NoValue]
      /\ q.values = [i \in 1 .. n |-> IF i \in Bound(f) THEN r.values[i] ELSE NoValue]
      /\ (q.names \in Names /\ q.values \in Values => q \in FrameRecord)
  BY <1>1 DEF Grown, FrameRecord
<1> HIDE DEF q, n, r
<1>5. \A i \in 1 .. r.count : i \in 1 .. n /\ i \in Bound(f) /\ r.names[i] \in Name /\ r.values[i] \in Value
  BY <1>1, <1>2, <1>3 DEF GoodFrame
<1>6. \A i \in Bound(f) : r.names[i] \in Name /\ r.values[i] \in Value
  BY <1>2, <1>5
<1>7. q.names \in [1 .. n -> Name \cup {NoValue}] /\ q.values \in [1 .. n -> Value \cup {NoValue}]
  BY <1>4, <1>6
<1>8. /\ q.names \in Names /\ Len(q.names) = n
      /\ q.values \in Values /\ Len(q.values) = n
  BY <1>3, <1>7, ArrayIs DEF Names, Values
<1>9. \A i \in 1 .. r.count : q.names[i] = r.names[i] /\ q.values[i] = r.values[i]
  BY <1>4, <1>5
<1>10. r.count <= n /\ r.count < n
  BY <1>1, <1>2, <1>3
<1>11. GoodFrame(f, q)
  BY <1>1, <1>4, <1>5, <1>8, <1>9, <1>10 DEF GoodFrame
<1> QED
  BY <1>3, <1>4, <1>8, <1>9, <1>10, <1>11 DEF q, r

-----------------------------------------------------------------------------
(***************************************************************************)
(* The shapes of a step: a frame is created, or one is changed.            *)
(***************************************************************************)
WithArrays == {f \in Frames : Capacity(f) > 0}

\* The frames that own arrays are finitely many.
LEMMA FramesAre ==
    ASSUME frames \in Seq(FrameRecord)
    PROVE  /\ Len(frames) \in Nat /\ Frames = 1 .. Len(frames)
           /\ IsFiniteSet(WithArrays) /\ Cardinality(WithArrays) \in Nat
<1>1. Len(frames) \in Nat /\ Frames = 1 .. Len(frames)
  BY LenProperties DEF Frames
<1>2. IsFiniteSet(WithArrays)
  <2>1. IsFiniteSet(Frames) /\ WithArrays \subseteq Frames
    BY <1>1, FS_Interval DEF WithArrays
  <2> QED BY <2>1, FS_Subset
<1> QED
  BY <1>1, <1>2, FS_CardinalityType

\* One more array is in use while a growth is in progress.
LEMMA BlocksAre ==
    ASSUME IInv
    PROVE  /\ blocks = 2 * Cardinality(WithArrays) + (IF Idle THEN 0 ELSE 1)
           /\ Cardinality(WithArrays) \in Nat
<1>1. Cardinality(grows) = IF Idle THEN 0 ELSE 1
  <2>1. CASE Idle
    BY <2>1, FS_EmptySet DEF Idle
  <2>2. CASE ~Idle
    <3>1. PICK x : grows = {x}
      BY <2>2 DEF IInv, GoodGrowth
    <3> QED BY <2>2, <3>1, FS_Singleton
  <2> QED BY <2>1, <2>2
<1>2. blocks = 2 * Cardinality(WithArrays) + Cardinality(grows)
  BY DEF IInv, ArraysExact, WithArrays
<1>3. Cardinality(WithArrays) \in Nat
  BY FramesAre DEF IInv
<1> QED
  BY <1>1, <1>2, <1>3

\* With no growth in progress, two arrays in use for each frame that has any.
LEMMA IdleIs ==
    ASSUME grows' = {}, blocks' = 2 * Cardinality(WithArrays'), Cardinality(WithArrays') \in Nat
    PROVE  ArraysExact' /\ GoodGrowth'
<1>1. Cardinality(grows') = 0
  BY FS_EmptySet
<1>2. blocks' = 2 * Cardinality(WithArrays') + Cardinality(grows')
  BY <1>1
<1> QED
  BY <1>2 DEF ArraysExact, WithArrays, GoodGrowth, Idle

\* A frame is created without arrays.
LEMMA CreateStep ==
    ASSUME IInv, NEW parent \in 0 .. Len(frames), NewFrame(parent)
    PROVE  IInv'
<1> DEFINE r == [parent |-> parent, count |-> 0, names |-> <<>>, values |-> <<>>]
<1>1. /\ frames \in Seq(FrameRecord) /\ Len(frames) \in Nat /\ Frames = 1 .. Len(frames)
  BY FramesAre DEF IInv
<1>2. r \in FrameRecord /\ r.names = <<>> /\ r.values = <<>> /\ r.count = 0 /\ r.parent = parent
  BY <1>1, EmptySeq DEF FrameRecord, Names, Values
<1>3. frames' = Append(frames, r)
  BY DEF NewFrame
<1> HIDE DEF r
<1>4. /\ frames' \in Seq(FrameRecord) /\ Len(frames') = Len(frames) + 1 /\ Frames' = 1 .. Len(frames) + 1
      /\ \A f \in 1 .. Len(frames) : frames'[f] = frames[f]
      /\ frames'[Len(frames) + 1] = r
  BY <1>1, <1>2, <1>3, AppendLast DEF Frames
<1>5. Len(<<>>) = 0 /\ (Len(frames) + 1) - 1 = Len(frames)
  BY <1>1
<1>6. GoodFrame(Len(frames) + 1, r)
  <2>1. r.parent \in 0 .. (Len(frames) + 1) - 1 /\ r.count <= Len(r.names)
    BY <1>2, <1>5
  <2>2. \A i \in 1 .. r.count : FALSE
    BY <1>2
  <2> QED BY <1>2, <2>1, <2>2 DEF GoodFrame
<1>7. \A f \in Frames' : f \in Frames \/ f = Len(frames) + 1
  BY <1>1, <1>4
<1>8. \A f \in Frames' : GoodFrame(f, frames'[f])
  BY <1>1, <1>4, <1>6, <1>7 DEF IInv
<1>9. WithArrays' = WithArrays
  <2>1. PICK n \in Nat : n = Len(frames) + 1
    BY <1>1
  <2>2. Capacity(n)' = 0
    BY <1>2, <1>4, <1>5, <2>1 DEF Capacity
  <2>3. \A f \in Frames : f \in Frames' /\ Capacity(f)' = Capacity(f)
    BY <1>1, <1>4 DEF Capacity
  <2> QED BY <1>7, <2>1, <2>2, <2>3 DEF WithArrays
<1>10. ArraysExact' /\ GoodGrowth'
  <2>1. blocks = 2 * Cardinality(WithArrays) /\ Cardinality(WithArrays) \in Nat
    BY BlocksAre DEF NewFrame
  <2>2. grows' = {} /\ blocks' = blocks
    BY DEF NewFrame, Idle
  <2> QED BY <1>9, <2>1, <2>2, IdleIs
<1>11. GoodReply'
  BY DEF NewFrame, Reply, GoodReply
<1> QED
  BY <1>4, <1>8, <1>10, <1>11 DEF IInv

\* A frame is replaced by a good one; arrays come with the first growth.
LEMMA ChangeStep ==
    ASSUME IInv, NEW f \in Frames, NEW r, GoodFrame(f, r),
           frames' = [frames EXCEPT ![f] = r], GoodReply',
           Capacity(f) > 0 => Len(r.names) > 0, grows' = {},
           blocks' = 2 * Cardinality(WithArrays)
                        + (IF Capacity(f) = 0 /\ Len(r.names) > 0 THEN 2 ELSE 0)
    PROVE  IInv'
<1>1. /\ frames \in Seq(FrameRecord) /\ Len(frames) \in Nat /\ Frames = 1 .. Len(frames)
      /\ IsFiniteSet(WithArrays) /\ Cardinality(WithArrays) \in Nat
  BY FramesAre DEF IInv
<1>2. r \in FrameRecord /\ Len(r.names) \in Nat /\ Capacity(f) \in Nat
  BY LenProperties DEF GoodFrame, FrameRecord, Names, IInv, Capacity
<1>3. /\ frames' \in Seq(FrameRecord) /\ Len(frames') = Len(frames)
      /\ \A g \in 1 .. Len(frames) : frames'[g] = IF g = f THEN r ELSE frames[g]
  BY <1>1, <1>2, ExceptSeq
<1>4. Frames' = Frames /\ \A g \in Frames : frames'[g] = IF g = f THEN r ELSE frames[g]
  BY <1>1, <1>3, LenProperties DEF Frames
<1>5. \A g \in Frames' : GoodFrame(g, frames'[g])
  BY <1>4 DEF IInv
<1>6. \A g \in Frames : Capacity(g)' = IF g = f THEN Len(r.names) ELSE Capacity(g)
  BY <1>4 DEF Capacity
<1>7. CASE Capacity(f) = 0 /\ Len(r.names) > 0
  <2>1. f \notin WithArrays /\ WithArrays' = WithArrays \cup {f}
    BY <1>2, <1>4, <1>6, <1>7 DEF WithArrays
  <2>2. Cardinality(WithArrays') = Cardinality(WithArrays) + 1
    BY <1>1, <2>1, FS_AddElement
  <2>3. PICK n \in Nat : n = Cardinality(WithArrays) /\ Cardinality(WithArrays') = n + 1
    BY <1>1, <2>2
  <2>4. blocks' = 2 * n + 2
    BY <1>7, <2>3
  <2>5. blocks' = 2 * Cardinality(WithArrays') /\ Cardinality(WithArrays') \in Nat
    BY <2>3, <2>4
  <2> QED BY <1>3, <1>5, <2>5, IdleIs DEF IInv
<1>8. CASE ~(Capacity(f) = 0 /\ Len(r.names) > 0)
  <2>1. WithArrays' = WithArrays
    BY <1>2, <1>4, <1>6, <1>8 DEF WithArrays
  <2>2. blocks' = 2 * Cardinality(WithArrays') /\ Cardinality(WithArrays') \in Nat
    BY <1>1, <1>8, <2>1
  <2> QED BY <1>3, <1>5, <2>2, IdleIs DEF IInv
<1> QED
  BY <1>7, <1>8

\* A binding is replaced, in the frame itself or in one around it.
LEMMA ReplaceStep ==
    ASSUME IInv, NEW f \in Frames, NEW name \in Name, NEW value \in Value, Slot(f, name) # 0,
           frames' = [frames EXCEPT ![f].values[Slot(f, name)] = value],
           Idle, UNCHANGED <<blocks, grows>>, GoodReply'
    PROVE  /\ IInv'
           /\ frames' = [frames EXCEPT ![f] = Put(frames[f], Slot(f, name), value)]
<1>1. GoodFrame(f, frames[f]) /\ f \in Nat /\ frames[f].count \in Nat
  BY FramesAre DEF IInv, GoodFrame, FrameRecord
<1>2. PICK i \in 1 .. frames[f].count : i = Slot(f, name)
  <2>1. Slot(f, name) \in 0 .. frames[f].count
    BY <1>1, FirstAtIs, SlotIs
  <2> QED BY <1>1, <2>1
<1>3. frames' = [frames EXCEPT ![f] = Put(frames[f], i, value)]
  BY <1>2 DEF Put
<1>4. PICK r : r = Put(frames[f], i, value)
  OBVIOUS
<1>5. GoodFrame(f, r) /\ r.names = frames[f].names
  BY <1>1, <1>4, PutIsGood
<1>6. /\ Capacity(f) > 0 => Len(r.names) > 0
      /\ blocks' = 2 * Cardinality(WithArrays)
                      + (IF Capacity(f) = 0 /\ Len(r.names) > 0 THEN 2 ELSE 0)
  <2>1. Capacity(f) = Len(r.names) /\ Len(r.names) \in Nat
    BY <1>1, <1>5, LenProperties DEF Capacity, GoodFrame, FrameRecord, Names
  <2>2. ~(Capacity(f) = 0 /\ Len(r.names) > 0)
    BY <2>1
  <2>3. blocks = 2 * Cardinality(WithArrays) + 0
    BY BlocksAre
  <2> QED BY <2>1, <2>2, <2>3
<1>7. frames' = [frames EXCEPT ![f] = r]
  BY <1>3, <1>4
<1>8. IInv'
  BY <1>5, <1>6, <1>7, ChangeStep DEF Idle
<1> QED
  BY <1>2, <1>3, <1>8

\* The frame to which a binding is appended.
Roomy(f) == IF Full(f) THEN Grown(f) ELSE frames[f]

\* It has room, and the bindings that the frame has.
LEMMA RoomyIs ==
    ASSUME IInv, NEW f \in Frames
    PROVE  LET q == Roomy(f)
               r == frames[f]
           IN  /\ GoodFrame(f, q) /\ GoodFrame(f, r)
               /\ q.parent = r.parent /\ q.count = r.count /\ r.count < Len(q.names)
               /\ \A i \in 1 .. r.count : q.names[i] = r.names[i] /\ q.values[i] = r.values[i]
<1>1. CASE Full(f)
  BY <1>1, GrownIsGood DEF Roomy, IInv
<1>2. CASE ~Full(f)
  <2>1. GoodFrame(f, frames[f]) /\ frames[f].count # Len(frames[f].names)
    BY <1>2 DEF IInv, Full, Capacity
  <2>2. frames[f].count \in Nat /\ Len(frames[f].names) \in Nat
    BY <2>1, LenProperties DEF GoodFrame, FrameRecord, Names
  <2>3. frames[f].count < Len(frames[f].names)
    BY <2>1, <2>2 DEF GoodFrame
  <2> QED BY <1>2, <2>1, <2>3 DEF Roomy
<1> QED
  BY <1>1, <1>2

\* A new binding is appended, to a frame with room or to one that grows.
Appends(f, name, value) == AppendBinding(f, name, value) \/ GrowAndAppend(f, name, value)

\* Either way the frame with room is extended, and a growth gives the old arrays
\* back.
LEMMA AppendsIs ==
    ASSUME IInv, NEW f \in Frames, NEW name \in Name, NEW value \in Value, Appends(f, name, value)
    PROVE  /\ Slot(f, name) = 0
           /\ frames' = [frames EXCEPT ![f] = Extend(Roomy(f), name, value)]
           /\ grows' = {}
           /\ blocks' = 2 * Cardinality(WithArrays) + (IF Capacity(f) = 0 THEN 2 ELSE 0)
           /\ reply' = [status |-> "OK", value |-> NoValue]
<1>1. /\ blocks = 2 * Cardinality(WithArrays) + (IF Idle THEN 0 ELSE 1)
      /\ Cardinality(WithArrays) \in Nat
  BY BlocksAre
<1>2. CASE AppendBinding(f, name, value)
  <2>1. Capacity(f) # 0
    <3>1. frames[f].count \in Nat /\ frames[f].count <= Capacity(f) /\ Capacity(f) \in Nat
      BY LenProperties DEF IInv, GoodFrame, FrameRecord, Names, Capacity
    <3> QED BY <1>2, <3>1 DEF AppendBinding, Full
  <2>2. /\ Idle /\ Slot(f, name) = 0 /\ ~Full(f)
        /\ frames' = [frames EXCEPT ![f] = Extend(frames[f], name, value)]
        /\ blocks' = blocks /\ grows' = grows
        /\ reply' = [status |-> "OK", value |-> NoValue]
    BY <1>2 DEF AppendBinding, Reply
  <2> QED BY <1>1, <2>1, <2>2 DEF Roomy, Idle
<1>3. CASE GrowAndAppend(f, name, value)
  <2>1. /\ grows = {<<f, name, value>>} /\ grows' = {}
        /\ frames' = [frames EXCEPT ![f] = Extend(Grown(f), name, value)]
        /\ blocks' = IF Capacity(f) = 0 THEN blocks + 1 ELSE blocks - 1
        /\ reply' = [status |-> "OK", value |-> NoValue]
    BY <1>3 DEF GrowAndAppend, Reply
  <2>2. ~Idle
    BY <2>1 DEF Idle
  <2>3. Full(f) /\ Slot(f, name) = 0
    <3>1. PICK g \in Frames, n \in Name, v \in Value :
                grows = {<<g, n, v>>} /\ Full(g) /\ Slot(g, n) = 0
      BY <2>2 DEF IInv, GoodGrowth
    <3>2. <<g, n, v>> = <<f, name, value>>
      BY <2>1, <3>1
    <3>3. g = f /\ n = name
      BY <3>2
    <3> QED BY <3>1, <3>3
  <2>4. blocks' = 2 * Cardinality(WithArrays) + (IF Capacity(f) = 0 THEN 2 ELSE 0)
    BY <1>1, <2>1, <2>2
  <2> QED BY <2>1, <2>3, <2>4 DEF Roomy
<1> QED
  BY <1>2, <1>3 DEF Appends

\* The invariant is kept, and the name was new.
LEMMA AppendStep ==
    ASSUME IInv, NEW f \in Frames, NEW name \in Name, NEW value \in Value, Appends(f, name, value)
    PROVE  /\ IInv'
           /\ frames' = [frames EXCEPT ![f] = Extend(Roomy(f), name, value)]
           /\ \A i \in 1 .. frames[f].count : frames[f].names[i] # name
<1> DEFINE q == Roomy(f)
           r == frames[f]
<1>1. /\ GoodFrame(f, q) /\ GoodFrame(f, r) /\ f \in Nat
      /\ q.count = r.count /\ q.count < Len(q.names)
      /\ \A i \in 1 .. r.count : q.names[i] = r.names[i] /\ q.values[i] = r.values[i]
  BY RoomyIs, FramesAre DEF IInv
<1>2. r.count \in Nat /\ \A i \in 1 .. r.count : r.names[i] # name
  <2>1. r.count \in Nat /\ Slot(f, name) = 0
    BY <1>1, AppendsIs DEF GoodFrame, FrameRecord
  <2> QED BY <2>1, FirstAtIs, SlotIs
<1>3. frames' = [frames EXCEPT ![f] = Extend(q, name, value)]
  BY AppendsIs
<1>4. /\ blocks' = 2 * Cardinality(WithArrays) + (IF Capacity(f) = 0 THEN 2 ELSE 0)
      /\ grows' = {} /\ GoodReply'
  BY AppendsIs DEF GoodReply
<1>5. \A i \in 1 .. q.count : q.names[i] # name
  BY <1>1, <1>2
<1> HIDE DEF q
<1>6. GoodFrame(f, Extend(q, name, value)) /\ Len(Extend(q, name, value).names) = Len(q.names)
  BY <1>1, <1>5, ExtendIsGood
<1>7. PICK e : e = Extend(q, name, value)
  OBVIOUS
<1>8. Len(e.names) > 0
  <2>1. q.count \in Nat /\ Len(q.names) \in Nat
    BY <1>1, LenProperties DEF GoodFrame, FrameRecord, Names
  <2> QED BY <1>1, <1>6, <1>7, <2>1
<1>9. IInv'
  BY <1>3, <1>4, <1>6, <1>7, <1>8, ChangeStep
<1> QED
  BY <1>2, <1>3, <1>9 DEF q

-----------------------------------------------------------------------------
(***************************************************************************)
(* The search outwards.                                                    *)
(***************************************************************************)

\* From a frame to the one around it until one is in hits, or 0.
Follows(search, n, outer, hits) ==
    search = [f \in 0 .. n |->
                IF f = 0 THEN 0 ELSE IF f \in hits THEN f ELSE search[outer[f]]]

\* There is such a search when the frame around each is an earlier one.
LEMMA SearchExists ==
    ASSUME NEW n \in Nat, NEW outer, NEW hits, \A f \in 1 .. n : outer[f] \in 0 .. f - 1
    PROVE  \E search : Follows(search, n, outer, hits)
<1> DEFINE none == {k \in 0 .. n : ~ \E search : Follows(search, k, outer, hits)}
<1> SUFFICES ASSUME none # {} PROVE FALSE
  OBVIOUS
<1>1. PICK k \in none : \A m \in none : k <= m
  <2>1. none \in SUBSET Nat
    OBVIOUS
  <2> HIDE DEF none
  <2> QED BY <2>1, LeastNatural
<1>2. CASE k = 0
  <2> DEFINE first == [f \in 0 .. 0 |-> 0]
  <2>1. \A f \in 0 .. 0 : f = 0
    OBVIOUS
  <2>2. first = [f \in 0 .. 0 |-> IF f = 0 THEN 0 ELSE IF f \in hits THEN f ELSE first[outer[f]]]
    BY <2>1
  <2> HIDE DEF first
  <2> QED BY <1>1, <1>2, <2>2 DEF Follows
<1>3. CASE k # 0
  <2>1. k \in Nat /\ k \in 1 .. n /\ k - 1 \in 0 .. n /\ ~(k <= k - 1)
    BY <1>1, <1>3
  <2>2. PICK before : Follows(before, k - 1, outer, hits)
    BY <1>1, <2>1
  <2> DEFINE search == [f \in 0 .. k |->
                 IF f = k THEN IF k \in hits THEN k ELSE before[outer[k]] ELSE before[f]]
  <2>3. \A f \in 0 .. k - 1 : search[f] = before[f]
    BY <2>1
  <2>4. \A f \in 0 .. k - 1 :
            before[f] = IF f = 0 THEN 0 ELSE IF f \in hits THEN f ELSE before[outer[f]]
    BY <2>2 DEF Follows
  <2>5. \A f \in 1 .. k : outer[f] \in 0 .. k - 1
    <3> SUFFICES ASSUME NEW f \in 1 .. k PROVE outer[f] \in 0 .. k - 1
      OBVIOUS
    <3>1. outer[f] \in 0 .. f - 1
      BY <2>1
    <3> QED BY <2>1, <3>1
  <2>6. search[k] = IF k \in hits THEN k ELSE before[outer[k]]
    BY <2>1
  <2>7. \A f \in 0 .. k : f = k \/ f \in 0 .. k - 1
    BY <2>1
  <2>8. \A f \in 0 .. k : f = 0 \/ f \in 1 .. k
    BY <2>1
  <2>9. search = [f \in 0 .. k |-> search[f]]
    OBVIOUS
  <2> HIDE DEF search
  <2>10. \A f \in 0 .. k :
            search[f] = IF f = 0 THEN 0 ELSE IF f \in hits THEN f ELSE search[outer[f]]
    <3> SUFFICES ASSUME NEW f \in 0 .. k
                 PROVE  search[f] = IF f = 0 THEN 0 ELSE IF f \in hits THEN f ELSE search[outer[f]]
      OBVIOUS
    <3>1. f # 0 => search[outer[f]] = before[outer[f]]
      BY <2>3, <2>5, <2>8
    <3> QED BY <1>3, <2>3, <2>4, <2>6, <2>7, <3>1
  <2>11. Follows(search, k, outer, hits)
    BY <2>9, <2>10 DEF Follows
  <2> QED BY <1>1, <2>11
<1> QED
  BY <1>2, <1>3

\* There is one such search only.
LEMMA SearchIsUnique ==
    ASSUME NEW n \in Nat, NEW outer, NEW hits, \A f \in 1 .. n : outer[f] \in 0 .. f - 1,
           NEW s, NEW t, Follows(s, n, outer, hits), Follows(t, n, outer, hits)
    PROVE  s = t
<1> DEFINE differ == {f \in 0 .. n : s[f] # t[f]}
<1>1. \A f \in 0 .. n : /\ s[f] = IF f = 0 THEN 0 ELSE IF f \in hits THEN f ELSE s[outer[f]]
                        /\ t[f] = IF f = 0 THEN 0 ELSE IF f \in hits THEN f ELSE t[outer[f]]
  BY DEF Follows
<1>2. CASE differ = {}
  <2>1. \A f \in 0 .. n : s[f] = t[f]
    BY <1>2
  <2>2. s = [f \in 0 .. n |-> s[f]] /\ t = [f \in 0 .. n |-> t[f]]
    BY DEF Follows
  <2> QED BY <2>1, <2>2
<1>3. CASE differ # {}
  <2>1. PICK f \in differ : \A g \in differ : f <= g
    <3>1. differ \in SUBSET Nat
      OBVIOUS
    <3> HIDE DEF differ
    <3> QED BY <1>3, <3>1, LeastNatural
  <2>2. f \in 0 .. n /\ f # 0 /\ f \notin hits /\ s[outer[f]] # t[outer[f]]
    BY <1>1, <2>1
  <2>3. outer[f] \in 0 .. f - 1
    BY <2>2
  <2>4. outer[f] \in 0 .. n /\ ~(f <= outer[f])
    BY <2>2, <2>3
  <2>5. outer[f] \in differ
    BY <2>2, <2>4
  <2> QED BY <2>1, <2>4, <2>5
<1> QED
  BY <1>2, <1>3

\* What it finds is one of hits.
LEMMA SearchFinds ==
    ASSUME NEW n \in Nat, NEW outer, NEW hits, \A f \in 1 .. n : outer[f] \in 0 .. f - 1,
           NEW s, Follows(s, n, outer, hits)
    PROVE  \A f \in 0 .. n : s[f] = 0 \/ (s[f] \in hits /\ s[f] \in 1 .. n)
<1> DEFINE Found(f) == s[f] = 0 \/ (s[f] \in hits /\ s[f] \in 1 .. n)
           lost == {f \in 0 .. n : ~Found(f)}
<1>1. \A f \in 0 .. n : s[f] = IF f = 0 THEN 0 ELSE IF f \in hits THEN f ELSE s[outer[f]]
  BY DEF Follows
<1> SUFFICES ASSUME lost # {} PROVE FALSE
  OBVIOUS
<1>2. PICK f \in lost : \A g \in lost : f <= g
  <2>1. lost \in SUBSET Nat
    OBVIOUS
  <2> HIDE DEF lost
  <2> QED BY <2>1, LeastNatural
<1>3. f \in 0 .. n /\ ~Found(f)
  BY <1>2
<1>4. f \in 1 .. n /\ f \notin hits /\ s[f] = s[outer[f]]
  BY <1>1, <1>3
<1>5. outer[f] \in 0 .. f - 1
  BY <1>4
<1>6. outer[f] \in 0 .. n /\ ~(f <= outer[f])
  BY <1>4, <1>5
<1>7. outer[f] \in lost
  BY <1>3, <1>4, <1>6
<1> QED
  BY <1>2, <1>6, <1>7

Outer == [f \in Frames |-> frames[f].parent]
Hits(name) == {f \in Frames : Slot(f, name) # 0}

\* The frames enclose one another from younger to older.
LEMMA OuterIs ==
    ASSUME IInv
    PROVE  Len(frames) \in Nat /\ Frames = 1 .. Len(frames)
           /\ \A f \in 1 .. Len(frames) : Outer[f] \in 0 .. f - 1
BY FramesAre DEF IInv, GoodFrame, Outer

\* The search of the model is that search.
LEMMA BinderIs ==
    ASSUME IInv, NEW name
    PROVE  /\ Follows(Binder(name), Len(frames), Outer, Hits(name))
           /\ \A f \in Frames : Binder(name)[f] = 0
                    \/ (Binder(name)[f] \in Frames /\ Slot(Binder(name)[f], name) # 0)
<1>1. /\ Len(frames) \in Nat /\ Frames = 1 .. Len(frames)
      /\ \A f \in 1 .. Len(frames) : Outer[f] \in 0 .. f - 1
  BY OuterIs
<1> DEFINE n == Len(frames)
           Unfolded(b) == [f \in 0 .. n |->
                IF f = 0 THEN 0 ELSE IF Slot(f, name) # 0 THEN f ELSE b[frames[f].parent]]
<1>2. \A f \in 0 .. n : f # 0 =>
          Outer[f] = frames[f].parent /\ (f \in Hits(name) <=> Slot(f, name) # 0)
  BY <1>1 DEF Outer, Hits
<1>3. ASSUME NEW b PROVE Follows(b, n, Outer, Hits(name)) <=> b = Unfolded(b)
  <2> DEFINE Step(f) == IF f = 0 THEN 0 ELSE IF f \in Hits(name) THEN f ELSE b[Outer[f]]
             Plain(f) == IF f = 0 THEN 0 ELSE IF Slot(f, name) # 0 THEN f ELSE b[frames[f].parent]
  <2>1. \A f \in 0 .. n : Step(f) = Plain(f)
    BY <1>2
  <2>2. Unfolded(b) = [f \in 0 .. n |-> Plain(f)]
    OBVIOUS
  <2>3. Follows(b, n, Outer, Hits(name)) <=> b = [f \in 0 .. n |-> Step(f)]
    BY DEF Follows
  <2> HIDE DEF Step, Plain, Unfolded
  <2>4. [f \in 0 .. n |-> Step(f)] = [f \in 0 .. n |-> Plain(f)]
    BY <2>1
  <2> QED BY <2>2, <2>3, <2>4
<1>4. PICK b : Follows(b, n, Outer, Hits(name))
  BY <1>1, SearchExists
<1>5. b = Unfolded(b)
  BY <1>3, <1>4
<1>6. Binder(name) = CHOOSE c : c = Unfolded(c)
  BY DEF Binder
<1>7. Binder(name) = Unfolded(Binder(name))
  <2> HIDE DEF Unfolded
  <2> QED BY <1>5, <1>6
<1>8. Follows(Binder(name), n, Outer, Hits(name))
  BY <1>3, <1>7
<1>9. \A f \in 0 .. n : Binder(name)[f] = 0
                    \/ (Binder(name)[f] \in Hits(name) /\ Binder(name)[f] \in 1 .. n)
  BY <1>1, <1>8, SearchFinds
<1>10. \A f \in Frames : f \in 0 .. n
  BY <1>1
<1> QED
  BY <1>8, <1>9, <1>10 DEF Hits

-----------------------------------------------------------------------------
(***************************************************************************)
(* The invariant.                                                          *)
(***************************************************************************)

\* No frame yet.
LEMMA InitInv == Init => IInv
<1> SUFFICES ASSUME Init PROVE IInv
  OBVIOUS
<1>1. frames \in Seq(FrameRecord) /\ frames = <<>> /\ Frames = {}
  BY EmptySeq, LenProperties DEF Init, Frames
<1>2. Cardinality(WithArrays) = 0
  <2>1. WithArrays = {}
    BY <1>1 DEF WithArrays
  <2> QED BY <2>1, FS_EmptySet
<1>3. ArraysExact
  <2>1. Cardinality(grows) = 0
    BY FS_EmptySet DEF Init
  <2>2. blocks = 2 * Cardinality(WithArrays) + Cardinality(grows)
    BY <1>2, <2>1 DEF Init
  <2> QED BY <2>2 DEF ArraysExact, WithArrays
<1> QED
  BY <1>1, <1>3 DEF Init, IInv, GoodReply, GoodGrowth, Idle

\* What a slot holds.
LEMMA SlotHolds ==
    ASSUME IInv, NEW f \in Frames, NEW name, Slot(f, name) # 0
    PROVE  /\ Slot(f, name) \in 1 .. frames[f].count
           /\ frames[f].names[Slot(f, name)] = name
           /\ frames[f].values[Slot(f, name)] \in Value
<1>1. GoodFrame(f, frames[f]) /\ frames[f].count \in Nat
  BY DEF IInv, GoodFrame, FrameRecord
<1>2. Slot(f, name) \in 0 .. frames[f].count /\ frames[f].names[Slot(f, name)] = name
  BY <1>1, FirstAtIs, SlotIs
<1>3. Slot(f, name) \in 1 .. frames[f].count
  BY <1>1, <1>2
<1> QED
  BY <1>1, <1>2, <1>3 DEF GoodFrame

\* Steps that leave the frames alone.
LEMMA StillStep ==
    ASSUME IInv, UNCHANGED <<frames, blocks, grows>>, GoodReply'
    PROVE  IInv'
<1>1. frames' \in Seq(FrameRecord) /\ (\A f \in Frames' : GoodFrame(f, frames'[f])) /\ ArraysExact'
  BY DEF IInv, ArraysExact, Capacity, Frames
<1>2. GoodGrowth'
  <2>1. CASE Idle
    BY <2>1 DEF GoodGrowth, Idle
  <2>2. CASE ~Idle
    <3>1. PICK f \in Frames, name \in Name, value \in Value :
                grows = {<<f, name, value>>} /\ Full(f) /\ Slot(f, name) = 0
      BY <2>2 DEF IInv, GoodGrowth
    <3>2. f \in Frames' /\ Full(f)' /\ Slot(f, name)' = 0 /\ grows' = {<<f, name, value>>}
      BY <3>1 DEF Full, Slot, Bound, Capacity, Frames
    <3> QED BY <3>2 DEF GoodGrowth
  <2> QED BY <2>1, <2>2
<1> QED
  BY <1>1, <1>2 DEF IInv

\* A growth has the new array of names, and the frame still its old ones.
LEMMA TakeStep ==
    ASSUME IInv, NEW f \in Frames, NEW name \in Name, NEW value \in Value, TakeNames(f, name, value)
    PROVE  IInv'
<1>1. /\ Idle /\ frames' = frames /\ reply' = reply /\ blocks' = blocks + 1
      /\ grows' = {<<f, name, value>>} /\ Full(f) /\ Slot(f, name) = 0
  BY DEF TakeNames
<1>2. WithArrays' = WithArrays
  BY <1>1 DEF WithArrays, Capacity, Frames
<1>3. ArraysExact'
  <2>1. blocks = 2 * Cardinality(WithArrays) /\ Cardinality(WithArrays) \in Nat
    BY <1>1, BlocksAre
  <2>2. Cardinality(grows') = 1
    BY <1>1, FS_Singleton
  <2>3. blocks' = 2 * Cardinality(WithArrays') + Cardinality(grows')
    BY <1>1, <1>2, <2>1, <2>2
  <2> QED BY <2>3 DEF ArraysExact, WithArrays
<1>4. Full(f)' /\ Slot(f, name)' = 0 /\ f \in Frames'
  BY <1>1 DEF Full, Slot, Bound, Capacity, Frames
<1>5. GoodGrowth'
  BY <1>1, <1>4 DEF GoodGrowth
<1> QED
  BY <1>1, <1>3, <1>5 DEF IInv, GoodReply, Frames

\* A growth that fails half-way gives the array of names back.
LEMMA ValuesFailStep ==
    ASSUME IInv, ValuesFail
    PROVE  IInv'
<1>1. /\ ~Idle /\ frames' = frames /\ blocks' = blocks - 1 /\ grows' = {}
      /\ reply' = [status |-> "NOMEM", value |-> NoValue]
  BY DEF ValuesFail, Idle, Reply
<1>2. WithArrays' = WithArrays
  BY <1>1 DEF WithArrays, Capacity, Frames
<1>3. blocks' = 2 * Cardinality(WithArrays') /\ Cardinality(WithArrays') \in Nat
  BY <1>1, <1>2, BlocksAre
<1>4. ArraysExact' /\ GoodGrowth'
  BY <1>1, <1>3, IdleIs
<1> QED
  BY <1>1, <1>4 DEF IInv, GoodReply, Frames

\* A call of ml_env_set changes the frame that binds the name, if there is one.
LEMMA SetStep ==
    ASSUME IInv, NEW f \in Frames, NEW name \in Name, NEW value \in Value, Set(f, name, value)
    PROVE  IInv'
<1> DEFINE g == Binder(name)[f]
<1>1. g = 0 \/ (g \in Frames /\ Slot(g, name) # 0)
  BY BinderIs
<1>2. CASE g = 0
  <2>1. UNCHANGED <<frames, blocks, grows>> /\ reply' = [status |-> "UNBOUND", value |-> NoValue]
    BY <1>2 DEF Set, Reply
  <2> QED BY <2>1, StillStep DEF GoodReply
<1>3. CASE g # 0
  <2>1. PICK h : h = g
    OBVIOUS
  <2>2. /\ h \in Frames /\ Slot(h, name) # 0
        /\ frames' = [frames EXCEPT ![h].values[Slot(h, name)] = value]
        /\ Idle /\ UNCHANGED <<blocks, grows>>
        /\ reply' = [status |-> "OK", value |-> NoValue]
    BY <1>1, <1>3, <2>1 DEF Set, Reply
  <2> QED BY <2>2, ReplaceStep DEF GoodReply
<1> QED
  BY <1>2, <1>3

\* A lookup gives a value, or nothing.
LEMMA LookupStep ==
    ASSUME IInv, NEW f \in Frames, NEW name \in Name, Lookup(f, name)
    PROVE  IInv'
<1> DEFINE g == Binder(name)[f]
<1>1. g = 0 \/ (g \in Frames /\ Slot(g, name) # 0)
  BY BinderIs
<1>2. CASE g = 0
  <2>1. reply' = [status |-> "UNBOUND", value |-> NoValue]
    BY <1>2 DEF Lookup, Reply
  <2> QED BY <2>1, StillStep DEF GoodReply, Lookup
<1>3. CASE g # 0
  <2>1. PICK h : h = g
    OBVIOUS
  <2>2. /\ h \in Frames /\ Slot(h, name) # 0
        /\ reply' = [status |-> "OK", value |-> frames[h].values[Slot(h, name)]]
    BY <1>1, <1>3, <2>1 DEF Lookup, Reply
  <2>3. frames[h].values[Slot(h, name)] \in Value
    BY <2>2, SlotHolds
  <2> QED BY <2>2, <2>3, StillStep DEF GoodReply, Lookup
<1> QED
  BY <1>2, <1>3

\* Every step preserves the invariant.
LEMMA NextInv == IInv /\ [Next]_vars => IInv'
<1> SUFFICES ASSUME IInv, [Next]_vars PROVE IInv'
  OBVIOUS
<1>1. ASSUME NEW parent \in 0 .. Len(frames), NewFrame(parent) PROVE IInv'
  BY <1>1, CreateStep
<1>2. ASSUME NEW f \in Frames, NEW name \in Name, Lookup(f, name) PROVE IInv'
  BY <1>2, LookupStep
<1>3. ASSUME NEW f \in Frames, NEW name \in Name, NamesFail(f, name) PROVE IInv'
  BY <1>3, StillStep DEF NamesFail, Reply, GoodReply
<1>4. ASSUME NEW f \in Frames, NEW name \in Name, NEW value \in Value, Replace(f, name, value)
      PROVE  IInv'
  BY <1>4, ReplaceStep DEF Replace, Reply, GoodReply
<1>5. ASSUME NEW f \in Frames, NEW name \in Name, NEW value \in Value, Appends(f, name, value)
      PROVE  IInv'
  BY <1>5, AppendStep
<1>6. ASSUME NEW f \in Frames, NEW name \in Name, NEW value \in Value, Set(f, name, value)
      PROVE  IInv'
  BY <1>6, SetStep
<1>7. CASE UNCHANGED vars
  BY <1>7, StillStep DEF vars, GoodReply, IInv
<1>8. ASSUME NEW f \in Frames, NEW name \in Name, NEW value \in Value, TakeNames(f, name, value)
      PROVE  IInv'
  BY <1>8, TakeStep
<1>9. CASE ValuesFail
  BY <1>9, ValuesFailStep
<1> QED
  BY <1>1, <1>2, <1>3, <1>4, <1>5, <1>6, <1>7, <1>8, <1>9 DEF Next, Appends

\* The invariant holds of every behaviour.
LEMMA Invariance == Spec => []IInv
BY InitInv, NextInv, PTL DEF Spec

-----------------------------------------------------------------------------
(***************************************************************************)
(* What follows from it.                                                   *)
(***************************************************************************)

\* Both arrays have one size, and hold names and values up to count.
THEOREM EnvTypeCorrect == Spec => []TypeOK
<1>1. IInv => TypeOK
  <2> SUFFICES ASSUME IInv PROVE TypeOK
    OBVIOUS
  <2>1. ASSUME NEW f \in Frames
        PROVE  /\ frames[f].parent \in 0 .. f - 1
               /\ frames[f].count \in 0 .. Capacity(f)
               /\ Len(frames[f].values) = Capacity(f)
               /\ \A i \in Bound(f) : frames[f].names[i] \in Name /\ frames[f].values[i] \in Value
    <3>1. GoodFrame(f, frames[f]) /\ frames[f].count \in Nat /\ Len(frames[f].names) \in Nat
      BY LenProperties DEF IInv, GoodFrame, FrameRecord, Names
    <3> QED BY <3>1 DEF GoodFrame, Capacity, Bound
  <2>2. blocks \in Nat
    BY BlocksAre
  <2> QED BY <2>1, <2>2 DEF TypeOK, IInv, GoodReply, GoodGrowth
<1> QED
  BY <1>1, Invariance, PTL

\* A frame binds a name once (env.c:60-69): define searches before it appends.
THEOREM NamesAreDistinct == Spec => []BindsOnce
<1>1. IInv => BindsOnce
  BY DEF IInv, GoodFrame, BindsOnce, Bound
<1> QED
  BY <1>1, Invariance, PTL

\* The arrays in use are those of the frames, whatever growth fails (env.c:33-41).
THEOREM ArraysAreOwned == Spec => []ArraysExact
<1>1. IInv => ArraysExact
  BY DEF IInv
<1> QED
  BY <1>1, Invariance, PTL

-----------------------------------------------------------------------------
(***************************************************************************)
(* The frames as scopes.                                                   *)
(***************************************************************************)
Bindings(r) == {r.names[i] : i \in 1 .. r.count}
ScopeOf(r) == [name \in Bindings(r) |-> r.values[FirstAt(r.names, r.count, name)]]

\* The scope of a frame gives each of its names the value beside it.
LEMMA ScopeIs ==
    ASSUME NEW f, NEW r, GoodFrame(f, r)
    PROVE  \A i \in 1 .. r.count : r.names[i] \in Bindings(r) /\ ScopeOf(r)[r.names[i]] = r.values[i]
<1> SUFFICES ASSUME NEW i \in 1 .. r.count
             PROVE  r.names[i] \in Bindings(r) /\ ScopeOf(r)[r.names[i]] = r.values[i]
  OBVIOUS
<1> DEFINE j == FirstAt(r.names, r.count, r.names[i])
<1>1. r.count \in Nat
  BY DEF GoodFrame, FrameRecord
<1>2. j \in 0 .. r.count /\ j # 0 /\ r.names[j] = r.names[i]
  BY <1>1, FirstAtIs
<1>3. j \in 1 .. r.count
  BY <1>1, <1>2
<1>4. j = i
  BY <1>2, <1>3 DEF GoodFrame
<1> QED
  BY <1>4 DEF ScopeOf, Bindings

\* It is the only function that does.
LEMMA ScopeIsUnique ==
    ASSUME NEW f, NEW r, GoodFrame(f, r), NEW s, s = [name \in Bindings(r) |-> s[name]],
           \A i \in 1 .. r.count : s[r.names[i]] = r.values[i]
    PROVE  ScopeOf(r) = s
<1>1. \A name \in Bindings(r) : ScopeOf(r)[name] = s[name]
  BY ScopeIs DEF Bindings
<1>2. ScopeOf(r) = [name \in Bindings(r) |-> ScopeOf(r)[name]]
  BY DEF ScopeOf
<1> QED
  BY <1>1, <1>2

\* Frames with the same bindings are the same scope, whatever their capacity.
LEMMA SameScope ==
    ASSUME NEW f, NEW r, NEW q, GoodFrame(f, r), GoodFrame(f, q), q.count = r.count,
           \A i \in 1 .. r.count : q.names[i] = r.names[i] /\ q.values[i] = r.values[i]
    PROVE  ScopeOf(q) = ScopeOf(r)
<1>1. Bindings(q) = Bindings(r)
  BY DEF Bindings
<1>2. ScopeOf(r) = [name \in Bindings(q) |-> ScopeOf(r)[name]]
  BY <1>1 DEF ScopeOf
<1>3. \A i \in 1 .. q.count : ScopeOf(r)[q.names[i]] = q.values[i]
  BY ScopeIs
<1> QED
  BY <1>2, <1>3, ScopeIsUnique

\* A value replaced is a name bound anew.
LEMMA PutScope ==
    ASSUME NEW f \in Nat, NEW r, GoodFrame(f, r), NEW i \in 1 .. r.count, NEW value \in Value
    PROVE  ScopeOf(Put(r, i, value)) = Abstract!Bind(ScopeOf(r), r.names[i], value)
<1> DEFINE q == Put(r, i, value)
           s == Abstract!Bind(ScopeOf(r), r.names[i], value)
<1>1. /\ GoodFrame(f, q) /\ q.count = r.count /\ q.names = r.names
      /\ \A j \in 1 .. r.count : q.values[j] = IF j = i THEN value ELSE r.values[j]
  BY PutIsGood
<1>2. Bindings(q) = Bindings(r) /\ DOMAIN ScopeOf(r) \cup {r.names[i]} = Bindings(r)
  BY <1>1, ScopeIs DEF Bindings, ScopeOf
<1>3. /\ s = [x \in Bindings(q) |-> s[x]]
      /\ \A x \in Bindings(r) : s[x] = IF x = r.names[i] THEN value ELSE ScopeOf(r)[x]
  BY <1>2 DEF Abstract!Bind
<1> HIDE DEF q, s
<1>4. \A j \in 1 .. r.count : s[q.names[j]] = q.values[j]
  <2> SUFFICES ASSUME NEW j \in 1 .. r.count PROVE s[q.names[j]] = q.values[j]
    OBVIOUS
  <2>1. q.names[j] \in Bindings(r) /\ ScopeOf(r)[q.names[j]] = r.values[j]
    BY <1>1, ScopeIs
  <2>2. q.names[j] = r.names[i] <=> j = i
    BY <1>1 DEF GoodFrame
  <2> QED BY <1>1, <1>3, <2>1, <2>2
<1>5. ScopeOf(q) = s
  BY <1>1, <1>3, <1>4, ScopeIsUnique
<1> QED
  BY <1>5 DEF q, s

\* A binding appended is a name bound.
LEMMA ExtendScope ==
    ASSUME NEW f \in Nat, NEW r, GoodFrame(f, r), r.count < Len(r.names),
           NEW name \in Name, NEW value \in Value, \A i \in 1 .. r.count : r.names[i] # name
    PROVE  ScopeOf(Extend(r, name, value)) = Abstract!Bind(ScopeOf(r), name, value)
<1> DEFINE q == Extend(r, name, value)
           s == Abstract!Bind(ScopeOf(r), name, value)
<1>1. /\ GoodFrame(f, q) /\ q.count = r.count + 1
      /\ q.names[q.count] = name /\ q.values[q.count] = value
      /\ \A j \in 1 .. r.count : q.names[j] = r.names[j] /\ q.values[j] = r.values[j]
  BY ExtendIsGood
<1>2. /\ r.count \in Nat /\ q.count \in 1 .. q.count
      /\ \A j \in 1 .. q.count : j = q.count \/ j \in 1 .. r.count
      /\ \A j \in 1 .. r.count : j \in 1 .. q.count
  <2>1. r.count \in Nat
    BY DEF GoodFrame, FrameRecord
  <2> QED BY <1>1, <2>1
<1> HIDE DEF q
<1>3. DOMAIN ScopeOf(r) \cup {name} = Bindings(q)
  <2>1. DOMAIN ScopeOf(r) = Bindings(r)
    BY DEF ScopeOf
  <2>2. ASSUME NEW x PROVE x \in Bindings(q) <=> x \in Bindings(r) \cup {name}
    <3>1. CASE x \in Bindings(q)
      <4>1. PICK j \in 1 .. q.count : x = q.names[j]
        BY <3>1 DEF Bindings
      <4> QED BY <1>1, <1>2, <4>1 DEF Bindings
    <3>2. CASE x \in Bindings(r) \cup {name}
      BY <1>1, <1>2, <3>2 DEF Bindings
    <3> QED BY <3>1, <3>2
  <2> QED BY <2>1, <2>2
<1>4. /\ s = [x \in Bindings(q) |-> s[x]]
      /\ \A x \in Bindings(q) : s[x] = IF x = name THEN value ELSE ScopeOf(r)[x]
  BY <1>3 DEF Abstract!Bind
<1> HIDE DEF s
<1>5. \A j \in 1 .. q.count : s[q.names[j]] = q.values[j]
  <2> SUFFICES ASSUME NEW j \in 1 .. q.count PROVE s[q.names[j]] = q.values[j]
    OBVIOUS
  <2>1. q.names[j] \in Bindings(q)
    BY DEF Bindings
  <2>2. CASE j = q.count
    BY <1>1, <1>4, <2>1, <2>2
  <2>3. CASE j \in 1 .. r.count
    <3>1. q.names[j] # name /\ ScopeOf(r)[q.names[j]] = q.values[j]
      BY <1>1, <2>3, ScopeIs
    <3> QED BY <1>4, <2>1, <3>1
  <2> QED BY <1>2, <2>2, <2>3
<1>6. ScopeOf(q) = s
  BY <1>1, <1>4, <1>5, ScopeIsUnique
<1> QED
  BY <1>6 DEF q, s

-----------------------------------------------------------------------------
(***************************************************************************)
(* The refinement.                                                         *)
(***************************************************************************)
AsScopes ==
    [f \in Frames |->
        [name \in {frames[f].names[i] : i \in Bound(f)} |-> frames[f].values[Slot(f, name)]]]

\* Each frame maps to its scope.
LEMMA ScopesAre ==
    /\ AsScopes = [f \in Frames |-> ScopeOf(frames[f])]
    /\ AsScopes' = [f \in DOMAIN frames' |-> ScopeOf(frames'[f])]
BY SlotIs DEF AsScopes, ScopeOf, Bindings, Bound, Frames

\* A frame binds the names of its scope.
LEMMA HitsAre ==
    ASSUME IInv, NEW f \in Frames, NEW name
    PROVE  name \in DOMAIN AsScopes[f] <=> Slot(f, name) # 0
<1>1. DOMAIN AsScopes[f] = {frames[f].names[i] : i \in 1 .. frames[f].count}
  BY DEF AsScopes, Bound
<1>2. CASE Slot(f, name) # 0
  BY <1>1, <1>2, SlotHolds
<1>3. CASE Slot(f, name) = 0
  <2>1. frames[f].count \in Nat
    BY DEF IInv, GoodFrame, FrameRecord
  <2>2. \A i \in 1 .. frames[f].count : frames[f].names[i] # name
    BY <1>3, <2>1, FirstAtIs, SlotIs
  <2> QED BY <1>1, <1>3, <2>2
<1> QED
  BY <1>2, <1>3

\* The scopes are as many as the frames.
LEMMA LengthIs ==
    ASSUME IInv
    PROVE  Len(AsScopes) = Len(frames) /\ DOMAIN AsScopes = Frames
<1> DEFINE S == {AsScopes[f] : f \in Frames}
<1>1. DOMAIN AsScopes = Frames /\ AsScopes \in [Frames -> S]
  BY DEF AsScopes
<1>2. Len(frames) \in Nat /\ Frames = 1 .. Len(frames)
  BY OuterIs
<1> HIDE DEF S
<1> QED
  BY <1>1, <1>2, ArrayIs

\* A scope is found where the frame is.
LEMMA SameBinder ==
    ASSUME IInv, NEW name
    PROVE  Abstract!Binder(name) = Binder(name)
<1> DEFINE n == Len(frames)
           Unfolded(b) == [f \in 0 .. n |->
                IF f = 0 THEN 0 ELSE IF name \in DOMAIN AsScopes[f] THEN f ELSE b[Outer[f]]]
<1>1. /\ n \in Nat /\ Frames = 1 .. n
      /\ \A f \in 1 .. n : Outer[f] \in 0 .. f - 1
  BY OuterIs
<1>2. ASSUME NEW b PROVE Follows(b, n, Outer, Hits(name)) <=> b = Unfolded(b)
  <2> DEFINE Step(f) == IF f = 0 THEN 0 ELSE IF f \in Hits(name) THEN f ELSE b[Outer[f]]
             Plain(f) == IF f = 0 THEN 0 ELSE IF name \in DOMAIN AsScopes[f] THEN f ELSE b[Outer[f]]
  <2>1. \A f \in 0 .. n : f = 0 \/ f \in Frames
    BY <1>1
  <2>2. \A f \in Frames : f \in Hits(name) <=> name \in DOMAIN AsScopes[f]
    BY HitsAre DEF Hits
  <2>3. \A f \in 0 .. n : Step(f) = Plain(f)
    BY <2>1, <2>2
  <2>4. Unfolded(b) = [f \in 0 .. n |-> Plain(f)]
    OBVIOUS
  <2>5. Follows(b, n, Outer, Hits(name)) <=> b = [f \in 0 .. n |-> Step(f)]
    BY DEF Follows
  <2> HIDE DEF Step, Plain, Unfolded
  <2>6. [f \in 0 .. n |-> Step(f)] = [f \in 0 .. n |-> Plain(f)]
    BY <2>3
  <2> QED BY <2>4, <2>5, <2>6
<1>3. PICK b : Follows(b, n, Outer, Hits(name))
  BY <1>1, SearchExists
<1>4. Abstract!Binder(name) = CHOOSE c : c = Unfolded(c)
  <2>1. Abstract!Binder(name) =
            CHOOSE c : c = [f \in 0 .. Len(AsScopes) |->
                IF f = 0 THEN 0 ELSE IF name \in DOMAIN AsScopes[f] THEN f ELSE c[Outer[f]]]
    BY DEF Abstract!Binder, AsScopes, Outer
  <2>2. Len(AsScopes) = n
    BY LengthIs
  <2> QED BY <2>1, <2>2
<1>5. Abstract!Binder(name) = Unfolded(Abstract!Binder(name))
  <2>1. b = Unfolded(b)
    BY <1>2, <1>3
  <2> HIDE DEF Unfolded
  <2> QED BY <1>4, <2>1
<1>6. Follows(Abstract!Binder(name), n, Outer, Hits(name))
  BY <1>2, <1>5
<1>7. Follows(Binder(name), n, Outer, Hits(name))
  BY BinderIs
<1> QED
  BY <1>1, <1>6, <1>7, SearchIsUnique

\* A changed frame changes its scope alone.
LEMMA ChangedScope ==
    ASSUME IInv, NEW f \in Frames, NEW r, frames' = [frames EXCEPT ![f] = r],
           r.parent = frames[f].parent, NEW bindings, ScopeOf(r) = bindings
    PROVE  AsScopes' = [AsScopes EXCEPT ![f] = bindings] /\ Outer' = Outer
<1>1. Frames' = Frames /\ \A g \in Frames : frames'[g] = IF g = f THEN r ELSE frames[g]
  BY DEF Frames
<1>2. /\ AsScopes = [g \in Frames |-> ScopeOf(frames[g])]
      /\ AsScopes' = [g \in Frames |-> ScopeOf(frames'[g])]
  BY <1>1, ScopesAre DEF Frames
<1>3. \A g \in Frames :
        ScopeOf(frames'[g]) = IF g = f THEN bindings ELSE ScopeOf(frames[g])
  BY <1>1
<1> HIDE DEF ScopeOf
<1>4. AsScopes' = [AsScopes EXCEPT ![f] = bindings]
  BY <1>2, <1>3
<1>5. Outer' = Outer
  BY <1>1 DEF Outer
<1> QED
  BY <1>4, <1>5

\* A frame created is a scope opened.
LEMMA OpenStep ==
    ASSUME IInv, NEW parent \in 0 .. Len(frames), NewFrame(parent)
    PROVE  Abstract!Open(parent)
<1> DEFINE r == [parent |-> parent, count |-> 0, names |-> <<>>, values |-> <<>>]
           n == Len(frames)
           empty == [name \in {} |-> NoValue]
<1>1. /\ frames \in Seq(FrameRecord) /\ n \in Nat /\ Frames = 1 .. n
  BY FramesAre DEF IInv
<1>2. r \in FrameRecord /\ r.count = 0 /\ r.parent = parent
  BY <1>1, EmptySeq DEF FrameRecord, Names, Values
<1>3. ScopeOf(r) = empty
  <2>1. Bindings(r) = {}
    BY <1>2 DEF Bindings
  <2> QED BY <2>1 DEF ScopeOf
<1>4. frames' = Append(frames, r)
  BY DEF NewFrame
<1> HIDE DEF r
<1>5. /\ DOMAIN frames' = 1 .. n + 1
      /\ \A f \in 1 .. n : frames'[f] = frames[f]
      /\ frames'[n + 1] = r
  BY <1>1, <1>2, <1>4, AppendLast
<1>6. \A f \in 1 .. n + 1 : f \in 1 .. n \/ f = n + 1
  BY <1>1
<1>7. AsScopes' = Append(AsScopes, empty)
  <2>1. /\ DOMAIN AsScopes = 1 .. n /\ Len(AsScopes) = n
        /\ AsScopes = [f \in 1 .. n |-> ScopeOf(frames[f])]
    BY <1>1, LengthIs, ScopesAre
  <2>2. AsScopes' = [f \in 1 .. n + 1 |-> ScopeOf(frames'[f])]
    BY <1>5, ScopesAre
  <2>3. Append(AsScopes, empty) = [f \in 1 .. n + 1 |-> IF f = n + 1 THEN empty ELSE AsScopes[f]]
    BY <2>1 DEF Append
  <2>4. \A f \in 1 .. n + 1 : ScopeOf(frames'[f]) = IF f = n + 1 THEN empty ELSE AsScopes[f]
    <3> HIDE DEF empty, ScopeOf
    <3>1. n + 1 \notin 1 .. n
      BY <1>1
    <3> QED BY <1>3, <1>5, <1>6, <2>1, <3>1
  <2> HIDE DEF empty
  <2> QED BY <2>2, <2>3, <2>4
<1>8. Outer' = Append(Outer, parent)
  <2>1. /\ DOMAIN Outer = 1 .. n /\ Outer = [f \in 1 .. n |-> frames[f].parent]
    BY <1>1 DEF Outer
  <2>2. Len(Outer) = n
    <3>1. Outer \in [1 .. n -> {Outer[f] : f \in 1 .. n}]
      BY <2>1
    <3> HIDE DEF Outer
    <3> QED BY <1>1, <3>1, ArrayIs
  <2>3. Outer' = [f \in 1 .. n + 1 |-> frames'[f].parent]
    BY <1>5 DEF Outer, Frames
  <2>4. Append(Outer, parent) = [f \in 1 .. n + 1 |-> IF f = n + 1 THEN parent ELSE Outer[f]]
    BY <2>1, <2>2 DEF Append
  <2>5. \A f \in 1 .. n + 1 : frames'[f].parent = IF f = n + 1 THEN parent ELSE Outer[f]
    <3>1. n + 1 \notin 1 .. n
      BY <1>1
    <3> QED BY <1>2, <1>5, <1>6, <2>1, <3>1
  <2> QED BY <2>3, <2>4, <2>5
<1>9. reply' = [status |-> "OK", value |-> NoValue]
  BY DEF NewFrame, Reply
<1> QED
  BY <1>7, <1>8, <1>9 DEF AsScopes, Outer, Abstract!Open, Abstract!Reply

\* A definition binds the name in its scope, in place or appended.
LEMMA DefineStep ==
    ASSUME IInv, NEW f \in Frames, NEW name \in Name, NEW value \in Value,
           Replace(f, name, value) \/ Appends(f, name, value)
    PROVE  Abstract!Define(f, name, value)
<1> DEFINE bindings == Abstract!Bind(AsScopes[f], name, value)
<1>1. /\ AsScopes[f] = ScopeOf(frames[f]) /\ GoodFrame(f, frames[f]) /\ f \in Nat
  BY ScopesAre, OuterIs DEF IInv
<1>2. PICK r : /\ frames' = [frames EXCEPT ![f] = r]
               /\ r.parent = frames[f].parent
               /\ ScopeOf(r) = bindings
  <2>1. CASE Replace(f, name, value)
    <3>1. PICK i : i = Slot(f, name)
      OBVIOUS
    <3>2. frames' = [frames EXCEPT ![f] = Put(frames[f], i, value)]
      BY <2>1, <3>1 DEF Replace, Put
    <3>3. i \in 1 .. frames[f].count /\ frames[f].names[i] = name
      BY <2>1, <3>1, SlotHolds DEF Replace
    <3>4. /\ ScopeOf(Put(frames[f], i, value)) = bindings
          /\ Put(frames[f], i, value).parent = frames[f].parent
      BY <1>1, <3>3, PutScope, PutIsGood
    <3> QED BY <3>2, <3>4
  <2>2. CASE Appends(f, name, value)
    <3>1. PICK q : q = Roomy(f)
      OBVIOUS
    <3>2. /\ frames' = [frames EXCEPT ![f] = Extend(q, name, value)]
          /\ \A i \in 1 .. frames[f].count : frames[f].names[i] # name
      BY <2>2, <3>1, AppendStep
    <3>3. /\ GoodFrame(f, q) /\ q.parent = frames[f].parent /\ q.count = frames[f].count
          /\ q.count < Len(q.names)
          /\ \A i \in 1 .. frames[f].count :
                q.names[i] = frames[f].names[i] /\ q.values[i] = frames[f].values[i]
      BY <3>1, RoomyIs
    <3>4. ScopeOf(q) = ScopeOf(frames[f])
      BY <1>1, <3>3, SameScope
    <3>5. \A i \in 1 .. q.count : q.names[i] # name
      BY <3>2, <3>3
    <3>6. /\ ScopeOf(Extend(q, name, value)) = bindings
          /\ Extend(q, name, value).parent = frames[f].parent
      BY <1>1, <3>3, <3>4, <3>5, ExtendScope, ExtendIsGood
    <3> QED BY <3>2, <3>6
  <2> QED BY <2>1, <2>2
<1>3. AsScopes' = [AsScopes EXCEPT ![f] = bindings] /\ Outer' = Outer
  <2> HIDE DEF bindings
  <2> QED BY <1>2, ChangedScope
<1>4. reply' = [status |-> "OK", value |-> NoValue]
  BY AppendsIs DEF Replace, Reply
<1>5. AsScopes' = [AsScopes EXCEPT ![f] = Abstract!Bind(AsScopes[f], name, value)]
  BY <1>3
<1> QED
  BY <1>3, <1>4, <1>5 DEF AsScopes, Outer, Abstract!Define, Abstract!Reply

\* ml_env_set binds the name in the scope that the search finds.
LEMMA RebindStep ==
    ASSUME IInv, NEW f \in Frames, NEW name \in Name, NEW value \in Value, Set(f, name, value)
    PROVE  Abstract!Set(f, name, value)
<1>1. PICK g : g = Binder(name)[f] /\ g = Abstract!Binder(name)[f]
  BY SameBinder
<1>2. g = 0 \/ (g \in Frames /\ Slot(g, name) # 0)
  BY <1>1, BinderIs
<1>3. CASE g = 0
  <2>1. frames' = frames /\ reply' = [status |-> "UNBOUND", value |-> NoValue]
    BY <1>1, <1>3 DEF Set, Reply
  <2>2. AsScopes' = AsScopes /\ Outer' = Outer
    BY <2>1, ScopesAre DEF Outer, Frames
  <2> QED BY <1>1, <1>3, <2>1, <2>2 DEF AsScopes, Outer, Abstract!Set, Abstract!Reply
<1>4. CASE g # 0
  <2> DEFINE bindings == Abstract!Bind(AsScopes[g], name, value)
  <2>1. /\ g \in Frames /\ Slot(g, name) # 0
        /\ frames' = [frames EXCEPT ![g].values[Slot(g, name)] = value]
        /\ reply' = [status |-> "OK", value |-> NoValue]
    BY <1>1, <1>2, <1>4 DEF Set, Reply
  <2>2. AsScopes[g] = ScopeOf(frames[g]) /\ GoodFrame(g, frames[g]) /\ g \in Nat
    BY <2>1, ScopesAre, OuterIs DEF IInv
  <2>3. PICK i : i = Slot(g, name)
    OBVIOUS
  <2>4. PICK r : r = Put(frames[g], i, value)
    OBVIOUS
  <2>5. frames' = [frames EXCEPT ![g] = r]
    BY <2>1, <2>3, <2>4 DEF Put
  <2>6. i \in 1 .. frames[g].count /\ frames[g].names[i] = name
    BY <2>1, <2>3, SlotHolds
  <2>7. ScopeOf(r) = bindings /\ r.parent = frames[g].parent
    BY <2>2, <2>4, <2>6, PutScope, PutIsGood
  <2>8. AsScopes' = [AsScopes EXCEPT ![g] = bindings] /\ Outer' = Outer
    <3> HIDE DEF bindings
    <3> QED BY <2>1, <2>5, <2>7, ChangedScope
  <2>9. AsScopes' = [AsScopes EXCEPT ![g] = Abstract!Bind(AsScopes[g], name, value)]
    BY <2>8
  <2> QED
    BY <1>1, <1>4, <2>1, <2>8, <2>9 DEF AsScopes, Outer, Abstract!Set, Abstract!Reply
<1> QED
  BY <1>3, <1>4

\* ml_env_lookup gives the value that the name has in that scope.
LEMMA FindStep ==
    ASSUME IInv, NEW f \in Frames, NEW name \in Name, Lookup(f, name)
    PROVE  Abstract!Lookup(f, name)
<1>1. PICK g : g = Binder(name)[f] /\ g = Abstract!Binder(name)[f]
  BY SameBinder
<1>2. g = 0 \/ (g \in Frames /\ Slot(g, name) # 0)
  BY <1>1, BinderIs
<1>3. AsScopes' = AsScopes /\ Outer' = Outer
  BY ScopesAre DEF Lookup, Outer, Frames
<1>4. CASE g = 0
  <2>1. reply' = [status |-> "UNBOUND", value |-> NoValue]
    BY <1>1, <1>4 DEF Lookup, Reply
  <2> QED BY <1>1, <1>3, <1>4, <2>1 DEF AsScopes, Outer, Abstract!Lookup, Abstract!Reply
<1>5. CASE g # 0
  <2>1. /\ g \in Frames /\ Slot(g, name) # 0
        /\ reply' = [status |-> "OK", value |-> frames[g].values[Slot(g, name)]]
    BY <1>1, <1>2, <1>5 DEF Lookup, Reply
  <2>2. AsScopes[g][name] = frames[g].values[Slot(g, name)]
    <3>1. name \in DOMAIN AsScopes[g]
      BY <2>1, HitsAre
    <3> QED BY <2>1, <3>1 DEF AsScopes
  <2>3. reply' = [status |-> "OK", value |-> AsScopes[g][name]]
    BY <2>1, <2>2
  <2> QED
    BY <1>1, <1>3, <1>5, <2>3 DEF AsScopes, Outer, Abstract!Lookup, Abstract!Reply
<1> QED
  BY <1>4, <1>5

\* Every step of the frames is a step of the scopes.
LEMMA StepSimulation == IInv /\ [Next]_vars => [Abstract!Next]_(Abstract!vars)
<1> SUFFICES ASSUME IInv, [Next]_vars PROVE [Abstract!Next]_(Abstract!vars)
  OBVIOUS
<1>1. Len(AsScopes) = Len(frames) /\ DOMAIN AsScopes = Frames
  BY LengthIs
<1>2. frames' = frames => AsScopes' = AsScopes /\ Outer' = Outer
  BY ScopesAre DEF Outer, Frames
<1>3. ASSUME NEW parent \in 0 .. Len(frames), NewFrame(parent) PROVE Abstract!Next
  <2>1. parent \in 0 .. Len(AsScopes) /\ Abstract!Open(parent)
    BY <1>1, <1>3, OpenStep
  <2> QED BY <2>1 DEF Abstract!Next, AsScopes
<1>4. ASSUME NEW f \in Frames, NEW name \in Name, NamesFail(f, name) PROVE Abstract!Next
  <2>1. AsScopes' = AsScopes /\ Outer' = Outer /\ reply' = [status |-> "NOMEM", value |-> NoValue]
    BY <1>2, <1>4 DEF NamesFail, Reply
  <2>2. Abstract!Fail
    BY <2>1 DEF AsScopes, Outer, Abstract!Fail, Abstract!Reply
  <2> QED BY <2>2 DEF Abstract!Next
<1>5. ASSUME NEW f \in Frames, NEW name \in Name, Lookup(f, name) PROVE Abstract!Next
  <2>1. f \in DOMAIN AsScopes /\ Abstract!Lookup(f, name)
    BY <1>1, <1>5, FindStep
  <2> QED BY <2>1 DEF Abstract!Next, AsScopes
<1>6. ASSUME NEW f \in Frames, NEW name \in Name, NEW value \in Value,
             Replace(f, name, value) \/ Appends(f, name, value)
      PROVE  Abstract!Next
  <2>1. f \in DOMAIN AsScopes /\ Abstract!Define(f, name, value)
    BY <1>1, <1>6, DefineStep
  <2> QED BY <2>1 DEF Abstract!Next, AsScopes
<1>7. ASSUME NEW f \in Frames, NEW name \in Name, NEW value \in Value, Set(f, name, value)
      PROVE  Abstract!Next
  <2>1. f \in DOMAIN AsScopes /\ Abstract!Set(f, name, value)
    BY <1>1, <1>7, RebindStep
  <2> QED BY <2>1 DEF Abstract!Next, AsScopes
<1>8. CASE UNCHANGED vars
  <2>1. AsScopes' = AsScopes /\ Outer' = Outer /\ reply' = reply
    BY <1>2, <1>8 DEF vars
  <2> QED BY <2>1 DEF AsScopes, Outer, Abstract!vars
<1>9. CASE ValuesFail
  <2>1. AsScopes' = AsScopes /\ Outer' = Outer /\ reply' = [status |-> "NOMEM", value |-> NoValue]
    BY <1>2, <1>9 DEF ValuesFail, Reply
  <2>2. Abstract!Fail
    BY <2>1 DEF AsScopes, Outer, Abstract!Fail, Abstract!Reply
  <2> QED BY <2>2 DEF Abstract!Next
<1>10. ASSUME NEW f \in Frames, NEW name \in Name, NEW value \in Value, TakeNames(f, name, value)
       PROVE  UNCHANGED Abstract!vars
  <2>1. AsScopes' = AsScopes /\ Outer' = Outer /\ reply' = reply
    BY <1>2, <1>10 DEF TakeNames
  <2> QED BY <2>1 DEF AsScopes, Outer, Abstract!vars
<1> QED
  BY <1>3, <1>4, <1>5, <1>6, <1>7, <1>8, <1>9, <1>10 DEF Next, Appends

\* No frame is no scope.
LEMMA InitSimulation == Init => Abstract!Init
<1> SUFFICES ASSUME Init PROVE Abstract!Init
  OBVIOUS
<1>1. Frames = {} /\ Frames = 1 .. 0
  BY EmptySeq, LenProperties DEF Init, Frames
<1>2. AsScopes = <<>> /\ Outer = <<>>
  <2>1. AsScopes \in [1 .. 0 -> {}] /\ Outer \in [1 .. 0 -> {}]
    BY <1>1 DEF AsScopes, Outer
  <2> HIDE DEF AsScopes, Outer
  <2>2. AsScopes \in Seq({}) /\ Len(AsScopes) = 0 /\ Outer \in Seq({}) /\ Len(Outer) = 0
    BY <2>1, ArrayIs
  <2> QED BY <2>2, EmptySeq
<1>3. reply = [status |-> "OK", value |-> NoValue]
  BY DEF Init
<1> QED
  BY <1>2, <1>3 DEF AsScopes, Outer, Abstract!Init

\* Frames are nested scopes (env.c): a growth of the arrays, a growth that fails
\* or a definition in another frame never changes what a name means.
THEOREM FramesAreScopes == Spec => ImplementsScopes
BY Invariance, InitSimulation, StepSimulation, PTL DEF Spec, ImplementsScopes, Abstract!Spec
=============================================================================
