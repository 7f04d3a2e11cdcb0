---------------------------- MODULE ReaderProofs ----------------------------
(***************************************************************************)
(* Theorems about Reader, for any texts, any limit of depth, any memory    *)
(* and an allocator that may fail or collect at every request.             *)
(*                                                                         *)
(*   ReaderTypeCorrect     the type invariant;                             *)
(*   ReaderRoots           what the reader holds survives a collection;    *)
(*   ReaderGivesSlotsBack  the layout of the protect stack;                *)
(*   ReaderDepthIsExact    the depth is the number of open lists;          *)
(*   ReaderFreesScratch    scratch buffers are freed on every path.        *)
(*                                                                         *)
(* The inductive invariant, IInv, says why Rooted holds: a list frame      *)
(* protects its dummy head alone, and its tail, which it also holds, is    *)
(* reached from that head, since no other frame has the same tail and a    *)
(* tail's cdr is still nil when the next cell is linked to it.             *)
(***************************************************************************)
EXTENDS Reader, Lemmas

-----------------------------------------------------------------------------
(***************************************************************************)
(* The operators of module Heap, for a heap of any size: Reach is the least*)
(* set that holds its argument and that no reference leaves.               *)
(***************************************************************************)
\* What the cell at a refers to.
RefsOf(h, a) == Addresses(Range(h[a].refs))

\* A heap whose references are addresses.
IsHeap(h) == \A a \in Addr : RefsOf(h, a) \subseteq Addr

\* No reference leaves the set.
Closed(h, set) == \A a \in set : RefsOf(h, a) \subseteq set

-----------------------------------------------------------------------------
\* Room means that the allocator finds a free cell.
LEMMA NextFreeIsFree ==
    ASSUME NEW h, Room(h)
    PROVE  NextFree(h) \in Addr /\ h[NextFree(h)] = Free
<1> DEFINE free == {a \in Addr : h[a] = Free}
<1>1. free \in SUBSET Nat /\ free # {}
  BY HeapAssumption DEF Room, Addr
<1>2. PICK n \in free : \A m \in free : n <= m
  BY <1>1, LeastNatural
<1>3. \A b \in 1 .. n - 1 : h[b] # Free
  <2> SUFFICES ASSUME NEW b \in 1 .. n - 1, h[b] = Free PROVE FALSE
    OBVIOUS
  <2>1. b \in free /\ ~(n <= b)
    BY <1>2, HeapAssumption DEF Addr
  <2> QED BY <2>1, <1>2
<1>4. \E a \in Addr : h[a] = Free /\ \A b \in 1 .. a - 1 : h[b] # Free
  BY <1>2, <1>3
<1> QED
  BY <1>4 DEF NextFree

\* The recursion of Reach has a solution: a search that follows references.
LEMMA ReachSearches ==
    ASSUME NEW h, IsHeap(h)
    PROVE  \E f, more :
             /\ Growing(Addr, more) /\ Searches(f, Addr, more)
             /\ \A as \in SUBSET Addr : more[as] = as \cup UNION {RefsOf(h, a) : a \in as}
             /\ \A as \in SUBSET Addr : Reach(h, as) = f[as]
<1> DEFINE More(as) == as \cup UNION {RefsOf(h, a) : a \in as}
           Step(f) == [as \in SUBSET Addr |-> IF More(as) = as THEN as ELSE f[More(as)]]
           more == [as \in SUBSET Addr |-> More(as)]
           reach == CHOOSE f : f = Step(f)
<1>1. \A as \in SUBSET Addr : More(as) \in SUBSET Addr
  BY DEF IsHeap
<1>2. Growing(Addr, more)
  BY <1>1 DEF Growing
<1>3. \A f : Searches(f, Addr, more) <=> f = Step(f)
  <2> SUFFICES ASSUME NEW f
               PROVE  [as \in SUBSET Addr |-> IF more[as] = as THEN as ELSE f[more[as]]] = Step(f)
    BY DEF Searches
  <2>1. \A as \in SUBSET Addr : more[as] = More(as)
    OBVIOUS
  <2> HIDE DEF more, More
  <2> QED BY <2>1
<1>4. Searches(reach, Addr, more)
  <2>1. \E f : Searches(f, Addr, more)
    BY <1>2, SpreadingExists
  <2> HIDE DEF Step, more
  <2> QED BY <1>3, <2>1
<1>5. \A as \in SUBSET Addr : Reach(h, as) = reach[as]
  BY DEF Reach, RefsOf
<1>6. \A as \in SUBSET Addr : more[as] = as \cup UNION {RefsOf(h, a) : a \in as}
  OBVIOUS
<1> HIDE DEF reach, more
<1> QED
  BY <1>2, <1>4, <1>5, <1>6

\* What can be reached from some addresses holds them, no reference leaves it,
\* and it is the least such set.
LEMMA ReachIsClosed ==
    ASSUME NEW h, IsHeap(h), NEW from \in SUBSET Addr
    PROVE  /\ Reach(h, from) \in SUBSET Addr
           /\ from \subseteq Reach(h, from)
           /\ Closed(h, Reach(h, from))
           /\ \A set \in SUBSET Addr : from \subseteq set /\ Closed(h, set) => Reach(h, from) \subseteq set
<1>1. PICK f, more :
        /\ Growing(Addr, more) /\ Searches(f, Addr, more)
        /\ \A as \in SUBSET Addr : more[as] = as \cup UNION {RefsOf(h, a) : a \in as}
        /\ \A as \in SUBSET Addr : Reach(h, as) = f[as]
  BY ReachSearches
<1>2. ASSUME NEW set \in SUBSET Addr PROVE Closed(h, set) <=> more[set] = set
  <2>1. more[set] = set \cup UNION {RefsOf(h, a) : a \in set}
    BY <1>1
  <2>2. Closed(h, set) <=> UNION {RefsOf(h, a) : a \in set} \subseteq set
    BY DEF Closed
  <2> QED BY <2>1, <2>2
<1>3. IsFiniteSet(Addr)
  BY HeapAssumption, FS_Interval DEF Addr
<1>4. /\ f[from] \in SUBSET Addr /\ from \subseteq f[from] /\ more[f[from]] = f[from]
      /\ \A set \in SUBSET Addr : from \subseteq set /\ more[set] = set => f[from] \subseteq set
  BY <1>1, <1>3, SpreadingIsLeast
<1> QED
  BY <1>1, <1>2, <1>4

\* Reach is contained in every closed set that contains where it starts.
LEMMA ReachIsLeast ==
    ASSUME NEW h, IsHeap(h), NEW from \in SUBSET Addr,
           NEW set \in SUBSET Addr, from \subseteq set, Closed(h, set)
    PROVE  Reach(h, from) \subseteq set
BY ReachIsClosed

\* More references reach no less.
LEMMA ReachIsMonotonic ==
    ASSUME NEW h, NEW g, IsHeap(h), IsHeap(g), NEW from \in SUBSET Addr,
           \A a \in Addr : RefsOf(h, a) \subseteq RefsOf(g, a)
    PROVE  Reach(h, from) \subseteq Reach(g, from)
<1>1. /\ Reach(g, from) \in SUBSET Addr
      /\ from \subseteq Reach(g, from)
      /\ Closed(g, Reach(g, from))
  BY ReachIsClosed
<1>2. Closed(h, Reach(g, from))
  BY <1>1 DEF Closed
<1> QED
  BY <1>1, <1>2, ReachIsLeast

\* A collection keeps every cell that the roots reach as it is, and from such a
\* cell reaches what could be reached before.
LEMMA SweptKeeps ==
    ASSUME NEW h, IsHeap(h), NEW roots, Addresses(roots) \subseteq Addr
    PROVE  LET reached == Reach(h, Addresses(roots)) IN
           /\ reached \in SUBSET Addr
           /\ Addresses(roots) \subseteq reached
           /\ Closed(h, reached)
           /\ \A a \in Addr : Swept(h, roots)[a] = IF a \in reached THEN h[a] ELSE Free
           /\ \A a \in reached : Reach(h, {a}) \subseteq Reach(Swept(h, roots), {a})
<1> DEFINE reached == Reach(h, Addresses(roots))
           g == Swept(h, roots)
<1>1. /\ reached \in SUBSET Addr
      /\ Addresses(roots) \subseteq reached
      /\ Closed(h, reached)
  BY ReachIsClosed
<1>2. \A a \in Addr : g[a] = IF a \in reached THEN h[a] ELSE Free
  BY DEF Swept
<1> HIDE DEF reached, g
<1>3. \A a \in Addr : RefsOf(g, a) = IF a \in reached THEN RefsOf(h, a) ELSE {}
  <2>1. Free.refs = <<>> /\ Addresses(Range(<<>>)) = {}
    BY DEF Addresses, Range, Free, Cell
  <2> QED BY <1>2, <2>1 DEF RefsOf
<1>4. IsHeap(g)
  BY <1>3 DEF IsHeap
<1>5. ASSUME NEW a \in reached PROVE Reach(h, {a}) \subseteq Reach(g, {a})
  <2>1. /\ Reach(g, {a}) \in SUBSET Addr
        /\ a \in Reach(g, {a})
        /\ Closed(g, Reach(g, {a}))
    BY <1>1, <1>4, <1>5, ReachIsClosed
  <2> DEFINE both == reached \cap Reach(g, {a})
  <2>2. Closed(h, both)
    BY <1>1, <1>3, <2>1 DEF Closed
  <2>3. Reach(h, {a}) \subseteq both
    BY <1>1, <1>5, <2>1, <2>2, ReachIsLeast
  <2> QED BY <2>3
<1> QED
  BY <1>1, <1>2, <1>5 DEF reached, g

-----------------------------------------------------------------------------
(***************************************************************************)
(* The invariant.                                                          *)
(***************************************************************************)

Value == ({"SYM", "IMM"} \X {"nil", "eof", "a", ".", "quote"}) \cup ({"OBJ"} \X Addr)
PairOf(car, cdr) == Cell("PAIR", <<car, cdr>>, <<>>)
Pairs == {PairOf(car, cdr) : car \in Value, cdr \in Value}
LastPairs == {PairOf(car, Nil) : car \in Value}
String == Cell("STRING", <<>>, <<"s">>)
Cells == {Free, String} \cup Pairs
Pcs == ListPcs \cup {"quoted", "inner", "outer", "string"}
Frames == [pc : Pcs, sp : Nat, head : Value, tail : Value, item : Value]
Statuses == {"OK", "NOMEM", "OVERFLOW", "READ_SYNTAX", "READ_TRUNCATED", "READ_DEPTH"}

Types ==
    /\ text \in Texts
    /\ pos \in 1 .. Len(text) + 1
    /\ start \in 1 .. pos
    /\ depth \in 0 .. MaxReadDepth
    /\ stack \in Seq(Frames)
    /\ reg \in [mode : {"idle", "call", "run", "return"}, status : Statuses, value : Value]
    /\ heap \in [Addr -> Cells]
    /\ protect \in Seq(Value)
    /\ raw \in Nat
    /\ outcome \in Statuses \cup {""}

\* The calls below the innermost wait for one that they have made.
Waiting == {"elem", "tail", "quoted"}
Control ==
    /\ reg.mode # "return" => reg.status = "OK" /\ reg.value = Nil
    /\ reg.mode # "idle" => outcome = ""
    /\ reg.mode = "idle" => stack = <<>>
    /\ reg.mode = "run" => stack # <<>> /\ Top.pc \in Allocating \cup {"items"}
    /\ \A i \in DOMAIN stack : i < Len(stack) \/ reg.mode # "run" => stack[i].pc \in Waiting

\* The slots of a call are its own.
Layout ==
    /\ ProtectLayout
    /\ \A i \in DOMAIN stack : stack[i].sp + Slots(stack[i]) <= Len(protect)
    /\ \A i, j \in DOMAIN stack : i < j => stack[i].sp + Slots(stack[i]) <= stack[j].sp

Building == {"items", "elem", "tail", "cell"}

\* A partial list: its head is protected, and reaches the tail.
ListHeld(f, h, p) ==
    /\ f.head = p[f.sp + 1] /\ IsObj(f.head) /\ h[f.head[2]] \in Pairs
    /\ IsObj(f.tail) /\ h[f.tail[2]] \in LastPairs
    /\ f.tail[2] \in Reach(h, {f.head[2]})

\* What a call holds is protected, or reached from what is.
Held(f, h, p) ==
    /\ IF f.pc \in Building THEN ListHeld(f, h, p) ELSE f.head = Nil /\ f.tail = Nil
    /\ CASE f.pc = "cell" -> f.item = p[f.sp + 2]
         [] f.pc \in {"inner", "outer"} -> f.item = p[f.sp + 1]
         [] OTHER -> f.item = Nil

TailsDiffer ==
    \A i, j \in DOMAIN stack :
        i # j /\ {stack[i].pc, stack[j].pc} \subseteq Building => stack[i].tail # stack[j].tail

NoDangling ==
    /\ \A i \in DOMAIN protect : Alive(protect[i])
    /\ Alive(reg.value)
    /\ \A a \in Addr : \A b \in RefsOf(heap, a) : heap[b] # Free

IInv ==
    /\ Types /\ Control /\ Layout
    /\ \A i \in DOMAIN stack : Held(stack[i], heap, protect)
    /\ TailsDiffer /\ NoDangling
    /\ DepthExact /\ ScratchExact

-----------------------------------------------------------------------------
(***************************************************************************)
(* Values and cells.                                                       *)
(***************************************************************************)

\* What the reader makes are values; an object is known by its address.
LEMMA Values ==
    /\ {Nil, Eof, QuoteSymbol, Sym("a"), Sym(".")} \subseteq Value
    /\ \A v \in {Nil, Eof, QuoteSymbol, Sym("a"), Sym(".")} : ~IsObj(v)
    /\ \A a \in Addr : Ref(a) \in Value /\ IsObj(Ref(a)) /\ Ref(a)[2] = a
    /\ \A v \in Value : IsObj(v) => v[2] \in Addr /\ v = Ref(v[2])
BY DEF Value, Nil, Eof, QuoteSymbol, Sym, Ref, IsObj

\* The kinds of the cells and their references.
LEMMA CellKinds ==
    /\ Free.kind = "FREE" /\ Free.refs = <<>>
    /\ String.kind = "STRING" /\ String.refs = <<>>
    /\ \A x, y \in Value : PairOf(x, y).kind = "PAIR" /\ PairOf(x, y).refs = <<x, y>>
BY DEF Free, String, PairOf, Cell

\* A cell is free, a string or a pair, and its kind says which.
LEMMA CellTypes ==
    /\ Free \in Cells /\ String \in Cells
    /\ \A x, y \in Value : PairOf(x, y) \in Pairs /\ PairOf(x, y) \in Cells
    /\ \A x \in Value : PairOf(x, Nil) \in LastPairs
    /\ LastPairs \subseteq Pairs
    /\ Free \notin Pairs /\ Free # String
    /\ \A c \in Cells : c.kind \in {"FREE", "PAIR", "STRING"} /\ (c.kind = "FREE" <=> c = Free)
  <1>1. Free \in Cells /\ String \in Cells /\ Nil \in Value
    BY Values DEF Cells
  <1>2. \A x, y \in Value : PairOf(x, y) \in Pairs /\ PairOf(x, y) \in Cells
    BY DEF Cells, Pairs
  <1>3. /\ \A x \in Value : PairOf(x, Nil) \in LastPairs
        /\ LastPairs \subseteq Pairs
    BY <1>1 DEF LastPairs, Pairs
  <1>4. \A c \in Pairs : c.kind = "PAIR"
    BY CellKinds DEF Pairs
  <1>5. Free \notin Pairs /\ Free # String
    BY <1>4, CellKinds
  <1>6. \A c \in Cells : c.kind \in {"FREE", "PAIR", "STRING"} /\ (c.kind = "FREE" <=> c = Free)
    BY <1>4, CellKinds DEF Cells
  <1> QED BY <1>1, <1>2, <1>3, <1>5, <1>6

\* What a cell refers to.
LEMMA CellRefs ==
    ASSUME NEW h, NEW a
    PROVE  /\ h[a] \in {Free, String} => RefsOf(h, a) = {}
           /\ \A x, y \in Value : h[a] = PairOf(x, y) => RefsOf(h, a) = Addresses({x, y})
<1>1. Range(<<>>) = {} /\ Addresses({}) = {}
  BY DEF Range, Addresses
<1>2. \A x, y \in Value : Range(<<x, y>>) = {x, y}
  BY DEF Range
<1>3. h[a] \in {Free, String} => h[a].refs = <<>>
  BY CellKinds
<1>4. ASSUME NEW x \in Value, NEW y \in Value, h[a] = PairOf(x, y)
      PROVE  h[a].refs = <<x, y>>
  BY <1>4, CellKinds
<1> QED
  BY <1>1, <1>2, <1>3, <1>4 DEF RefsOf

\* What a cell refers to is an address.
LEMMA HeapsAreHeaps ==
    ASSUME NEW h \in [Addr -> Cells]
    PROVE  IsHeap(h)
<1> SUFFICES ASSUME NEW a \in Addr PROVE RefsOf(h, a) \subseteq Addr
  BY DEF IsHeap
<1>1. h[a] \in Cells
  OBVIOUS
<1>2. CASE h[a] \in {Free, String}
  BY <1>2, CellRefs
<1>3. CASE h[a] \in Pairs
  <2>1. PICK x \in Value, y \in Value : h[a] = PairOf(x, y)
    BY <1>3 DEF Pairs
  <2>2. RefsOf(h, a) = Addresses({x, y})
    BY <2>1, CellRefs
  <2> QED BY <2>2, Values DEF Addresses
<1> QED
  BY <1>1, <1>2, <1>3 DEF Cells

\* Linking a cell to a pair sets its cdr.
LEMMA LinkedPair ==
    ASSUME NEW x \in Value, NEW y \in Value, NEW z \in Value
    PROVE  [PairOf(x, y) EXCEPT !.refs[2] = z] = PairOf(x, z)
<1>1. [<<x, y>> EXCEPT ![2] = z] = <<x, z>>
  OBVIOUS
<1> QED
  BY <1>1 DEF PairOf, Cell

\* The slots of a call, by where it is.
LEMMA SlotsAre ==
    ASSUME NEW f \in Frames
    PROVE  /\ Slots(f) \in {0, 1, 2}
           /\ f.pc \in {"items", "elem", "tail", "inner", "outer"} => Slots(f) = 1
           /\ f.pc = "cell" => Slots(f) = 2
           /\ f.pc \in {"head", "quoted", "string"} => Slots(f) = 0
BY DEF Slots

-----------------------------------------------------------------------------
(***************************************************************************)
(* Changes of the heap.                                                    *)
(***************************************************************************)

\* A new cell is where nothing was, and takes nothing out of reach.
LEMMA PutFacts ==
    ASSUME NEW h \in [Addr -> Cells], Room(h), NEW cell \in Cells
    PROVE  LET g == Put(h, cell) IN
           /\ NextFree(h) \in Addr /\ h[NextFree(h)] = Free
           /\ g \in [Addr -> Cells] /\ g[NextFree(h)] = cell
           /\ \A a \in Addr : a # NextFree(h) => g[a] = h[a]
           /\ \A from \in SUBSET Addr : Reach(h, from) \subseteq Reach(g, from)
<1> DEFINE n == NextFree(h)
           g == Put(h, cell)
<1>1. n \in Addr /\ h[n] = Free
  BY NextFreeIsFree
<1>2. g = [h EXCEPT ![n] = cell]
  BY DEF Put
<1> HIDE DEF n, g
<1>3. /\ g \in [Addr -> Cells] /\ g[n] = cell
      /\ \A a \in Addr : a # n => g[a] = h[a]
  BY <1>1, <1>2
<1>4. \A a \in Addr : RefsOf(h, a) \subseteq RefsOf(g, a)
  <2>1. RefsOf(h, n) = {}
    BY <1>1, CellRefs
  <2> QED BY <1>3, <2>1 DEF RefsOf
<1>5. \A from \in SUBSET Addr : Reach(h, from) \subseteq Reach(g, from)
  BY <1>3, <1>4, HeapsAreHeaps, ReachIsMonotonic
<1> QED
  BY <1>1, <1>3, <1>5 DEF n, g

\* Linking the last pair of a list to a value takes nothing out of reach.
LEMMA LinkFacts ==
    ASSUME NEW h \in [Addr -> Cells], NEW t \in Addr, h[t] \in LastPairs, NEW z \in Value
    PROVE  LET g == [h EXCEPT ![t].refs[2] = z] IN
           /\ g \in [Addr -> Cells] /\ g[t] \in Pairs
           /\ \A a \in Addr : a # t => g[a] = h[a]
           /\ RefsOf(g, t) = RefsOf(h, t) \cup Addresses({z})
           /\ \A from \in SUBSET Addr : Reach(h, from) \subseteq Reach(g, from)
<1> DEFINE g == [h EXCEPT ![t].refs[2] = z]
<1>1. PICK x \in Value : h[t] = PairOf(x, Nil)
  BY DEF LastPairs
<1>2. Nil \in Value /\ ~IsObj(Nil)
  BY Values
<1>3. [h[t] EXCEPT !.refs[2] = z] = PairOf(x, z)
  BY <1>1, <1>2, LinkedPair
<1>4. g = [h EXCEPT ![t] = PairOf(x, z)]
  BY <1>3
<1> HIDE DEF g
<1>5. PairOf(x, z) \in Pairs /\ PairOf(x, z) \in Cells
  BY CellTypes
<1>6. /\ g \in [Addr -> Cells] /\ g[t] = PairOf(x, z)
      /\ \A a \in Addr : a # t => g[a] = h[a]
  BY <1>4, <1>5
<1>7. RefsOf(h, t) = Addresses({x, Nil}) /\ RefsOf(g, t) = Addresses({x, z})
  BY <1>1, <1>2, <1>6, CellRefs
<1>8. Addresses({x, z}) = Addresses({x, Nil}) \cup Addresses({z})
  BY <1>2 DEF Addresses
<1>9. \A a \in Addr : RefsOf(h, a) \subseteq RefsOf(g, a)
  <2> SUFFICES ASSUME NEW a \in Addr PROVE RefsOf(h, a) \subseteq RefsOf(g, a)
    OBVIOUS
  <2>1. CASE a = t
    BY <2>1, <1>7, <1>8
  <2>2. CASE a # t
    BY <2>2, <1>6 DEF RefsOf
  <2> QED BY <2>1, <2>2
<1>10. \A from \in SUBSET Addr : Reach(h, from) \subseteq Reach(g, from)
  BY <1>6, <1>9, HeapsAreHeaps, ReachIsMonotonic
<1> QED
  BY <1>5, <1>6, <1>7, <1>8, <1>10 DEF g

\* What a call holds it keeps when its slots stay and so do, and reach what they
\* did, the cells of its list.
LEMMA HeldStays ==
    ASSUME NEW f \in Frames, NEW h, NEW g, NEW p, NEW q, Held(f, h, p),
           \A k \in 1 .. f.sp + Slots(f) : q[k] = p[k],
           f.pc \in Building =>
               /\ g[f.head[2]] \in Pairs /\ g[f.tail[2]] \in LastPairs
               /\ Reach(h, {f.head[2]}) \subseteq Reach(g, {f.head[2]})
    PROVE  Held(f, g, q)
<1>1. f.sp \in Nat
  BY DEF Frames
<1>2. CASE f.pc \in Building
  <2>1. Slots(f) \in {1, 2} /\ q[f.sp + 1] = p[f.sp + 1]
    BY <1>1, <1>2, SlotsAre DEF Building
  <2>2. ListHeld(f, g, q)
    BY <1>2, <2>1 DEF Held, ListHeld
  <2>3. f.pc = "cell" => q[f.sp + 2] = p[f.sp + 2]
    BY <1>1, SlotsAre
  <2> QED BY <1>2, <2>2, <2>3 DEF Held, Building
<1>3. CASE f.pc \notin Building
  <2>1. f.pc \in {"inner", "outer"} => q[f.sp + 1] = p[f.sp + 1]
    BY <1>1, SlotsAre
  <2> QED BY <1>3, <2>1 DEF Held, Building
<1> QED
  BY <1>2, <1>3

\* With one heap, only the slots matter.
LEMMA HeldThere ==
    ASSUME NEW f \in Frames, NEW h, NEW p, NEW q, Held(f, h, p),
           \A k \in 1 .. f.sp + Slots(f) : q[k] = p[k]
    PROVE  Held(f, h, q)
<1>1. f.pc \in Building =>
        /\ h[f.head[2]] \in Pairs /\ h[f.tail[2]] \in LastPairs
  BY DEF Held, ListHeld
<1> QED
  BY <1>1, HeldStays

-----------------------------------------------------------------------------
(***************************************************************************)
(* Changes of the stack and of the protect stack.                          *)
(***************************************************************************)

\* Places on a stack of n calls.
LEMMA Places ==
    ASSUME NEW n \in Nat \ {0}
    PROVE  /\ n - 1 \in Nat /\ n - 1 <= n /\ n \in 1 .. n /\ ~(n < n)
           /\ \A i \in 1 .. n - 1 : i \in 1 .. n /\ i < n /\ i # n
           /\ \A i \in 1 .. n : i = n \/ i \in 1 .. n - 1
OBVIOUS

\* The call in control.
LEMMA TopIs ==
    ASSUME Types, stack # <<>>
    PROVE  /\ Len(stack) \in Nat \ {0} /\ DOMAIN stack = 1 .. Len(stack)
           /\ Top = stack[Len(stack)] /\ Top \in Frames /\ Top.sp \in Nat
<1>1. Len(stack) \in Nat \ {0} /\ Top = stack[Len(stack)] /\ Top \in Frames
  BY FrontLast DEF Types, Top
<1>2. DOMAIN stack = 1 .. Len(stack)
  BY LenProperties DEF Types
<1> QED
  BY <1>1, <1>2 DEF Frames

\* A call that makes another one.
LEMMA PushFacts ==
    ASSUME Types, Layout, NEW f \in Frames, f.sp = Len(protect), Slots(f) = 0,
           stack' = Append(stack, f), protect' = protect
    PROVE  /\ stack' \in Seq(Frames) /\ stack' # <<>>
           /\ Len(stack) \in Nat /\ Len(stack') = Len(stack) + 1
           /\ DOMAIN stack = 1 .. Len(stack) /\ DOMAIN stack' = 1 .. Len(stack')
           /\ \A i \in 1 .. Len(stack) : stack'[i] = stack[i]
           /\ stack'[Len(stack')] = f /\ Top' = f
           /\ Layout'
<1>1. DOMAIN stack = 1 .. Len(stack) /\ DOMAIN stack' = 1 .. Len(stack')
  <2>1. stack \in Seq(Frames)
    BY DEF Types
  <2> QED BY <2>1, AppendLast
<1>2. /\ stack' \in Seq(Frames) /\ Len(stack) \in Nat /\ Len(stack') = Len(stack) + 1
      /\ \A i \in 1 .. Len(stack) : stack'[i] = stack[i]
      /\ stack'[Len(stack')] = f
  <2>1. stack \in Seq(Frames)
    BY DEF Types
  <2> QED BY <2>1, AppendLast
<1>3. stack' # <<>> /\ Top' = f
  BY <1>2 DEF Top, Last
<1>4. Len(protect) \in Nat
  BY LenProperties DEF Types
<1>5. ProtectLayout'
  <2> SUFFICES ASSUME NEW i \in 0 .. Len(stack')
               PROVE  (IF i = 0 THEN 0 ELSE stack'[i].sp + Slots(stack'[i]))
                        = IF i = Len(stack') THEN Len(protect') ELSE stack'[i + 1].sp
    BY DEF ProtectLayout, Slots
  <2>1. i \in 0 .. Len(stack) + 1
    BY <1>2
  <2>2. CASE i = Len(stack')
    BY <2>2, <1>2, <1>4
  <2>3. CASE i = Len(stack)
    <3>1. (IF i = 0 THEN 0 ELSE stack[i].sp + Slots(stack[i])) = Len(protect)
      BY <2>3, <1>2 DEF Layout, ProtectLayout
    <3> QED BY <3>1, <2>3, <1>2
  <2>4. CASE i < Len(stack)
    <3>1. i \in 0 .. Len(stack) /\ i + 1 \in 1 .. Len(stack) /\ i # Len(stack)
      BY <2>1, <2>4, <1>2
    <3>2. (IF i = 0 THEN 0 ELSE stack[i].sp + Slots(stack[i])) = stack[i + 1].sp
      BY <3>1 DEF Layout, ProtectLayout
    <3> QED BY <3>1, <3>2, <2>4, <1>2
  <2> QED BY <2>1, <2>2, <2>3, <2>4, <1>2
<1>6. \A i \in DOMAIN stack' : stack'[i].sp + Slots(stack'[i]) <= Len(protect')
  BY <1>1, <1>2, <1>4 DEF Layout
<1>7. \A i, j \in DOMAIN stack' : i < j => stack'[i].sp + Slots(stack'[i]) <= stack'[j].sp
  BY <1>1, <1>2, <1>4 DEF Layout
<1> QED
  BY <1>1, <1>2, <1>3, <1>5, <1>6, <1>7 DEF Layout, Slots

\* A call that goes on, with other slots of its own.
LEMMA SetTopFacts ==
    ASSUME Types, Layout, stack # <<>>, NEW f \in Frames, f.sp = Top.sp,
           stack' = [stack EXCEPT ![Len(stack)] = f],
           protect' \in Seq(Value), Len(protect') = f.sp + Slots(f)
    PROVE  /\ stack' \in Seq(Frames) /\ stack' # <<>>
           /\ Len(stack) \in Nat \ {0} /\ Len(stack') = Len(stack)
           /\ DOMAIN stack = 1 .. Len(stack) /\ DOMAIN stack' = 1 .. Len(stack)
           /\ \A i \in 1 .. Len(stack) - 1 : stack'[i] = stack[i]
           /\ stack'[Len(stack)] = f /\ Top' = f
           /\ \A i \in 1 .. Len(stack) - 1 : stack[i].sp + Slots(stack[i]) <= Top.sp
           /\ Layout'
<1>1. /\ Len(stack) \in Nat \ {0} /\ DOMAIN stack = 1 .. Len(stack)
      /\ Top = stack[Len(stack)] /\ Top \in Frames /\ Top.sp \in Nat
  BY TopIs
<1>2. /\ stack' \in Seq(Frames) /\ Len(stack') = Len(stack)
      /\ DOMAIN stack' = 1 .. Len(stack)
      /\ \A i \in 1 .. Len(stack) - 1 : stack'[i] = stack[i]
      /\ stack'[Len(stack)] = f
  <2>1. stack \in Seq(Frames)
    BY DEF Types
  <2> QED BY <2>1, ExceptLast
<1>3. stack' # <<>> /\ Top' = f
  BY <1>1, <1>2 DEF Top, Last
<1>4. \A i \in 1 .. Len(stack) - 1 : stack[i].sp + Slots(stack[i]) <= Top.sp
  BY <1>1 DEF Layout
<1>5. Slots(f) \in {0, 1, 2}
  BY SlotsAre
<1>6. ProtectLayout'
  <2> SUFFICES ASSUME NEW i \in 0 .. Len(stack')
               PROVE  (IF i = 0 THEN 0 ELSE stack'[i].sp + Slots(stack'[i]))
                        = IF i = Len(stack') THEN Len(protect') ELSE stack'[i + 1].sp
    BY DEF ProtectLayout, Slots
  <2>1. CASE i = Len(stack)
    BY <2>1, <1>1, <1>2
  <2>2. CASE i < Len(stack)
    <3>1. (IF i = 0 THEN 0 ELSE stack[i].sp + Slots(stack[i])) = stack[i + 1].sp
      BY <2>2, <1>1, <1>2 DEF Layout, ProtectLayout
    <3>2. stack'[i + 1].sp = stack[i + 1].sp
      <4>1. CASE i + 1 = Len(stack)
        BY <4>1, <1>1, <1>2
      <4>2. CASE i + 1 # Len(stack)
        <5>1. i + 1 \in 1 .. Len(stack) - 1
          BY <4>2, <2>2, <1>1, <1>2
        <5> QED BY <5>1, <1>2
      <4> QED BY <4>1, <4>2
    <3>3. i # 0 => stack'[i] = stack[i]
      BY <2>2, <1>1, <1>2
    <3> QED BY <3>1, <3>2, <3>3, <2>2, <1>1, <1>2
  <2> QED BY <2>1, <2>2, <1>1, <1>2
<1>7. \A i \in DOMAIN stack' : stack'[i].sp + Slots(stack'[i]) <= Len(protect')
  <2> SUFFICES ASSUME NEW i \in 1 .. Len(stack)
               PROVE  stack'[i].sp + Slots(stack'[i]) <= Len(protect')
    BY <1>2
  <2>1. CASE i = Len(stack)
    BY <2>1, <1>1, <1>2, <1>5
  <2>2. CASE i # Len(stack)
    <3>1. i \in 1 .. Len(stack) - 1
      BY <2>2, <1>1
    <3>2. stack \in Seq(Frames) /\ stack[i] \in Frames
      BY ElementOfSeq DEF Types
    <3>3. stack[i].sp \in Nat /\ Slots(stack[i]) \in {0, 1, 2}
      BY <3>2, SlotsAre DEF Frames
    <3> QED BY <3>1, <3>3, <1>1, <1>2, <1>4, <1>5
  <2> QED BY <2>1, <2>2
<1>8. \A i, j \in DOMAIN stack' : i < j => stack'[i].sp + Slots(stack'[i]) <= stack'[j].sp
  <2> SUFFICES ASSUME NEW i \in 1 .. Len(stack), NEW j \in 1 .. Len(stack), i < j
               PROVE  stack'[i].sp + Slots(stack'[i]) <= stack'[j].sp
    BY <1>2, ZenonT(30)
  <2>1. stack'[i] = stack[i] /\ stack'[j].sp = stack[j].sp
    <3>1. i \in 1 .. Len(stack) - 1
      BY <1>1
    <3>2. j = Len(stack) \/ j \in 1 .. Len(stack) - 1
      BY <1>1
    <3> QED BY <3>1, <3>2, <1>1, <1>2
  <2> QED BY <2>1, <1>1 DEF Layout
<1> QED
  BY <1>1, <1>2, <1>3, <1>4, <1>6, <1>7, <1>8 DEF Layout, Slots

\* A call that returns gives its slots back and no other.
LEMMA PopFacts ==
    ASSUME Types, Layout, stack # <<>>,
           stack' = Front(stack), protect' = SubSeq(protect, 1, Top.sp)
    PROVE  /\ stack' \in Seq(Frames)
           /\ Len(stack) \in Nat \ {0} /\ Len(stack') = Len(stack) - 1
           /\ DOMAIN stack = 1 .. Len(stack) /\ DOMAIN stack' = 1 .. Len(stack) - 1
           /\ \A i \in 1 .. Len(stack) - 1 : stack'[i] = stack[i]
           /\ \A i \in 1 .. Len(stack) - 1 : stack[i].sp + Slots(stack[i]) <= Top.sp
           /\ protect' \in Seq(Value) /\ Len(protect') = Top.sp /\ Top.sp <= Len(protect)
           /\ \A k \in 1 .. Top.sp : protect'[k] = protect[k]
           /\ Layout'
<1>1. DOMAIN stack = 1 .. Len(stack)
  BY TopIs
<1>2. /\ Len(stack) \in Nat \ {0}
      /\ Top = stack[Len(stack)] /\ Top \in Frames /\ Top.sp \in Nat
  BY TopIs
<1>3. /\ stack' \in Seq(Frames) /\ Len(stack') = Len(stack) - 1
      /\ \A i \in 1 .. Len(stack) - 1 : stack'[i] = stack[i]
  <2>1. stack \in Seq(Frames)
    BY DEF Types
  <2>2. /\ Front(stack) \in Seq(Frames) /\ Len(Front(stack)) = Len(stack) - 1
        /\ \A i \in 1 .. Len(stack) - 1 : Front(stack)[i] = stack[i]
    BY <2>1, FrontLast
  <2> QED BY <2>2
<1>4. DOMAIN stack' = 1 .. Len(stack) - 1
  BY <1>3, LenProperties
<1>5. \A i \in 1 .. Len(stack) - 1 : stack[i].sp + Slots(stack[i]) <= Top.sp
  BY <1>1, <1>2 DEF Layout
<1>6. Top.sp <= Len(protect) /\ Len(protect) \in Nat
  <2>1. Top.sp + Slots(Top) <= Len(protect) /\ Slots(Top) \in {0, 1, 2}
    BY <1>1, <1>2, SlotsAre DEF Layout
  <2>2. Len(protect) \in Nat
    BY LenProperties DEF Types
  <2> QED BY <1>2, <2>1, <2>2
<1>7. /\ protect' \in Seq(Value) /\ Len(protect') = Top.sp
      /\ \A k \in 1 .. Top.sp : protect'[k] = protect[k]
  <2>1. protect \in Seq(Value)
    BY DEF Types
  <2> QED BY <1>2, <1>6, <2>1, PrefixIs
<1>8. ProtectLayout'
  <2> SUFFICES ASSUME NEW i \in 0 .. Len(stack')
               PROVE  (IF i = 0 THEN 0 ELSE stack'[i].sp + Slots(stack'[i]))
                        = IF i = Len(stack') THEN Len(protect') ELSE stack'[i + 1].sp
    BY DEF ProtectLayout, Slots
  <2>1. i \in 0 .. Len(stack) - 1
    BY <1>3
  <2>2. i \in 0 .. Len(stack) /\ i # Len(stack) /\ (i # 0 => stack'[i] = stack[i])
    BY <2>1, <1>2, <1>3
  <2>3. (IF i = 0 THEN 0 ELSE stack[i].sp + Slots(stack[i])) = stack[i + 1].sp
    BY <2>2 DEF Layout, ProtectLayout
  <2>4. CASE i = Len(stack')
    BY <2>2, <2>3, <2>4, <1>2, <1>3, <1>7
  <2>5. CASE i # Len(stack')
    <3>1. i + 1 \in 1 .. Len(stack) - 1
      BY <2>1, <2>5, <1>2, <1>3
    <3> QED BY <2>2, <2>3, <2>5, <3>1, <1>3
  <2> QED BY <2>4, <2>5
<1>9. \A i \in DOMAIN stack' : stack'[i].sp + Slots(stack'[i]) <= Len(protect')
  BY <1>4, <1>3, <1>5, <1>7
<1>10. \A i, j \in DOMAIN stack' : i < j => stack'[i].sp + Slots(stack'[i]) <= stack'[j].sp
  <2>1. DOMAIN stack' \subseteq DOMAIN stack /\ \A i \in DOMAIN stack' : stack'[i] = stack[i]
    BY <1>1, <1>4, <1>2, <1>3
  <2> QED BY <2>1 DEF Layout
<1> QED
  BY <1>1, <1>4, <1>2, <1>3, <1>5, <1>6, <1>7, <1>8, <1>9, <1>10 DEF Layout, Slots

-----------------------------------------------------------------------------
(***************************************************************************)
(* The shapes of a step: nothing moves, a call is made, goes on, returns.  *)
(***************************************************************************)
ListFrames == {f \in Frames : f.pc \in ListPcs}
StringFrames == {f \in Frames : f.pc = "string"}

\* The lists and the strings being read, counted by their frames.
LEMMA CountsAre ==
    ASSUME NEW s \in Seq(Frames)
    PROVE  /\ Cardinality({i \in DOMAIN s : s[i].pc \in ListPcs}) = Count(s, ListFrames)
           /\ Cardinality({i \in DOMAIN s : s[i].pc = "string"}) = Count(s, StringFrames)
<1>1. \A i \in DOMAIN s : s[i] \in Frames
  BY ElementOfSeq, LenProperties
<1>2. {i \in DOMAIN s : s[i].pc \in ListPcs} = {i \in DOMAIN s : s[i] \in ListFrames}
  BY <1>1 DEF ListFrames
<1>3. {i \in DOMAIN s : s[i].pc = "string"} = {i \in DOMAIN s : s[i] \in StringFrames}
  BY <1>1 DEF StringFrames
<1> QED
  BY <1>2, <1>3 DEF Count

\* A new heap h keeps the partial lists of the first m calls.
KeepsLists(m, h) ==
    \A i \in 1 .. m : stack[i].pc \in Building =>
        /\ h[stack[i].head[2]] \in Pairs /\ h[stack[i].tail[2]] \in LastPairs
        /\ Reach(heap, {stack[i].head[2]}) \subseteq Reach(h, {stack[i].head[2]})

\* It has all cells of the old one, and none that dangles.
KeepsCells(h) ==
    /\ h \in [Addr -> Cells]
    /\ \A a \in Addr : heap[a] # Free => h[a] # Free
    /\ \A a \in Addr : \A b \in RefsOf(h, a) : h[b] # Free

\* The position moves within the text.
Moves == text' \in Texts /\ pos' \in 1 .. Len(text') + 1 /\ start' \in 1 .. pos' /\ UNCHANGED outcome

\* What was alive is alive in such a heap.
LEMMA KeptAlive ==
    ASSUME Types, NEW h, KeepsCells(h), NEW v \in Value, Alive(v)
    PROVE  IsObj(v) => h[v[2]].kind # "FREE"
<1> SUFFICES ASSUME IsObj(v) PROVE h[v[2]].kind # "FREE"
  OBVIOUS
<1>1. v[2] \in Addr
  BY Values
<1>2. heap[v[2]] \in Cells /\ heap[v[2]].kind # "FREE"
  BY <1>1 DEF Types, Alive
<1>3. h[v[2]] \in Cells /\ h[v[2]] # Free
  BY <1>1, <1>2, CellKinds DEF KeepsCells
<1> QED
  BY <1>3, CellTypes

\* The calls that a step leaves alone hold what they held.
LEMMA RestHeld ==
    ASSUME IInv, NEW m \in Nat, m <= Len(stack), NEW s, NEW h, NEW p,
           \A i \in 1 .. m : s[i] = stack[i],
           \A i \in 1 .. m : \A k \in 1 .. stack[i].sp + Slots(stack[i]) : p[k] = protect[k],
           KeepsLists(m, h)
    PROVE  \A i \in 1 .. m : Held(s[i], h, p)
<1> SUFFICES ASSUME NEW i \in 1 .. m PROVE Held(s[i], h, p)
  OBVIOUS
<1>1. stack \in Seq(Frames) /\ Len(stack) \in Nat
  BY LenProperties DEF IInv, Types
<1>2. i \in 1 .. Len(stack)
  BY <1>1
<1>3. stack[i] \in Frames /\ i \in DOMAIN stack
  BY <1>1, <1>2, ElementOfSeq, LenProperties
<1>4. Held(stack[i], heap, protect)
  BY <1>3 DEF IInv
<1>5. Held(stack[i], h, p)
  BY <1>3, <1>4, HeldStays DEF KeepsLists
<1> QED
  BY <1>5

\* A step of read_form or microlisp_eval alone.
LEMMA QuietStep ==
    ASSUME IInv, UNCHANGED <<stack, protect, heap, raw, depth>>, Types',
           reg.mode # "run", reg'.mode # "run", ~IsObj(reg'.value),
           reg'.mode # "return" => reg'.status = "OK" /\ reg'.value = Nil,
           reg'.mode = "idle" => stack = <<>>,
           reg'.mode # "idle" => outcome' = "",
           reg'.status = "OK" /\ outcome' = "" => reg.status = "OK" /\ outcome = ""
    PROVE  IInv'
<1>1. Control'
  BY DEF IInv, Control, Waiting
<1>2. Layout'
  BY DEF IInv, Layout, ProtectLayout, Slots
<1>3. (\A i \in DOMAIN stack : Held(stack[i], heap, protect))' /\ TailsDiffer'
  BY DEF IInv, TailsDiffer, Building
<1>4. NoDangling'
  BY DEF IInv, NoDangling, Alive
<1>5. DepthExact' /\ ScratchExact'
  BY DEF IInv, DepthExact, ScratchExact, Done
<1> QED
  BY <1>1, <1>2, <1>3, <1>4, <1>5 DEF IInv

\* read_form calls read_list, read_quote or read_string.
LEMMA PushStep ==
    ASSUME IInv, reg.mode = "call", NEW pc \in {"head", "quoted", "string"},
           stack' = Append(stack, Frame(pc)), UNCHANGED <<protect, heap>>, Moves,
           reg' = IF pc = "quoted" THEN Calling ELSE Running,
           depth' = IF pc = "head" THEN depth + 1 ELSE depth, depth' <= MaxReadDepth,
           raw' = IF pc = "string" THEN raw + 1 ELSE raw
    PROVE  IInv'
<1> DEFINE f == Frame(pc)
<1>1. f \in Frames /\ f.sp = Len(protect) /\ Slots(f) = 0 /\ f.pc = pc
  <2>1. Len(protect) \in Nat /\ Nil \in Value
    BY LenProperties, Values DEF IInv, Types
  <2>2. f \in Frames /\ f.sp = Len(protect) /\ f.pc = pc
    BY <2>1 DEF Frame, Frames, Pcs, ListPcs
  <2> QED BY <2>2, SlotsAre
<1>2. Types /\ Layout /\ stack \in Seq(Frames) /\ stack' = Append(stack, f) /\ protect' = protect
  BY DEF IInv, Types
<1>3. f.head = Nil /\ f.tail = Nil /\ f.item = Nil
  BY DEF Frame
<1> HIDE DEF f
<1>4. DOMAIN stack = 1 .. Len(stack) /\ DOMAIN stack' = 1 .. Len(stack')
  BY <1>1, <1>2, PushFacts
<1>5. /\ stack' \in Seq(Frames) /\ stack' # <<>>
      /\ Len(stack) \in Nat /\ Len(stack') = Len(stack) + 1
      /\ \A i \in 1 .. Len(stack) : stack'[i] = stack[i]
      /\ stack'[Len(stack')] = f /\ Top' = f
      /\ Layout'
  BY <1>1, <1>2, PushFacts
<1>6. reg' \in [mode : {"idle", "call", "run", "return"}, status : Statuses, value : Value]
  BY Values DEF Register, Running, Calling, Statuses
<1>7. Types'
  <2>1. depth \in 0 .. MaxReadDepth /\ MaxReadDepth \in Nat /\ raw \in Nat
    BY <1>2, ReaderAssumption DEF Types
  <2>2. depth' \in 0 .. MaxReadDepth
    BY <2>1
  <2>3. raw' \in Nat
    BY <2>1
  <2> QED BY <1>2, <1>5, <1>6, <2>2, <2>3 DEF Types, Moves
<1>8. Control'
  <2>1. \A i \in 1 .. Len(stack) : stack'[i].pc \in Waiting
    BY <1>4, <1>5 DEF IInv, Control
  <2>2. reg'.status = "OK" /\ reg'.value = Nil /\ reg'.mode = IF pc = "quoted" THEN "call" ELSE "run"
    BY DEF Register, Running, Calling
  <2>3. outcome' = ""
    BY DEF IInv, Control, Moves
  <2>4. reg'.mode = "run" => Top'.pc \in Allocating \cup {"items"}
    BY <1>1, <1>5, <2>2 DEF Allocating
  <2>5. \A i \in 1 .. Len(stack') : i < Len(stack') \/ reg'.mode # "run" => stack'[i].pc \in Waiting
    <3> SUFFICES ASSUME NEW i \in 1 .. Len(stack'), i < Len(stack') \/ reg'.mode # "run"
                 PROVE  stack'[i].pc \in Waiting
      OBVIOUS
    <3>1. CASE i \in 1 .. Len(stack)
      BY <3>1, <2>1
    <3>2. CASE i = Len(stack')
      BY <3>2, <1>1, <1>5, <2>2 DEF Waiting
    <3> QED BY <3>1, <3>2, <1>5
  <2> QED BY <1>4, <1>5, <2>2, <2>3, <2>4, <2>5 DEF Control, Allocating, Waiting
<1>9. \A i \in 1 .. Len(stack') : Held(stack'[i], heap, protect)
  <2>1. \A i \in 1 .. Len(stack) : Held(stack'[i], heap, protect)
    BY <1>4, <1>5 DEF IInv
  <2>2. Held(f, heap, protect)
    BY <1>1, <1>3 DEF Held, Building
  <2> QED BY <1>5, <2>1, <2>2
<1>10. TailsDiffer'
  <2> SUFFICES ASSUME NEW i \in 1 .. Len(stack'), NEW j \in 1 .. Len(stack'), i # j,
                      stack'[i].pc \in Building, stack'[j].pc \in Building
               PROVE  stack'[i].tail # stack'[j].tail
    BY <1>4 DEF TailsDiffer, Building
  <2>1. f.pc \notin Building
    BY <1>1 DEF Building
  <2>2. i \in 1 .. Len(stack) /\ j \in 1 .. Len(stack)
    BY <1>5, <2>1
  <2> QED BY <1>4, <1>5, <2>2 DEF IInv, TailsDiffer
<1>11. NoDangling'
  <2>1. reg'.value = Nil /\ ~IsObj(Nil)
    BY Values DEF Register, Running, Calling
  <2> QED BY <2>1 DEF IInv, NoDangling, Alive
<1>12. Count(stack', ListFrames) = Count(stack, ListFrames) + (IF f \in ListFrames THEN 1 ELSE 0)
  BY <1>1, <1>2, CountAppend
<1>13. Count(stack', StringFrames) = Count(stack, StringFrames) + (IF f \in StringFrames THEN 1 ELSE 0)
  BY <1>1, <1>2, CountAppend
<1>14. (f \in ListFrames <=> pc = "head") /\ (f \in StringFrames <=> pc = "string")
  BY <1>1 DEF ListFrames, StringFrames, ListPcs
<1>15. /\ Count(stack, ListFrames) \in Nat /\ Count(stack, StringFrames) \in Nat
       /\ depth = Count(stack, ListFrames) /\ raw = Count(stack, StringFrames)
  <2>1. reg.status = "OK" /\ ~Done
    BY DEF IInv, Control, Done
  <2> QED BY <1>2, <2>1, CountType, CountsAre DEF IInv, DepthExact, ScratchExact
<1>16. DepthExact' /\ ScratchExact'
  <2>1. depth' = Count(stack', ListFrames)
    BY <1>12, <1>14, <1>15
  <2>2. raw' = Count(stack', StringFrames)
    BY <1>13, <1>14, <1>15
  <2> QED BY <1>5, <2>1, <2>2, CountsAre DEF DepthExact, ScratchExact
<1> QED
  BY <1>4, <1>5, <1>7, <1>8, <1>9, <1>10, <1>11, <1>16 DEF IInv

\* A call returns.
LEMMA PopStep ==
    ASSUME IInv, stack # <<>>, NEW st \in Statuses, NEW v \in Value,
           stack' = Front(stack), protect' = SubSeq(protect, 1, Top.sp),
           reg' = Register("return", st, v), Alive(v)',
           KeepsCells(heap'), KeepsLists(Len(stack) - 1, heap'), Moves,
           st = "OK" => reg.status = "OK" /\ depth' = IF Top.pc \in ListPcs THEN depth - 1 ELSE depth,
           depth' \in {depth, depth - 1}, depth' = depth - 1 => st = "OK" /\ Top.pc \in ListPcs,
           raw' = IF Top.pc = "string" THEN raw - 1 ELSE raw
    PROVE  IInv'
<1>1. Types /\ Layout /\ stack \in Seq(Frames) /\ protect \in Seq(Value)
  BY DEF IInv, Types
<1>2. DOMAIN stack = 1 .. Len(stack) /\ DOMAIN stack' = 1 .. Len(stack) - 1
  BY <1>1, PopFacts
<1>3. /\ stack' \in Seq(Frames)
      /\ Len(stack) \in Nat \ {0} /\ Len(stack') = Len(stack) - 1
      /\ \A i \in 1 .. Len(stack) - 1 : stack'[i] = stack[i]
      /\ \A i \in 1 .. Len(stack) - 1 : stack[i].sp + Slots(stack[i]) <= Top.sp
      /\ protect' \in Seq(Value) /\ Len(protect') = Top.sp /\ Top.sp <= Len(protect)
      /\ \A k \in 1 .. Top.sp : protect'[k] = protect[k]
      /\ Layout'
  BY <1>1, PopFacts
<1>4. Top \in Frames /\ Top.sp \in Nat
  BY <1>1, TopIs
<1>5. /\ Count(stack, ListFrames) = Count(stack', ListFrames) + (IF Top \in ListFrames THEN 1 ELSE 0)
      /\ Count(stack, StringFrames) = Count(stack', StringFrames) + (IF Top \in StringFrames THEN 1 ELSE 0)
  BY <1>1, CountFront DEF Top
<1>6. (Top \in ListFrames <=> Top.pc \in ListPcs) /\ (Top \in StringFrames <=> Top.pc = "string")
  BY <1>4 DEF ListFrames, StringFrames
<1>7. /\ Count(stack', ListFrames) \in Nat /\ Count(stack', StringFrames) \in Nat
      /\ Count(stack, ListFrames) \in Nat /\ Count(stack, StringFrames) \in Nat
  BY <1>1, <1>3, CountType
<1>8. /\ Top.pc \in ListPcs => Count(stack', ListFrames) = Count(stack, ListFrames) - 1
      /\ Top.pc \notin ListPcs => Count(stack', ListFrames) = Count(stack, ListFrames)
      /\ Top.pc = "string" => Count(stack', StringFrames) = Count(stack, StringFrames) - 1
      /\ Top.pc # "string" => Count(stack', StringFrames) = Count(stack, StringFrames)
  BY <1>5, <1>6, <1>7
<1>9. outcome = "" /\ raw = Count(stack, StringFrames) /\ (reg.status = "OK" => depth = Count(stack, ListFrames))
  <2>1. reg.mode # "idle" /\ outcome = ""
    BY DEF IInv, Control
  <2> QED BY <1>1, <2>1, CountsAre DEF IInv, DepthExact, ScratchExact, Done
<1>10. reg'.mode = "return" /\ reg'.status = st /\ reg'.value = v
  BY DEF Register
<1>11. DepthExact' /\ ScratchExact'
  <2>1. raw' = Count(stack', StringFrames)
    BY <1>8, <1>9
  <2>2. st = "OK" => depth' = Count(stack', ListFrames)
    BY <1>8, <1>9
  <2> QED BY <1>3, <1>10, <2>1, <2>2, CountsAre DEF DepthExact, ScratchExact
<1>12. Types'
  <2>1. reg' \in [mode : {"idle", "call", "run", "return"}, status : Statuses, value : Value]
    BY DEF Register
  <2>2. depth' \in 0 .. MaxReadDepth
    <3>1. depth \in 0 .. MaxReadDepth /\ MaxReadDepth \in Nat
      BY <1>1, ReaderAssumption DEF Types
    <3>2. depth' = depth - 1 => depth' \in Nat
      BY <1>7, <1>8, <1>9
    <3> QED BY <3>1, <3>2
  <2>3. raw' \in Nat
    BY <1>7, <1>8, <1>9
  <2>4. outcome' \in Statuses \cup {""}
    BY <1>1 DEF Types, Moves
  <2> QED BY <1>3, <2>1, <2>2, <2>3, <2>4 DEF Types, Moves, KeepsCells
<1>13. Control'
  <2>1. \A i \in 1 .. Len(stack) - 1 : stack'[i].pc \in Waiting
    <3> SUFFICES ASSUME NEW i \in 1 .. Len(stack) - 1 PROVE stack'[i].pc \in Waiting
      OBVIOUS
    <3>1. i \in 1 .. Len(stack) /\ i < Len(stack)
      BY <1>3
    <3>2. stack[i].pc \in Waiting
      BY <1>2, <3>1 DEF IInv, Control
    <3> QED BY <1>3, <3>2
  <2> QED BY <1>2, <1>9, <1>10, <2>1 DEF Control, Waiting, Moves
<1>14. \A i \in 1 .. Len(stack) - 1 : Held(stack'[i], heap', protect')
  <2>1. Len(stack) - 1 \in Nat /\ Len(stack) - 1 <= Len(stack)
    BY <1>3
  <2>2. \A i \in 1 .. Len(stack) - 1 : \A k \in 1 .. stack[i].sp + Slots(stack[i]) : protect'[k] = protect[k]
    <3> SUFFICES ASSUME NEW i \in 1 .. Len(stack) - 1, NEW k \in 1 .. stack[i].sp + Slots(stack[i])
                 PROVE  protect'[k] = protect[k]
      OBVIOUS
    <3>1. i \in 1 .. Len(stack)
      BY <1>3
    <3>2. stack[i] \in Frames
      BY <3>1, <1>1, ElementOfSeq
    <3>3. stack[i].sp \in Nat /\ Slots(stack[i]) \in {0, 1, 2}
      BY <3>2, SlotsAre DEF Frames
    <3>4. stack[i].sp + Slots(stack[i]) <= Top.sp
      BY <1>3
    <3>5. k \in 1 .. Top.sp
      BY <1>4, <3>3, <3>4
    <3> QED BY <1>3, <3>5
  <2> QED BY <1>3, <2>1, <2>2, RestHeld
<1>15. TailsDiffer'
  <2>1. DOMAIN stack' \subseteq DOMAIN stack /\ \A i \in DOMAIN stack' : stack'[i] = stack[i]
    BY <1>2, <1>3
  <2> QED BY <2>1 DEF IInv, TailsDiffer, Building
<1>16. NoDangling'
  <2>1. DOMAIN protect' = 1 .. Top.sp /\ DOMAIN protect = 1 .. Len(protect)
    BY <1>1, <1>3, LenProperties
  <2>2. ASSUME NEW k \in DOMAIN protect'
        PROVE  IsObj(protect'[k]) => heap'[protect'[k][2]].kind # "FREE"
    <3>1. k \in DOMAIN protect /\ protect'[k] = protect[k]
      <4>1. Len(protect) \in Nat /\ k \in 1 .. Top.sp
        BY <1>1, <2>1, <2>2, LenProperties
      <4>2. k \in 1 .. Len(protect)
        BY <4>1, <1>3, <1>4
      <4> QED BY <4>1, <4>2, <1>3, <2>1
    <3>2. Alive(protect[k]) /\ protect[k] \in Value
      BY <3>1, <1>1, <2>1, ElementOfSeq DEF IInv, NoDangling
    <3> QED BY <1>1, <3>1, <3>2, KeptAlive
  <2>3. IsObj(reg'.value) => heap'[reg'.value[2]].kind # "FREE"
    BY <1>10 DEF Alive
  <2> QED BY <2>2, <2>3 DEF NoDangling, KeepsCells, Alive
<1> QED
  BY <1>2, <1>3, <1>11, <1>12, <1>13, <1>14, <1>15, <1>16 DEF IInv

\* The call in control takes other slots, for values that are alive.
TakesSlots(f) ==
    /\ protect' \in Seq(Value) /\ Len(protect') = f.sp + Slots(f)
    /\ \A k \in 1 .. f.sp : protect'[k] = protect[k]
    /\ \A k \in 1 .. Slots(f) : IsObj(protect'[f.sp + k]) => heap'[protect'[f.sp + k][2]] # Free

\* Its partial list ends elsewhere than those of the other calls.
TailIsOwn(f) ==
    f.pc \in Building => \A i \in 1 .. Len(stack) - 1 :
        stack[i].pc \in Building => stack[i].tail # f.tail

\* A call goes on, with other slots.
LEMMA SetTopStep ==
    ASSUME IInv, stack # <<>>, reg.mode # "idle", reg.status = "OK",
           NEW f \in Frames, f.sp = Top.sp,
           stack' = [stack EXCEPT ![Len(stack)] = f],
           TakesSlots(f), TailIsOwn(f),
           KeepsCells(heap'), KeepsLists(Len(stack) - 1, heap'), Held(f, heap', protect'),
           f.pc \in ListPcs <=> Top.pc \in ListPcs, f.pc # "string", Top.pc # "string",
           reg' = IF f.pc \in Waiting THEN Calling ELSE Running, Moves, UNCHANGED <<depth, raw>>
    PROVE  IInv'
<1>1. Types /\ Layout /\ stack \in Seq(Frames) /\ protect \in Seq(Value)
  BY DEF IInv, Types
<1>2. protect' \in Seq(Value) /\ Len(protect') = f.sp + Slots(f)
  BY DEF TakesSlots
<1>3. DOMAIN stack = 1 .. Len(stack) /\ DOMAIN stack' = 1 .. Len(stack)
  BY <1>2, <1>1, SetTopFacts
<1>4. /\ stack' \in Seq(Frames) /\ stack' # <<>>
      /\ Len(stack) \in Nat \ {0} /\ Len(stack') = Len(stack)
      /\ \A i \in 1 .. Len(stack) - 1 : stack'[i] = stack[i]
      /\ stack'[Len(stack)] = f /\ Top' = f
      /\ \A i \in 1 .. Len(stack) - 1 : stack[i].sp + Slots(stack[i]) <= Top.sp
      /\ Layout'
  BY <1>2, <1>1, SetTopFacts
<1>5. Top = stack[Len(stack)] /\ Top \in Frames /\ Top.sp \in Nat
  BY <1>1, TopIs
<1>6. /\ Len(stack) - 1 \in Nat /\ Len(stack) - 1 <= Len(stack)
      /\ Len(stack) \in 1 .. Len(stack) /\ ~(Len(stack) < Len(stack))
      /\ \A i \in 1 .. Len(stack) - 1 : i \in 1 .. Len(stack) /\ i < Len(stack) /\ i # Len(stack)
      /\ \A i \in 1 .. Len(stack) : i = Len(stack) \/ i \in 1 .. Len(stack) - 1
  <2>1. Len(stack) \in Nat \ {0}
    BY <1>4
  <2> QED BY <2>1, Places
<1>7. /\ reg'.status = "OK" /\ reg'.value = Nil
      /\ reg'.mode = IF f.pc \in Waiting THEN "call" ELSE "run"
      /\ reg' \in [mode : {"idle", "call", "run", "return"}, status : Statuses, value : Value]
  BY Values DEF Register, Running, Calling, Statuses
<1>8. Types'
  <2>1. outcome' \in Statuses \cup {""}
    BY <1>1 DEF Types, Moves
  <2>2. depth' \in 0 .. MaxReadDepth /\ raw' \in Nat
    BY <1>1 DEF Types
  <2>3. heap' \in [Addr -> Cells]
    BY DEF KeepsCells
  <2> QED BY <1>2, <1>4, <1>7, <2>1, <2>2, <2>3 DEF Types, Moves
<1>9. outcome = "" /\ outcome' = ""
  BY DEF IInv, Control, Moves
<1>10. Control'
  <2>1. \A i \in 1 .. Len(stack) - 1 : stack'[i].pc \in Waiting
    <3> SUFFICES ASSUME NEW i \in 1 .. Len(stack) - 1 PROVE stack'[i].pc \in Waiting
      OBVIOUS
    <3>1. i \in 1 .. Len(stack) /\ i < Len(stack)
      BY <1>6
    <3>2. stack[i].pc \in Waiting
      BY <1>3, <3>1 DEF IInv, Control
    <3> QED BY <1>4, <3>2
  <2>2. f.pc \in Waiting \/ f.pc \in Allocating \cup {"items"}
    BY DEF Frames, Pcs, ListPcs, Waiting, Allocating
  <2>3. \A i \in 1 .. Len(stack) : i < Len(stack) \/ f.pc \in Waiting => stack'[i].pc \in Waiting
    <3> SUFFICES ASSUME NEW i \in 1 .. Len(stack), i < Len(stack) \/ f.pc \in Waiting
                 PROVE  stack'[i].pc \in Waiting
      OBVIOUS
    <3>1. CASE i = Len(stack)
      <4>1. f.pc \in Waiting
        BY <1>6, <3>1
      <4> QED BY <1>4, <3>1, <4>1
    <3>2. CASE i \in 1 .. Len(stack) - 1
      BY <2>1, <3>2
    <3> QED BY <1>6, <3>1, <3>2
  <2>4. reg'.mode # "run" => f.pc \in Waiting
    BY <1>7
  <2>5. reg'.mode = "run" => stack' # <<>> /\ Top'.pc \in Allocating \cup {"items"}
    BY <1>4, <1>7, <2>2
  <2>6. \A i \in DOMAIN stack' : i < Len(stack') \/ reg'.mode # "run" => stack'[i].pc \in Waiting
    BY <1>3, <1>4, <2>3, <2>4
  <2> QED BY <1>7, <1>9, <2>5, <2>6 DEF Control, Waiting, Allocating
<1>11. \A i \in 1 .. Len(stack) - 1 : \A k \in 1 .. stack[i].sp + Slots(stack[i]) : protect'[k] = protect[k]
  <2> SUFFICES ASSUME NEW i \in 1 .. Len(stack) - 1, NEW k \in 1 .. stack[i].sp + Slots(stack[i])
               PROVE  protect'[k] = protect[k]
    OBVIOUS
  <2>1. i \in 1 .. Len(stack)
    BY <1>6
  <2>2. stack[i] \in Frames
    BY <2>1, <1>1, ElementOfSeq
  <2>3. stack[i].sp \in Nat /\ Slots(stack[i]) \in {0, 1, 2}
    BY <2>2, SlotsAre DEF Frames
  <2>4. stack[i].sp + Slots(stack[i]) <= Top.sp
    BY <1>4
  <2>5. k \in 1 .. f.sp
    BY <1>5, <2>3, <2>4
  <2> QED BY <2>5 DEF TakesSlots
<1>12. (\A i \in DOMAIN stack : Held(stack[i], heap, protect))'
  <2>1. \A i \in 1 .. Len(stack) - 1 : Held(stack'[i], heap', protect')
    BY <1>4, <1>6, <1>11, RestHeld
  <2> QED BY <1>3, <1>4, <1>6, <2>1
<1>13. TailsDiffer'
  <2> SUFFICES ASSUME NEW i \in DOMAIN stack', NEW j \in DOMAIN stack', i # j,
                      stack'[i].pc \in Building, stack'[j].pc \in Building
               PROVE  stack'[i].tail # stack'[j].tail
    BY DEF TailsDiffer, Building
  <2>1. i \in 1 .. Len(stack) /\ j \in 1 .. Len(stack)
    BY <1>3
  <2>2. CASE i = Len(stack)
    <3>1. j \in 1 .. Len(stack) - 1
      BY <1>6, <2>1, <2>2
    <3> QED BY <1>4, <2>2, <3>1 DEF TailIsOwn
  <2>3. CASE j = Len(stack)
    <3>1. i \in 1 .. Len(stack) - 1
      BY <1>6, <2>1, <2>3
    <3> QED BY <1>4, <2>3, <3>1 DEF TailIsOwn
  <2>4. CASE i # Len(stack) /\ j # Len(stack)
    <3>1. i \in 1 .. Len(stack) - 1 /\ j \in 1 .. Len(stack) - 1
      BY <1>6, <2>1, <2>4
    <3>2. stack'[i] = stack[i] /\ stack'[j] = stack[j] /\ i \in DOMAIN stack /\ j \in DOMAIN stack
      BY <1>3, <1>4, <2>1, <3>1
    <3> QED BY <3>2 DEF IInv, TailsDiffer, Building
  <2> QED BY <2>2, <2>3, <2>4
<1>14. NoDangling'
  <2>1. DOMAIN protect' = 1 .. Len(protect') /\ DOMAIN protect = 1 .. Len(protect)
    BY <1>1, LenProperties
  <2>2. Top.sp <= Len(protect) /\ Len(protect) \in Nat
    <3>1. Top.sp + Slots(Top) <= Len(protect)
      <4>1. Len(stack) \in DOMAIN stack
        BY <1>3, <1>6
      <4> QED BY <1>1, <1>5, <4>1 DEF Layout
    <3>2. Slots(Top) \in {0, 1, 2} /\ Len(protect) \in Nat
      BY <1>1, <1>5, SlotsAre, LenProperties
    <3> QED BY <1>5, <3>1, <3>2
  <2>3. ASSUME NEW k \in 1 .. Len(protect')
        PROVE  IsObj(protect'[k]) => heap'[protect'[k][2]].kind # "FREE"
    <3>1. CASE k <= f.sp
      <4>1. k \in 1 .. Len(protect) /\ protect'[k] = protect[k]
        BY <1>5, <2>2, <3>1 DEF TakesSlots
      <4>2. Alive(protect[k]) /\ protect[k] \in Value
        BY <1>1, <2>1, <4>1, ElementOfSeq DEF IInv, NoDangling
      <4> QED BY <1>1, <4>1, <4>2, KeptAlive
    <3>2. CASE ~(k <= f.sp)
      <4>1. Slots(f) \in {0, 1, 2}
        BY SlotsAre
      <4>2. k - f.sp \in 1 .. Slots(f) /\ f.sp + (k - f.sp) = k
        BY <1>2, <1>5, <3>2, <4>1
      <4>3. IsObj(protect'[k]) => heap'[protect'[k][2]] # Free
        BY <4>2 DEF TakesSlots
      <4>4. protect'[k] \in Value
        BY <1>2, ElementOfSeq
      <4>5. IsObj(protect'[k]) => protect'[k][2] \in Addr
        BY <4>4, Values
      <4> QED BY <4>3, <4>5, CellTypes DEF KeepsCells
    <3> QED BY <3>1, <3>2
  <2>4. ~IsObj(reg'.value)
    BY <1>7, Values
  <2> QED BY <2>1, <2>3, <2>4 DEF NoDangling, KeepsCells, Alive
<1>15. DepthExact' /\ ScratchExact'
  <2>1. {i \in DOMAIN stack' : stack'[i].pc \in ListPcs} = {i \in DOMAIN stack : stack[i].pc \in ListPcs}
    BY <1>3, <1>4, <1>5, <1>6
  <2>2. {i \in DOMAIN stack' : stack'[i].pc = "string"} = {i \in DOMAIN stack : stack[i].pc = "string"}
    BY <1>3, <1>4, <1>5, <1>6
  <2> QED BY <1>9, <2>1, <2>2 DEF IInv, DepthExact, ScratchExact, Done
<1> QED
  BY <1>4, <1>8, <1>10, <1>12, <1>13, <1>14, <1>15 DEF IInv

-----------------------------------------------------------------------------
(***************************************************************************)
(* Collection: what the calls hold is protected, or reached from what is.  *)
(***************************************************************************)

\* The slots of a call are on the protect stack.
LEMMA SlotsInside ==
    ASSUME Types, Layout, NEW i \in DOMAIN stack, NEW k \in 1 .. Slots(stack[i])
    PROVE  stack[i].sp + k \in DOMAIN protect
<1>1. stack[i] \in Frames
  BY ElementOfSeq, LenProperties DEF Types
<1>2. stack[i].sp \in Nat /\ Slots(stack[i]) \in {0, 1, 2}
  BY <1>1, SlotsAre DEF Frames
<1>3. stack[i].sp + Slots(stack[i]) <= Len(protect)
  BY DEF Layout
<1>4. Len(protect) \in Nat
  BY LenProperties DEF Types
<1>5. stack[i].sp + k \in 1 .. Len(protect)
  BY <1>2, <1>3, <1>4
<1> QED
  BY <1>5, LenProperties DEF Types

\* A collection keeps what is reached from the protect stack.
LEMMA CollectStep ==
    ASSUME IInv, reg.mode = "run", heap' = Swept(heap, Range(protect)),
           UNCHANGED <<text, pos, depth, stack, reg, protect, raw, data, start, outcome>>
    PROVE  IInv'
<1> DEFINE reached == Reach(heap, Addresses(Range(protect)))
<1>1. Types /\ Layout /\ heap \in [Addr -> Cells] /\ IsHeap(heap)
  BY HeapsAreHeaps DEF IInv, Types
<1>2. \A k \in DOMAIN protect : protect[k] \in Value /\ (IsObj(protect[k]) => protect[k][2] \in Addresses(Range(protect)))
  <2>1. \A k \in DOMAIN protect : protect[k] \in Value
    BY <1>1, ElementOfSeq, LenProperties DEF Types
  <2> QED BY <2>1 DEF Addresses, Range
<1>3. Addresses(Range(protect)) \subseteq Addr
  <2>1. \A v \in Range(protect) : v \in Value
    BY <1>2 DEF Range
  <2> QED BY <2>1, Values DEF Addresses
<1>4. /\ reached \in SUBSET Addr
      /\ Addresses(Range(protect)) \subseteq reached
      /\ Closed(heap, reached)
      /\ \A a \in Addr : heap'[a] = IF a \in reached THEN heap[a] ELSE Free
      /\ \A a \in reached : Reach(heap, {a}) \subseteq Reach(heap', {a})
  BY <1>1, <1>3, SweptKeeps
<1>5. heap' = [a \in Addr |-> IF a \in reached THEN heap[a] ELSE Free]
  BY DEF Swept
<1> HIDE DEF reached
<1>6. Free \in Cells
  BY CellTypes
<1>7. heap' \in [Addr -> Cells]
  BY <1>1, <1>5, <1>6
<1>8. \A a \in reached : a \in Addr /\ heap'[a] = heap[a]
  BY <1>4
<1>9. Types'
  BY <1>1, <1>7 DEF Types
<1>10. Control'
  BY DEF IInv, Control, Top
<1>11. Layout'
  BY <1>1 DEF Layout, ProtectLayout, Slots
<1>12. \A k \in DOMAIN protect : IsObj(protect[k]) => protect[k][2] \in reached
  BY <1>2, <1>4
<1>13. \A i \in DOMAIN stack : Held(stack[i], heap', protect)
  <2> SUFFICES ASSUME NEW i \in DOMAIN stack PROVE Held(stack[i], heap', protect)
    OBVIOUS
  <2> DEFINE f == stack[i]
  <2>1. f \in Frames /\ Held(f, heap, protect)
    BY <1>1, ElementOfSeq, LenProperties DEF IInv, Types
  <2>2. f.pc \in Building =>
          /\ heap'[f.head[2]] \in Pairs /\ heap'[f.tail[2]] \in LastPairs
          /\ Reach(heap, {f.head[2]}) \subseteq Reach(heap', {f.head[2]})
    <3> SUFFICES ASSUME f.pc \in Building
                 PROVE  /\ heap'[f.head[2]] \in Pairs /\ heap'[f.tail[2]] \in LastPairs
                        /\ Reach(heap, {f.head[2]}) \subseteq Reach(heap', {f.head[2]})
      OBVIOUS
    <3>1. ListHeld(f, heap, protect)
      BY <2>1 DEF Held
    <3>2. f.sp + 1 \in DOMAIN protect
      <4>1. 1 \in 1 .. Slots(f)
        <5>1. Slots(f) \in {1, 2}
          BY <2>1, SlotsAre DEF Building
        <5> QED BY <5>1
      <4> QED BY <1>1, <4>1, SlotsInside
    <3>3. f.head[2] \in reached
      BY <1>12, <3>1, <3>2 DEF ListHeld
    <3>4. Reach(heap, {f.head[2]}) \subseteq reached
      <4>1. {f.head[2]} \in SUBSET Addr /\ {f.head[2]} \subseteq reached
        BY <1>8, <3>3
      <4> QED BY <1>1, <1>4, <4>1, ReachIsLeast
    <3>5. f.tail[2] \in reached
      BY <3>1, <3>4 DEF ListHeld
    <3> QED BY <1>4, <1>8, <3>1, <3>3, <3>5 DEF ListHeld
  <2> HIDE DEF f
  <2>3. Held(f, heap', protect)
    BY <2>1, <2>2, HeldStays
  <2> QED BY <2>3 DEF f
<1>14. TailsDiffer'
  BY DEF IInv, TailsDiffer, Building
<1>15. NoDangling'
  <2>1. reg.value = Nil /\ ~IsObj(Nil)
    BY Values DEF IInv, Control
  <2>2. \A k \in DOMAIN protect : IsObj(protect[k]) => heap'[protect[k][2]].kind # "FREE"
    BY <1>8, <1>12 DEF IInv, NoDangling, Alive
  <2>3. \A a \in Addr : \A b \in RefsOf(heap', a) : heap'[b] # Free
    <3> SUFFICES ASSUME NEW a \in Addr, NEW b \in RefsOf(heap', a) PROVE heap'[b] # Free
      OBVIOUS
    <3>1. CASE a \in reached
      <4>1. b \in RefsOf(heap, a)
        BY <1>8, <3>1 DEF RefsOf
      <4>2. b \in reached
        BY <1>4, <3>1, <4>1 DEF Closed
      <4> QED BY <1>8, <3>1, <4>1, <4>2 DEF IInv, NoDangling
    <3>2. CASE a \notin reached
      <4>1. heap'[a] = Free
        BY <1>4, <3>2
      <4> QED BY <4>1, CellRefs
    <3> QED BY <3>1, <3>2
  <2> QED BY <2>1, <2>2, <2>3 DEF NoDangling, Alive
<1>16. DepthExact' /\ ScratchExact'
  BY DEF IInv, DepthExact, ScratchExact, Done
<1> QED
  BY <1>9, <1>10, <1>11, <1>13, <1>14, <1>15, <1>16 DEF IInv

-----------------------------------------------------------------------------
(***************************************************************************)
(* Allocation and linking.                                                 *)
(***************************************************************************)

\* The heap as it is.
LEMMA SameHeapKeeps ==
    ASSUME IInv
    PROVE  KeepsCells(heap) /\ KeepsLists(Len(stack), heap)
<1>1. stack \in Seq(Frames) /\ DOMAIN stack = 1 .. Len(stack)
  BY LenProperties DEF IInv, Types
<1>2. \A i \in 1 .. Len(stack) : stack[i].pc \in Building => ListHeld(stack[i], heap, protect)
  BY <1>1 DEF IInv, Held
<1> QED
  BY <1>2 DEF IInv, Types, NoDangling, KeepsCells, KeepsLists, ListHeld

\* A new heap that keeps all lists keeps those below the innermost call.
LEMMA FewerLists ==
    ASSUME Types, stack # <<>>, NEW h, KeepsLists(Len(stack), h)
    PROVE  KeepsLists(Len(stack) - 1, h)
<1>1. Len(stack) \in Nat \ {0}
  BY TopIs
<1>2. \A i \in 1 .. Len(stack) - 1 : i \in 1 .. Len(stack)
  BY <1>1, Places
<1> QED
  BY <1>2 DEF KeepsLists

\* A new cell that refers to what is alive.
LEMMA PutKeeps ==
    ASSUME IInv, Room(heap), NEW cell \in Cells, cell # Free,
           \A b \in RefsOf(Put(heap, cell), NextFree(heap)) : b \in Addr /\ heap[b] # Free
    PROVE  KeepsCells(Put(heap, cell)) /\ KeepsLists(Len(stack), Put(heap, cell))
<1> DEFINE n == NextFree(heap)
           g == Put(heap, cell)
<1>1. heap \in [Addr -> Cells]
  BY DEF IInv, Types
<1>2. /\ n \in Addr /\ heap[n] = Free
      /\ g \in [Addr -> Cells] /\ g[n] = cell
      /\ \A a \in Addr : a # n => g[a] = heap[a]
      /\ \A from \in SUBSET Addr : Reach(heap, from) \subseteq Reach(g, from)
  BY <1>1, PutFacts
<1>3. \A b \in RefsOf(g, n) : b \in Addr /\ heap[b] # Free
  OBVIOUS
<1> HIDE DEF n, g
<1>4. \A a \in Addr : heap[a] # Free => g[a] = heap[a] /\ g[a] # Free
  BY <1>2
<1>5. ASSUME NEW a \in Addr, NEW b \in RefsOf(g, a) PROVE g[b] # Free
  <2>1. CASE a = n
    BY <1>3, <1>4, <1>5, <2>1
  <2>2. CASE a # n
    <3>1. b \in RefsOf(heap, a)
      BY <1>2, <1>5, <2>2 DEF RefsOf
    <3>2. b \in Addr
      BY <1>1, <3>1, HeapsAreHeaps DEF IsHeap
    <3> QED BY <1>4, <3>1, <3>2 DEF IInv, NoDangling
  <2> QED BY <2>1, <2>2
<1>6. KeepsCells(g)
  BY <1>2, <1>4, <1>5 DEF KeepsCells
<1>7. KeepsLists(Len(stack), g)
  <2>1. stack \in Seq(Frames) /\ DOMAIN stack = 1 .. Len(stack)
    BY LenProperties DEF IInv, Types
  <2> SUFFICES ASSUME NEW i \in 1 .. Len(stack), stack[i].pc \in Building
               PROVE  /\ g[stack[i].head[2]] \in Pairs /\ g[stack[i].tail[2]] \in LastPairs
                      /\ Reach(heap, {stack[i].head[2]}) \subseteq Reach(g, {stack[i].head[2]})
    BY DEF KeepsLists
  <2>2. stack[i] \in Frames /\ ListHeld(stack[i], heap, protect)
    BY <2>1, ElementOfSeq DEF IInv, Held
  <2>3. stack[i].head \in Value /\ stack[i].tail \in Value
    BY <2>2 DEF Frames
  <2>4. stack[i].head[2] \in Addr /\ stack[i].tail[2] \in Addr
    BY <2>2, <2>3, Values DEF ListHeld
  <2>5. heap[stack[i].head[2]] \in Pairs /\ heap[stack[i].tail[2]] \in LastPairs
    BY <2>2 DEF ListHeld
  <2>6. heap[stack[i].head[2]] # Free /\ heap[stack[i].tail[2]] # Free
    BY <2>5, CellTypes
  <2> QED BY <1>2, <1>4, <2>4, <2>5, <2>6
<1> QED
  BY <1>6, <1>7 DEF g

\* The tail of the call in control is linked to what is alive: the other lists
\* end elsewhere.
LEMMA LinkKeeps ==
    ASSUME IInv, stack # <<>>, Top.pc \in Building,
           NEW h, KeepsCells(h), KeepsLists(Len(stack), h),
           NEW z \in Value, IsObj(z) => h[z[2]] # Free
    PROVE  LET g == LinkTail(h, z)
               t == Top.tail[2]
           IN  /\ KeepsCells(g) /\ KeepsLists(Len(stack) - 1, g)
               /\ t \in Addr /\ h[t] \in LastPairs /\ g[t] \in Pairs
               /\ \A a \in Addr : a # t => g[a] = h[a]
               /\ RefsOf(g, t) = RefsOf(h, t) \cup Addresses({z})
               /\ Top.head[2] \in Addr /\ t \in Reach(g, {Top.head[2]}) /\ g[Top.head[2]] \in Pairs
<1> DEFINE g == LinkTail(h, z)
           t == Top.tail[2]
<1>1. /\ Types /\ stack \in Seq(Frames) /\ DOMAIN stack = 1 .. Len(stack)
      /\ Len(stack) \in Nat \ {0} /\ Top = stack[Len(stack)] /\ Top \in Frames
  BY TopIs DEF IInv, Types
<1>2. /\ Len(stack) \in 1 .. Len(stack)
      /\ \A i \in 1 .. Len(stack) - 1 : i \in 1 .. Len(stack) /\ i # Len(stack)
  BY <1>1, Places
<1>3. \A i \in 1 .. Len(stack) : stack[i].pc \in Building =>
        /\ stack[i].head \in Value /\ stack[i].tail \in Value
        /\ ListHeld(stack[i], heap, protect)
  <2> SUFFICES ASSUME NEW i \in 1 .. Len(stack), stack[i].pc \in Building
               PROVE  /\ stack[i].head \in Value /\ stack[i].tail \in Value
                      /\ ListHeld(stack[i], heap, protect)
    OBVIOUS
  <2>1. stack[i] \in Frames /\ i \in DOMAIN stack
    BY <1>1, ElementOfSeq
  <2> QED BY <2>1 DEF IInv, Held, Frames
<1>4. \A i \in 1 .. Len(stack) : stack[i].pc \in Building =>
        /\ stack[i].head[2] \in Addr /\ stack[i].tail[2] \in Addr
        /\ stack[i].tail = Ref(stack[i].tail[2])
        /\ stack[i].tail[2] \in Reach(heap, {stack[i].head[2]})
        /\ h[stack[i].head[2]] \in Pairs /\ h[stack[i].tail[2]] \in LastPairs
        /\ Reach(heap, {stack[i].head[2]}) \subseteq Reach(h, {stack[i].head[2]})
  BY <1>3, Values DEF ListHeld, KeepsLists
<1>5. /\ t \in Addr /\ h[t] \in LastPairs /\ h \in [Addr -> Cells] /\ Top.head[2] \in Addr
      /\ Top.tail = Ref(t)
      /\ h[Top.head[2]] \in Pairs /\ t \in Reach(h, {Top.head[2]})
  <2>1. stack[Len(stack)].pc \in Building
    BY <1>1
  <2> QED BY <1>1, <1>2, <1>4, <2>1 DEF KeepsCells
<1>6. g = [h EXCEPT ![t].refs[2] = z]
  BY DEF LinkTail
<1> HIDE DEF g, t
<1>7. /\ g \in [Addr -> Cells] /\ g[t] \in Pairs
      /\ \A a \in Addr : a # t => g[a] = h[a]
      /\ RefsOf(g, t) = RefsOf(h, t) \cup Addresses({z})
      /\ \A from \in SUBSET Addr : Reach(h, from) \subseteq Reach(g, from)
  BY <1>5, <1>6, LinkFacts
<1>8. \A a \in Addr : h[a] # Free => g[a] # Free
  BY <1>7, CellTypes
<1>9. ASSUME NEW a \in Addr, NEW b \in RefsOf(g, a) PROVE g[b] # Free
  <2>1. IsHeap(h)
    BY <1>5, HeapsAreHeaps
  <2>2. CASE b \in RefsOf(h, a)
    <3>1. b \in Addr /\ h[b] # Free
      BY <2>1, <2>2 DEF IsHeap, KeepsCells
    <3> QED BY <1>8, <3>1
  <2>3. CASE b \notin RefsOf(h, a)
    <3>1. a = t
      BY <1>7, <1>9, <2>3 DEF RefsOf
    <3>2. IsObj(z) /\ b = z[2]
      BY <1>7, <1>9, <2>3, <3>1 DEF Addresses
    <3>3. b \in Addr
      BY <3>2, Values
    <3> QED BY <1>8, <3>2, <3>3
  <2> QED BY <2>2, <2>3
<1>10. KeepsCells(g)
  BY <1>7, <1>8, <1>9 DEF KeepsCells
<1>11. KeepsLists(Len(stack) - 1, g)
  <2> SUFFICES ASSUME NEW i \in 1 .. Len(stack) - 1, stack[i].pc \in Building
               PROVE  /\ g[stack[i].head[2]] \in Pairs /\ g[stack[i].tail[2]] \in LastPairs
                      /\ Reach(heap, {stack[i].head[2]}) \subseteq Reach(g, {stack[i].head[2]})
    BY DEF KeepsLists
  <2>1. i \in 1 .. Len(stack) /\ i # Len(stack)
    BY <1>2
  <2>2. stack[i].tail # Top.tail
    <3>1. i \in DOMAIN stack /\ Len(stack) \in DOMAIN stack
      BY <1>1, <1>2, <2>1
    <3> QED BY <1>1, <2>1, <3>1 DEF IInv, TailsDiffer
  <2>3. stack[i].tail[2] # t
    BY <1>4, <1>5, <2>1, <2>2
  <2>4. g[stack[i].head[2]] \in Pairs
    BY <1>4, <1>7, <2>1
  <2>5. g[stack[i].tail[2]] \in LastPairs
    BY <1>4, <1>7, <2>1, <2>3
  <2>6. Reach(heap, {stack[i].head[2]}) \subseteq Reach(h, {stack[i].head[2]})
    BY <1>4, <2>1
  <2>7. {stack[i].head[2]} \in SUBSET Addr
    BY <1>4, <2>1
  <2>8. Reach(h, {stack[i].head[2]}) \subseteq Reach(g, {stack[i].head[2]})
    BY <1>7, <2>7
  <2> QED BY <2>4, <2>5, <2>6, <2>8
<1>12. t \in Reach(g, {Top.head[2]}) /\ g[Top.head[2]] \in Pairs
  BY <1>5, <1>7
<1> QED
  BY <1>5, <1>7, <1>10, <1>11, <1>12 DEF g, t

-----------------------------------------------------------------------------
(***************************************************************************)
(* The text is read on.                                                    *)
(***************************************************************************)

\* The position and the length of the text are numbers.
LEMMA TextFacts ==
    ASSUME Types
    PROVE  Len(text) \in Nat /\ pos \in Nat \ {0} /\ pos <= Len(text) + 1 /\ start \in Nat \ {0} /\ start <= pos
<1>1. Len(text) \in Nat
  BY ReaderAssumption, LenProperties DEF Types
<1>2. pos \in 1 .. Len(text) + 1 /\ start \in 1 .. pos
  BY DEF Types
<1>3. pos \in Nat \ {0} /\ pos <= Len(text) + 1
  BY <1>1, <1>2
<1> QED
  BY <1>1, <1>2, <1>3

\* The position stays, or passes a token that is there.
LEMMA MovesOn ==
    ASSUME Types, UNCHANGED <<text, start, outcome>>,
           \/ pos' = pos
           \/ pos' = pos + 1 /\ Peek # "end"
           \/ pos' = pos + 2 /\ PeekNext # "end"
    PROVE  Moves
<1>1. Len(text) \in Nat /\ pos \in Nat \ {0} /\ pos <= Len(text) + 1 /\ start \in Nat \ {0} /\ start <= pos
  BY TextFacts
<1>2. text' = text /\ start' = start /\ outcome' = outcome /\ text \in Texts
  BY DEF Types
<1>3. Peek # "end" => pos <= Len(text)
  BY DEF Peek
<1>4. PeekNext # "end" => pos < Len(text)
  BY DEF PeekNext
<1>5. pos' \in 1 .. Len(text) + 1 /\ start \in 1 .. pos'
  BY <1>1, <1>3, <1>4
<1> QED
  BY <1>2, <1>5 DEF Moves

\* What holds of every step that is not between two forms.
LEMMA UnderWay ==
    ASSUME IInv, reg.mode # "idle"
    PROVE  Types /\ outcome = "" /\ ~Done /\ (reg.mode # "return" => reg.status = "OK" /\ reg.value = Nil)
BY DEF IInv, Control, Done

-----------------------------------------------------------------------------
(***************************************************************************)
(* microlisp_eval's loop, and read_form without a call of its own.         *)
(***************************************************************************)

\* The next form is asked for.
LEMMA ReadNextStep == IInv /\ ReadNext => IInv'
<1> SUFFICES ASSUME IInv, ReadNext PROVE IInv'
  OBVIOUS
<1>1. Types /\ Nil \in Value /\ ~IsObj(Nil)
  BY Values DEF IInv
<1>2. reg' = Calling /\ reg'.mode = "call" /\ reg'.status = "OK" /\ reg'.value = Nil
  BY DEF ReadNext, Calling, Register
<1>3. reg' \in [mode : {"idle", "call", "run", "return"}, status : Statuses, value : Value]
  BY <1>1 DEF ReadNext, Calling, Register, Statuses
<1>4. start' \in 1 .. pos
  <2>1. start' = pos /\ pos \in Nat \ {0}
    BY <1>1, TextFacts DEF ReadNext
  <2> QED BY <2>1
<1>5. Types'
  BY <1>1, <1>3, <1>4 DEF ReadNext, Types
<1>6. reg.status = "OK" /\ stack = <<>>
  BY DEF IInv, Control, ReadNext
<1> QED
  BY <1>1, <1>2, <1>5, <1>6, QuietStep DEF ReadNext

\* A form has been read, or the reading ends.
LEMMA FormReadStep == IInv /\ FormRead => IInv'
<1> SUFFICES ASSUME IInv, FormRead PROVE IInv'
  OBVIOUS
<1>1. Types /\ Nil \in Value /\ ~IsObj(Nil) /\ outcome = ""
  BY Values, UnderWay DEF IInv, FormRead
<1>2. reg'.mode = "idle" /\ reg'.status = "OK" /\ reg'.value = Nil
  BY DEF FormRead, Register
<1>3. reg' \in [mode : {"idle", "call", "run", "return"}, status : Statuses, value : Value]
  BY <1>1 DEF FormRead, Register, Statuses
<1>4. outcome' = "" => reg.status = "OK"
  BY <1>1 DEF FormRead, Types, Statuses
<1>5. outcome' \in Statuses \cup {""}
  BY <1>1 DEF FormRead, Types
<1>6. Types'
  BY <1>1, <1>3, <1>5 DEF FormRead, Types
<1> QED
  BY <1>1, <1>2, <1>4, <1>6, QuietStep DEF FormRead

\* read_form answers at once.
LEMMA AnswerStep ==
    ASSUME IInv, reg.mode = "call", NEW st \in Statuses, NEW v \in Value, ~IsObj(v),
           Answer(st, v), Moves, UNCHANGED <<depth, heap, raw>>
    PROVE  IInv'
<1>1. Types /\ outcome = "" /\ reg.status = "OK"
  BY UnderWay
<1>2. reg'.mode = "return" /\ reg'.status = st /\ reg'.value = v
  BY DEF Answer, Register
<1>3. reg' \in [mode : {"idle", "call", "run", "return"}, status : Statuses, value : Value]
  BY DEF Answer, Register
<1>4. Types'
  <2>1. outcome' = outcome
    BY DEF Moves
  <2> QED BY <1>1, <1>3, <2>1 DEF Types, Moves, Answer
<1> QED
  BY <1>1, <1>2, <1>4, QuietStep DEF Answer, Moves

\* The end of the text, an atom or an error that needs no call.
LEMMA TokenStep ==
    IInv /\ (EndOfText \/ Atom \/ Malformed \/ CutString \/ TokenFails) => IInv'
<1> SUFFICES ASSUME IInv, EndOfText \/ Atom \/ Malformed \/ CutString \/ TokenFails PROVE IInv'
  OBVIOUS
<1>1. Types
  BY DEF IInv
<1>2. /\ Nil \in Value /\ Eof \in Value /\ ~IsObj(Nil) /\ ~IsObj(Eof)
      /\ \A x \in {"a", "."} : Sym(x) \in Value /\ ~IsObj(Sym(x))
  BY Values
<1>3. reg.mode = "call" /\ UNCHANGED <<text, start, outcome, depth, heap, raw>>
  BY DEF EndOfText, Atom, Malformed, CutString, TokenFails, ReadForm, readerVars
<1>4. Moves
  <2>1. pos' = pos \/ (pos' = pos + 1 /\ Peek # "end")
    BY DEF EndOfText, Atom, Malformed, CutString, TokenFails, ReadForm, Advance
  <2> QED BY <1>1, <1>3, <2>1, MovesOn
<1>5. CASE EndOfText
  BY <1>2, <1>3, <1>4, <1>5, AnswerStep DEF EndOfText, Statuses
<1>6. CASE Atom
  BY <1>2, <1>3, <1>4, <1>6, AnswerStep DEF Atom, ReadForm, Statuses
<1>7. CASE Malformed
  <2>1. (IF Peek = "big" THEN "OVERFLOW" ELSE "READ_SYNTAX") \in Statuses
    BY DEF Statuses
  <2> QED BY <1>2, <1>3, <1>4, <1>7, <2>1, AnswerStep DEF Malformed
<1>8. CASE CutString
  BY <1>2, <1>3, <1>4, <1>8, AnswerStep DEF CutString, Statuses
<1>9. CASE TokenFails
  BY <1>2, <1>3, <1>4, <1>9, AnswerStep DEF TokenFails, Statuses
<1> QED
  BY <1>5, <1>6, <1>7, <1>8, <1>9

\* read_form calls read_list, read_quote or read_string.
LEMMA CallStep == IInv /\ (StringLiteral \/ QuoteMark \/ Open) => IInv'
<1> SUFFICES ASSUME IInv, StringLiteral \/ QuoteMark \/ Open PROVE IInv'
  OBVIOUS
<1>1. Types /\ Nil \in Value /\ ~IsObj(Nil)
  BY Values DEF IInv
<1>2. /\ reg.mode = "call" /\ UNCHANGED <<text, start, outcome, heap>>
      /\ Peek # "end"
  BY DEF StringLiteral, QuoteMark, Open, ReadForm, readerVars
<1>3. depth \in 0 .. MaxReadDepth /\ MaxReadDepth \in Nat
  BY <1>1, ReaderAssumption DEF Types
<1>4. Moves
  <2>1. \/ pos' = pos + 1
        \/ pos' = pos + 2 /\ PeekNext = ")"
    BY DEF StringLiteral, QuoteMark, Open, Advance
  <2> QED BY <1>1, <1>2, <2>1, MovesOn
<1>5. CASE StringLiteral
  <2>1. /\ stack' = Append(stack, Frame("string")) /\ UNCHANGED <<protect, heap, depth>>
        /\ reg' = Running /\ raw' = raw + 1
    BY <1>5 DEF StringLiteral, Push
  <2> QED BY <1>2, <1>3, <1>4, <2>1, PushStep
<1>6. CASE QuoteMark
  <2>1. /\ stack' = Append(stack, Frame("quoted")) /\ UNCHANGED <<protect, heap, depth, raw>>
        /\ reg' = Calling
    BY <1>6 DEF QuoteMark, Push
  <2> QED BY <1>2, <1>3, <1>4, <2>1, PushStep
<1>7. CASE Open
  <2>1. UNCHANGED <<heap, raw>>
    BY <1>7 DEF Open
  <2>2. CASE depth >= MaxReadDepth
    <3>1. Answer("READ_DEPTH", Nil) /\ depth' = depth
      BY <1>7, <2>2 DEF Open
    <3> QED BY <1>1, <1>2, <1>4, <2>1, <3>1, AnswerStep DEF Statuses
  <2>3. CASE ~(depth >= MaxReadDepth) /\ PeekNext = ")"
    <3>1. Answer("OK", Nil) /\ depth' = depth
      BY <1>7, <2>3 DEF Open
    <3> QED BY <1>1, <1>2, <1>4, <2>1, <3>1, AnswerStep DEF Statuses
  <2>4. CASE ~(depth >= MaxReadDepth) /\ PeekNext # ")"
    <3>1. /\ stack' = Append(stack, Frame("head")) /\ UNCHANGED <<protect, heap, raw>>
          /\ reg' = Running /\ depth' = depth + 1
      BY <1>7, <2>4 DEF Open, Push
    <3>2. depth' <= MaxReadDepth
      BY <1>3, <2>4, <3>1
    <3> QED BY <1>2, <1>4, <3>1, <3>2, PushStep
  <2> QED BY <2>2, <2>3, <2>4
<1> QED
  BY <1>5, <1>6, <1>7

-----------------------------------------------------------------------------
(***************************************************************************)
(* Calls that return.                                                      *)
(***************************************************************************)

\* What the call in control holds, and its slots, the last on the protect stack.
LEMMA TopHolds ==
    ASSUME IInv, stack # <<>>
    PROVE  /\ Top \in Frames /\ Top.sp \in Nat /\ Held(Top, heap, protect)
           /\ protect \in Seq(Value) /\ Len(protect) = Top.sp + Slots(Top)
           /\ \A k \in 1 .. Len(protect) :
                 protect[k] \in Value /\ (IsObj(protect[k]) => heap[protect[k][2]] # Free)
           /\ \A k \in 1 .. Slots(Top) : Top.sp + k \in 1 .. Len(protect)
           /\ TailIsOwn(Top)
<1>1. /\ Types /\ stack \in Seq(Frames) /\ DOMAIN stack = 1 .. Len(stack)
      /\ Len(stack) \in Nat \ {0} /\ Top = stack[Len(stack)] /\ Top \in Frames /\ Top.sp \in Nat
  BY TopIs DEF IInv, Types
<1>2. /\ Len(stack) \in 1 .. Len(stack)
      /\ \A i \in 1 .. Len(stack) - 1 : i \in 1 .. Len(stack) /\ i # Len(stack)
  BY <1>1, Places
<1>3. Len(stack) \in DOMAIN stack /\ \A i \in 1 .. Len(stack) - 1 : i \in DOMAIN stack
  BY <1>1, <1>2
<1>4. Held(Top, heap, protect)
  BY <1>1, <1>3 DEF IInv
<1>5. Len(protect) = Top.sp + Slots(Top)
  <2>1. Len(stack) \in 0 .. Len(stack) /\ Len(stack) # 0
    BY <1>1
  <2> QED BY <1>1, <2>1 DEF IInv, Layout, ProtectLayout
<1>6. protect \in Seq(Value) /\ DOMAIN protect = 1 .. Len(protect)
  BY <1>1, LenProperties DEF Types
<1>7. \A k \in 1 .. Len(protect) :
         protect[k] \in Value /\ (IsObj(protect[k]) => heap[protect[k][2]] # Free)
  <2>1. \A k \in 1 .. Len(protect) : protect[k] \in Value /\ Alive(protect[k])
    BY <1>6, ElementOfSeq DEF IInv, NoDangling
  <2> QED BY <2>1, CellKinds DEF Alive
<1>8. \A k \in 1 .. Slots(Top) : Top.sp + k \in 1 .. Len(protect)
  <2>1. Slots(Top) \in {0, 1, 2}
    BY <1>1, SlotsAre
  <2> QED BY <1>1, <1>5, <2>1
<1>9. TailIsOwn(Top)
  BY <1>1, <1>2, <1>3 DEF TailIsOwn, IInv, TailsDiffer
<1> QED
  BY <1>1, <1>4, <1>5, <1>6, <1>7, <1>8, <1>9

\* The cdr of a pair is a value that is alive.
LEMMA CdrAlive ==
    ASSUME NEW h, KeepsCells(h), NEW v \in Value, IsObj(v), h[v[2]] \in Pairs
    PROVE  /\ Cdr(h, v) \in Value
           /\ IsObj(Cdr(h, v)) => h[Cdr(h, v)[2]].kind # "FREE"
<1>1. PICK x \in Value, y \in Value : h[v[2]] = PairOf(x, y)
  BY DEF Pairs
<1>2. Cdr(h, v) = y
  BY <1>1, CellKinds DEF Cdr
<1>3. IsObj(y) => y[2] \in Addr /\ y[2] \in RefsOf(h, v[2])
  BY <1>1, Values, CellRefs DEF Addresses
<1>4. IsObj(y) => h[y[2]] \in Cells /\ h[y[2]] # Free
  BY <1>3, Values DEF KeepsCells
<1> QED
  BY <1>2, <1>4, CellTypes

\* A call returns an error.
LEMMA FailStep ==
    ASSUME IInv, stack # <<>>, NEW st \in Statuses, st # "OK", Fail(st),
           KeepsCells(heap'), KeepsLists(Len(stack) - 1, heap'), Moves, UNCHANGED depth,
           raw' = IF Top.pc = "string" THEN raw - 1 ELSE raw
    PROVE  IInv'
<1>1. Nil \in Value /\ ~IsObj(Nil)
  BY Values
<1>2. Alive(Nil)'
  BY <1>1 DEF Alive
<1>3. depth \in 0 .. MaxReadDepth /\ depth' # depth - 1
  <2>1. depth \in 0 .. MaxReadDepth
    BY DEF IInv, Types
  <2> QED BY <2>1
<1>4. /\ stack' = Front(stack) /\ protect' = SubSeq(protect, 1, Top.sp)
      /\ reg' = Register("return", st, Nil)
  BY DEF Fail, Return
<1>5. depth' \in {depth, depth - 1}
  OBVIOUS
<1> QED
  BY <1>1, <1>2, <1>3, <1>4, <1>5, PopStep

\* The end of the text in a list, an error of an inner call, and memory that
\* cannot be had.
LEMMA FailureStep == IInv /\ (EndInList \/ Propagate \/ OutOfMemory) => IInv'
<1> SUFFICES ASSUME IInv, EndInList \/ Propagate \/ OutOfMemory PROVE IInv'
  OBVIOUS
<1>1. Types /\ KeepsCells(heap) /\ KeepsLists(Len(stack), heap)
  BY SameHeapKeeps DEF IInv
<1>2. UNCHANGED <<text, start, outcome, pos, depth, heap>>
  BY DEF EndInList, Propagate, OutOfMemory, readerVars
<1>3. stack # <<>>
  BY DEF IInv, Control, EndInList, Propagate, OutOfMemory, Run, Returned
<1>4. KeepsCells(heap') /\ KeepsLists(Len(stack) - 1, heap') /\ Moves
  BY <1>1, <1>2, <1>3, FewerLists, MovesOn
<1>5. CASE EndInList
  <2>1. Fail("READ_TRUNCATED") /\ raw' = IF Top.pc = "string" THEN raw - 1 ELSE raw
    BY <1>5 DEF EndInList, Run
  <2> QED BY <1>2, <1>3, <1>4, <2>1, FailStep DEF Statuses
<1>6. CASE Propagate
  <2>1. Top.pc # "string"
    <3>1. Top = stack[Len(stack)] /\ Len(stack) \in DOMAIN stack
      BY <1>1, <1>3, TopIs
    <3> QED BY <1>6, <3>1 DEF IInv, Control, Propagate, Waiting
  <2>2. reg.status \in Statuses
    BY <1>1 DEF Types
  <2> QED BY <1>2, <1>3, <1>4, <1>6, <2>1, <2>2, FailStep DEF Propagate
<1>7. CASE OutOfMemory
  BY <1>2, <1>3, <1>4, <1>7, FailStep DEF OutOfMemory, Statuses
<1> QED
  BY <1>5, <1>6, <1>7

\* The closing parenthesis.
LEMMA CloseStep ==
    ASSUME IInv, stack # <<>>, Top.pc \in {"items", "tail"}, reg.status = "OK", Peek = ")",
           NEW h, h = heap', h[Top.head[2]] \in Pairs,
           KeepsCells(h), KeepsLists(Len(stack) - 1, h), Close(h), UNCHANGED <<raw, readerVars>>
    PROVE  IInv'
<1>1. Types /\ Top \in Frames /\ Held(Top, heap, protect)
  BY TopHolds DEF IInv
<1>2. Top.head \in Value /\ IsObj(Top.head)
  BY <1>1 DEF Frames, Held, ListHeld, Building
<1>3. PICK v \in Value : v = Cdr(h, Top.head) /\ (IsObj(v) => h[v[2]].kind # "FREE")
  BY <1>2, CdrAlive
<1>4. /\ stack' = Front(stack) /\ protect' = SubSeq(protect, 1, Top.sp)
      /\ reg' = Register("return", "OK", v) /\ depth' = depth - 1
      /\ pos' = pos + 1
  BY <1>3 DEF Close, Return, Advance
<1>5. Alive(v)'
  BY <1>3 DEF Alive
<1>6. Moves
  BY <1>1, <1>4, MovesOn DEF readerVars
<1>7. /\ Top.pc \in ListPcs /\ "OK" \in Statuses /\ depth' \in {depth, depth - 1}
      /\ raw' = IF Top.pc = "string" THEN raw - 1 ELSE raw
  BY <1>4 DEF ListPcs, Statuses
<1> QED
  BY <1>3, <1>4, <1>5, <1>6, <1>7, PopStep

\* A list ends.
LEMMA EndOfListStep == IInv /\ EndOfList => IInv'
<1> SUFFICES ASSUME IInv, EndOfList PROVE IInv'
  OBVIOUS
<1>1. Types /\ KeepsCells(heap) /\ KeepsLists(Len(stack), heap)
  BY SameHeapKeeps DEF IInv
<1>2. stack # <<>> /\ reg.status = "OK" /\ Top.pc = "items" /\ Peek = ")"
  BY DEF IInv, Control, EndOfList, Run
<1>3. KeepsLists(Len(stack) - 1, heap) /\ Held(Top, heap, protect)
  BY <1>1, <1>2, FewerLists, TopHolds
<1>4. heap[Top.head[2]] \in Pairs
  BY <1>2, <1>3 DEF Held, ListHeld, Building
<1>5. heap = heap' /\ Close(heap) /\ UNCHANGED <<raw, readerVars>>
  BY DEF EndOfList
<1> QED
  BY <1>1, <1>2, <1>3, <1>4, <1>5, CloseStep

\* A dotted tail.
LEMMA DottedTailStep == IInv /\ DottedTail => IInv'
<1> SUFFICES ASSUME IInv, DottedTail PROVE IInv'
  OBVIOUS
<1>1. Types /\ KeepsCells(heap) /\ KeepsLists(Len(stack), heap)
  BY SameHeapKeeps DEF IInv
<1>2. stack # <<>> /\ reg.status = "OK" /\ Top.pc = "tail"
  BY DEF DottedTail, Returned
<1>3. heap' = LinkTail(heap, reg.value) /\ UNCHANGED <<raw, readerVars>>
  BY DEF DottedTail
<1>4. reg.value \in Value /\ (IsObj(reg.value) => heap[reg.value[2]] # Free)
  BY <1>1, CellKinds DEF IInv, Types, NoDangling, Alive
<1>5. KeepsCells(heap') /\ KeepsLists(Len(stack) - 1, heap') /\ heap'[Top.head[2]] \in Pairs
  BY <1>1, <1>2, <1>3, <1>4, LinkKeeps DEF Building
<1>6. CASE Peek = ")"
  <2>1. Close(heap')
    BY <1>6 DEF DottedTail
  <2> QED BY <1>2, <1>3, <1>5, <1>6, <2>1, CloseStep
<1>7. CASE Peek # ")"
  <2>1. Fail("READ_SYNTAX") /\ UNCHANGED <<pos, depth>>
    BY <1>7 DEF DottedTail
  <2>2. Moves
    BY <1>1, <1>3, <2>1, MovesOn DEF readerVars
  <2> QED BY <1>2, <1>3, <1>5, <2>1, <2>2, FailStep DEF Statuses
<1> QED
  BY <1>6, <1>7

\* A new pair of what is alive.
LEMMA PairIsPut ==
    ASSUME IInv, Room(heap), NEW x \in Value, NEW y \in Value,
           \A v \in {x, y} : IsObj(v) => heap[v[2]] # Free
    PROVE  LET n == NextFree(heap)
               g == Pair(x, y)
           IN  /\ n \in Addr /\ heap[n] = Free /\ Ref(n) \in Value
               /\ g[n] = PairOf(x, y) /\ \A a \in Addr : a # n => g[a] = heap[a]
               /\ KeepsCells(g) /\ KeepsLists(Len(stack), g)
<1> DEFINE n == NextFree(heap)
           g == Pair(x, y)
<1>1. heap \in [Addr -> Cells]
  BY DEF IInv, Types
<1>2. g = Put(heap, PairOf(x, y)) /\ PairOf(x, y) \in Cells /\ PairOf(x, y) # Free
  <2>1. PairOf(x, y) \in Cells /\ PairOf(x, y) \in Pairs /\ Free \notin Pairs
    BY CellTypes
  <2> QED BY <2>1 DEF Pair, PairOf
<1>3. /\ n \in Addr /\ heap[n] = Free /\ g[n] = PairOf(x, y)
      /\ \A a \in Addr : a # n => g[a] = heap[a]
  BY <1>1, <1>2, PutFacts
<1>4. \A b \in RefsOf(g, n) : b \in Addr /\ heap[b] # Free
  <2>1. RefsOf(g, n) = Addresses({x, y})
    BY <1>3, CellRefs
  <2> QED BY <2>1, Values DEF Addresses
<1>5. KeepsCells(g) /\ KeepsLists(Len(stack), g)
  BY <1>2, <1>4, PutKeeps
<1>6. Ref(n) \in Value
  BY <1>3, Values
<1> QED
  BY <1>3, <1>5, <1>6

\* read_quote and read_string return what they have made.
LEMMA MadeStep == IInv /\ (OuterPair \/ MakeString) => IInv'
<1> SUFFICES ASSUME IInv, OuterPair \/ MakeString PROVE IInv'
  OBVIOUS
<1> DEFINE n == NextFree(heap)
<1>1. Types /\ heap \in [Addr -> Cells]
  BY DEF IInv, Types
<1>2. /\ stack # <<>> /\ reg.status = "OK" /\ Room(heap) /\ Top.pc \in {"outer", "string"}
      /\ Return("OK", Ref(n)) /\ UNCHANGED <<text, start, outcome, pos, depth>>
  BY DEF IInv, Control, OuterPair, MakeString, Run, readerVars
<1>3. n \in Addr /\ Ref(n) \in Value /\ IsObj(Ref(n)) /\ Ref(n)[2] = n
  BY <1>1, <1>2, NextFreeIsFree, Values
<1>4. KeepsCells(heap') /\ KeepsLists(Len(stack), heap') /\ heap'[n].kind # "FREE"
  <2>1. CASE OuterPair
    <3>1. heap' = Pair(QuoteSymbol, Top.item) /\ Top.pc = "outer"
      BY <2>1 DEF OuterPair, Run
    <3>2. /\ Top.item = protect[Top.sp + 1] /\ Top.sp + 1 \in 1 .. Len(protect)
          /\ \A k \in 1 .. Len(protect) :
                protect[k] \in Value /\ (IsObj(protect[k]) => heap[protect[k][2]] # Free)
      <4>1. Top \in Frames /\ Held(Top, heap, protect) /\ \A k \in 1 .. Slots(Top) : Top.sp + k \in 1 .. Len(protect)
        BY <1>2, TopHolds
      <4>2. 1 \in 1 .. Slots(Top)
        BY <3>1, <4>1, SlotsAre
      <4> QED BY <1>2, <3>1, <4>1, <4>2, TopHolds DEF Held
    <3>3. QuoteSymbol \in Value /\ ~IsObj(QuoteSymbol)
      BY Values
    <3>4. KeepsCells(heap') /\ KeepsLists(Len(stack), heap') /\ heap'[n] = PairOf(QuoteSymbol, Top.item)
      BY <1>2, <3>1, <3>2, <3>3, PairIsPut
    <3> QED BY <3>2, <3>3, <3>4, CellKinds
  <2>2. CASE MakeString
    <3>1. heap' = Put(heap, String)
      BY <2>2 DEF MakeString, String
    <3>2. String \in Cells /\ String # Free
      BY CellTypes
    <3>3. heap'[n] = String
      BY <1>1, <1>2, <3>1, <3>2, PutFacts
    <3>4. RefsOf(heap', n) = {}
      BY <3>3, CellRefs
    <3> QED BY <1>2, <3>1, <3>2, <3>3, <3>4, PutKeeps, CellKinds
  <2> QED BY <2>1, <2>2 DEF OuterPair, MakeString
<1>5. PICK v \in Value : v = Ref(n)
  BY <1>3
<1>6. Alive(v)'
  BY <1>3, <1>4, <1>5 DEF Alive
<1>7. /\ stack' = Front(stack) /\ protect' = SubSeq(protect, 1, Top.sp)
      /\ reg' = Register("return", "OK", v)
  BY <1>2, <1>5 DEF Return
<1>8. KeepsLists(Len(stack) - 1, heap') /\ Moves
  BY <1>1, <1>2, <1>4, FewerLists, MovesOn
<1>9. raw' = IF Top.pc = "string" THEN raw - 1 ELSE raw
  BY DEF OuterPair, MakeString, Run
<1>10. depth' # depth - 1 /\ depth' \in {depth, depth - 1} /\ Top.pc \notin ListPcs
  <2>1. depth \in 0 .. MaxReadDepth
    BY <1>1 DEF Types
  <2> QED BY <1>2, <2>1 DEF ListPcs
<1> QED
  BY <1>2, <1>4, <1>6, <1>7, <1>8, <1>9, <1>10, PopStep DEF Statuses

-----------------------------------------------------------------------------
(***************************************************************************)
(* Calls that go on.                                                       *)
(***************************************************************************)

\* The next item of a list is read, or its dotted tail.
LEMMA ItemStep == IInv /\ (Item \/ DotItem) => IInv'
<1> SUFFICES ASSUME IInv, Item \/ DotItem PROVE IInv'
  OBVIOUS
<1>1. Types /\ KeepsCells(heap) /\ KeepsLists(Len(stack), heap)
  BY SameHeapKeeps DEF IInv
<1>2. /\ stack # <<>> /\ reg.status = "OK" /\ reg.mode # "idle" /\ Top.pc = "items"
      /\ UNCHANGED <<text, start, outcome, depth, heap, raw>>
  BY DEF IInv, Control, Item, DotItem, Run, readerVars
<1>3. Moves
  <2>1. pos' = pos \/ (pos' = pos + 1 /\ Peek # "end")
    BY DEF Item, DotItem, Advance
  <2> QED BY <1>1, <1>2, <2>1, MovesOn
<1>4. KeepsCells(heap') /\ KeepsLists(Len(stack) - 1, heap')
  BY <1>1, <1>2, FewerLists
<1>5. ASSUME NEW pc \in {"elem", "tail"}, SetTop([Top EXCEPT !.pc = pc]), reg' = Calling, UNCHANGED protect
      PROVE  IInv'
  <2>1. /\ Top \in Frames /\ Top.sp \in Nat /\ Held(Top, heap, protect)
        /\ protect \in Seq(Value) /\ Len(protect) = Top.sp + Slots(Top)
        /\ \A k \in 1 .. Len(protect) :
              protect[k] \in Value /\ (IsObj(protect[k]) => heap[protect[k][2]] # Free)
        /\ \A k \in 1 .. Slots(Top) : Top.sp + k \in 1 .. Len(protect)
        /\ TailIsOwn(Top)
    BY <1>2, TopHolds
  <2>2. PICK f \in Frames : f = [Top EXCEPT !.pc = pc]
    BY <2>1 DEF Frames, Pcs, ListPcs
  <2>3. /\ f.pc = pc /\ f.sp = Top.sp /\ f.head = Top.head /\ f.tail = Top.tail /\ f.item = Top.item
    BY <2>1, <2>2 DEF Frames
  <2>4. Slots(f) = 1 /\ Slots(Top) = 1
    BY <1>2, <2>1, <2>3, SlotsAre
  <2>5. Held(f, heap, protect)
    BY <1>2, <2>1, <2>3 DEF Held, ListHeld, Building
  <2>6. TakesSlots(f)
    BY <1>2, <1>5, <2>1, <2>3, <2>4 DEF TakesSlots
  <2>7. TailIsOwn(f)
    BY <1>2, <2>1, <2>3 DEF TailIsOwn, Building
  <2>8. stack' = [stack EXCEPT ![Len(stack)] = f]
    BY <1>5, <2>2 DEF SetTop
  <2>9. f.pc \in Waiting /\ f.pc \in ListPcs /\ Top.pc \in ListPcs
    BY <1>2, <2>3 DEF Waiting, ListPcs
  <2> QED BY <1>2, <1>3, <1>4, <1>5, <2>3, <2>5, <2>6, <2>7, <2>8, <2>9, SetTopStep
<1>6. CASE Item
  BY <1>5, <1>6 DEF Item
<1>7. CASE DotItem
  <2>1. CASE Top.tail = Top.head
    <3>1. Fail("READ_SYNTAX")
      BY <1>7, <2>1 DEF DotItem
    <3> QED BY <1>2, <1>3, <1>4, <3>1, FailStep DEF Statuses
  <2>2. CASE Top.tail # Top.head
    BY <1>5, <1>7, <2>2 DEF DotItem
  <2> QED BY <2>1, <2>2
<1> QED
  BY <1>6, <1>7

\* A slot is taken.
LEMMA SlotTaken ==
    ASSUME NEW p \in Seq(Value), NEW v \in Value, NEW sp \in Nat, NEW slots \in Nat, Len(p) = sp + slots
    PROVE  LET q == Append(p, v) IN
           /\ q \in Seq(Value) /\ Len(q) = sp + (slots + 1)
           /\ q[sp + (slots + 1)] = v
           /\ \A k \in 1 .. sp + slots : q[k] = p[k]
           /\ \A k \in 1 .. sp : q[k] = p[k]
<1> DEFINE q == Append(p, v)
<1>1. /\ q \in Seq(Value) /\ Len(q) = Len(p) + 1
      /\ \A k \in 1 .. Len(p) : q[k] = p[k]
      /\ q[Len(p) + 1] = v
  BY AppendLast
<1> HIDE DEF q
<1>2. Len(q) = sp + (slots + 1) /\ q[sp + (slots + 1)] = v
  BY <1>1
<1>3. \A k \in 1 .. sp : k \in 1 .. sp + slots
  OBVIOUS
<1> QED
  BY <1>1, <1>2, <1>3 DEF q

\* A slot is given back.
LEMMA SlotGivenBack ==
    ASSUME NEW p \in Seq(Value), NEW sp \in Nat, NEW slots \in Nat, Len(p) - 1 = sp + slots
    PROVE  LET q == Front(p) IN
           /\ q \in Seq(Value) /\ Len(q) = sp + slots
           /\ \A k \in 1 .. sp + slots : q[k] = p[k]
           /\ \A k \in 1 .. sp : q[k] = p[k]
<1> DEFINE q == Front(p)
<1>1. Len(p) \in Nat /\ p # <<>>
  BY LenProperties, EmptySeq
<1>2. /\ q \in Seq(Value) /\ Len(q) = Len(p) - 1
      /\ \A k \in 1 .. Len(p) - 1 : q[k] = p[k]
  BY <1>1, FrontLast
<1> HIDE DEF q
<1>3. \A k \in 1 .. sp : k \in 1 .. sp + slots
  OBVIOUS
<1> QED
  BY <1>2, <1>3 DEF q

\* No list ends in a cell that was free.
LEMMA FreshTail ==
    ASSUME IInv, NEW n \in Addr, heap[n] = Free
    PROVE  \A i \in 1 .. Len(stack) - 1 : stack[i].pc \in Building => stack[i].tail # Ref(n)
<1> SUFFICES ASSUME NEW i \in 1 .. Len(stack) - 1, stack[i].pc \in Building, stack[i].tail = Ref(n)
             PROVE  FALSE
  OBVIOUS
<1>1. stack \in Seq(Frames) /\ DOMAIN stack = 1 .. Len(stack) /\ Len(stack) \in Nat
  BY LenProperties DEF IInv, Types
<1>2. Len(stack) \in Nat \ {0}
  BY <1>1
<1>3. i \in DOMAIN stack
  BY <1>1, <1>2, Places
<1>4. heap[n] \in LastPairs
  BY <1>3, Values DEF IInv, Held, ListHeld
<1> QED
  BY <1>4, CellTypes

\* The register of a call that runs.
LEMMA RunningIs ==
    ASSUME IInv, reg.mode = "run"
    PROVE  reg = Running /\ stack # <<>> /\ reg.status = "OK"
<1>1. reg \in [mode : {"idle", "call", "run", "return"}, status : Statuses, value : Value]
  BY DEF IInv, Types
<1>2. reg.status = "OK" /\ reg.value = Nil /\ stack # <<>>
  BY DEF IInv, Control
<1>3. reg = [mode |-> reg.mode, status |-> reg.status, value |-> reg.value]
  BY <1>1
<1> QED
  BY <1>2, <1>3 DEF Running, Register

\* The element, or the form, is protected.
LEMMA ProtectStep == IInv /\ (ProtectElement \/ Quoted) => IInv'
<1> SUFFICES ASSUME IInv, ProtectElement \/ Quoted PROVE IInv'
  OBVIOUS
<1>1. Types /\ KeepsCells(heap) /\ KeepsLists(Len(stack), heap)
  BY SameHeapKeeps DEF IInv
<1>2. /\ stack # <<>> /\ reg.status = "OK" /\ reg.mode # "idle" /\ Top.pc \in {"elem", "quoted"}
      /\ UNCHANGED <<text, start, outcome, pos, depth, heap, raw>>
  BY DEF ProtectElement, Quoted, Returned, readerVars
<1>3. Moves
  BY <1>1, <1>2, MovesOn
<1>4. KeepsCells(heap') /\ KeepsLists(Len(stack) - 1, heap')
  BY <1>1, <1>2, FewerLists
<1>5. PICK v \in Value : v = reg.value
  BY <1>1 DEF Types
<1>6. IsObj(v) => heap[v[2]] # Free
  BY <1>1, <1>5, CellKinds DEF IInv, NoDangling, Alive
<1>7. /\ Top \in Frames /\ Top.sp \in Nat /\ Held(Top, heap, protect)
      /\ protect \in Seq(Value) /\ Len(protect) = Top.sp + Slots(Top)
      /\ \A k \in 1 .. Len(protect) :
            protect[k] \in Value /\ (IsObj(protect[k]) => heap[protect[k][2]] # Free)
      /\ \A k \in 1 .. Slots(Top) : Top.sp + k \in 1 .. Len(protect)
      /\ TailIsOwn(Top)
  BY <1>2, TopHolds
<1>8. ASSUME NEW pc \in {"cell", "inner"}, Top.pc = IF pc = "cell" THEN "elem" ELSE "quoted",
             protect' = Append(protect, v),
             SetTop([Top EXCEPT !.pc = pc, !.item = v]), reg' = Running
      PROVE  IInv'
  <2>1. PICK f \in Frames : f = [Top EXCEPT !.pc = pc, !.item = v]
    BY <1>7 DEF Frames, Pcs, ListPcs
  <2>2. f.pc = pc /\ f.sp = Top.sp /\ f.head = Top.head /\ f.tail = Top.tail /\ f.item = v
    BY <1>7, <2>1 DEF Frames
  <2>3. Slots(f) = Slots(Top) + 1 /\ Slots(Top) = IF pc = "cell" THEN 1 ELSE 0
    <3>1. CASE pc = "cell"
      BY <1>7, <1>8, <2>2, <3>1, SlotsAre
    <3>2. CASE pc = "inner"
      BY <1>7, <1>8, <2>2, <3>2, SlotsAre
    <3> QED BY <3>1, <3>2
  <2>4. /\ protect' \in Seq(Value) /\ Len(protect') = f.sp + Slots(f)
        /\ protect'[f.sp + Slots(f)] = v
        /\ \A k \in 1 .. f.sp + Slots(Top) : protect'[k] = protect[k]
        /\ \A k \in 1 .. f.sp : protect'[k] = protect[k]
    <3>1. Slots(Top) \in Nat
      BY <2>3
    <3> QED BY <1>7, <1>8, <2>2, <2>3, <3>1, SlotTaken
  <2>5. TakesSlots(f)
    <3>1. ASSUME NEW k \in 1 .. Slots(f)
          PROVE  IsObj(protect'[f.sp + k]) => heap'[protect'[f.sp + k][2]] # Free
      <4>1. CASE k = Slots(f)
        BY <1>2, <1>6, <2>4, <4>1
      <4>2. CASE k # Slots(f)
        <5>1. k \in 1 .. Slots(Top)
          BY <2>3, <4>2
        <5>2. f.sp + k \in 1 .. f.sp + Slots(Top)
          BY <1>7, <2>2, <5>1
        <5> QED BY <1>2, <1>7, <2>2, <2>4, <5>1, <5>2
      <4> QED BY <4>1, <4>2
    <3> QED BY <2>4, <3>1 DEF TakesSlots
  <2>6. Held(f, heap, protect')
    <3>1. CASE pc = "cell"
      <4>1. ListHeld(Top, heap, protect) /\ Slots(f) = 2 /\ Slots(Top) = 1
        BY <1>7, <1>8, <2>3, <3>1 DEF Held, Building
      <4>2. protect'[f.sp + 1] = protect[f.sp + 1] /\ protect'[f.sp + 2] = v
        BY <1>7, <2>2, <2>4, <4>1
      <4> QED BY <2>2, <3>1, <4>1, <4>2 DEF Held, ListHeld, Building
    <3>2. CASE pc = "inner"
      <4>1. Slots(f) = 1
        BY <2>3, <3>2
      <4> QED BY <1>7, <1>8, <2>2, <2>4, <3>2, <4>1 DEF Held, Building
    <3> QED BY <3>1, <3>2
  <2>7. TailIsOwn(f)
    BY <1>7, <1>8, <2>2 DEF TailIsOwn, Building
  <2>8. stack' = [stack EXCEPT ![Len(stack)] = f]
    BY <1>8, <2>1 DEF SetTop
  <2>9. f.pc \notin Waiting /\ (f.pc \in ListPcs <=> Top.pc \in ListPcs)
    BY <1>8, <2>2 DEF Waiting, ListPcs
  <2> QED BY <1>2, <1>3, <1>4, <1>8, <2>2, <2>5, <2>6, <2>7, <2>8, <2>9, SetTopStep
<1>9. CASE ProtectElement
  BY <1>5, <1>8, <1>9 DEF ProtectElement, Returned
<1>10. CASE Quoted
  <2>1. CASE reg.value = Eof
    <3>1. Fail("READ_TRUNCATED")
      BY <1>10, <2>1 DEF Quoted
    <3> QED BY <1>2, <1>3, <1>4, <3>1, FailStep DEF Statuses
  <2>2. CASE reg.value # Eof
    BY <1>5, <1>8, <1>10, <2>2 DEF Quoted, Returned
  <2> QED BY <2>1, <2>2
<1> QED
  BY <1>9, <1>10

\* The dummy head of a list.
LEMMA DummyHeadStep == IInv /\ DummyHead => IInv'
<1> SUFFICES ASSUME IInv, DummyHead PROVE IInv'
  OBVIOUS
<1> DEFINE n == NextFree(heap)
<1>1. /\ Types /\ Room(heap) /\ Top.pc = "head" /\ heap' = Pair(Nil, Nil)
      /\ UNCHANGED <<text, start, outcome, pos, depth, raw>>
  BY DEF IInv, DummyHead, Run, readerVars
<1>2. reg = Running /\ stack # <<>> /\ reg.status = "OK" /\ reg.mode # "idle" /\ reg' = Running
  BY RunningIs DEF DummyHead, Run
<1>3. /\ Top \in Frames /\ Top.sp \in Nat /\ Held(Top, heap, protect)
      /\ protect \in Seq(Value) /\ Len(protect) = Top.sp + Slots(Top)
  BY <1>2, TopHolds
<1>4. Nil \in Value /\ ~IsObj(Nil)
  BY Values
<1>5. /\ n \in Addr /\ heap[n] = Free /\ Ref(n) \in Value
      /\ heap'[n] = PairOf(Nil, Nil)
      /\ KeepsCells(heap') /\ KeepsLists(Len(stack), heap')
  BY <1>1, <1>4, PairIsPut
<1>6. IsObj(Ref(n)) /\ Ref(n)[2] = n
  BY <1>5, Values
<1>7. heap'[n] \in Pairs /\ heap'[n] \in LastPairs /\ heap'[n] # Free
  BY <1>4, <1>5, CellTypes
<1>8. n \in Reach(heap', {n})
  <2>1. IsHeap(heap') /\ {n} \in SUBSET Addr
    BY <1>5, HeapsAreHeaps DEF KeepsCells
  <2> QED BY <2>1, ReachIsClosed
<1>9. Moves /\ KeepsLists(Len(stack) - 1, heap')
  BY <1>1, <1>2, <1>5, FewerLists, MovesOn
<1>10. PICK v \in Value : v = Ref(n)
  BY <1>5
<1>11. PICK f \in Frames : f = [Top EXCEPT !.pc = "items", !.head = v, !.tail = v]
  BY <1>3 DEF Frames, Pcs, ListPcs
<1>12. f.pc = "items" /\ f.sp = Top.sp /\ f.head = v /\ f.tail = v /\ f.item = Top.item
  BY <1>3, <1>11 DEF Frames
<1>13. Slots(f) = 1 /\ Slots(Top) = 0
  BY <1>1, <1>3, <1>12, SlotsAre
<1>14. /\ protect' \in Seq(Value) /\ Len(protect') = f.sp + Slots(f)
       /\ protect'[f.sp + 1] = v
       /\ \A k \in 1 .. f.sp : protect'[k] = protect[k]
  <2>1. protect' = Append(protect, v)
    BY <1>10 DEF DummyHead
  <2>2. /\ protect' \in Seq(Value) /\ Len(protect') = Top.sp + (0 + 1)
        /\ protect'[Top.sp + (0 + 1)] = v
        /\ \A k \in 1 .. Top.sp : protect'[k] = protect[k]
    BY <1>3, <1>13, <2>1, SlotTaken
  <2> QED BY <1>3, <1>12, <1>13, <2>2
<1>15. TakesSlots(f)
  BY <1>6, <1>7, <1>10, <1>13, <1>14 DEF TakesSlots
<1>16. Held(f, heap', protect')
  <2>1. ListHeld(f, heap', protect')
    BY <1>6, <1>7, <1>8, <1>10, <1>12, <1>14 DEF ListHeld
  <2>2. f.item = Nil
    BY <1>1, <1>3, <1>12 DEF Held
  <2> QED BY <1>12, <2>1, <2>2 DEF Held, Building
<1>17. TailIsOwn(f)
  BY <1>5, <1>10, <1>12, FreshTail DEF TailIsOwn
<1>18. stack' = [stack EXCEPT ![Len(stack)] = f]
  BY <1>10, <1>11 DEF DummyHead, SetTop
<1>19. f.pc \notin Waiting /\ f.pc \in ListPcs /\ Top.pc \in ListPcs
  BY <1>1, <1>12 DEF Waiting, ListPcs
<1> QED
  BY <1>1, <1>2, <1>5, <1>9, <1>12, <1>15, <1>16, <1>17, <1>18, <1>19, SetTopStep

\* The inner pair of a quote takes the slot of the form that it holds.
LEMMA InnerPairStep == IInv /\ InnerPair => IInv'
<1> SUFFICES ASSUME IInv, InnerPair PROVE IInv'
  OBVIOUS
<1> DEFINE n == NextFree(heap)
<1>1. /\ Types /\ Room(heap) /\ Top.pc = "inner" /\ heap' = Pair(Top.item, Nil)
      /\ UNCHANGED <<text, start, outcome, pos, depth, raw>>
  BY DEF IInv, InnerPair, Run, readerVars
<1>2. reg = Running /\ stack # <<>> /\ reg.status = "OK" /\ reg.mode # "idle" /\ reg' = Running
  BY RunningIs DEF InnerPair, Run
<1>3. /\ Top \in Frames /\ Top.sp \in Nat /\ Held(Top, heap, protect)
      /\ protect \in Seq(Value) /\ Len(protect) = Top.sp + Slots(Top)
      /\ \A k \in 1 .. Len(protect) :
            protect[k] \in Value /\ (IsObj(protect[k]) => heap[protect[k][2]] # Free)
      /\ \A k \in 1 .. Slots(Top) : Top.sp + k \in 1 .. Len(protect)
  BY <1>2, TopHolds
<1>4. Nil \in Value /\ ~IsObj(Nil)
  BY Values
<1>5. Slots(Top) = 1
  BY <1>1, <1>3, SlotsAre
<1>6. Top.item \in Value /\ (IsObj(Top.item) => heap[Top.item[2]] # Free)
  <2>1. Top.item = protect[Top.sp + 1] /\ Top.sp + 1 \in 1 .. Len(protect)
    BY <1>1, <1>3, <1>5 DEF Held
  <2> QED BY <1>3, <2>1
<1>7. /\ n \in Addr /\ heap[n] = Free /\ Ref(n) \in Value
      /\ heap'[n] = PairOf(Top.item, Nil)
      /\ KeepsCells(heap') /\ KeepsLists(Len(stack), heap')
  BY <1>1, <1>4, <1>6, PairIsPut
<1>8. IsObj(Ref(n)) /\ Ref(n)[2] = n /\ heap'[n] # Free
  BY <1>4, <1>6, <1>7, Values, CellTypes
<1>9. Moves /\ KeepsLists(Len(stack) - 1, heap')
  BY <1>1, <1>2, <1>7, FewerLists, MovesOn
<1>10. PICK v \in Value : v = Ref(n)
  BY <1>7
<1>11. PICK f \in Frames : f = [Top EXCEPT !.pc = "outer", !.item = v]
  BY <1>3 DEF Frames, Pcs, ListPcs
<1>12. f.pc = "outer" /\ f.sp = Top.sp /\ f.head = Top.head /\ f.tail = Top.tail /\ f.item = v
  BY <1>3, <1>11 DEF Frames
<1>13. Slots(f) = 1
  BY <1>12, SlotsAre
<1>14. /\ protect' \in Seq(Value) /\ Len(protect') = f.sp + Slots(f)
       /\ protect'[f.sp + 1] = v
       /\ \A k \in 1 .. f.sp : protect'[k] = protect[k]
  <2>1. protect' = Append(Front(protect), v)
    BY <1>10 DEF InnerPair
  <2>2. PICK slots \in Nat : slots = 0 /\ Len(protect) - 1 = Top.sp + slots
    BY <1>3, <1>5
  <2>3. /\ Front(protect) \in Seq(Value) /\ Len(Front(protect)) = Top.sp + 0
        /\ \A k \in 1 .. Top.sp : Front(protect)[k] = protect[k]
    BY <1>3, <2>2, SlotGivenBack
  <2>4. /\ protect' \in Seq(Value) /\ Len(protect') = Top.sp + (0 + 1)
        /\ protect'[Top.sp + (0 + 1)] = v
        /\ \A k \in 1 .. Top.sp : protect'[k] = Front(protect)[k]
    BY <1>3, <2>1, <2>3, SlotTaken
  <2> QED BY <1>3, <1>12, <1>13, <2>3, <2>4
<1>15. TakesSlots(f)
  BY <1>8, <1>10, <1>13, <1>14 DEF TakesSlots
<1>16. Held(f, heap', protect')
  BY <1>1, <1>3, <1>12, <1>14 DEF Held, Building
<1>17. TailIsOwn(f)
  BY <1>12 DEF TailIsOwn, Building
<1>18. stack' = [stack EXCEPT ![Len(stack)] = f]
  BY <1>10, <1>11 DEF InnerPair, SetTop
<1>19. f.pc \notin Waiting /\ f.pc \notin ListPcs /\ Top.pc \notin ListPcs
  BY <1>1, <1>12 DEF Waiting, ListPcs
<1> QED
  BY <1>1, <1>2, <1>7, <1>9, <1>12, <1>15, <1>16, <1>17, <1>18, <1>19, SetTopStep

\* An element's cell becomes the tail: its item, protected until then, is
\* reached from the head.
LEMMA ConsElementStep == IInv /\ ConsElement => IInv'
<1> SUFFICES ASSUME IInv, ConsElement PROVE IInv'
  OBVIOUS
<1> DEFINE n == NextFree(heap)
           t == Top.tail[2]
           h == Pair(Top.item, Nil)
<1>1. /\ Types /\ Room(heap) /\ Top.pc = "cell" /\ heap' = LinkTail(h, Ref(n))
      /\ UNCHANGED <<text, start, outcome, pos, depth, raw>>
  BY DEF IInv, ConsElement, Run, readerVars
<1>2. reg = Running /\ stack # <<>> /\ reg.status = "OK" /\ reg.mode # "idle" /\ reg' = Running
  BY RunningIs DEF ConsElement, Run
<1>3. /\ Top \in Frames /\ Top.sp \in Nat /\ Held(Top, heap, protect)
      /\ protect \in Seq(Value) /\ Len(protect) = Top.sp + Slots(Top)
      /\ \A k \in 1 .. Len(protect) :
            protect[k] \in Value /\ (IsObj(protect[k]) => heap[protect[k][2]] # Free)
      /\ \A k \in 1 .. Slots(Top) : Top.sp + k \in 1 .. Len(protect)
  BY <1>2, TopHolds
<1>4. Nil \in Value /\ ~IsObj(Nil)
  BY Values
<1>5. Slots(Top) = 2 /\ Top.pc \in Building /\ ListHeld(Top, heap, protect)
  BY <1>1, <1>3, SlotsAre DEF Held, Building
<1>6. Top.item \in Value /\ (IsObj(Top.item) => heap[Top.item[2]] # Free)
  <2>1. Top.item = protect[Top.sp + 2] /\ Top.sp + 2 \in 1 .. Len(protect)
    BY <1>1, <1>3, <1>5 DEF Held
  <2> QED BY <1>3, <2>1
<1>7. /\ n \in Addr /\ heap[n] = Free /\ Ref(n) \in Value
      /\ h[n] = PairOf(Top.item, Nil) /\ \A a \in Addr : a # n => h[a] = heap[a]
      /\ KeepsCells(h) /\ KeepsLists(Len(stack), h)
  BY <1>1, <1>4, <1>6, PairIsPut
<1>8. IsObj(Ref(n)) /\ Ref(n)[2] = n /\ h[n] \in LastPairs /\ h[n] # Free
  BY <1>4, <1>6, <1>7, Values, CellTypes
<1> HIDE DEF h
<1>9. /\ KeepsCells(heap') /\ KeepsLists(Len(stack) - 1, heap')
      /\ t \in Addr /\ h[t] \in LastPairs /\ heap'[t] \in Pairs
      /\ \A a \in Addr : a # t => heap'[a] = h[a]
      /\ RefsOf(heap', t) = RefsOf(h, t) \cup Addresses({Ref(n)})
      /\ Top.head[2] \in Addr /\ t \in Reach(heap', {Top.head[2]}) /\ heap'[Top.head[2]] \in Pairs
  BY <1>1, <1>2, <1>5, <1>7, <1>8, LinkKeeps
<1>10. t # n
  <2>1. heap[t] \in LastPairs
    BY <1>5 DEF ListHeld
  <2> QED BY <1>7, <2>1, CellTypes
<1>11. heap'[n] \in LastPairs /\ n \in Reach(heap', {Top.head[2]})
  <2>1. n \in RefsOf(heap', t)
    BY <1>8, <1>9 DEF Addresses
  <2>2. IsHeap(heap') /\ {Top.head[2]} \in SUBSET Addr
    BY <1>9, HeapsAreHeaps DEF KeepsCells
  <2>3. Closed(heap', Reach(heap', {Top.head[2]}))
    BY <2>2, ReachIsClosed
  <2> QED BY <1>7, <1>8, <1>9, <1>10, <2>1, <2>3 DEF Closed
<1>12. Moves
  BY <1>1, MovesOn
<1>13. PICK v \in Value : v = Ref(n)
  BY <1>7
<1>14. PICK f \in Frames : f = [Top EXCEPT !.pc = "items", !.tail = v, !.item = Nil]
  BY <1>3, <1>4 DEF Frames, Pcs, ListPcs
<1>15. f.pc = "items" /\ f.sp = Top.sp /\ f.head = Top.head /\ f.tail = v /\ f.item = Nil
  BY <1>3, <1>14 DEF Frames
<1>16. Slots(f) = 1
  BY <1>15, SlotsAre
<1>17. /\ protect' \in Seq(Value) /\ Len(protect') = f.sp + Slots(f)
       /\ protect'[f.sp + 1] = protect[f.sp + 1]
       /\ \A k \in 1 .. f.sp : protect'[k] = protect[k]
  <2>1. protect' = Front(protect)
    BY DEF ConsElement
  <2>2. PICK slots \in Nat : slots = 1 /\ Len(protect) - 1 = Top.sp + slots
    BY <1>3, <1>5
  <2>3. /\ protect' \in Seq(Value) /\ Len(protect') = Top.sp + 1
        /\ \A k \in 1 .. Top.sp + 1 : protect'[k] = protect[k]
        /\ \A k \in 1 .. Top.sp : protect'[k] = protect[k]
    BY <1>3, <2>1, <2>2, SlotGivenBack, ZenonT(30)
  <2>4. Top.sp + 1 \in 1 .. Top.sp + 1
    BY <1>3
  <2> QED BY <1>15, <1>16, <2>3, <2>4
<1>18. f.head = protect'[f.sp + 1] /\ IsObj(f.head)
  BY <1>5, <1>15, <1>17 DEF ListHeld
<1>19. TakesSlots(f)
  <2>1. heap'[f.head[2]] # Free
    BY <1>9, <1>15, CellTypes
  <2> QED BY <1>16, <1>17, <1>18, <2>1 DEF TakesSlots
<1>20. Held(f, heap', protect')
  <2>1. ListHeld(f, heap', protect')
    BY <1>8, <1>9, <1>11, <1>13, <1>15, <1>18 DEF ListHeld
  <2> QED BY <1>15, <2>1 DEF Held, Building
<1>21. TailIsOwn(f)
  BY <1>7, <1>13, <1>15, FreshTail DEF TailIsOwn
<1>22. stack' = [stack EXCEPT ![Len(stack)] = f]
  BY <1>13, <1>14 DEF ConsElement, SetTop
<1>23. f.pc \notin Waiting /\ f.pc \in ListPcs /\ Top.pc \in ListPcs
  BY <1>1, <1>15 DEF Waiting, ListPcs
<1> QED
  BY <1>1, <1>2, <1>9, <1>12, <1>15, <1>19, <1>20, <1>21, <1>22, <1>23, SetTopStep

-----------------------------------------------------------------------------
(***************************************************************************)
(* The invariant and the theorems.                                         *)
(***************************************************************************)

\* Nothing has been read yet.
LEMMA InitInv == Init => IInv
<1> SUFFICES ASSUME Init PROVE IInv
  OBVIOUS
<1>1. Nil \in Value /\ ~IsObj(Nil) /\ Free \in Cells
  BY Values, CellTypes
<1>2. Len(text) \in Nat /\ MaxReadDepth \in Nat
  BY ReaderAssumption, LenProperties DEF Init
<1>3. pos \in 1 .. Len(text) + 1 /\ start \in 1 .. pos /\ depth \in 0 .. MaxReadDepth
  <2>1. pos = 1 /\ start = 1 /\ depth = 0
    BY DEF Init
  <2> QED BY <1>2, <2>1
<1>4. stack = <<>> /\ stack \in Seq(Frames) /\ DOMAIN stack = {} /\ Len(stack) = 0
  <2>1. stack = <<>>
    BY DEF Init
  <2> QED BY <2>1
<1>5. protect = <<>> /\ protect \in Seq(Value) /\ DOMAIN protect = {} /\ Len(protect) = 0
  <2>1. protect = <<>>
    BY DEF Init
  <2> QED BY <2>1
<1>6. /\ reg \in [mode : {"idle", "call", "run", "return"}, status : Statuses, value : Value]
      /\ reg.mode = "idle" /\ reg.status = "OK" /\ reg.value = Nil
  BY <1>1 DEF Init, Register, Statuses
<1>7. Types
  BY <1>1, <1>3, <1>4, <1>5, <1>6 DEF Init, Types
<1>8. Control
  BY <1>4, <1>6 DEF Control
<1>9. Layout
  BY <1>4, <1>5 DEF Layout, ProtectLayout
<1>10. NoDangling
  <2>1. \A a \in Addr : RefsOf(heap, a) = {}
    BY CellRefs DEF Init
  <2> QED BY <1>1, <1>5, <1>6, <2>1 DEF NoDangling, Alive
<1>11. depth = 0 /\ raw = 0
  BY DEF Init
<1>12. DepthExact /\ ScratchExact
  BY <1>4, <1>11, FS_EmptySet DEF DepthExact, ScratchExact
<1> QED
  BY <1>4, <1>7, <1>8, <1>9, <1>10, <1>12 DEF IInv, TailsDiffer

\* Every step keeps the invariant.
LEMMA NextInv == IInv /\ [Next]_vars => IInv'
<1> SUFFICES ASSUME IInv, [Next]_vars PROVE IInv'
  OBVIOUS
<1>1. CASE UNCHANGED vars
  <2>1. UNCHANGED <<text, pos, depth, stack, reg, heap, protect, raw, data, start, outcome>>
    BY <1>1 DEF vars
  <2>2. Types' /\ Control' /\ Layout'
    BY <2>1 DEF IInv, Types, Control, Top, Layout, ProtectLayout, Slots
  <2>3. (\A i \in DOMAIN stack : Held(stack[i], heap, protect))' /\ TailsDiffer' /\ NoDangling'
    BY <2>1 DEF IInv, TailsDiffer, Building, NoDangling, Alive
  <2>4. DepthExact' /\ ScratchExact'
    BY <2>1 DEF IInv, DepthExact, ScratchExact, Done
  <2> QED BY <2>2, <2>3, <2>4 DEF IInv
<1>2. CASE Read
  BY <1>2, ReadNextStep, FormReadStep, TokenStep, CallStep, FailureStep, EndOfListStep,
     DottedTailStep, MadeStep, ItemStep, ProtectStep, DummyHeadStep, InnerPairStep,
     ConsElementStep DEF Read
<1>3. CASE Collect
  BY <1>3, CollectStep DEF Collect, readerVars
<1>4. CASE OutOfMemory
  BY <1>4, FailureStep
<1>5. CASE TokenFails
  BY <1>5, TokenStep
<1> QED
  BY <1>1, <1>2, <1>3, <1>4, <1>5 DEF Next

\* The inductive invariant holds at all times.
LEMMA Invariance == Spec => []IInv
BY InitInv, NextInv, PTL DEF Spec

\* Every variable keeps the type its comment gives it.
THEOREM ReaderTypeCorrect == Spec => []TypeOK
<1>1. IInv => TypeOK
  <2> SUFFICES ASSUME IInv PROVE TypeOK
    OBVIOUS
  <2>1. Types
    BY DEF IInv
  <2>2. \A i \in DOMAIN stack : stack[i] \in Frames
    BY <2>1, ElementOfSeq, LenProperties DEF Types
  <2>3. \A a \in Addr : heap[a].kind \in {"FREE", "PAIR", "STRING"}
    BY <2>1, CellTypes DEF Types
  <2> QED BY <2>1, <2>2, <2>3 DEF Types, TypeOK, Statuses, Frames, Pcs
<1> QED
  BY <1>1, Invariance, PTL

\* Whenever a collection happens, the partial lists, their tails, the element
\* or form between two allocations and the value being returned survive it
\* (reader.c:11-15), for every text, memory and order of collections.
THEOREM ReaderRoots == Spec => []Rooted
<1>1. IInv => Rooted
  <2> SUFFICES ASSUME IInv PROVE Rooted
    OBVIOUS
  <2>1. Types /\ NoDangling
    BY DEF IInv
  <2>2. ASSUME NEW i \in DOMAIN stack
        PROVE  Alive(stack[i].head) /\ Alive(stack[i].tail) /\ Alive(stack[i].item)
    <3> DEFINE f == stack[i]
    <3>1. f \in Frames /\ Held(f, heap, protect)
      BY <2>1, ElementOfSeq, LenProperties DEF IInv, Types
    <3>2. \A k \in 1 .. Slots(f) : Alive(protect[f.sp + k])
      BY <2>1, SlotsInside DEF IInv, NoDangling
    <3> HIDE DEF f
    <3>3. ~IsObj(Nil)
      BY Values
    <3>4. CASE f.pc \in Building
      <4>1. heap[f.head[2]] \in Pairs /\ heap[f.tail[2]] \in Pairs
        BY <3>1, <3>4, CellTypes DEF Held, ListHeld
      <4>2. \A c \in Pairs : c.kind = "PAIR"
        BY CellKinds DEF Pairs
      <4>3. f.item = Nil \/ (f.item = protect[f.sp + 2] /\ 2 \in 1 .. Slots(f))
        BY <3>1, <3>4, SlotsAre DEF Held, Building
      <4>4. Alive(f.head) /\ Alive(f.tail) /\ Alive(f.item)
        BY <3>2, <3>3, <4>1, <4>2, <4>3 DEF Alive
      <4> QED BY <4>4 DEF f
    <3>5. CASE f.pc \notin Building
      <4>1. f.head = Nil /\ f.tail = Nil
        BY <3>1, <3>5 DEF Held
      <4>2. f.item = Nil \/ (f.item = protect[f.sp + 1] /\ 1 \in 1 .. Slots(f))
        BY <3>1, <3>5, SlotsAre DEF Held, Building
      <4>3. Alive(f.head) /\ Alive(f.tail) /\ Alive(f.item)
        BY <3>2, <3>3, <4>1, <4>2 DEF Alive
      <4> QED BY <4>3 DEF f
    <3> QED BY <3>4, <3>5
  <2> QED BY <2>1, <2>2 DEF NoDangling, Rooted
<1> QED
  BY <1>1, Invariance, PTL

\* The protect stack is the slots of the calls in progress and nothing else, on
\* every path through the reader, those that end in an error included.
THEOREM ReaderGivesSlotsBack == Spec => []ProtectLayout
<1>1. IInv => ProtectLayout
  BY DEF IInv, Layout
<1> QED
  BY <1>1, Invariance, PTL

\* r->depth is the number of lists being read.
THEOREM ReaderDepthIsExact == Spec => []DepthExact
<1>1. IInv => DepthExact
  BY DEF IInv
<1> QED
  BY <1>1, Invariance, PTL

\* A scratch buffer is freed on every path out of read_string.
THEOREM ReaderFreesScratch == Spec => []ScratchExact
<1>1. IInv => ScratchExact
  BY DEF IInv
<1> QED
  BY <1>1, Invariance, PTL
=============================================================================
