--------------------------- MODULE ProcessProofs ---------------------------
(***************************************************************************)
(* Theorems about CommandLine, for any callers, any lists of special forms *)
(* and primitives, any first capacities and any size of memory.            *)
(*                                                                         *)
(* NothingIsLost.  `Accounts` is inductive: the blocks in use are those    *)
(* that the objects, the names and eight single variables hold, no two of  *)
(* these hold the same one (`Owns`), only the top-level frame has arrays   *)
(* (`State`), and what is ahead (`todo`) never binds a name before there   *)
(* is a top-level frame, nor prints a result while another is held         *)
(* (`Plans`).  Each operation keeps the owners; each stage of the process  *)
(* holds a result, a text or a file only where the code frees it.          *)
(*                                                                         *)
(* OutputAlwaysFollows.  `Streaming` ties the stages of the REPL to the    *)
(* stream that is configured.                                              *)
(*                                                                         *)
(* ExitCodeAlwaysTellsCause.  `Cause` says at each stage of main what is   *)
(* known so far: while arguments are looked at, that those before are      *)
(* expressions; afterwards, that the command line was wrong or not; while  *)
(* a source is evaluated, that its status has a cause and that an error    *)
(* of the source is still ahead or was reported; and from the end on, that *)
(* the code is justified.                                                  *)
(***************************************************************************)
EXTENDS CommandLine, Lemmas

-----------------------------------------------------------------------------
(***************************************************************************)
(* The allocator.                                                          *)
(***************************************************************************)
Memory == [live : SUBSET Blocks, wild : BOOLEAN, denied : BOOLEAN]

\* The blocks that the variables of a function hold, and that no two hold one.
Held(p) == {p[i] : i \in DOMAIN p} \ {Null}
Once(p) == \A i, j \in DOMAIN p : i # j /\ p[i] = p[j] => p[i] = Null

\* Null is no block.
LEMMA NullIsNoBlock == Null \notin Blocks
BY LifecycleAssumption DEF Null, Blocks

\* An allocation gives a block that was not in use, or denies one.
LEMMA GotIs ==
    ASSUME NEW m \in Memory, NEW g \in Got(m)
    PROVE  /\ g.mem \in Memory /\ g.mem.wild = m.wild
           /\ \/ g.block = Null /\ g.mem.live = m.live /\ g.mem.denied
              \/ /\ g.block \in Blocks \ m.live /\ g.block # Null
                 /\ g.mem.live = m.live \cup {g.block} /\ g.mem.denied = m.denied
<1>1. CASE g = [mem |-> [m EXCEPT !.denied = TRUE], block |-> Null]
  BY <1>1 DEF Memory
<1>2. CASE /\ ~(Blocks \subseteq m.live)
           /\ g = [mem |-> [m EXCEPT !.live = @ \cup {Fresh(m)}], block |-> Fresh(m)]
  <2>1. Fresh(m) \in Blocks /\ Fresh(m) \notin m.live
    BY <1>2 DEF Fresh
  <2>2. QED
    BY <1>2, <2>1, NullIsNoBlock DEF Memory
<1>3. QED
  BY <1>1, <1>2 DEF Got

\* Blocks in use, each held once, are given back properly.
LEMMA DroppedIs ==
    ASSUME NEW m \in Memory, ~m.wild, NEW p, Once(p), Held(p) \subseteq m.live
    PROVE  /\ Dropped(m, p) \in Memory /\ ~Dropped(m, p).wild
           /\ Dropped(m, p).live = m.live \ Held(p)
           /\ Dropped(m, p).denied = m.denied
<1> DEFINE given == {i \in DOMAIN p : p[i] # Null}
           wild == \/ m.wild
                   \/ \E i \in given : p[i] \notin m.live
                   \/ \E i, j \in given : i # j /\ p[i] = p[j]
<1>1. {p[i] : i \in given} = Held(p)
  BY DEF Held
<1>2. ~wild
  BY DEF Held, Once
<1>3. wild \in BOOLEAN
  BY <1>2
<1>4. Dropped(m, p) = [m EXCEPT !.live = m.live \ Held(p), !.wild = wild]
  BY <1>1, Zenon DEF Dropped
<1> HIDE DEF wild
<1>5. QED
  BY <1>2, <1>3, <1>4 DEF Memory

\* One block in use, or none.
LEMMA OneDropped ==
    ASSUME NEW m \in Memory, ~m.wild, NEW b, b = Null \/ b \in m.live
    PROVE  /\ Dropped(m, <<b>>) \in Memory /\ ~Dropped(m, <<b>>).wild
           /\ Dropped(m, <<b>>).live = m.live \ ({b} \ {Null})
           /\ Dropped(m, <<b>>).denied = m.denied
<1>1. Once(<<b>>) /\ Held(<<b>>) = {b} \ {Null}
  BY DEF Once, Held
<1>2. QED
  BY <1>1, DroppedIs

-----------------------------------------------------------------------------
(***************************************************************************)
(* The owners of blocks.                                                   *)
(***************************************************************************)
Fields ==
    {"self", "names", "entries", "symcap", "toplevel", "arrays", "envcap", "bound",
     "objects", "threshold", "roots", "protect", "protcap", "marklist", "markcap"}

\* The single variables that own a block.
Parts(s, r, t) ==
    [self |-> s.self, entries |-> s.entries, protect |-> s.protect, marklist |-> s.marklist,
     names |-> s.arrays[1], values |-> s.arrays[2], result |-> r, text |-> t]
Named(s) == {s.names[i].block : i \in DOMAIN s.names}

\* A state as C lays it out; only the top-level frame has arrays, and it is
\* one of the objects.
State(s) ==
    /\ DOMAIN s = Fields
    /\ Sequence(s.names)
    /\ s.arrays = <<s.arrays[1], s.arrays[2]>>
    /\ IF s.toplevel = Null THEN s.arrays = <<Null, Null>> ELSE s.toplevel \in s.objects

\* The blocks in use are the ones that have an owner, and no block has two.
Owns(m, s, r, t) ==
    LET parts == Parts(s, r, t)
    IN  /\ m \in Memory /\ ~m.wild
        /\ m.live = s.objects \cup Named(s) \cup Held(parts)
        /\ Once(parts)
        /\ s.objects \cap Named(s) = {}
        /\ s.objects \cap Held(parts) = {}
        /\ Named(s) \cap Held(parts) = {}
        /\ \A i, j \in DOMAIN s.names : s.names[i].block = s.names[j].block => i = j

\* A variable holds another block.
LEMMA HeldReplaced ==
    ASSUME NEW p, Once(p), NEW k \in DOMAIN p, NEW q, DOMAIN q = DOMAIN p,
           \A i \in DOMAIN p : i # k => q[i] = p[i],
           q[k] = Null \/ q[k] \notin Held(p)
    PROVE  /\ Once(q)
           /\ Held(q) = (Held(p) \ {p[k]}) \cup ({q[k]} \ {Null})
<1>1. Once(q)
  BY DEF Once, Held
<1>2. ASSUME NEW b \in Held(q) PROVE b \in (Held(p) \ {p[k]}) \cup ({q[k]} \ {Null})
  BY DEF Once, Held
<1>3. ASSUME NEW b \in (Held(p) \ {p[k]}) \cup ({q[k]} \ {Null}) PROVE b \in Held(q)
  BY DEF Once, Held
<1>4. QED
  BY <1>1, <1>2, <1>3

\* One variable holds another block, and the one it held is given back.
LEMMA Replaced ==
    ASSUME NEW m, NEW s, NEW r, NEW t, Owns(m, s, r, t),
           NEW m2 \in Memory, ~m2.wild, NEW s2, NEW r2, NEW t2,
           s2.objects = s.objects, s2.names = s.names,
           NEW k \in DOMAIN Parts(s, r, t),
           \A i \in DOMAIN Parts(s, r, t) : i # k => Parts(s2, r2, t2)[i] = Parts(s, r, t)[i],
           NEW b, b = Parts(s2, r2, t2)[k], b = Null \/ b \notin m.live,
           m2.live = (m.live \ ({Parts(s, r, t)[k]} \ {Null})) \cup ({b} \ {Null})
    PROVE  Owns(m2, s2, r2, t2)
<1>1. PICK p, q : p = Parts(s, r, t) /\ q = Parts(s2, r2, t2)
  OBVIOUS
<1>2. DOMAIN p = DOMAIN q
  BY <1>1 DEF Parts
<1>3. /\ m \in Memory /\ ~m.wild
      /\ m.live = s.objects \cup Named(s) \cup Held(p)
      /\ Once(p)
      /\ s.objects \cap Named(s) = {}
      /\ s.objects \cap Held(p) = {}
      /\ Named(s) \cap Held(p) = {}
      /\ \A i, j \in DOMAIN s.names : s.names[i].block = s.names[j].block => i = j
  BY <1>1 DEF Owns
<1>4. Once(q) /\ Held(q) = (Held(p) \ {p[k]}) \cup ({b} \ {Null})
  <2>1. \A i \in DOMAIN p : i # k => q[i] = p[i]
    BY <1>1
  <2>2. q[k] = Null \/ q[k] \notin Held(p)
    BY <1>1, <1>3
  <2>3. k \in DOMAIN p /\ b = q[k]
    BY <1>1
  <2>4. QED
    BY <1>2, <1>3, <2>1, <2>2, <2>3, HeldReplaced
<1>5. Named(s2) = Named(s)
  BY DEF Named
<1>6. p[k] = Null \/ p[k] \in Held(p)
  BY <1>1 DEF Held
<1>7. m2.live = s2.objects \cup Named(s2) \cup Held(q)
  <2>1. m2.live = (m.live \ ({p[k]} \ {Null})) \cup ({b} \ {Null})
    BY <1>1
  <2>2. Null \notin Held(p)
    BY DEF Held
  <2>3. m.live \ ({p[k]} \ {Null}) = s.objects \cup Named(s) \cup (Held(p) \ {p[k]})
    BY <1>3, <1>6, <2>2
  <2>4. QED
    BY <1>4, <1>5, <2>1, <2>3
<1>8. /\ s2.objects \cap Named(s2) = {}
      /\ s2.objects \cap Held(q) = {}
      /\ Named(s2) \cap Held(q) = {}
      /\ \A i, j \in DOMAIN s2.names : s2.names[i].block = s2.names[j].block => i = j
  BY <1>3, <1>4, <1>5
<1>9. QED
  BY <1>1, <1>4, <1>7, <1>8 DEF Owns

\* What a variable holds is in use; Null never is.
LEMMA PartsInUse ==
    ASSUME NEW m, NEW s, NEW r, NEW t, Owns(m, s, r, t)
    PROVE  /\ m \in Memory /\ ~m.wild /\ Null \notin m.live
           /\ \A k \in DOMAIN Parts(s, r, t) : Parts(s, r, t)[k] = Null \/ Parts(s, r, t)[k] \in m.live
<1>1. m \in Memory /\ ~m.wild /\ Held(Parts(s, r, t)) \subseteq m.live
  BY DEF Owns
<1>2. Null \notin m.live
  BY <1>1, NullIsNoBlock DEF Memory
<1>3. QED
  BY <1>1, <1>2 DEF Held

\* A variable holds a new block instead of its own, which is given back.
LEMMA Grown ==
    ASSUME NEW m, NEW s, NEW r, NEW t, Owns(m, s, r, t),
           NEW g \in Got(m), g.block # Null,
           NEW s2, NEW r2, NEW t2, s2.objects = s.objects, s2.names = s.names,
           NEW k \in DOMAIN Parts(s, r, t),
           \A i \in DOMAIN Parts(s, r, t) : i # k => Parts(s2, r2, t2)[i] = Parts(s, r, t)[i],
           Parts(s2, r2, t2)[k] = g.block,
           NEW old, old = Parts(s, r, t)[k]
    PROVE  Owns(Dropped(g.mem, <<old>>), s2, r2, t2)
<1>1. PICK b, m2 : b = g.block /\ m2 = Dropped(g.mem, <<old>>)
  OBVIOUS
<1>2. m \in Memory /\ ~m.wild /\ Null \notin m.live /\ (old = Null \/ old \in m.live)
  BY PartsInUse
<1>3. /\ g.mem \in Memory /\ ~g.mem.wild /\ g.mem.live = m.live \cup {b}
      /\ b \notin m.live /\ b # Null
  BY <1>1, <1>2, GotIs
<1>4. m2 \in Memory /\ ~m2.wild /\ m2.live = g.mem.live \ ({old} \ {Null})
  BY <1>1, <1>2, <1>3, OneDropped
<1>5. m2.live = (m.live \ ({old} \ {Null})) \cup ({b} \ {Null})
  BY <1>2, <1>3, <1>4
<1>6. Owns(m2, s2, r2, t2)
  BY <1>1, <1>3, <1>4, <1>5, Replaced
<1>7. QED
  BY <1>1, <1>6

\* A variable gives back what it holds.
LEMMA Released ==
    ASSUME NEW m, NEW s, NEW r, NEW t, Owns(m, s, r, t),
           NEW k \in DOMAIN Parts(s, r, t),
           NEW r2, NEW t2,
           \A i \in DOMAIN Parts(s, r, t) : i # k => Parts(s, r2, t2)[i] = Parts(s, r, t)[i],
           Parts(s, r2, t2)[k] = Null,
           NEW old, old = Parts(s, r, t)[k]
    PROVE  Owns(Dropped(m, <<old>>), s, r2, t2)
<1>1. PICK m2 : m2 = Dropped(m, <<old>>)
  OBVIOUS
<1>2. m \in Memory /\ ~m.wild /\ Null \notin m.live /\ (old = Null \/ old \in m.live)
  BY PartsInUse
<1>3. m2 \in Memory /\ ~m2.wild /\ m2.live = m.live \ ({old} \ {Null})
  BY <1>1, <1>2, OneDropped
<1>4. m2.live = (m.live \ ({old} \ {Null})) \cup ({Null} \ {Null})
  BY <1>3
<1>5. Owns(m2, s, r2, t2)
  BY <1>3, <1>4, Replaced
<1>6. QED
  BY <1>1, <1>5

-----------------------------------------------------------------------------
(***************************************************************************)
(* Operations keep the ownership.                                          *)
(***************************************************************************)
Owning == State(ml) /\ Owns(mem, ml, result, text)

\* A failure leaves every owner what it has.
LEMMA FailKeeps ==
    ASSUME Owning, NEW st, NEW m \in Memory, ~m.wild, m.live = mem.live, Fail(st, m), text' = text
    PROVE  Owning' /\ ml' = [ml EXCEPT !.roots = <<>>] /\ result' = result
<1>1. ml' = [ml EXCEPT !.roots = <<>>] /\ mem' = m /\ result' = result
  BY DEF Fail
<1>2. State(ml')
  BY <1>1 DEF Owning, State, Fields
<1>3. Parts(ml', result', text') = Parts(ml, result, text) /\ Named(ml') = Named(ml)
      /\ ml'.objects = ml.objects /\ ml'.names = ml.names
  BY <1>1 DEF Owning, State, Fields, Parts, Named
<1>4. Owns(m, ml', result', text')
  BY <1>3 DEF Owning, Owns
<1>5. QED
  BY <1>1, <1>2, <1>4 DEF Owning

\* A failed allocation.
LEMMA RefusalKeeps ==
    ASSUME Owning, NEW g \in Got(mem), g.block = Null, Fail("NOMEM", g.mem), text' = text
    PROVE  Owning'
<1>1. g.mem \in Memory /\ ~g.mem.wild /\ g.mem.live = mem.live
  <2>1. mem \in Memory /\ ~mem.wild /\ Null \notin Blocks
    BY NullIsNoBlock DEF Owning, Owns
  <2>2. QED
    BY <2>1, GotIs
<1>2. QED
  BY <1>1, FailKeeps

\* The table of symbols moves to a larger block.
LEMMA GrowSymbolsKeeps ==
    ASSUME Owning, GrowSymbols, text' = text
    PROVE  Owning'
<1>1. PICK g \in Got(mem) :
        IF g.block = Null THEN Fail("NOMEM", g.mem)
        ELSE /\ mem' = Dropped(g.mem, <<ml.entries>>)
             /\ ml' = [ml EXCEPT !.entries = g.block, !.symcap = Doubled(@, FirstSymbols)]
             /\ UNCHANGED <<todo, status, result>> /\ UNCHANGED made
  BY DEF GrowSymbols, Take
<1>2. CASE g.block = Null
  BY <1>1, <1>2, RefusalKeeps
<1>3. CASE g.block # Null
  <2>1. /\ mem' = Dropped(g.mem, <<ml.entries>>) /\ result' = result
        /\ ml' = [ml EXCEPT !.entries = g.block, !.symcap = Doubled(@, FirstSymbols)]
    BY <1>1, <1>3
  <2>2. State(ml') /\ ml'.objects = ml.objects /\ ml'.names = ml.names
    BY <2>1 DEF Owning, State, Fields
  <2>3. /\ "entries" \in DOMAIN Parts(ml, result, text)
        /\ ml.entries = Parts(ml, result, text)["entries"]
        /\ g.block = Parts(ml', result', text')["entries"]
        /\ \A i \in DOMAIN Parts(ml, result, text) : i # "entries" =>
             Parts(ml', result', text')[i] = Parts(ml, result, text)[i]
    BY <2>1 DEF Owning, State, Fields, Parts
  <2>4. Owns(Dropped(g.mem, <<ml.entries>>), ml', result', text')
    BY <1>3, <2>2, <2>3, Grown, Zenon DEF Owning
  <2>5. QED
    BY <2>1, <2>2, <2>4 DEF Owning
<1>4. QED
  BY <1>2, <1>3

\* So does the protect stack.
LEMMA GrowRootsKeeps ==
    ASSUME Owning, GrowRoots, text' = text
    PROVE  Owning'
<1>1. PICK g \in Got(mem) :
        IF g.block = Null THEN Fail("NOMEM", g.mem)
        ELSE /\ mem' = Dropped(g.mem, <<ml.protect>>)
             /\ ml' = [ml EXCEPT !.protect = g.block, !.protcap = Doubled(@, FirstRoots)]
             /\ UNCHANGED <<todo, status, result>> /\ UNCHANGED made
  BY DEF GrowRoots, Take
<1>2. CASE g.block = Null
  BY <1>1, <1>2, RefusalKeeps
<1>3. CASE g.block # Null
  <2>1. /\ mem' = Dropped(g.mem, <<ml.protect>>) /\ result' = result
        /\ ml' = [ml EXCEPT !.protect = g.block, !.protcap = Doubled(@, FirstRoots)]
    BY <1>1, <1>3
  <2>2. State(ml') /\ ml'.objects = ml.objects /\ ml'.names = ml.names
    BY <2>1 DEF Owning, State, Fields
  <2>3. /\ "protect" \in DOMAIN Parts(ml, result, text)
        /\ ml.protect = Parts(ml, result, text)["protect"]
        /\ g.block = Parts(ml', result', text')["protect"]
        /\ \A i \in DOMAIN Parts(ml, result, text) : i # "protect" =>
             Parts(ml', result', text')[i] = Parts(ml, result, text)[i]
    BY <2>1 DEF Owning, State, Fields, Parts
  <2>4. Owns(Dropped(g.mem, <<ml.protect>>), ml', result', text')
    BY <1>3, <2>2, <2>3, Grown, Zenon DEF Owning
  <2>5. QED
    BY <2>1, <2>2, <2>4 DEF Owning
<1>4. QED
  BY <1>2, <1>3

\* So does the mark list, in the course of a collection.
LEMMA GrowMarksKeeps ==
    ASSUME Owning, GrowMarks, text' = text
    PROVE  Owning'
<1>1. PICK g \in Got(mem) :
        /\ g.block # Null
        /\ mem' = Dropped(g.mem, <<ml.marklist>>) /\ result' = result
        /\ ml' = [ml EXCEPT !.marklist = g.block, !.markcap = Doubled(@, FirstMarks)]
  BY DEF GrowMarks
<1>2. State(ml') /\ ml'.objects = ml.objects /\ ml'.names = ml.names
  BY <1>1 DEF Owning, State, Fields
<1>3. /\ "marklist" \in DOMAIN Parts(ml, result, text)
      /\ ml.marklist = Parts(ml, result, text)["marklist"]
      /\ g.block = Parts(ml', result', text')["marklist"]
      /\ \A i \in DOMAIN Parts(ml, result, text) : i # "marklist" =>
           Parts(ml', result', text')[i] = Parts(ml, result, text)[i]
  BY <1>1 DEF Owning, State, Fields, Parts
<1>4. g.block # Null
  BY <1>1
<1>5. Owns(Dropped(g.mem, <<ml.marklist>>), ml', result', text')
  BY <1>2, <1>3, <1>4, Grown, Zenon DEF Owning
<1>6. QED
  BY <1>1, <1>2, <1>5 DEF Owning

\* A step that concerns no owner.
LEMMA OwnersStay ==
    ASSUME Owning, mem' = mem, result' = result, text' = text,
           \/ ml' = ml
           \/ \E v : ml' = [ml EXCEPT !.roots = v]
           \/ \E v : ml' = [ml EXCEPT !.bound = v]
    PROVE  Owning'
<1>1. State(ml') /\ ml'.objects = ml.objects /\ ml'.names = ml.names
  BY DEF Owning, State, Fields
<1>2. Parts(ml', result', text') = Parts(ml, result, text) /\ Named(ml') = Named(ml)
  BY <1>1 DEF Owning, State, Fields, Parts, Named
<1>3. Owns(mem, ml', result', text')
  BY <1>1, <1>2 DEF Owning, Owns
<1>4. QED
  BY <1>1, <1>3 DEF Owning

\* A symbol owns the copy of its name.
LEMMA CopyNameKeeps ==
    ASSUME Owning, CopyName, text' = text
    PROVE  Owning'
<1>1. PICK g \in Got(mem) :
        IF g.block = Null THEN Fail("NOMEM", g.mem)
        ELSE /\ mem' = g.mem
             /\ ml' = [ml EXCEPT !.names = Append(@, [name |-> Name, block |-> g.block])]
             /\ Done /\ UNCHANGED made
  BY DEF CopyName, Take
<1>2. CASE g.block = Null
  BY <1>1, <1>2, RefusalKeeps
<1>3. CASE g.block # Null
  <2>1. /\ mem' = g.mem /\ result' = result
        /\ ml' = [ml EXCEPT !.names = Append(@, [name |-> Name, block |-> g.block])]
    BY <1>1, <1>3 DEF Done
  <2>2. PICK b, e, names : b = g.block /\ e = [name |-> Name, block |-> b] /\ names = ml.names
    OBVIOUS
  <2>3. /\ Sequence(names) /\ e.block = b
        /\ ml' = [ml EXCEPT !.names = Append(names, e)]
    BY <2>1, <2>2 DEF Owning, State
  <2>4. /\ Len(names) \in Nat /\ Sequence(Append(names, e))
        /\ Len(Append(names, e)) = Len(names) + 1
        /\ \A i \in 1 .. Len(names) : Append(names, e)[i] = names[i]
        /\ Append(names, e)[Len(names) + 1] = e
    <3>1. Sequence(names)
      BY <2>3
    <3>2. QED
      BY <3>1, Pushed
  <2>5. DOMAIN names = 1 .. Len(names) /\ DOMAIN Append(names, e) = 1 .. Len(names) + 1
    BY <2>3, <2>4, LenProperties DEF Sequence
  <2>6. /\ State(ml') /\ ml'.objects = ml.objects /\ ml'.names = Append(names, e)
        /\ Parts(ml', result', text') = Parts(ml, result, text)
    BY <2>1, <2>3, <2>4 DEF Owning, State, Fields, Parts
  <2>7. Named(ml') = Named(ml) \cup {b}
    <3>1. ASSUME NEW x \in Named(ml') PROVE x \in Named(ml) \cup {b}
      <4>1. PICK i \in 1 .. Len(names) + 1 : x = Append(names, e)[i].block
        BY <2>5, <2>6, <3>1 DEF Named
      <4>2. i \in 1 .. Len(names) \/ i = Len(names) + 1
        BY <2>4
      <4>3. QED
        BY <2>2, <2>3, <2>4, <2>5, <4>1, <4>2 DEF Named
    <3>2. ASSUME NEW x \in Named(ml) \cup {b} PROVE x \in Named(ml')
      <4>1. CASE x = b
        BY <2>3, <2>4, <2>5, <2>6, <4>1 DEF Named
      <4>2. CASE x \in Named(ml)
        <5>1. PICK i \in 1 .. Len(names) : x = names[i].block
          BY <2>2, <2>5, <4>2 DEF Named
        <5>2. i \in 1 .. Len(names) + 1 /\ x = Append(names, e)[i].block
          BY <2>4, <5>1
        <5>3. QED
          BY <2>5, <2>6, <5>2 DEF Named
      <4>3. QED
        BY <3>2, <4>1, <4>2
    <3>3. QED
      BY <3>1, <3>2
  <2>8. /\ mem' \in Memory /\ ~mem'.wild /\ mem'.live = mem.live \cup {b}
        /\ b \notin mem.live /\ b # Null
    <3>1. mem \in Memory /\ ~mem.wild
      BY DEF Owning, Owns
    <3>2. QED
      BY <1>3, <2>1, <2>2, <3>1, GotIs
  <2>9. ASSUME NEW i \in DOMAIN ml'.names, NEW j \in DOMAIN ml'.names,
               ml'.names[i].block = ml'.names[j].block
        PROVE  i = j
    <3>1. /\ i \in 1 .. Len(names) + 1 /\ j \in 1 .. Len(names) + 1
          /\ Append(names, e)[i].block = Append(names, e)[j].block
      BY <2>5, <2>6, <2>9
    <3>2. \A k \in 1 .. Len(names) : names[k].block # b
      <4>1. Named(ml) \subseteq mem.live
        BY DEF Owning, Owns
      <4>2. QED
        BY <2>2, <2>5, <2>8, <4>1 DEF Named
    <3>3. (i \in 1 .. Len(names) \/ i = Len(names) + 1) /\ (j \in 1 .. Len(names) \/ j = Len(names) + 1)
      BY <2>4, <3>1
    <3>4. i \in 1 .. Len(names) /\ j \in 1 .. Len(names) => i = j
      BY <2>2, <2>4, <2>5, <3>1 DEF Owning, Owns
    <3>5. QED
      BY <2>3, <2>4, <3>1, <3>2, <3>3, <3>4
  <2>10. Owns(mem', ml', result', text')
    BY <2>6, <2>7, <2>8, <2>9 DEF Owning, Owns
  <2>11. QED
    BY <2>6, <2>10 DEF Owning
<1>4. QED
  BY <1>2, <1>3

\* A result is printed to a block of its own.
LEMMA PrintResultKeeps ==
    ASSUME Owning, PrintResult, result = Null, text' = text
    PROVE  Owning'
<1>1. PICK g \in Got(mem) :
        IF g.block = Null THEN Fail("NOMEM", g.mem)
        ELSE /\ mem' = g.mem /\ result' = g.block
             /\ todo' = Unfolded(Tail(todo)) /\ UNCHANGED <<ml, status>> /\ UNCHANGED made
  BY DEF PrintResult, Take
<1>2. CASE g.block = Null
  BY <1>1, <1>2, RefusalKeeps
<1>3. CASE g.block # Null
  <2>1. mem' = g.mem /\ result' = g.block /\ ml' = ml
    BY <1>1, <1>3
  <2>2. /\ mem' \in Memory /\ ~mem'.wild /\ mem'.live = mem.live \cup {g.block}
        /\ g.block \notin mem.live
    <3>1. mem \in Memory /\ ~mem.wild
      BY DEF Owning, Owns
    <3>2. QED
      BY <1>3, <2>1, <3>1, GotIs
  <2>3. /\ "result" \in DOMAIN Parts(ml, result, text)
        /\ Parts(ml, result, text)["result"] = Null
        /\ g.block = Parts(ml', result', text')["result"]
        /\ \A i \in DOMAIN Parts(ml, result, text) : i # "result" =>
             Parts(ml', result', text')[i] = Parts(ml, result, text)[i]
    BY <2>1 DEF Parts
  <2>4. mem'.live = (mem.live \ ({Parts(ml, result, text)["result"]} \ {Null})) \cup ({g.block} \ {Null})
    BY <1>3, <2>2, <2>3
  <2>5. Owns(mem', ml', result', text')
    <3>1. PICK m2, s2, r2, t2, b : m2 = mem' /\ s2 = ml' /\ r2 = result' /\ t2 = text' /\ b = g.block
      OBVIOUS
    <3>2. Owns(m2, s2, r2, t2)
      <4>1. /\ m2 \in Memory /\ ~m2.wild /\ s2.objects = ml.objects /\ s2.names = ml.names
            /\ b = Parts(s2, r2, t2)["result"] /\ b \notin mem.live
            /\ "result" \in DOMAIN Parts(ml, result, text)
            /\ \A i \in DOMAIN Parts(ml, result, text) : i # "result" =>
                 Parts(s2, r2, t2)[i] = Parts(ml, result, text)[i]
            /\ m2.live = (mem.live \ ({Parts(ml, result, text)["result"]} \ {Null})) \cup ({b} \ {Null})
        BY <2>1, <2>2, <2>3, <2>4, <3>1
      <4>2. Owns(mem, ml, result, text)
        BY DEF Owning
      <4>3. QED
        BY <4>1, <4>2, Replaced
    <3>3. QED
      BY <3>1, <3>2
  <2>6. QED
    BY <2>1, <2>5 DEF Owning
<1>4. QED
  BY <1>2, <1>3

\* Objects are given back, the top-level frame with its arrays.
LEMMA FreedIs ==
    ASSUME NEW m, NEW s, NEW r, NEW t, State(s), Owns(m, s, r, t),
           NEW set \in SUBSET s.objects
    PROVE  /\ FreedObjects(m, s, set) \in Memory /\ ~FreedObjects(m, s, set).wild
           /\ FreedObjects(m, s, set).denied = m.denied
           /\ FreedObjects(m, s, set).live =
                (m.live \ set) \ (IF s.toplevel \in set THEN Held(s.arrays) ELSE {})
<1>1. PICK a : a = s.arrays
  OBVIOUS
<1>2. /\ m \in Memory /\ ~m.wild /\ Null \notin m.live
      /\ s.objects \subseteq m.live /\ s.objects \cap Held(Parts(s, r, t)) = {}
      /\ Held(Parts(s, r, t)) \subseteq m.live /\ Once(Parts(s, r, t))
  BY PartsInUse DEF Owns
<1>3. a = <<a[1], a[2]>>
  BY <1>1 DEF State
<1>4. Held(a) \subseteq Held(Parts(s, r, t))
  <2>1. a[1] = Parts(s, r, t)["names"] /\ a[2] = Parts(s, r, t)["values"]
        /\ {"names", "values"} \subseteq DOMAIN Parts(s, r, t)
    BY <1>1 DEF Parts
  <2>2. Held(a) \subseteq {a[1], a[2]} \ {Null}
    BY <1>3 DEF Held
  <2>3. QED
    BY <2>1, <2>2 DEF Held
<1>5. Once(a)
  <2>1. a[1] = Parts(s, r, t).names /\ a[2] = Parts(s, r, t).values
        /\ {"names", "values"} \subseteq DOMAIN Parts(s, r, t)
    BY <1>1 DEF Parts
  <2>2. a[1] = a[2] => a[1] = Null
    BY <1>2, <2>1 DEF Once
  <2>3. QED
    BY <1>3, <2>2 DEF Once
<1>6. PICK p : p = [o \in set |-> o]
  OBVIOUS
<1>7. Once(p) /\ Held(p) = set
  <2>1. Null \notin set
    BY <1>2
  <2>2. QED
    BY <1>6, <2>1 DEF Once, Held
<1>8. CASE s.toplevel \in set
  <2>1. /\ Dropped(m, a) \in Memory /\ ~Dropped(m, a).wild
        /\ Dropped(m, a).live = m.live \ Held(a) /\ Dropped(m, a).denied = m.denied
    BY <1>2, <1>4, <1>5, DroppedIs
  <2>2. Held(p) \subseteq Dropped(m, a).live
    BY <1>2, <1>4, <1>7, <2>1
  <2>3. FreedObjects(m, s, set) = Dropped(Dropped(m, a), p)
    BY <1>1, <1>6, <1>8 DEF FreedObjects
  <2>4. PICK n : n = Dropped(m, a)
    OBVIOUS
  <2>5. /\ Dropped(n, p) \in Memory /\ ~Dropped(n, p).wild
        /\ Dropped(n, p).live = n.live \ Held(p) /\ Dropped(n, p).denied = n.denied
    BY <1>7, <2>1, <2>2, <2>4, DroppedIs
  <2>6. QED
    BY <1>1, <1>7, <1>8, <2>1, <2>3, <2>4, <2>5
<1>9. CASE s.toplevel \notin set
  <2>1. FreedObjects(m, s, set) = Dropped(m, p)
    BY <1>6, <1>9 DEF FreedObjects
  <2>2. /\ Dropped(m, p) \in Memory /\ ~Dropped(m, p).wild
        /\ Dropped(m, p).live = m.live \ Held(p) /\ Dropped(m, p).denied = m.denied
    BY <1>2, <1>7, DroppedIs
  <2>3. QED
    BY <1>7, <1>9, <2>1, <2>2
<1>10. QED
  BY <1>8, <1>9

\* A sweep keeps the owners that it leaves.
LEMMA SweptKeeps ==
    ASSUME NEW c, NEW r, NEW t, State(c.ml), Owns(c.mem, c.ml, r, t)
    PROVE  /\ State(Swept(c).ml) /\ Owns(Swept(c).mem, Swept(c).ml, r, t)
           /\ Swept(c).ml.toplevel = c.ml.toplevel
           /\ Swept(c).mem.denied = c.mem.denied
<1>1. PICK m, s : m = c.mem /\ s = c.ml
  OBVIOUS
<1>2. PICK kept : kept = s.objects \cap Reached(s)
  OBVIOUS
<1>3. PICK m2, s2, n :
        /\ m2 = FreedObjects(m, s, s.objects \ kept)
        /\ s2 = [s EXCEPT !.objects = kept, !.threshold = n]
        /\ Swept(c).mem = m2 /\ Swept(c).ml = s2
  BY <1>1, <1>2 DEF Swept
<1>4. State(s) /\ Owns(m, s, r, t)
  BY <1>1
<1>5. s.toplevel \notin s.objects \ kept
  BY <1>2 DEF Reached
<1>6. /\ m2 \in Memory /\ ~m2.wild /\ m2.denied = m.denied
      /\ m2.live = m.live \ (s.objects \ kept)
  <2>1. s.objects \ kept \in SUBSET s.objects
    OBVIOUS
  <2>2. QED
    BY <1>3, <1>4, <1>5, <2>1, FreedIs
<1>7. /\ s2.objects = kept /\ s2.names = s.names /\ s2.toplevel = s.toplevel /\ s2.arrays = s.arrays
      /\ DOMAIN s2 = DOMAIN s
      /\ Parts(s2, r, t) = Parts(s, r, t)
  BY <1>3, <1>4 DEF State, Fields, Parts
<1>8. Named(s2) = Named(s)
  BY <1>7 DEF Named
<1>9. kept \subseteq s.objects /\ (s.toplevel \in s.objects => s.toplevel \in kept)
  BY <1>2 DEF Reached
<1>10. State(s2)
  BY <1>4, <1>7, <1>9 DEF State
<1>11. Owns(m2, s2, r, t)
  <2>1. PICK held, named : held = Held(Parts(s, r, t)) /\ named = Named(s)
    OBVIOUS
  <2>2. /\ m.live = s.objects \cup named \cup held
        /\ s.objects \cap named = {} /\ s.objects \cap held = {} /\ named \cap held = {}
        /\ Once(Parts(s, r, t))
        /\ \A i, j \in DOMAIN s.names : s.names[i].block = s.names[j].block => i = j
    BY <1>4, <2>1 DEF Owns
  <2>3. m2.live = kept \cup named \cup held
    BY <1>6, <1>9, <2>2
  <2>4. QED
    BY <1>6, <1>7, <1>8, <1>9, <2>1, <2>2, <2>3 DEF Owns
<1>12. QED
  BY <1>1, <1>3, <1>6, <1>7, <1>10, <1>11

\* What a collection may leave.
Collected(c) ==
    /\ State(c.ml) /\ Owns(c.mem, c.ml, result, text)
    /\ c.ml.toplevel = ml.toplevel
    /\ mem.denied => c.mem.denied

\* A collection that runs, or is given up, or does not begin, keeps the owners.
LEMMA CollectionKeeps ==
    ASSUME Owning, NEW c \in AfterCollection
    PROVE  Collected(c)
<1>1. PICK x : x = [mem |-> mem, ml |-> ml]
  OBVIOUS
<1>2. Collected(x) /\ DOMAIN x = {"mem", "ml"} /\ x.ml = ml /\ x.mem = mem
  BY <1>1 DEF Owning, Collected
<1>3. Collected(Swept(x))
  <2>1. /\ State(Swept(x).ml) /\ Owns(Swept(x).mem, Swept(x).ml, result, text)
        /\ Swept(x).ml.toplevel = x.ml.toplevel
        /\ Swept(x).mem.denied = x.mem.denied
    BY <1>2, SweptKeeps DEF Collected
  <2>2. QED
    BY <1>2, <2>1 DEF Collected
<1>4. Collected([x EXCEPT !.mem.denied = TRUE])
  <2>1. PICK y : y = [x EXCEPT !.mem.denied = TRUE]
    OBVIOUS
  <2>2. y.ml = x.ml /\ y.mem = [x.mem EXCEPT !.denied = TRUE]
    BY <1>2, <2>1
  <2>3. x.mem \in Memory
    BY <1>2 DEF Collected, Owns
  <2>4. y.mem \in Memory /\ y.mem.live = x.mem.live /\ y.mem.wild = x.mem.wild /\ y.mem.denied
    BY <2>2, <2>3 DEF Memory
  <2>5. Owns(y.mem, y.ml, result, text)
    BY <1>2, <2>2, <2>4 DEF Collected, Owns
  <2>6. Collected(y)
    BY <1>2, <2>2, <2>4, <2>5 DEF Collected
  <2>7. QED
    BY <2>1, <2>6
<1>5. c = x \/ c = Swept(x) \/ c = [x EXCEPT !.mem.denied = TRUE]
  BY <1>1 DEF AfterCollection
<1>6. QED
  BY <1>2, <1>3, <1>4, <1>5

\* An allocation of an object, after a collection and with an answer of the
\* allocator.
AllocatesIn(c, g) ==
    IF g.block = Null
    THEN /\ status' = "NOMEM" /\ todo' = <<>>
         /\ mem' = g.mem /\ ml' = [c.ml EXCEPT !.roots = <<>>]
         /\ made' = Null /\ UNCHANGED result
    ELSE /\ mem' = g.mem
         /\ ml' = [c.ml EXCEPT !.objects = @ \cup {g.block},
                               !.toplevel = IF @ = Null THEN g.block ELSE @]
         /\ made' = g.block /\ Done

\* An object joins the others, the first as the top-level environment.
LEMMA AllocObjectKeeps ==
    ASSUME Owning, AllocObject, text' = text
    PROVE  /\ Owning' /\ result' = result
           /\ todo' = <<>> \/ (ml'.toplevel # Null /\ Done)
<1>1. PICK c \in AfterCollection : \E g \in Got(c.mem) : AllocatesIn(c, g)
  BY DEF AllocObject, AllocatesIn
<1>2. PICK g \in Got(c.mem) : AllocatesIn(c, g)
  BY <1>1
<1>3. PICK m, s, b : m = c.mem /\ s = c.ml /\ b = g.block
  OBVIOUS
<1>4. State(s) /\ Owns(m, s, result, text)
  BY <1>3, CollectionKeeps DEF Collected
<1>5. /\ m \in Memory /\ ~m.wild /\ Null \notin m.live
      /\ g.mem \in Memory /\ ~g.mem.wild
      /\ IF b = Null THEN g.mem.live = m.live
         ELSE b \notin m.live /\ g.mem.live = m.live \cup {b}
  <2>1. m \in Memory /\ ~m.wild /\ Null \notin m.live
    BY <1>4, PartsInUse
  <2>2. QED
    BY <1>3, <2>1, GotIs, NullIsNoBlock
<1>6. CASE b = Null
  <2>1. mem' = g.mem /\ ml' = [s EXCEPT !.roots = <<>>] /\ result' = result /\ todo' = <<>>
    BY <1>2, <1>3, <1>6 DEF AllocatesIn
  <2>2. State(ml') /\ ml'.objects = s.objects /\ ml'.names = s.names
    BY <1>4, <2>1 DEF State, Fields
  <2>3. Parts(ml', result', text') = Parts(s, result, text) /\ Named(ml') = Named(s)
    BY <1>4, <2>1, <2>2 DEF State, Fields, Parts, Named
  <2>4. Owns(mem', ml', result', text')
    BY <1>4, <1>5, <1>6, <2>1, <2>2, <2>3 DEF Owns
  <2>5. QED
    BY <2>1, <2>2, <2>4 DEF Owning
<1>7. CASE b # Null
  <2>1. /\ mem' = g.mem /\ result' = result /\ Done
        /\ ml' = [s EXCEPT !.objects = @ \cup {b}, !.toplevel = IF @ = Null THEN b ELSE @]
    BY <1>2, <1>3, <1>7 DEF AllocatesIn, Done
  <2>2. /\ ml'.objects = s.objects \cup {b} /\ ml'.names = s.names /\ ml'.arrays = s.arrays
        /\ ml'.toplevel = (IF s.toplevel = Null THEN b ELSE s.toplevel)
        /\ DOMAIN ml' = Fields
    BY <1>4, <2>1 DEF State, Fields
  <2>3. State(ml') /\ ml'.toplevel # Null
    <3>1. CASE s.toplevel = Null
      BY <1>4, <1>7, <2>2, <3>1 DEF State
    <3>2. CASE s.toplevel # Null
      BY <1>4, <1>7, <2>2, <3>2 DEF State
    <3>3. QED
      BY <3>1, <3>2
  <2>4. Parts(ml', result', text') = Parts(s, result, text) /\ Named(ml') = Named(s)
    BY <1>4, <2>1, <2>2 DEF State, Fields, Parts, Named
  <2>5. Owns(mem', ml', result', text')
    <3>1. PICK held, named : held = Held(Parts(s, result, text)) /\ named = Named(s)
      OBVIOUS
    <3>2. /\ m.live = s.objects \cup named \cup held
          /\ s.objects \cap named = {} /\ s.objects \cap held = {} /\ named \cap held = {}
          /\ Once(Parts(s, result, text))
          /\ \A i, j \in DOMAIN s.names : s.names[i].block = s.names[j].block => i = j
      BY <1>4, <3>1 DEF Owns
    <3>3. b \notin named /\ b \notin held
      BY <1>5, <1>7, <3>2
    <3>4. QED
      BY <1>5, <1>7, <2>1, <2>2, <2>4, <3>1, <3>2, <3>3 DEF Owns
  <2>6. QED
    BY <2>1, <2>3, <2>5 DEF Owning
<1>8. QED
  BY <1>6, <1>7

\* The growth of a frame, with two answers of the allocator.
GrowsIn(n, v) ==
    IF n.block = Null THEN v.block = Null /\ Fail("NOMEM", n.mem)
    ELSE IF v.block = Null THEN Fail("NOMEM", Dropped(v.mem, <<n.block>>))
    ELSE /\ mem' = Dropped(v.mem, ml.arrays)
         /\ ml' = [ml EXCEPT !.arrays = <<n.block, v.block>>,
                             !.envcap = Doubled(@, FirstBindings)]
         /\ UNCHANGED <<made, todo, status, result>>

\* The top-level frame moves to two larger arrays, or keeps the ones it has.
LEMMA GrowBindingsKeeps ==
    ASSUME Owning, GrowBindings, ml.toplevel # Null, text' = text
    PROVE  Owning'
<1>1. PICK n \in Got(mem) : \E v \in Got(n.mem) : GrowsIn(n, v)
  BY DEF GrowBindings, GrowsIn
<1>2. PICK v \in Got(n.mem) : GrowsIn(n, v)
  BY <1>1
<1>3. Owns(mem, ml, result, text) /\ State(ml)
  BY DEF Owning
<1>4. mem \in Memory /\ ~mem.wild /\ Null \notin mem.live
  BY <1>3, PartsInUse
<1>5. /\ n.mem \in Memory /\ ~n.mem.wild
      /\ n.block # Null => n.block \notin mem.live /\ n.mem.live = mem.live \cup {n.block}
  BY <1>4, GotIs
<1>6. /\ v.mem \in Memory /\ ~v.mem.wild
      /\ IF v.block = Null THEN v.mem.live = n.mem.live
         ELSE v.block \notin n.mem.live /\ v.mem.live = n.mem.live \cup {v.block}
  BY <1>5, GotIs, NullIsNoBlock
<1>7. CASE n.block = Null
  BY <1>2, <1>7, RefusalKeeps DEF GrowsIn
<1>8. CASE n.block # Null /\ v.block = Null
  <2>1. PICK m : m = Dropped(v.mem, <<n.block>>)
    OBVIOUS
  <2>2. m \in Memory /\ ~m.wild /\ m.live = v.mem.live \ ({n.block} \ {Null})
    BY <1>5, <1>6, <1>8, <2>1, OneDropped
  <2>3. m.live = mem.live
    BY <1>5, <1>6, <1>8, <2>2
  <2>4. Fail("NOMEM", m)
    BY <1>2, <1>8, <2>1 DEF GrowsIn
  <2>5. QED
    BY <2>2, <2>3, <2>4, FailKeeps
<1>9. CASE n.block # Null /\ v.block # Null
  <2>1. PICK a : a = ml.arrays
    OBVIOUS
  <2>2. /\ mem' = Dropped(v.mem, a) /\ result' = result
        /\ ml' = [ml EXCEPT !.arrays = <<n.block, v.block>>, !.envcap = Doubled(@, FirstBindings)]
    BY <1>2, <1>9, <2>1 DEF GrowsIn
  <2>3. /\ State(ml') /\ ml'.objects = ml.objects /\ ml'.names = ml.names
        /\ ml'.arrays = <<n.block, v.block>>
    BY <1>3, <2>2 DEF State, Fields
  <2>4. PICK p, q : p = Parts(ml, result, text) /\ q = Parts(ml', result', text')
    OBVIOUS
  <2>5. /\ DOMAIN p = DOMAIN q /\ {"names", "values"} \subseteq DOMAIN p
        /\ p["names"] = a[1] /\ p["values"] = a[2]
        /\ q["names"] = n.block /\ q["values"] = v.block
        /\ \A i \in DOMAIN p \ {"names", "values"} : q[i] = p[i]
    BY <1>3, <2>1, <2>2, <2>4 DEF State, Fields, Parts
  <2>6. /\ mem.live = ml.objects \cup Named(ml) \cup Held(p) /\ Once(p)
        /\ ml.objects \cap Named(ml) = {}
        /\ ml.objects \cap Held(p) = {} /\ Named(ml) \cap Held(p) = {}
        /\ \A i, j \in DOMAIN ml.names : ml.names[i].block = ml.names[j].block => i = j
    BY <1>3, <2>4 DEF Owns
  <2>7. PICK half : half = [p EXCEPT !["names"] = n.block]
    OBVIOUS
  <2>8. /\ DOMAIN half = DOMAIN p /\ half["names"] = n.block
        /\ \A i \in DOMAIN p : i # "names" => half[i] = p[i]
    BY <2>5, <2>7
  <2>9. Once(half) /\ Held(half) = (Held(p) \ {a[1]}) \cup {n.block}
    <3>1. half["names"] \notin Held(p)
      BY <1>5, <1>9, <2>6, <2>8
    <3>2. Once(half) /\ Held(half) = (Held(p) \ {p["names"]}) \cup ({half["names"]} \ {Null})
      BY <2>5, <2>6, <2>8, <3>1, HeldReplaced
    <3>3. QED
      BY <1>9, <2>5, <2>8, <3>2
  <2>10. Once(q) /\ Held(q) = (Held(half) \ {a[2]}) \cup {v.block}
    <3>1. half["values"] = a[2] /\ q["values"] = v.block
      BY <2>5, <2>8
    <3>2. q["values"] \notin Held(half)
      BY <1>5, <1>6, <1>9, <2>6, <2>9, <3>1
    <3>3. \A i \in DOMAIN half : i # "values" => q[i] = half[i]
      BY <2>5, <2>8
    <3>4. Once(q) /\ Held(q) = (Held(half) \ {half["values"]}) \cup ({q["values"]} \ {Null})
      BY <2>5, <2>8, <2>9, <3>2, <3>3, HeldReplaced
    <3>5. QED
      BY <1>9, <3>1, <3>4
  <2>11. Once(a) /\ Held(a) = {a[1], a[2]} \ {Null} /\ Held(a) \subseteq Held(p)
    <3>1. a = <<a[1], a[2]>>
      BY <1>3, <2>1 DEF State
    <3>2. a[1] = a[2] => a[1] = Null
      BY <2>5, <2>6 DEF Once
    <3>3. Held(a) = {a[1], a[2]} \ {Null}
      BY <3>1 DEF Held
    <3>4. Once(a)
      BY <3>1, <3>2 DEF Once
    <3>5. {a[1], a[2]} \ {Null} \subseteq Held(p)
      BY <2>5 DEF Held
    <3>6. QED
      BY <3>3, <3>4, <3>5
  <2>12. /\ mem' \in Memory /\ ~mem'.wild
         /\ mem'.live = (mem.live \cup {n.block, v.block}) \ ({a[1], a[2]} \ {Null})
    <3>1. Held(a) \subseteq v.mem.live
      BY <1>5, <1>6, <1>9, <2>6, <2>11
    <3>2. /\ Dropped(v.mem, a) \in Memory /\ ~Dropped(v.mem, a).wild
          /\ Dropped(v.mem, a).live = v.mem.live \ Held(a)
      BY <1>6, <2>11, <3>1, DroppedIs
    <3>3. QED
      BY <1>5, <1>6, <1>9, <2>2, <2>11, <3>2
  <2>13. Null \notin Held(p) /\ n.block \notin mem.live /\ v.block \notin mem.live /\ n.block # v.block
    BY <1>5, <1>6, <1>9 DEF Held
  <2>14. PICK held : held = Held(p)
    OBVIOUS
  <2>15. /\ mem.live = ml.objects \cup Named(ml) \cup held
         /\ Null \notin held /\ ml.objects \cap held = {} /\ Named(ml) \cap held = {}
         /\ {a[1], a[2]} \ {Null} \subseteq held
         /\ Held(q) = (((held \ {a[1]}) \cup {n.block}) \ {a[2]}) \cup {v.block}
    BY <2>6, <2>9, <2>10, <2>11, <2>13, <2>14
  <2>16. n.block # a[2]
    BY <1>9, <2>13, <2>15
  <2>17. Held(q) = (held \ {a[1], a[2]}) \cup {n.block, v.block}
    BY <2>15, <2>16
  <2>18. mem'.live = ml.objects \cup Named(ml) \cup Held(q)
    BY <2>12, <2>13, <2>15, <2>17
  <2>19. Named(ml') = Named(ml)
    BY <2>3 DEF Named
  <2>20. Named(ml) \cap Held(q) = {} /\ ml.objects \cap Held(q) = {}
    BY <2>13, <2>15, <2>17
  <2>21. Owns(mem', ml', result', text')
    BY <2>3, <2>4, <2>6, <2>10, <2>12, <2>18, <2>19, <2>20 DEF Owns
  <2>22. QED
    BY <2>3, <2>21 DEF Owning
<1>10. QED
  BY <1>7, <1>8, <1>9

-----------------------------------------------------------------------------
(***************************************************************************)
(* Lists of operations.                                                    *)
(***************************************************************************)
Forms == {"value", "define", "show", "wrong"}

\* A form is one of the four; a result is printed at the end, before the
\* protect stack is restored.
Listed(ops) ==
    /\ Sequence(ops)
    /\ \A i \in 1 .. Len(ops) : ops[i].op = "form" => ops[i].name \in Forms
    /\ \A i \in 1 .. Len(ops) : ops[i].op = "print" => i = Len(ops) - 1

\* Nothing is defined before an object has been allocated.
Anchored(ops) ==
    \A i \in 1 .. Len(ops) : ops[i].op = "define" => \E j \in 1 .. i - 1 : ops[j].op = "object"

\* The head of a sequence and what is behind it.
LEMMA HeadTail ==
    ASSUME NEW s, Sequence(s), s # <<>>
    PROVE  /\ Len(s) \in Nat \ {0} /\ Head(s) = s[1]
           /\ Sequence(Tail(s)) /\ Len(Tail(s)) = Len(s) - 1
           /\ \A i \in 1 .. Len(s) - 1 : Tail(s)[i] = s[i + 1]
<1>1. PICK S : s \in Seq(S)
  BY DEF Sequence
<1>2. /\ Len(s) \in Nat \ {0} /\ Head(s) = s[1]
      /\ Tail(s) \in Seq(S) /\ Len(Tail(s)) = Len(s) - 1
      /\ \A i \in 1 .. Len(s) - 1 : Tail(s)[i] = s[i + 1]
  BY <1>1, HeadTailProperties, EmptySeq, LenProperties
<1>3. QED
  BY <1>2, Zenon DEF Sequence

\* One sequence behind another.
LEMMA Joined ==
    ASSUME NEW s, NEW t, Sequence(s), Sequence(t)
    PROVE  /\ Len(s) \in Nat /\ Len(t) \in Nat
           /\ Sequence(s \o t) /\ Len(s \o t) = Len(s) + Len(t)
           /\ \A i \in 1 .. Len(s) : (s \o t)[i] = s[i]
           /\ \A i \in 1 .. Len(t) : (s \o t)[Len(s) + i] = t[i]
<1>1. PICK S, T : s \in Seq(S) /\ t \in Seq(T)
  BY DEF Sequence
<1>2. s \in Seq(S \cup T) /\ t \in Seq(S \cup T)
  BY <1>1, SeqDef, ElementOfSeq, LenProperties
<1>3. /\ Len(s) \in Nat /\ Len(t) \in Nat
      /\ s \o t \in Seq(S \cup T) /\ Len(s \o t) = Len(s) + Len(t)
      /\ \A i \in 1 .. Len(s) + Len(t) : (s \o t)[i] = IF i <= Len(s) THEN s[i] ELSE t[i - Len(s)]
  BY <1>2, ConcatProperties, LenProperties
<1>4. /\ \A i \in 1 .. Len(s) : (s \o t)[i] = s[i]
      /\ \A i \in 1 .. Len(t) : (s \o t)[Len(s) + i] = t[i]
  BY <1>3
<1>5. QED
  BY <1>3, <1>4, Zenon DEF Sequence

\* What is done in one step, printing aside.
Single == {"intern", "object", "protect", "define", "restore", "show", "refuse"}

\* The steps of a primitive or of a form: an object comes first, and nothing is
\* printed.
LEMMA StepsAre ==
    ASSUME NEW o, o.op = "builtin" \/ (o.op = "form" /\ o.name \in Forms)
    PROVE  /\ Sequence(Steps(o)) /\ Len(Steps(o)) >= 3
           /\ \A i \in 1 .. Len(Steps(o)) : Steps(o)[i].op \in Single
           /\ Steps(o)[1].op = "object"
           /\ o.op = "builtin" => \A i \in 1 .. Len(Steps(o)) : Steps(o)[i].op \notin {"show", "refuse"}
           /\ o.op = "form" /\ o.name = "wrong" => Steps(o)[3].op = "refuse"
           /\ o.op = "form" /\ o.name # "wrong" => \A i \in 1 .. Len(Steps(o)) : Steps(o)[i].op # "refuse"
<1> DEFINE Piece == [op : Single, name : {"none", "x"}]
<1>1. CASE o.op = "builtin"
  <2>1. PICK x, n : x = Steps(o) /\ n = o.name
    OBVIOUS
  <2>2. x = <<Plain("object"), Plain("protect"), Op("intern", n), Op("define", n), Plain("restore")>>
    BY <1>1, <2>1 DEF Steps
  <2>3. Sequence(x)
    <3>1. x \in Seq({Plain("object"), Plain("protect"), Op("intern", n), Op("define", n), Plain("restore")})
      BY <2>2
    <3>2. QED
      BY <3>1, Zenon DEF Sequence
  <2>4. Len(x) = 5 /\ x[1].op = "object"
    BY <2>2 DEF Op, Plain
  <2>5. \A i \in 1 .. 5 : x[i].op \in {"object", "protect", "intern", "define", "restore"}
    BY <2>2 DEF Op, Plain
  <2>6. QED
    BY <1>1, <2>1, <2>3, <2>4, <2>5 DEF Single
<1>2. CASE o.op = "form" /\ o.name \in Forms
  <2>1. PICK body : body = Body(o.name)
    OBVIOUS
  <2>2. /\ body \in Seq(Piece) /\ Len(body) >= 1
        /\ o.name = "wrong" => body[1].op = "refuse"
        /\ o.name # "wrong" => \A i \in 1 .. Len(body) : body[i].op # "refuse"
    <3>1. CASE o.name = "value"
      BY <2>1, <3>1 DEF Body, Op, Plain, Single
    <3>2. CASE o.name = "define"
      BY <2>1, <3>2 DEF Body, Op, Plain, Single
    <3>3. CASE o.name = "show"
      BY <2>1, <3>3 DEF Body, Op, Plain, Single
    <3>4. CASE o.name = "wrong"
      BY <2>1, <3>4 DEF Body, Op, Plain, Single
    <3>5. QED
      BY <1>2, <3>1, <3>2, <3>3, <3>4 DEF Forms
  <2>3. PICK first, last : /\ first = <<Plain("object"), Plain("protect")>>
                           /\ last = <<Plain("restore")>>
    OBVIOUS
  <2>4. Steps(o) = (first \o body) \o last
    BY <1>2, <2>1, <2>3 DEF Steps
  <2>5. /\ first \in Seq(Piece) /\ Len(first) = 2 /\ first[1].op = "object" /\ first[2].op = "protect"
        /\ last \in Seq(Piece) /\ Len(last) = 1 /\ last[1].op = "restore"
    BY <2>3 DEF Op, Plain, Single
  <2>6. PICK n \in Nat : n = Len(body) /\ n >= 1
    BY <2>2, LenProperties
  <2>7. PICK s : s = first \o body
    OBVIOUS
  <2>8. /\ Sequence(s) /\ Len(s) = 2 + n
        /\ \A i \in 1 .. 2 : s[i] = first[i]
        /\ \A i \in 1 .. n : s[2 + i] = body[i]
    <3>1. Sequence(first) /\ Sequence(body)
      BY <2>2, <2>5, Zenon DEF Sequence
    <3>2. /\ Sequence(first \o body) /\ Len(first \o body) = Len(first) + Len(body)
          /\ \A i \in 1 .. Len(first) : (first \o body)[i] = first[i]
          /\ \A i \in 1 .. Len(body) : (first \o body)[Len(first) + i] = body[i]
      BY <3>1, Joined
    <3>3. Len(first) = 2 /\ Len(body) = n
      BY <2>5, <2>6
    <3>4. QED
      BY <2>7, <3>2, <3>3
  <2>9. /\ Sequence(Steps(o)) /\ Len(Steps(o)) = 2 + n + 1
        /\ \A i \in 1 .. 2 + n : Steps(o)[i] = s[i]
        /\ Steps(o)[2 + n + 1] = last[1]
    <3>1. Sequence(last) /\ Len(last) = 1
      BY <2>5, Zenon DEF Sequence
    <3>2. PICK x : x = s \o last
      OBVIOUS
    <3>3. /\ Sequence(s \o last) /\ Len(s \o last) = Len(s) + Len(last)
          /\ \A i \in 1 .. Len(s) : (s \o last)[i] = s[i]
          /\ \A i \in 1 .. Len(last) : (s \o last)[Len(s) + i] = last[i]
      <4>1. Sequence(s) /\ Sequence(last)
        BY <2>8, <3>1
      <4>2. QED
        BY <4>1, Joined
    <3>4. Len(s) = 2 + n /\ Len(last) = 1 /\ 1 \in 1 .. 1
      BY <2>8, <3>1
    <3>5. /\ Sequence(x) /\ Len(x) = 2 + n + 1
          /\ \A i \in 1 .. 2 + n : x[i] = s[i]
          /\ x[2 + n + 1] = last[1]
      BY <3>2, <3>3, <3>4
    <3>6. Steps(o) = x
      BY <2>4, <2>7, <3>2
    <3>7. QED
      BY <3>5, <3>6
  <2>10. /\ Steps(o)[1] = first[1] /\ Steps(o)[2] = first[2] /\ Steps(o)[3 + n] = last[1]
         /\ \A i \in 1 .. n : Steps(o)[2 + i] = body[i]
    BY <2>6, <2>8, <2>9
  <2>11. \A i \in 1 .. 3 + n : i = 1 \/ i = 2 \/ i = 3 + n \/ (i - 2 \in 1 .. n /\ i = 2 + (i - 2))
    BY <2>6
  <2>12. \A i \in 1 .. n : body[i].op \in Single
    <3>1. \A i \in 1 .. n : body[i] \in Piece
      BY <2>2, <2>6, ElementOfSeq
    <3>2. QED
      BY <3>1
  <2>13. \A i \in 1 .. 3 + n : Steps(o)[i].op \in Single
    BY <2>5, <2>10, <2>11, <2>12 DEF Single
  <2>14. o.name = "wrong" => Steps(o)[3].op = "refuse"
    BY <2>2, <2>6, <2>10
  <2>15. o.name # "wrong" => \A i \in 1 .. 3 + n : Steps(o)[i].op # "refuse"
    BY <2>2, <2>5, <2>6, <2>10, <2>11
  <2>16. QED
    BY <1>2, <2>5, <2>6, <2>9, <2>10, <2>13, <2>14, <2>15 DEF Sequence
<1>3. QED
  BY <1>1, <1>2

\* The steps, and behind them what was behind the head.
Follows(u, steps, s) ==
    /\ Sequence(u) /\ Len(u) = Len(steps) + (Len(s) - 1)
    /\ \A i \in 1 .. Len(steps) : u[i] = steps[i]
    /\ \A k \in 2 .. Len(s) : u[Len(steps) + (k - 1)] = s[k]
Compound(o) == o.op = "builtin" \/ (o.op = "form" /\ o.name \in Forms)

\* A primitive or a form at the head gives way to its steps.
LEMMA UnfoldedIs ==
    ASSUME NEW s, Listed(s)
    PROVE  \/ Unfolded(s) = s
           \/ s # <<>> /\ Compound(s[1]) /\ Follows(Unfolded(s), Steps(s[1]), s)
<1>1. CASE s = <<>> \/ Head(s).op \notin {"builtin", "form"}
  BY <1>1 DEF Unfolded
<1>2. CASE s # <<>> /\ Head(s).op \in {"builtin", "form"}
  <2>1. PICK steps, t : steps = Steps(s[1]) /\ t = Tail(s)
    OBVIOUS
  <2>2. /\ Len(s) \in Nat \ {0} /\ Head(s) = s[1]
        /\ Sequence(t) /\ Len(t) = Len(s) - 1
        /\ \A i \in 1 .. Len(s) - 1 : t[i] = s[i + 1]
    BY <1>2, <2>1, HeadTail DEF Listed
  <2>3. Compound(s[1])
    BY <1>2, <2>2 DEF Listed, Compound
  <2>4. Sequence(steps)
    BY <2>1, <2>3, StepsAre DEF Compound
  <2>5. /\ Len(steps) \in Nat
        /\ Sequence(steps \o t) /\ Len(steps \o t) = Len(steps) + Len(t)
        /\ \A i \in 1 .. Len(steps) : (steps \o t)[i] = steps[i]
        /\ \A i \in 1 .. Len(t) : (steps \o t)[Len(steps) + i] = t[i]
    <3>1. Sequence(t)
      BY <2>2
    <3>2. QED
      BY <2>4, <3>1, Joined
  <2>6. Unfolded(s) = steps \o t
    BY <1>2, <2>1, <2>2 DEF Unfolded
  <2>7. PICK u, m, n : u = steps \o t /\ m = Len(steps) /\ n = Len(s)
    OBVIOUS
  <2>8. /\ m \in Nat /\ n \in Nat \ {0} /\ Len(t) = n - 1
        /\ Len(u) = m + (n - 1)
        /\ \A i \in 1 .. n - 1 : u[m + i] = t[i] /\ t[i] = s[i + 1]
    BY <2>2, <2>5, <2>7
  <2>9. \A k \in 2 .. n : u[m + (k - 1)] = s[k]
    <3>1. SUFFICES ASSUME NEW k \in 2 .. n PROVE u[m + (k - 1)] = s[k]
      OBVIOUS
    <3>2. k - 1 \in 1 .. n - 1 /\ (k - 1) + 1 = k
      BY <2>8, <3>1
    <3>3. u[m + (k - 1)] = t[k - 1] /\ t[k - 1] = s[(k - 1) + 1]
      BY <2>8, <3>2
    <3>4. QED
      BY <3>2, <3>3
  <2>10. Follows(u, steps, s)
    BY <2>5, <2>7, <2>8, <2>9 DEF Follows
  <2>11. QED
    BY <1>2, <2>1, <2>3, <2>6, <2>7, <2>10
<1>3. QED
  BY <1>1, <1>2

\* Where the elements of an unfolded list come from.
LEMMA ComesFrom ==
    ASSUME NEW s, NEW u, Sequence(s), s # <<>>, Compound(s[1]), Follows(u, Steps(s[1]), s),
           NEW i \in 1 .. Len(u)
    PROVE  LET m == Len(Steps(s[1]))
           IN  \/ i \in 1 .. m /\ u[i] = Steps(s[1])[i]
               \/ /\ i - m + 1 \in 2 .. Len(s) /\ u[i] = s[i - m + 1]
                  /\ i > m /\ Len(u) - i = Len(s) - (i - m + 1)
<1>1. PICK m, n : m = Len(Steps(s[1])) /\ n = Len(s)
  OBVIOUS
<1>2. m \in Nat /\ n \in Nat /\ Len(u) = m + (n - 1) /\ i \in 1 .. m + (n - 1)
  <2>1. Sequence(Steps(s[1]))
    BY StepsAre DEF Compound
  <2>2. m \in Nat /\ n \in Nat
    BY <1>1, <2>1, HeadTail, Joined
  <2>3. QED
    BY <1>1, <2>2 DEF Follows
<1>3. CASE i <= m
  BY <1>1, <1>2, <1>3 DEF Follows
<1>4. CASE ~(i <= m)
  <2>1. PICK k : k = i - m + 1
    OBVIOUS
  <2>2. k \in 2 .. n /\ i = m + (k - 1) /\ i > m /\ Len(u) - i = n - k
    BY <1>2, <1>4, <2>1
  <2>3. u[i] = s[k]
    BY <1>1, <2>2 DEF Follows
  <2>4. QED
    BY <1>1, <2>1, <2>2, <2>3
<1>5. QED
  BY <1>2, <1>3, <1>4

\* No result is printed.
Silent(ops) == \A i \in 1 .. Len(ops) : ops[i].op # "print"

\* Only what creation does.
Building(ops) ==
    \A i \in 1 .. Len(ops) :
        ops[i].op \in {"intern", "object", "builtin", "protect", "define", "restore"}

\* An error of Scheme is ahead.
Errs(o) == o.op = "refuse" \/ (o.op = "form" /\ o.name = "wrong")
Wrong(ops) == \E i \in 1 .. Len(ops) : Errs(ops[i])

\* What is behind the head.
LEMMA TailKeeps ==
    ASSUME NEW s, Listed(s), s # <<>>
    PROVE  /\ Listed(Tail(s))
           /\ Anchored(s) /\ Head(s).op # "object" => Anchored(Tail(s))
           /\ Silent(s) => Silent(Tail(s))
           /\ Head(s).op = "print" => Silent(Tail(s))
           /\ Building(s) => Building(Tail(s))
           /\ Wrong(Tail(s)) => Wrong(s)
           /\ Wrong(s) /\ ~Errs(Head(s)) => Wrong(Tail(s))
<1>1. PICK t, n : t = Tail(s) /\ n = Len(s)
  OBVIOUS
<1>2. /\ n \in Nat \ {0} /\ Head(s) = s[1] /\ Sequence(t) /\ Len(t) = n - 1
      /\ \A i \in 1 .. n - 1 : t[i] = s[i + 1] /\ i + 1 \in 1 .. n
  <2>1. /\ Len(s) \in Nat \ {0} /\ Head(s) = s[1]
        /\ Sequence(Tail(s)) /\ Len(Tail(s)) = Len(s) - 1
        /\ \A i \in 1 .. Len(s) - 1 : Tail(s)[i] = s[i + 1]
    BY HeadTail DEF Listed
  <2>2. QED
    BY <1>1, <2>1
<1>3. Listed(t)
  <2>1. /\ \A i \in 1 .. n : s[i].op = "form" => s[i].name \in Forms
        /\ \A i \in 1 .. n : s[i].op = "print" => i = n - 1
    BY <1>1 DEF Listed
  <2>2. \A i \in 1 .. n - 1 : t[i].op = "form" => t[i].name \in Forms
    BY <1>2, <2>1
  <2>3. \A i \in 1 .. n - 1 : t[i].op = "print" => i = (n - 1) - 1
    BY <1>2, <2>1
  <2>4. QED
    BY <1>2, <2>2, <2>3 DEF Listed
<1>4. ASSUME Anchored(s), Head(s).op # "object" PROVE Anchored(t)
  <2>1. SUFFICES ASSUME NEW i \in 1 .. n - 1, t[i].op = "define"
                 PROVE  \E j \in 1 .. i - 1 : t[j].op = "object"
    BY <1>2 DEF Anchored
  <2>2. PICK j \in 1 .. (i + 1) - 1 : s[j].op = "object"
    BY <1>1, <1>2, <1>4, <2>1 DEF Anchored
  <2>3. j # 1
    BY <1>2, <1>4, <2>2
  <2>4. j - 1 \in 1 .. i - 1 /\ j - 1 \in 1 .. n - 1 /\ (j - 1) + 1 = j
    BY <1>2, <2>1, <2>3
  <2>5. t[j - 1] = s[j]
    BY <1>2, <2>4
  <2>6. QED
    BY <2>2, <2>4, <2>5
<1>5. Silent(s) => Silent(t)
  BY <1>1, <1>2 DEF Silent
<1>6. ASSUME Head(s).op = "print" PROVE Silent(t)
  <2>1. \A i \in 1 .. n : s[i].op = "print" => i = n - 1
    BY <1>1 DEF Listed
  <2>2. n = 2
    BY <1>2, <1>6, <2>1
  <2>3. \A i \in 1 .. n - 1 : t[i].op # "print"
    BY <1>2, <2>1, <2>2
  <2>4. QED
    BY <1>2, <2>3 DEF Silent
<1>7. Building(s) => Building(t)
  BY <1>1, <1>2 DEF Building
<1>8. Wrong(t) => Wrong(s)
  BY <1>1, <1>2 DEF Wrong
<1>9. ASSUME Wrong(s), ~Errs(Head(s)) PROVE Wrong(t)
  <2>1. PICK i \in 1 .. n : Errs(s[i])
    BY <1>1, <1>9 DEF Wrong
  <2>2. i # 1
    BY <1>2, <1>9, <2>1
  <2>3. i - 1 \in 1 .. n - 1 /\ (i - 1) + 1 = i
    BY <1>2, <2>2
  <2>4. t[i - 1] = s[i]
    BY <1>2, <2>3
  <2>5. QED
    BY <1>2, <2>1, <2>3, <2>4 DEF Wrong
<1>10. QED
  BY <1>1, <1>3, <1>4, <1>5, <1>6, <1>7, <1>8, <1>9

\* Unfolding changes none of this.
LEMMA UnfoldedKeeps ==
    ASSUME NEW s, Listed(s)
    PROVE  /\ Listed(Unfolded(s))
           /\ Anchored(s) => Anchored(Unfolded(s))
           /\ Silent(s) => Silent(Unfolded(s))
           /\ Building(s) => Building(Unfolded(s))
           /\ Wrong(Unfolded(s)) <=> Wrong(s)
<1>1. CASE Unfolded(s) = s
  BY <1>1
<1>2. CASE s # <<>> /\ Compound(s[1]) /\ Follows(Unfolded(s), Steps(s[1]), s)
  <2>1. PICK u, steps, m, n : u = Unfolded(s) /\ steps = Steps(s[1]) /\ m = Len(steps) /\ n = Len(s)
    OBVIOUS
  <2>2. /\ Sequence(steps) /\ m \in Nat /\ m >= 3 /\ n \in Nat \ {0} /\ Sequence(u)
    <3>1. Sequence(steps) /\ m >= 3 /\ Sequence(u) /\ Sequence(s)
      BY <1>2, <2>1, StepsAre DEF Compound, Follows, Listed
    <3>2. QED
      BY <1>2, <2>1, <3>1, HeadTail, Joined
  <2>3. /\ \A i \in 1 .. m : steps[i].op \in Single
        /\ steps[1].op = "object"
        /\ s[1].op = "builtin" => \A i \in 1 .. m : steps[i].op \notin {"show", "refuse"}
        /\ s[1].op = "form" /\ s[1].name = "wrong" => steps[3].op = "refuse"
        /\ s[1].op = "form" /\ s[1].name # "wrong" => \A i \in 1 .. m : steps[i].op # "refuse"
    BY <1>2, <2>1, StepsAre DEF Compound
  <2>4. \A i \in 1 .. Len(u) :
           \/ i \in 1 .. m /\ u[i] = steps[i]
           \/ /\ i - m + 1 \in 2 .. n /\ u[i] = s[i - m + 1]
              /\ i > m /\ Len(u) - i = n - (i - m + 1)
    <3>1. Sequence(s) /\ s # <<>> /\ Compound(s[1]) /\ Follows(u, Steps(s[1]), s)
      BY <1>2, <2>1 DEF Listed
    <3>2. SUFFICES ASSUME NEW i \in 1 .. Len(u)
                   PROVE  \/ i \in 1 .. m /\ u[i] = steps[i]
                          \/ /\ i - m + 1 \in 2 .. n /\ u[i] = s[i - m + 1]
                             /\ i > m /\ Len(u) - i = n - (i - m + 1)
      OBVIOUS
    <3>3. LET k == Len(Steps(s[1]))
          IN  \/ i \in 1 .. k /\ u[i] = Steps(s[1])[i]
              \/ /\ i - k + 1 \in 2 .. Len(s) /\ u[i] = s[i - k + 1]
                 /\ i > k /\ Len(u) - i = Len(s) - (i - k + 1)
      BY <3>1, ComesFrom, Zenon
    <3>4. QED
      BY <2>1, <3>3
  <2>5. /\ Len(u) = m + (n - 1)
        /\ \A i \in 1 .. m : u[i] = steps[i]
        /\ \A k \in 2 .. n : u[m + (k - 1)] = s[k]
    BY <1>2, <2>1 DEF Follows
  <2>6. s[1].op \in {"builtin", "form"} /\ 1 \in 1 .. n
    BY <1>2, <2>2 DEF Compound
  <2>7. Listed(u)
    <3>1. /\ \A i \in 1 .. n : s[i].op = "form" => s[i].name \in Forms
          /\ \A i \in 1 .. n : s[i].op = "print" => i = n - 1
      BY <2>1 DEF Listed
    <3>2. ASSUME NEW i \in 1 .. Len(u), u[i].op = "form" PROVE u[i].name \in Forms
      BY <2>3, <2>4, <3>1, <3>2 DEF Single
    <3>3. ASSUME NEW i \in 1 .. Len(u), u[i].op = "print" PROVE i = Len(u) - 1
      <4>1. i - m + 1 \in 2 .. n /\ u[i] = s[i - m + 1] /\ Len(u) - i = n - (i - m + 1)
        BY <2>3, <2>4, <3>3 DEF Single
      <4>2. i - m + 1 = n - 1
        BY <2>2, <3>1, <3>3, <4>1
      <4>3. QED
        BY <2>2, <2>5, <4>1, <4>2
    <3>4. QED
      BY <2>2, <3>2, <3>3 DEF Listed
  <2>8. ASSUME Anchored(s) PROVE Anchored(u)
    <3>1. SUFFICES ASSUME NEW i \in 1 .. Len(u), u[i].op = "define"
                   PROVE  \E j \in 1 .. i - 1 : u[j].op = "object"
      BY DEF Anchored
    <3>2. u[1].op = "object" /\ 1 \in 1 .. Len(u)
      BY <2>2, <2>3, <2>5
    <3>3. i # 1
      BY <3>1, <3>2
    <3>4. i \in Nat /\ Len(u) \in Nat
      BY <2>2, <2>5
    <3>5. 1 \in 1 .. i - 1
      BY <3>1, <3>3, <3>4
    <3>6. QED
      BY <3>2, <3>5
  <2>9. ASSUME Silent(s) PROVE Silent(u)
    <3>1. SUFFICES ASSUME NEW i \in 1 .. Len(u), u[i].op = "print" PROVE FALSE
      BY DEF Silent
    <3>2. i - m + 1 \in 2 .. n /\ u[i] = s[i - m + 1]
      BY <2>3, <2>4, <3>1 DEF Single
    <3>3. QED
      BY <2>1, <2>2, <2>9, <3>1, <3>2 DEF Silent
  <2>10. ASSUME Building(s) PROVE Building(u)
    <3>1. s[1].op = "builtin"
      BY <2>1, <2>6, <2>10 DEF Building
    <3>2. \A i \in 1 .. m : steps[i].op \in {"intern", "object", "protect", "define", "restore"}
      BY <2>3, <3>1 DEF Single
    <3>3. ASSUME NEW i \in 1 .. Len(u)
          PROVE  u[i].op \in {"intern", "object", "builtin", "protect", "define", "restore"}
      <4>1. CASE i \in 1 .. m /\ u[i] = steps[i]
        BY <3>2, <4>1
      <4>2. CASE i - m + 1 \in 2 .. n /\ u[i] = s[i - m + 1]
        BY <2>1, <2>2, <2>10, <4>2 DEF Building
      <4>3. QED
        BY <2>4, <4>1, <4>2
    <3>4. QED
      BY <3>3 DEF Building
  <2>11. ASSUME Wrong(u) PROVE Wrong(s)
    <3>1. PICK i \in 1 .. Len(u) : Errs(u[i])
      BY <2>11 DEF Wrong
    <3>2. CASE i \in 1 .. m /\ u[i] = steps[i]
      <4>1. steps[i].op = "refuse"
        BY <2>3, <3>1, <3>2 DEF Errs, Single
      <4>2. Errs(s[1])
        BY <2>3, <2>6, <3>2, <4>1 DEF Errs
      <4>3. QED
        BY <2>1, <2>6, <4>2 DEF Wrong
    <3>3. CASE i - m + 1 \in 2 .. n /\ u[i] = s[i - m + 1]
      <4>1. i - m + 1 \in 1 .. n /\ Errs(s[i - m + 1])
        BY <2>2, <3>1, <3>3
      <4>2. QED
        BY <2>1, <4>1 DEF Wrong
    <3>4. QED
      BY <2>4, <3>2, <3>3
  <2>12. ASSUME Wrong(s) PROVE Wrong(u)
    <3>1. PICK k \in 1 .. n : Errs(s[k])
      BY <2>1, <2>12 DEF Wrong
    <3>2. CASE k = 1
      <4>1. Errs(u[3]) /\ 3 \in 1 .. m
        BY <2>2, <2>3, <2>5, <2>6, <3>1, <3>2 DEF Errs
      <4>2. 3 \in 1 .. Len(u)
        BY <2>2, <2>5, <4>1
      <4>3. QED
        BY <4>1, <4>2 DEF Wrong
    <3>3. CASE k # 1
      <4>1. k \in 2 .. n /\ m + (k - 1) \in 1 .. m + (n - 1)
        BY <2>2, <3>3
      <4>2. u[m + (k - 1)] = s[k]
        BY <2>5, <4>1
      <4>3. QED
        BY <2>5, <3>1, <4>1, <4>2 DEF Wrong
    <3>4. QED
      BY <3>2, <3>3
  <2>13. QED
    BY <2>1, <2>7, <2>8, <2>9, <2>10, <2>11, <2>12
<1>3. QED
  BY <1>1, <1>2, UnfoldedIs

-----------------------------------------------------------------------------
(***************************************************************************)
(* One operation.                                                          *)
(***************************************************************************)
\* An answer of the allocator leaves a refusal known.
LEMMA Answered ==
    ASSUME NEW m \in Memory, NEW g \in Got(m)
    PROVE  /\ g.mem \in Memory
           /\ m.denied => g.mem.denied
           /\ g.block = Null => g.mem.denied
<1>1. \/ g.block = Null /\ g.mem.denied
      \/ g.block # Null /\ g.mem.denied = m.denied
  BY GotIs
<1>2. g.mem \in Memory
  BY GotIs
<1>3. QED
  BY <1>1, <1>2

\* So does what is given back.
LEMMA DeniedStays ==
    ASSUME NEW m \in Memory, NEW p
    PROVE  Dropped(m, p).denied = m.denied
BY DEF Dropped, Memory

\* The list goes on, or is dropped for lack of memory or an error of Scheme.
Advances ==
    \/ todo' = todo /\ status' = status /\ result' = result /\ ml'.toplevel = ml.toplevel
    \/ /\ todo' = <<>> /\ result' = result
       /\ (status' = "NOMEM" /\ mem'.denied) \/ (status' = "UNBOUND" /\ Wrong(todo))
    \/ /\ todo # <<>> /\ todo' = Unfolded(Tail(todo)) /\ status' = status
       /\ ~Errs(Head(todo))
       /\ result' = result \/ Head(todo).op = "print"
       /\ ml'.toplevel # Null \/ (Head(todo).op # "object" /\ ml'.toplevel = ml.toplevel)

\* An operation that is done.
LEMMA DoneAdvances ==
    ASSUME NEW op, Doing(op), op \notin {"object", "refuse", "form", "print"},
           Done, ml'.toplevel = ml.toplevel
    PROVE  Advances
BY DEF Doing, Done, Advances, Errs

\* One that fails for lack of memory.
LEMMA FailAdvances ==
    ASSUME NEW m, Fail("NOMEM", m), m.denied
    PROVE  Advances /\ mem'.denied
BY DEF Fail, Advances

\* Growing for the sake of an operation, which is still to be done.
LEMMA GrowthAdvances ==
    ASSUME mem \in Memory, GrowSymbols \/ GrowRoots \/ GrowMarks, DOMAIN ml = Fields
    PROVE  Advances /\ (mem.denied => mem'.denied)
<1>1. PICK g \in Got(mem) : \E b :
        IF g.block = Null THEN Fail("NOMEM", g.mem)
        ELSE /\ mem' = Dropped(g.mem, <<b>>)
             /\ \E v, n : \/ ml' = [ml EXCEPT !.entries = v, !.symcap = n]
                          \/ ml' = [ml EXCEPT !.protect = v, !.protcap = n]
                          \/ ml' = [ml EXCEPT !.marklist = v, !.markcap = n]
             /\ UNCHANGED <<todo, status, result>>
  <2>1. CASE GrowSymbols
    BY <2>1 DEF GrowSymbols, Take
  <2>2. CASE GrowRoots
    BY <2>2 DEF GrowRoots, Take
  <2>3. CASE GrowMarks
    BY <2>3 DEF GrowMarks
  <2>4. QED
    BY <2>1, <2>2, <2>3
<1>2. PICK b :
        IF g.block = Null THEN Fail("NOMEM", g.mem)
        ELSE /\ mem' = Dropped(g.mem, <<b>>)
             /\ \E v, n : \/ ml' = [ml EXCEPT !.entries = v, !.symcap = n]
                          \/ ml' = [ml EXCEPT !.protect = v, !.protcap = n]
                          \/ ml' = [ml EXCEPT !.marklist = v, !.markcap = n]
             /\ UNCHANGED <<todo, status, result>>
  BY <1>1
<1>3. g.mem \in Memory /\ (mem.denied => g.mem.denied) /\ (g.block = Null => g.mem.denied)
  BY Answered
<1>4. CASE g.block = Null
  BY <1>2, <1>3, <1>4, FailAdvances
<1>5. CASE g.block # Null
  <2>1. mem' = Dropped(g.mem, <<b>>)
    BY <1>2, <1>5
  <2>2. Dropped(g.mem, <<b>>).denied = g.mem.denied
    BY <1>3, DeniedStays
  <2>3. ml'.toplevel = ml.toplevel
    BY <1>2, <1>5 DEF Fields
  <2>4. QED
    BY <1>2, <1>3, <1>5, <2>1, <2>2, <2>3 DEF Advances
<1>6. QED
  BY <1>4, <1>5

\* Allocating for a name, a result or an object.
LEMMA AllocationAdvances ==
    ASSUME Owning, CopyName \/ PrintResult \/ AllocObject, text' = text
    PROVE  Advances /\ (mem.denied => mem'.denied)
<1>1. mem \in Memory /\ DOMAIN ml = Fields
  BY DEF Owning, Owns, State
<1>2. CASE CopyName
  <2>1. PICK g \in Got(mem) :
          IF g.block = Null THEN Fail("NOMEM", g.mem)
          ELSE mem' = g.mem /\ Done /\ \E v : ml' = [ml EXCEPT !.names = v]
    BY <1>2 DEF CopyName, Take
  <2>2. (mem.denied => g.mem.denied) /\ (g.block = Null => g.mem.denied)
    BY <1>1, Answered
  <2>3. CASE g.block = Null
    BY <2>1, <2>2, <2>3, FailAdvances
  <2>4. CASE g.block # Null
    <3>1. Doing("intern") /\ ml'.toplevel = ml.toplevel
      BY <1>1, <1>2, <2>1, <2>4 DEF CopyName, Fields
    <3>2. QED
      BY <2>1, <2>2, <2>4, <3>1, DoneAdvances
  <2>5. QED
    BY <2>3, <2>4
<1>3. CASE PrintResult
  <2>1. PICK g \in Got(mem) :
          IF g.block = Null THEN Fail("NOMEM", g.mem)
          ELSE /\ mem' = g.mem /\ todo' = Unfolded(Tail(todo)) /\ UNCHANGED <<ml, status>>
    BY <1>3 DEF PrintResult, Take
  <2>2. (mem.denied => g.mem.denied) /\ (g.block = Null => g.mem.denied)
    BY <1>1, Answered
  <2>3. CASE g.block = Null
    BY <2>1, <2>2, <2>3, FailAdvances
  <2>4. CASE g.block # Null
    BY <1>3, <2>1, <2>2, <2>4 DEF PrintResult, Doing, Advances, Errs
  <2>5. QED
    BY <2>3, <2>4
<1>4. CASE AllocObject
  <2>1. PICK c \in AfterCollection : \E g \in Got(c.mem) : AllocatesIn(c, g)
    BY <1>4 DEF AllocObject, AllocatesIn
  <2>2. PICK g \in Got(c.mem) : AllocatesIn(c, g)
    BY <2>1
  <2>3. c.mem \in Memory /\ (mem.denied => c.mem.denied)
    BY CollectionKeeps DEF Collected, Owns
  <2>4. (c.mem.denied => g.mem.denied) /\ (g.block = Null => g.mem.denied)
    BY <2>3, Answered
  <2>5. mem' = g.mem
    BY <2>2 DEF AllocatesIn
  <2>6. CASE g.block = Null
    BY <2>2, <2>3, <2>4, <2>5, <2>6 DEF AllocatesIn, Advances
  <2>7. CASE g.block # Null
    <3>1. Done /\ Doing("object")
      BY <1>4, <2>2, <2>7 DEF AllocatesIn, AllocObject
    <3>2. todo # <<>> /\ Head(todo).op = "object" /\ todo' = Unfolded(Tail(todo))
          /\ status' = status /\ result' = result
      BY <3>1 DEF Done, Doing
    <3>3. ml'.toplevel # Null
      <4>1. State(c.ml) /\ Null \notin c.mem.live
        BY CollectionKeeps, PartsInUse DEF Collected
      <4>2. ml'.toplevel = IF c.ml.toplevel = Null THEN g.block ELSE c.ml.toplevel
        BY <2>2, <2>7, <4>1 DEF AllocatesIn, State, Fields
      <4>3. QED
        BY <2>7, <4>2
    <3>4. QED
      BY <2>3, <2>4, <2>5, <3>2, <3>3 DEF Advances, Errs
  <2>8. QED
    BY <2>6, <2>7
<1>5. QED
  BY <1>2, <1>3, <1>4

\* Growing the top-level frame.
LEMMA BindingsAdvance ==
    ASSUME mem \in Memory, GrowBindings, DOMAIN ml = Fields
    PROVE  Advances /\ (mem.denied => mem'.denied)
<1>1. PICK n \in Got(mem) : \E v \in Got(n.mem) : GrowsIn(n, v)
  BY DEF GrowBindings, GrowsIn
<1>2. PICK v \in Got(n.mem) : GrowsIn(n, v)
  BY <1>1
<1>3. n.mem \in Memory /\ (mem.denied => n.mem.denied) /\ (n.block = Null => n.mem.denied)
  BY Answered
<1>4. v.mem \in Memory /\ (n.mem.denied => v.mem.denied) /\ (v.block = Null => v.mem.denied)
  BY <1>3, Answered
<1>5. CASE n.block = Null
  BY <1>2, <1>3, <1>5, FailAdvances DEF GrowsIn
<1>6. CASE n.block # Null /\ v.block = Null
  <2>1. PICK m : m = Dropped(v.mem, <<n.block>>)
    OBVIOUS
  <2>2. Fail("NOMEM", m) /\ m.denied
    BY <1>2, <1>4, <1>6, <2>1, DeniedStays DEF GrowsIn
  <2>3. QED
    BY <2>2, FailAdvances
<1>7. CASE n.block # Null /\ v.block # Null
  <2>1. PICK a : a = ml.arrays
    OBVIOUS
  <2>2. mem'.denied = v.mem.denied
    BY <1>2, <1>4, <1>7, <2>1, DeniedStays DEF GrowsIn
  <2>3. ml'.toplevel = ml.toplevel
    BY <1>2, <1>7 DEF GrowsIn, Fields
  <2>4. QED
    BY <1>2, <1>3, <1>4, <1>7, <2>2, <2>3 DEF GrowsIn, Advances
<1>8. QED
  BY <1>5, <1>6, <1>7

\* Every operation keeps the owners, and takes its list on.
LEMMA OperateKeeps ==
    ASSUME Owning, Listed(todo), ml.toplevel = Null => Anchored(todo),
           result # Null => Silent(todo), Operate, text' = text
    PROVE  Owning' /\ Advances /\ (mem.denied => mem'.denied)
<1>1. /\ mem \in Memory /\ ~mem.wild /\ DOMAIN ml = Fields
      /\ \A op : Doing(op) => Len(todo) \in Nat \ {0} /\ todo[1].op = op /\ 1 \in 1 .. Len(todo)
  <2>1. mem \in Memory /\ ~mem.wild /\ DOMAIN ml = Fields
    BY DEF Owning, Owns, State
  <2>2. ASSUME NEW op, Doing(op)
        PROVE  Len(todo) \in Nat \ {0} /\ todo[1].op = op /\ 1 \in 1 .. Len(todo)
    <3>1. Len(todo) \in Nat \ {0} /\ Head(todo) = todo[1]
      BY <2>2, HeadTail DEF Doing, Listed
    <3>2. QED
      BY <2>2, <3>1 DEF Doing
  <2>3. QED
    BY <2>1, <2>2
<1>2. CASE InternKnown
  <2>1. Owning'
    BY <1>2, OwnersStay DEF InternKnown, Done
  <2>2. Advances
    BY <1>2, DoneAdvances DEF InternKnown
  <2>3. QED
    BY <1>2, <2>1, <2>2 DEF InternKnown
<1>3. CASE GrowSymbols
  BY <1>1, <1>3, GrowSymbolsKeeps, GrowthAdvances
<1>4. CASE CopyName
  BY <1>4, CopyNameKeeps, AllocationAdvances
<1>5. CASE AllocObject
  BY <1>5, AllocObjectKeeps, AllocationAdvances
<1>6. CASE GrowRoots
  BY <1>1, <1>6, GrowRootsKeeps, GrowthAdvances
<1>7. CASE Protect
  <2>1. Owning'
    BY <1>7, OwnersStay DEF Protect, Done
  <2>2. Advances
    BY <1>1, <1>7, DoneAdvances DEF Protect, Fields
  <2>3. QED
    BY <1>7, <2>1, <2>2 DEF Protect
<1>8. CASE Restore
  <2>1. Owning'
    BY <1>8, OwnersStay DEF Restore, Done
  <2>2. Advances
    BY <1>1, <1>8, DoneAdvances DEF Restore, Fields
  <2>3. QED
    BY <1>8, <2>1, <2>2 DEF Restore
<1>9. CASE Rebind
  <2>1. Owning'
    BY <1>9, OwnersStay DEF Rebind, Done
  <2>2. Advances
    BY <1>1, <1>9, DoneAdvances DEF Rebind, Fields
  <2>3. QED
    BY <1>9, <2>1, <2>2 DEF Rebind
<1>10. CASE GrowBindings
  <2>1. ml.toplevel # Null
    <3>1. Doing("define")
      BY <1>10 DEF GrowBindings
    <3>2. SUFFICES ASSUME Anchored(todo) PROVE FALSE
      OBVIOUS
    <3>3. \E j \in 1 .. 1 - 1 : todo[j].op = "object"
      BY <1>1, <3>1, <3>2 DEF Anchored
    <3>4. QED
      BY <3>3
  <2>2. QED
    BY <1>1, <1>10, <2>1, GrowBindingsKeeps, BindingsAdvance
<1>11. CASE Bind
  <2>1. Owning'
    BY <1>11, OwnersStay DEF Bind, Done
  <2>2. Advances
    BY <1>1, <1>11, DoneAdvances DEF Bind, Fields
  <2>3. QED
    BY <1>11, <2>1, <2>2 DEF Bind
<1>12. CASE PrintResult
  <2>1. result = Null
    <3>1. Doing("print")
      BY <1>12 DEF PrintResult
    <3>2. QED
      BY <1>1, <3>1 DEF Silent
  <2>2. QED
    BY <1>12, <2>1, PrintResultKeeps, AllocationAdvances
<1>13. CASE Refuse
  <2>1. Fail("UNBOUND", mem) /\ Doing("refuse")
    BY <1>13 DEF Refuse
  <2>2. Owning'
    BY <1>1, <2>1, FailKeeps
  <2>3. Wrong(todo)
    BY <1>1, <2>1 DEF Wrong, Errs
  <2>4. QED
    BY <2>1, <2>2, <2>3 DEF Fail, Advances
<1>14. CASE GrowMarks
  BY <1>1, <1>14, GrowMarksKeeps, GrowthAdvances
<1>15. QED
  BY <1>2, <1>3, <1>4, <1>5, <1>6, <1>7, <1>8, <1>9, <1>10, <1>11, <1>12, <1>13, <1>14 DEF Operate

-----------------------------------------------------------------------------
(***************************************************************************)
(* Creation and destruction.                                               *)
(***************************************************************************)
\* What is left of the owners when the objects and names are gone.
LEMMA ArraysAndRest ==
    ASSUME NEW s, State(s), Once(Parts(s, Null, Null))
    PROVE  LET own == <<s.entries, s.protect, s.marklist, s.self>>
           IN  /\ Once(own)
               /\ Held(own) = Held(Parts(s, Null, Null)) \ Held(s.arrays)
<1>1. PICK p, own, a :
        p = Parts(s, Null, Null) /\ own = <<s.entries, s.protect, s.marklist, s.self>> /\ a = s.arrays
  OBVIOUS
<1>2. /\ DOMAIN p = {"self", "entries", "protect", "marklist", "names", "values", "result", "text"}
      /\ p["result"] = Null /\ p["text"] = Null /\ p["names"] = a[1] /\ p["values"] = a[2]
      /\ own = <<p["entries"], p["protect"], p["marklist"], p["self"]>>
      /\ a = <<a[1], a[2]>>
  BY <1>1 DEF Parts, State
<1>3. \A i, j \in DOMAIN p : i # j /\ p[i] = p[j] => p[i] = Null
  BY <1>1 DEF Once
<1>4. Once(own)
  <2>1. \A i, j \in 1 .. 4 : i # j /\ own[i] = own[j] => own[i] = Null
    BY <1>2, <1>3
  <2>2. DOMAIN own = 1 .. 4
    BY <1>2
  <2>3. QED
    BY <2>1, <2>2 DEF Once
<1>5. Held(own) = {p["entries"], p["protect"], p["marklist"], p["self"]} \ {Null}
  BY <1>2 DEF Held
<1>6. Held(a) = {p["names"], p["values"]} \ {Null}
  <2>1. PICK x, y : x = a[1] /\ y = a[2]
    OBVIOUS
  <2>2. a = <<x, y>> /\ p["names"] = x /\ p["values"] = y
    BY <1>2, <2>1
  <2>3. QED
    BY <2>2 DEF Held
<1>7. Held(p) = {p["entries"], p["protect"], p["marklist"], p["self"], p["names"], p["values"]} \ {Null}
  BY <1>2 DEF Held
<1>8. {p["entries"], p["protect"], p["marklist"], p["self"]} \cap {p["names"], p["values"]} \subseteq {Null}
  BY <1>2, <1>3
<1>9. Held(own) = Held(p) \ Held(a)
  BY <1>5, <1>6, <1>7, <1>8
<1>10. QED
  BY <1>1, <1>4, <1>9

\* A state that is destroyed leaves nothing behind.
LEMMA DestroyedIs ==
    ASSUME NEW m, NEW s, State(s), Owns(m, s, Null, Null)
    PROVE  /\ Destroyed(m, s) \in Memory /\ ~Destroyed(m, s).wild
           /\ Destroyed(m, s).live = {} /\ Destroyed(m, s).denied = m.denied
<1>1. PICK a, parts, own :
        /\ a = s.arrays /\ parts = Parts(s, Null, Null)
        /\ own = <<s.entries, s.protect, s.marklist, s.self>>
  OBVIOUS
<1>2. /\ m \in Memory /\ ~m.wild /\ Null \notin m.live
      /\ m.live = s.objects \cup Named(s) \cup Held(parts)
      /\ Once(parts)
      /\ s.objects \cap Named(s) = {} /\ s.objects \cap Held(parts) = {}
      /\ Named(s) \cap Held(parts) = {}
      /\ \A i, j \in DOMAIN s.names : s.names[i].block = s.names[j].block => i = j
  BY <1>1, PartsInUse DEF Owns
<1>3. Once(own) /\ Held(own) = Held(parts) \ Held(a)
  BY <1>1, <1>2, ArraysAndRest
<1>4. Held(a) \subseteq Held(parts)
  <2>1. PICK x, y : x = a[1] /\ y = a[2]
    OBVIOUS
  <2>2. /\ a = <<x, y>> /\ parts["names"] = x /\ parts["values"] = y
        /\ {"names", "values"} \subseteq DOMAIN parts
    BY <1>1, <2>1 DEF State, Parts
  <2>3. Held(a) \subseteq {x, y} \ {Null}
    BY <2>2 DEF Held
  <2>4. QED
    BY <2>2, <2>3 DEF Held
<1>5. PICK swept : swept = FreedObjects(m, s, s.objects)
  OBVIOUS
<1>6. /\ swept \in Memory /\ ~swept.wild /\ swept.denied = m.denied
      /\ swept.live = Named(s) \cup (Held(parts) \ Held(a))
  <2>1. /\ swept \in Memory /\ ~swept.wild /\ swept.denied = m.denied
        /\ swept.live = (m.live \ s.objects) \ (IF s.toplevel \in s.objects THEN Held(a) ELSE {})
    <3>1. s.objects \in SUBSET s.objects
      OBVIOUS
    <3>2. QED
      BY <1>1, <1>5, <3>1, FreedIs
  <2>2. s.toplevel \in s.objects \/ Held(a) = {}
    BY <1>1 DEF State, Held
  <2>3. QED
    BY <1>2, <1>4, <2>1, <2>2
<1>7. PICK p : p = [i \in DOMAIN s.names |-> s.names[i].block]
  OBVIOUS
<1>8. Once(p) /\ Held(p) = Named(s)
  <2>1. Null \notin Named(s)
    BY <1>2
  <2>2. QED
    BY <1>2, <1>7, <2>1 DEF Once, Held, Named
<1>9. PICK unnamed : unnamed = Dropped(swept, p)
  OBVIOUS
<1>10. /\ unnamed \in Memory /\ ~unnamed.wild /\ unnamed.denied = m.denied
       /\ unnamed.live = Held(parts) \ Held(a)
  <2>1. Held(p) \subseteq swept.live
    BY <1>6, <1>8
  <2>2. /\ Dropped(swept, p) \in Memory /\ ~Dropped(swept, p).wild
        /\ Dropped(swept, p).live = swept.live \ Held(p) /\ Dropped(swept, p).denied = swept.denied
    BY <1>6, <1>8, <2>1, DroppedIs
  <2>3. Named(s) \cap (Held(parts) \ Held(a)) = {}
    BY <1>2
  <2>4. QED
    BY <1>6, <1>8, <1>9, <2>2, <2>3
<1>11. Destroyed(m, s) = Dropped(unnamed, own)
  BY <1>1, <1>5, <1>7, <1>9 DEF Destroyed
<1>12. /\ Dropped(unnamed, own) \in Memory /\ ~Dropped(unnamed, own).wild
       /\ Dropped(unnamed, own).live = unnamed.live \ Held(own)
       /\ Dropped(unnamed, own).denied = unnamed.denied
  BY <1>3, <1>10, DroppedIs
<1>13. QED
  BY <1>3, <1>10, <1>11, <1>12

\* A state that owns nothing, or only its own block.
LEMMA BlankOwns ==
    ASSUME NEW m \in Memory, ~m.wild, NEW self,
           m.live = {self} \ {Null}
    PROVE  /\ State(Blank(self)) /\ Owns(m, Blank(self), Null, Null)
           /\ Blank(self).toplevel = Null
           /\ State(NoState) /\ (self = Null => Owns(m, NoState, Null, Null))
<1>1. PICK s : s = Blank(self)
  OBVIOUS
<1>2. /\ DOMAIN s = Fields /\ s.names = <<>> /\ s.arrays = <<Null, Null>> /\ s.toplevel = Null
      /\ s.objects = {} /\ s.self = self /\ s.entries = Null /\ s.protect = Null /\ s.marklist = Null
  BY <1>1 DEF Blank, Fields
<1>3. Sequence(<<>>)
  BY EmptySeq DEF Sequence
<1>4. State(s)
  BY <1>2, <1>3 DEF State
<1>5. Once(Parts(s, Null, Null)) /\ Held(Parts(s, Null, Null)) = {self} \ {Null}
  <2>1. Parts(s, Null, Null) = [self |-> self, entries |-> Null, protect |-> Null, marklist |-> Null,
                                names |-> Null, values |-> Null, result |-> Null, text |-> Null]
    BY <1>2 DEF Parts
  <2>2. PICK p : p = Parts(s, Null, Null)
    OBVIOUS
  <2>3. "self" \in DOMAIN p /\ p["self"] = self /\ \A i \in DOMAIN p \ {"self"} : p[i] = Null
    BY <2>1, <2>2
  <2>4. Once(p) /\ Held(p) = {self} \ {Null}
    BY <2>3 DEF Once, Held
  <2>5. QED
    BY <2>2, <2>4
<1>6. Named(s) = {} /\ DOMAIN s.names = {}
  BY <1>2 DEF Named
<1>7. Owns(m, s, Null, Null)
  BY <1>2, <1>5, <1>6 DEF Owns
<1>8. self = Null => State(NoState) /\ Owns(m, NoState, Null, Null)
  <2>1. SUFFICES ASSUME self = Null PROVE State(NoState) /\ Owns(m, NoState, Null, Null)
    OBVIOUS
  <2>2. PICK n : n = NoState
    OBVIOUS
  <2>3. n = [s EXCEPT !.threshold = 0]
    BY <1>1, <2>1, <2>2 DEF NoState
  <2>4. State(n) /\ n.objects = s.objects /\ n.names = s.names
    BY <1>4, <2>3 DEF State, Fields
  <2>5. Parts(n, Null, Null) = Parts(s, Null, Null) /\ Named(n) = Named(s)
    BY <1>2, <2>3, <2>4 DEF Parts, Named, Fields
  <2>6. QED
    BY <1>7, <2>2, <2>4, <2>5 DEF Owns
<1>9. State(NoState)
  BY <1>3 DEF NoState, Blank, State, Fields
<1>10. QED
  BY <1>1, <1>2, <1>4, <1>7, <1>8, <1>9

\* Creation builds: names, the top-level environment, primitives.
LEMMA PlanIs ==
    /\ Listed(CreationPlan) /\ Anchored(CreationPlan) /\ Building(CreationPlan)
<1>1. PICK first, middle, last :
        /\ first = [i \in 1 .. Len(SpecialForms) |-> Op("intern", SpecialForms[i])]
        /\ middle = <<Plain("object")>>
        /\ last = [i \in 1 .. Len(Builtins) |-> Op("builtin", Builtins[i])]
  OBVIOUS
<1>2. PICK m \in Nat, n \in Nat : m = Len(SpecialForms) /\ n = Len(Builtins)
  BY LifecycleAssumption, LenProperties
<1>3. /\ Sequence(first) /\ Len(first) = m /\ \A i \in 1 .. m : first[i].op = "intern"
  <2> DEFINE F(i) == Op("intern", SpecialForms[i])
  <2>1. first = [i \in 1 .. m |-> F(i)]
    BY <1>1, <1>2
  <2>2. first \in Seq({F(i) : i \in 1 .. m}) /\ Len(first) = m
    BY <1>2, <2>1
  <2>3. \A i \in 1 .. m : first[i].op = "intern"
    BY <2>1 DEF Op
  <2>4. Sequence(first)
    BY <2>2, Zenon DEF Sequence
  <2>5. QED
    BY <2>2, <2>3, <2>4
<1>4. Sequence(middle) /\ Len(middle) = 1 /\ middle[1].op = "object"
  <2>1. middle \in Seq({Plain("object")}) /\ Len(middle) = 1 /\ middle[1].op = "object"
    BY <1>1 DEF Plain, Op
  <2>2. QED
    BY <2>1, Zenon DEF Sequence
<1>5. Sequence(last) /\ Len(last) = n /\ \A i \in 1 .. n : last[i].op = "builtin"
  <2> DEFINE F(i) == Op("builtin", Builtins[i])
  <2>1. last = [i \in 1 .. n |-> F(i)]
    BY <1>1, <1>2
  <2>2. last \in Seq({F(i) : i \in 1 .. n}) /\ Len(last) = n
    BY <1>2, <2>1
  <2>3. \A i \in 1 .. n : last[i].op = "builtin"
    BY <2>1 DEF Op
  <2>4. Sequence(last)
    BY <2>2, Zenon DEF Sequence
  <2>5. QED
    BY <2>2, <2>3, <2>4
<1>6. PICK s : s = first \o middle
  OBVIOUS
<1>7. /\ Sequence(s) /\ Len(s) = m + 1
      /\ \A i \in 1 .. m : s[i] = first[i]
      /\ s[m + 1] = middle[1]
  <2>1. /\ Sequence(first \o middle) /\ Len(first \o middle) = Len(first) + Len(middle)
        /\ \A i \in 1 .. Len(first) : (first \o middle)[i] = first[i]
        /\ \A i \in 1 .. Len(middle) : (first \o middle)[Len(first) + i] = middle[i]
    <3>1. Sequence(first) /\ Sequence(middle)
      BY <1>3, <1>4
    <3>2. QED
      BY <3>1, Joined
  <2>2. Len(first) = m /\ Len(middle) = 1 /\ 1 \in 1 .. 1
    BY <1>3, <1>4
  <2>3. QED
    BY <1>6, <2>1, <2>2
<1>8. PICK p : p = s \o last
  OBVIOUS
<1>9. /\ Sequence(p) /\ Len(p) = m + 1 + n
      /\ \A i \in 1 .. m + 1 : p[i] = s[i]
      /\ \A i \in 1 .. n : p[(m + 1) + i] = last[i]
  <2>1. /\ Sequence(s \o last) /\ Len(s \o last) = Len(s) + Len(last)
        /\ \A i \in 1 .. Len(s) : (s \o last)[i] = s[i]
        /\ \A i \in 1 .. Len(last) : (s \o last)[Len(s) + i] = last[i]
    <3>1. Sequence(s) /\ Sequence(last)
      BY <1>5, <1>7
    <3>2. QED
      BY <3>1, Joined
  <2>2. Len(s) = m + 1 /\ Len(last) = n
    BY <1>5, <1>7
  <2>3. QED
    BY <1>8, <2>1, <2>2
<1>10. \A i \in 1 .. m + 1 + n :
         \/ i \in 1 .. m \/ i = m + 1
         \/ i - (m + 1) \in 1 .. n /\ i = (m + 1) + (i - (m + 1))
  BY <1>2
<1>11. \A i \in 1 .. m : p[i].op = "intern"
  <2>1. \A i \in 1 .. m : i \in 1 .. m + 1
    BY <1>2
  <2>2. QED
    BY <1>3, <1>7, <1>9, <2>1
<1>12. p[m + 1].op = "object"
  BY <1>2, <1>4, <1>7, <1>9
<1>13. \A i \in 1 .. m + 1 + n : p[i].op \in {"intern", "object", "builtin"}
  <2>1. \A i \in 1 .. n : p[(m + 1) + i].op = "builtin"
    BY <1>5, <1>9
  <2>2. SUFFICES ASSUME NEW i \in 1 .. m + 1 + n
                 PROVE  p[i].op \in {"intern", "object", "builtin"}
    OBVIOUS
  <2>3. CASE i - (m + 1) \in 1 .. n /\ i = (m + 1) + (i - (m + 1))
    BY <2>1, <2>3
  <2>4. QED
    BY <1>10, <1>11, <1>12, <2>3
<1>14. Listed(p) /\ Anchored(p) /\ Building(p)
  BY <1>9, <1>13 DEF Listed, Anchored, Building
<1>15. CreationPlan = p
  BY <1>1, <1>6, <1>8 DEF CreationPlan
<1>16. QED
  BY <1>14, <1>15

\* A program is its forms, the last of which may have a result to print; it is
\* wrong if one of them is.
LEMMA ProgramIs ==
    ASSUME NEW forms \in Seq(Forms)
    PROVE  /\ Listed(Program(forms)) /\ Anchored(Program(forms))
           /\ Wrong(Program(forms)) <=> \E i \in 1 .. Len(forms) : forms[i] = "wrong"
<1>1. PICK first, last :
        /\ first = [i \in 1 .. Len(forms) |-> Op("form", forms[i])]
        /\ last = IF forms # <<>> /\ Last(forms) = "value"
                  THEN <<Plain("protect"), Plain("print"), Plain("restore")>> ELSE <<>>
  OBVIOUS
<1>2. PICK n \in Nat : n = Len(forms)
  BY LenProperties
<1>3. /\ Sequence(first) /\ Len(first) = n
      /\ \A i \in 1 .. n : first[i].op = "form" /\ first[i].name = forms[i] /\ forms[i] \in Forms
  <2> DEFINE F(i) == Op("form", forms[i])
  <2>1. first = [i \in 1 .. n |-> F(i)]
    BY <1>1, <1>2
  <2>2. first \in Seq({F(i) : i \in 1 .. n}) /\ Len(first) = n
    BY <1>2, <2>1
  <2>3. \A i \in 1 .. n : first[i].op = "form" /\ first[i].name = forms[i]
    BY <2>1 DEF Op
  <2>4. \A i \in 1 .. n : forms[i] \in Forms
    BY <1>2, ElementOfSeq
  <2>5. Sequence(first)
    BY <2>2, Zenon DEF Sequence
  <2>6. QED
    BY <2>2, <2>3, <2>4, <2>5
<1>4. /\ Sequence(last) /\ (Len(last) = 0 \/ Len(last) = 3)
      /\ Len(last) = 3 => last[1].op = "protect" /\ last[2].op = "print" /\ last[3].op = "restore"
  <2>1. CASE last = <<>>
    BY <2>1, EmptySeq DEF Sequence
  <2>2. CASE last = <<Plain("protect"), Plain("print"), Plain("restore")>>
    <3>1. last \in Seq({Plain("protect"), Plain("print"), Plain("restore")})
      BY <2>2
    <3>2. Sequence(last)
      BY <3>1, Zenon DEF Sequence
    <3>3. Len(last) = 3 /\ last[1].op = "protect" /\ last[2].op = "print" /\ last[3].op = "restore"
      BY <2>2 DEF Plain, Op
    <3>4. QED
      BY <3>2, <3>3
  <2>3. QED
    BY <1>1, <2>1, <2>2
<1>5. PICK p, k : p = first \o last /\ k = Len(last)
  OBVIOUS
<1>6. /\ Sequence(p) /\ Len(p) = n + k /\ (k = 0 \/ k = 3)
      /\ \A i \in 1 .. n : p[i] = first[i]
      /\ \A i \in 1 .. k : p[n + i] = last[i]
  <2>1. /\ Sequence(first \o last) /\ Len(first \o last) = Len(first) + Len(last)
        /\ \A i \in 1 .. Len(first) : (first \o last)[i] = first[i]
        /\ \A i \in 1 .. Len(last) : (first \o last)[Len(first) + i] = last[i]
    <3>1. Sequence(first) /\ Sequence(last)
      BY <1>3, <1>4
    <3>2. QED
      BY <3>1, Joined
  <2>2. Len(first) = n
    BY <1>3
  <2>3. QED
    BY <1>4, <1>5, <2>1, <2>2
<1>7. \A i \in 1 .. n + k :
         \/ i \in 1 .. n
         \/ k = 3 /\ i = n + 1 /\ p[i].op = "protect"
         \/ k = 3 /\ i = n + 2 /\ p[i].op = "print"
         \/ k = 3 /\ i = n + 3 /\ p[i].op = "restore"
  <2>1. k = 3 => p[n + 1] = last[1] /\ p[n + 2] = last[2] /\ p[n + 3] = last[3]
    BY <1>6
  <2>2. k = 3 => p[n + 1].op = "protect" /\ p[n + 2].op = "print" /\ p[n + 3].op = "restore"
    BY <1>4, <1>5, <2>1
  <2>3. \A i \in 1 .. n + k : i \in 1 .. n \/ (k = 3 /\ (i = n + 1 \/ i = n + 2 \/ i = n + 3))
    BY <1>6
  <2>4. QED
    BY <2>2, <2>3
<1>8. \A i \in 1 .. n : p[i].op = "form" /\ p[i].name = forms[i] /\ forms[i] \in Forms
  BY <1>3, <1>6
<1>9. Listed(p)
  <2>1. \A i \in 1 .. Len(p) : p[i].op = "form" => p[i].name \in Forms
    BY <1>6, <1>7, <1>8
  <2>2. \A i \in 1 .. Len(p) : p[i].op = "print" => i = Len(p) - 1
    BY <1>6, <1>7, <1>8
  <2>3. QED
    BY <1>6, <2>1, <2>2 DEF Listed
<1>10. Anchored(p)
  BY <1>6, <1>7, <1>8 DEF Anchored
<1>11. Wrong(p) <=> \E i \in 1 .. n : forms[i] = "wrong"
  <2>1. ASSUME NEW i \in 1 .. n, forms[i] = "wrong" PROVE Wrong(p)
    <3>1. i \in 1 .. Len(p) /\ Errs(p[i])
      BY <1>6, <1>8, <2>1 DEF Errs
    <3>2. QED
      BY <3>1 DEF Wrong
  <2>2. ASSUME NEW i \in 1 .. Len(p), Errs(p[i]) PROVE \E j \in 1 .. n : forms[j] = "wrong"
    BY <1>6, <1>7, <1>8, <2>2 DEF Errs
  <2>3. QED
    BY <2>1, <2>2 DEF Wrong
<1>12. Program(forms) = p
  BY <1>1, <1>5 DEF Program
<1>13. QED
  BY <1>2, <1>9, <1>10, <1>11, <1>12

-----------------------------------------------------------------------------
(***************************************************************************)
(* The owners of the process.                                              *)
(***************************************************************************)
\* What is ahead can be done with the state there is.
Plans ==
    /\ Listed(todo)
    /\ ml.toplevel = Null => Anchored(todo)
    /\ result # Null => Silent(todo)

\* Nothing ahead is a plan for any state.
LEMMA NothingAhead ==
    Listed(<<>>) /\ Anchored(<<>>) /\ Silent(<<>>) /\ Building(<<>>) /\ ~Wrong(<<>>)
<1>1. Sequence(<<>>) /\ Len(<<>>) = 0
  BY EmptySeq DEF Sequence
<1>2. QED
  BY <1>1 DEF Listed, Anchored, Silent, Building, Wrong

\* A plan stays one.
LEMMA PlansAdvance ==
    ASSUME Plans, Advances
    PROVE  /\ Plans'
           /\ Building(todo) => Building(todo')
           /\ Wrong(todo') => Wrong(todo)
           /\ Wrong(todo) /\ status' = "OK" => status = "OK" /\ Wrong(todo')
           /\ result' # Null /\ result = Null => ~Building(todo)
           /\ \/ status' = status
              \/ status' = "NOMEM" /\ mem'.denied
              \/ status' = "UNBOUND" /\ Wrong(todo)
<1>1. CASE todo' = todo /\ status' = status /\ result' = result /\ ml'.toplevel = ml.toplevel
  BY <1>1 DEF Plans
<1>2. CASE /\ todo' = <<>> /\ result' = result
           /\ (status' = "NOMEM" /\ mem'.denied) \/ (status' = "UNBOUND" /\ Wrong(todo))
  BY <1>2, NothingAhead DEF Plans
<1>3. CASE /\ todo # <<>> /\ todo' = Unfolded(Tail(todo)) /\ status' = status
           /\ ~Errs(Head(todo))
           /\ result' = result \/ Head(todo).op = "print"
           /\ ml'.toplevel # Null \/ (Head(todo).op # "object" /\ ml'.toplevel = ml.toplevel)
  <2>1. PICK t : t = Tail(todo)
    OBVIOUS
  <2>2. /\ Listed(t)
        /\ Anchored(todo) /\ Head(todo).op # "object" => Anchored(t)
        /\ Silent(todo) => Silent(t)
        /\ Head(todo).op = "print" => Silent(t)
        /\ Building(todo) => Building(t)
        /\ Wrong(t) => Wrong(todo)
        /\ Wrong(todo) /\ ~Errs(Head(todo)) => Wrong(t)
    BY <1>3, <2>1, TailKeeps DEF Plans
  <2>3. /\ Listed(todo')
        /\ Anchored(t) => Anchored(todo')
        /\ Silent(t) => Silent(todo')
        /\ Building(t) => Building(todo')
        /\ Wrong(todo') <=> Wrong(t)
    BY <1>3, <2>1, <2>2, UnfoldedKeeps
  <2>4. Plans'
    BY <1>3, <2>2, <2>3 DEF Plans
  <2>5. Head(todo).op = "print" => ~Building(todo)
    <3>1. SUFFICES ASSUME Head(todo).op = "print", Building(todo) PROVE FALSE
      OBVIOUS
    <3>2. Len(todo) \in Nat \ {0} /\ Head(todo) = todo[1]
      BY <1>3, HeadTail DEF Plans, Listed
    <3>3. 1 \in 1 .. Len(todo)
      BY <3>2
    <3>4. QED
      BY <3>1, <3>2, <3>3 DEF Building
  <2>6. QED
    BY <1>3, <2>2, <2>3, <2>4, <2>5
<1>4. QED
  BY <1>1, <1>2, <1>3 DEF Advances

\* The state of the interpreter between evaluations is whole, and what C
\* variables hold is held where the code frees it.
Accounts ==
    /\ Owning /\ Plans
    /\ caller \in Callers /\ line \in Nat
    /\ stage = "creating" => Building(todo)
    /\ todo # <<>> => stage \in {"creating", "source", "line", "call"}
    /\ result # Null => stage \in {"source", "line", "call"}
    /\ text # Null => stage \in {"slurped", "source"}
    /\ file # "none" => stage = "slurp"
    /\ stage \in {"arguments", "usage", "create", "exit"} => ml = NoState

\* Memory that differs in nothing an owner has.
LEMMA MemoryAlike ==
    ASSUME NEW m, NEW s, NEW r, NEW t, Owns(m, s, r, t),
           NEW m2 \in Memory, ~m2.wild, m2.live = m.live
    PROVE  Owns(m2, s, r, t)
BY DEF Owns

\* A result and a text are given back together.
LEMMA BothReleased ==
    ASSUME NEW m, NEW s, NEW r, NEW t, Owns(m, s, r, t)
    PROVE  Owns(Dropped(m, <<r, t>>), s, Null, Null)
<1>1. PICK p, h, q : p = Parts(s, r, t) /\ h = Parts(s, Null, t) /\ q = Parts(s, Null, Null)
  OBVIOUS
<1>2. /\ m \in Memory /\ ~m.wild
      /\ m.live = s.objects \cup Named(s) \cup Held(p)
      /\ Once(p)
      /\ s.objects \cap Named(s) = {} /\ s.objects \cap Held(p) = {}
      /\ Named(s) \cap Held(p) = {}
      /\ \A i, j \in DOMAIN s.names : s.names[i].block = s.names[j].block => i = j
  BY <1>1 DEF Owns
<1>3. /\ DOMAIN h = DOMAIN p /\ DOMAIN q = DOMAIN p /\ {"result", "text"} \subseteq DOMAIN p
      /\ p["result"] = r /\ p["text"] = t
      /\ h["result"] = Null /\ h["text"] = t /\ q["result"] = Null /\ q["text"] = Null
      /\ \A i \in DOMAIN p : i # "result" => h[i] = p[i]
      /\ \A i \in DOMAIN p : i # "text" => q[i] = h[i]
  BY <1>1 DEF Parts
<1>4. Once(h) /\ Held(h) = Held(p) \ {r}
  <2>1. Once(h) /\ Held(h) = (Held(p) \ {p["result"]}) \cup ({h["result"]} \ {Null})
    BY <1>2, <1>3, HeldReplaced
  <2>2. QED
    BY <1>3, <2>1
<1>5. Once(q) /\ Held(q) = Held(h) \ {t}
  <2>1. Once(q) /\ Held(q) = (Held(h) \ {h["text"]}) \cup ({q["text"]} \ {Null})
    BY <1>3, <1>4, HeldReplaced
  <2>2. QED
    BY <1>3, <2>1
<1>6. Once(<<r, t>>) /\ Held(<<r, t>>) = {r, t} \ {Null}
  <2>1. r = t => r = Null
    BY <1>2, <1>3 DEF Once
  <2>2. QED
    BY <2>1 DEF Once, Held
<1>7. {r, t} \ {Null} \subseteq Held(p) /\ Null \notin Held(p)
  BY <1>3 DEF Held
<1>8. PICK m2 : m2 = Dropped(m, <<r, t>>)
  OBVIOUS
<1>9. m2 \in Memory /\ ~m2.wild /\ m2.live = m.live \ ({r, t} \ {Null})
  <2>1. Held(<<r, t>>) \subseteq m.live
    BY <1>2, <1>6, <1>7
  <2>2. QED
    BY <1>2, <1>6, <1>8, <2>1, DroppedIs
<1>10. Held(q) = Held(p) \ {r, t} /\ m2.live = s.objects \cup Named(s) \cup Held(q)
  BY <1>2, <1>4, <1>5, <1>7, <1>9
<1>11. Owns(m2, s, Null, Null)
  BY <1>1, <1>2, <1>5, <1>9, <1>10 DEF Owns
<1>12. QED
  BY <1>8, <1>11

\* The initial state has nothing to account for.
LEMMA AccountsInit == Init => Accounts
<1> SUFFICES ASSUME Init PROVE Accounts
  OBVIOUS
<1>1. /\ mem = [live |-> {}, wild |-> FALSE, denied |-> FALSE] /\ ml = NoState
      /\ todo = <<>> /\ result = Null /\ text = Null /\ file = "none" /\ line = 0
      /\ caller \in Callers
  BY DEF Init, StateInit
<1>2. State(ml) /\ Owns(mem, ml, result, text)
  <2>1. mem \in Memory /\ ~mem.wild /\ mem.live = {Null} \ {Null}
    BY <1>1 DEF Memory
  <2>2. QED
    BY <1>1, <2>1, BlankOwns
<1>3. Plans
  BY <1>1, NothingAhead DEF Plans
<1>4. QED
  BY <1>1, <1>2, <1>3, NothingAhead DEF Accounts, Owning

\* The stages at which there is no interpreter state.
Before == {"arguments", "usage", "create", "exit"}

\* A step that leaves the interpreter alone.
LEMMA QuietAccounts ==
    ASSUME Accounts, UNCHANGED <<stateVars, caller, line, text, file>>,
           \/ stage' = stage
           \/ /\ stage \in {"ready", "prompt", "gets"}
              /\ stage' \in {"ready", "destroy", "prompt", "gets"}
           \/ stage \in Before /\ stage' \in Before
    PROVE  Accounts'
<1>1. Owning' /\ Plans'
  BY DEF Accounts, stateVars, Owning, Plans
<1>2. QED
  BY <1>1 DEF Accounts, stateVars, Before

\* An evaluation begins.
LEMMA EvaluateAccounts ==
    ASSUME Accounts, NEW forms \in Seq(Forms), NEW next \in {"source", "line", "call"},
           Evaluate(forms, next), result = Null, UNCHANGED <<caller, text, file>>, line' \in Nat,
           file = "none", text # Null => next = "source"
    PROVE  Accounts'
<1>1. /\ Listed(Program(forms)) /\ Anchored(Program(forms))
  BY ProgramIs
<1>2. Listed(todo') /\ Anchored(todo')
  BY <1>1, UnfoldedKeeps DEF Evaluate
<1>3. Plans'
  BY <1>2 DEF Plans, Evaluate
<1>4. Owning'
  BY DEF Accounts, Owning, Evaluate
<1>5. QED
  BY <1>3, <1>4 DEF Accounts, Evaluate

\* An operation of a creation or an evaluation.
LEMMA ComputeAccounts == Accounts /\ Compute => Accounts'
<1> SUFFICES ASSUME Accounts, Compute PROVE Accounts'
  OBVIOUS
<1>1. Operate /\ UNCHANGED <<caller, stage, line, text, file>> /\ todo # <<>>
  BY DEF Compute, processVars, Operate, InternKnown, GrowSymbols, CopyName, GrowMarks,
         AllocObject, GrowRoots, Protect, Restore, Rebind, GrowBindings, Bind, PrintResult,
         Refuse, Doing
<1>2. Owning' /\ Advances
  BY <1>1, OperateKeeps DEF Accounts, Plans
<1>3. /\ Plans'
      /\ Building(todo) => Building(todo')
      /\ result' # Null /\ result = Null => ~Building(todo)
  BY <1>2, PlansAdvance DEF Accounts
<1>4. stage \in {"creating", "source", "line", "call"}
  BY <1>1 DEF Accounts
<1>5. QED
  BY <1>1, <1>2, <1>3, <1>4 DEF Accounts

\* A call of display.
LEMMA ShowAccounts ==
    ASSUME Accounts, Show
    PROVE  /\ Accounts'
           /\ mem' = mem /\ ml'.toplevel = ml.toplevel
           /\ \/ Advances
              \/ /\ todo' = <<>> /\ status' = "IO" /\ result' = result
                 /\ \E w \in WritesFlushed(streams[output]) : ~w.ok
<1>1. Doing("show") /\ UNCHANGED <<caller, stage, line, text, file>>
  BY DEF Show
<1>2. PICK w \in WritesFlushed(streams[output]) :
        IF w.ok THEN Done /\ UNCHANGED <<mem, ml, made>> ELSE Fail("IO", mem)
  BY DEF Show, Output
<1>3. mem \in Memory /\ ~mem.wild /\ DOMAIN ml = Fields /\ todo # <<>>
  BY <1>1 DEF Accounts, Owning, Owns, State, Doing
<1>4. CASE w.ok
  <2>1. Done /\ UNCHANGED <<mem, ml, made>>
    BY <1>2, <1>4
  <2>2. Owning'
    BY <1>1, <2>1, OwnersStay DEF Accounts, Done
  <2>3. Advances
    BY <1>1, <2>1, DoneAdvances
  <2>4. /\ Plans'
        /\ Building(todo) => Building(todo')
        /\ result' = result
    BY <2>1, <2>3, PlansAdvance DEF Accounts, Done
  <2>5. Accounts'
    BY <1>1, <1>3, <2>2, <2>4 DEF Accounts
  <2>6. QED
    BY <2>1, <2>3, <2>5
<1>5. CASE ~w.ok
  <2>1. Fail("IO", mem)
    BY <1>2, <1>5
  <2>2. Owning' /\ ml' = [ml EXCEPT !.roots = <<>>] /\ result' = result
    BY <1>1, <1>3, <2>1, FailKeeps DEF Accounts
  <2>3. todo' = <<>> /\ status' = "IO" /\ mem' = mem
    BY <2>1 DEF Fail
  <2>4. ml'.toplevel = ml.toplevel
    BY <1>3, <2>2 DEF Fields
  <2>5. Plans' /\ Building(todo')
    BY <2>3, NothingAhead DEF Plans
  <2>6. Accounts'
    BY <1>1, <1>3, <2>2, <2>3, <2>5 DEF Accounts
  <2>7. QED
    BY <1>5, <2>2, <2>3, <2>4, <2>6
<1>6. QED
  BY <1>4, <1>5

\* The state is created.
LEMMA CreateAccounts == Accounts /\ CreateState => Accounts'
<1> SUFFICES ASSUME Accounts, CreateState PROVE Accounts'
  OBVIOUS
<1>1. /\ stage = "create" /\ Create(caller.table) /\ UNCHANGED <<caller, line, file, text>>
      /\ stage' = IF status' = "OK" THEN "creating" ELSE "exit"
  BY DEF CreateState
<1>2. ml = NoState /\ todo = <<>> /\ result = Null /\ text = Null /\ file = "none"
  BY <1>1 DEF Accounts
<1>3. mem \in Memory /\ ~mem.wild /\ mem.live = {}
  <2>1. mem \in Memory /\ ~mem.wild /\ mem.live = ml.objects \cup Named(ml) \cup Held(Parts(ml, Null, Null))
    BY <1>2 DEF Accounts, Owning, Owns
  <2>2. PICK p : p = Parts(ml, Null, Null)
    OBVIOUS
  <2>3. \A i \in DOMAIN p : p[i] = Null
    BY <1>2, <2>2 DEF Parts, NoState, Blank
  <2>4. Held(p) = {}
    BY <2>3 DEF Held
  <2>5. ml.objects = {} /\ Named(ml) = {}
    BY <1>2 DEF NoState, Blank, Named
  <2>6. QED
    BY <2>1, <2>2, <2>4, <2>5
<1>4. CASE /\ mem' \in Memory /\ ~mem'.wild /\ mem'.live = {}
           /\ status' # "OK" /\ UNCHANGED <<ml, made, todo, result>>
  <2>1. mem'.live = {Null} \ {Null}
    BY <1>4
  <2>2. Owns(mem', NoState, Null, Null) /\ State(NoState)
    BY <1>4, <2>1, BlankOwns
  <2>3. Owning'
    BY <1>1, <1>2, <1>4, <2>2 DEF Owning
  <2>4. Plans'
    BY <1>2, <1>4, NothingAhead DEF Plans
  <2>5. QED
    BY <1>1, <1>2, <1>4, <2>3, <2>4 DEF Accounts
<1>5. CASE caller.table = "partial"
  BY <1>1, <1>3, <1>4, <1>5 DEF Create, Refused
<1>6. CASE caller.table # "partial"
  <2>1. PICK g \in Got(mem) :
            IF g.block = Null THEN Refused("NOMEM", g.mem)
            ELSE IF caller.table = "misaligned" THEN Refused("INVALID_ARG", Dropped(g.mem, <<g.block>>))
            ELSE /\ mem' = g.mem
                 /\ ml' = Blank(g.block)
                 /\ todo' = Unfolded(CreationPlan)
                 /\ status' = "OK"
                 /\ UNCHANGED <<made, result>>
    BY <1>1, <1>6 DEF Create
  <2>2. /\ g.mem \in Memory /\ ~g.mem.wild
        /\ IF g.block = Null THEN g.mem.live = mem.live
           ELSE g.mem.live = mem.live \cup {g.block}
    BY <1>3, GotIs, NullIsNoBlock
  <2>3. CASE g.block = Null
    BY <1>3, <1>4, <2>1, <2>2, <2>3 DEF Refused
  <2>4. CASE g.block # Null /\ caller.table = "misaligned"
    <3>1. PICK m : m = Dropped(g.mem, <<g.block>>)
      OBVIOUS
    <3>2. m \in Memory /\ ~m.wild /\ m.live = g.mem.live \ ({g.block} \ {Null})
      BY <2>2, <2>4, <3>1, OneDropped
    <3>3. m.live = {}
      BY <1>3, <2>2, <2>4, <3>2
    <3>4. Refused("INVALID_ARG", m)
      BY <2>1, <2>4, <3>1
    <3>5. QED
      BY <1>4, <3>2, <3>3, <3>4 DEF Refused
  <2>5. CASE g.block # Null /\ caller.table # "misaligned"
    <3>1. /\ mem' = g.mem /\ ml' = Blank(g.block) /\ todo' = Unfolded(CreationPlan)
          /\ status' = "OK" /\ result' = result
      BY <2>1, <2>5
    <3>2. mem'.live = {g.block} \ {Null}
      BY <1>3, <2>2, <2>5, <3>1
    <3>3. State(ml') /\ Owns(mem', ml', Null, Null)
      <4>1. PICK b, m : b = g.block /\ m = g.mem
        OBVIOUS
      <4>2. m \in Memory /\ ~m.wild /\ m.live = {b} \ {Null}
        BY <2>2, <3>1, <3>2, <4>1
      <4>3. State(Blank(b)) /\ Owns(m, Blank(b), Null, Null)
        BY <4>2, BlankOwns
      <4>4. QED
        BY <3>1, <4>1, <4>3
    <3>4. Listed(todo') /\ Anchored(todo') /\ Building(todo')
      BY <3>1, PlanIs, UnfoldedKeeps
    <3>5. Owning' /\ Plans'
      BY <1>1, <1>2, <3>1, <3>3, <3>4 DEF Owning, Plans
    <3>6. stage' = "creating"
      BY <1>1, <3>1
    <3>7. QED
      BY <1>1, <1>2, <3>1, <3>4, <3>5, <3>6 DEF Accounts
  <2>6. QED
    BY <2>3, <2>4, <2>5
<1>7. QED
  BY <1>5, <1>6

\* The state is destroyed.
LEMMA DestroyAccounts ==
    ASSUME Accounts, todo = <<>>, result = Null, text = Null, file = "none",
           Destroy, UNCHANGED <<caller, line, file, text>>, stage' = "exit"
    PROVE  Accounts' /\ mem'.denied = mem.denied
<1>1. State(ml) /\ Owns(mem, ml, Null, Null)
  BY DEF Accounts, Owning
<1>2. /\ mem' \in Memory /\ ~mem'.wild /\ mem'.live = {} /\ mem'.denied = mem.denied
      /\ ml' = NoState /\ todo' = <<>> /\ result' = Null
  <2>1. PICK m : m = Destroyed(mem, ml)
    OBVIOUS
  <2>2. m \in Memory /\ ~m.wild /\ m.live = {} /\ m.denied = mem.denied
    BY <1>1, <2>1, DestroyedIs
  <2>3. QED
    BY <2>1, <2>2 DEF Destroy
<1>3. mem'.live = {Null} \ {Null}
  BY <1>2
<1>4. State(NoState) /\ Owns(mem', NoState, Null, Null)
  BY <1>2, <1>3, BlankOwns
<1>5. Owning'
  BY <1>2, <1>4 DEF Owning
<1>6. Plans'
  BY <1>2, NothingAhead DEF Plans
<1>7. QED
  BY <1>2, <1>5, <1>6 DEF Accounts

\* A script is read to a block of its own, or given back.
LEMMA SlurpAccounts == Accounts /\ Slurp => Accounts'
<1> SUFFICES ASSUME Accounts, Slurp PROVE Accounts'
  OBVIOUS
<1>1. /\ stage = "slurp" /\ file' = "none"
      /\ UNCHANGED <<ml, made, todo, status, result, caller, line>>
  BY DEF Slurp
<1>2. todo = <<>> /\ result = Null /\ text = Null /\ Owns(mem, ml, result, text) /\ State(ml)
  BY <1>1 DEF Accounts, Owning
<1>3. PICK g \in Got(mem) :
        \/ g.block # Null /\ mem' = g.mem /\ text' = g.block /\ stage' = "slurped"
        \/ g.block = Null /\ mem' = g.mem /\ text' = text /\ stage' = "destroy"
        \/ /\ g.block # Null /\ mem' = Dropped(g.mem, <<g.block>>)
           /\ text' = text /\ stage' = "destroy"
  BY DEF Slurp, Exits
<1>4. /\ g.mem \in Memory /\ ~g.mem.wild
      /\ IF g.block = Null THEN g.mem.live = mem.live
         ELSE g.block \notin mem.live /\ g.mem.live = mem.live \cup {g.block}
  <2>1. mem \in Memory /\ ~mem.wild
    BY <1>2 DEF Owns
  <2>2. QED
    BY <2>1, GotIs, NullIsNoBlock
<1>5. Plans'
  BY <1>1 DEF Accounts, Plans
<1>6. CASE g.block # Null /\ mem' = g.mem /\ text' = g.block /\ stage' = "slurped"
  <2>1. PICK b, m : b = g.block /\ m = g.mem
    OBVIOUS
  <2>2. /\ "text" \in DOMAIN Parts(ml, result, text)
        /\ Parts(ml, result, text)["text"] = Null
        /\ b = Parts(ml, result, b)["text"]
        /\ \A i \in DOMAIN Parts(ml, result, text) : i # "text" =>
             Parts(ml, result, b)[i] = Parts(ml, result, text)[i]
    BY <1>2 DEF Parts
  <2>3. m \in Memory /\ ~m.wild /\ b \notin mem.live /\ m.live = mem.live \cup {b} /\ b # Null
    BY <1>4, <1>6, <2>1
  <2>4. m.live = (mem.live \ ({Parts(ml, result, text)["text"]} \ {Null})) \cup ({b} \ {Null})
    BY <2>2, <2>3
  <2>5. Owns(m, ml, result, b)
    BY <1>2, <2>2, <2>3, <2>4, Replaced
  <2>6. Owning'
    BY <1>1, <1>2, <1>6, <2>1, <2>5 DEF Owning
  <2>7. QED
    BY <1>1, <1>2, <1>5, <1>6, <2>6 DEF Accounts
<1>7. CASE mem' \in Memory /\ ~mem'.wild /\ mem'.live = mem.live /\ text' = text /\ stage' = "destroy"
  <2>1. Owns(mem', ml, result, text)
    BY <1>2, <1>7, MemoryAlike
  <2>2. Owning'
    BY <1>1, <1>2, <1>7, <2>1 DEF Owning
  <2>3. QED
    BY <1>1, <1>2, <1>5, <1>7, <2>2 DEF Accounts
<1>8. CASE g.block = Null /\ mem' = g.mem /\ text' = text /\ stage' = "destroy"
  BY <1>4, <1>7, <1>8
<1>9. CASE /\ g.block # Null /\ mem' = Dropped(g.mem, <<g.block>>)
           /\ text' = text /\ stage' = "destroy"
  <2>1. PICK m : m = Dropped(g.mem, <<g.block>>)
    OBVIOUS
  <2>2. m \in Memory /\ ~m.wild /\ m.live = g.mem.live \ ({g.block} \ {Null})
    BY <1>4, <1>9, <2>1, OneDropped
  <2>3. m.live = mem.live
    BY <1>4, <1>9, <2>2
  <2>4. QED
    BY <1>7, <1>9, <2>1, <2>2, <2>3
<1>10. QED
  BY <1>3, <1>6, <1>8, <1>9

\* A source, a line or a call is over.
LEMMA OverAccounts ==
    ASSUME Accounts, todo = <<>>, UNCHANGED <<ml, todo, caller, line, file>>, file = "none",
           result' = Null, text' = Null, stage' \in {"prompt", "ready", "destroy"},
           \/ mem' = Dropped(mem, <<result, text>>)
           \/ mem' = Dropped(mem, <<result>>) /\ text = Null
    PROVE  Accounts'
<1>1. Owns(mem, ml, result, text) /\ State(ml)
  BY DEF Accounts, Owning
<1>2. Owns(mem', ml, Null, Null)
  <2>1. CASE mem' = Dropped(mem, <<result, text>>)
    BY <1>1, <2>1, BothReleased, Zenon
  <2>2. CASE mem' = Dropped(mem, <<result>>) /\ text = Null
    <3>1. /\ "result" \in DOMAIN Parts(ml, result, text)
          /\ result = Parts(ml, result, text)["result"]
          /\ Parts(ml, Null, Null)["result"] = Null
          /\ \A i \in DOMAIN Parts(ml, result, text) : i # "result" =>
               Parts(ml, Null, Null)[i] = Parts(ml, result, text)[i]
      BY <2>2 DEF Parts
    <3>2. Owns(Dropped(mem, <<result>>), ml, Null, Null)
      BY <1>1, <3>1, Released, Zenon
    <3>3. QED
      BY <2>2, <3>2
  <2>3. QED
    BY <2>1, <2>2
<1>3. Owning'
  BY <1>1, <1>2 DEF Owning
<1>4. Plans'
  BY NothingAhead DEF Accounts, Plans
<1>5. QED
  BY <1>3, <1>4 DEF Accounts

\* What a caller evaluates is a sequence of forms.
LEMMA SourceIs ==
    ASSUME caller \in Callers
    PROVE  Source \in Seq(Forms) /\ Len(Source) \in Nat
<1>1. Source \in Seq(Forms)
  BY CallersAssumption DEF Source, Forms
<1>2. QED
  BY <1>1, LenProperties

\* Every step keeps the accounts.
LEMMA AccountsNext == Accounts /\ [Next]_vars => Accounts'
<1> SUFFICES ASSUME Accounts, [Next]_vars PROVE Accounts'
  OBVIOUS
<1>1. CASE UNCHANGED vars
  BY <1>1, QuietAccounts DEF vars, processVars
<1>2. CASE \E f \in Streams : Breaks(f)
  BY <1>2, QuietAccounts DEF Breaks
<1>3. CASE Arguments
  <2>1. UNCHANGED <<stateVars, caller, line, text, file>> /\ stage \in Before /\ stage' \in Before
    <3>1. stage = "arguments"
      BY <1>3 DEF Arguments, Help, Expression, Unknown, Argument
    <3>2. ArgumentsFixed
      BY <1>3 DEF Arguments, Decide, Help, Expression, RejectArguments
    <3>3. stage' \in {"exit", "create", "usage", stage}
      BY <1>3 DEF Arguments, Decide, Help, Expression, RejectArguments
    <3>4. QED
      BY <3>1, <3>2, <3>3 DEF ArgumentsFixed, Before
  <2>2. QED
    BY <2>1, QuietAccounts
<1>4. CASE Usage
  BY <1>4, QuietAccounts DEF Usage, Output, Before
<1>5. CASE CreateState
  BY <1>5, CreateAccounts
<1>6. CASE Created
  <2>1. todo = <<>> /\ result = Null /\ text = Null /\ file = "none" /\ UNCHANGED <<caller, line, file, text>>
    BY <1>6 DEF Created, Accounts
  <2>2. CASE status = "OK"
    BY <1>6, <2>1, <2>2 DEF Created, Accounts, Owning, Plans, stateVars
  <2>3. CASE status # "OK"
    BY <1>6, <2>1, <2>3, DestroyAccounts DEF Created
  <2>4. QED
    BY <2>2, <2>3
<1>7. CASE Compute
  BY <1>7, ComputeAccounts
<1>8. CASE Show
  BY <1>8, ShowAccounts
<1>9. CASE RunExpression
  <2>1. Source \in Seq(Forms) /\ line' \in Nat
    BY <1>9, SourceIs DEF RunExpression, Accounts
  <2>2. result = Null /\ text = Null /\ file = "none" /\ Evaluate(Source, "source")
        /\ UNCHANGED <<caller, text, file>>
    BY <1>9 DEF RunExpression, Accounts
  <2>3. QED
    BY <2>1, <2>2, EvaluateAccounts
<1>10. CASE Open
  <2>1. UNCHANGED <<stateVars, caller, line, text>> /\ stage = "ready"
        /\ \/ stage' = "slurp"
           \/ stage' = "destroy" /\ file' = file
    BY <1>10 DEF Open, Exits
  <2>2. Owning' /\ Plans'
    BY <2>1 DEF Accounts, stateVars, Owning, Plans
  <2>3. QED
    BY <2>1, <2>2 DEF Accounts, stateVars
<1>11. CASE Slurp
  BY <1>11, SlurpAccounts
<1>12. CASE RunScript
  <2>1. Source \in Seq(Forms) /\ line' \in Nat
    BY <1>12, SourceIs DEF RunScript, Accounts
  <2>2. result = Null /\ file = "none" /\ Evaluate(Source, "source") /\ UNCHANGED <<caller, text, file>>
    BY <1>12 DEF RunScript, Accounts
  <2>3. QED
    BY <2>1, <2>2, EvaluateAccounts
<1>13. CASE SourceEvaluated
  <2>1. /\ todo = <<>> /\ file = "none" /\ UNCHANGED <<ml, todo, caller, line, file>>
        /\ result' = Null /\ text' = Null
        /\ mem' = Dropped(mem, <<result, text>>)
    BY <1>13 DEF SourceEvaluated, Accounts
  <2>2. stage' = "destroy"
    BY <1>13 DEF SourceEvaluated, Exits, Output
  <2>3. QED
    BY <2>1, <2>2, OverAccounts
<1>14. CASE DestroyState
  <2>1. /\ todo = <<>> /\ result = Null /\ text = Null /\ file = "none"
        /\ Destroy /\ UNCHANGED <<caller, line, file, text>> /\ stage' = "exit"
    BY <1>14 DEF DestroyState, Accounts
  <2>2. QED
    BY <2>1, DestroyAccounts
<1>15. CASE RunRepl
  BY <1>15, QuietAccounts DEF RunRepl, EnterRepl
<1>16. CASE Prompt
  <2>1. stage = "prompt" /\ UNCHANGED <<stateVars, caller, line, text, file>>
        /\ stage' \in {"gets", "ready", "destroy"}
    BY <1>16 DEF Prompt, Stay, LeaveRepl, Exits, Output
  <2>2. QED
    BY <2>1, QuietAccounts
<1>17. CASE EndOfInput
  <2>1. stage = "gets" /\ UNCHANGED <<stateVars, caller, line, text, file>>
        /\ stage' \in {"ready", "destroy"}
    BY <1>17 DEF EndOfInput, LeaveRepl, Exits, Output
  <2>2. QED
    BY <2>1, QuietAccounts
<1>18. CASE ReadLine
  <2>1. /\ result = Null /\ text = Null /\ file = "none" /\ UNCHANGED <<caller, text, file>>
        /\ line \in Nat /\ line < Len(Source) /\ line' = line + 1
        /\ Evaluate(<<Source[line + 1]>>, "line")
    BY <1>18 DEF ReadLine, Accounts
  <2>2. Source \in Seq(Forms) /\ Len(Source) \in Nat
    BY SourceIs DEF Accounts
  <2>3. line' \in Nat /\ line + 1 \in 1 .. Len(Source)
    BY <2>1, <2>2
  <2>4. Source[line + 1] \in Forms
    BY <2>2, <2>3, ElementOfSeq
  <2>5. <<Source[line + 1]>> \in Seq(Forms)
    BY <2>4
  <2>6. QED
    BY <2>1, <2>3, <2>5, EvaluateAccounts
<1>19. CASE LineEvaluated
  <2>1. /\ todo = <<>> /\ file = "none" /\ UNCHANGED <<ml, todo, caller, line, file>>
        /\ result' = Null /\ text' = Null /\ text = Null
        /\ mem' = Dropped(mem, <<result>>)
    BY <1>19 DEF LineEvaluated, Accounts
  <2>2. stage' \in {"prompt", "ready", "destroy"}
    BY <1>19 DEF LineEvaluated, Stay, LeaveRepl, Exits, Output
  <2>3. QED
    BY <2>1, <2>2, OverAccounts
<1>20. CASE EmbedderEvaluates
  <2>1. Source \in Seq(Forms) /\ line' \in Nat
    BY <1>20, SourceIs DEF EmbedderEvaluates, Accounts
  <2>2. result = Null /\ text = Null /\ file = "none" /\ Evaluate(Source, "call")
        /\ UNCHANGED <<caller, text, file>>
    BY <1>20 DEF EmbedderEvaluates, Accounts
  <2>3. QED
    BY <2>1, <2>2, EvaluateAccounts
<1>21. CASE EmbedderEvaluated
  <2>1. /\ todo = <<>> /\ file = "none" /\ UNCHANGED <<ml, todo, caller, line, file>>
        /\ result' = Null /\ text' = Null /\ text = Null
        /\ mem' = Dropped(mem, <<result>>) /\ stage' = "ready"
    BY <1>21 DEF EmbedderEvaluated, Accounts
  <2>2. QED
    BY <2>1, OverAccounts
<1>22. CASE EmbedderRepl
  BY <1>22, QuietAccounts DEF EmbedderRepl, EnterRepl
<1>23. CASE EmbedderEnds
  BY <1>23, QuietAccounts DEF EmbedderEnds
<1>24. CASE ExitFlush
  BY <1>24, QuietAccounts DEF ExitFlush
<1>25. CASE Ended
  BY <1>1, <1>25 DEF Ended
<1>26. QED
  BY <1>1, <1>2, <1>3, <1>4, <1>5, <1>6, <1>7, <1>8, <1>9, <1>10, <1>11, <1>12, <1>13, <1>14, <1>15,
     <1>16, <1>17, <1>18, <1>19, <1>20, <1>21, <1>22, <1>23, <1>24, <1>25 DEF Next

\* The accounts are kept, whoever calls, with whatever memory there is.
THEOREM AccountsKept == Spec => []Accounts
BY AccountsInit, AccountsNext, PTL DEF Spec

\* Accounts in order leave nothing behind.
LEMMA AccountsBalance == Accounts => NothingLost
<1> SUFFICES ASSUME Accounts PROVE NothingLost
  OBVIOUS
<1>1. PICK p, a : p = Parts(ml, result, text) /\ a = ml.arrays
  OBVIOUS
<1>2. /\ ~mem.wild /\ Null \notin mem.live
      /\ mem.live = ml.objects \cup Named(ml) \cup Held(p)
  BY <1>1, PartsInUse DEF Accounts, Owning, Owns
<1>3. ToSet(a) = {a[1], a[2]}
  <2>1. PICK x, y : x = a[1] /\ y = a[2]
    OBVIOUS
  <2>2. a = <<x, y>>
    BY <1>1, <2>1 DEF Accounts, Owning, State
  <2>3. QED
    BY <2>1, <2>2 DEF ToSet
<1>4. Held(p) = {ml.self, ml.entries, ml.protect, ml.marklist, a[1], a[2], result, text} \ {Null}
  BY <1>1 DEF Parts, Held
<1>5. mem.live = Owned \ {Null}
  BY <1>1, <1>2, <1>3, <1>4 DEF Owned, Named
<1>6. ASSUME stage = "exit" PROVE mem.live = {} /\ file = "none"
  <2>1. ml = NoState /\ result = Null /\ text = Null /\ file = "none"
    BY <1>6 DEF Accounts
  <2>2. ml.objects = {} /\ Named(ml) = {}
    BY <2>1 DEF NoState, Blank, Named
  <2>3. \A i \in DOMAIN p : p[i] = Null
    BY <1>1, <2>1 DEF Parts, NoState, Blank
  <2>4. Held(p) = {}
    BY <2>3 DEF Held
  <2>5. QED
    BY <1>2, <2>1, <2>2, <2>4
<1>7. QED
  BY <1>2, <1>5, <1>6 DEF NothingLost

\* Every block in use has one owner that will give it back, and at the end there
\* is none (state.c:169-211, env.c:33-41, main.c:78-103, 193-203).
THEOREM NothingIsLost == Spec => []NothingLost
BY AccountsKept, AccountsBalance, PTL

-----------------------------------------------------------------------------
(***************************************************************************)
(* The stream that display writes to.                                      *)
(***************************************************************************)
Reading == {"prompt", "gets", "line"}

\* There is a REPL while its lines are read; it has the stream of its caller.
Streaming ==
    /\ stage \in Reading <=> InRepl
    /\ InRepl => repl.out = IF Main THEN "stdout" ELSE "log"
    /\ stage \notin Before => output = IF InRepl THEN repl.out ELSE "stdout"

\* A step that neither enters nor leaves the REPL.
LEMMA StreamingStays ==
    ASSUME Streaming, UNCHANGED <<caller, repl, output>>,
           stage' \in Reading <=> stage \in Reading,
           stage \in Before => stage' \in Before
    PROVE  Streaming'
BY DEF Streaming, InRepl, Main

\* A step that enters it.
LEMMA StreamingEnters ==
    ASSUME Streaming, NEW out, EnterRepl(out), out = IF Main THEN "stdout" ELSE "log"
    PROVE  Streaming'
BY DEF Streaming, EnterRepl, InRepl, NoRepl, Main, Reading, Before

\* A step that leaves it.
LEMMA StreamingLeaves ==
    ASSUME Streaming, UNCHANGED caller, NEW ok, LeaveRepl(ok)
    PROVE  Streaming'
BY DEF Streaming, LeaveRepl, Exits, InRepl, NoRepl, Main, Reading, Before

\* Every step keeps the stream configured.
LEMMA StreamingNext == Streaming /\ [Next]_vars => Streaming'
<1> SUFFICES ASSUME Streaming, [Next]_vars PROVE Streaming'
  OBVIOUS
<1>1. CASE UNCHANGED <<caller, stage, repl, output>>
  BY <1>1, StreamingStays
<1>2. CASE UNCHANGED vars
  BY <1>1, <1>2 DEF vars, processVars
<1>3. CASE \E f \in Streams : Breaks(f)
  BY <1>1, <1>3 DEF Breaks
<1>4. CASE Arguments
  <2>1. stage = "arguments"
    BY <1>4 DEF Arguments, Help, Expression, Unknown, Argument
  <2>2. ArgumentsFixed
    BY <1>4 DEF Arguments, Decide, Help, Expression, RejectArguments
  <2>3. stage' \in {"exit", "create", "usage", stage}
    BY <1>4 DEF Arguments, Decide, Help, Expression, RejectArguments
  <2>4. QED
    BY <2>1, <2>2, <2>3, StreamingStays DEF ArgumentsFixed, Before, Reading
<1>5. CASE Usage
  BY <1>5, StreamingStays DEF Usage, Output, Before, Reading
<1>6. CASE CreateState
  <2>1. /\ stage = "create" /\ UNCHANGED <<caller, repl>>
        /\ \/ stage' = "creating" /\ output' = "stdout"
           \/ stage' = "exit" /\ output' = output
    BY <1>6 DEF CreateState
  <2>2. QED
    BY <2>1 DEF Streaming, InRepl, Main, Reading, Before
<1>7. CASE Created
  <2>1. stage = "creating" /\ stage' \in {"ready", "exit"} /\ UNCHANGED <<caller, repl, output>>
    BY <1>7 DEF Created
  <2>2. QED
    BY <2>1, StreamingStays DEF Before, Reading
<1>8. CASE Compute
  BY <1>1, <1>8 DEF Compute, processVars
<1>9. CASE Show
  BY <1>1, <1>9 DEF Show
<1>10. CASE RunExpression \/ Open \/ Slurp \/ RunScript \/ SourceEvaluated \/ DestroyState
  <2>1. stage \in {"ready", "slurp", "slurped", "source", "destroy"} /\ UNCHANGED <<caller, repl, output>>
    BY <1>10 DEF RunExpression, Open, Slurp, RunScript, SourceEvaluated, DestroyState
  <2>2. stage' \in {"source", "slurp", "slurped", "destroy", "exit"}
    BY <1>10 DEF RunExpression, Open, Slurp, RunScript, SourceEvaluated, DestroyState, Evaluate, Exits, Output
  <2>3. QED
    BY <2>1, <2>2, StreamingStays DEF Before, Reading
<1>11. CASE RunRepl
  BY <1>11, StreamingEnters DEF RunRepl
<1>12. CASE Prompt
  <2>1. stage = "prompt" /\ UNCHANGED caller /\ (Stay("gets") \/ LeaveRepl(FALSE))
    BY <1>12 DEF Prompt, Output
  <2>2. CASE Stay("gets")
    BY <2>1, <2>2, StreamingStays DEF Stay, Reading, Before
  <2>3. QED
    BY <2>1, <2>2, StreamingLeaves
<1>13. CASE EndOfInput
  <2>1. UNCHANGED caller /\ \E ok : LeaveRepl(ok)
    BY <1>13 DEF EndOfInput, Output
  <2>2. QED
    BY <2>1, StreamingLeaves
<1>14. CASE ReadLine
  <2>1. stage = "gets" /\ stage' = "line" /\ UNCHANGED <<caller, repl, output>>
    BY <1>14 DEF ReadLine, Evaluate
  <2>2. QED
    BY <2>1, StreamingStays DEF Before, Reading
<1>15. CASE LineEvaluated
  <2>1. stage = "line" /\ UNCHANGED caller /\ (Stay("prompt") \/ LeaveRepl(FALSE))
    BY <1>15 DEF LineEvaluated, Output
  <2>2. CASE Stay("prompt")
    BY <2>1, <2>2, StreamingStays DEF Stay, Reading, Before
  <2>3. QED
    BY <2>1, <2>2, StreamingLeaves
<1>16. CASE EmbedderEvaluates \/ EmbedderEvaluated \/ EmbedderEnds
  <2>1. stage \in {"ready", "call"} /\ UNCHANGED <<caller, repl, output>>
    BY <1>16 DEF EmbedderEvaluates, EmbedderEvaluated, EmbedderEnds
  <2>2. stage' \in {"call", "ready", "destroy"}
    BY <1>16 DEF EmbedderEvaluates, EmbedderEvaluated, EmbedderEnds, Evaluate
  <2>3. QED
    BY <2>1, <2>2, StreamingStays DEF Before, Reading
<1>17. CASE EmbedderRepl
  BY <1>17, StreamingEnters DEF EmbedderRepl
<1>18. CASE ExitFlush
  BY <1>1, <1>18 DEF ExitFlush
<1>19. CASE Ended
  BY <1>2, <1>19 DEF Ended
<1>20. QED
  BY <1>2, <1>3, <1>4, <1>5, <1>6, <1>7, <1>8, <1>9, <1>10, <1>11, <1>12, <1>13, <1>14, <1>15,
     <1>16, <1>17, <1>18, <1>19 DEF Next

\* The stream is the right one in every state.
LEMMA StreamingHolds == Spec => []Streaming
<1>1. Init => Streaming
  <2> SUFFICES ASSUME Init PROVE Streaming
    OBVIOUS
  <2>1. repl = NoRepl /\ stage \in {"arguments", "create"}
    BY DEF Init
  <2>2. QED
    BY <2>1 DEF Streaming, InRepl, Reading, Before
<1>2. QED
  BY <1>1, StreamingNext, PTL DEF Spec

\* display writes to the stream of the REPL while there is one, and to the one it
\* found on every way out of it (state.c:339-344, 393-395).
THEOREM OutputAlwaysFollows == Spec => []OutputFollows
<1>1. Accounts /\ Streaming => OutputFollows
  <2> SUFFICES ASSUME Accounts, Streaming PROVE OutputFollows
    OBVIOUS
  <2>1. stage \in Before => ml.self = Null
    BY DEF Accounts, Before, NoState, Blank
  <2>2. QED
    BY <2>1 DEF Streaming, OutputFollows
<1>2. QED
  BY <1>1, AccountsKept, StreamingHolds, PTL

-----------------------------------------------------------------------------
(***************************************************************************)
(* The exit code.                                                          *)
(***************************************************************************)
Stream == [held : BOOLEAN, broken : BOOLEAN, lost : BOOLEAN]

\* A write breaks nothing; it is refused only where the device is broken, loses
\* bytes only when it is refused, and leaves none behind when it flushes.
LEMMA WriteIs ==
    ASSUME NEW s \in Stream, NEW w \in Writes(s) \cup WritesFlushed(s)
    PROVE  /\ w.stream \in Stream /\ w.stream.broken = s.broken /\ w.ok \in BOOLEAN
           /\ w.ok => w.stream.lost = s.lost
           /\ ~w.ok => s.broken
           /\ w \in WritesFlushed(s) => ~w.stream.held
<1>1. ASSUME NEW v \in Writes(s)
      PROVE  /\ v.stream \in Stream /\ v.stream.broken = s.broken /\ v.ok \in BOOLEAN
             /\ v.ok => v.stream.lost = s.lost
             /\ ~v.ok => s.broken /\ ~v.stream.held
  <2>1. CASE v = [ok |-> TRUE, stream |-> [s EXCEPT !.held = TRUE]]
    BY <2>1 DEF Stream
  <2>2. CASE s.broken /\ v = [ok |-> FALSE, stream |-> [s EXCEPT !.held = FALSE, !.lost = TRUE]]
    BY <2>2 DEF Stream
  <2>3. QED
    BY <2>1, <2>2 DEF Writes
<1>2. ASSUME NEW t \in Stream
      PROVE  /\ Flushed(t).stream \in Stream /\ Flushed(t).stream.broken = t.broken
             /\ Flushed(t).ok \in BOOLEAN
             /\ Flushed(t).ok => Flushed(t).stream.lost = t.lost
             /\ ~Flushed(t).ok => t.broken
             /\ ~Flushed(t).stream.held
  BY DEF Flushed, Stream
<1>3. ASSUME NEW v \in WritesFlushed(s)
      PROVE  /\ v.stream \in Stream /\ v.stream.broken = s.broken /\ v.ok \in BOOLEAN
             /\ v.ok => v.stream.lost = s.lost
             /\ ~v.ok => s.broken
             /\ ~v.stream.held
  <2>1. PICK x \in Writes(s) : v = IF x.ok THEN Flushed(x.stream) ELSE x
    BY DEF WritesFlushed
  <2>2. PICK t : t = x.stream
    OBVIOUS
  <2>3. /\ t \in Stream /\ t.broken = s.broken /\ x.ok \in BOOLEAN
        /\ x.ok => t.lost = s.lost
        /\ ~x.ok => s.broken /\ ~t.held
    BY <1>1, <2>2
  <2>4. CASE x.ok
    <3>1. v = Flushed(t)
      BY <2>1, <2>2, <2>4
    <3>2. QED
      BY <1>2, <2>3, <2>4, <3>1
  <2>5. CASE ~x.ok
    BY <2>1, <2>2, <2>3, <2>5
  <2>6. QED
    BY <2>4, <2>5
<1>4. QED
  BY <1>1, <1>3

\* Before the argument main looks at there are expressions and nothing else.
ExpressionsBefore ==
    \E k \in 0 .. Len(Args) :
        /\ argument = 2 * k + 1 /\ argument <= Len(Args) + 1
        /\ \A j \in 0 .. k - 1 : 2 * j + 2 <= Len(Args) /\ Args[2 * j + 1] = "-e"

\* Whether the i-th argument makes the command line wrong, with expressions
\* before it.
WrongAt(i) ==
    /\ i <= Len(Args)
    /\ CASE Args[i] = "-e" -> i = Len(Args)
         [] Args[i] = "-x" -> TRUE
         [] Args[i] = "-h" -> FALSE
         [] Args[i] = "--" -> i + 1 < Len(Args)
         [] OTHER -> i < Len(Args)

\* The first argument that is not an expression tells whether the command line
\* is wrong.
LEMMA UsageIs ==
    ASSUME Len(Args) \in Nat, ExpressionsBefore,
           argument > Len(Args) \/ Args[argument] # "-e" \/ argument = Len(Args)
    PROVE  WrongUsage <=> WrongAt(argument)
<1>1. PICK n \in Nat : n = Len(Args)
  OBVIOUS
<1>2. PICK k \in 0 .. n :
        /\ argument = 2 * k + 1 /\ argument <= n + 1
        /\ \A j \in 0 .. k - 1 : 2 * j + 2 <= n /\ Args[2 * j + 1] = "-e"
  BY <1>1 DEF ExpressionsBefore
<1> DEFINE Behind(i) ==
             LET a == Args[2 * i + 1]
                 behind == n - 2 * i - 1
             IN  CASE a = "-e" -> behind = 0
                   [] a = "-x" -> TRUE
                   [] a = "-h" -> FALSE
                   [] a = "--" -> behind > 1
                   [] OTHER -> behind > 0
           Only(i) == \A j \in 0 .. i - 1 : 2 * j + 2 <= n /\ Args[2 * j + 1] = "-e"
<1>3. WrongUsage <=> \E i \in 0 .. n : Only(i) /\ 2 * i < n /\ Behind(i)
  BY <1>1 DEF WrongUsage
<1>4. WrongAt(argument) <=> 2 * k < n /\ Behind(k)
  <2>1. WrongAt(argument) <=>
          /\ 2 * k + 1 <= n
          /\ CASE Args[2 * k + 1] = "-e" -> 2 * k + 1 = n
               [] Args[2 * k + 1] = "-x" -> TRUE
               [] Args[2 * k + 1] = "-h" -> FALSE
               [] Args[2 * k + 1] = "--" -> 2 * k + 1 + 1 < n
               [] OTHER -> 2 * k + 1 < n
    BY <1>1, <1>2 DEF WrongAt
  <2>2. PICK a : a = Args[2 * k + 1]
    OBVIOUS
  <2>3. QED
    BY <2>1, <2>2
<1>5. ASSUME NEW i \in 0 .. n, Only(i), 2 * i < n, Behind(i) PROVE i = k
  <2>1. CASE i < k
    <3>1. 2 * i + 2 <= n /\ Args[2 * i + 1] = "-e"
      BY <1>2, <2>1
    <3>2. n - 2 * i - 1 = 0
      BY <1>5, <3>1
    <3>3. QED
      BY <3>1, <3>2
  <2>2. CASE k < i
    <3>1. k \in 0 .. i - 1
      BY <1>2, <2>2
    <3>2. \A j \in 0 .. i - 1 : 2 * j + 2 <= n /\ Args[2 * j + 1] = "-e"
      BY <1>5
    <3>3. 2 * k + 2 <= n /\ Args[2 * k + 1] = "-e"
      BY <3>1, <3>2
    <3>4. QED
      BY <1>1, <1>2, <3>3
  <2>3. QED
    BY <2>1, <2>2
<1>6. Only(k)
  BY <1>2
<1>7. QED
  BY <1>3, <1>4, <1>5, <1>6

\* What main runs without a REPL, and whether a form of the source is wrong.
Runs == {"expr", "script", "stdin"}
WrongSource == \E i \in 1 .. Len(Source) : Source[i] = "wrong"

\* The status of a source that is evaluated, and what is still ahead of it.
Explained ==
    /\ \/ status = "OK"
       \/ status = "NOMEM" /\ mem.denied
       \/ status = "UNBOUND" /\ WrongSource
       \/ status = "IO" /\ streams["stdout"].broken
    /\ status # "OK" => todo = <<>>
    /\ Wrong(todo) => WrongSource
    /\ WrongSource /\ status = "OK" => Wrong(todo)

\* What an exit code may say.
Justified(c) ==
    /\ c = 0 /\ mode \in Runs => ~WrongSource
    /\ c = 1 => mem.denied \/ (WrongSource /\ mode \in Runs)
    /\ c = 2 => unread \/ streams["stdout"].broken \/ (mode \in {"script", "stdin"} /\ mem.denied)

\* The command line was right; the exit code is decided at the end, and what is
\* lost or not read before decides it.
Settled == {"usage", "destroy", "exit"}
Proper ==
    /\ ~WrongUsage
    /\ mode \in {"usage", "repl"} \cup Runs
    /\ mode = "usage" => stage \in {"usage", "exit"} /\ code = 0
    /\ stage = "usage" => mode = "usage"
    /\ IF stage \in Settled THEN code \in {0, 1, 2} /\ Justified(code) ELSE code = -1
    /\ stage \notin {"arguments", "call"}
    /\ stage \in Reading => mode = "repl"
    /\ stage \in {"slurp", "slurped"} => mode \in {"script", "stdin"}
    /\ stage = "source" => mode \in Runs /\ Explained
    /\ stage = "creating" => status = "OK" \/ mem.denied
    /\ mode \in Runs =>
         /\ ~streams["stdout"].held
         /\ streams["stdout"].lost => code = 2 \/ (stage = "source" /\ status = "IO")
         /\ unread => code = 2

\* Of main's process.
Cause ==
    /\ streams \in [Streams -> Stream]
    /\ Main => \/ /\ stage = "arguments" /\ ExpressionsBefore /\ code = -1 /\ mode \in {"none", "expr"}
                  /\ streams["stdout"] = Intact /\ ~unread
               \/ WrongUsage /\ stage = "exit" /\ code = 2
               \/ Proper

\* What no step changes, and what a step may add.
LEMMA CallerStays ==
    ASSUME caller' = caller
    PROVE  Main' = Main /\ WrongUsage' = WrongUsage /\ WrongSource' = WrongSource /\ Args' = Args
BY DEF Main, WrongUsage, WrongSource, Args, Source

\* A code stays justified while memory, streams and input only get worse.
LEMMA StaysJustified ==
    ASSUME caller' = caller, mode' = mode, NEW c, Justified(c),
           mem.denied => mem'.denied, unread => unread',
           streams["stdout"].broken => streams'["stdout"].broken
    PROVE  Justified(c)'
<1>1. WrongSource' = WrongSource
  BY CallerStays
<1>2. QED
  BY <1>1 DEF Justified

\* main looks at its arguments.
LEMMA ArgumentsCause ==
    ASSUME Accounts, Cause, Arguments
    PROVE  Cause'
<1>1. stage = "arguments" /\ UNCHANGED <<caller, streams, unread, status>>
  <2>1. stage = "arguments"
    BY DEF Arguments, Help, Expression, Unknown, Argument
  <2>2. ArgumentsFixed
    BY DEF Arguments, Decide, Help, Expression, RejectArguments
  <2>3. QED
    BY <2>1, <2>2 DEF ArgumentsFixed, stateVars
<1>2. CASE ~Main
  BY <1>1, <1>2 DEF Cause, Main
<1>3. CASE Main
  <2>1. /\ ExpressionsBefore /\ code = -1 /\ mode \in {"none", "expr"}
        /\ streams["stdout"] = Intact /\ ~unread
    BY <1>1, <1>3 DEF Cause, Proper
  <2>2. Len(Args) \in Nat
    BY <1>3, CallersAssumption, LenProperties DEF Accounts, Main, Args
  <2>3. Main' /\ WrongUsage' = WrongUsage /\ Args' = Args
    BY <1>1, <1>3, CallerStays
  <2>4. argument \in Nat
    BY <2>1, <2>2 DEF ExpressionsBefore
  <2>5. ASSUME RejectArguments, WrongUsage PROVE Cause'
    BY <1>1, <2>3, <2>5 DEF Cause, RejectArguments
  <2>6. ASSUME stage' = "create", mode' \in {"repl"} \cup Runs, code' = code, ~WrongUsage PROVE Cause'
    <3>1. Proper'
      BY <1>1, <2>1, <2>3, <2>6 DEF Proper, Runs, Settled, Reading, Intact
    <3>2. QED
      BY <1>1, <3>1 DEF Cause
  <2>7. ASSUME NEW i, NEW run \in {"repl", "script", "stdin"}, Decide(i, run),
               WrongUsage <=> i < Len(Args)
        PROVE  Cause'
    <3>1. CASE i < Len(Args)
      BY <2>5, <2>7, <3>1 DEF Decide
    <3>2. CASE ~(i < Len(Args))
      BY <2>1, <2>6, <2>7, <3>2 DEF Decide, Runs
    <3>3. QED
      BY <3>1, <3>2
  <2>8. CASE argument > Len(Args) /\ Decide(argument, "repl")
    <3>1. WrongUsage <=> WrongAt(argument)
      BY <2>1, <2>2, <2>8, UsageIs
    <3>2. WrongUsage <=> argument < Len(Args)
      BY <2>2, <2>4, <2>8, <3>1 DEF WrongAt
    <3>3. QED
      BY <2>7, <2>8, <3>2
  <2>9. CASE Argument("--") /\ Decide(argument + 1, "repl")
    <3>1. WrongUsage <=> WrongAt(argument)
      BY <2>1, <2>2, <2>9, UsageIs DEF Argument
    <3>2. WrongUsage <=> argument + 1 < Len(Args)
      BY <2>2, <2>4, <2>9, <3>1 DEF WrongAt, Argument
    <3>3. QED
      BY <2>7, <2>9, <3>2
  <2>10. CASE Help
    <3>1. WrongUsage <=> WrongAt(argument)
      BY <2>1, <2>2, <2>10, UsageIs DEF Help, Argument
    <3>2. ~WrongUsage
      BY <2>10, <3>1 DEF WrongAt, Help, Argument
    <3>3. stage' = "usage" /\ mode' = "usage" /\ code' = 0
      BY <2>10 DEF Help
    <3>4. Proper'
      BY <2>3, <3>2, <3>3 DEF Proper, Runs, Settled, Reading, Justified
    <3>5. QED
      BY <1>1, <3>4 DEF Cause
  <2>11. CASE Expression
    <3>1. /\ Args[argument] = "-e" /\ argument < Len(Args) /\ argument' = argument + 2
          /\ stage' = stage /\ mode' = "expr" /\ code' = code
      BY <2>11 DEF Expression, Argument
    <3>2. ExpressionsBefore'
      <4>1. PICK k \in 0 .. Len(Args) :
              /\ argument = 2 * k + 1 /\ argument <= Len(Args) + 1
              /\ \A j \in 0 .. k - 1 : 2 * j + 2 <= Len(Args) /\ Args[2 * j + 1] = "-e"
        BY <2>1 DEF ExpressionsBefore
      <4>2. k + 1 \in 0 .. Len(Args) /\ argument' = 2 * (k + 1) + 1 /\ argument' <= Len(Args) + 1
        BY <2>2, <3>1, <4>1
      <4>3. \A j \in 0 .. (k + 1) - 1 : 2 * j + 2 <= Len(Args) /\ Args[2 * j + 1] = "-e"
        <5>1. SUFFICES ASSUME NEW j \in 0 .. (k + 1) - 1
                       PROVE  2 * j + 2 <= Len(Args) /\ Args[2 * j + 1] = "-e"
          OBVIOUS
        <5>2. j = k \/ j \in 0 .. k - 1
          BY <2>2
        <5>3. QED
          BY <2>2, <3>1, <4>1, <5>2
      <4>4. QED
        BY <2>3, <4>2, <4>3 DEF ExpressionsBefore
    <3>3. QED
      BY <1>1, <2>1, <3>1, <3>2 DEF Cause
  <2>12. CASE Unknown /\ RejectArguments
    <3>1. WrongUsage <=> WrongAt(argument)
      BY <2>1, <2>2, <2>12, UsageIs DEF Unknown, Argument
    <3>2. WrongUsage
      BY <2>2, <2>4, <2>12, <3>1 DEF WrongAt, Unknown, Argument
    <3>3. QED
      BY <2>5, <2>12, <3>2
  <2>13. CASE Argument("-") /\ Decide(argument, "stdin")
    <3>1. WrongUsage <=> WrongAt(argument)
      BY <2>1, <2>2, <2>13, UsageIs DEF Argument
    <3>2. WrongUsage <=> argument < Len(Args)
      BY <2>2, <2>4, <2>13, <3>1 DEF WrongAt, Argument
    <3>3. QED
      BY <2>7, <2>13, <3>2
  <2>14. ASSUME NEW path \in ToSet(Args) \ {"--", "-h", "-e", "-x", "-"},
                Argument(path), Decide(argument, "script")
         PROVE  Cause'
    <3>1. WrongUsage <=> WrongAt(argument)
      BY <2>1, <2>2, <2>14, UsageIs DEF Argument
    <3>2. WrongUsage <=> argument < Len(Args)
      BY <2>2, <2>4, <2>14, <3>1 DEF WrongAt, Argument
    <3>3. QED
      BY <2>7, <2>14, <3>2
  <2>15. QED
    BY <1>1, <2>8, <2>9, <2>10, <2>11, <2>12, <2>13, <2>14 DEF Arguments
<1>4. QED
  BY <1>2, <1>3

\* One write to a stream.
LEMMA Written ==
    ASSUME streams \in [Streams -> Stream], NEW f \in Streams,
           NEW w \in Writes(streams[f]) \cup WritesFlushed(streams[f]),
           streams' = [streams EXCEPT ![f] = w.stream]
    PROVE  /\ streams' \in [Streams -> Stream]
           /\ streams'["stdout"].broken = streams["stdout"].broken
           /\ ~w.ok => streams[f].broken
           /\ w.ok => streams'[f].lost = streams[f].lost
           /\ w \in WritesFlushed(streams[f]) => ~streams'[f].held
<1>1. PICK s : s = streams[f]
  OBVIOUS
<1>2. s \in Stream /\ "stdout" \in Streams
  BY <1>1 DEF Streams
<1>3. /\ w.stream \in Stream /\ w.stream.broken = s.broken
      /\ w.ok => w.stream.lost = s.lost
      /\ ~w.ok => s.broken
      /\ w \in WritesFlushed(s) => ~w.stream.held
  BY <1>1, <1>2, WriteIs
<1>4. streams'[f] = w.stream /\ \A g \in Streams : g # f => streams'[g] = streams[g]
  OBVIOUS
<1>5. streams' \in [Streams -> Stream]
  BY <1>3
<1>6. streams'["stdout"].broken = streams["stdout"].broken
  BY <1>1, <1>2, <1>3, <1>4
<1>7. QED
  BY <1>1, <1>3, <1>4, <1>5, <1>6

\* A stage between the arguments and the exit is that of a right command line.
LEMMA ProperThen ==
    ASSUME Cause, Main, stage \notin {"arguments", "exit"}
    PROVE  Proper
BY DEF Cause

\* A proper step.
LEMMA CauseProper ==
    ASSUME streams' \in [Streams -> Stream], caller' = caller, Main => Proper'
    PROVE  Cause'
BY CallerStays DEF Cause

\* A step at a stage of its own that leaves the streams alone, decides nothing
\* and breaks nothing.
LEMMA CauseMoves ==
    ASSUME Cause, UNCHANGED <<caller, mode, streams, unread, code>>, mem.denied => mem'.denied,
           stage \notin {"arguments", "exit"} \cup Settled,
           stage' \notin {"arguments", "call"} \cup Settled \/ ~Main,
           Main => /\ stage' \in Reading => mode = "repl"
                   /\ stage' \in {"slurp", "slurped"} => mode \in {"script", "stdin"}
                   /\ stage' = "source" => mode \in Runs /\ Explained'
                   /\ stage' = "creating" => status' = "OK" \/ mem'.denied
                   /\ stage = "source" /\ status = "IO" => stage' = "source" /\ status' = "IO"
    PROVE  Cause'
<1>1. ASSUME Main PROVE Proper'
  <2>1. Proper /\ code = -1
    BY <1>1, ProperThen DEF Proper
  <2>2. WrongUsage' = WrongUsage
    BY CallerStays
  <2>3. QED
    BY <1>1, <2>1, <2>2 DEF Proper, Settled, Runs
<1>2. QED
  BY <1>1, CauseProper DEF Cause

\* The end of a stage decides the exit code.
LEMMA CauseSettles ==
    ASSUME Accounts, Cause, UNCHANGED <<caller, mode>>,
           streams' \in [Streams -> Stream],
           stage \notin {"arguments", "exit", "usage"}, stage' \in {"destroy", "exit"},
           Main => /\ \E c \in {0, 1, 2} : code' = c /\ Justified(c)'
                   /\ mode \in Runs => /\ ~streams'["stdout"].held
                                       /\ streams'["stdout"].lost => code' = 2
                                       /\ unread' => code' = 2
    PROVE  Cause'
<1>1. ASSUME Main PROVE Proper'
  <2>1. Proper
    BY <1>1, ProperThen
  <2>2. WrongUsage' = WrongUsage
    BY CallerStays
  <2>3. mode # "usage"
    BY <2>1 DEF Proper
  <2>4. PICK c \in {0, 1, 2} : code' = c /\ Justified(c)'
    BY <1>1
  <2>5. Justified(code)'
    BY <2>4 DEF Justified
  <2>6. QED
    BY <1>1, <2>1, <2>2, <2>3, <2>4, <2>5 DEF Proper, Settled, Runs, Reading
<1>2. QED
  BY <1>1, CauseProper

\* The device breaks.
LEMMA BreaksCause ==
    ASSUME Cause, NEW f \in Streams, Breaks(f)
    PROVE  Cause'
<1>1. /\ UNCHANGED <<stateVars, caller, stage, mode, unread, code>>
      /\ streams' = [streams EXCEPT ![f].broken = TRUE]
      /\ stage \notin {"arguments", "exit"}
  BY DEF Breaks
<1>2. /\ streams' \in [Streams -> Stream]
      /\ streams'["stdout"].held = streams["stdout"].held
      /\ streams'["stdout"].lost = streams["stdout"].lost
      /\ streams["stdout"].broken => streams'["stdout"].broken
  <2>1. streams \in [Streams -> Stream] /\ "stdout" \in Streams
    BY DEF Cause, Streams
  <2>2. PICK s : s = streams[f]
    OBVIOUS
  <2>3. s \in Stream /\ streams' = [streams EXCEPT ![f] = [s EXCEPT !.broken = TRUE]]
    BY <1>1, <2>1, <2>2
  <2>4. PICK t : t = [s EXCEPT !.broken = TRUE]
    OBVIOUS
  <2>5. t \in Stream /\ t.held = s.held /\ t.lost = s.lost /\ t.broken
    BY <2>3, <2>4 DEF Stream
  <2>6. streams' = [streams EXCEPT ![f] = t]
    BY <2>3, <2>4
  <2>7. QED
    BY <2>1, <2>2, <2>5, <2>6
<1>3. ASSUME Main PROVE Proper'
  <2>1. Proper
    BY <1>1, <1>3, ProperThen
  <2>2. WrongUsage' = WrongUsage /\ WrongSource' = WrongSource
    BY <1>1, CallerStays
  <2>3. Justified(code) => Justified(code)'
    BY <1>1, <1>2, <2>2 DEF Justified, stateVars
  <2>4. Explained => Explained'
    BY <1>1, <1>2, <2>2 DEF Explained, stateVars
  <2>5. QED
    BY <1>1, <1>2, <2>1, <2>2, <2>3, <2>4 DEF Proper, stateVars
<1>4. QED
  BY <1>1, <1>2, <1>3, CauseProper

\* The state is created, or not.
LEMMA CreateCause ==
    ASSUME Accounts, Cause, CreateState
    PROVE  Cause'
<1>1. /\ stage = "create" /\ Create(caller.table) /\ UNCHANGED <<caller, mode, streams, unread>>
      /\ stage' = IF status' = "OK" THEN "creating" ELSE "exit"
      /\ code' = IF status' = "OK" \/ ~Main THEN code ELSE 1
  BY DEF CreateState
<1>2. mem \in Memory
  BY DEF Accounts, Owning, Owns
<1>3. CASE ~Main
  BY <1>1, <1>3, CauseProper DEF Cause
<1>4. CASE Main
  <2>1. caller.table = "whole"
    BY <1>4, CallersAssumption DEF Accounts, Main
  <2>2. PICK g \in Got(mem) :
          IF g.block = Null THEN status' = "NOMEM" /\ mem' = g.mem
          ELSE mem' = g.mem /\ status' = "OK"
    BY <1>1, <2>1 DEF Create, Refused
  <2>3. /\ mem.denied => mem'.denied
        /\ status' = "OK" \/ mem'.denied
    BY <1>2, <2>2, Answered
  <2>4. Proper /\ code = -1
    BY <1>1, <1>4, ProperThen DEF Proper, Settled
  <2>5. CASE status' = "OK"
    BY <1>1, <2>3, <2>5, CauseMoves DEF Settled, Reading
  <2>6. CASE status' # "OK"
    <3>1. code' = 1 /\ stage' = "exit" /\ mem'.denied
      BY <1>1, <1>4, <2>3, <2>6
    <3>2. Justified(1)'
      BY <3>1 DEF Justified
    <3>3. mode \in Runs => /\ ~streams'["stdout"].held
                           /\ streams'["stdout"].lost => code' = 2
                           /\ unread' => code' = 2
      BY <1>1, <2>4 DEF Proper
    <3>4. streams' \in [Streams -> Stream]
      BY <1>1 DEF Cause
    <3>5. QED
      BY <1>1, <3>1, <3>2, <3>3, <3>4, CauseSettles
  <2>7. QED
    BY <2>5, <2>6
<1>5. QED
  BY <1>3, <1>4

\* Creation is over.
LEMMA CreatedCause ==
    ASSUME Accounts, Cause, Created
    PROVE  Cause'
<1>1. stage = "creating" /\ todo = <<>> /\ UNCHANGED <<caller, mode, streams, unread, file, text, line>>
  BY DEF Created
<1>2. CASE status = "OK"
  <2>1. stage' = "ready" /\ UNCHANGED <<stateVars, code>>
    BY <1>2 DEF Created
  <2>2. QED
    BY <1>1, <2>1, CauseMoves DEF Settled, Reading, stateVars
<1>3. CASE status # "OK"
  <2>1. stage' = "exit" /\ Destroy /\ code' = (IF Main THEN 1 ELSE code)
    BY <1>3 DEF Created
  <2>2. mem'.denied = mem.denied
    <3>1. result = Null /\ text = Null /\ file = "none"
      BY <1>1 DEF Accounts
    <3>2. QED
      BY <1>1, <2>1, <3>1, DestroyAccounts
  <2>3. ASSUME Main
        PROVE  /\ code' = 1 /\ Justified(1)'
               /\ mode \in Runs => /\ ~streams'["stdout"].held
                                   /\ streams'["stdout"].lost => code' = 2
                                   /\ unread' => code' = 2
    <3>1. Proper
      BY <1>1, <2>3, ProperThen
    <3>2. mem.denied /\ code = -1
      BY <1>1, <1>3, <3>1 DEF Proper, Settled
    <3>3. QED
      BY <1>1, <2>1, <2>2, <2>3, <3>1, <3>2 DEF Proper, Justified
  <2>4. streams' \in [Streams -> Stream]
    BY <1>1 DEF Cause
  <2>5. QED
    BY <1>1, <2>1, <2>3, <2>4, CauseSettles
<1>4. QED
  BY <1>2, <1>3

\* An operation, or a call of display, at a stage that has operations ahead.
LEMMA WorkCause ==
    ASSUME Accounts, Cause, Streaming, Compute \/ Show
    PROVE  Cause'
<1>1. UNCHANGED <<caller, stage, mode, unread, code>>
  BY DEF Compute, processVars, Show
<1>2. todo # <<>>
  BY DEF Compute, Operate, InternKnown, GrowSymbols, CopyName, GrowMarks,
         AllocObject, GrowRoots, Protect, Restore, Rebind, GrowBindings, Bind, PrintResult,
         Refuse, Doing, Show
<1>3. stage \in {"creating", "source", "line", "call"} /\ mem \in Memory
  BY <1>2 DEF Accounts, Owning, Owns
<1>4. /\ streams' \in [Streams -> Stream]
      /\ streams'["stdout"].broken = streams["stdout"].broken
      /\ mem.denied => mem'.denied
      /\ Advances \/ (status' = "IO" /\ todo' = <<>>)
      /\ stage = "creating" => Advances
      /\ Main /\ stage = "source" =>
           \/ streams'["stdout"] = streams["stdout"]
           \/ /\ ~streams'["stdout"].held
              /\ \/ streams'["stdout"].lost = streams["stdout"].lost
                 \/ status' = "IO" /\ streams["stdout"].broken
      /\ Main /\ stage = "source" /\ ~Advances => streams["stdout"].broken
  <2>1. CASE Compute
    <3>1. Operate /\ UNCHANGED <<text, streams>>
      BY <2>1 DEF Compute, processVars
    <3>2. Advances /\ (mem.denied => mem'.denied)
      BY <3>1, OperateKeeps DEF Accounts, Plans
    <3>3. QED
      BY <3>1, <3>2 DEF Cause
  <2>2. CASE Show
    <3>1. /\ mem' = mem
          /\ Advances \/ (todo' = <<>> /\ status' = "IO")
      BY <2>2, ShowAccounts
    <3>2. PICK w \in WritesFlushed(streams[output]) :
            /\ streams' = [streams EXCEPT ![output] = w.stream]
            /\ IF w.ok THEN Done ELSE Fail("IO", mem)
      BY <2>2 DEF Show, Output
    <3>3. output \in Streams /\ (Main /\ stage = "source" => output = "stdout")
      <4>1. stage \notin Before /\ (stage = "source" => ~(stage \in Reading))
        BY <1>3 DEF Before, Reading
      <4>2. QED
        BY <4>1 DEF Streaming, Streams
    <3>4. /\ streams' \in [Streams -> Stream]
          /\ streams'["stdout"].broken = streams["stdout"].broken
          /\ ~w.ok => streams[output].broken
          /\ w.ok => streams'[output].lost = streams[output].lost
          /\ ~streams'[output].held
      BY <3>2, <3>3, Written DEF Cause
    <3>5. w.ok => Advances
      <4>1. Doing("show") /\ ml'.toplevel = ml.toplevel
        BY <2>2, ShowAccounts DEF Show
      <4>2. QED
        BY <3>2, <4>1, DoneAdvances
    <3>6. ~w.ok => status' = "IO"
      BY <3>2 DEF Fail
    <3>7. stage = "creating" => Advances
      <4>1. SUFFICES ASSUME stage = "creating" PROVE FALSE
        OBVIOUS
      <4>2. Building(todo) /\ Head(todo).op = "show"
        BY <2>2, <4>1 DEF Accounts, Show, Doing
      <4>3. Len(todo) \in Nat \ {0} /\ Head(todo) = todo[1]
        BY <1>2, HeadTail DEF Accounts, Plans, Listed
      <4>4. 1 \in 1 .. Len(todo)
        BY <4>3
      <4>5. QED
        BY <4>2, <4>3, <4>4 DEF Building
    <3>8. w.ok \in BOOLEAN
      <4>1. streams[output] \in Stream
        BY <3>3 DEF Cause
      <4>2. QED
        BY <4>1, WriteIs
    <3>9. QED
      BY <3>1, <3>3, <3>4, <3>5, <3>6, <3>7, <3>8
  <2>3. QED
    BY <2>1, <2>2
<1>5. Advances =>
        /\ Building(todo) => Building(todo')
        /\ Wrong(todo') => Wrong(todo)
        /\ Wrong(todo) /\ status' = "OK" => status = "OK" /\ Wrong(todo')
        /\ \/ status' = status
           \/ status' = "NOMEM" /\ mem'.denied
           \/ status' = "UNBOUND" /\ Wrong(todo)
        /\ status = "OK" /\ status' # "OK" => todo' = <<>>
  <2>1. Advances /\ status = "OK" /\ status' # "OK" => todo' = <<>>
    BY DEF Advances
  <2>2. QED
    BY <2>1, PlansAdvance DEF Accounts
<1>6. ASSUME Main PROVE Proper'
  <2>1. Proper /\ code = -1
    BY <1>3, <1>6, ProperThen DEF Proper, Settled
  <2>2. WrongUsage' = WrongUsage /\ WrongSource' = WrongSource
    BY <1>1, CallerStays
  <2>3. CASE stage = "creating"
    <3>1. Advances /\ Building(todo)
      BY <1>4, <2>3 DEF Accounts
    <3>2. ~Wrong(todo)
      BY <3>1 DEF Building, Wrong, Errs
    <3>3. status' = "OK" \/ mem'.denied
      BY <1>4, <1>5, <2>1, <2>3, <3>1, <3>2 DEF Proper
    <3>4. mode \in Runs => streams'["stdout"] = streams["stdout"]
      <4>1. CASE Compute
        BY <4>1 DEF Compute, processVars
      <4>2. CASE Show
        <5>1. Head(todo).op = "show" /\ Len(todo) \in Nat \ {0} /\ Head(todo) = todo[1]
          BY <1>2, <4>2, HeadTail DEF Accounts, Plans, Listed, Show, Doing
        <5>2. 1 \in 1 .. Len(todo)
          BY <5>1
        <5>3. QED
          BY <3>1, <5>1, <5>2 DEF Building
      <4>3. QED
        BY <4>1, <4>2
    <3>5. QED
      BY <1>1, <2>1, <2>2, <2>3, <3>3, <3>4 DEF Proper, Settled, Runs, Reading
  <2>4. CASE stage = "source"
    <3>1. mode \in Runs /\ Explained /\ status = "OK" /\ ~streams["stdout"].held /\ ~streams["stdout"].lost
      BY <1>2, <2>1, <2>4 DEF Proper, Explained
    <3>2. Explained'
      <4>1. CASE Advances
        BY <1>4, <1>5, <2>2, <3>1, <4>1 DEF Explained
      <4>2. CASE ~Advances
        <5>1. status' = "IO" /\ todo' = <<>> /\ streams'["stdout"].broken
          BY <1>4, <1>6, <2>4, <4>2
        <5>2. ~Wrong(todo')
          BY <5>1, NothingAhead
        <5>3. QED
          BY <2>2, <5>1, <5>2 DEF Explained
      <4>3. QED
        BY <4>1, <4>2
    <3>3. ~streams'["stdout"].held /\ (streams'["stdout"].lost => status' = "IO")
      BY <1>4, <1>6, <2>4, <3>1
    <3>4. QED
      BY <1>1, <2>1, <2>2, <2>4, <3>1, <3>2, <3>3 DEF Proper, Settled, Runs, Reading
  <2>5. CASE stage = "line"
    BY <1>1, <2>1, <2>2, <2>5 DEF Proper, Settled, Runs, Reading
  <2>6. QED
    BY <1>3, <2>1, <2>3, <2>4, <2>5 DEF Proper
<1>7. QED
  BY <1>1, <1>4, <1>6, CauseProper

\* A source is evaluated.
LEMMA EvaluateCause ==
    ASSUME Accounts, Cause, stage \in {"ready", "slurped"}, Evaluate(Source, "source"),
           Main => mode \in Runs, UNCHANGED <<caller, mode, streams, unread, code>>
    PROVE  Cause'
<1>1. Wrong(Program(Source)) <=> WrongSource
  BY SourceIs, ProgramIs DEF Accounts, WrongSource
<1>2. Wrong(todo') <=> WrongSource
  <2>1. Listed(Program(Source))
    BY SourceIs, ProgramIs DEF Accounts
  <2>2. QED
    BY <1>1, <2>1, UnfoldedKeeps DEF Evaluate
<1>3. Explained'
  BY <1>2, CallerStays DEF Explained, Evaluate
<1>4. stage' = "source" /\ mem' = mem
  BY DEF Evaluate
<1>5. ~Main => stage \notin Settled
  BY DEF Settled
<1>6. QED
  BY <1>3, <1>4, CauseMoves DEF Settled, Reading

\* A script is opened, or cannot be.
LEMMA OpenCause ==
    ASSUME Accounts, Cause, Open
    PROVE  Cause'
<1>1. /\ stage = "ready" /\ mode \in {"script", "stdin"} /\ UNCHANGED <<stateVars, caller, mode, streams>>
      /\ \/ stage' = "slurp" /\ UNCHANGED <<code, unread>>
         \/ code' = 2 /\ stage' = "destroy" /\ unread'
  BY DEF Open, Exits
<1>2. CASE stage' = "slurp" /\ UNCHANGED <<code, unread>>
  BY <1>1, <1>2, CauseMoves DEF Settled, Reading, stateVars
<1>3. CASE code' = 2 /\ stage' = "destroy" /\ unread'
  <2>1. Justified(2)'
    BY <1>3 DEF Justified
  <2>2. streams' \in [Streams -> Stream]
    BY <1>1 DEF Cause
  <2>3. ASSUME Main PROVE ~streams'["stdout"].held \/ mode \notin Runs
    BY <1>1, <2>3, ProperThen DEF Proper
  <2>4. QED
    BY <1>1, <1>3, <2>1, <2>2, <2>3, CauseSettles
<1>4. QED
  BY <1>1, <1>2, <1>3

\* It is read, or cannot be.
LEMMA SlurpCause ==
    ASSUME Accounts, Cause, Slurp
    PROVE  Cause'
<1>1. stage = "slurp" /\ UNCHANGED <<caller, mode, streams>> /\ mem \in Memory
  BY DEF Slurp, Accounts, Owning, Owns
<1>2. PICK g \in Got(mem) :
        \/ mem' = g.mem /\ stage' = "slurped" /\ UNCHANGED <<code, unread>>
        \/ g.block = Null /\ mem' = g.mem /\ code' = 2 /\ stage' = "destroy" /\ unread' = unread
        \/ mem' = Dropped(g.mem, <<g.block>>) /\ unread' = TRUE /\ code' = 2 /\ stage' = "destroy"
  BY DEF Slurp, Exits
<1>3. g.mem \in Memory /\ (mem.denied => g.mem.denied) /\ (g.block = Null => g.mem.denied)
  BY <1>1, Answered
<1>4. Main => Proper
  BY <1>1, ProperThen
<1>5. Main => mode \in {"script", "stdin"}
  BY <1>1, <1>4 DEF Proper
<1>6. CASE mem' = g.mem /\ stage' = "slurped" /\ UNCHANGED <<code, unread>>
  BY <1>1, <1>3, <1>5, <1>6, CauseMoves DEF Settled, Reading
<1>7. CASE code' = 2 /\ stage' = "destroy" /\ (unread' \/ mem'.denied)
  <2>1. Main => Justified(2)'
    BY <1>1, <1>5, <1>7 DEF Justified
  <2>2. streams' \in [Streams -> Stream]
    BY <1>1 DEF Cause
  <2>3. Main /\ mode \in Runs => ~streams'["stdout"].held
    BY <1>1, <1>4 DEF Proper
  <2>4. QED
    BY <1>1, <1>7, <2>1, <2>2, <2>3, CauseSettles
<1>8. QED
  BY <1>2, <1>3, <1>6, <1>7

\* A source is over.
LEMMA SourceCause ==
    ASSUME Accounts, Cause, SourceEvaluated
    PROVE  Cause'
<1>1. /\ stage = "source" /\ todo = <<>> /\ stage' = "destroy"
      /\ UNCHANGED <<caller, mode, unread>> /\ mem' = Dropped(mem, <<result, text>>)
      /\ \/ status # "OK" /\ code' = ExitCodeFor(status) /\ streams' = streams
         \/ status = "OK" /\ code' = 0 /\ streams' = streams
         \/ /\ status = "OK"
            /\ \E w \in WritesFlushed(streams["stdout"]) :
                 /\ streams' = [streams EXCEPT !["stdout"] = w.stream]
                 /\ code' = IF w.ok THEN 0 ELSE 2
  BY DEF SourceEvaluated, Exits, Output
<1>2. mem'.denied = mem.denied
  BY <1>1, DeniedStays DEF Accounts, Owning, Owns
<1>3. streams \in [Streams -> Stream] /\ "stdout" \in Streams
  BY DEF Cause, Streams
<1>4. /\ streams' \in [Streams -> Stream]
      /\ streams'["stdout"].broken = streams["stdout"].broken
      /\ \/ streams' = streams /\ (status = "OK" => code' = 0)
         \/ ~streams'["stdout"].held /\ code' = 0 /\ streams'["stdout"].lost = streams["stdout"].lost
         \/ ~streams'["stdout"].held /\ code' = 2 /\ streams["stdout"].broken
  <2>1. CASE streams' = streams /\ (status = "OK" => code' = 0)
    BY <1>3, <2>1
  <2>2. ASSUME NEW w \in WritesFlushed(streams["stdout"]),
               streams' = [streams EXCEPT !["stdout"] = w.stream],
               code' = IF w.ok THEN 0 ELSE 2
        PROVE  /\ streams' \in [Streams -> Stream]
               /\ streams'["stdout"].broken = streams["stdout"].broken
               /\ ~streams'["stdout"].held
               /\ \/ code' = 0 /\ streams'["stdout"].lost = streams["stdout"].lost
                  \/ code' = 2 /\ streams["stdout"].broken
    <3>1. /\ streams' \in [Streams -> Stream]
          /\ streams'["stdout"].broken = streams["stdout"].broken
          /\ ~w.ok => streams["stdout"].broken
          /\ w.ok => streams'["stdout"].lost = streams["stdout"].lost
          /\ ~streams'["stdout"].held
      BY <1>3, <2>2, Written
    <3>2. QED
      BY <2>2, <3>1
  <2>3. QED
    BY <1>1, <2>1, <2>2
<1>5. ASSUME Main
      PROVE  /\ \E c \in {0, 1, 2} : code' = c /\ Justified(c)'
             /\ mode \in Runs => /\ ~streams'["stdout"].held
                                 /\ streams'["stdout"].lost => code' = 2
                                 /\ unread' => code' = 2
  <2>1. Proper /\ code = -1 /\ mode \in Runs /\ Explained
    BY <1>1, <1>5, ProperThen DEF Proper, Settled
  <2>2. /\ ~streams["stdout"].held /\ ~unread
        /\ streams["stdout"].lost => status = "IO"
    BY <2>1 DEF Proper
  <2>3. WrongSource' = WrongSource /\ mode' = mode
    BY <1>1, CallerStays
  <2>4. CASE status # "OK"
    <3>1. \/ status = "NOMEM" /\ mem.denied
          \/ status = "UNBOUND" /\ WrongSource
          \/ status = "IO" /\ streams["stdout"].broken
      BY <2>1, <2>4 DEF Explained
    <3>2. code' = IF status = "IO" THEN 2 ELSE 1
      BY <1>1, <2>4 DEF ExitCodeFor
    <3>3. streams' = streams
      BY <1>1, <2>4
    <3>4. QED
      BY <1>1, <1>2, <2>1, <2>2, <2>3, <3>1, <3>2, <3>3 DEF Justified
  <2>5. CASE status = "OK"
    <3>1. ~WrongSource
      BY <1>1, <2>1, <2>5, NothingAhead DEF Explained
    <3>2. \/ code' = 0 /\ ~streams'["stdout"].lost
          \/ code' = 2 /\ streams'["stdout"].broken
      BY <1>1, <1>4, <2>2, <2>5
    <3>3. ~streams'["stdout"].held
      BY <1>4, <2>2
    <3>4. QED
      BY <1>1, <2>2, <2>3, <3>1, <3>2, <3>3 DEF Justified
  <2>6. QED
    BY <2>4, <2>5
<1>6. QED
  BY <1>1, <1>4, <1>5, CauseSettles

\* The REPL of main is over, or goes on.
LEMMA LeaveCause ==
    ASSUME Accounts, Cause, stage \in Reading, UNCHANGED <<caller, mode>>,
           mem.denied => mem'.denied, NEW ok \in BOOLEAN, LeaveRepl(ok),
           streams' \in [Streams -> Stream],
           Main /\ ~ok => streams'["stdout"].broken
    PROVE  Cause'
<1>1. CASE ~Main
  BY <1>1, CauseProper
<1>2. CASE Main
  <2>1. stage' = "destroy" /\ code' = IF ok THEN 0 ELSE 2
    BY <1>2 DEF LeaveRepl, Exits
  <2>2. mode = "repl"
    BY <1>2, ProperThen DEF Proper, Reading
  <2>3. mode \notin Runs
    BY <2>2 DEF Runs
  <2>4. Justified(0)' /\ (~ok => Justified(2)')
    BY <1>2, <2>3 DEF Justified
  <2>5. \E c \in {0, 1, 2} : code' = c /\ Justified(c)'
    BY <2>1, <2>4
  <2>6. stage \notin {"arguments", "exit", "usage"}
    BY DEF Reading
  <2>7. QED
    BY <2>1, <2>3, <2>5, <2>6, CauseSettles
<1>3. QED
  BY <1>1, <1>2

\* A step of the REPL that goes on.
LEMMA ReadingCause ==
    ASSUME Cause, stage \in Reading, stage' \in Reading, UNCHANGED <<caller, mode, unread, code>>,
           streams' \in [Streams -> Stream]
    PROVE  Cause'
<1>1. ASSUME Main PROVE Proper'
  <2>1. Proper /\ mode = "repl"
    BY <1>1, ProperThen DEF Proper, Reading
  <2>2. WrongUsage' = WrongUsage
    BY CallerStays
  <2>3. QED
    BY <2>1, <2>2 DEF Proper, Settled, Reading, Runs
<1>2. QED
  BY <1>1, CauseProper

\* The prompt, the end of the input and a line that was evaluated.
LEMMA ReplCause ==
    ASSUME Accounts, Cause, Streaming, Prompt \/ EndOfInput \/ LineEvaluated
    PROVE  Cause'
<1>1. stage \in Reading /\ UNCHANGED <<caller, mode>>
  BY DEF Prompt, EndOfInput, LineEvaluated, Reading
<1>2. repl.out \in Streams /\ (Main => repl.out = "stdout")
  BY <1>1 DEF Streaming, Streams
<1>3. mem.denied => mem'.denied
  <2>1. mem \in Memory
    BY DEF Accounts, Owning, Owns
  <2>2. PICK held : mem' = mem \/ mem' = Dropped(mem, held)
    BY DEF Prompt, EndOfInput, LineEvaluated, stateVars
  <2>3. QED
    BY <2>1, <2>2, DeniedStays
<1>4. PICK ok \in BOOLEAN :
        /\ streams' \in [Streams -> Stream]
        /\ Main /\ ~ok => streams'["stdout"].broken
        /\ \/ LeaveRepl(ok)
           \/ stage' \in Reading /\ UNCHANGED <<unread, code>>
  <2>1. CASE /\ streams' = streams
             /\ LeaveRepl(TRUE) \/ (stage' \in Reading /\ UNCHANGED <<unread, code>>)
    BY <2>1 DEF Cause
  <2>2. ASSUME NEW w \in Writes(streams[repl.out]) \cup WritesFlushed(streams[repl.out]),
               streams' = [streams EXCEPT ![repl.out] = w.stream],
               LeaveRepl(w.ok) \/ (stage' \in Reading /\ UNCHANGED <<unread, code>>)
        PROVE  /\ w.ok \in BOOLEAN /\ streams' \in [Streams -> Stream]
               /\ Main /\ ~w.ok => streams'["stdout"].broken
               /\ \/ LeaveRepl(w.ok)
                  \/ stage' \in Reading /\ UNCHANGED <<unread, code>>
    <3>1. /\ streams' \in [Streams -> Stream]
          /\ streams'["stdout"].broken = streams["stdout"].broken
          /\ ~w.ok => streams[repl.out].broken
      BY <1>2, <2>2, Written DEF Cause
    <3>2. w.ok \in BOOLEAN
      <4>1. streams[repl.out] \in Stream
        BY <1>2 DEF Cause
      <4>2. QED
        BY <2>2, <4>1, WriteIs
    <3>3. QED
      BY <1>2, <2>2, <3>1, <3>2
  <2>3. CASE Prompt
    <3>1. ASSUME NEW w \in WritesFlushed(streams[repl.out]),
                 streams' = [streams EXCEPT ![repl.out] = w.stream],
                 IF w.ok THEN Stay("gets") ELSE LeaveRepl(FALSE)
          PROVE  LeaveRepl(w.ok) \/ (stage' \in Reading /\ UNCHANGED <<unread, code>>)
      <4>1. CASE w.ok
        BY <2>3, <3>1, <4>1 DEF Prompt, Stay, Reading
      <4>2. CASE ~w.ok
        <5>1. w.ok = FALSE
          <6>1. w.ok \in BOOLEAN
            BY <1>2, WriteIs DEF Cause
          <6>2. QED
            BY <4>2, <6>1
        <5>2. LeaveRepl(FALSE)
          BY <3>1, <4>2
        <5>3. QED
          BY <5>1, <5>2
      <4>3. QED
        BY <4>1, <4>2
    <3>2. CASE repl.prompts
      <4>1. PICK w \in WritesFlushed(streams[repl.out]) :
              /\ streams' = [streams EXCEPT ![repl.out] = w.stream]
              /\ IF w.ok THEN Stay("gets") ELSE LeaveRepl(FALSE)
        BY <2>3, <3>2 DEF Prompt, Output
      <4>2. QED
        BY <2>2, <3>1, <4>1
    <3>3. CASE ~repl.prompts
      BY <2>1, <2>3, <3>3 DEF Prompt, Stay, Reading
    <3>4. QED
      BY <3>2, <3>3
  <2>4. CASE EndOfInput
    <3>1. CASE repl.prompts
      <4>1. PICK w \in Writes(streams[repl.out]) :
              streams' = [streams EXCEPT ![repl.out] = w.stream] /\ LeaveRepl(w.ok)
        BY <2>4, <3>1 DEF EndOfInput, Output
      <4>2. QED
        BY <2>2, <4>1
    <3>2. CASE ~repl.prompts
      BY <2>1, <2>4, <3>2 DEF EndOfInput
    <3>3. QED
      BY <3>1, <3>2
  <2>5. CASE LineEvaluated
    <3>1. CASE status = "OK" /\ result = Null
      BY <2>1, <2>5, <3>1 DEF LineEvaluated, Stay, Reading
    <3>2. CASE ~(status = "OK" /\ result = Null)
      <4>1. PICK w \in Writes(streams[repl.out]) :
              /\ streams' = [streams EXCEPT ![repl.out] = w.stream]
              /\ IF w.ok THEN Stay("prompt") ELSE LeaveRepl(FALSE)
        BY <2>5, <3>2 DEF LineEvaluated, Output
      <4>2. LeaveRepl(w.ok) \/ (stage' \in Reading /\ UNCHANGED <<unread, code>>)
        <5>1. CASE w.ok
          BY <2>5, <4>1, <5>1 DEF LineEvaluated, Stay, Reading
        <5>2. CASE ~w.ok
          <6>1. w.ok = FALSE
            <7>1. w.ok \in BOOLEAN
              BY <1>2, WriteIs DEF Cause
            <7>2. QED
              BY <5>2, <7>1
          <6>2. LeaveRepl(FALSE)
            BY <4>1, <5>2
          <6>3. QED
            BY <6>1, <6>2
        <5>3. QED
          BY <5>1, <5>2
      <4>3. QED
        BY <2>2, <4>1, <4>2
    <3>3. QED
      BY <3>1, <3>2
  <2>6. QED
    BY <2>3, <2>4, <2>5
<1>5. QED
  BY <1>1, <1>3, <1>4, LeaveCause, ReadingCause

\* At exit the C library writes what is still buffered.
LEMMA FlushCause ==
    ASSUME Cause, ExitFlush
    PROVE  Cause'
<1>1. /\ stage = "exit" /\ UNCHANGED <<stateVars, caller, stage, mode, unread, code>>
      /\ streams' = [f \in Streams |-> Flushed(streams[f]).stream]
  BY DEF ExitFlush
<1>2. ASSUME NEW f \in Streams
      PROVE  /\ Flushed(streams[f]).stream \in Stream
             /\ Flushed(streams[f]).stream.broken = streams[f].broken
             /\ ~Flushed(streams[f]).stream.held
             /\ ~streams[f].held => Flushed(streams[f]).stream.lost = streams[f].lost
  <2>1. PICK s \in Stream : s = streams[f]
    BY DEF Cause
  <2>2. /\ Flushed(s).stream \in Stream /\ Flushed(s).stream.broken = s.broken
        /\ ~Flushed(s).stream.held
        /\ ~s.held => Flushed(s).stream.lost = s.lost
    <3>1. CASE s.broken /\ s.held
      <4>1. Flushed(s).stream = [s EXCEPT !.held = FALSE, !.lost = TRUE]
        BY <3>1 DEF Flushed
      <4>2. QED
        BY <3>1, <4>1 DEF Stream
    <3>2. CASE ~(s.broken /\ s.held)
      <4>1. Flushed(s).stream = [s EXCEPT !.held = FALSE]
        BY <3>2 DEF Flushed
      <4>2. QED
        BY <4>1 DEF Stream
    <3>3. QED
      BY <3>1, <3>2
  <2>3. QED
    BY <2>1, <2>2
<1>3. /\ streams' \in [Streams -> Stream]
      /\ streams'["stdout"].broken = streams["stdout"].broken
      /\ ~streams'["stdout"].held
      /\ ~streams["stdout"].held => streams'["stdout"].lost = streams["stdout"].lost
  <2>1. "stdout" \in Streams
    BY DEF Streams
  <2>2. streams'["stdout"] = Flushed(streams["stdout"]).stream
    BY <1>1, <2>1
  <2>3. QED
    BY <1>1, <1>2, <2>1, <2>2
<1>4. WrongUsage' = WrongUsage /\ Main' = Main /\ WrongSource' = WrongSource
  BY <1>1, CallerStays
<1>5. ASSUME Proper PROVE Proper'
  <2>1. Justified(code)'
    BY <1>1, <1>3, <1>4, <1>5 DEF Proper, Settled, Justified, stateVars
  <2>2. QED
    BY <1>1, <1>3, <1>4, <1>5, <2>1 DEF Proper, Settled, Runs, Reading
<1>6. QED
  BY <1>1, <1>3, <1>4, <1>5 DEF Cause

\* Every step of the process keeps the cause of its end.
LEMMA CauseNext == Accounts /\ Streaming /\ Cause /\ [Next]_vars => Cause'
<1> SUFFICES ASSUME Accounts, Streaming, Cause, [Next]_vars PROVE Cause'
  OBVIOUS
<1>1. CASE UNCHANGED vars
  BY <1>1 DEF vars, stateVars, processVars, Cause, ExpressionsBefore, Proper, Justified, Explained,
              WrongUsage, WrongSource, Main, Args, Source
<1>2. CASE \E f \in Streams : Breaks(f)
  BY <1>2, BreaksCause
<1>3. CASE Arguments
  BY <1>3, ArgumentsCause
<1>4. CASE Usage
  <2>1. /\ stage = "usage" /\ stage' = "exit" /\ UNCHANGED <<caller, mode, code, unread>>
        /\ \E w \in Writes(streams["stdout"]) : streams' = [streams EXCEPT !["stdout"] = w.stream]
    BY <1>4 DEF Usage, Output
  <2>2. streams' \in [Streams -> Stream]
    BY <2>1, Written DEF Cause, Streams
  <2>3. ASSUME Main PROVE Proper'
    <3>1. Proper /\ mode = "usage" /\ code = 0
      BY <2>1, <2>3, ProperThen DEF Proper
    <3>2. WrongUsage' = WrongUsage
      BY <2>1, CallerStays
    <3>3. Justified(code)'
      BY <2>1, <3>1 DEF Justified, Runs
    <3>4. QED
      BY <2>1, <3>1, <3>2, <3>3 DEF Proper, Settled, Reading, Runs
  <2>4. QED
    BY <2>1, <2>2, <2>3, CauseProper
<1>5. CASE CreateState
  BY <1>5, CreateCause
<1>6. CASE Created
  BY <1>6, CreatedCause
<1>7. CASE Compute \/ Show
  BY <1>7, WorkCause
<1>8. CASE RunExpression
  BY <1>8, EvaluateCause DEF RunExpression, Runs
<1>9. CASE Open
  BY <1>9, OpenCause
<1>10. CASE Slurp
  BY <1>10, SlurpCause
<1>11. CASE RunScript
  <2>1. Main => mode \in Runs
    BY <1>11, ProperThen DEF RunScript, Proper, Runs
  <2>2. QED
    BY <1>11, <2>1, EvaluateCause DEF RunScript
<1>12. CASE SourceEvaluated
  BY <1>12, SourceCause
<1>13. CASE DestroyState
  <2>1. /\ stage = "destroy" /\ stage' = "exit" /\ Destroy
        /\ UNCHANGED <<caller, mode, line, streams, unread, file, text, code>>
    BY <1>13 DEF DestroyState
  <2>2. mem'.denied = mem.denied
    <3>1. todo = <<>> /\ result = Null /\ text = Null /\ file = "none"
      BY <2>1 DEF Accounts
    <3>2. QED
      BY <2>1, <3>1, DestroyAccounts
  <2>3. ASSUME Main
        PROVE  /\ \E c \in {0, 1, 2} : code' = c /\ Justified(c)'
               /\ mode \in Runs => /\ ~streams'["stdout"].held
                                   /\ streams'["stdout"].lost => code' = 2
                                   /\ unread' => code' = 2
    <3>1. Proper
      BY <2>1, <2>3, ProperThen
    <3>2. PICK c \in {0, 1, 2} : code = c /\ Justified(c)
      BY <2>1, <3>1 DEF Proper, Settled
    <3>3. Justified(c)'
      BY <2>1, <2>2, <3>2, StaysJustified
    <3>4. QED
      BY <2>1, <3>1, <3>2, <3>3 DEF Proper
  <2>4. streams' \in [Streams -> Stream]
    BY <2>1 DEF Cause
  <2>5. QED
    BY <2>1, <2>3, <2>4, CauseSettles
<1>14. CASE RunRepl
  <2>1. /\ stage = "ready" /\ stage' = "prompt" /\ mode = "repl"
        /\ UNCHANGED <<stateVars, caller, mode, streams, unread, code>>
    BY <1>14 DEF RunRepl, EnterRepl
  <2>2. QED
    BY <2>1, CauseMoves DEF Settled, Reading, stateVars
<1>15. CASE Prompt \/ EndOfInput \/ LineEvaluated
  BY <1>15, ReplCause
<1>16. CASE ReadLine
  <2>1. /\ stage = "gets" /\ stage' = "line" /\ UNCHANGED <<caller, mode, streams, unread, code>>
    BY <1>16 DEF ReadLine, Evaluate
  <2>2. QED
    BY <2>1, ReadingCause DEF Reading, Cause
<1>17. CASE EmbedderEvaluates \/ EmbedderRepl \/ EmbedderEnds
  <2>1. ~Main /\ UNCHANGED <<caller, streams>>
    BY <1>17 DEF EmbedderEvaluates, EmbedderRepl, EnterRepl, EmbedderEnds
  <2>2. QED
    BY <2>1, CauseProper DEF Cause
<1>18. CASE EmbedderEvaluated
  <2>1. stage = "call" /\ UNCHANGED <<caller, streams>>
    BY <1>18 DEF EmbedderEvaluated
  <2>2. ~Main
    BY <2>1, ProperThen DEF Proper
  <2>3. QED
    BY <2>1, <2>2, CauseProper DEF Cause
<1>19. CASE ExitFlush
  BY <1>19, FlushCause
<1>20. CASE Ended
  BY <1>1, <1>20 DEF Ended
<1>21. QED
  BY <1>1, <1>2, <1>3, <1>4, <1>5, <1>6, <1>7, <1>8, <1>9, <1>10, <1>11, <1>12, <1>13, <1>14, <1>15,
     <1>16, <1>17, <1>18, <1>19, <1>20 DEF Next

\* At first nothing is decided.
LEMMA CauseInit == Init => Cause
<1> SUFFICES ASSUME Init PROVE Cause
  OBVIOUS
<1>1. /\ caller \in Callers /\ argument = 1 /\ mode = "none" /\ unread = FALSE /\ code = -1
      /\ streams = [f \in Streams |-> Intact]
      /\ Main => stage = "arguments"
  BY DEF Init, Main
<1>2. streams \in [Streams -> Stream] /\ streams["stdout"] = Intact
  BY <1>1 DEF Intact, Stream, Streams
<1>3. ASSUME Main PROVE ExpressionsBefore
  <2>1. Len(Args) \in Nat
    BY <1>1, <1>3, CallersAssumption, LenProperties DEF Main, Args
  <2>2. 0 \in 0 .. Len(Args) /\ argument = 2 * 0 + 1 /\ argument <= Len(Args) + 1
    BY <1>1, <2>1
  <2>3. \A j \in 0 .. 0 - 1 : 2 * j + 2 <= Len(Args) /\ Args[2 * j + 1] = "-e"
    OBVIOUS
  <2>4. QED
    BY <2>2, <2>3 DEF ExpressionsBefore
<1>4. QED
  BY <1>1, <1>2, <1>3 DEF Cause

\* What a process exits with says why it ended: for any arguments, source,
\* memory and device (main.c:18-23).
THEOREM ExitCodeAlwaysTellsCause == Spec => []ExitCodeTellsCause
<1>1. Accounts /\ Cause => ExitCodeTellsCause
  <2> SUFFICES ASSUME Accounts, Cause, Over, Main PROVE ExitCodeTellsCause
    BY DEF ExitCodeTellsCause
  <2>1. stage = "exit"
    BY DEF Over
  <2>2. CASE WrongUsage /\ code = 2
    BY <2>2 DEF ExitCodeTellsCause
  <2>3. CASE Proper
    <3>1. WrongSource <=> "wrong" \in ToSet(Source)
      <4>1. Source \in Seq(Forms)
        BY SourceIs DEF Accounts
      <4>2. DOMAIN Source = 1 .. Len(Source)
        BY <4>1, LenProperties
      <4>3. QED
        BY <4>2, Zenon DEF ToSet, WrongSource
    <3>2. QED
      BY <2>1, <2>3, <3>1 DEF ExitCodeTellsCause, Proper, Settled, Justified, Runs
  <2>4. QED
    BY <2>1, <2>2, <2>3 DEF Cause
<1>2. QED
  BY <1>1, CauseInit, CauseNext, AccountsKept, StreamingHolds, PTL DEF Spec
=============================================================================
