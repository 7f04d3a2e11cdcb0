------------------------------- MODULE GcHeap -------------------------------
(***************************************************************************)
(* The mark-and-sweep collector, the heap allocators and the protect stack *)
(* of src/src/gc.c, one C call of gc_visit, one object popped or swept, per *)
(* step.                                                                   *)
(*                                                                         *)
(* The rest of the interpreter appears as the calls it makes: it allocates *)
(* objects whose parts are rooted (gc.c:17-21 asks that of every caller),  *)
(* links objects it holds, defines bindings, and moves the protect stack.  *)
(* Whether eval.c keeps to that discipline is the question of module Eval. *)
(*                                                                         *)
(* Abstractions.  An address is a member of Obj and is handed out again    *)
(* once freed.  Every value that is not a heap object (fixnum, symbol,     *)
(* boolean, nil) is Imm.  The all-objects list gc_head is the set `linked`, *)
(* since no result of the sweep depends on its order.                      *)
(***************************************************************************)
EXTENDS Integers, Sequences, FiniteSets, Functions

CONSTANTS
    Obj,              \* addresses the embedder's allocator can return
    Imm,              \* any value that is not a heap object
    Kinds,            \* the object kinds the program allocates
    Stress,           \* s->gc_stress
    InitialThreshold, \* opts->gc_initial_threshold
    Floor,            \* the lower bound of the threshold, 4096 in the code
    WorklistInit,     \* first capacity of the mark worklist, 64 in the code
    ProtectInit,      \* first capacity of the protect stack, 32 in the code
    MaxProtect,       \* bound of the model on the protect stack
    MaxBindings       \* bound of the model on the bindings of a frame

ASSUME ConstantsAssumption ==
    /\ Imm \notin Obj
    /\ Kinds \subseteq {"PAIR", "STRING", "CLOSURE", "PRIMITIVE", "ENV"}
    /\ Stress \in BOOLEAN
    /\ InitialThreshold \in Nat
    /\ Floor \in Nat
    /\ WorklistInit \in Nat \ {0}
    /\ ProtectInit \in Nat \ {0}
    /\ MaxProtect \in Nat
    /\ MaxBindings \in Nat

ASSUME FiniteObjAssumption == IsFiniteSet(Obj)

Value == Obj \cup {Imm}
Object == [kind : {"NONE"} \cup Kinds, refs : Seq(Value)]

\* The contents of a block that is not an object, and of no request.
Blank == [kind |-> "NONE", refs |-> <<>>]

VARIABLES
    heap,         \* the contents of every block; Blank when it is free
    linked,       \* the objects on the list that starts at s->gc_head
    live,         \* s->gc_live_objects
    threshold,    \* s->gc_threshold
    toplevel_env, \* s->toplevel_env
    protect,      \* s->gc_protect[0 .. gc_protect_count - 1]
    pcap,         \* s->gc_protect_cap
    fresh,        \* the handle the last allocator stored through *out
    phase,        \* what the one thread is doing
    request,      \* the object of the allocator call in progress
    marked,       \* the objects whose mark bit is set
    worklist,     \* s->gc_marklist[0 .. gc_marklist_count - 1]
    wcap,         \* s->gc_marklist_cap
    pending,      \* the values the current loop has still to gc_visit
    unswept,      \* the part of the list the sweep has still to walk
    kept          \* the local `live` of sweep()

mutatorVars == <<toplevel_env, protect, pcap>>
markVars == <<marked, worklist, wcap, pending>>
sweepVars == <<unswept, kept>>
vars == <<heap, linked, live, threshold, toplevel_env, protect, pcap, fresh,
          phase, request, marked, worklist, wcap, pending, unswept, kept>>

Phases == {"mutator", "mark", "sweep", "alloc"}

-----------------------------------------------------------------------------
(***************************************************************************)
(* The graph the collector walks.                                          *)
(***************************************************************************)
RefsIn(h, o) == Range(h[o].refs) \cap Obj

ClosedUnder(h, S) == \A o \in S : RefsIn(h, o) \subseteq S

\* An object is reachable if no set closed under references avoids it.
ReachableFrom(h, R) ==
    {o \in Obj : \A S \in SUBSET Obj : (R \subseteq S /\ ClosedUnder(h, S)) => o \in S}

Roots == ({toplevel_env} \cup Range(protect)) \cap Obj

Reachable == ReachableFrom(heap, Roots)

Rooted == Reachable \cup {Imm}
Held == Rooted \cup {fresh}

IsEnv(v) == v \in Obj /\ heap[v].kind = "ENV"
IsPair(v) == v \in Obj /\ heap[v].kind = "PAIR"

RootedEnvs == {v \in Rooted : IsEnv(v)}
RootedLists == {v \in Rooted : v = Imm \/ IsPair(v)}

\* Fault: the top-level environment is not a root.
StackRootsOnly == protect

\* The order in which the roots are visited: top-level environment, then stack.
RootSequence == <<toplevel_env>> \o protect

\* A list of handles grows by doubling from its first capacity.
Grown(cap, first) == IF cap = 0 THEN first ELSE 2 * cap

-----------------------------------------------------------------------------
Init ==
    /\ heap = [o \in Obj |-> Blank]
    /\ linked = {}
    /\ live = 0
    /\ threshold = InitialThreshold
    /\ toplevel_env = Imm
    /\ protect = <<>>
    /\ pcap = 0
    /\ fresh = Imm
    /\ phase = "mutator"
    /\ request = Blank
    /\ marked = {}
    /\ worklist = <<>>
    /\ wcap = 0
    /\ pending = <<>>
    /\ unswept = {}
    /\ kept = 0

-----------------------------------------------------------------------------
(***************************************************************************)
(* Allocation: collect if due, then allocate raw, then link.               *)
(***************************************************************************)

\* Every allocator begins with maybe_collect.  A collection starts with an
\* empty worklist and the roots to visit.
MaybeCollect ==
    IF Stress \/ live >= threshold
    THEN /\ phase' = "mark"
         /\ pending' = RootSequence
         /\ worklist' = <<>>
         /\ UNCHANGED <<marked, wcap>>
    ELSE /\ phase' = "alloc"
         /\ UNCHANGED markVars

\* What every allocator call does before its raw allocation.  The operands
\* become the callee's locals; the handle the caller got before is given up.
Request(kind, refs) ==
    /\ phase = "mutator"
    /\ kind \in Kinds
    /\ request' = [kind |-> kind, refs |-> refs]
    /\ fresh' = Imm
    /\ MaybeCollect
    /\ UNCHANGED <<heap, linked, live, threshold, mutatorVars, sweepVars>>

AllocPair == \E car, cdr \in Rooted : Request("PAIR", <<car, cdr>>)

AllocString == Request("STRING", <<>>)

AllocPrimitive == Request("PRIMITIVE", <<>>)

AllocClosure == \E env \in RootedEnvs, params, body \in RootedLists :
                   Request("CLOSURE", <<env, params, body>>)

AllocEnv == \E parent \in RootedEnvs \cup {Imm} : Request("ENV", <<parent>>)

\* The raw allocation succeeds with any free address and link_object links it.
LinkObject ==
    /\ phase = "alloc"
    /\ \E o \in Obj \ linked :
          /\ heap' = [heap EXCEPT ![o] = request]
          /\ linked' = linked \cup {o}
          /\ fresh' = o
    /\ live' = live + 1
    /\ request' = Blank
    /\ phase' = "mutator"
    /\ UNCHANGED <<threshold, mutatorVars, markVars, sweepVars>>

\* The raw allocation returns NULL and the caller gets NOMEM.
AllocFails ==
    /\ phase = "alloc"
    /\ request' = Blank
    /\ phase' = "mutator"
    /\ UNCHANGED <<heap, linked, live, threshold, mutatorVars, fresh, markVars,
                   sweepVars>>

-----------------------------------------------------------------------------
(***************************************************************************)
(* Mark.                                                                   *)
(***************************************************************************)

\* A visit that has nothing to do: not a heap object, or already marked.
VisitSeen ==
    /\ phase = "mark"
    /\ pending # <<>>
    /\ Head(pending) \notin Obj \ marked
    /\ pending' = Tail(pending)
    /\ UNCHANGED <<heap, linked, live, threshold, mutatorVars, fresh, phase,
                   request, marked, worklist, wcap, sweepVars>>

\* Fault: the test of the tag is missing.
VisitAnyTag ==
    /\ phase = "mark"
    /\ pending # <<>>
    /\ Head(pending) \notin marked
    /\ marked' = marked \cup {Head(pending)}
    /\ worklist' = Append(worklist, Head(pending))
    /\ wcap' = IF Len(worklist) = wcap THEN Grown(wcap, WorklistInit) ELSE wcap
    /\ pending' = Tail(pending)
    /\ UNCHANGED <<heap, linked, live, threshold, mutatorVars, fresh, phase,
                   request, sweepVars>>

\* Fault: the object is pushed without being marked.
PushUnmarked ==
    /\ phase = "mark"
    /\ pending # <<>>
    /\ Head(pending) \in Obj \ marked
    /\ worklist' = Append(worklist, Head(pending))
    /\ wcap' = IF Len(worklist) = wcap THEN Grown(wcap, WorklistInit) ELSE wcap
    /\ pending' = Tail(pending)
    /\ UNCHANGED <<heap, linked, live, threshold, mutatorVars, fresh, phase,
                   request, marked, sweepVars>>

\* The first visit of an object marks it and then pushes it.
VisitNew ==
    /\ phase = "mark"
    /\ pending # <<>>
    /\ Head(pending) \in Obj \ marked
    /\ marked' = marked \cup {Head(pending)}
    /\ worklist' = Append(worklist, Head(pending))
    /\ wcap' = IF Len(worklist) = wcap THEN Grown(wcap, WorklistInit) ELSE wcap
    /\ pending' = Tail(pending)
    /\ UNCHANGED <<heap, linked, live, threshold, mutatorVars, fresh, phase,
                   request, sweepVars>>

\* Fault: a push that fails is ignored.
AbortIgnored ==
    /\ phase = "mark"
    /\ pending # <<>>
    /\ Head(pending) \in Obj \ marked
    /\ Len(worklist) = wcap
    /\ marked' = marked \cup {Head(pending)}
    /\ pending' = Tail(pending)
    /\ UNCHANGED <<heap, linked, live, threshold, mutatorVars, fresh, phase,
                   request, worklist, wcap, sweepVars>>

\* Fault: the marks set so far survive the abort.
AbortKeepsMarks ==
    /\ phase = "mark"
    /\ pending # <<>>
    /\ Head(pending) \in Obj \ marked
    /\ Len(worklist) = wcap
    /\ worklist' = <<>>
    /\ pending' = <<>>
    /\ phase' = "alloc"
    /\ UNCHANGED <<heap, linked, live, threshold, mutatorVars, fresh, request,
                   marked, wcap, sweepVars>>

\* The worklist cannot grow: every mark is cleared, the worklist emptied, and
\* the allocator goes on without a sweep.
VisitAborts ==
    /\ phase = "mark"
    /\ pending # <<>>
    /\ Head(pending) \in Obj \ marked
    /\ Len(worklist) = wcap
    /\ marked' = {}
    /\ worklist' = <<>>
    /\ pending' = <<>>
    /\ phase' = "alloc"
    /\ UNCHANGED <<heap, linked, live, threshold, mutatorVars, fresh, request,
                   wcap, sweepVars>>

\* Fault: the last reference of an object is not visited.
DrainSkipsLast ==
    /\ phase = "mark"
    /\ pending = <<>>
    /\ worklist # <<>>
    /\ LET refs == heap[worklist[Len(worklist)]].refs
       IN  pending' = SubSeq(refs, 1, Len(refs) - 1)
    /\ worklist' = SubSeq(worklist, 1, Len(worklist) - 1)
    /\ UNCHANGED <<heap, linked, live, threshold, mutatorVars, fresh, phase,
                   request, marked, wcap, sweepVars>>

\* Fault: the object stays on the worklist.
DrainKeepsObject ==
    /\ phase = "mark"
    /\ pending = <<>>
    /\ worklist # <<>>
    /\ pending' = heap[worklist[Len(worklist)]].refs
    /\ UNCHANGED <<heap, linked, live, threshold, mutatorVars, fresh, phase,
                   request, marked, worklist, wcap, sweepVars>>

\* gc_drain_worklist pops the last object; its references are visited next.
Drain ==
    /\ phase = "mark"
    /\ pending = <<>>
    /\ worklist # <<>>
    /\ pending' = heap[worklist[Len(worklist)]].refs
    /\ worklist' = SubSeq(worklist, 1, Len(worklist) - 1)
    /\ UNCHANGED <<heap, linked, live, threshold, mutatorVars, fresh, phase,
                   request, marked, wcap, sweepVars>>

-----------------------------------------------------------------------------
(***************************************************************************)
(* Sweep.                                                                  *)
(***************************************************************************)
BeginSweep ==
    /\ phase = "mark"
    /\ pending = <<>>
    /\ worklist = <<>>
    /\ phase' = "sweep"
    /\ unswept' = linked
    /\ kept' = 0
    /\ UNCHANGED <<heap, linked, live, threshold, mutatorVars, fresh, request,
                   markVars>>

\* A marked object loses its mark and stays; an unmarked one is unlinked and freed.
SweepObject ==
    /\ phase = "sweep"
    /\ \E o \in unswept :
          /\ unswept' = unswept \ {o}
          /\ IF o \in marked
             THEN /\ marked' = marked \ {o}
                  /\ kept' = kept + 1
                  /\ UNCHANGED <<heap, linked>>
             ELSE /\ linked' = linked \ {o}
                  /\ heap' = [heap EXCEPT ![o] = Blank]
                  /\ UNCHANGED <<marked, kept>>
    /\ UNCHANGED <<live, threshold, mutatorVars, fresh, phase, request,
                   worklist, wcap, pending>>

NewThreshold(n) == IF 2 * n > Floor THEN 2 * n ELSE Floor

\* Fault: the live count is not recomputed.
EndSweepKeepsCount ==
    /\ phase = "sweep"
    /\ unswept = {}
    /\ threshold' = NewThreshold(kept)
    /\ kept' = 0
    /\ phase' = "alloc"
    /\ UNCHANGED <<heap, linked, live, mutatorVars, fresh, request, markVars, unswept>>

EndSweep ==
    /\ phase = "sweep"
    /\ unswept = {}
    /\ live' = kept
    /\ threshold' = NewThreshold(kept)
    /\ kept' = 0
    /\ phase' = "alloc"
    /\ UNCHANGED <<heap, linked, mutatorVars, fresh, request, markVars, unswept>>

-----------------------------------------------------------------------------
(***************************************************************************)
(* The protect stack.                                                      *)
(***************************************************************************)
mutatorKeeps == <<heap, linked, live, threshold, phase, request, markVars,
                  sweepVars>>

Protect ==
    /\ phase = "mutator"
    /\ Len(protect) < MaxProtect
    /\ \E v \in Held : protect' = Append(protect, v)
    /\ pcap' = IF Len(protect) = pcap THEN Grown(pcap, ProtectInit) ELSE pcap
    /\ UNCHANGED <<mutatorKeeps, toplevel_env, fresh>>

\* The stack cannot grow: NOMEM, and the caller returns, giving the handle up.
ProtectFails ==
    /\ phase = "mutator"
    /\ Len(protect) = pcap
    /\ fresh' = Imm
    /\ UNCHANGED <<mutatorKeeps, mutatorVars>>

\* Unprotecting more than there is empties the stack.
Unprotect ==
    /\ phase = "mutator"
    /\ \E n \in 1 .. MaxProtect + 1 :
          protect' = SubSeq(protect, 1,
                            IF n > Len(protect) THEN 0 ELSE Len(protect) - n)
    /\ UNCHANGED <<mutatorKeeps, toplevel_env, pcap, fresh>>

\* Restoring a savepoint never lengthens the stack.
Restore ==
    /\ phase = "mutator"
    /\ \E saved \in 0 .. MaxProtect :
          protect' = IF saved < Len(protect) THEN SubSeq(protect, 1, saved)
                                             ELSE protect
    /\ UNCHANGED <<mutatorKeeps, toplevel_env, pcap, fresh>>

\* eval_body, build_list and prim_list overwrite a slot they own.
RefreshSlot ==
    /\ phase = "mutator"
    /\ \E i \in DOMAIN protect, v \in Held : protect' = [protect EXCEPT ![i] = v]
    /\ UNCHANGED <<mutatorKeeps, toplevel_env, pcap, fresh>>

-----------------------------------------------------------------------------
(***************************************************************************)
(* The rest of the interpreter between two allocations.                    *)
(***************************************************************************)

\* state_create: the first frame becomes the top-level environment.
InstallToplevel ==
    /\ phase = "mutator"
    /\ toplevel_env = Imm
    /\ IsEnv(fresh)
    /\ toplevel_env' = fresh
    /\ UNCHANGED <<mutatorKeeps, protect, pcap, fresh>>

SetRefs(o, refs) ==
    /\ heap' = [heap EXCEPT ![o].refs = refs]
    /\ UNCHANGED <<linked, live, threshold, mutatorVars, fresh, phase, request,
                   markVars, sweepVars>>

\* read_list links a cell, or the dotted tail, behind the last cell.
LinkCdr ==
    /\ phase = "mutator"
    /\ \E o \in Held \cap Obj, v \in Held :
          /\ IsPair(o)
          /\ SetRefs(o, [heap[o].refs EXCEPT ![2] = v])

\* ml_env_define appends a value and its name (a symbol) to a frame.
Define ==
    /\ phase = "mutator"
    /\ \E o \in Held \cap Obj, v \in Held :
          /\ IsEnv(o)
          /\ Len(heap[o].refs) < 1 + 2 * MaxBindings
          /\ SetRefs(o, heap[o].refs \o <<v, Imm>>)

\* ml_env_define of a name the frame has, and ml_env_set, overwrite its value.
Rebind ==
    /\ phase = "mutator"
    /\ \E o \in Held \cap Obj, v \in Held :
          /\ IsEnv(o)
          /\ \E i \in DOMAIN heap[o].refs :
                /\ i % 2 = 0
                /\ SetRefs(o, [heap[o].refs EXCEPT ![i] = v])

-----------------------------------------------------------------------------
Allocation == \/ AllocPair \/ AllocString \/ AllocPrimitive \/ AllocClosure
              \/ AllocEnv \/ LinkObject \/ AllocFails

Mark == VisitSeen \/ VisitNew \/ VisitAborts \/ Drain

Sweep == BeginSweep \/ SweepObject \/ EndSweep

ProtectStack == Protect \/ ProtectFails \/ Unprotect \/ Restore \/ RefreshSlot

Mutation == InstallToplevel \/ LinkCdr \/ Define \/ Rebind

Next == Allocation \/ Mark \/ Sweep \/ ProtectStack \/ Mutation

Spec == Init /\ [][Next]_vars

\* A call in progress runs on: the code is one thread that never waits.  The
\* interpreter need not make another call.
FairSpec == Spec /\ WF_vars(Mark) /\ WF_vars(Sweep) /\ WF_vars(LinkObject \/ AllocFails)

-----------------------------------------------------------------------------
(***************************************************************************)
(* Properties.                                                             *)
(***************************************************************************)

\* Each variable of the collector and of its callers keeps its type.
TypeOK ==
    /\ heap \in [Obj -> Object]
    /\ linked \subseteq Obj
    /\ live \in Nat
    /\ threshold \in Nat
    /\ toplevel_env \in Value
    /\ protect \in Seq(Value)
    /\ pcap \in Nat
    /\ fresh \in Value
    /\ phase \in Phases
    /\ request \in Object
    /\ marked \subseteq Obj
    /\ worklist \in Seq(Obj)
    /\ wcap \in Nat
    /\ pending \in Seq(Value)
    /\ unswept \subseteq Obj
    /\ kept \in Nat

\* The objects a sweep in progress leaves allocated.
Survivors == linked \ (IF phase = "sweep" THEN unswept \ marked ELSE {})

\* No handle the interpreter can still use names a freed block: the roots, the
\* handle just returned, the operands of the allocator call in progress (it
\* collects before it stores them) and the references of every object that
\* survives are objects that survive.
NoDangling ==
    /\ Roots \cup (Obj \cap {fresh}) \subseteq Survivors
    /\ Range(request.refs) \cap Obj \subseteq Survivors
    /\ \A o \in Survivors : RefsIn(heap, o) \subseteq Survivors

\* A cycle starts from clean marks whether the one before it swept or was given
\* up: a mark left behind would hide an object's references from the next one.
MarksClear ==
    phase \in {"mutator", "alloc"} => marked = {} /\ worklist = <<>> /\ pending = <<>>

\* An object enters the worklist at most once in a cycle, so that the worklist
\* of a heap with cycles stays within the number of objects.
WorklistBounded ==
    /\ \A i, j \in DOMAIN worklist : worklist[i] = worklist[j] => i = j
    /\ Len(worklist) <= Cardinality(linked)

\* s->gc_live_objects, on which every collection is triggered, is the number of
\* objects on the list, except within a sweep.
LiveCountExact ==
    phase # "sweep" => live = Cardinality(linked)

\* Every allocator call returns: marking and sweeping come to an end on any
\* heap graph, cyclic ones included.
AllocatorReturns == phase # "mutator" ~> phase = "mutator"

-----------------------------------------------------------------------------
(***************************************************************************)
(* The inductive invariant behind NoDangling and ImplementsAbstractHeap.   *)
(***************************************************************************)

\* While an allocator runs, its operands are rooted and no handle is fresh.
RequestHeld ==
    /\ phase = "mutator" => request = Blank
    /\ phase # "mutator" => fresh = Imm /\ Range(request.refs) \subseteq Rooted

\* While it marks, the collector has met only reachable objects, and whatever a
\* root or a finished object refers to is marked or still to be visited.
Marking ==
    phase = "mark" =>
        /\ Range(worklist) \subseteq marked
        /\ marked \subseteq Reachable
        /\ Range(pending) \cap Obj \subseteq Reachable
        /\ Roots \subseteq marked \cup Range(pending)
        /\ \A o \in marked \ Range(worklist) :
              RefsIn(heap, o) \subseteq marked \cup Range(pending)

\* While it sweeps, what it will leave is what is reachable.
Sweeping ==
    /\ unswept \subseteq linked
    /\ phase # "sweep" => unswept = {}
    /\ phase = "sweep" => /\ Survivors = Reachable
                          /\ marked \subseteq unswept
                          /\ worklist = <<>> /\ pending = <<>>

\* The parts together hold initially and every step of the collector and of its
\* callers keeps them.
IInv == TypeOK /\ NoDangling /\ MarksClear /\ RequestHeld /\ Marking /\ Sweeping

\* gc.c:12-13: after each sweep the threshold is max(live * 2, initial).
ThresholdAsDocumented ==
    [][phase = "sweep" /\ phase' = "alloc" =>
          threshold' = IF 2 * live' > InitialThreshold THEN 2 * live'
                                                       ELSE InitialThreshold]_vars

-----------------------------------------------------------------------------
(***************************************************************************)
(* The collector implements the abstract heap: a collection takes place    *)
(* when the sweep begins, and one that is given up does not take place.    *)
(***************************************************************************)
Abstract == INSTANCE AbstractHeap WITH
                NoObj <- Imm,
                refs <- [o \in Survivors |-> RefsIn(heap, o)],
                roots <- Roots,
                fresh <- fresh

\* A collection frees every unreachable object and no other, changes none of
\* those it keeps, and appears to its callers as one step.
ImplementsAbstractHeap == Abstract!Spec

=============================================================================
