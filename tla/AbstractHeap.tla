---------------------------- MODULE AbstractHeap ----------------------------
(***************************************************************************)
(* What the collector of src/src/gc.c promises to the rest of the          *)
(* interpreter.  The heap is a graph: `refs` maps every allocated object   *)
(* to the objects it refers to, so DOMAIN refs is the set of allocated     *)
(* objects.  `roots` are the objects the collector starts from (the        *)
(* top-level environment and the protect stack) and `fresh` is the handle  *)
(* the last allocator call stored through its *out argument, which no root *)
(* holds yet.                                                              *)
(*                                                                         *)
(* A collection is one atomic step that keeps exactly the reachable        *)
(* objects and changes nothing in them.  Whether and when one happens is   *)
(* left open, so that a collection the code gives up is a stuttering step. *)
(***************************************************************************)
CONSTANTS Obj,      \* addresses the allocator can hand out
          NoObj     \* the absence of a handle

VARIABLES refs, roots, fresh

vars == <<refs, roots, fresh>>

Allocated == DOMAIN refs

(***************************************************************************)
(* An object is reachable when every set that contains the roots and is    *)
(* closed under references contains it.                                    *)
(***************************************************************************)
ClosedIn(S) == \A o \in S \cap Allocated : refs[o] \subseteq S

Reachable == {o \in Obj : \A S \in SUBSET Obj :
                             (roots \subseteq S /\ ClosedIn(S)) => o \in S}

\* What the interpreter may still name: it reaches it, or was just given it.
Held == Reachable \cup ({fresh} \ {NoObj})

TypeOK == /\ Allocated \subseteq Obj
          /\ \A o \in Allocated : refs[o] \subseteq Obj
          /\ roots \subseteq Obj
          /\ fresh \in Obj \cup {NoObj}

-----------------------------------------------------------------------------
Init == /\ refs = [o \in {} |-> {}]
        /\ roots = {}
        /\ fresh = NoObj

\* A new object refers to objects the roots reach, and is handed to the caller.
Alloc == \E o \in Obj \ Allocated, ks \in SUBSET Reachable :
            /\ refs' = [p \in Allocated \cup {o} |-> IF p = o THEN ks ELSE refs[p]]
            /\ fresh' = o
            /\ UNCHANGED roots

\* The interpreter rewires an object it holds to objects it holds.
Store == \E o \in Held, ks \in SUBSET Obj :
            /\ ks \subseteq refs[o] \cup Held
            /\ refs' = [refs EXCEPT ![o] = ks]
            /\ UNCHANGED <<roots, fresh>>

\* Handles it holds are added to the roots, and roots are dropped.
Reroot == /\ roots' \in SUBSET Held
          /\ UNCHANGED <<refs, fresh>>

\* The handle it was given goes out of scope.
Drop == /\ fresh' = NoObj
        /\ UNCHANGED <<refs, roots>>

\* One collection: the unreachable objects go, everything else stays as it was.
Collect == /\ fresh = NoObj
           /\ refs' = [o \in Reachable |-> refs[o]]
           /\ UNCHANGED <<roots, fresh>>

Next == Alloc \/ Store \/ Reroot \/ Drop \/ Collect

Spec == Init /\ [][Next]_vars

-----------------------------------------------------------------------------
(***************************************************************************)
(* No live reference dangles: the roots, the fresh handle and every        *)
(* reference of an allocated object name allocated objects.  This is what  *)
(* lets eval.c, reader.c and printer.c dereference a handle without a      *)
(* check.                                                                  *)
(***************************************************************************)
NoDangling == /\ roots \subseteq Allocated
              /\ fresh # NoObj => fresh \in Allocated
              /\ \A o \in Allocated : refs[o] \subseteq Allocated
=============================================================================
