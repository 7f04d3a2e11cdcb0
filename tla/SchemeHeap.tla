----------------------------- MODULE SchemeHeap -----------------------------
(***************************************************************************)
(* Lists and environment frames: what the evaluator and the primitives do  *)
(* with cells, as pure operators over a heap h.                            *)
(***************************************************************************)
EXTENDS Heap

-----------------------------------------------------------------------------
(***************************************************************************)
(* Lists.                                                                  *)
(***************************************************************************)

\* What is left of the list v behind its first n elements; what is no pair stays.
Behind(h, v, n) ==
    LET tail[k \in 0 .. n] ==
            IF k = 0 THEN v
            ELSE LET rest == tail[k - 1] IN IF IsPair(h, rest) THEN Cdr(h, rest) ELSE rest
    IN  tail[n]

\* The first cdr that is not a pair is behind n elements.
Spans(h, v, n) ==
    /\ \A m \in 0 .. n - 1 : IsPair(h, Behind(h, v, m))
    /\ ~IsPair(h, Behind(h, v, n))

Length(h, v) == CHOOSE n \in 0 .. HeapSize : Spans(h, v, n)
LastCdr(h, v) == Behind(h, v, Length(h, v))
IsList(h, v) == \E n \in 0 .. HeapSize : Spans(h, v, n) /\ Behind(h, v, n) = Nil
Nth(h, v, n) == Car(h, Behind(h, v, n - 1))
Elements(h, v) == [i \in 1 .. Length(h, v) |-> Nth(h, v, i)]
HasLength(h, v, lengths) == IsList(h, v) /\ Length(h, v) \in lengths
MoreThanOne(h, v) == IsPair(h, Cdr(h, v))

-----------------------------------------------------------------------------
(***************************************************************************)
(* Environment frames.                                                     *)
(***************************************************************************)
Parent(h, env) == h[env[2]].refs[1]

\* The index of a name in a frame, 0 if the frame does not bind it.
Slot(h, env, name) ==
    LET names == h[env[2]].names
        at == {i \in DOMAIN names : names[i] = name}
    IN  IF at = {} THEN 0 ELSE Min(at)

\* Fault: an existing binding is not looked for.
DefineAppends(h, env, name, value) ==
    [h EXCEPT ![env[2]].refs = Append(@, value), ![env[2]].names = Append(@, name)]

\* ml_env_define: replace in this very frame, or append.
Define(h, env, name, value) ==
    LET i == Slot(h, env, name)
    IN  IF i # 0
        THEN [h EXCEPT ![env[2]].refs[i + 1] = value]
        ELSE [h EXCEPT ![env[2]].refs = Append(@, value),
                       ![env[2]].names = Append(@, name)]

\* The innermost frame that binds the name; Nil when none does.
Binder(h, env, name) ==
    LET binder[a \in {b \in Addr : h[b].kind = "ENV"}] ==
            IF Slot(h, Ref(a), name) # 0 THEN Ref(a)
            ELSE IF IsA(h, Parent(h, Ref(a)), "ENV") THEN binder[Parent(h, Ref(a))[2]]
            ELSE Nil
    IN  IF IsA(h, env, "ENV") THEN binder[env[2]] ELSE Nil

Lookup(h, frame, name) == h[frame[2]].refs[Slot(h, frame, name) + 1]

SetBinding(h, frame, name, value) ==
    [h EXCEPT ![frame[2]].refs[Slot(h, frame, name) + 1] = value]
=============================================================================
