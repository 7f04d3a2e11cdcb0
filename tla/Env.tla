-------------------------------- MODULE Env ---------------------------------
(***************************************************************************)
(* The environment frames of src/src/env.c: two parallel arrays, of names  *)
(* and of values, that double together when they are full.  Each call of   *)
(* ml_env_define, ml_env_set or ml_env_lookup is a step, but for a define  *)
(* that has to grow: the two arrays are asked for one after the other.     *)
(*                                                                         *)
(* Abstractions.  Frames are numbered as they are created, so an enclosing *)
(* frame has a smaller number; 0 stands for MV_NIL.  Collection is the     *)
(* subject of GcHeap.  `blocks` counts the arrays that ml_raw_alloc has    *)
(* given and ml_raw_free has not taken back.                               *)
(***************************************************************************)
EXTENDS Integers, Sequences, FiniteSets, FiniteSetsExt

CONSTANTS
    Name,          \* symbols
    Value,         \* values bound to them
    NoValue,       \* no value, and what an array holds before it is written
    FirstCapacity, \* the first capacity of the arrays, 8 in the code
    MaxFrames      \* bound of the model on the number of frames

ASSUME EnvAssumption ==
    /\ NoValue \notin Name \cup Value
    /\ FirstCapacity \in Nat \ {0}
    /\ MaxFrames \in Nat

VARIABLES
    frames, \* the menv objects: [parent, count, names, values]
    blocks, \* arrays in use
    grows,  \* the define that has its new array of names and asks for that of
            \* values, <<frame, name, value>>, in a set; or {}
    reply   \* status and value of the last call

vars == <<frames, blocks, grows, reply>>

Frames == DOMAIN frames
Capacity(f) == Len(frames[f].names)
Bound(f) == 1 .. frames[f].count

Idle == grows = {}

Reply(status, value) == reply' = [status |-> status, value |-> value]

Init ==
    /\ frames = <<>>
    /\ blocks = 0
    /\ grows = {}
    /\ reply = [status |-> "OK", value |-> NoValue]

-----------------------------------------------------------------------------
\* The first index of the name in a frame, or 0.
Slot(f, name) ==
    LET at == {i \in Bound(f) : frames[f].names[i] = name}
    IN  IF at = {} THEN 0 ELSE Min(at)

\* Fault: only the frame itself is searched.
BinderHere(name) == [f \in 0 .. Len(frames) |-> IF f # 0 /\ Slot(f, name) # 0 THEN f ELSE 0]

\* The innermost frame from f outwards that binds the name, or 0.
Binder(name) ==
    LET binder[f \in 0 .. Len(frames)] ==
            IF f = 0 THEN 0
            ELSE IF Slot(f, name) # 0 THEN f
            ELSE binder[frames[f].parent]
    IN  binder

\* ml_gc_alloc_env: no arrays yet.
NewFrame(parent) ==
    /\ Idle /\ Len(frames) < MaxFrames
    /\ frames' = Append(frames, [parent |-> parent, count |-> 0, names |-> <<>>, values |-> <<>>])
    /\ Reply("OK", NoValue)
    /\ UNCHANGED <<blocks, grows>>

NewCapacity(f) == IF Capacity(f) = 0 THEN FirstCapacity ELSE 2 * Capacity(f)

\* The frame with both arrays replaced.
Grown(f) ==
    [frames[f] EXCEPT
        !.names = [i \in 1 .. NewCapacity(f) |-> IF i \in Bound(f) THEN @[i] ELSE NoValue],
        !.values = [i \in 1 .. NewCapacity(f) |-> IF i \in Bound(f) THEN @[i] ELSE NoValue]]

Full(f) == frames[f].count = Capacity(f)

\* The name is bound in this very frame: replace its value.
Replace(f, name, value) ==
    /\ Idle
    /\ Slot(f, name) # 0
    /\ frames' = [frames EXCEPT ![f].values[Slot(f, name)] = value]
    /\ Reply("OK", NoValue)
    /\ UNCHANGED <<blocks, grows>>

\* The new array of names is not to be had.
NamesFail(f, name) ==
    /\ Idle
    /\ Slot(f, name) = 0 /\ Full(f)
    /\ Reply("NOMEM", NoValue)
    /\ UNCHANGED <<frames, blocks, grows>>

\* It is: the frame keeps the old ones for now.
TakeNames(f, name, value) ==
    /\ Idle
    /\ Slot(f, name) = 0 /\ Full(f)
    /\ blocks' = blocks + 1
    /\ grows' = {<<f, name, value>>}
    /\ UNCHANGED <<frames, reply>>

\* Fault: the array of names is kept when that of values is not to be had.
GrowLeaksNames ==
    /\ grows # {}
    /\ grows' = {}
    /\ Reply("NOMEM", NoValue)
    /\ UNCHANGED <<frames, blocks>>

\* The array of values is not to be had: that of names is given back.
ValuesFail ==
    /\ grows # {}
    /\ blocks' = blocks - 1
    /\ grows' = {}
    /\ Reply("NOMEM", NoValue)
    /\ UNCHANGED frames

Extend(frame, name, value) ==
    LET last == frame.count + 1
    IN  [frame EXCEPT !.count = last, !.names[last] = name, !.values[last] = value]

\* It is: both arrays replace those of the frame, if it has any, which are
\* given back, and the binding is appended.
GrowAndAppend(f, name, value) ==
    /\ grows = {<<f, name, value>>}
    /\ blocks' = IF Capacity(f) = 0 THEN blocks + 1 ELSE blocks - 1
    /\ frames' = [frames EXCEPT ![f] = Extend(Grown(f), name, value)]
    /\ grows' = {}
    /\ Reply("OK", NoValue)

\* Fault: a binding is appended without looking for the name.
AppendAlways(f, name, value) ==
    /\ Idle
    /\ ~Full(f)
    /\ frames' = [frames EXCEPT ![f] = Extend(frames[f], name, value)]
    /\ Reply("OK", NoValue)
    /\ UNCHANGED <<blocks, grows>>

\* The name is new and there is room.
AppendBinding(f, name, value) ==
    /\ Idle
    /\ Slot(f, name) = 0 /\ ~Full(f)
    /\ frames' = [frames EXCEPT ![f] = Extend(frames[f], name, value)]
    /\ Reply("OK", NoValue)
    /\ UNCHANGED <<blocks, grows>>

Set(f, name, value) ==
    LET g == Binder(name)[f] IN
    /\ Idle
    /\ IF g = 0
       THEN Reply("UNBOUND", NoValue) /\ UNCHANGED frames
       ELSE /\ frames' = [frames EXCEPT ![g].values[Slot(g, name)] = value]
            /\ Reply("OK", NoValue)
    /\ UNCHANGED <<blocks, grows>>

Lookup(f, name) ==
    LET g == Binder(name)[f] IN
    /\ Idle
    /\ IF g = 0
       THEN Reply("UNBOUND", NoValue)
       ELSE Reply("OK", frames[g].values[Slot(g, name)])
    /\ UNCHANGED <<frames, blocks, grows>>

Next ==
    \/ \E parent \in 0 .. Len(frames) : NewFrame(parent)
    \/ ValuesFail
    \/ \E f \in Frames, name \in Name :
        \/ Lookup(f, name)
        \/ NamesFail(f, name)
        \/ \E value \in Value :
            \/ Replace(f, name, value) \/ AppendBinding(f, name, value) \/ Set(f, name, value)
            \/ TakeNames(f, name, value) \/ GrowAndAppend(f, name, value)

Spec == Init /\ [][Next]_vars

-----------------------------------------------------------------------------
\* The two arrays have one size, names and values up to count.
TypeOK ==
    /\ \A f \in Frames :
        /\ frames[f].parent \in 0 .. f - 1
        /\ frames[f].count \in 0 .. Capacity(f)
        /\ Len(frames[f].values) = Capacity(f)
        /\ \A i \in Bound(f) : frames[f].names[i] \in Name /\ frames[f].values[i] \in Value
    /\ blocks \in Nat
    /\ Idle \/ \E f \in Frames, name \in Name, value \in Value :
                grows = {<<f, name, value>>} /\ Full(f) /\ Slot(f, name) = 0
    /\ reply.status \in {"OK", "UNBOUND", "NOMEM"}
    /\ reply.value \in Value \cup {NoValue}

\* A frame binds a name once, whatever definitions and failed growths it has
\* seen, so the first match of the linear search is the only one (env.c:60-69).
BindsOnce ==
    \A f \in Frames : \A i, j \in Bound(f) : frames[f].names[i] = frames[f].names[j] => i = j

\* A frame owns its two arrays or none, and a growth in progress one more: one
\* that fails half-way gives back the array of names it got (env.c:33-41).
ArraysExact ==
    blocks = 2 * Cardinality({f \in Frames : Capacity(f) > 0}) + Cardinality(grows)

\* Frames are nested scopes: a growth, a failure or a definition elsewhere never
\* changes what a name means.
Abstract == INSTANCE Scopes WITH
    scope <- [f \in Frames |->
                [name \in {frames[f].names[i] : i \in Bound(f)} |->
                    frames[f].values[Slot(f, name)]]],
    parent <- [f \in Frames |-> frames[f].parent]

ImplementsScopes == Abstract!Spec
=============================================================================
