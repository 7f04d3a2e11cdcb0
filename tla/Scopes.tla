------------------------------- MODULE Scopes -------------------------------
(***************************************************************************)
(* What environments promise: nested scopes, each a function from names to *)
(* values, where the innermost binding of a name is the one that counts.   *)
(***************************************************************************)
EXTENDS Integers, Sequences

CONSTANTS Name, Value, NoValue

VARIABLES
    scope,   \* the bindings of each scope
    parent,  \* the enclosing scope of each, 0 for none
    reply    \* what the last operation returned

vars == <<scope, parent, reply>>

Reply(status, value) == reply' = [status |-> status, value |-> value]

\* A scope in which the name has the value, whatever it had before.
Bind(bindings, name, value) ==
    [x \in DOMAIN bindings \cup {name} |-> IF x = name THEN value ELSE bindings[x]]

\* The innermost scope from f outwards that binds the name, or 0.
Binder(name) ==
    LET binder[f \in 0 .. Len(scope)] ==
            IF f = 0 THEN 0
            ELSE IF name \in DOMAIN scope[f] THEN f
            ELSE binder[parent[f]]
    IN  binder

Init ==
    /\ scope = <<>> /\ parent = <<>>
    /\ reply = [status |-> "OK", value |-> NoValue]

Open(outer) ==
    /\ scope' = Append(scope, [name \in {} |-> NoValue])
    /\ parent' = Append(parent, outer)
    /\ Reply("OK", NoValue)

Define(f, name, value) ==
    /\ scope' = [scope EXCEPT ![f] = Bind(@, name, value)]
    /\ Reply("OK", NoValue)
    /\ UNCHANGED parent

Set(f, name, value) ==
    /\ IF Binder(name)[f] = 0
       THEN Reply("UNBOUND", NoValue) /\ UNCHANGED scope
       ELSE /\ scope' = [scope EXCEPT ![Binder(name)[f]] = Bind(@, name, value)]
            /\ Reply("OK", NoValue)
    /\ UNCHANGED parent

Lookup(f, name) ==
    /\ IF Binder(name)[f] = 0
       THEN Reply("UNBOUND", NoValue)
       ELSE Reply("OK", scope[Binder(name)[f]][name])
    /\ UNCHANGED <<scope, parent>>

\* An operation that runs out of memory changes no binding.
Fail == Reply("NOMEM", NoValue) /\ UNCHANGED <<scope, parent>>

Next ==
    \/ Fail
    \/ \E outer \in 0 .. Len(scope) : Open(outer)
    \/ \E f \in DOMAIN scope, name \in Name :
        \/ Lookup(f, name)
        \/ \E value \in Value : Define(f, name, value) \/ Set(f, name, value)

Spec == Init /\ [][Next]_vars
=============================================================================
