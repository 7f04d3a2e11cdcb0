------------------------------- MODULE Symtab -------------------------------
(***************************************************************************)
(* The symbol table of src/src/symtab.c: an array of names that doubles    *)
(* when it is full, searched from its first entry.  A call of              *)
(* ml_sym_intern is one step, with an action for each way it can end; one  *)
(* that has to grow the array is two, since the array stays grown whatever *)
(* becomes of the call.                                                    *)
(*                                                                         *)
(* Abstractions.  A name is a member of Name, compared as names_equal      *)
(* compares length and bytes.  `blocks` counts what ml_raw_alloc has given *)
(* and ml_raw_free has not taken back.                                     *)
(***************************************************************************)
EXTENDS Integers, FiniteSets

CONSTANTS
    Name,           \* the names the reader can meet
    Garbage,        \* what an array holds before it is written
    NoSymbol,       \* no symbol: the call failed
    NoCall,         \* no call has grown the array and goes on
    FirstCapacity,  \* the first capacity of the array, 32 in the code
    Ceiling         \* the index ceiling, 0x0FFFFFFF in the code

ASSUME SymtabAssumption ==
    /\ Garbage \notin Name /\ NoCall \notin Name
    /\ NoSymbol \notin Nat
    /\ FirstCapacity \in Nat \ {0}
    /\ Ceiling \in Nat

VARIABLES
    entries,   \* s->symtab.entries, indexed from 0 to capacity - 1
    count,     \* s->symtab.count
    capacity,  \* s->symtab.capacity
    blocks,    \* raw blocks in use: the array and one copy of each name
    grown,     \* the name of the call that has grown the array, or NoCall
    reply,     \* the symbol of the last call, or NoSymbol
    issued     \* every <<name, symbol>> a call has ever given (history)

vars == <<entries, count, capacity, blocks, grown, reply, issued>>

Indices == 0 .. count - 1

Init ==
    /\ entries = [i \in {} |-> Garbage]
    /\ count = 0
    /\ capacity = 0
    /\ blocks = 0
    /\ grown = NoCall
    /\ reply = NoSymbol
    /\ issued = {}

-----------------------------------------------------------------------------
\* Fault: the search ends before the last entry.
KnownButLast(name) == \E i \in 0 .. count - 2 : entries[i] = name

Known(name) == \E i \in Indices : entries[i] = name

\* The first entry with the name.
Found(name) ==
    /\ grown = NoCall
    /\ \E i \in Indices :
        /\ entries[i] = name
        /\ \A j \in 0 .. i - 1 : entries[j] # name
        /\ reply' = i
        /\ issued' = issued \cup {<<name, i>>}
    /\ UNCHANGED <<entries, count, capacity, blocks, grown>>

Full == count = capacity
NewCapacity == IF capacity = 0 THEN FirstCapacity ELSE 2 * capacity

\* Fault: the copy is one entry short.
LargerShort ==
    [i \in 0 .. NewCapacity - 1 |-> IF i < count - 1 THEN entries[i] ELSE Garbage]

\* The new array, with the entries of the old one.
Larger == [i \in 0 .. NewCapacity - 1 |-> IF i < count THEN entries[i] ELSE Garbage]

\* The larger array is not to be had.
GrowFails(name) ==
    /\ grown = NoCall
    /\ ~Known(name) /\ Full
    /\ reply' = NoSymbol
    /\ UNCHANGED <<entries, count, capacity, blocks, grown, issued>>

\* Fault: the old array is not given back.
GrowLeaks(name) ==
    /\ grown = NoCall
    /\ ~Known(name) /\ Full
    /\ entries' = Larger
    /\ capacity' = NewCapacity
    /\ blocks' = blocks + 1
    /\ grown' = name
    /\ UNCHANGED <<count, reply, issued>>

\* The larger array is installed and the old one, if any, given back.
Grow(name) ==
    /\ grown = NoCall
    /\ ~Known(name) /\ Full
    /\ entries' = Larger
    /\ capacity' = NewCapacity
    /\ blocks' = IF capacity = 0 THEN blocks + 1 ELSE blocks
    /\ grown' = name
    /\ UNCHANGED <<count, reply, issued>>

\* There is room for a new name, from the start or since the array has grown.
Roomy(name) == grown = name \/ (grown = NoCall /\ ~Known(name) /\ ~Full)

\* Fault: the symbol is made after the count has moved on.
AppendedLate(name) ==
    /\ Roomy(name) /\ count <= Ceiling
    /\ entries' = [entries EXCEPT ![count] = name]
    /\ blocks' = blocks + 1
    /\ count' = count + 1
    /\ grown' = NoCall
    /\ reply' = count + 1
    /\ issued' = issued \cup {<<name, count + 1>>}
    /\ UNCHANGED capacity

\* The name is copied and appended.
Appended(name) ==
    /\ Roomy(name) /\ count <= Ceiling
    /\ entries' = [entries EXCEPT ![count] = name]
    /\ blocks' = blocks + 1
    /\ count' = count + 1
    /\ grown' = NoCall
    /\ reply' = count
    /\ issued' = issued \cup {<<name, count>>}
    /\ UNCHANGED capacity

\* The ceiling is reached or the name cannot be copied: growth is not undone.
CopyFails(name) ==
    /\ Roomy(name)
    /\ grown' = NoCall
    /\ reply' = NoSymbol
    /\ UNCHANGED <<entries, count, capacity, blocks, issued>>

Intern(name) ==
    Found(name) \/ GrowFails(name) \/ Grow(name) \/ Appended(name) \/ CopyFails(name)

Next == \E name \in Name : Intern(name)

Spec == Init /\ [][Next]_vars

-----------------------------------------------------------------------------
\* The array has the size it says, with names up to count and garbage after.
TypeOK ==
    /\ count \in Nat /\ capacity \in Nat /\ blocks \in Nat
    /\ count <= capacity
    /\ entries \in [0 .. capacity - 1 -> Name \cup {Garbage}]
    /\ \A i \in Indices : entries[i] \in Name
    /\ grown \in Name \cup {NoCall}
    /\ reply \in Nat \cup {NoSymbol}
    /\ issued \subseteq Name \X Nat

\* No name has two entries, whatever failed calls and growths came before: two
\* symbols are the same name exactly when their indices are equal.
Unique == \A i, j \in Indices : entries[i] = entries[j] => i = j

\* ml_sym_name of every symbol ever given still is the name it was given for
\* (symtab.c:95-107): growth moves the array, never an index.
Stable == \A p \in issued : p[2] \in Indices /\ entries[p[2]] = p[1]

\* The table owns one block per name and one for the array: no failed call
\* leaks a block, and a growth gives the old array back (symtab.c:50-82).
BlocksExact == blocks = count + (IF capacity = 0 THEN 0 ELSE 1)

\* The table interns (symtab.c:34-93): one symbol for each name, for ever, and
\* none above the index ceiling of the tag layout.
Abstract == INSTANCE Interner WITH
    Symbol <- 0 .. Ceiling,
    known <- issued

ImplementsInterner == Abstract!Spec
=============================================================================
