--------------------------- MODULE ExpressionPool ---------------------------
(***************************************************************************)
(* The QSYM backend's expressions and the sanitizer interface of this fork *)
(* (runtime/qsym_backend/Runtime.cpp, runtime/GarbageCollection.cpp).      *)
(*                                                                         *)
(* Clients hold raw pointers.  An expression object lives while the table  *)
(* allocatedExpressions or another live expression refers to it; its       *)
(* memory may be used again afterwards.  The collector clears the table    *)
(* except for what it finds in the registered regions and in the shadow.   *)
(*                                                                         *)
(* The sanitizer delays the equalities between symbolic addresses and      *)
(* their concrete values: a queue entry is identified by a pointer into    *)
(* the expression that was loaded (its set of input bytes), and is pushed  *)
(* when a branch depends on all of those bytes.                            *)
(***************************************************************************)
EXTENDS Naturals, FiniteSets, Sequences

CONSTANTS
  Ptr,        \* the memory blocks in which expression objects are placed
  Offsets,    \* the input is 0 .. Offsets - 1
  Slots,      \* the cells of shadow pages and registered regions
  Threshold,  \* garbageCollectionThreshold
  MaxTerms,   \* bound: expressions created
  Null        \* the null pointer

ASSUME PoolAssumption ==
  /\ Null \notin Ptr /\ Offsets \in Nat \ {0}
  /\ Threshold \in Nat /\ MaxTerms \in Nat

VARIABLES
  heap,                       \* the objects: live blocks and their contents
  allocatedExpressions,       \* the pointers in the table
  slot,                       \* the pointers that the collector can find
  inputs_,                    \* the number of input bytes the solver knows
  g_delay_constraint_queue,   \* the delayed address constraints
  g_exact_dependencies,       \* the input bytes of constraints pushed
  \* What was meant, for stating properties:
  terms,                      \* the number of expressions created so far
  held                        \* slot -> the expression that was stored there

sanitizer == <<g_delay_constraint_queue, g_exact_dependencies>>
vars == <<heap, allocatedExpressions, slot, inputs_, sanitizer, terms, held>>

\* An object: the expression it is, its operands, the bytes it depends on.
Object == [term : 1 .. MaxTerms, kids : SUBSET Ptr, deps : SUBSET (0 .. Offsets - 1)]

Live == DOMAIN heap

-----------------------------------------------------------------------------
(***************************************************************************)
(* Building expressions                                                    *)
(***************************************************************************)
\* QSYM's builder (external): a new object in a free block, or an object
\* that it remembers and that is still alive.
Build(p, kids, deps) ==
  \/ /\ p \in Ptr \ Live /\ terms < MaxTerms
     /\ heap' = [q \in Live \cup {p} |->
                   IF q = p THEN [term |-> terms + 1, kids |-> kids, deps |-> deps]
                            ELSE heap[q]]
     /\ terms' = terms + 1
  \/ /\ p \in Live /\ heap[p].kids = kids /\ heap[p].deps = deps
     /\ UNCHANGED <<heap, terms>>

\* The table keeps the expression alive; the caller gets the raw pointer.
registerExpression(p) == allocatedExpressions' = allocatedExpressions \cup {p}

\* The client stores what it got.
Keep(s, p) ==
  /\ slot' = [slot EXCEPT ![s] = p]
  /\ held' = [held EXCEPT ![s] = heap'[p].term]

\* Mutants: the vector grows too little, or too much.
PushAtEnd(offset) == inputs_' = inputs_ + 1
PushPast(offset)  == inputs_' = offset + 2

\* The solver learns the byte at the offset.
pushInputByte(offset) == inputs_' = IF inputs_ <= offset THEN offset + 1 ELSE inputs_

_sym_get_input_byte(offset, p, s) ==
  /\ pushInputByte(offset)
  /\ Build(p, {}, {offset})
  /\ registerExpression(p)
  /\ Keep(s, p)
  /\ UNCHANGED sanitizer

\* Operands are looked up in the table; an unknown one is an exception.
_sym_build_binary(a, b, p, s) ==
  /\ {a, b} \subseteq allocatedExpressions
  /\ Build(p, {a, b}, heap[a].deps \cup heap[b].deps)
  /\ registerExpression(p)
  /\ Keep(s, p)
  /\ UNCHANGED <<inputs_, sanitizer>>

\* The client overwrites a slot with a concrete value.
Overwrite(s) ==
  /\ slot[s] # Null
  /\ slot' = [slot EXCEPT ![s] = Null]
  /\ held' = [held EXCEPT ![s] = 0]
  /\ UNCHANGED <<heap, allocatedExpressions, inputs_, sanitizer, terms>>

-----------------------------------------------------------------------------
(***************************************************************************)
(* Garbage collection                                                      *)
(***************************************************************************)
Pointers == {slot[s] : s \in Slots} \ {Null}

\* Mutant: the search of a region ends one cell early.
ReachableButLast == {slot[s] : s \in Slots \ {CHOOSE t \in Slots : TRUE}} \ {Null}

collectReachableExpressions == Pointers

\* The objects that live if the given ones do (shared pointers).
Kept(roots) ==
  {p \in Live : \A S \in SUBSET Live :
     roots \subseteq S /\ (\A q \in S : heap[q].kids \subseteq S) => p \in S}

\* A block that is no longer referred to may be used again.
_sym_collect_garbage ==
  /\ Cardinality(allocatedExpressions) >= Threshold
  /\ allocatedExpressions' = allocatedExpressions \cap collectReachableExpressions
  /\ heap' = [p \in Kept(allocatedExpressions') |-> heap[p]]
  /\ UNCHANGED <<slot, inputs_, sanitizer, terms, held>>

-----------------------------------------------------------------------------
(***************************************************************************)
(* Delayed address constraints                                             *)
(***************************************************************************)
Queued == DOMAIN g_delay_constraint_queue

\* The bytes that are read through a key of the queue: those of the object
\* that is in the block now, or anything if the block is free.
DependenciesAt(q) == IF q \in Live THEN {heap[q].deps} ELSE SUBSET (0 .. Offsets - 1)

\* A value was loaded from a symbolic address: nothing is to be done if its
\* bytes are exact already or if a delayed constraint includes them.  (An
\* entry records, for the property PendingIntact, which expressions it is
\* about.)
_sym_asan_insert_symbolic_addr_node(value, addr) ==
  LET dep == heap[value].deps IN
  /\ value \in allocatedExpressions
  /\ \/ /\ \/ dep \subseteq g_exact_dependencies
           \/ \E q \in Queued : \E d \in DependenciesAt(q) : dep \subseteq d
        /\ UNCHANGED g_delay_constraint_queue
     \/ /\ ~(dep \subseteq g_exact_dependencies)
        /\ \A q \in Queued : \E d \in DependenciesAt(q) : ~(dep \subseteq d)
        /\ g_delay_constraint_queue' =
             [q \in Queued \cup {value} |->
                IF q = value
                  THEN [addr |-> addr, term |-> heap[value].term, meant |-> heap[addr].term]
                  ELSE g_delay_constraint_queue[q]]
  /\ UNCHANGED <<heap, allocatedExpressions, slot, inputs_, g_exact_dependencies,
                 terms, held>>

\* Before a branch: one delayed constraint, of those that depend on nothing
\* but what the branch depends on, is pushed and removed from the queue; the
\* order of a hash table chooses.  The equality that is built for it is a
\* new expression, with the number in place.  An address that is not in the
\* table any more is an exception.
_sym_asan_constraint_verify(expr, p) ==
  /\ Queued # {} /\ expr \in allocatedExpressions
  /\ \E q \in Queued : \E dep \in DependenciesAt(q) :
       /\ dep \subseteq heap[expr].deps
       /\ LET addr == g_delay_constraint_queue[q].addr IN
          /\ addr \in allocatedExpressions
          /\ Build(p, {addr}, heap[addr].deps)
          /\ registerExpression(p)
       /\ g_exact_dependencies' = g_exact_dependencies \cup dep
       /\ g_delay_constraint_queue' = [r \in Queued \ {q} |-> g_delay_constraint_queue[r]]
  /\ UNCHANGED <<slot, inputs_, held>>

-----------------------------------------------------------------------------
Init ==
  /\ heap = <<>> /\ allocatedExpressions = {}
  /\ slot = [s \in Slots |-> Null] /\ held = [s \in Slots |-> 0]
  /\ inputs_ = 0 /\ terms = 0
  /\ g_delay_constraint_queue = <<>> /\ g_exact_dependencies = {}

\* Clients may collect garbage between any two operations.
Next ==
  \/ \E o \in 0 .. Offsets - 1, p \in Ptr, s \in Slots : _sym_get_input_byte(o, p, s)
  \/ \E a, b \in Pointers, p \in Ptr, s \in Slots : _sym_build_binary(a, b, p, s)
  \/ \E s \in Slots : Overwrite(s)
  \/ \E v, a \in Pointers : _sym_asan_insert_symbolic_addr_node(v, a)
  \/ \E e \in Pointers, p \in Ptr : _sym_asan_constraint_verify(e, p)
  \/ _sym_collect_garbage

Spec == Init /\ [][Next]_vars

-----------------------------------------------------------------------------
\* Types.
TypeOK ==
  /\ Live \subseteq Ptr
  /\ \A p \in Live : heap[p] \in Object
  /\ allocatedExpressions \subseteq Ptr
  /\ slot \in [Slots -> Ptr \cup {Null}] /\ held \in [Slots -> 0 .. MaxTerms]
  /\ inputs_ \in 0 .. Offsets
  /\ Queued \subseteq Ptr
  /\ g_exact_dependencies \subseteq 0 .. Offsets - 1

\* Pointers in regions that the collector knows stay good across collections
\* and reuse of memory: they are in the table, so that the next operation on
\* them does not throw, and point to the expression that was stored; and all
\* that live expressions are made of is alive.
PointersValid ==
  /\ allocatedExpressions \subseteq Live
  /\ \A p \in Live : heap[p].kids \subseteq Live
  /\ \A s \in Slots : slot[s] # Null =>
       slot[s] \in allocatedExpressions /\ heap[slot[s]].term = held[s]

\* A test case can be written for every live expression: the solver knows
\* all input bytes that the expression depends on, whatever the order in
\* which they were read.
InputsKnown == \A p \in Live : heap[p].deps \subseteq 0 .. inputs_ - 1

\* "We will start collecting unused symbolic expressions" (Config.h): what a
\* delayed constraint needs is in use.  The constraint still is about the
\* value and the address for which it was delayed when it comes to be pushed.
PendingIntact ==
  \A q \in Queued :
    LET entry == g_delay_constraint_queue[q] IN
    /\ q \in Live /\ heap[q].term = entry.term
    /\ entry.addr \in allocatedExpressions /\ heap[entry.addr].term = entry.meant
=============================================================================
