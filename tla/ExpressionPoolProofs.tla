------------------------ MODULE ExpressionPoolProofs ------------------------
(***************************************************************************)
(* Expressions of the QSYM backend, for any number of memory blocks, input *)
(* bytes and clients' pointers: whenever clients collect garbage, and      *)
(* whatever is read through dangling keys of the sanitizer's queue, no     *)
(* pointer that the collector knows dangles and the solver knows the bytes *)
(* that live expressions depend on.                                        *)
(***************************************************************************)
EXTENDS ExpressionPool, TLAPS

\* The part of the invariant that is about objects.
HeapOK ==
  /\ Live \subseteq Ptr
  /\ \A p \in Live : heap[p] \in Object /\ heap[p].kids \subseteq Live
                     /\ heap[p].deps \subseteq 0 .. inputs_ - 1
  /\ terms \in 0 .. MaxTerms

\* About the table and the clients' pointers.
PoolOK ==
  /\ HeapOK
  /\ allocatedExpressions \subseteq Live
  /\ slot \in [Slots -> Ptr \cup {Null}] /\ held \in [Slots -> 0 .. MaxTerms]
  /\ inputs_ \in 0 .. Offsets
  /\ \A s \in Slots : slot[s] # Null =>
       slot[s] \in allocatedExpressions /\ heap[slot[s]].term = held[s]

\* And about the sanitizer: its keys may dangle.
QueueOK == Queued \subseteq Ptr /\ g_exact_dependencies \subseteq 0 .. Offsets - 1

\* The inductive invariant.
IInv == PoolOK /\ QueueOK

\* The invariant implies the properties that are checked.
LEMMA Implied == IInv => TypeOK /\ PointersValid /\ InputsKnown
<1> SUFFICES ASSUME IInv PROVE TypeOK /\ PointersValid /\ InputsKnown
  OBVIOUS
<1>1. TypeOK
  BY DEF IInv, PoolOK, QueueOK, HeapOK, TypeOK
<1>2. PointersValid /\ InputsKnown
  BY DEF IInv, PoolOK, HeapOK, PointersValid, InputsKnown
<1> QED
  BY <1>1, <1>2

-----------------------------------------------------------------------------
(***************************************************************************)
(* Objects                                                                 *)
(***************************************************************************)
\* Of two beginnings of the input the longer includes the shorter.
LEMMA Beginnings ==
  ASSUME NEW m \in Nat, NEW n \in Nat, m <= n
  PROVE  0 .. m - 1 \subseteq 0 .. n - 1
<1> SUFFICES ASSUME NEW k \in 0 .. m - 1 PROVE k \in 0 .. n - 1
  OBVIOUS
<1> QED
  OBVIOUS

\* An expression that is built from live operands and known bytes leaves all
\* objects as they are, and is one of them then.
LEMMA BuildOK ==
  ASSUME HeapOK, NEW p \in Ptr, NEW kids \in SUBSET Live,
         NEW deps \in SUBSET (0 .. Offsets - 1), Build(p, kids, deps),
         inputs_ \in 0 .. Offsets, inputs_' \in 0 .. Offsets,
         inputs_ <= inputs_', deps \subseteq 0 .. inputs_' - 1
  PROVE  /\ HeapOK'
         /\ Live' = Live \cup {p}
         /\ \A q \in Live : heap'[q] = heap[q]
         /\ heap'[p].kids = kids /\ heap'[p].deps = deps
<1>0. Live \subseteq Live' /\ MaxTerms \in Nat /\ Offsets \in Nat \ {0}
  BY PoolAssumption DEF Build, Live
<1>a. 0 .. inputs_ - 1 \subseteq 0 .. inputs_' - 1
  <2>1. inputs_ \in Nat /\ inputs_' \in Nat
    BY <1>0
  <2> QED
    BY <2>1, Beginnings
<1>1. CASE p \in Ptr \ Live
  <2> DEFINE new == [term |-> terms + 1, kids |-> kids, deps |-> deps]
  <2>1. /\ terms < MaxTerms /\ terms' = terms + 1
        /\ heap' = [q \in Live \cup {p} |-> IF q = p THEN new ELSE heap[q]]
    BY <1>1 DEF Build
  <2>2. Live' = Live \cup {p} /\ heap'[p] = new /\ \A q \in Live : heap'[q] = heap[q]
    BY <1>1, <2>1 DEF Live
  <2>3. new \in Object /\ new.kids = kids /\ new.deps = deps
    <3>1. terms + 1 \in 1 .. MaxTerms
      BY <1>0, <2>1 DEF HeapOK
    <3>2. kids \in SUBSET Ptr
      BY DEF HeapOK
    <3> QED
      BY <3>1, <3>2 DEF Object
  <2> HIDE DEF new
  <2>4. \A q \in Live' : heap'[q] \in Object /\ heap'[q].kids \subseteq Live'
                         /\ heap'[q].deps \subseteq 0 .. inputs_' - 1
    <3> SUFFICES ASSUME NEW q \in Live'
                 PROVE  heap'[q] \in Object /\ heap'[q].kids \subseteq Live'
                        /\ heap'[q].deps \subseteq 0 .. inputs_' - 1
      OBVIOUS
    <3>1. CASE q = p
      BY <1>0, <2>2, <2>3, <3>1
    <3>2. CASE q \in Live
      <4>1. heap[q].deps \subseteq 0 .. inputs_ - 1 /\ heap[q] \in Object
            /\ heap[q].kids \subseteq Live
        BY <3>2 DEF HeapOK
      <4> QED
        BY <1>0, <1>a, <2>2, <3>2, <4>1
    <3> QED
      BY <2>2, <3>1, <3>2
  <2>5. Live' \subseteq Ptr /\ terms' \in 0 .. MaxTerms
    BY <1>0, <2>1, <2>2 DEF HeapOK
  <2> QED
    BY <2>2, <2>3, <2>4, <2>5 DEF HeapOK
<1>2. CASE p \in Live
  <2>1. UNCHANGED <<heap, terms>> /\ heap[p].kids = kids /\ heap[p].deps = deps
    BY <1>2 DEF Build
  <2>2. Live' = Live
    BY <2>1 DEF Live
  <2> QED
    BY <1>a, <1>2, <2>1, <2>2 DEF HeapOK
<1> QED
  BY <1>1, <1>2

\* The client keeps the pointer to an expression that has been built and
\* registered.
LEMMA KeepOK ==
  ASSUME PoolOK, NEW p \in Ptr, NEW s \in Slots,
         HeapOK', Live' = Live \cup {p}, \A q \in Live : heap'[q] = heap[q],
         registerExpression(p), Keep(s, p), inputs_' \in 0 .. Offsets
  PROVE  PoolOK'
<1>1. /\ allocatedExpressions' = allocatedExpressions \cup {p}
      /\ slot' = [slot EXCEPT ![s] = p] /\ held' = [held EXCEPT ![s] = heap'[p].term]
  BY DEF registerExpression, Keep
<1>2. heap'[p].term \in 1 .. MaxTerms
  BY DEF HeapOK, Object
<1>3. heap'[p].term \in 0 .. MaxTerms
  BY <1>2, PoolAssumption
<1>4. slot' \in [Slots -> Ptr \cup {Null}] /\ held' \in [Slots -> 0 .. MaxTerms]
  BY <1>1, <1>3 DEF PoolOK
<1>5. ASSUME NEW t \in Slots, slot'[t] # Null
      PROVE  slot'[t] \in allocatedExpressions' /\ heap'[slot'[t]].term = held'[t]
  <2>1. CASE t = s
    BY <1>1, <2>1 DEF PoolOK
  <2>2. CASE t # s
    <3>1. slot'[t] = slot[t] /\ held'[t] = held[t]
      BY <1>1, <2>2 DEF PoolOK
    <3>2. slot[t] \in allocatedExpressions /\ heap[slot[t]].term = held[t] /\ slot[t] \in Live
      BY <1>5, <3>1 DEF PoolOK
    <3> QED
      BY <1>1, <3>1, <3>2
  <2> QED
    BY <2>1, <2>2
<1>6. allocatedExpressions' \subseteq Live'
  BY <1>1 DEF PoolOK
<1> QED
  BY <1>4, <1>5, <1>6 DEF PoolOK

\* What builds an expression leaves the sanitizer's state in order.
LEMMA QueueKept == QueueOK /\ UNCHANGED sanitizer => QueueOK'
BY DEF QueueOK, sanitizer, Queued

-----------------------------------------------------------------------------
(***************************************************************************)
(* The operations                                                          *)
(***************************************************************************)
\* Reading input: the solver knows the byte by the time it has an expression.
LEMMA InputByteInv ==
  ASSUME IInv, NEW o \in 0 .. Offsets - 1, NEW p \in Ptr, NEW s \in Slots,
         _sym_get_input_byte(o, p, s)
  PROVE  IInv'
<1>0. PoolOK /\ QueueOK /\ HeapOK
  BY DEF IInv, PoolOK
<1>1. /\ inputs_' = IF inputs_ <= o THEN o + 1 ELSE inputs_
      /\ Build(p, {}, {o}) /\ registerExpression(p) /\ Keep(s, p) /\ UNCHANGED sanitizer
  BY DEF _sym_get_input_byte, pushInputByte
<1>2. /\ inputs_ \in 0 .. Offsets /\ inputs_' \in 0 .. Offsets /\ inputs_ <= inputs_'
      /\ o \in 0 .. inputs_' - 1
  BY <1>0, <1>1, PoolAssumption DEF PoolOK
<1>3. /\ HeapOK' /\ Live' = Live \cup {p} /\ \A q \in Live : heap'[q] = heap[q]
  <2>1. {} \in SUBSET Live /\ {o} \in SUBSET (0 .. Offsets - 1) /\ {o} \subseteq 0 .. inputs_' - 1
    BY <1>2
  <2> QED
    BY <1>0, <1>1, <1>2, <2>1, BuildOK
<1>4. PoolOK'
  BY <1>0, <1>1, <1>2, <1>3, KeepOK
<1>5. QueueOK'
  BY <1>0, <1>1, QueueKept
<1> QED
  BY <1>4, <1>5 DEF IInv

\* A computation on expressions in the table.
LEMMA BinaryInv ==
  ASSUME IInv, NEW a, NEW b, NEW p \in Ptr, NEW s \in Slots, _sym_build_binary(a, b, p, s)
  PROVE  IInv'
<1>0. PoolOK /\ QueueOK /\ HeapOK
  BY DEF IInv, PoolOK
<1> DEFINE deps == heap[a].deps \cup heap[b].deps
<1>1. /\ {a, b} \subseteq allocatedExpressions /\ Build(p, {a, b}, deps)
      /\ registerExpression(p) /\ Keep(s, p) /\ inputs_' = inputs_ /\ UNCHANGED sanitizer
  BY DEF _sym_build_binary
<1>2. inputs_ \in 0 .. Offsets /\ inputs_ <= inputs_
  BY <1>0, PoolAssumption DEF PoolOK
<1>3. /\ HeapOK' /\ Live' = Live \cup {p} /\ \A q \in Live : heap'[q] = heap[q]
  <2>1. a \in Live /\ b \in Live
    BY <1>0, <1>1 DEF PoolOK
  <2>2. /\ deps \in SUBSET (0 .. Offsets - 1) /\ deps \subseteq 0 .. inputs_ - 1
    BY <1>0, <2>1 DEF HeapOK, Object
  <2>3. {a, b} \in SUBSET Live
    BY <2>1
  <2> HIDE DEF deps
  <2> QED
    BY <1>0, <1>1, <1>2, <2>2, <2>3, BuildOK
<1>4. PoolOK'
  BY <1>0, <1>1, <1>2, <1>3, KeepOK
<1>5. QueueOK'
  BY <1>0, <1>1, QueueKept
<1> QED
  BY <1>4, <1>5 DEF IInv

\* A slot becomes concrete.
LEMMA OverwriteInv ==
  ASSUME IInv, NEW s \in Slots, Overwrite(s)
  PROVE  IInv'
<1>0. PoolOK /\ QueueOK /\ HeapOK
  BY DEF IInv, PoolOK
<1>1. /\ slot' = [slot EXCEPT ![s] = Null] /\ held' = [held EXCEPT ![s] = 0]
      /\ heap' = heap /\ allocatedExpressions' = allocatedExpressions
      /\ inputs_' = inputs_ /\ terms' = terms /\ UNCHANGED sanitizer
  BY DEF Overwrite
<1>2. Live' = Live
  BY <1>1 DEF Live
<1>3. HeapOK'
  BY <1>0, <1>1, <1>2 DEF HeapOK
<1>4. slot' \in [Slots -> Ptr \cup {Null}] /\ held' \in [Slots -> 0 .. MaxTerms]
  BY <1>0, <1>1, PoolAssumption DEF PoolOK
<1>5. \A t \in Slots : slot'[t] # Null =>
        slot'[t] \in allocatedExpressions /\ heap[slot'[t]].term = held'[t]
  BY <1>0, <1>1 DEF PoolOK
<1>6. PoolOK'
  BY <1>0, <1>1, <1>2, <1>3, <1>4, <1>5 DEF PoolOK
<1>7. QueueOK'
  BY <1>0, <1>1, QueueKept
<1> QED
  BY <1>6, <1>7 DEF IInv

\* What only concerns the sanitizer leaves the rest in order.
LEMMA PoolKept ==
  ASSUME PoolOK, UNCHANGED <<heap, allocatedExpressions, slot, inputs_, terms, held>>
  PROVE  PoolOK'
<1>1. Live' = Live
  BY DEF Live
<1> QED
  BY <1>1 DEF PoolOK, HeapOK

\* A pointer that the collector knows is one of the table's.
LEMMA PointersInTable == IInv => Pointers \subseteq allocatedExpressions
BY DEF IInv, PoolOK, Pointers

\* Delaying an address constraint.
LEMMA InsertInv ==
  ASSUME IInv, NEW v \in Pointers, NEW a \in Pointers,
         _sym_asan_insert_symbolic_addr_node(v, a)
  PROVE  IInv'
<1>0. PoolOK /\ QueueOK /\ HeapOK
  BY DEF IInv, PoolOK
<1>1. UNCHANGED <<heap, allocatedExpressions, slot, inputs_, g_exact_dependencies, terms, held>>
  BY DEF _sym_asan_insert_symbolic_addr_node
<1>2. PoolOK'
  BY <1>0, <1>1, PoolKept
<1>3. v \in Ptr
  BY <1>0, PointersInTable DEF PoolOK, HeapOK
<1>4. Queued' \subseteq Queued \cup {v}
  BY DEF _sym_asan_insert_symbolic_addr_node, Queued
<1> QED
  BY <1>0, <1>1, <1>2, <1>3, <1>4 DEF IInv, QueueOK

\* A constraint is pushed, whatever its key points to now.
LEMMA VerifyInv ==
  ASSUME IInv, NEW e \in Pointers, NEW p \in Ptr, _sym_asan_constraint_verify(e, p)
  PROVE  IInv'
<1>0. PoolOK /\ QueueOK /\ HeapOK
  BY DEF IInv, PoolOK
<1> DEFINE Q == g_delay_constraint_queue
<1>1. PICK q \in Queued : \E dep \in DependenciesAt(q) :
        /\ dep \subseteq heap[e].deps
        /\ Q[q].addr \in allocatedExpressions
        /\ Build(p, {Q[q].addr}, heap[Q[q].addr].deps)
        /\ registerExpression(p)
        /\ g_exact_dependencies' = g_exact_dependencies \cup dep
        /\ g_delay_constraint_queue' = [r \in Queued \ {q} |-> Q[r]]
  BY DEF _sym_asan_constraint_verify
<1>a. PICK dep : dep \subseteq heap[e].deps /\ g_exact_dependencies' = g_exact_dependencies \cup dep
  BY <1>1
<1>2. UNCHANGED <<slot, inputs_, held>>
  BY DEF _sym_asan_constraint_verify
<1> DEFINE a == Q[q].addr
<1>3. inputs_ \in 0 .. Offsets /\ inputs_ <= inputs_
  BY <1>0, PoolAssumption DEF PoolOK
<1>4. HeapOK' /\ Live' = Live \cup {p} /\ \A r \in Live : heap'[r] = heap[r]
  <2>1. a \in Live
    BY <1>0, <1>1 DEF PoolOK
  <2>2. heap[a].deps \in SUBSET (0 .. Offsets - 1) /\ heap[a].deps \subseteq 0 .. inputs_ - 1
        /\ {a} \in SUBSET Live
    BY <1>0, <2>1 DEF HeapOK, Object
  <2>3. Build(p, {a}, heap[a].deps)
    BY <1>1
  <2>4. inputs_' = inputs_
    BY <1>2
  <2> HIDE DEF a
  <2> QED
    BY <1>0, <1>3, <2>2, <2>3, <2>4, BuildOK
<1>5. allocatedExpressions' = allocatedExpressions \cup {p}
  BY <1>1 DEF registerExpression
<1>6. PoolOK'
  BY <1>0, <1>2, <1>4, <1>5 DEF PoolOK
<1>7. Queued' \subseteq Queued
  BY <1>1 DEF Queued
<1>8. heap[e].deps \subseteq 0 .. Offsets - 1
  BY <1>0, PointersInTable DEF PoolOK, HeapOK, Object
<1>9. QueueOK'
  BY <1>0, <1>a, <1>7, <1>8 DEF QueueOK
<1> QED
  BY <1>6, <1>9 DEF IInv

-----------------------------------------------------------------------------
(***************************************************************************)
(* Collection                                                              *)
(***************************************************************************)
\* What the shared pointers keep alive includes the objects they start from,
\* and the operands of everything in it.
LEMMA KeptClosed ==
  ASSUME HeapOK, NEW roots \in SUBSET Live
  PROVE  /\ roots \subseteq Kept(roots) /\ Kept(roots) \subseteq Live
         /\ \A p \in Kept(roots) : heap[p].kids \subseteq Kept(roots)
<1>1. roots \subseteq Kept(roots) /\ Kept(roots) \subseteq Live
  BY DEF Kept
<1>2. ASSUME NEW p \in Kept(roots), NEW k \in heap[p].kids
      PROVE  k \in Kept(roots)
  <2>1. k \in Live
    BY <1>1, <1>2 DEF HeapOK
  <2>2. ASSUME NEW S \in SUBSET Live, roots \subseteq S, \A q \in S : heap[q].kids \subseteq S
        PROVE  k \in S
    <3>1. p \in S
      BY <1>2, <2>2 DEF Kept
    <3> QED
      BY <1>2, <2>2, <3>1
  <2> QED
    BY <2>1, <2>2 DEF Kept
<1> QED
  BY <1>1, <1>2

\* The collector frees nothing that a client still has.
LEMMA CollectInv ==
  ASSUME IInv, _sym_collect_garbage
  PROVE  IInv'
<1>0. PoolOK /\ QueueOK /\ HeapOK /\ Pointers \subseteq allocatedExpressions
  BY PointersInTable DEF IInv, PoolOK
<1> DEFINE K == Kept(Pointers)
<1>1. /\ allocatedExpressions' = Pointers
      /\ UNCHANGED <<slot, inputs_, sanitizer, terms, held>>
  BY <1>0 DEF _sym_collect_garbage, collectReachableExpressions
<1>2. heap' = [p \in K |-> heap[p]]
  BY <1>1 DEF _sym_collect_garbage
<1>3. Live' = K /\ \A p \in K : heap'[p] = heap[p]
  BY <1>2 DEF Live
<1>4. Pointers \subseteq K /\ K \subseteq Live /\ \A p \in K : heap[p].kids \subseteq K
  <2>1. Pointers \in SUBSET Live
    BY <1>0 DEF PoolOK
  <2> QED
    BY <1>0, <2>1, KeptClosed
<1> HIDE DEF K
<1>5. HeapOK'
  BY <1>0, <1>1, <1>3, <1>4 DEF HeapOK
<1>6. ASSUME NEW s \in Slots, slot[s] # Null
      PROVE  slot[s] \in Pointers /\ heap'[slot[s]].term = held[s]
  <2>1. slot[s] \in Pointers /\ slot[s] \in K
    BY <1>4, <1>6 DEF Pointers
  <2> QED
    BY <1>0, <1>3, <1>6, <2>1 DEF PoolOK
<1>7. PoolOK'
  BY <1>0, <1>1, <1>3, <1>4, <1>5, <1>6 DEF PoolOK
<1> QED
  BY <1>0, <1>1, <1>7, QueueKept DEF IInv

-----------------------------------------------------------------------------
(***************************************************************************)
(* The theorems                                                            *)
(***************************************************************************)
\* The invariant holds at the start.
LEMMA InitInv == Init => IInv
<1> SUFFICES ASSUME Init PROVE IInv
  OBVIOUS
<1>1. Live = {} /\ Queued = {}
  BY DEF Init, Live, Queued
<1>2. PoolOK
  BY <1>1, PoolAssumption DEF Init, PoolOK, HeapOK
<1>3. QueueOK
  BY <1>1 DEF Init, QueueOK
<1> QED
  BY <1>2, <1>3 DEF IInv

\* No operation breaks it.
LEMMA NextInv == IInv /\ [Next]_vars => IInv'
<1> SUFFICES ASSUME IInv, [Next]_vars PROVE IInv'
  OBVIOUS
<1>1. ASSUME NEW o \in 0 .. Offsets - 1, NEW p \in Ptr, NEW s \in Slots, _sym_get_input_byte(o, p, s)
      PROVE  IInv'
  BY <1>1, InputByteInv
<1>2. ASSUME NEW a \in Pointers, NEW b \in Pointers, NEW p \in Ptr, NEW s \in Slots,
             _sym_build_binary(a, b, p, s)
      PROVE  IInv'
  BY <1>2, BinaryInv
<1>3. ASSUME NEW s \in Slots, Overwrite(s)
      PROVE  IInv'
  BY <1>3, OverwriteInv
<1>4. ASSUME NEW v \in Pointers, NEW a \in Pointers, _sym_asan_insert_symbolic_addr_node(v, a)
      PROVE  IInv'
  BY <1>4, InsertInv
<1>5. ASSUME NEW e \in Pointers, NEW p \in Ptr, _sym_asan_constraint_verify(e, p)
      PROVE  IInv'
  BY <1>5, VerifyInv
<1>6. CASE _sym_collect_garbage
  BY <1>6, CollectInv
<1>7. CASE UNCHANGED vars
  <2>1. PoolOK'
    BY <1>7, PoolKept DEF IInv, vars
  <2>3. QueueOK'
    BY <1>7, QueueKept DEF IInv, vars
  <2> QED
    BY <2>1, <2>3 DEF IInv
<1> QED
  BY <1>1, <1>2, <1>3, <1>4, <1>5, <1>6, <1>7 DEF Next

\* The state has its types, whatever is built, delayed and collected: also
\* when a key of the queue points to freed memory.
THEOREM PoolTypes == Spec => []TypeOK
BY InitInv, NextInv, Implied, PTL DEF Spec

\* No pointer that the collector knows dangles, across any number of
\* collections and uses of the same memory.
THEOREM NoPointerDangles == Spec => []PointersValid
BY InitInv, NextInv, Implied, PTL DEF Spec

\* The solver knows every input byte that a live expression depends on.
THEOREM SolverKnowsInputs == Spec => []InputsKnown
BY InitInv, NextInv, Implied, PTL DEF Spec
=============================================================================
