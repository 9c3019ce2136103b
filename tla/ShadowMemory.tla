---------------------------- MODULE ShadowMemory ----------------------------
(***************************************************************************)
(* The shadow memory of the SymCC run-time library: runtime/Shadow.h, and  *)
(* the operations of runtime/RuntimeCommon.cpp and LibcWrappers.cpp that   *)
(* walk over it.                                                           *)
(*                                                                         *)
(* The library keeps, next to the bytes of the program's memory, one       *)
(* expression per byte (or null for a concrete byte).  Expressions live in *)
(* pages that are allocated by the first write, and every operation walks  *)
(* over them with iterators that CACHE a pointer into the current page.    *)
(* A copy therefore reads through a pointer that was fetched before the    *)
(* copy's own writes allocated pages; the loops are modelled one iterator  *)
(* step at a time so that such stale pointers are part of the state.       *)
(*                                                                         *)
(* An expression is an uninterpreted element of Expr together with the     *)
(* byte Val[e] it evaluates to under the input of the current execution.   *)
(***************************************************************************)
EXTENDS Integers

CONSTANTS
  kPageSize,    \* bytes (and shadow slots) per page
  Addr,         \* the addresses of the program's memory
  Lengths,      \* sizes of the regions passed to memcpy and friends
  WordSizes,    \* sizes of the values that loads and stores move
  Byte,         \* values of a byte of memory; contains 0
  Expr,         \* 8-bit expressions
  Null,         \* the null pointer
  Val,          \* Val[e]: what e evaluates to under the current input
  Const,        \* Const[b]: the expression _sym_build_integer(b, 8)
  InputByte,    \* InputByte[o]: the expression _sym_get_input_byte(o, _)
  LittleEndian  \* the byte order of the target

ASSUME PageSizeAssumption == kPageSize \in Nat \ {0}
ASSUME AddrAssumption     == Addr \subseteq Nat
ASSUME LengthAssumption   == Lengths \subseteq Nat /\ WordSizes \subseteq Nat \ {0}
ASSUME NullAssumption     == Null \notin Expr
ASSUME ByteAssumption     == 0 \in Byte
ASSUME ExprAssumption     == /\ Val \in [Expr -> Byte]
                             /\ Const \in [Byte -> Expr]
                             /\ \A b \in Byte : Val[Const[b]] = b
ASSUME InputAssumption    == /\ DOMAIN InputByte \subseteq Nat
                             /\ \A o \in DOMAIN InputByte : InputByte[o] \in Expr
ASSUME EndianAssumption   == LittleEndian \in BOOLEAN

VARIABLES
  mem,             \* the program's memory
  g_shadow_pages,  \* page address -> expressions of its bytes; a partial map
  op,              \* the loop over shadow memory that is running
  loaded           \* the value and the expression of a load just executed

vars == <<mem, g_shadow_pages, op, loaded>>

-----------------------------------------------------------------------------
(***************************************************************************)
(* Pages and iterators (Shadow.h)                                          *)
(***************************************************************************)
SymExpr == Expr \cup {Null}

pageOffset(addr) == addr % kPageSize
pageStart(addr)  == addr - pageOffset(addr)

\* The one-past-the-end iterator of a region may point to the next page.
PageAddrs == {pageStart(a) : a \in Addr} \cup {pageStart(a + 1) : a \in Addr}
Slots     == 0 .. kPageSize - 1
\* Mutant: a page that is not cleared when it is allocated.
UnclearedPage == [s \in Slots |-> "heap garbage"]
NewPage   == [s \in Slots |-> Null]

\* The null pointer into shadow memory.
NullPtr == [page |-> -1, slot |-> 0]

getShadow(pages, addr) ==
  IF pageStart(addr) \in DOMAIN pages
    THEN [page |-> pageStart(addr), slot |-> pageOffset(addr)]
    ELSE NullPtr

\* The map after getOrCreateShadow(addr).
WithShadow(pages, addr) ==
  [p \in DOMAIN pages \cup {pageStart(addr)} |->
     IF p \in DOMAIN pages THEN pages[p] ELSE NewPage]

Iterator(pages, addr) == [address |-> addr, shadow |-> getShadow(pages, addr)]

\* Mutant: an iterator whose null pointer is not fetched again.
AdvanceKeepsNull(pages, it, step) ==
  LET addr == it.address + step IN
  [address |-> addr,
   shadow  |-> IF it.shadow = NullPtr THEN NullPtr
               ELSE IF pageStart(addr) # pageStart(it.address)
                      THEN getShadow(pages, addr)
                      ELSE [it.shadow EXCEPT !.slot = @ + step]]

\* operator++ (step = 1) and operator-- (step = -1): the cached pointer is
\* moved along, and fetched again only when the iterator changes pages.
Advance(pages, it, step) ==
  LET addr == it.address + step IN
  [address |-> addr,
   shadow  |-> IF pageStart(addr) # pageStart(it.address)
                 THEN getShadow(pages, addr)
                 ELSE IF it.shadow = NullPtr
                        THEN NullPtr
                        ELSE [it.shadow EXCEPT !.slot = @ + step]]

\* The map after ++ or -- of a WriteShadowIterator.
PagesAfter(pages, it, step) ==
  IF pageStart(it.address + step) # pageStart(it.address)
    THEN WithShadow(pages, it.address + step)
    ELSE pages

Deref(pages, it) ==
  IF it.shadow = NullPtr THEN Null ELSE pages[it.shadow.page][it.shadow.slot]

Put(pages, it, e) == [pages EXCEPT ![it.shadow.page][it.shadow.slot] = e]

\* The expression of one byte of memory.
Shadow(pages, addr) == Deref(pages, Iterator(pages, addr))

\* Mutant: the fast path looks at the first page of the region only.
isConcreteFirstPage(pages, addr, nbytes) ==
  \/ pageStart(addr) \notin DOMAIN pages
  \/ \A a \in addr .. addr + nbytes - 1 : Shadow(pages, a) = Null

\* A read-only walk meets no new page, so its iterators are never stale.
isConcrete(pages, addr, nbytes) ==
  \/ /\ pageStart(addr) = pageStart(addr + nbytes)
     /\ pageStart(addr) \notin DOMAIN pages
  \/ \A a \in addr .. addr + nbytes - 1 : Shadow(pages, a) = Null

-----------------------------------------------------------------------------
(***************************************************************************)
(* Loops.  op is one of                                                    *)
(*   - Idle;                                                               *)
(*   - std::copy (forward) and std::copy_backward (backward), with the     *)
(*     source iterator, the destination iterator and the source address    *)
(*     at which the loop stops; rest bytes are set to null afterwards;     *)
(*   - std::fill, std::generate and the range-for of _sym_write_memory     *)
(*     (assign), with the expression that each address receives.           *)
(***************************************************************************)
Idle == [kind |-> "idle"]

Forward(src, dst, stop, rest) ==
  [kind |-> "forward", src |-> src, dst |-> dst, stop |-> stop, rest |-> rest]
Backward(src, dst, stop) ==
  [kind |-> "backward", src |-> src, dst |-> dst, stop |-> stop]
Assign(dst, stop, vals) ==
  [kind |-> "assign", dst |-> dst, stop |-> stop, vals |-> vals]

\* C++ leaves open whether src.begin() or dest.begin() is evaluated first,
\* that is, whether the source iterator sees a page the destination creates.
StartForward(dest, src, n, rest) ==
  LET pages == WithShadow(g_shadow_pages, dest) IN
  /\ g_shadow_pages' = pages
  /\ \E seen \in {g_shadow_pages, pages} :
       op' = Forward(Iterator(seen, src), Iterator(pages, dest), src + n, rest)

StartBackward(dest, src, n) ==
  LET pages == WithShadow(g_shadow_pages, dest + n) IN
  /\ g_shadow_pages' = pages
  /\ \E seen \in {g_shadow_pages, pages} :
       op' = Backward(Iterator(seen, src + n), Iterator(pages, dest + n), src)

\* Both begin() and end() of a ReadWriteShadow create the page they point to.
StartAssign(addr, n, vals) ==
  LET all == WithShadow(WithShadow(g_shadow_pages, addr), addr + n) IN
  /\ g_shadow_pages' = all
  /\ op' = Assign(Iterator(all, addr), addr + n, vals)

Fill(addr, n, e) ==
  StartAssign(addr, n, [a \in addr .. addr + n - 1 |-> e])

SkipShadow == UNCHANGED <<g_shadow_pages, op>>

\* Mutant: a copy that does not advance.
CopyForwardStuck ==
  /\ op.kind = "forward"
  /\ op.src.address # op.stop
  /\ g_shadow_pages' = Put(g_shadow_pages, op.dst, Deref(g_shadow_pages, op.src))
  /\ UNCHANGED <<mem, op, loaded>>

\* for (; first != last; ++result, ++first) *result = *first;
CopyForwardStep ==
  /\ op.kind = "forward"
  /\ op.src.address # op.stop
  /\ LET written == Put(g_shadow_pages, op.dst, Deref(g_shadow_pages, op.src))
         pages   == PagesAfter(written, op.dst, 1) IN
     /\ g_shadow_pages' = pages
     /\ op' = [op EXCEPT !.src = Advance(pages, @, 1),
                         !.dst = Advance(pages, @, 1)]
  /\ UNCHANGED <<mem, loaded>>

\* while (first != last) *--result = *--last; C++17 evaluates the right-hand
\* side first.
CopyBackwardStep ==
  /\ op.kind = "backward"
  /\ op.src.address # op.stop
  /\ LET src   == Advance(g_shadow_pages, op.src, -1)
         pages == PagesAfter(g_shadow_pages, op.dst, -1)
         dst   == Advance(pages, op.dst, -1) IN
     /\ g_shadow_pages' = Put(pages, dst, Deref(g_shadow_pages, src))
     /\ op' = [op EXCEPT !.src = src, !.dst = dst]
  /\ UNCHANGED <<mem, loaded>>

\* for (; first != last; ++first) *first = <next expression>;
AssignStep ==
  /\ op.kind = "assign"
  /\ op.dst.address # op.stop
  /\ LET written == Put(g_shadow_pages, op.dst, op.vals[op.dst.address])
         pages   == PagesAfter(written, op.dst, 1) IN
     /\ g_shadow_pages' = pages
     /\ op' = [op EXCEPT !.dst = Advance(pages, @, 1)]
  /\ UNCHANGED <<mem, loaded>>

\* The end of a loop: strncpy goes on to clear the rest of its destination,
\* everything else returns to the program.
LoopDone ==
  /\ \/ /\ op.kind = "forward" /\ op.src.address = op.stop
        /\ IF op.rest > 0
             THEN Fill(op.dst.address, op.rest, Null)
             ELSE op' = Idle /\ UNCHANGED g_shadow_pages
     \/ /\ op.kind = "backward" /\ op.src.address = op.stop
        /\ op' = Idle /\ UNCHANGED g_shadow_pages
     \/ /\ op.kind = "assign" /\ op.dst.address = op.stop
        /\ op' = Idle /\ UNCHANGED g_shadow_pages
  /\ UNCHANGED <<mem, loaded>>

-----------------------------------------------------------------------------
(***************************************************************************)
(* Calls that the instrumented program makes.  Each first changes memory   *)
(* (the concrete call), then starts the loop over the shadow.              *)
(***************************************************************************)
Region(a, n)  == a .. a + n - 1
Mapped(a, n)  == a \in Addr /\ Region(a, n) \subseteq Addr
Disjoint(a, m, b, n) == Region(a, m) \cap Region(b, n) = {}

\* An n-byte expression maps the significance of a byte to its expression;
\* the null expression has no byte that is not null.
NullWord(n) == [k \in 0 .. n - 1 |-> Null]
Words(n)    == [0 .. n - 1 -> Expr] \cup {NullWord(n)}

\* The significance of the i-th byte in memory of an n-byte value; also the
\* position in memory of the byte with significance i.
ByteOrder(n, i) == IF LittleEndian THEN i ELSE n - 1 - i

NoValue == [val |-> <<>>, expr |-> <<>>]

Ready == op.kind = "idle" /\ loaded' = NoValue

Overwrite(a, n, f) ==
  mem' = [x \in Addr |-> IF x \in Region(a, n) THEN f[x] ELSE mem[x]]

\* visitLoadInst, _sym_read_memory: bytes without an expression are lifted
\* to constants unless the whole region is concrete.
Load(a, n) ==
  /\ op.kind = "idle"
  /\ Mapped(a, n)
  /\ LET At(k)  == a + ByteOrder(n, k)
         NonNull(x) == IF Shadow(g_shadow_pages, x) # Null
                         THEN Shadow(g_shadow_pages, x)
                         ELSE Const[mem[x]] IN
     loaded' = [val  |-> [k \in 0 .. n - 1 |-> mem[At(k)]],
                expr |-> IF isConcrete(g_shadow_pages, a, n)
                           THEN NullWord(n)
                           ELSE [k \in 0 .. n - 1 |-> NonNull(At(k))]]
  /\ UNCHANGED <<mem, g_shadow_pages, op>>

\* _sym_write_memory: byte i of the region gets the extracted byte of expr.
_sym_write_memory(a, n, expr) ==
  IF expr = NullWord(n)
    THEN IF isConcrete(g_shadow_pages, a, n)
           THEN SkipShadow
           ELSE Fill(a, n, Null)
    ELSE StartAssign(a, n,
                     [x \in Region(a, n) |-> expr[ByteOrder(n, x - a)]])

\* visitStoreInst: the stored value is any that the instrumented program may
\* hold, concrete or with an expression that evaluates to it.
Store(a, n, val, expr) ==
  /\ Ready
  /\ Mapped(a, n)
  /\ expr # NullWord(n) => \A k \in 0 .. n - 1 : Val[expr[k]] = val[k]
  /\ Overwrite(a, n, [x \in Region(a, n) |-> val[ByteOrder(n, x - a)]])
  /\ _sym_write_memory(a, n, expr)

_sym_memcpy(dest, src, n) ==
  IF isConcrete(g_shadow_pages, src, n) /\ isConcrete(g_shadow_pages, dest, n)
    THEN SkipShadow
    ELSE StartForward(dest, src, n, 0)

\* memcpy: overlapping regions would be undefined behaviour of the program.
Memcpy(dest, src, n) ==
  /\ Ready
  /\ Mapped(dest, n) /\ Mapped(src, n) /\ Disjoint(dest, n, src, n)
  /\ Overwrite(dest, n, [x \in Region(dest, n) |-> mem[x - dest + src]])
  /\ _sym_memcpy(dest, src, n)

\* Mutant: memmove that copies forward whatever the overlap.
MemmoveForwardOnly(dest, src, n) ==
  IF isConcrete(g_shadow_pages, src, n) /\ isConcrete(g_shadow_pages, dest, n)
    THEN SkipShadow
    ELSE StartForward(dest, src, n, 0)

_sym_memmove(dest, src, n) ==
  IF isConcrete(g_shadow_pages, src, n) /\ isConcrete(g_shadow_pages, dest, n)
    THEN SkipShadow
    ELSE IF dest > src THEN StartBackward(dest, src, n)
                       ELSE StartForward(dest, src, n, 0)

\* memmove, bcopy and the memmove intrinsic.
Memmove(dest, src, n) ==
  /\ Ready
  /\ Mapped(dest, n) /\ Mapped(src, n)
  /\ Overwrite(dest, n, [x \in Region(dest, n) |-> mem[x - dest + src]])
  /\ _sym_memmove(dest, src, n)

_sym_memset(a, n, e) ==
  IF e = Null /\ isConcrete(g_shadow_pages, a, n)
    THEN SkipShadow
    ELSE Fill(a, n, e)

\* The memset intrinsic, whose value is a byte.
Memset(a, n, b, e) ==
  /\ Ready
  /\ Mapped(a, n)
  /\ e # Null => Val[e] = b
  /\ Overwrite(a, n, [x \in Region(a, n) |-> b])
  /\ _sym_memset(a, n, e)

Bzero(a, n) ==
  /\ Ready
  /\ Mapped(a, n)
  /\ Overwrite(a, n, [x \in Region(a, n) |-> 0])
  /\ Fill(a, n, Null)

\* strnlen(src, n) = copied
IsStrnlen(src, n, copied) ==
  /\ copied <= n
  /\ Mapped(src, copied)
  /\ \A i \in 0 .. copied - 1 : mem[src + i] # 0
  /\ copied < n => src + copied \in Addr /\ mem[src + copied] = 0

\* Mutant: strncpy that leaves the shadow of its padding alone.
StrncpyKeepsRest(dest, src, n, copied) ==
  /\ Ready
  /\ Mapped(dest, n)
  /\ IsStrnlen(src, n, copied)
  /\ Disjoint(dest, n, src, IF copied < n THEN copied + 1 ELSE n)
  /\ Overwrite(dest, n, [x \in Region(dest, n) |->
                           IF x < dest + copied THEN mem[x - dest + src] ELSE 0])
  /\ IF isConcrete(g_shadow_pages, src, copied) /\ isConcrete(g_shadow_pages, dest, n)
       THEN SkipShadow
       ELSE StartForward(dest, src, copied, 0)

Strncpy(dest, src, n, copied) ==
  /\ Ready
  /\ Mapped(dest, n)
  /\ IsStrnlen(src, n, copied)
  /\ Disjoint(dest, n, src, IF copied < n THEN copied + 1 ELSE n)
  /\ Overwrite(dest, n, [x \in Region(dest, n) |->
                           IF x < dest + copied THEN mem[x - dest + src] ELSE 0])
  /\ IF isConcrete(g_shadow_pages, src, copied) /\ isConcrete(g_shadow_pages, dest, n)
       THEN SkipShadow
       ELSE StartForward(dest, src, copied, n - copied)

\* read, fread from the symbolic input, at input offset off.
_sym_make_symbolic(a, n, off) ==
  StartAssign(a, n, [x \in Region(a, n) |-> InputByte[off + x - a]])

ReadInput(a, n, off) ==
  /\ Ready
  /\ Mapped(a, n)
  /\ off .. off + n - 1 \subseteq DOMAIN InputByte
  /\ Overwrite(a, n, [x \in Region(a, n) |-> Val[InputByte[off + x - a]]])
  /\ _sym_make_symbolic(a, n, off)

\* read, fread, fgets and mmap of anything else.
ReadConcrete(a, n, bytes) ==
  /\ Ready
  /\ Mapped(a, n)
  /\ Overwrite(a, n, [x \in Region(a, n) |-> bytes[x - a]])
  /\ IF isConcrete(g_shadow_pages, a, n) THEN SkipShadow ELSE Fill(a, n, Null)

-----------------------------------------------------------------------------
Init ==
  /\ mem \in [Addr -> Byte]
  /\ g_shadow_pages = [p \in {} |-> NewPage]
  /\ op = Idle
  /\ loaded = NoValue

LoopStep == CopyForwardStep \/ CopyBackwardStep \/ AssignStep \/ LoopDone

Call(a, n) ==
  \/ \E src \in Addr : Memcpy(a, src, n) \/ Memmove(a, src, n)
  \/ \E src \in Addr, copied \in 0 .. n : Strncpy(a, src, n, copied)
  \/ \E b \in Byte, e \in SymExpr : Memset(a, n, b, e)
  \/ Bzero(a, n)
  \/ \E off \in DOMAIN InputByte : ReadInput(a, n, off)
  \/ \E bytes \in [0 .. n - 1 -> Byte] : ReadConcrete(a, n, bytes)

Access(a, n) ==
  \/ Load(a, n)
  \/ \E val \in [0 .. n - 1 -> Byte], expr \in Words(n) : Store(a, n, val, expr)

Next ==
  \/ LoopStep
  \/ \E a \in Addr : \/ \E n \in Lengths : Call(a, n)
                     \/ \E n \in WordSizes : Access(a, n)

Spec == Init /\ [][Next]_vars

FairSpec == Spec /\ WF_vars(LoopStep)

-----------------------------------------------------------------------------
(***************************************************************************)
(* Properties                                                              *)
(***************************************************************************)
\* The expression that address a will have when loop o is done, if the loop
\* still finds its source unchanged.
Settled(pages, o, a) ==
  LET dst  == o.dst.address
      left == o.stop - o.src.address IN
  IF o.kind = "forward" /\ a \in dst .. dst + left - 1
    THEN Shadow(pages, a - dst + o.src.address)
  ELSE IF o.kind = "forward" /\ a \in dst + left .. dst + left + o.rest - 1
    THEN Null
  ELSE IF o.kind = "backward" /\ a \in dst + left .. dst - 1
    THEN Shadow(pages, a - dst + o.src.address)
  ELSE IF o.kind = "assign" /\ a \in dst .. o.stop - 1
    THEN o.vals[a]
  ELSE Shadow(pages, a)

Flat == INSTANCE ConcolicMemory
          WITH shadow <- [a \in Addr |-> Settled(g_shadow_pages, op, a)]

PagesOK(pages) ==
  /\ DOMAIN pages \subseteq PageAddrs
  /\ pages \in [DOMAIN pages -> [Slots -> SymExpr]]

\* The cached pointer is the one a fresh lookup of the address would yield.
Valid(pages, it) ==
  /\ it.address \in Nat
  /\ pageStart(it.address) \in DOMAIN pages
  /\ it.shadow = [page |-> pageStart(it.address), slot |-> pageOffset(it.address)]

\* A source iterator may hold a null pointer although its page has been
\* allocated since, provided that no expression it still has to read is on
\* that page.
Reads(pages, it, region) ==
  \/ Valid(pages, it)
  \/ /\ it.address \in Nat
     /\ it.shadow = NullPtr
     /\ \A x \in region : pageStart(x) = pageStart(it.address) => Shadow(pages, x) = Null

\* What holds of a running loop: the destination iterator is valid, the
\* source iterator reads what is there, and no byte that is still to be read
\* will have been overwritten.
LoopOK(pages, o) ==
  \/ o = Idle
  \/ /\ o.kind = "forward"
     /\ o = Forward(o.src, o.dst, o.stop, o.rest)
     /\ o.src = [address |-> o.src.address, shadow |-> o.src.shadow]
     /\ o.dst = [address |-> o.dst.address, shadow |-> o.dst.shadow]
     /\ o.stop \in Nat /\ o.rest \in Nat
     /\ Valid(pages, o.dst)
     /\ Reads(pages, o.src, o.src.address .. o.stop - 1)
     /\ o.src.address <= o.stop
     /\ o.src.address .. o.stop - 1 \subseteq Addr
     /\ o.dst.address .. o.dst.address + (o.stop - o.src.address) + o.rest - 1 \subseteq Addr
     /\ o.dst.address <= o.src.address \/ o.dst.address >= o.stop
  \/ /\ o.kind = "backward"
     /\ o = Backward(o.src, o.dst, o.stop)
     /\ o.src = [address |-> o.src.address, shadow |-> o.src.shadow]
     /\ o.dst = [address |-> o.dst.address, shadow |-> o.dst.shadow]
     /\ o.stop \in Nat
     /\ Valid(pages, o.dst)
     /\ Reads(pages, o.src, o.stop .. o.src.address - 1)
     /\ o.stop <= o.src.address
     /\ o.stop .. o.src.address - 1 \subseteq Addr
     /\ o.dst.address - (o.src.address - o.stop) .. o.dst.address - 1 \subseteq Addr
     /\ o.dst.address >= o.src.address
  \/ /\ o.kind = "assign"
     /\ o = Assign(o.dst, o.stop, o.vals)
     /\ o.dst = [address |-> o.dst.address, shadow |-> o.dst.shadow]
     /\ o.stop \in Nat
     /\ Valid(pages, o.dst)
     /\ o.dst.address <= o.stop
     /\ o.dst.address .. o.stop - 1 \subseteq Addr
     /\ \A a \in o.dst.address .. o.stop - 1 : o.vals[a] \in SymExpr

\* Types: shadow pages hold one expression or null for each byte of a page.
TypeOK ==
  /\ mem \in [Addr -> Byte]
  /\ PagesOK(g_shadow_pages)

\* The loops over shadow memory stay within the memory of the program, write
\* through valid pointers, and overwrite no byte of their source that they
\* have yet to read (the direction _sym_memmove chooses for overlapping
\* regions).
LoopsSound == LoopOK(g_shadow_pages, op)

\* Concolic consistency.  Whenever the program runs, the expression of every
\* byte of memory evaluates, under the input of this execution, to the value
\* the byte has; so does the expression of every value the program loads.
\* All constraints given to the solver are built from these expressions.
Concolic ==
  /\ op.kind = "idle" =>
       \A a \in Addr : LET e == Shadow(g_shadow_pages, a) IN
                       e # Null => Val[e] = mem[a]
  /\ \A k \in DOMAIN loaded.expr :
       loaded.expr[k] # Null => Val[loaded.expr[k]] = loaded.val[k]

\* A copy loop never reads a stale expression: what the source iterator
\* yields through the pointer it has cached is what a fresh lookup yields,
\* although the loop itself allocates pages and writes (std::copy and
\* std::copy_backward in _sym_memmove, _sym_memcpy and strncpy).
CopyReadsFresh ==
  /\ op.kind = "forward" /\ op.src.address # op.stop =>
       Deref(g_shadow_pages, op.src) = Shadow(g_shadow_pages, op.src.address)
  /\ op.kind = "backward" /\ op.src.address # op.stop =>
       Deref(g_shadow_pages, Advance(g_shadow_pages, op.src, -1))
         = Shadow(g_shadow_pages, op.src.address - 1)

\* The paged shadow with its iterator loops implements the flat memory in
\* which every call takes effect in one step.
ImplementsFlat == Flat!AbsSpec

\* Every loop over shadow memory ends: iterators are compared with != only,
\* so one that misses its end would run on through memory.
LoopsEnd == op.kind # "idle" ~> op.kind = "idle"
=============================================================================
