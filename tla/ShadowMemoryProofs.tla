------------------------- MODULE ShadowMemoryProofs -------------------------
(***************************************************************************)
(* Proofs about ShadowMemory, for every page size, memory and input.       *)
(***************************************************************************)
EXTENDS ShadowMemory, TLAPS

(***************************************************************************)
(* Address arithmetic                                                      *)
(***************************************************************************)

\* The offset of an address is a slot of its page (pageOffset in Shadow.h).
LEMMA OffsetIsSlot == \A a \in Nat : pageOffset(a) \in Slots /\ pageStart(a) \in Nat
  BY PageSizeAssumption DEF pageOffset, pageStart, Slots

\* Page and offset together determine the address.
LEMMA LocationInjective ==
  \A a, b \in Nat : pageStart(a) = pageStart(b) /\ pageOffset(a) = pageOffset(b) => a = b
  BY OffsetIsSlot, PageSizeAssumption DEF pageStart, pageOffset, Slots

\* On one page, neighbouring addresses have neighbouring slots.
LEMMA NeighbouringSlots ==
  \A a, b \in Nat : pageStart(a) = pageStart(b) => pageOffset(b) = pageOffset(a) + (b - a)
  BY OffsetIsSlot, PageSizeAssumption DEF pageStart, pageOffset, Slots

\* The null pointer is not a pointer into a page.
LEMMA NullPtrDistinct ==
  \A s : \A p \in Nat : [page |-> p, slot |-> s] # NullPtr
  BY DEF NullPtr

(***************************************************************************)
(* Lookups                                                                 *)
(***************************************************************************)

\* A lookup reads the slot of an allocated page and null elsewhere.
LEMMA ShadowValue ==
  ASSUME NEW pages, NEW a \in Nat
  PROVE  Shadow(pages, a) = IF pageStart(a) \in DOMAIN pages
                              THEN pages[pageStart(a)][pageOffset(a)] ELSE Null
<1>1. pageStart(a) \in Nat
  BY OffsetIsSlot
<1>2. [page |-> pageStart(a), slot |-> pageOffset(a)] # NullPtr
  BY <1>1, NullPtrDistinct
<1> QED
  BY <1>2 DEF Shadow, Deref, Iterator, getShadow

\* Lookups yield expressions or null.
LEMMA ShadowType ==
  ASSUME NEW pages, PagesOK(pages), NEW a \in Nat
  PROVE  Shadow(pages, a) \in SymExpr
  BY ShadowValue, OffsetIsSlot DEF PagesOK, SymExpr

\* Allocating a page (getOrCreateShadow) changes no lookup.
LEMMA WithShadowLookup ==
  ASSUME NEW pages, PagesOK(pages), NEW a \in Nat, pageStart(a) \in PageAddrs
  PROVE  /\ PagesOK(WithShadow(pages, a))
         /\ DOMAIN pages \subseteq DOMAIN WithShadow(pages, a)
         /\ pageStart(a) \in DOMAIN WithShadow(pages, a)
         /\ \A x \in Nat : Shadow(WithShadow(pages, a), x) = Shadow(pages, x)
<1> DEFINE all == WithShadow(pages, a)
<1>1. DOMAIN all = DOMAIN pages \cup {pageStart(a)}
  BY DEF WithShadow
<1>2. \A p \in DOMAIN all : all[p] = IF p \in DOMAIN pages THEN pages[p] ELSE NewPage
  BY DEF WithShadow
<1>3. NewPage \in [Slots -> SymExpr]
  BY DEF NewPage, SymExpr
<1>4. PagesOK(all)
  <2>1. DOMAIN all \subseteq PageAddrs
    BY <1>1 DEF PagesOK
  <2>2. \A p \in DOMAIN all : all[p] \in [Slots -> SymExpr]
    BY <1>2, <1>3 DEF PagesOK
  <2>3. all = [p \in DOMAIN all |-> all[p]]
    BY DEF WithShadow
  <2> QED
    BY <2>1, <2>2, <2>3 DEF PagesOK
<1>5. ASSUME NEW x \in Nat PROVE Shadow(all, x) = Shadow(pages, x)
  <2>1. pageOffset(x) \in Slots
    BY OffsetIsSlot
  <2>2. Shadow(all, x) = IF pageStart(x) \in DOMAIN all
                              THEN all[pageStart(x)][pageOffset(x)] ELSE Null
    BY ShadowValue
  <2>3. Shadow(pages, x) = IF pageStart(x) \in DOMAIN pages
                              THEN pages[pageStart(x)][pageOffset(x)] ELSE Null
    BY ShadowValue
  <2>4. NewPage[pageOffset(x)] = Null
    BY <2>1 DEF NewPage
  <2> QED
    BY <1>1, <1>2, <2>2, <2>3, <2>4
<1> QED
  BY <1>1, <1>4, <1>5

\* Writing through a valid iterator changes the lookup of its address only.
LEMMA PutLookup ==
  ASSUME NEW pages, PagesOK(pages), NEW it, Valid(pages, it), NEW e \in SymExpr
  PROVE  /\ PagesOK(Put(pages, it, e))
         /\ DOMAIN Put(pages, it, e) = DOMAIN pages
         /\ \A x \in Nat : Shadow(Put(pages, it, e), x)
                             = IF x = it.address THEN e ELSE Shadow(pages, x)
<1> DEFINE new == Put(pages, it, e)
           p   == pageStart(it.address)
           o   == pageOffset(it.address)
<1>1. it.address \in Nat /\ p \in DOMAIN pages /\ o \in Slots
  BY OffsetIsSlot DEF Valid
<1>2. new = [pages EXCEPT ![p][o] = e]
  BY DEF Put, Valid
<1>3. pages \in [DOMAIN pages -> [Slots -> SymExpr]]
  BY DEF PagesOK
<1>4. new \in [DOMAIN pages -> [Slots -> SymExpr]]
  BY <1>1, <1>2, <1>3
<1>5. ASSUME NEW x \in Nat
      PROVE  Shadow(new, x) = IF x = it.address THEN e ELSE Shadow(pages, x)
  <2>1. pageOffset(x) \in Slots
    BY OffsetIsSlot
  <2>2. Shadow(new, x) = IF pageStart(x) \in DOMAIN new
                              THEN new[pageStart(x)][pageOffset(x)] ELSE Null
    BY ShadowValue
  <2>3. Shadow(pages, x) = IF pageStart(x) \in DOMAIN pages
                              THEN pages[pageStart(x)][pageOffset(x)] ELSE Null
    BY ShadowValue
  <2>4. x # it.address => pageStart(x) # p \/ pageOffset(x) # o
    BY <1>1, LocationInjective
  <2> HIDE DEF p, o, new
  <2>5. DOMAIN new = DOMAIN pages
    BY <1>4
  <2>6. CASE x = it.address
    <3>1. pageStart(x) = p /\ pageOffset(x) = o
      BY <2>6 DEF p, o
    <3>2. new[p][o] = e
      BY <1>1, <1>2, <1>3
    <3> QED
      BY <3>1, <3>2, <2>2, <2>5, <2>6, <1>1
  <2>7. CASE x # it.address
    <3>1. pageStart(x) \in DOMAIN pages => new[pageStart(x)][pageOffset(x)] = pages[pageStart(x)][pageOffset(x)]
      BY <2>1, <2>4, <2>7, <1>1, <1>2, <1>3
    <3> QED
      BY <3>1, <2>2, <2>3, <2>5, <2>7
  <2> QED
    BY <2>6, <2>7
<1> QED
  BY <1>4, <1>5 DEF PagesOK

(***************************************************************************)
(* Iterators                                                               *)
(***************************************************************************)

\* A new iterator at an allocated page is valid.
LEMMA NewIterator ==
  ASSUME NEW pages, NEW a \in Nat
  PROVE  /\ Iterator(pages, a).address = a
         /\ Iterator(pages, a) = [address |-> Iterator(pages, a).address,
                                  shadow  |-> Iterator(pages, a).shadow]
         /\ pageStart(a) \in DOMAIN pages => Valid(pages, Iterator(pages, a))
  BY DEF Iterator, Valid, getShadow

\* A valid iterator stays valid while pages are allocated and written.
LEMMA ValidKept ==
  ASSUME NEW pages, NEW new, DOMAIN pages \subseteq DOMAIN new,
         NEW it, Valid(pages, it)
  PROVE  Valid(new, it)
  BY DEF Valid

\* The map after ++ or -- of a WriteShadowIterator has the next page.
LEMMA PagesAfterLookup ==
  ASSUME NEW pages, PagesOK(pages), NEW it, Valid(pages, it),
         NEW step \in {1, -1}, it.address + step \in Nat,
         pageStart(it.address + step) \in PageAddrs
  PROVE  /\ PagesOK(PagesAfter(pages, it, step))
         /\ DOMAIN pages \subseteq DOMAIN PagesAfter(pages, it, step)
         /\ pageStart(it.address + step) \in DOMAIN PagesAfter(pages, it, step)
         /\ \A x \in Nat : Shadow(PagesAfter(pages, it, step), x) = Shadow(pages, x)
<1>1. CASE pageStart(it.address + step) # pageStart(it.address)
  <2>1. PagesAfter(pages, it, step) = WithShadow(pages, it.address + step)
    BY <1>1 DEF PagesAfter
  <2> QED
    BY <2>1, WithShadowLookup
<1>2. CASE pageStart(it.address + step) = pageStart(it.address)
  <2>1. PagesAfter(pages, it, step) = pages
    BY <1>2 DEF PagesAfter
  <2> QED
    BY <2>1, <1>2 DEF Valid
<1> QED
  BY <1>1, <1>2

\* ++ and -- move the pointer of a valid iterator to the slot of the next
\* address, whether they fetch it or only shift it.
LEMMA AdvanceValid ==
  ASSUME NEW pages, NEW it, Valid(pages, it), NEW step \in {1, -1},
         it.address + step \in Nat,
         pageStart(it.address + step) \in DOMAIN pages
  PROVE  Valid(pages, Advance(pages, it, step))
<1> DEFINE addr == it.address + step
           next == Advance(pages, it, step)
<1>1. next.address = addr
  BY DEF Advance
<1>2. CASE pageStart(addr) # pageStart(it.address)
  <2>1. next.shadow = [page |-> pageStart(addr), slot |-> pageOffset(addr)]
    BY <1>2 DEF Advance, getShadow
  <2> QED
    BY <1>1, <2>1 DEF Valid
<1>3. CASE pageStart(addr) = pageStart(it.address)
  <2>1. it.address \in Nat /\ pageStart(it.address) \in Nat
    BY OffsetIsSlot DEF Valid
  <2>2. it.shadow = [page |-> pageStart(it.address), slot |-> pageOffset(it.address)]
    BY DEF Valid
  <2>3. it.shadow # NullPtr
    BY <2>1, <2>2, NullPtrDistinct
  <2>4. next.shadow = [it.shadow EXCEPT !.slot = @ + step]
    BY <1>3, <2>3 DEF Advance
  <2>5. pageOffset(addr) = pageOffset(it.address) + (addr - it.address)
    BY <1>3, <2>1, NeighbouringSlots
  <2>6. pageOffset(addr) = pageOffset(it.address) + step
    BY <2>1, <2>5
  <2>7. next.shadow = [page |-> pageStart(addr), slot |-> pageOffset(addr)]
    BY <1>3, <2>2, <2>4, <2>6
  <2> QED
    BY <1>1, <2>7 DEF Valid
<1> QED
  BY <1>2, <1>3

\* An iterator advanced has the address next to it.
LEMMA AdvanceAddress ==
  ASSUME NEW pages, NEW it, NEW step
  PROVE  /\ Advance(pages, it, step).address = it.address + step
         /\ Advance(pages, it, step)
              = [address |-> Advance(pages, it, step).address,
                 shadow  |-> Advance(pages, it, step).shadow]
  BY DEF Advance

\* A source iterator keeps reading what is there: it is advanced over a map
\* new that has grown since, as long as the rest of the region is as it was.
LEMMA AdvanceReads ==
  ASSUME NEW pages, NEW new, DOMAIN pages \subseteq DOMAIN new,
         NEW it, NEW region \in SUBSET Nat, NEW rest \in SUBSET region,
         Reads(pages, it, region),
         \A x \in rest : Shadow(new, x) = Shadow(pages, x),
         NEW step \in {1, -1}, it.address + step \in Nat
  PROVE  Reads(new, Advance(new, it, step), rest)
<1> DEFINE addr == it.address + step
           next == Advance(new, it, step)
<1>1. next.address = addr
  BY DEF Advance
<1>2. CASE pageStart(addr) # pageStart(it.address)
  <2>1. next.shadow = getShadow(new, addr)
    BY <1>2 DEF Advance
  <2>2. CASE pageStart(addr) \in DOMAIN new
    BY <1>1, <2>1, <2>2 DEF Reads, Valid, getShadow
  <2>3. CASE pageStart(addr) \notin DOMAIN new
    <3>1. \A x \in rest : pageStart(x) = pageStart(addr) => Shadow(new, x) = Null
      BY <2>3, ShadowValue
    <3> QED
      BY <1>1, <2>1, <2>3, <3>1 DEF Reads, getShadow
  <2> QED
    BY <2>2, <2>3
<1>3. CASE pageStart(addr) = pageStart(it.address) /\ Valid(pages, it)
  <2>1. Valid(new, it)
    BY <1>3, ValidKept
  <2>2. pageStart(addr) \in DOMAIN new
    BY <2>1, <1>3 DEF Valid
  <2> QED
    BY <2>1, <2>2, AdvanceValid DEF Reads
<1>4. CASE pageStart(addr) = pageStart(it.address) /\ ~Valid(pages, it)
  <2>1. /\ it.shadow = NullPtr
        /\ \A x \in region : pageStart(x) = pageStart(it.address) => Shadow(pages, x) = Null
    BY <1>4 DEF Reads
  <2>2. next.shadow = NullPtr
    BY <1>4, <2>1 DEF Advance
  <2>3. \A x \in rest : pageStart(x) = pageStart(addr) => Shadow(new, x) = Null
    BY <1>4, <2>1
  <2> QED
    BY <1>1, <2>2, <2>3 DEF Reads
<1> QED
  BY <1>2, <1>3, <1>4

\* A new source iterator reads what is there, even one made from a map old
\* that lacked the page just allocated.
LEMMA NewReads ==
  ASSUME NEW old, NEW new, DOMAIN old \subseteq DOMAIN new,
         NEW a \in Nat, NEW region \in SUBSET Nat,
         \A x \in Nat : Shadow(new, x) = Shadow(old, x)
  PROVE  Reads(new, Iterator(old, a), region)
<1>1. CASE pageStart(a) \in DOMAIN old
  BY <1>1, NewIterator, ValidKept DEF Reads
<1>2. CASE pageStart(a) \notin DOMAIN old
  <2>1. \A x \in region : pageStart(x) = pageStart(a) => Shadow(old, x) = Null
    BY <1>2, ShadowValue
  <2>2. Iterator(old, a).shadow = NullPtr /\ Iterator(old, a).address = a
    BY <1>2 DEF Iterator, getShadow
  <2> QED
    BY <2>1, <2>2 DEF Reads
<1> QED
  BY <1>1, <1>2

\* Dereferencing a source iterator within its region is a fresh lookup.
LEMMA DerefReads ==
  ASSUME NEW pages, NEW it, NEW region \in SUBSET Nat,
         it.address \in region, Reads(pages, it, region)
  PROVE  Deref(pages, it) = Shadow(pages, it.address)
<1>1. CASE Valid(pages, it)
  <2>1. it.shadow = getShadow(pages, it.address)
    BY <1>1 DEF Valid, getShadow
  <2> QED
    BY <2>1 DEF Shadow, Deref, Iterator
<1>2. CASE ~Valid(pages, it)
  BY <1>2 DEF Reads, Deref
<1> QED
  BY <1>1, <1>2

(***************************************************************************)
(* The steps of the loops                                                  *)
(***************************************************************************)

IInv == TypeOK /\ LoopsSound

\* The loop in progress is of the kind its tag says.
LEMMA ForwardLoop ==
  ASSUME NEW pages, NEW o, LoopOK(pages, o), o.kind = "forward"
  PROVE  /\ o = Forward(o.src, o.dst, o.stop, o.rest)
         /\ o.src = [address |-> o.src.address, shadow |-> o.src.shadow]
         /\ o.dst = [address |-> o.dst.address, shadow |-> o.dst.shadow]
         /\ o.stop \in Nat /\ o.rest \in Nat
         /\ o.src.address \in Nat /\ o.dst.address \in Nat
         /\ Valid(pages, o.dst)
         /\ Reads(pages, o.src, o.src.address .. o.stop - 1)
         /\ o.src.address <= o.stop
         /\ o.src.address .. o.stop - 1 \subseteq Addr
         /\ o.dst.address .. o.dst.address + (o.stop - o.src.address) + o.rest - 1 \subseteq Addr
         /\ o.dst.address <= o.src.address \/ o.dst.address >= o.stop
<1>1. o # Idle
  BY DEF Idle
<1> QED
  BY <1>1 DEF LoopOK, Valid, Reads

\* The same for std::copy_backward.
LEMMA BackwardLoop ==
  ASSUME NEW pages, NEW o, LoopOK(pages, o), o.kind = "backward"
  PROVE  /\ o = Backward(o.src, o.dst, o.stop)
         /\ o.src = [address |-> o.src.address, shadow |-> o.src.shadow]
         /\ o.dst = [address |-> o.dst.address, shadow |-> o.dst.shadow]
         /\ o.stop \in Nat
         /\ o.src.address \in Nat /\ o.dst.address \in Nat
         /\ Valid(pages, o.dst)
         /\ Reads(pages, o.src, o.stop .. o.src.address - 1)
         /\ o.stop <= o.src.address
         /\ o.stop .. o.src.address - 1 \subseteq Addr
         /\ o.dst.address - (o.src.address - o.stop) .. o.dst.address - 1 \subseteq Addr
         /\ o.dst.address >= o.src.address
<1>1. o # Idle
  BY DEF Idle
<1> QED
  BY <1>1 DEF LoopOK, Valid, Reads

\* The same for the loops that assign expressions.
LEMMA AssignLoop ==
  ASSUME NEW pages, NEW o, LoopOK(pages, o), o.kind = "assign"
  PROVE  /\ o = Assign(o.dst, o.stop, o.vals)
         /\ o.dst = [address |-> o.dst.address, shadow |-> o.dst.shadow]
         /\ o.stop \in Nat
         /\ o.dst.address \in Nat
         /\ Valid(pages, o.dst)
         /\ o.dst.address <= o.stop
         /\ o.dst.address .. o.stop - 1 \subseteq Addr
         /\ \A a \in o.dst.address .. o.stop - 1 : o.vals[a] \in SymExpr
<1>1. o # Idle
  BY DEF Idle
<1> QED
  BY <1>1 DEF LoopOK, Valid

\* Both pages that a byte of memory and its end iterator need are in range.
LEMMA PagesOfRegion ==
  /\ \A a \in Addr : a \in Nat /\ pageStart(a) \in PageAddrs /\ pageStart(a + 1) \in PageAddrs
  /\ \A a \in Addr, n \in Nat : a .. a + n - 1 \subseteq Addr => pageStart(a + n) \in PageAddrs
<1>1. \A a \in Addr : a \in Nat /\ pageStart(a) \in PageAddrs /\ pageStart(a + 1) \in PageAddrs
  BY AddrAssumption DEF PageAddrs
<1>2. ASSUME NEW a \in Addr, NEW n \in Nat, a .. a + n - 1 \subseteq Addr
      PROVE  pageStart(a + n) \in PageAddrs
  <2>1. CASE n = 0
    BY <1>1, <2>1
  <2>2. CASE n # 0
    <3>1. a + n - 1 \in Addr
      BY <1>1, <1>2, <2>2
    <3>2. (a + n - 1) + 1 = a + n
      BY <1>1
    <3> QED
      BY <3>1, <3>2, <1>1
  <2> QED
    BY <2>1, <2>2
<1> QED
  BY <1>1, <1>2

\* Settled, spelt out for each kind of loop.
LEMMA SettledForward ==
  ASSUME NEW pages, NEW o, o.kind = "forward", NEW a,
         NEW s, NEW d, NEW stop, NEW rest,
         s = o.src.address, d = o.dst.address, stop = o.stop, rest = o.rest
  PROVE  Settled(pages, o, a)
           = IF a \in d .. d + (stop - s) - 1 THEN Shadow(pages, a - d + s)
             ELSE IF a \in d + (stop - s) .. d + (stop - s) + rest - 1 THEN Null
             ELSE Shadow(pages, a)
  BY DEF Settled

\* Settled while std::copy_backward runs.
LEMMA SettledBackward ==
  ASSUME NEW pages, NEW o, o.kind = "backward", NEW a,
         NEW s, NEW d, NEW stop,
         s = o.src.address, d = o.dst.address, stop = o.stop
  PROVE  Settled(pages, o, a)
           = IF a \in d + (stop - s) .. d - 1 THEN Shadow(pages, a - d + s)
             ELSE Shadow(pages, a)
  BY DEF Settled

\* Settled while expressions are being assigned.
LEMMA SettledAssign ==
  ASSUME NEW pages, NEW o, o.kind = "assign", NEW a,
         NEW d, NEW stop, d = o.dst.address, stop = o.stop
  PROVE  Settled(pages, o, a)
           = IF a \in d .. stop - 1 THEN o.vals[a] ELSE Shadow(pages, a)
  BY DEF Settled

\* Settled when no loop runs.
LEMMA SettledIdle ==
  ASSUME NEW pages, NEW a
  PROVE  Settled(pages, Idle, a) = Shadow(pages, a)
  BY DEF Settled, Idle

\* A step of std::copy keeps the invariant, and what memory will look like
\* when the loop is done.
LEMMA ForwardStep ==
  IInv /\ CopyForwardStep =>
    /\ IInv'
    /\ \A a \in Addr : Settled(g_shadow_pages', op', a) = Settled(g_shadow_pages, op, a)
<1> SUFFICES ASSUME IInv, CopyForwardStep
             PROVE  /\ IInv'
                    /\ \A a \in Addr : Settled(g_shadow_pages', op', a)
                                         = Settled(g_shadow_pages, op, a)
  OBVIOUS
<1> DEFINE pages == g_shadow_pages
           s     == op.src.address
           d     == op.dst.address
           stop  == op.stop
           rest  == op.rest
           e     == Deref(pages, op.src)
           put   == Put(pages, op.dst, e)
           new   == PagesAfter(put, op.dst, 1)
<1>0. PagesOK(pages) /\ LoopOK(pages, op) /\ op.kind = "forward" /\ s # stop
  BY DEF IInv, TypeOK, LoopsSound, CopyForwardStep
<1>1. /\ op = Forward(op.src, op.dst, stop, rest)
      /\ stop \in Nat /\ rest \in Nat /\ s \in Nat /\ d \in Nat
      /\ Valid(pages, op.dst)
      /\ Reads(pages, op.src, s .. stop - 1)
      /\ s <= stop
      /\ s .. stop - 1 \subseteq Addr
      /\ d .. d + (stop - s) + rest - 1 \subseteq Addr
      /\ d <= s \/ d >= stop
  BY <1>0, ForwardLoop
<1>1b. /\ stop \in Nat /\ rest \in Nat /\ s \in Nat /\ d \in Nat /\ s < stop
       /\ d <= s \/ d >= stop
  BY <1>0, <1>1
<1>2. s \in Addr /\ d \in Addr
  BY <1>0, <1>1
<1>3. e = Shadow(pages, s) /\ e \in SymExpr
  <2>1. s \in s .. stop - 1 /\ s .. stop - 1 \in SUBSET Nat
    BY <1>0, <1>1
  <2> QED
    BY <2>1, <1>0, <1>1, DerefReads, ShadowType
<1>4. /\ PagesOK(put)
      /\ DOMAIN put = DOMAIN pages
      /\ \A x \in Nat : Shadow(put, x) = IF x = d THEN e ELSE Shadow(pages, x)
  BY <1>0, <1>1, <1>3, PutLookup
<1>5. Valid(put, op.dst) /\ d + 1 \in Nat /\ pageStart(d + 1) \in PageAddrs
  BY <1>1, <1>2, <1>4, ValidKept, PagesOfRegion
<1>6. /\ PagesOK(new)
      /\ DOMAIN pages \subseteq DOMAIN new
      /\ pageStart(d + 1) \in DOMAIN new
      /\ \A x \in Nat : Shadow(new, x) = IF x = d THEN e ELSE Shadow(pages, x)
  <2>1. 1 \in {1, -1}
    OBVIOUS
  <2> QED
    BY <2>1, <1>4, <1>5, PagesAfterLookup
<1>7. /\ g_shadow_pages' = new
      /\ op' = Forward(Advance(new, op.src, 1), Advance(new, op.dst, 1), stop, rest)
      /\ mem' = mem
  BY <1>1 DEF CopyForwardStep, Forward
<1>8. /\ op'.kind = "forward" /\ op'.stop = stop /\ op'.rest = rest
      /\ op'.src = Advance(new, op.src, 1) /\ op'.dst = Advance(new, op.dst, 1)
      /\ op'.src.address = s + 1 /\ op'.dst.address = d + 1
      /\ op'.src = [address |-> op'.src.address, shadow |-> op'.src.shadow]
      /\ op'.dst = [address |-> op'.dst.address, shadow |-> op'.dst.shadow]
  BY <1>7, AdvanceAddress DEF Forward
<1>9. Valid(new, op'.dst)
  <2>1. Valid(new, op.dst) /\ 1 \in {1, -1}
    BY <1>1, <1>6, ValidKept
  <2> QED
    BY <2>1, <1>5, <1>6, <1>8, AdvanceValid
<1>10. Reads(new, op'.src, s + 1 .. stop - 1)
  <2> DEFINE region == s .. stop - 1
             left   == s + 1 .. stop - 1
  <2>1. region \in SUBSET Nat /\ left \in SUBSET region
    BY <1>1b
  <2>2. \A x \in left : Shadow(new, x) = Shadow(pages, x)
    BY <1>1b, <1>6
  <2>3. op.src.address + 1 \in Nat /\ 1 \in {1, -1}
    BY <1>1b
  <2>4. Reads(pages, op.src, region) /\ DOMAIN pages \subseteq DOMAIN new
    BY <1>1, <1>6
  <2> HIDE DEF new, pages, region, left
  <2>5. Reads(new, Advance(new, op.src, 1), left)
    BY <2>1, <2>2, <2>3, <2>4, AdvanceReads
  <2> QED
    BY <2>5, <1>8 DEF left
<1>11. LoopOK(new, op')
  <2>1. op' = Forward(op'.src, op'.dst, op'.stop, op'.rest)
    BY <1>7, <1>8
  <2>2. /\ s + 1 <= stop
        /\ s + 1 .. stop - 1 \subseteq Addr
        /\ d + 1 .. (d + 1) + (stop - (s + 1)) + rest - 1 \subseteq Addr
        /\ d + 1 <= s + 1 \/ d + 1 >= stop
    <3> HIDE DEF s, d, stop, rest
    <3> QED
      BY <1>1, <1>1b
  <2> QED
    BY <2>1, <2>2, <1>1, <1>8, <1>9, <1>10 DEF LoopOK
<1>12. ASSUME NEW a \in Addr
       PROVE  Settled(new, op', a) = Settled(pages, op, a)
  <2>1. a \in Nat
    BY AddrAssumption
  <2>2. Settled(pages, op, a)
           = IF a \in d .. d + (stop - s) - 1 THEN Shadow(pages, a - d + s)
             ELSE IF a \in d + (stop - s) .. d + (stop - s) + rest - 1 THEN Null
             ELSE Shadow(pages, a)
    BY <1>0, SettledForward
  <2> DEFINE t == s + 1
             c == d + 1
  <2>3. Settled(new, op', a)
           = IF a \in c .. c + (stop - t) - 1 THEN Shadow(new, a - c + t)
             ELSE IF a \in c + (stop - t) .. c + (stop - t) + rest - 1 THEN Null
             ELSE Shadow(new, a)
    BY <1>8, SettledForward
  <2> HIDE DEF s, d, stop, rest, new, pages
  <2>4. c + (stop - t) = d + (stop - s) /\ a - c + t = a - d + s
    BY <2>1, <1>1b
  <2> HIDE DEF c, t
  <2>5. Settled(new, op', a)
           = IF a \in c .. d + (stop - s) - 1 THEN Shadow(new, a - d + s)
             ELSE IF a \in d + (stop - s) .. d + (stop - s) + rest - 1 THEN Null
             ELSE Shadow(new, a)
    <3> USE DEF c, t
    <3>2. a - c + t = a - d + s
      BY <2>4
    <3>3. Shadow(new, a - c + t) = Shadow(new, a - d + s)
      BY <3>2
    <3>4. /\ a \in c .. c + (stop - t) - 1 <=> a \in c .. d + (stop - s) - 1
          /\ a \in c + (stop - t) .. c + (stop - t) + rest - 1
               <=> a \in d + (stop - s) .. d + (stop - s) + rest - 1
      BY <2>1, <1>1b
    <3> HIDE DEF c, t
    <3> QED
      BY <2>3, <3>3, <3>4
  <2> USE DEF c
  <2>6. CASE a = d
    <3>1. a \in d .. d + (stop - s) - 1 /\ a \notin c .. d + (stop - s) - 1 /\ a - d + s = s
      BY <2>6, <1>1b
    <3>2. a \notin d + (stop - s) .. d + (stop - s) + rest - 1
      BY <2>6, <1>1b
    <3> QED
      BY <3>1, <3>2, <2>1, <2>2, <2>5, <2>6, <1>3, <1>6
  <2>7. CASE a \in c .. d + (stop - s) - 1
    <3>1. a \in d .. d + (stop - s) - 1 /\ a - d + s \in Nat /\ a - d + s # d
      BY <2>7, <1>1b
    <3> QED
      BY <3>1, <2>2, <2>5, <2>7, <1>6
  <2>8. CASE a \notin d .. d + (stop - s) - 1
    <3>1. a # d /\ a \notin c .. d + (stop - s) - 1
      BY <2>1, <2>8, <1>1b
    <3> QED
      BY <3>1, <2>1, <2>2, <2>5, <2>8, <1>6
  <2> QED
    BY <2>1, <2>6, <2>7, <2>8, <1>1b
<1> QED
  <2> HIDE DEF new
  <2> QED BY <1>6, <1>7, <1>11, <1>12 DEF IInv, TypeOK, LoopsSound

\* So does a step of std::copy_backward.
LEMMA BackwardStep ==
  IInv /\ CopyBackwardStep =>
    /\ IInv'
    /\ \A a \in Addr : Settled(g_shadow_pages', op', a) = Settled(g_shadow_pages, op, a)
<1> SUFFICES ASSUME IInv, CopyBackwardStep
             PROVE  /\ IInv'
                    /\ \A a \in Addr : Settled(g_shadow_pages', op', a)
                                         = Settled(g_shadow_pages, op, a)
  OBVIOUS
<1> DEFINE pages == g_shadow_pages
           s     == op.src.address
           d     == op.dst.address
           stop  == op.stop
           src   == Advance(pages, op.src, -1)
           e     == Deref(pages, src)
           grown == PagesAfter(pages, op.dst, -1)
           dst   == Advance(grown, op.dst, -1)
           new   == Put(grown, dst, e)
<1>0. PagesOK(pages) /\ LoopOK(pages, op) /\ op.kind = "backward" /\ s # stop
  BY DEF IInv, TypeOK, LoopsSound, CopyBackwardStep
<1>1. /\ op = Backward(op.src, op.dst, stop)
      /\ stop \in Nat /\ s \in Nat /\ d \in Nat
      /\ Valid(pages, op.dst)
      /\ Reads(pages, op.src, stop .. s - 1)
      /\ stop <= s
      /\ stop .. s - 1 \subseteq Addr
      /\ d - (s - stop) .. d - 1 \subseteq Addr
      /\ d >= s
  BY <1>0, BackwardLoop
<1>1b. stop \in Nat /\ s \in Nat /\ d \in Nat /\ stop < s /\ d >= s
  BY <1>0, <1>1
<1>2. d - 1 \in Addr /\ d - 1 \in Nat /\ s - 1 \in Nat
  BY <1>1, <1>1b
<1>3. e = Shadow(pages, s - 1) /\ e \in SymExpr
  <2> DEFINE region == stop .. s - 1
  <2>1. region \in SUBSET Nat /\ region \in SUBSET region
    BY <1>1b
  <2>2. op.src.address + (-1) \in Nat /\ -1 \in {1, -1}
    BY <1>1b
  <2>3. Reads(pages, op.src, region) /\ \A x \in region : Shadow(pages, x) = Shadow(pages, x)
    BY <1>1
  <2> HIDE DEF pages, region
  <2>4. Reads(pages, Advance(pages, op.src, -1), region)
    BY <2>1, <2>2, <2>3, AdvanceReads
  <2>5. src.address = s - 1
    BY <1>1b, AdvanceAddress
  <2>6. src.address \in region
    BY <2>5, <1>1b DEF region
  <2> HIDE DEF src
  <2>7. Reads(pages, src, region)
    BY <2>4 DEF src
  <2>8. e = Shadow(pages, src.address)
    BY <2>1, <2>6, <2>7, DerefReads
  <2> QED
    BY <2>5, <2>8, <1>0, <1>2, ShadowType
<1>4. /\ PagesOK(grown)
      /\ DOMAIN pages \subseteq DOMAIN grown
      /\ pageStart(d - 1) \in DOMAIN grown
      /\ \A x \in Nat : Shadow(grown, x) = Shadow(pages, x)
  <2>1. d + (-1) = d - 1 /\ -1 \in {1, -1}
    BY <1>1b
  <2>2. pageStart(d - 1) \in PageAddrs
    BY <1>2, PagesOfRegion
  <2> QED
    BY <2>1, <2>2, <1>0, <1>1, <1>2, PagesAfterLookup
<1>5. Valid(grown, dst) /\ dst.address = d - 1
  <2>1. d + (-1) = d - 1 /\ -1 \in {1, -1}
    BY <1>1b
  <2>2. Valid(grown, op.dst)
    BY <1>1, <1>4, ValidKept
  <2>3. dst.address = d + (-1)
    BY AdvanceAddress
  <2> QED
    BY <2>1, <2>2, <2>3, <1>2, <1>4, AdvanceValid
<1>6. /\ PagesOK(new)
      /\ DOMAIN new = DOMAIN grown
      /\ \A x \in Nat : Shadow(new, x) = IF x = d - 1 THEN e ELSE Shadow(pages, x)
  <2> HIDE DEF grown, dst, e
  <2>1. /\ PagesOK(new)
        /\ DOMAIN new = DOMAIN grown
        /\ \A x \in Nat : Shadow(new, x) = IF x = dst.address THEN e ELSE Shadow(grown, x)
    BY <1>3, <1>4, <1>5, PutLookup
  <2> QED
    BY <2>1, <1>4, <1>5
<1>7. /\ g_shadow_pages' = new
      /\ op' = Backward(src, dst, stop)
      /\ mem' = mem
  BY <1>1 DEF CopyBackwardStep, Backward
<1>8. /\ op'.kind = "backward" /\ op'.stop = stop
      /\ op'.src = src /\ op'.dst = dst
      /\ op'.src.address = s - 1 /\ op'.dst.address = d - 1
      /\ op'.src = [address |-> op'.src.address, shadow |-> op'.src.shadow]
      /\ op'.dst = [address |-> op'.dst.address, shadow |-> op'.dst.shadow]
  <2>1. s + (-1) = s - 1 /\ d + (-1) = d - 1
    BY <1>1b
  <2> QED
    BY <2>1, <1>7, AdvanceAddress DEF Backward
<1>9. Valid(new, dst)
  BY <1>5, <1>6, ValidKept
<1>10. Reads(new, src, stop .. (s - 1) - 1)
  <2> DEFINE region == stop .. s - 1
             left   == stop .. (s - 1) - 1
  <2>1. region \in SUBSET Nat /\ left \in SUBSET region
    BY <1>1b
  <2>2. \A x \in left : Shadow(new, x) = Shadow(pages, x)
    BY <1>1b, <1>6
  <2>3. op.src.address + (-1) \in Nat /\ -1 \in {1, -1}
    BY <1>1b
  <2>4. Reads(pages, op.src, region) /\ \A x \in left : Shadow(pages, x) = Shadow(pages, x)
    BY <1>1
  <2>5. DOMAIN pages \subseteq DOMAIN new
    BY <1>4, <1>6
  <2> HIDE DEF new, pages, region, left
  <2>6. Reads(pages, Advance(pages, op.src, -1), left)
    BY <2>1, <2>3, <2>4, AdvanceReads
  <2> HIDE DEF src
  <2>7. Reads(pages, src, left)
    BY <2>6 DEF src
  <2>8. CASE Valid(pages, src)
    BY <2>5, <2>8, ValidKept DEF Reads
  <2>9. CASE ~Valid(pages, src)
    BY <2>7, <2>9, <2>2 DEF Reads, left
  <2> QED
    BY <2>8, <2>9
<1>11. LoopOK(new, op')
  <2>1. op' = Backward(op'.src, op'.dst, op'.stop)
    BY <1>7, <1>8
  <2>2. /\ stop <= s - 1
        /\ stop .. (s - 1) - 1 \subseteq Addr
        /\ (d - 1) - ((s - 1) - stop) .. (d - 1) - 1 \subseteq Addr
        /\ d - 1 >= s - 1
    <3> HIDE DEF s, d, stop
    <3> QED
      BY <1>1, <1>1b
  <2> QED
    BY <2>1, <2>2, <1>1b, <1>8, <1>9, <1>10 DEF LoopOK
<1>12. ASSUME NEW a \in Addr
       PROVE  Settled(new, op', a) = Settled(pages, op, a)
  <2>1. a \in Nat
    BY AddrAssumption
  <2>2. Settled(pages, op, a)
           = IF a \in d + (stop - s) .. d - 1 THEN Shadow(pages, a - d + s)
             ELSE Shadow(pages, a)
    BY <1>0, SettledBackward
  <2> DEFINE t == s - 1
             c == d - 1
  <2>3. Settled(new, op', a)
           = IF a \in c + (stop - t) .. c - 1 THEN Shadow(new, a - c + t)
             ELSE Shadow(new, a)
    BY <1>8, SettledBackward
  <2> HIDE DEF s, d, stop, new, pages
  <2>4. Shadow(new, a - c + t) = Shadow(new, a - d + s)
    <3>1. a - c + t = a - d + s
      BY <2>1, <1>1b
    <3> QED
      BY <3>1
  <2>5. a \in c + (stop - t) .. c - 1 <=> a \in d + (stop - s) .. d - 2
    BY <2>1, <1>1b
  <2> HIDE DEF c, t
  <2>6. Settled(new, op', a)
           = IF a \in d + (stop - s) .. d - 2 THEN Shadow(new, a - d + s)
             ELSE Shadow(new, a)
    BY <2>3, <2>4, <2>5
  <2>7. CASE a = d - 1
    <3>1. a \in d + (stop - s) .. d - 1 /\ a \notin d + (stop - s) .. d - 2 /\ a - d + s = s - 1
      BY <2>7, <1>1b
    <3> QED
      BY <3>1, <2>1, <2>2, <2>6, <2>7, <1>3, <1>6
  <2>8. CASE a \in d + (stop - s) .. d - 2
    <3>1. a \in d + (stop - s) .. d - 1 /\ a - d + s \in Nat /\ a - d + s # d - 1
      BY <2>8, <1>1b
    <3> QED
      BY <3>1, <2>2, <2>6, <2>8, <1>6
  <2>9. CASE a \notin d + (stop - s) .. d - 1
    <3>1. a # d - 1 /\ a \notin d + (stop - s) .. d - 2
      BY <2>1, <2>9, <1>1b
    <3> QED
      BY <3>1, <2>1, <2>2, <2>6, <2>9, <1>6
  <2> QED
    BY <2>1, <2>7, <2>8, <2>9, <1>1b
<1> QED
  <2> HIDE DEF new
  <2> QED BY <1>6, <1>7, <1>11, <1>12 DEF IInv, TypeOK, LoopsSound

\* So does a step of std::fill, std::generate or _sym_write_memory's loop.
LEMMA AssigningStep ==
  IInv /\ AssignStep =>
    /\ IInv'
    /\ \A a \in Addr : Settled(g_shadow_pages', op', a) = Settled(g_shadow_pages, op, a)
<1> SUFFICES ASSUME IInv, AssignStep
             PROVE  /\ IInv'
                    /\ \A a \in Addr : Settled(g_shadow_pages', op', a)
                                         = Settled(g_shadow_pages, op, a)
  OBVIOUS
<1> DEFINE pages == g_shadow_pages
           d     == op.dst.address
           stop  == op.stop
           e     == op.vals[d]
           put   == Put(pages, op.dst, e)
           new   == PagesAfter(put, op.dst, 1)
<1>0. PagesOK(pages) /\ LoopOK(pages, op) /\ op.kind = "assign" /\ d # stop
  BY DEF IInv, TypeOK, LoopsSound, AssignStep
<1>1. /\ op = Assign(op.dst, stop, op.vals)
      /\ stop \in Nat /\ d \in Nat
      /\ Valid(pages, op.dst)
      /\ d <= stop
      /\ d .. stop - 1 \subseteq Addr
      /\ \A a \in d .. stop - 1 : op.vals[a] \in SymExpr
  BY <1>0, AssignLoop
<1>1b. stop \in Nat /\ d \in Nat /\ d < stop
  BY <1>0, <1>1
<1>2. d \in Addr /\ e \in SymExpr
  BY <1>1, <1>1b
<1>4. /\ PagesOK(put)
      /\ DOMAIN put = DOMAIN pages
      /\ \A x \in Nat : Shadow(put, x) = IF x = d THEN e ELSE Shadow(pages, x)
  BY <1>0, <1>1, <1>2, PutLookup
<1>5. Valid(put, op.dst) /\ d + 1 \in Nat /\ pageStart(d + 1) \in PageAddrs
  BY <1>1, <1>2, <1>4, ValidKept, PagesOfRegion
<1>6. /\ PagesOK(new)
      /\ DOMAIN pages \subseteq DOMAIN new
      /\ pageStart(d + 1) \in DOMAIN new
      /\ \A x \in Nat : Shadow(new, x) = IF x = d THEN e ELSE Shadow(pages, x)
  <2>1. 1 \in {1, -1}
    OBVIOUS
  <2> QED
    BY <2>1, <1>4, <1>5, PagesAfterLookup
<1>7. /\ g_shadow_pages' = new
      /\ op' = Assign(Advance(new, op.dst, 1), stop, op.vals)
      /\ mem' = mem
  BY <1>1 DEF AssignStep, Assign
<1>8. /\ op'.kind = "assign" /\ op'.stop = stop /\ op'.vals = op.vals
      /\ op'.dst = Advance(new, op.dst, 1)
      /\ op'.dst.address = d + 1
      /\ op'.dst = [address |-> op'.dst.address, shadow |-> op'.dst.shadow]
  BY <1>7, AdvanceAddress DEF Assign
<1>9. Valid(new, op'.dst)
  <2>1. Valid(new, op.dst) /\ 1 \in {1, -1}
    BY <1>1, <1>6, ValidKept
  <2> QED
    BY <2>1, <1>5, <1>6, <1>8, AdvanceValid
<1>11. LoopOK(new, op')
  <2>1. op' = Assign(op'.dst, op'.stop, op'.vals)
    BY <1>7, <1>8
  <2>2. /\ d + 1 <= stop
        /\ d + 1 .. stop - 1 \subseteq Addr
        /\ \A a \in d + 1 .. stop - 1 : op.vals[a] \in SymExpr
    BY <1>1, <1>1b
  <2> QED
    BY <2>1, <2>2, <1>1b, <1>8, <1>9 DEF LoopOK
<1>12. ASSUME NEW a \in Addr
       PROVE  Settled(new, op', a) = Settled(pages, op, a)
  <2>1. a \in Nat
    BY AddrAssumption
  <2>2. Settled(pages, op, a) = IF a \in d .. stop - 1 THEN op.vals[a] ELSE Shadow(pages, a)
    BY <1>0, SettledAssign
  <2>3. Settled(new, op', a) = IF a \in d + 1 .. stop - 1 THEN op.vals[a] ELSE Shadow(new, a)
    BY <1>8, SettledAssign
  <2>4. Shadow(new, a) = IF a = d THEN op.vals[d] ELSE Shadow(pages, a)
    BY <2>1, <1>6
  <2> HIDE DEF d, stop, new, pages
  <2>5. CASE a = d
    BY <2>2, <2>3, <2>4, <2>5, <1>1b
  <2>6. CASE a # d
    <3>1. a \in d .. stop - 1 <=> a \in d + 1 .. stop - 1
      BY <2>1, <2>6, <1>1b
    <3> QED
      BY <3>1, <2>2, <2>3, <2>4, <2>6
  <2> QED
    BY <2>5, <2>6
<1> QED
  <2> HIDE DEF new
  <2> QED BY <1>6, <1>7, <1>11, <1>12 DEF IInv, TypeOK, LoopsSound

(***************************************************************************)
(* isConcrete                                                              *)
(***************************************************************************)

\* Division with remainder, for a page size that is not a literal.
LEMMA PageNumber ==
  ASSUME NEW a \in Nat
  PROVE  /\ a \div kPageSize \in Nat
         /\ a % kPageSize \in 0 .. kPageSize - 1
         /\ a % kPageSize = a - kPageSize * (a \div kPageSize)
<1>1. a \div kPageSize \in Nat /\ a % kPageSize \in 0 .. kPageSize - 1
  BY PageSizeAssumption
<1>2. a % kPageSize = a - kPageSize * (a \div kPageSize)
  BY PageSizeAssumption, SMTT(60)
<1> QED
  BY <1>1, <1>2

\* An address below the end of page q is on page q or an earlier one.
LEMMA PageCancel ==
  ASSUME NEW p \in Nat, NEW q \in Nat, kPageSize * p < kPageSize * q + kPageSize
  PROVE  p <= q
  BY PageSizeAssumption

\* A later page starts at a higher address.
LEMMA PageMultiply ==
  ASSUME NEW p \in Nat, NEW q \in Nat, p <= q
  PROVE  kPageSize * p <= kPageSize * q
  BY PageSizeAssumption

\* pageStart is monotonic.
LEMMA PageStartMonotonic ==
  ASSUME NEW a \in Nat, NEW b \in Nat, a <= b
  PROVE  pageStart(a) <= pageStart(b)
<1> DEFINE p == a \div kPageSize
           q == b \div kPageSize
           u == kPageSize * p
           v == kPageSize * q
           i == a % kPageSize
           j == b % kPageSize
<1>1. p \in Nat /\ q \in Nat /\ i \in 0 .. kPageSize - 1 /\ j \in 0 .. kPageSize - 1
  BY PageNumber
<1>2. i = a - u /\ j = b - v
  BY PageNumber
<1> HIDE DEF p, q, i, j
<1>3. u \in Nat /\ v \in Nat
  BY <1>1, PageSizeAssumption
<1> HIDE DEF u, v
<1>4. u < v + kPageSize
  BY <1>1, <1>2, <1>3, PageSizeAssumption
<1>5. u <= v
  <2>1. p <= q
    BY <1>1, <1>4, PageCancel DEF u, v
  <2> QED
    BY <2>1, <1>1, PageMultiply DEF u, v
<1>6. pageStart(a) = u /\ pageStart(b) = v
  BY <1>1, <1>2, <1>3, PageSizeAssumption DEF pageStart, pageOffset, i, j
<1> QED
  BY <1>5, <1>6

\* isConcrete is exact: its fast path never hides an expression.
LEMMA IsConcreteExact ==
  ASSUME NEW pages, NEW a \in Nat, NEW n \in Nat
  PROVE  isConcrete(pages, a, n) <=> \A x \in a .. a + n - 1 : Shadow(pages, x) = Null
<1>1. ASSUME pageStart(a) = pageStart(a + n), pageStart(a) \notin DOMAIN pages,
             NEW x \in a .. a + n - 1
      PROVE  Shadow(pages, x) = Null
  <2>1. x \in Nat /\ a <= x /\ x <= a + n /\ a + n \in Nat
    OBVIOUS
  <2>2. pageStart(a) <= pageStart(x) /\ pageStart(x) <= pageStart(a + n)
    BY <2>1, PageStartMonotonic
  <2>3. pageStart(x) = pageStart(a)
    BY <1>1, <2>1, <2>2, OffsetIsSlot
  <2> QED
    BY <1>1, <2>1, <2>3, ShadowValue
<1> QED
  BY <1>1 DEF isConcrete

(***************************************************************************)
(* The starts of the loops                                                 *)
(***************************************************************************)

\* A loop that assigns expressions will leave them in its region.
LEMMA AssignStarts ==
  ASSUME PagesOK(g_shadow_pages), NEW a \in Addr, NEW n \in Nat,
         Region(a, n) \subseteq Addr,
         NEW vals, \A x \in Region(a, n) : vals[x] \in SymExpr,
         StartAssign(a, n, vals)
  PROVE  /\ PagesOK(g_shadow_pages')
         /\ LoopOK(g_shadow_pages', op')
         /\ \A x \in Addr : Settled(g_shadow_pages', op', x)
                              = IF x \in Region(a, n) THEN vals[x] ELSE Shadow(g_shadow_pages, x)
<1> DEFINE one == WithShadow(g_shadow_pages, a)
           all == WithShadow(one, a + n)
           it  == Iterator(all, a)
<1>1. a \in Nat /\ a + n \in Nat /\ pageStart(a) \in PageAddrs /\ pageStart(a + n) \in PageAddrs
  BY PagesOfRegion DEF Region
<1>2. /\ PagesOK(one)
      /\ pageStart(a) \in DOMAIN one
      /\ \A x \in Nat : Shadow(one, x) = Shadow(g_shadow_pages, x)
  BY <1>1, WithShadowLookup
<1>3. /\ PagesOK(all)
      /\ pageStart(a) \in DOMAIN all
      /\ \A x \in Nat : Shadow(all, x) = Shadow(g_shadow_pages, x)
  <2> HIDE DEF one
  <2> QED
    BY <1>1, <1>2, WithShadowLookup
<1>4. g_shadow_pages' = all /\ op' = Assign(it, a + n, vals)
  BY DEF StartAssign
<1> HIDE DEF all
<1>5. /\ it.address = a
      /\ it = [address |-> it.address, shadow |-> it.shadow]
      /\ Valid(all, it)
  BY <1>1, <1>3, NewIterator
<1>6. /\ op'.kind = "assign" /\ op'.dst = it /\ op'.stop = a + n /\ op'.vals = vals
      /\ op' = Assign(op'.dst, op'.stop, op'.vals)
  BY <1>4 DEF Assign
<1>7. LoopOK(all, op')
  <2>1. op'.dst.address = a
    BY <1>5, <1>6
  <2> HIDE DEF it
  <2> QED
    BY <2>1, <1>1, <1>5, <1>6 DEF LoopOK, Region
<1>8. ASSUME NEW x \in Addr
      PROVE  Settled(all, op', x)
               = IF x \in Region(a, n) THEN vals[x] ELSE Shadow(g_shadow_pages, x)
  <2> DEFINE stop == a + n
  <2>0. op'.kind = "assign" /\ a = op'.dst.address /\ stop = op'.stop
    BY <1>5, <1>6
  <2>1. Settled(all, op', x) = IF x \in a .. stop - 1 THEN op'.vals[x] ELSE Shadow(all, x)
    <3> HIDE DEF stop
    <3> QED
      BY <2>0, SettledAssign
  <2> QED
    BY <2>1, <1>3, <1>6, AddrAssumption DEF Region
<1> QED
  BY <1>3, <1>4, <1>7, <1>8

\* A forward copy will leave the expressions of its source in its
\* destination if it does not start inside of the source.
LEMMA ForwardStarts ==
  ASSUME PagesOK(g_shadow_pages), NEW dest \in Addr, NEW src \in Addr,
         NEW n \in Nat, NEW rest \in Nat,
         dest .. dest + n + rest - 1 \subseteq Addr, src .. src + n - 1 \subseteq Addr,
         dest <= src \/ dest >= src + n,
         StartForward(dest, src, n, rest)
  PROVE  /\ PagesOK(g_shadow_pages')
         /\ LoopOK(g_shadow_pages', op')
         /\ \A x \in Addr : Settled(g_shadow_pages', op', x)
                = IF x \in dest .. dest + n - 1 THEN Shadow(g_shadow_pages, x - dest + src)
                  ELSE IF x \in dest + n .. dest + n + rest - 1 THEN Null
                  ELSE Shadow(g_shadow_pages, x)
<1> DEFINE new == WithShadow(g_shadow_pages, dest)
           it  == Iterator(new, dest)
<1>1. /\ dest \in Nat /\ src \in Nat /\ pageStart(dest) \in PageAddrs
  BY PagesOfRegion
<1>2. /\ PagesOK(new)
      /\ pageStart(dest) \in DOMAIN new
      /\ DOMAIN g_shadow_pages \subseteq DOMAIN new
      /\ \A x \in Nat : Shadow(new, x) = Shadow(g_shadow_pages, x)
  BY <1>1, WithShadowLookup
<1>3. PICK seen \in {g_shadow_pages, new} :
        op' = Forward(Iterator(seen, src), it, src + n, rest)
  BY DEF StartForward
<1>4. g_shadow_pages' = new
  BY DEF StartForward
<1> DEFINE from == Iterator(seen, src)
<1> HIDE DEF new
<1>5. /\ it.address = dest
      /\ it = [address |-> it.address, shadow |-> it.shadow]
      /\ Valid(new, it)
  BY <1>1, <1>2, NewIterator
<1>6. /\ from.address = src
      /\ from = [address |-> from.address, shadow |-> from.shadow]
  BY <1>1, NewIterator
<1>7. Reads(new, from, src .. src + n - 1)
  <2> DEFINE region == src .. src + n - 1
  <2>1. region \in SUBSET Nat
    BY <1>1
  <2>2. /\ DOMAIN seen \subseteq DOMAIN new
        /\ \A x \in Nat : Shadow(new, x) = Shadow(seen, x)
    BY <1>2, <1>3
  <2> HIDE DEF region
  <2>3. Reads(new, Iterator(seen, src), region)
    BY <1>1, <2>1, <2>2, NewReads
  <2> QED
    BY <2>3 DEF region
<1> HIDE DEF it, from
<1>8. /\ op'.kind = "forward" /\ op'.src = from /\ op'.dst = it
      /\ op'.stop = src + n /\ op'.rest = rest
      /\ op' = Forward(op'.src, op'.dst, op'.stop, op'.rest)
  BY <1>3 DEF Forward, from
<1>9. LoopOK(new, op')
  <2>1. op'.dst.address = dest /\ op'.src.address = src
    BY <1>5, <1>6, <1>8
  <2>2. dest .. dest + ((src + n) - src) + rest - 1 \subseteq Addr
    BY <1>1
  <2>3. src <= src + n /\ src + n \in Nat
    BY <1>1
  <2> QED
    BY <2>1, <2>2, <2>3, <1>1, <1>5, <1>6, <1>7, <1>8 DEF LoopOK
<1>10. ASSUME NEW x \in Addr
       PROVE  Settled(new, op', x)
                = IF x \in dest .. dest + n - 1 THEN Shadow(g_shadow_pages, x - dest + src)
                  ELSE IF x \in dest + n .. dest + n + rest - 1 THEN Null
                  ELSE Shadow(g_shadow_pages, x)
  <2> DEFINE stop == src + n
  <2>1. Settled(new, op', x)
           = IF x \in dest .. dest + (stop - src) - 1 THEN Shadow(new, x - dest + src)
             ELSE IF x \in dest + (stop - src) .. dest + (stop - src) + rest - 1 THEN Null
             ELSE Shadow(new, x)
    BY <1>5, <1>6, <1>8, SettledForward
  <2>2. dest + (stop - src) = dest + n /\ x \in Nat
    BY <1>1, AddrAssumption
  <2> HIDE DEF stop
  <2>3. Settled(new, op', x)
           = IF x \in dest .. dest + n - 1 THEN Shadow(new, x - dest + src)
             ELSE IF x \in dest + n .. dest + n + rest - 1 THEN Null
             ELSE Shadow(new, x)
    <3>1. /\ x \in dest .. dest + (stop - src) - 1 <=> x \in dest .. dest + n - 1
          /\ x \in dest + (stop - src) .. dest + (stop - src) + rest - 1
               <=> x \in dest + n .. dest + n + rest - 1
      BY <1>1, <2>2 DEF stop
    <3> QED
      BY <2>1, <3>1
  <2>4. x \in dest .. dest + n - 1 => x - dest + src \in Nat
    BY <2>2, <1>1
  <2> QED
    BY <2>2, <2>3, <2>4, <1>2
<1> QED
  BY <1>2, <1>4, <1>9, <1>10

\* A backward copy will, if its destination does not start before its source.
LEMMA BackwardStarts ==
  ASSUME PagesOK(g_shadow_pages), NEW dest \in Addr, NEW src \in Addr, NEW n \in Nat,
         dest .. dest + n - 1 \subseteq Addr, src .. src + n - 1 \subseteq Addr,
         dest >= src,
         StartBackward(dest, src, n)
  PROVE  /\ PagesOK(g_shadow_pages')
         /\ LoopOK(g_shadow_pages', op')
         /\ \A x \in Addr : Settled(g_shadow_pages', op', x)
                = IF x \in dest .. dest + n - 1 THEN Shadow(g_shadow_pages, x - dest + src)
                  ELSE Shadow(g_shadow_pages, x)
<1> DEFINE new == WithShadow(g_shadow_pages, dest + n)
           it  == Iterator(new, dest + n)
<1>1. /\ dest \in Nat /\ src \in Nat /\ pageStart(dest + n) \in PageAddrs
      /\ dest + n \in Nat /\ src + n \in Nat
  BY PagesOfRegion
<1>2. /\ PagesOK(new)
      /\ pageStart(dest + n) \in DOMAIN new
      /\ DOMAIN g_shadow_pages \subseteq DOMAIN new
      /\ \A x \in Nat : Shadow(new, x) = Shadow(g_shadow_pages, x)
  BY <1>1, WithShadowLookup
<1>3. PICK seen \in {g_shadow_pages, new} :
        op' = Backward(Iterator(seen, src + n), it, src)
  BY DEF StartBackward
<1>4. g_shadow_pages' = new
  BY DEF StartBackward
<1> DEFINE from == Iterator(seen, src + n)
<1> HIDE DEF new
<1>5. /\ it.address = dest + n
      /\ it = [address |-> it.address, shadow |-> it.shadow]
      /\ Valid(new, it)
  BY <1>1, <1>2, NewIterator
<1>6. /\ from.address = src + n
      /\ from = [address |-> from.address, shadow |-> from.shadow]
  BY <1>1, NewIterator
<1>7. Reads(new, from, src .. src + n - 1)
  <2> DEFINE region == src .. src + n - 1
  <2>1. region \in SUBSET Nat
    BY <1>1
  <2>2. /\ DOMAIN seen \subseteq DOMAIN new
        /\ \A x \in Nat : Shadow(new, x) = Shadow(seen, x)
    BY <1>2, <1>3
  <2> HIDE DEF region
  <2>3. Reads(new, Iterator(seen, src + n), region)
    BY <1>1, <2>1, <2>2, NewReads
  <2> QED
    BY <2>3 DEF region
<1> HIDE DEF it, from
<1>8. /\ op'.kind = "backward" /\ op'.src = from /\ op'.dst = it /\ op'.stop = src
      /\ op' = Backward(op'.src, op'.dst, op'.stop)
  BY <1>3 DEF Backward, from
<1>9. LoopOK(new, op')
  <2>1. op'.dst.address = dest + n /\ op'.src.address = src + n
    BY <1>5, <1>6, <1>8
  <2>2. (dest + n) - ((src + n) - src) .. (dest + n) - 1 \subseteq Addr
    BY <1>1
  <2>3. src <= src + n /\ dest + n >= src + n
    BY <1>1
  <2> QED
    BY <2>1, <2>2, <2>3, <1>1, <1>5, <1>6, <1>7, <1>8 DEF LoopOK
<1>10. ASSUME NEW x \in Addr
       PROVE  Settled(new, op', x)
                = IF x \in dest .. dest + n - 1 THEN Shadow(g_shadow_pages, x - dest + src)
                  ELSE Shadow(g_shadow_pages, x)
  <2> DEFINE d == dest + n
             s == src + n
  <2>1. Settled(new, op', x)
           = IF x \in d + (src - s) .. d - 1 THEN Shadow(new, x - d + s)
             ELSE Shadow(new, x)
    BY <1>5, <1>6, <1>8, SettledBackward
  <2>2. d + (src - s) = dest /\ x - d + s = x - dest + src /\ x \in Nat
    BY <1>1, AddrAssumption
  <2>3. Settled(new, op', x)
           = IF x \in dest .. d - 1 THEN Shadow(new, x - dest + src)
             ELSE Shadow(new, x)
    <3> HIDE DEF d, s
    <3> QED
      BY <2>1, <2>2
  <2>4. x \in dest .. dest + n - 1 => x - dest + src \in Nat
    BY <2>2, <1>1
  <2> QED
    BY <2>2, <2>3, <2>4, <1>2
<1> QED
  BY <1>2, <1>4, <1>9, <1>10

(***************************************************************************)
(* What each operation of the run-time library leaves behind               *)
(***************************************************************************)

\* Outside of a loop, memory is settled.
LEMMA IdleSettled ==
  ASSUME LoopsSound, op.kind = "idle"
  PROVE  op = Idle /\ \A a : Settled(g_shadow_pages, op, a) = Shadow(g_shadow_pages, a)
<1>1. op = Idle
  BY DEF LoopsSound, LoopOK
<1> QED
  BY <1>1, SettledIdle

\* std::fill with one expression.
LEMMA FillOutcome ==
  ASSUME PagesOK(g_shadow_pages), NEW a \in Addr, NEW n \in Nat,
         Region(a, n) \subseteq Addr, NEW e \in SymExpr, Fill(a, n, e)
  PROVE  /\ PagesOK(g_shadow_pages')
         /\ LoopOK(g_shadow_pages', op')
         /\ \A x \in Addr : Settled(g_shadow_pages', op', x)
                              = IF x \in Region(a, n) THEN e ELSE Shadow(g_shadow_pages, x)
<1> DEFINE vals == [x \in Region(a, n) |-> e]
<1>1. \A x \in Region(a, n) : vals[x] = e
  OBVIOUS
<1>2. StartAssign(a, n, vals)
  BY DEF Fill, Region
<1> HIDE DEF vals
<1> QED
  BY <1>1, <1>2, AssignStarts

\* Making a region concrete, unless it is: _sym_memset, _sym_write_memory
\* with a null expression, and reads of anything but the input.
LEMMA ClearOutcome ==
  ASSUME PagesOK(g_shadow_pages), op = Idle, NEW a \in Addr, NEW n \in Nat,
         Region(a, n) \subseteq Addr,
         IF isConcrete(g_shadow_pages, a, n) THEN SkipShadow ELSE Fill(a, n, Null)
  PROVE  /\ PagesOK(g_shadow_pages')
         /\ LoopOK(g_shadow_pages', op')
         /\ \A x \in Addr : Settled(g_shadow_pages', op', x)
                              = IF x \in Region(a, n) THEN Null ELSE Shadow(g_shadow_pages, x)
<1>0. a \in Nat
  BY AddrAssumption
<1>1. CASE isConcrete(g_shadow_pages, a, n)
  <2>1. g_shadow_pages' = g_shadow_pages /\ op' = Idle
    BY <1>1 DEF SkipShadow
  <2>2. \A x \in Region(a, n) : Shadow(g_shadow_pages, x) = Null
    BY <1>0, <1>1, IsConcreteExact DEF Region
  <2> QED
    BY <2>1, <2>2, SettledIdle DEF LoopOK
<1>2. CASE ~isConcrete(g_shadow_pages, a, n)
  <2>1. Null \in SymExpr /\ Fill(a, n, Null)
    BY <1>2 DEF SymExpr
  <2> QED
    BY <2>1, FillOutcome
<1> QED
  BY <1>1, <1>2

\* An operation that finds nothing to do.
LEMMA SkipOutcome ==
  ASSUME PagesOK(g_shadow_pages), op = Idle, SkipShadow
  PROVE  /\ PagesOK(g_shadow_pages')
         /\ LoopOK(g_shadow_pages', op')
         /\ \A x \in Addr : Settled(g_shadow_pages', op', x) = Shadow(g_shadow_pages, x)
<1>1. g_shadow_pages' = g_shadow_pages /\ op' = Idle
  BY DEF SkipShadow
<1> QED
  BY <1>1, SettledIdle DEF LoopOK

\* _sym_memmove and _sym_memcpy leave the source's expressions, as they were,
\* in the destination.
LEMMA MemmoveOutcome ==
  ASSUME PagesOK(g_shadow_pages), op = Idle, NEW dest \in Addr, NEW src \in Addr,
         NEW n \in Nat, Mapped(dest, n), Mapped(src, n),
         \/ _sym_memmove(dest, src, n)
         \/ _sym_memcpy(dest, src, n) /\ Disjoint(dest, n, src, n)
  PROVE  /\ PagesOK(g_shadow_pages')
         /\ LoopOK(g_shadow_pages', op')
         /\ \A x \in Addr : Settled(g_shadow_pages', op', x)
                = IF x \in dest .. dest + n - 1 THEN Shadow(g_shadow_pages, x - dest + src)
                  ELSE Shadow(g_shadow_pages, x)
<1>0. /\ dest \in Nat /\ src \in Nat /\ 0 \in Nat
      /\ dest .. dest + n - 1 \subseteq Addr /\ src .. src + n - 1 \subseteq Addr
  BY AddrAssumption DEF Mapped, Region
<1>1. /\ n + 0 = n /\ dest + n + 0 = dest + n
      /\ \A x : x \notin dest + n .. dest + n + 0 - 1
  BY <1>0
<1>2. CASE isConcrete(g_shadow_pages, src, n) /\ isConcrete(g_shadow_pages, dest, n)
  <2>1. SkipShadow
    BY <1>2 DEF _sym_memmove, _sym_memcpy
  <2>2. /\ \A x \in src .. src + n - 1 : Shadow(g_shadow_pages, x) = Null
        /\ \A x \in dest .. dest + n - 1 : Shadow(g_shadow_pages, x) = Null
    BY <1>0, <1>2, IsConcreteExact
  <2>3. \A x \in dest .. dest + n - 1 : x - dest + src \in src .. src + n - 1
    BY <1>0
  <2> QED
    BY <2>1, <2>2, <2>3, SkipOutcome
<1>3. CASE StartForward(dest, src, n, 0) /\ (dest <= src \/ dest >= src + n)
  BY <1>0, <1>1, <1>3, ForwardStarts
<1>4. CASE StartBackward(dest, src, n) /\ dest > src
  <2>1. dest >= src
    BY <1>0, <1>4
  <2> QED
    BY <1>0, <1>4, <2>1, BackwardStarts
<1>5. ASSUME Disjoint(dest, n, src, n) PROVE dest <= src \/ dest >= src + n
  <2> SUFFICES ASSUME dest > src, dest < src + n PROVE FALSE
    BY <1>0
  <2>1. dest \in src .. src + n - 1 /\ dest \in dest .. dest + n - 1
    BY <1>0
  <2> QED
    BY <2>1, <1>5 DEF Disjoint, Region
<1>6. dest > src \/ dest <= src
  BY <1>0
<1> QED
  BY <1>2, <1>3, <1>4, <1>5, <1>6 DEF _sym_memmove, _sym_memcpy

\* The end of a loop settles memory for good.
LEMMA LoopDoneStep ==
  IInv /\ LoopDone =>
    /\ IInv'
    /\ \A a \in Addr : Settled(g_shadow_pages', op', a) = Settled(g_shadow_pages, op, a)
<1> SUFFICES ASSUME IInv, LoopDone
             PROVE  /\ IInv'
                    /\ \A a \in Addr : Settled(g_shadow_pages', op', a)
                                         = Settled(g_shadow_pages, op, a)
  OBVIOUS
<1>0. /\ PagesOK(g_shadow_pages) /\ LoopOK(g_shadow_pages, op)
      /\ mem \in [Addr -> Byte] /\ mem' = mem
  BY DEF IInv, TypeOK, LoopsSound, LoopDone
<1>1. CASE /\ op.kind = "forward" /\ op.src.address = op.stop /\ op.rest > 0
           /\ Fill(op.dst.address, op.rest, Null)
  <2> DEFINE s    == op.src.address
             d    == op.dst.address
             stop == op.stop
             rest == op.rest
  <2>1. /\ s = stop /\ stop \in Nat /\ d \in Nat /\ rest \in Nat /\ rest > 0
        /\ d .. d + (stop - s) + rest - 1 \subseteq Addr
    BY <1>0, <1>1, ForwardLoop
  <2>2. /\ Fill(d, rest, Null) /\ Null \in SymExpr
        /\ \A a : Settled(g_shadow_pages, op, a)
             = IF a \in d .. d + (stop - s) - 1 THEN Shadow(g_shadow_pages, a - d + s)
               ELSE IF a \in d + (stop - s) .. d + (stop - s) + rest - 1 THEN Null
               ELSE Shadow(g_shadow_pages, a)
    BY <1>1, SettledForward DEF SymExpr
  <2> HIDE DEF s, d, stop, rest
  <2>3. Region(d, rest) \subseteq Addr /\ d \in Addr
    BY <2>1 DEF Region
  <2>4. /\ PagesOK(g_shadow_pages')
        /\ LoopOK(g_shadow_pages', op')
        /\ \A x \in Addr : Settled(g_shadow_pages', op', x)
                = IF x \in Region(d, rest) THEN Null ELSE Shadow(g_shadow_pages, x)
    BY <1>0, <2>1, <2>2, <2>3, FillOutcome
  <2>5. \A a \in Addr : /\ a \notin d .. d + (stop - s) - 1
                        /\ a \in d + (stop - s) .. d + (stop - s) + rest - 1
                             <=> a \in Region(d, rest)
    BY <2>1, AddrAssumption DEF Region
  <2> QED
    BY <1>0, <2>2, <2>4, <2>5 DEF IInv, TypeOK, LoopsSound
<1>2. CASE /\ op.kind = "forward" /\ op.src.address = op.stop /\ ~(op.rest > 0)
           /\ op' = Idle /\ UNCHANGED g_shadow_pages
  <2> DEFINE s    == op.src.address
             d    == op.dst.address
             stop == op.stop
             rest == op.rest
  <2>0. stop \in Nat /\ d \in Nat /\ rest \in Nat
    BY <1>0, <1>2, ForwardLoop
  <2>1. s = stop /\ stop \in Nat /\ d \in Nat /\ rest = 0
    BY <1>2, <2>0
  <2>2. \A a : Settled(g_shadow_pages, op, a)
             = IF a \in d .. d + (stop - s) - 1 THEN Shadow(g_shadow_pages, a - d + s)
               ELSE IF a \in d + (stop - s) .. d + (stop - s) + rest - 1 THEN Null
               ELSE Shadow(g_shadow_pages, a)
    BY <1>2, SettledForward
  <2> HIDE DEF s, d, stop, rest
  <2>3. \A a : /\ a \notin d .. d + (stop - s) - 1
               /\ a \notin d + (stop - s) .. d + (stop - s) + rest - 1
    BY <2>1
  <2> QED
    BY <1>0, <1>2, <2>2, <2>3, SettledIdle DEF IInv, TypeOK, LoopsSound, LoopOK
<1>3. CASE /\ op.kind = "backward" /\ op.src.address = op.stop
           /\ op' = Idle /\ UNCHANGED g_shadow_pages
  <2> DEFINE s    == op.src.address
             d    == op.dst.address
             stop == op.stop
  <2>1. s = stop /\ stop \in Nat /\ d \in Nat
    BY <1>0, <1>3, BackwardLoop
  <2>2. \A a : Settled(g_shadow_pages, op, a)
             = IF a \in d + (stop - s) .. d - 1 THEN Shadow(g_shadow_pages, a - d + s)
               ELSE Shadow(g_shadow_pages, a)
    BY <1>3, SettledBackward
  <2> HIDE DEF s, d, stop
  <2>3. \A a : a \notin d + (stop - s) .. d - 1
    BY <2>1
  <2> QED
    BY <1>0, <1>3, <2>2, <2>3, SettledIdle DEF IInv, TypeOK, LoopsSound, LoopOK
<1>4. CASE /\ op.kind = "assign" /\ op.dst.address = op.stop
           /\ op' = Idle /\ UNCHANGED g_shadow_pages
  <2> DEFINE d    == op.dst.address
             stop == op.stop
  <2>1. d = stop /\ stop \in Nat
    BY <1>0, <1>4, AssignLoop
  <2>2. \A a : Settled(g_shadow_pages, op, a)
             = IF a \in d .. stop - 1 THEN op.vals[a] ELSE Shadow(g_shadow_pages, a)
    BY <1>4, SettledAssign
  <2> HIDE DEF d, stop
  <2>3. \A a : a \notin d .. stop - 1
    BY <2>1
  <2> QED
    BY <1>0, <1>4, <2>2, <2>3, SettledIdle DEF IInv, TypeOK, LoopsSound, LoopOK
<1> QED
  BY <1>1, <1>2, <1>3, <1>4 DEF LoopDone

(***************************************************************************)
(* Calls.  Each takes effect, as far as the program can tell, when it      *)
(* starts: it is an action of ConcolicMemory.                              *)
(***************************************************************************)

\* What the concrete part of a call does to memory.
LEMMA OverwriteOutcome ==
  ASSUME mem \in [Addr -> Byte], NEW a, NEW n, NEW f,
         \A x \in Region(a, n) : f[x] \in Byte, Overwrite(a, n, f)
  PROVE  /\ mem' \in [Addr -> Byte]
         /\ \A x \in Addr : mem'[x] = IF x \in Region(a, n) THEN f[x] ELSE mem[x]
  BY DEF Overwrite

\* Expressions g for the bytes f of a region make an AbsWrite.
LEMMA WriteIsAbstract ==
  ASSUME IInv, op.kind = "idle", NEW a \in Addr, NEW n, Mapped(a, n),
         NEW f, \A x \in Region(a, n) : f[x] \in Byte, Overwrite(a, n, f),
         NEW g, \A x \in Region(a, n) : g[x] = Null \/ (g[x] \in Expr /\ Val[g[x]] = f[x]),
         loaded' = NoValue,
         PagesOK(g_shadow_pages'), LoopOK(g_shadow_pages', op'),
         \A x \in Addr : Settled(g_shadow_pages', op', x)
                           = IF x \in Region(a, n) THEN g[x] ELSE Shadow(g_shadow_pages, x)
  PROVE  IInv' /\ Flat!AbsWrite(a, n)
<1>1. /\ mem' \in [Addr -> Byte]
      /\ \A x \in Addr : mem'[x] = IF x \in Region(a, n) THEN f[x] ELSE mem[x]
  BY OverwriteOutcome DEF IInv, TypeOK
<1>2. \A x \in Addr : Settled(g_shadow_pages, op, x) = Shadow(g_shadow_pages, x)
  BY IdleSettled DEF IInv
<1>3. IInv'
  BY <1>1 DEF IInv, TypeOK, LoopsSound
<1>4. \A x \in Addr : IF x \in Region(a, n)
                        THEN Flat!Describes(Settled(g_shadow_pages', op', x), mem'[x])
                        ELSE /\ Settled(g_shadow_pages', op', x) = Settled(g_shadow_pages, op, x)
                             /\ mem'[x] = mem[x]
  BY <1>1, <1>2 DEF Flat!Describes
<1>5. Region(a, n) \subseteq Addr
  BY DEF Mapped
<1> QED
  BY <1>1, <1>3, <1>4, <1>5 DEF Flat!AbsWrite, Region, NoValue, Flat!NothingLoaded

\* A read of anything but the input writes concrete bytes.
LEMMA ReadConcreteStep ==
  ASSUME IInv, NEW a \in Addr, NEW n \in Lengths, NEW bytes \in [0 .. n - 1 -> Byte],
         ReadConcrete(a, n, bytes)
  PROVE  IInv' /\ Flat!AbsWrite(a, n)
<1> DEFINE f == [x \in Region(a, n) |-> bytes[x - a]]
           g == [x \in Region(a, n) |-> Null]
<1>0. a \in Nat /\ n \in Nat
  BY AddrAssumption, LengthAssumption
<1>1. \A x \in Region(a, n) : f[x] \in Byte /\ g[x] = Null
  BY <1>0 DEF Region
<1>2. /\ op.kind = "idle" /\ loaded' = NoValue /\ Mapped(a, n) /\ Overwrite(a, n, f)
      /\ IF isConcrete(g_shadow_pages, a, n) THEN SkipShadow ELSE Fill(a, n, Null)
  BY DEF ReadConcrete, Ready
<1>3. PagesOK(g_shadow_pages) /\ op = Idle /\ Region(a, n) \subseteq Addr
  BY <1>2, IdleSettled DEF IInv, TypeOK, Mapped
<1> HIDE DEF f, g
<1>4. /\ PagesOK(g_shadow_pages')
      /\ LoopOK(g_shadow_pages', op')
      /\ \A x \in Addr : Settled(g_shadow_pages', op', x)
                           = IF x \in Region(a, n) THEN g[x] ELSE Shadow(g_shadow_pages, x)
  BY <1>0, <1>1, <1>2, <1>3, ClearOutcome
<1> QED
  BY <1>1, <1>2, <1>4, WriteIsAbstract

\* bzero writes concrete zeros.
LEMMA BzeroStep ==
  ASSUME IInv, NEW a \in Addr, NEW n \in Lengths, Bzero(a, n)
  PROVE  IInv' /\ Flat!AbsWrite(a, n)
<1> DEFINE f == [x \in Region(a, n) |-> 0]
           g == [x \in Region(a, n) |-> Null]
<1>0. a \in Nat /\ n \in Nat /\ Null \in SymExpr
  BY AddrAssumption, LengthAssumption DEF SymExpr
<1>1. \A x \in Region(a, n) : f[x] \in Byte /\ g[x] = Null
  BY ByteAssumption
<1>2. /\ op.kind = "idle" /\ loaded' = NoValue /\ Mapped(a, n) /\ Overwrite(a, n, f)
      /\ Fill(a, n, Null)
  BY DEF Bzero, Ready
<1>3. PagesOK(g_shadow_pages) /\ Region(a, n) \subseteq Addr
  BY <1>2 DEF IInv, TypeOK, Mapped
<1> HIDE DEF f, g
<1>4. /\ PagesOK(g_shadow_pages')
      /\ LoopOK(g_shadow_pages', op')
      /\ \A x \in Addr : Settled(g_shadow_pages', op', x)
                           = IF x \in Region(a, n) THEN g[x] ELSE Shadow(g_shadow_pages, x)
  BY <1>0, <1>1, <1>2, <1>3, FillOutcome
<1> QED
  BY <1>1, <1>2, <1>4, WriteIsAbstract

\* memset writes a byte and its expression.
LEMMA MemsetStep ==
  ASSUME IInv, NEW a \in Addr, NEW n \in Lengths, NEW b \in Byte, NEW e \in SymExpr,
         Memset(a, n, b, e)
  PROVE  IInv' /\ Flat!AbsWrite(a, n)
<1> DEFINE f == [x \in Region(a, n) |-> b]
           g == [x \in Region(a, n) |-> e]
<1>0. a \in Nat /\ n \in Nat
  BY AddrAssumption, LengthAssumption
<1>1. \A x \in Region(a, n) : f[x] = b /\ g[x] = e
  OBVIOUS
<1>2. /\ op.kind = "idle" /\ loaded' = NoValue /\ Mapped(a, n) /\ Overwrite(a, n, f)
      /\ e # Null => Val[e] = b
      /\ _sym_memset(a, n, e)
  BY DEF Memset, Ready
<1>3. PagesOK(g_shadow_pages) /\ op = Idle /\ Region(a, n) \subseteq Addr
  BY <1>2, IdleSettled DEF IInv, TypeOK, Mapped
<1>4. \A x \in Region(a, n) : g[x] = Null \/ (g[x] \in Expr /\ Val[g[x]] = f[x])
  BY <1>1, <1>2 DEF SymExpr
<1> HIDE DEF f, g
<1>5. /\ PagesOK(g_shadow_pages')
      /\ LoopOK(g_shadow_pages', op')
      /\ \A x \in Addr : Settled(g_shadow_pages', op', x)
                           = IF x \in Region(a, n) THEN g[x] ELSE Shadow(g_shadow_pages, x)
  <2>1. CASE e = Null /\ isConcrete(g_shadow_pages, a, n)
    <3>1. IF isConcrete(g_shadow_pages, a, n) THEN SkipShadow ELSE Fill(a, n, Null)
      BY <1>2, <2>1 DEF _sym_memset
    <3> QED
      BY <1>0, <1>1, <1>3, <2>1, <3>1, ClearOutcome
  <2>2. CASE ~(e = Null /\ isConcrete(g_shadow_pages, a, n))
    <3>1. Fill(a, n, e)
      BY <1>2, <2>2 DEF _sym_memset
    <3> QED
      BY <1>0, <1>1, <1>3, <3>1, FillOutcome
  <2> QED
    BY <2>1, <2>2
<1> QED
  BY <1>1, <1>2, <1>4, <1>5, WriteIsAbstract

\* A store writes the bytes of a value and of its expression in memory order.
LEMMA StoreStep ==
  ASSUME IInv, NEW a \in Addr, NEW n \in WordSizes, NEW val \in [0 .. n - 1 -> Byte],
         NEW expr \in Words(n), Store(a, n, val, expr)
  PROVE  IInv' /\ Flat!AbsWrite(a, n)
<1> DEFINE f == [x \in Region(a, n) |-> val[ByteOrder(n, x - a)]]
           g == [x \in Region(a, n) |-> expr[ByteOrder(n, x - a)]]
<1>0. a \in Nat /\ n \in Nat \ {0}
  BY AddrAssumption, LengthAssumption
<1>1. \A x \in Region(a, n) : /\ ByteOrder(n, x - a) \in 0 .. n - 1
                              /\ f[x] = val[ByteOrder(n, x - a)]
                              /\ f[x] \in Byte
                              /\ g[x] = expr[ByteOrder(n, x - a)]
  BY <1>0, EndianAssumption DEF Region, ByteOrder
<1>2. /\ op.kind = "idle" /\ loaded' = NoValue /\ Mapped(a, n) /\ Overwrite(a, n, f)
      /\ expr # NullWord(n) => \A k \in 0 .. n - 1 : Val[expr[k]] = val[k]
      /\ _sym_write_memory(a, n, expr)
  BY DEF Store, Ready
<1>3. PagesOK(g_shadow_pages) /\ op = Idle /\ Region(a, n) \subseteq Addr
  BY <1>2, IdleSettled DEF IInv, TypeOK, Mapped
<1>4. CASE expr = NullWord(n)
  <2>1. \A x \in Region(a, n) : g[x] = Null
    BY <1>1, <1>4 DEF NullWord
  <2>2. IF isConcrete(g_shadow_pages, a, n) THEN SkipShadow ELSE Fill(a, n, Null)
    BY <1>2, <1>4 DEF _sym_write_memory
  <2> HIDE DEF f, g
  <2>3. /\ PagesOK(g_shadow_pages')
        /\ LoopOK(g_shadow_pages', op')
        /\ \A x \in Addr : Settled(g_shadow_pages', op', x)
                             = IF x \in Region(a, n) THEN g[x] ELSE Shadow(g_shadow_pages, x)
    BY <1>0, <1>3, <2>1, <2>2, ClearOutcome
  <2> QED
    BY <1>1, <1>2, <2>1, <2>3, WriteIsAbstract
<1>5. CASE expr # NullWord(n)
  <2>1. expr \in [0 .. n - 1 -> Expr]
    BY <1>5 DEF Words
  <2>2. StartAssign(a, n, g)
    BY <1>2, <1>5 DEF _sym_write_memory
  <2>3. \A x \in Region(a, n) : g[x] \in Expr /\ Val[g[x]] = f[x]
    BY <1>1, <1>2, <1>5, <2>1
  <2>4. \A x \in Region(a, n) : g[x] \in SymExpr
    BY <2>3 DEF SymExpr
  <2> HIDE DEF f, g
  <2>5. /\ PagesOK(g_shadow_pages')
        /\ LoopOK(g_shadow_pages', op')
        /\ \A x \in Addr : Settled(g_shadow_pages', op', x)
                             = IF x \in Region(a, n) THEN g[x] ELSE Shadow(g_shadow_pages, x)
    BY <1>0, <1>3, <2>2, <2>4, AssignStarts
  <2> QED
    BY <1>1, <1>2, <2>3, <2>5, WriteIsAbstract
<1> QED
  BY <1>4, <1>5

\* A read from the input labels every byte with its offset.
LEMMA ReadInputStep ==
  ASSUME IInv, NEW a \in Addr, NEW n \in Lengths, NEW off \in DOMAIN InputByte,
         ReadInput(a, n, off)
  PROVE  IInv' /\ Flat!AbsInput(a, n, off)
<1> DEFINE g == [x \in Region(a, n) |-> InputByte[off + x - a]]
           f == [x \in Region(a, n) |-> Val[InputByte[off + x - a]]]
<1>0. a \in Nat /\ n \in Nat /\ off \in Nat
  BY AddrAssumption, LengthAssumption, InputAssumption
<1>1. /\ op.kind = "idle" /\ loaded' = NoValue /\ Mapped(a, n)
      /\ off .. off + n - 1 \subseteq DOMAIN InputByte
      /\ Overwrite(a, n, f)
      /\ StartAssign(a, n, g)
  BY DEF ReadInput, Ready, _sym_make_symbolic
<1>2. PagesOK(g_shadow_pages) /\ op = Idle /\ Region(a, n) \subseteq Addr
  BY <1>1, IdleSettled DEF IInv, TypeOK, Mapped
<1>3. \A x \in Region(a, n) : off + x - a \in DOMAIN InputByte
  <2>1. \A x \in Region(a, n) : off + x - a \in off .. off + n - 1
    BY <1>0 DEF Region
  <2> QED
    BY <1>1, <2>1
<1>4. \A x \in Region(a, n) : g[x] \in SymExpr /\ f[x] \in Byte
  BY <1>3, InputAssumption, ExprAssumption DEF SymExpr
<1>5. \A x \in Region(a, n) : /\ g[x] = InputByte[off + x - a]
                              /\ f[x] = Val[InputByte[off + x - a]]
  OBVIOUS
<1> HIDE DEF f, g
<1>6. /\ PagesOK(g_shadow_pages')
      /\ LoopOK(g_shadow_pages', op')
      /\ \A x \in Addr : Settled(g_shadow_pages', op', x)
                           = IF x \in Region(a, n) THEN g[x] ELSE Shadow(g_shadow_pages, x)
  BY <1>0, <1>1, <1>2, <1>4, AssignStarts
<1>7. \A x \in Addr : Settled(g_shadow_pages, op, x) = Shadow(g_shadow_pages, x)
  BY <1>1, IdleSettled DEF IInv
<1>8. /\ mem' \in [Addr -> Byte]
      /\ \A x \in Addr : mem'[x] = IF x \in Region(a, n) THEN f[x] ELSE mem[x]
  BY <1>1, <1>4, OverwriteOutcome DEF IInv, TypeOK
<1>9. mem' = [x \in Addr |-> IF x \in a .. a + n - 1
                               THEN Val[InputByte[off + x - a]] ELSE mem[x]]
  BY <1>5, <1>8 DEF Region
<1>10. \A x \in Addr : Settled(g_shadow_pages', op', x)
                         = IF x \in a .. a + n - 1 THEN InputByte[off + x - a]
                           ELSE Settled(g_shadow_pages, op, x)
  BY <1>5, <1>6, <1>7 DEF Region
<1>11. IInv'
  BY <1>6, <1>8 DEF IInv, TypeOK, LoopsSound
<1> QED
  BY <1>1, <1>2, <1>9, <1>10, <1>11
     DEF Flat!AbsInput, Region, NoValue, Flat!NothingLoaded

\* memcpy and memmove copy values and expressions, whatever the overlap.
LEMMA MoveStep ==
  ASSUME IInv, NEW dest \in Addr, NEW src \in Addr, NEW n \in Lengths,
         Memcpy(dest, src, n) \/ Memmove(dest, src, n)
  PROVE  IInv' /\ Flat!AbsCopy(dest, src, n, n)
<1> DEFINE f == [x \in Region(dest, n) |-> mem[x - dest + src]]
<1>0. dest \in Nat /\ src \in Nat /\ n \in Nat
  BY AddrAssumption, LengthAssumption
<1>1. /\ op.kind = "idle" /\ loaded' = NoValue /\ Mapped(dest, n) /\ Mapped(src, n)
      /\ Overwrite(dest, n, f)
      /\ \/ _sym_memmove(dest, src, n)
         \/ _sym_memcpy(dest, src, n) /\ Disjoint(dest, n, src, n)
  BY DEF Memcpy, Memmove, Ready
<1>2. /\ PagesOK(g_shadow_pages) /\ op = Idle /\ mem \in [Addr -> Byte]
      /\ dest .. dest + n - 1 \subseteq Addr /\ src .. src + n - 1 \subseteq Addr
  BY <1>1, IdleSettled DEF IInv, TypeOK, Mapped, Region
<1>3. /\ PagesOK(g_shadow_pages')
      /\ LoopOK(g_shadow_pages', op')
      /\ \A x \in Addr : Settled(g_shadow_pages', op', x)
                = IF x \in dest .. dest + n - 1 THEN Shadow(g_shadow_pages, x - dest + src)
                  ELSE Shadow(g_shadow_pages, x)
  BY <1>0, <1>1, <1>2, MemmoveOutcome
<1>4. \A x \in dest .. dest + n - 1 : x - dest + src \in Addr
  <2>1. \A x \in dest .. dest + n - 1 : x - dest + src \in src .. src + n - 1
    BY <1>0
  <2> QED
    BY <1>2, <2>1
<1>5. \A x \in Region(dest, n) : f[x] = mem[x - dest + src] /\ f[x] \in Byte
  BY <1>2, <1>4 DEF Region
<1> HIDE DEF f
<1>6. /\ mem' \in [Addr -> Byte]
      /\ \A x \in Addr : mem'[x] = IF x \in Region(dest, n) THEN f[x] ELSE mem[x]
  BY <1>1, <1>2, <1>5, OverwriteOutcome
<1>7. \A x \in Addr : Settled(g_shadow_pages, op, x) = Shadow(g_shadow_pages, x)
  BY <1>1, IdleSettled DEF IInv
<1>8. mem' = [x \in Addr |-> IF x \in dest .. dest + n - 1 THEN mem[x - dest + src]
                             ELSE IF x \in dest .. dest + n - 1 THEN 0
                             ELSE mem[x]]
  BY <1>5, <1>6 DEF Region
<1>9. \A x \in Addr : Settled(g_shadow_pages', op', x)
         = IF x \in dest .. dest + n - 1
             THEN [a \in Addr |-> Settled(g_shadow_pages, op, a)][x - dest + src]
           ELSE IF x \in dest .. dest + n - 1 THEN Null
           ELSE [a \in Addr |-> Settled(g_shadow_pages, op, a)][x]
  BY <1>3, <1>4, <1>7
<1>10. IInv'
  BY <1>3, <1>6 DEF IInv, TypeOK, LoopsSound
<1> QED
  BY <1>0, <1>1, <1>2, <1>8, <1>9, <1>10
     DEF Flat!AbsCopy, NoValue, Flat!NothingLoaded

\* strncpy copies up to the terminator and leaves concrete zeros behind it.
LEMMA StrncpyStep ==
  ASSUME IInv, NEW dest \in Addr, NEW src \in Addr, NEW n \in Lengths,
         NEW copied \in 0 .. n, Strncpy(dest, src, n, copied)
  PROVE  IInv' /\ Flat!AbsCopy(dest, src, copied, n)
<1> DEFINE f == [x \in Region(dest, n) |->
                   IF x < dest + copied THEN mem[x - dest + src] ELSE 0]
           rest == n - copied
<1>1. /\ op.kind = "idle" /\ loaded' = NoValue /\ Mapped(dest, n) /\ Mapped(src, copied)
      /\ copied <= n
      /\ Disjoint(dest, n, src, IF copied < n THEN copied + 1 ELSE n)
      /\ Overwrite(dest, n, f)
      /\ IF isConcrete(g_shadow_pages, src, copied) /\ isConcrete(g_shadow_pages, dest, n)
           THEN SkipShadow
           ELSE StartForward(dest, src, copied, rest)
  BY DEF Strncpy, Ready, IsStrnlen
<1>0. /\ dest \in Nat /\ src \in Nat /\ n \in Nat /\ copied \in Nat /\ rest \in Nat
      /\ dest + copied + rest = dest + n
  BY <1>1, AddrAssumption, LengthAssumption
<1>2. /\ PagesOK(g_shadow_pages) /\ op = Idle /\ mem \in [Addr -> Byte]
      /\ dest .. dest + n - 1 \subseteq Addr /\ src .. src + copied - 1 \subseteq Addr
  BY <1>1, IdleSettled DEF IInv, TypeOK, Mapped, Region
<1>3. dest <= src \/ dest >= src + copied
  <2> SUFFICES ASSUME dest > src, dest < src + copied PROVE FALSE
    BY <1>0
  <2>1. /\ dest \in src .. src + (IF copied < n THEN copied + 1 ELSE n) - 1
        /\ dest \in dest .. dest + n - 1
    BY <1>0, <1>1
  <2> QED
    BY <1>1, <2>1 DEF Disjoint, Region
<1> HIDE DEF rest
<1>4. /\ PagesOK(g_shadow_pages')
      /\ LoopOK(g_shadow_pages', op')
      /\ \A x \in Addr : Settled(g_shadow_pages', op', x)
                = IF x \in dest .. dest + copied - 1 THEN Shadow(g_shadow_pages, x - dest + src)
                  ELSE IF x \in dest + copied .. dest + n - 1 THEN Null
                  ELSE Shadow(g_shadow_pages, x)
  <2>1. CASE isConcrete(g_shadow_pages, src, copied) /\ isConcrete(g_shadow_pages, dest, n)
    <3>1. SkipShadow
      BY <1>1, <2>1
    <3>2. /\ \A x \in src .. src + copied - 1 : Shadow(g_shadow_pages, x) = Null
          /\ \A x \in dest .. dest + n - 1 : Shadow(g_shadow_pages, x) = Null
      BY <1>0, <2>1, IsConcreteExact
    <3>3. /\ \A x \in dest .. dest + copied - 1 : /\ x - dest + src \in src .. src + copied - 1
                                                  /\ x \in dest .. dest + n - 1
          /\ \A x \in dest + copied .. dest + n - 1 : x \in dest .. dest + n - 1
      BY <1>0, <1>1
    <3> QED
      BY <1>2, <3>1, <3>2, <3>3, SkipOutcome
  <2>2. CASE StartForward(dest, src, copied, rest)
    <3>1. dest .. dest + copied + rest - 1 \subseteq Addr
      BY <1>0, <1>2
    <3>2. /\ PagesOK(g_shadow_pages')
          /\ LoopOK(g_shadow_pages', op')
          /\ \A x \in Addr : Settled(g_shadow_pages', op', x)
                = IF x \in dest .. dest + copied - 1 THEN Shadow(g_shadow_pages, x - dest + src)
                  ELSE IF x \in dest + copied .. dest + copied + rest - 1 THEN Null
                  ELSE Shadow(g_shadow_pages, x)
      BY <1>0, <1>2, <1>3, <2>2, <3>1, ForwardStarts
    <3> QED
      BY <1>0, <3>2
  <2> QED
    BY <1>1, <2>1, <2>2
<1>5. \A x \in dest .. dest + copied - 1 : x - dest + src \in Addr
  <2>1. \A x \in dest .. dest + copied - 1 : x - dest + src \in src .. src + copied - 1
    BY <1>0
  <2> QED
    BY <1>2, <2>1
<1>6. \A x \in Region(dest, n) :
        /\ f[x] = IF x \in dest .. dest + copied - 1 THEN mem[x - dest + src] ELSE 0
        /\ f[x] \in Byte
  <2>1. \A x \in Region(dest, n) : x < dest + copied <=> x \in dest .. dest + copied - 1
    BY <1>0 DEF Region
  <2> QED
    BY <2>1, <1>2, <1>5, ByteAssumption
<1> HIDE DEF f
<1>7. /\ mem' \in [Addr -> Byte]
      /\ \A x \in Addr : mem'[x] = IF x \in Region(dest, n) THEN f[x] ELSE mem[x]
  BY <1>1, <1>2, <1>6, OverwriteOutcome
<1>8. \A x \in Addr : Settled(g_shadow_pages, op, x) = Shadow(g_shadow_pages, x)
  BY <1>1, IdleSettled DEF IInv
<1>9. /\ \A x \in dest .. dest + copied - 1 : x \in dest .. dest + n - 1
      /\ \A x \in Addr : x \in dest + copied .. dest + n - 1
           <=> x \in dest .. dest + n - 1 /\ x \notin dest .. dest + copied - 1
  BY <1>0, <1>1, AddrAssumption
<1>10. mem' = [x \in Addr |-> IF x \in dest .. dest + copied - 1 THEN mem[x - dest + src]
                              ELSE IF x \in dest .. dest + n - 1 THEN 0
                              ELSE mem[x]]
  BY <1>6, <1>7, <1>9 DEF Region
<1>11. \A x \in Addr : Settled(g_shadow_pages', op', x)
         = IF x \in dest .. dest + copied - 1
             THEN [a \in Addr |-> Settled(g_shadow_pages, op, a)][x - dest + src]
           ELSE IF x \in dest .. dest + n - 1 THEN Null
           ELSE [a \in Addr |-> Settled(g_shadow_pages, op, a)][x]
  BY <1>4, <1>5, <1>8, <1>9
<1>12. IInv'
  BY <1>4, <1>7 DEF IInv, TypeOK, LoopsSound
<1> QED
  BY <1>1, <1>2, <1>10, <1>11, <1>12
     DEF Flat!AbsCopy, NoValue, Flat!NothingLoaded

\* A load is symbolic exactly if a byte of its region is.
LEMMA LoadStep ==
  ASSUME IInv, NEW a \in Addr, NEW n \in WordSizes, Load(a, n)
  PROVE  IInv' /\ Flat!AbsLoad(a, n)
<1> DEFINE At(k) == a + ByteOrder(n, k)
           S     == [x \in Addr |-> Settled(g_shadow_pages, op, x)]
<1>0. a \in Nat /\ n \in Nat \ {0}
  BY AddrAssumption, LengthAssumption
<1>1. /\ op.kind = "idle" /\ Mapped(a, n)
      /\ UNCHANGED <<mem, g_shadow_pages, op>>
      /\ loaded' = [val  |-> [k \in 0 .. n - 1 |-> mem[At(k)]],
                    expr |-> IF isConcrete(g_shadow_pages, a, n)
                               THEN NullWord(n)
                               ELSE [k \in 0 .. n - 1 |->
                                       IF Shadow(g_shadow_pages, At(k)) # Null
                                         THEN Shadow(g_shadow_pages, At(k))
                                         ELSE Const[mem[At(k)]]]]
  BY DEF Load
<1>2. IInv'
  BY <1>1 DEF IInv, TypeOK, LoopsSound
<1>3. a .. a + n - 1 \subseteq Addr
  BY <1>1 DEF Mapped, Region
<1>4. \A x \in Addr : S[x] = Shadow(g_shadow_pages, x)
  BY <1>1, IdleSettled DEF IInv
<1> HIDE DEF S
<1>5. isConcrete(g_shadow_pages, a, n) <=> \A x \in a .. a + n - 1 : S[x] = Null
  BY <1>0, <1>3, <1>4, IsConcreteExact
<1>6. \A k \in 0 .. n - 1 : /\ At(k) \in Addr
                            /\ At(k) = IF LittleEndian THEN a + k ELSE a + (n - 1 - k)
  <2>1. \A k \in 0 .. n - 1 : At(k) \in a .. a + n - 1
    BY <1>0, EndianAssumption DEF ByteOrder
  <2> QED
    BY <1>3, <2>1, EndianAssumption DEF ByteOrder
<1>7. \A k \in 0 .. n - 1 : S[At(k)] = Shadow(g_shadow_pages, At(k))
  BY <1>4, <1>6
<1> DEFINE E == [k \in 0 .. n - 1 |->
                   IF \A x \in a .. a + n - 1 : S[x] = Null THEN Null
                   ELSE IF S[At(k)] = Null THEN Const[mem[At(k)]]
                   ELSE S[At(k)]]
<1>8. loaded' = [val |-> [k \in 0 .. n - 1 |-> mem[At(k)]], expr |-> E]
  <2>1. CASE isConcrete(g_shadow_pages, a, n)
    <3>1. E = NullWord(n)
      BY <1>5, <2>1 DEF NullWord
    <3> QED
      BY <1>1, <2>1, <3>1
  <2>2. CASE ~isConcrete(g_shadow_pages, a, n)
    <3>1. E = [k \in 0 .. n - 1 |->
                 IF Shadow(g_shadow_pages, At(k)) # Null
                   THEN Shadow(g_shadow_pages, At(k))
                   ELSE Const[mem[At(k)]]]
      BY <1>5, <1>7, <2>2
    <3> QED
      BY <1>1, <2>2, <3>1
  <2> QED
    BY <2>1, <2>2
<1>9. loaded' = [val  |-> [k \in 0 .. n - 1 |->
                             mem[IF LittleEndian THEN a + k ELSE a + (n - 1 - k)]],
                 expr |-> [k \in 0 .. n - 1 |->
                   IF \A x \in a .. a + n - 1 : S[x] = Null THEN Null
                   ELSE IF S[IF LittleEndian THEN a + k ELSE a + (n - 1 - k)] = Null
                          THEN Const[mem[IF LittleEndian THEN a + k ELSE a + (n - 1 - k)]]
                   ELSE S[IF LittleEndian THEN a + k ELSE a + (n - 1 - k)]]]
  BY <1>6, <1>8
<1>10. S' = S
  BY <1>1 DEF S
<1> QED
  BY <1>1, <1>2, <1>3, <1>9, <1>10 DEF Flat!AbsLoad, S

(***************************************************************************)
(* The specification                                                       *)
(***************************************************************************)

\* The flat memory that the paged one represents.
FlatShadow == [a \in Addr |-> Settled(g_shadow_pages, op, a)]

\* No call has touched shadow memory yet: all of it is concrete.
LEMMA InitStep == Init => IInv /\ Flat!AbsInit
<1> SUFFICES ASSUME Init PROVE IInv /\ Flat!AbsInit
  OBVIOUS
<1>1. /\ mem \in [Addr -> Byte] /\ g_shadow_pages = [p \in {} |-> NewPage]
      /\ op = Idle /\ loaded = NoValue
  BY DEF Init
<1>2. DOMAIN g_shadow_pages = {}
  BY <1>1
<1>3. PagesOK(g_shadow_pages)
  BY <1>1, <1>2 DEF PagesOK
<1>4. IInv
  BY <1>1, <1>3 DEF IInv, TypeOK, LoopsSound, LoopOK
<1>5. \A a \in Addr : Settled(g_shadow_pages, op, a) = Null
  BY <1>1, <1>2, SettledIdle, ShadowValue, AddrAssumption
<1> QED
  BY <1>1, <1>4, <1>5 DEF Flat!AbsInit, NoValue, Flat!NothingLoaded

\* A step of a loop changes nothing that the flat memory shows.
LEMMA LoopStepStutters ==
  ASSUME IInv, LoopStep
  PROVE  IInv' /\ UNCHANGED Flat!absVars
<1>1. UNCHANGED <<mem, loaded>>
  BY DEF LoopStep, CopyForwardStep, CopyBackwardStep, AssignStep, LoopDone
<1>2. /\ IInv'
      /\ \A a \in Addr : Settled(g_shadow_pages', op', a) = Settled(g_shadow_pages, op, a)
  BY ForwardStep, BackwardStep, AssigningStep, LoopDoneStep DEF LoopStep
<1> QED
  BY <1>1, <1>2 DEF Flat!absVars

\* Every call is one step of the flat memory.
LEMMA CallStep ==
  ASSUME IInv, NEW a \in Addr, NEW n \in Lengths, Call(a, n)
  PROVE  IInv' /\ Flat!AbsNext
<1>1. CASE \E src \in Addr : Memcpy(a, src, n) \/ Memmove(a, src, n)
  <2>1. n \in 0 .. n
    BY LengthAssumption
  <2> QED
    BY <1>1, <2>1, MoveStep DEF Flat!AbsNext
<1>2. CASE \E src \in Addr, copied \in 0 .. n : Strncpy(a, src, n, copied)
  BY <1>2, StrncpyStep DEF Flat!AbsNext
<1>3. CASE \E b \in Byte, e \in SymExpr : Memset(a, n, b, e)
  BY <1>3, MemsetStep DEF Flat!AbsNext
<1>4. CASE Bzero(a, n)
  BY <1>4, BzeroStep DEF Flat!AbsNext
<1>5. CASE \E off \in DOMAIN InputByte : ReadInput(a, n, off)
  BY <1>5, ReadInputStep DEF Flat!AbsNext
<1>6. CASE \E bytes \in [0 .. n - 1 -> Byte] : ReadConcrete(a, n, bytes)
  BY <1>6, ReadConcreteStep DEF Flat!AbsNext
<1> QED
  BY <1>1, <1>2, <1>3, <1>4, <1>5, <1>6 DEF Call

\* So is every load and store.
LEMMA AccessStep ==
  ASSUME IInv, NEW a \in Addr, NEW n \in WordSizes, Access(a, n)
  PROVE  IInv' /\ Flat!AbsNext
<1>1. CASE Load(a, n)
  BY <1>1, LoadStep DEF Flat!AbsNext
<1>2. CASE \E val \in [0 .. n - 1 -> Byte], expr \in Words(n) : Store(a, n, val, expr)
  BY <1>2, StoreStep DEF Flat!AbsNext
<1> QED
  BY <1>1, <1>2 DEF Access

\* The inductive step of the invariant and of the refinement.
LEMMA NextStep == IInv /\ [Next]_vars => IInv' /\ [Flat!AbsNext]_(Flat!absVars)
<1> SUFFICES ASSUME IInv, [Next]_vars
             PROVE  IInv' /\ [Flat!AbsNext]_(Flat!absVars)
  OBVIOUS
<1>1. CASE LoopStep
  BY <1>1, LoopStepStutters
<1>2. CASE \E a \in Addr : \/ \E n \in Lengths : Call(a, n)
                           \/ \E n \in WordSizes : Access(a, n)
  BY <1>2, CallStep, AccessStep
<1>3. CASE UNCHANGED vars
  <2>1. IInv'
    BY <1>3 DEF vars, IInv, TypeOK, LoopsSound
  <2>2. UNCHANGED Flat!absVars
    BY <1>3 DEF vars, Flat!absVars
  <2> QED
    BY <2>1, <2>2
<1> QED
  BY <1>1, <1>2, <1>3 DEF Next

\* Memory keeps its bytes, and every shadow page is absent or holds an
\* expression or null for each of its slots.
THEOREM PagesKeepTypes == Spec => []TypeOK
BY InitStep, NextStep, PTL DEF Spec, IInv

\* Every loop over shadow memory stays within the program's memory, writes
\* through valid pointers and overwrites nothing it has yet to read: for every
\* page size, address space and length.
THEOREM LoopsAreSound == Spec => []LoopsSound
BY InitStep, NextStep, PTL DEF Spec, IInv

\* What a running copy reads through its cached pointer is what a fresh
\* lookup would yield (_sym_memcpy, _sym_memmove, strncpy).
THEOREM CopiesReadFresh == Spec => []CopyReadsFresh
<1>1. IInv => CopyReadsFresh
  <2> SUFFICES ASSUME IInv PROVE CopyReadsFresh
    OBVIOUS
  <2>0. PagesOK(g_shadow_pages) /\ LoopOK(g_shadow_pages, op)
    BY DEF IInv, TypeOK, LoopsSound
  <2>1. ASSUME op.kind = "forward", op.src.address # op.stop
        PROVE  Deref(g_shadow_pages, op.src) = Shadow(g_shadow_pages, op.src.address)
    <3> DEFINE region == op.src.address .. op.stop - 1
    <3>1. /\ op.src.address \in Nat /\ op.stop \in Nat /\ op.src.address <= op.stop
          /\ Reads(g_shadow_pages, op.src, region)
      BY <2>0, <2>1, ForwardLoop
    <3>2. region \in SUBSET Nat /\ op.src.address \in region
      BY <2>1, <3>1
    <3> HIDE DEF region
    <3> QED
      BY <3>1, <3>2, DerefReads
  <2>2. ASSUME op.kind = "backward", op.src.address # op.stop
        PROVE  Deref(g_shadow_pages, Advance(g_shadow_pages, op.src, -1))
                 = Shadow(g_shadow_pages, op.src.address - 1)
    <3> DEFINE region == op.stop .. op.src.address - 1
               it     == Advance(g_shadow_pages, op.src, -1)
    <3>1. /\ op.src.address \in Nat /\ op.stop \in Nat /\ op.stop <= op.src.address
          /\ Reads(g_shadow_pages, op.src, region)
      BY <2>0, <2>2, BackwardLoop
    <3>2. /\ region \in SUBSET Nat /\ op.src.address - 1 \in region
          /\ op.src.address - 1 = op.src.address + (-1)
      BY <2>2, <3>1
    <3>3. it.address = op.src.address - 1
      BY <3>2, AdvanceAddress
    <3> HIDE DEF region
    <3>4. Reads(g_shadow_pages, it, region)
      BY <3>1, <3>2, AdvanceReads
    <3> HIDE DEF it
    <3>5. Deref(g_shadow_pages, it) = Shadow(g_shadow_pages, it.address)
      BY <3>2, <3>3, <3>4, DerefReads
    <3> QED
      BY <3>3, <3>5 DEF it
  <2> QED
    BY <2>1, <2>2 DEF CopyReadsFresh
<1> QED
  BY <1>1, PagesKeepTypes, LoopsAreSound, PTL DEF IInv

\* The paged shadow, with its loops over cached pointers, implements the
\* flat memory of ConcolicMemory, in which every call is a single step.
THEOREM ShadowRefinesFlat == Spec => ImplementsFlat
<1>1. Init => IInv /\ Flat!AbsInit
  BY InitStep
<1>2. IInv /\ [Next]_vars => IInv' /\ [Flat!AbsNext]_(Flat!absVars)
  BY NextStep
<1> QED
  BY <1>1, <1>2, PTL DEF Spec, ImplementsFlat, Flat!AbsSpec

\* Concolic consistency of the flat memory, which also holds in the middle
\* of a loop.
Truthful ==
  /\ \A a \in Addr : FlatShadow[a] # Null => Val[FlatShadow[a]] = mem[a]
  /\ \A k \in DOMAIN loaded.expr :
       loaded.expr[k] # Null => Val[loaded.expr[k]] = loaded.val[k]

\* No expression is loaded by a call that writes memory.
LEMMA NothingIsTruthful ==
  ASSUME loaded' = Flat!NothingLoaded,
         \A a \in Addr : FlatShadow'[a] # Null => Val[FlatShadow'[a]] = mem'[a]
  PROVE  Truthful'
  BY DEF Truthful, Flat!NothingLoaded

\* Every step of the flat memory keeps expressions and values consistent.
LEMMA TruthfulStep ==
  ASSUME TypeOK, Truthful, [Flat!AbsNext]_(Flat!absVars)
  PROVE  Truthful'
<1>0. /\ mem \in [Addr -> Byte]
      /\ \A x \in Addr : FlatShadow[x] # Null => Val[FlatShadow[x]] = mem[x]
  BY DEF TypeOK, Truthful
<1>1. ASSUME NEW a \in Addr, NEW n \in Lengths \cup WordSizes, Flat!AbsWrite(a, n)
      PROVE  Truthful'
  <2>1. /\ loaded' = Flat!NothingLoaded
        /\ \A x \in Addr : \/ Flat!Describes(FlatShadow'[x], mem'[x])
                           \/ FlatShadow'[x] = FlatShadow[x] /\ mem'[x] = mem[x]
    BY <1>1 DEF Flat!AbsWrite, FlatShadow
  <2>2. \A x \in Addr : FlatShadow'[x] # Null => Val[FlatShadow'[x]] = mem'[x]
    BY <1>0, <2>1 DEF Flat!Describes
  <2> QED
    BY <2>1, <2>2, NothingIsTruthful
<1>2. ASSUME NEW a \in Addr, NEW n \in Lengths, NEW off \in DOMAIN InputByte,
             Flat!AbsInput(a, n, off)
      PROVE  Truthful'
  <2>1. /\ loaded' = Flat!NothingLoaded
        /\ mem' = [x \in Addr |-> IF x \in a .. a + n - 1
                                    THEN Val[InputByte[off + x - a]] ELSE mem[x]]
        /\ FlatShadow' = [x \in Addr |-> IF x \in a .. a + n - 1
                                           THEN InputByte[off + x - a] ELSE FlatShadow[x]]
    BY <1>2 DEF Flat!AbsInput, FlatShadow
  <2>2. \A x \in Addr : FlatShadow'[x] # Null => Val[FlatShadow'[x]] = mem'[x]
    BY <1>0, <2>1
  <2> QED
    BY <2>1, <2>2, NothingIsTruthful
<1>3. ASSUME NEW d \in Addr, NEW s \in Addr, NEW total \in Lengths, NEW n \in 0 .. total,
             Flat!AbsCopy(d, s, n, total)
      PROVE  Truthful'
  <2>0. d \in Nat /\ s \in Nat /\ n \in Nat /\ s .. s + n - 1 \subseteq Addr
    BY <1>3, AddrAssumption, LengthAssumption DEF Flat!AbsCopy
  <2>1. /\ loaded' = Flat!NothingLoaded
        /\ mem' = [x \in Addr |-> IF x \in d .. d + n - 1 THEN mem[x - d + s]
                                  ELSE IF x \in d .. d + total - 1 THEN 0
                                  ELSE mem[x]]
        /\ FlatShadow' = [x \in Addr |->
                            IF x \in d .. d + n - 1 THEN FlatShadow[x - d + s]
                            ELSE IF x \in d .. d + total - 1 THEN Null
                            ELSE FlatShadow[x]]
    BY <1>3 DEF Flat!AbsCopy, FlatShadow
  <2>2. \A x \in d .. d + n - 1 : x - d + s \in Addr
    <3>1. \A x \in d .. d + n - 1 : x - d + s \in s .. s + n - 1
      BY <2>0
    <3> QED
      BY <2>0, <3>1
  <2>3. \A x \in Addr : FlatShadow'[x] # Null => Val[FlatShadow'[x]] = mem'[x]
    BY <1>0, <2>1, <2>2
  <2> QED
    BY <2>1, <2>3, NothingIsTruthful
<1>4. ASSUME NEW a \in Addr, NEW n \in WordSizes, Flat!AbsLoad(a, n)
      PROVE  Truthful'
  <2> DEFINE At(k) == IF LittleEndian THEN a + k ELSE a + (n - 1 - k)
             E     == [k \in 0 .. n - 1 |->
                         IF \A x \in a .. a + n - 1 : FlatShadow[x] = Null THEN Null
                         ELSE IF FlatShadow[At(k)] = Null THEN Const[mem[At(k)]]
                         ELSE FlatShadow[At(k)]]
             V     == [k \in 0 .. n - 1 |-> mem[At(k)]]
  <2>1. /\ mem' = mem /\ FlatShadow' = FlatShadow
        /\ loaded' = [val |-> V, expr |-> E]
        /\ a .. a + n - 1 \subseteq Addr
    BY <1>4 DEF Flat!AbsLoad, FlatShadow
  <2>2. \A k \in 0 .. n - 1 : At(k) \in Addr
    <3>1. \A k \in 0 .. n - 1 : At(k) \in a .. a + n - 1
      BY AddrAssumption, LengthAssumption, EndianAssumption
    <3> QED
      BY <2>1, <3>1
  <2> HIDE DEF At
  <2>3. \A k \in 0 .. n - 1 : E[k] # Null => Val[E[k]] = V[k]
    BY <1>0, <2>2, ExprAssumption
  <2>4. DOMAIN E = 0 .. n - 1
    OBVIOUS
  <2> HIDE DEF E, V
  <2> QED
    BY <1>0, <2>1, <2>3, <2>4 DEF Truthful
<1>5. CASE UNCHANGED Flat!absVars
  BY <1>5 DEF Flat!absVars, Truthful, FlatShadow
<1> QED
  BY <1>1, <1>2, <1>3, <1>4, <1>5 DEF Flat!AbsNext

\* Whenever the program runs, the expression of every byte of memory and of
\* every loaded value evaluates to the concrete value, whatever sequence of
\* loads, stores, copies and reads went before.
THEOREM ConcolicConsistency == Spec => []Concolic
<1>1. Init => IInv /\ Truthful
  <2> SUFFICES ASSUME Init PROVE IInv /\ Truthful
    OBVIOUS
  <2>1. IInv /\ FlatShadow = [a \in Addr |-> Null] /\ loaded = Flat!NothingLoaded
    BY InitStep DEF Flat!AbsInit, FlatShadow
  <2> QED
    BY <2>1 DEF Truthful, Flat!NothingLoaded
<1>2. IInv /\ Truthful /\ [Next]_vars => IInv' /\ Truthful'
  BY NextStep, TruthfulStep DEF IInv
<1>3. IInv /\ Truthful => Concolic
  <2> SUFFICES ASSUME IInv, Truthful PROVE Concolic
    OBVIOUS
  <2>1. op.kind = "idle" =>
          \A a \in Addr : FlatShadow[a] = Shadow(g_shadow_pages, a)
    BY IdleSettled DEF IInv, FlatShadow
  <2> QED
    BY <2>1 DEF Truthful, Concolic
<1> QED
  BY <1>1, <1>2, <1>3, PTL DEF Spec
=============================================================================
