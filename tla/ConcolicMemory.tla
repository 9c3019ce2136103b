--------------------------- MODULE ConcolicMemory ---------------------------
(***************************************************************************)
(* What shadow memory promises to the instrumented program: a flat memory  *)
(* in which every byte has a value and an optional expression, and in      *)
(* which a copy moves both in one step, whatever the overlap of its        *)
(* source and destination.  There are no pages and no iterators.           *)
(*                                                                         *)
(* A byte receives only an expression that evaluates to its new value;     *)
(* ShadowMemory implements this specification.                             *)
(***************************************************************************)
EXTENDS Integers

CONSTANTS Addr, Lengths, WordSizes, Byte, Expr, Null, Val, Const, InputByte,
          LittleEndian

VARIABLES mem, shadow, loaded

absVars == <<mem, shadow, loaded>>

NothingLoaded == [val |-> <<>>, expr |-> <<>>]

\* e may be the expression of a byte with value b.
Describes(e, b) == e = Null \/ (e \in Expr /\ Val[e] = b)

AbsInit ==
  /\ mem \in [Addr -> Byte]
  /\ shadow = [a \in Addr |-> Null]
  /\ loaded = NothingLoaded

\* Stores, memset, bzero and reads of anything but the input change one
\* region; every byte of it gets a value with an expression describing it.
AbsWrite(a, n) ==
  /\ a .. a + n - 1 \subseteq Addr
  /\ mem' \in [Addr -> Byte]
  /\ \A x \in Addr : IF x \in a .. a + n - 1
                       THEN Describes(shadow'[x], mem'[x])
                       ELSE shadow'[x] = shadow[x] /\ mem'[x] = mem[x]
  /\ loaded' = NothingLoaded

\* Reading the input marks every byte with the offset it was read from.
AbsInput(a, n, off) ==
  /\ a .. a + n - 1 \subseteq Addr
  /\ off .. off + n - 1 \subseteq DOMAIN InputByte
  /\ mem' = [x \in Addr |-> IF x \in a .. a + n - 1
                              THEN Val[InputByte[off + x - a]] ELSE mem[x]]
  /\ shadow' = [x \in Addr |-> IF x \in a .. a + n - 1
                                 THEN InputByte[off + x - a] ELSE shadow[x]]
  /\ loaded' = NothingLoaded

\* Values and expressions are copied; the rest of the destination becomes a
\* concrete zero (memcpy, memmove, bcopy, strncpy).
AbsCopy(d, s, n, total) ==
  /\ n <= total
  /\ d .. d + total - 1 \subseteq Addr
  /\ s .. s + n - 1 \subseteq Addr
  /\ mem' = [x \in Addr |-> IF x \in d .. d + n - 1 THEN mem[x - d + s]
                            ELSE IF x \in d .. d + total - 1 THEN 0
                            ELSE mem[x]]
  /\ shadow' = [x \in Addr |-> IF x \in d .. d + n - 1 THEN shadow[x - d + s]
                               ELSE IF x \in d .. d + total - 1 THEN Null
                               ELSE shadow[x]]
  /\ loaded' = NothingLoaded

\* A load is symbolic exactly if some byte of its region is.
AbsLoad(a, n) ==
  /\ a .. a + n - 1 \subseteq Addr
  /\ LET At(k) == IF LittleEndian THEN a + k ELSE a + (n - 1 - k) IN
     loaded' = [val  |-> [k \in 0 .. n - 1 |-> mem[At(k)]],
                expr |-> [k \in 0 .. n - 1 |->
                            IF \A x \in a .. a + n - 1 : shadow[x] = Null THEN Null
                            ELSE IF shadow[At(k)] = Null THEN Const[mem[At(k)]]
                            ELSE shadow[At(k)]]]
  /\ UNCHANGED <<mem, shadow>>

AbsNext ==
  \E a \in Addr :
    \/ \E n \in Lengths \cup WordSizes : AbsWrite(a, n)
    \/ \E n \in Lengths, off \in DOMAIN InputByte : AbsInput(a, n, off)
    \/ \E s \in Addr, total \in Lengths : \E n \in 0 .. total : AbsCopy(a, s, n, total)
    \/ \E n \in WordSizes : AbsLoad(a, n)

AbsSpec == AbsInit /\ [][AbsNext]_absVars
=============================================================================
