----------------------------- MODULE LibcInput -----------------------------
(***************************************************************************)
(* How the libc wrappers of runtime/LibcWrappers.cpp find out which bytes  *)
(* the program reads come from the symbolic input, and from which offset.  *)
(*                                                                         *)
(* The wrappers keep one descriptor number and one offset of their own,    *)
(* next to the descriptor table and the file positions of the C library.   *)
(* Every call fills some buffer of the program; each byte of it records    *)
(* from which offset of the input it really came (from) and which one its  *)
(* expression stands for (expr).  The two sides are written independently. *)
(*                                                                         *)
(* The program may make any calls in any order.  A descriptor is used      *)
(* either through stdio or through read and lseek, as the program decides  *)
(* when it opens it; its position is the one that ftell or lseek reports.  *)
(***************************************************************************)
EXTENDS Integers, Sequences

CONSTANTS
  Fd,           \* descriptor numbers; 0 is standard input
  Files,        \* the files of the system
  Stdin,        \* the file that descriptor 0 refers to at start
  InputFile,    \* the file that holds the input
  InputKind,    \* g_config.input: "none", "stdin" or "file"
  Matching,     \* the files whose path contains the configured file name
  Content,      \* Content[f]: the bytes of f, by what stdio distinguishes
  OffsetRange,  \* the number of values of a uint64_t
  BufLen,       \* bound: the length of the program's buffers
  Closed,       \* an unused descriptor
  Null          \* no expression, no offset, nothing pushed back

Kinds   == {"char", "newline", "nul"}
Size(f) == Len(Content[f])

ASSUME FdAssumption      == Fd \subseteq Nat /\ 0 \in Fd
ASSUME FilesAssumption   == Stdin \in Files /\ InputFile \in Files /\ Closed \notin Files
ASSUME KindAssumption    == /\ InputKind \in {"none", "stdin", "file"}
                            /\ InputKind = "stdin" => InputFile = Stdin
                            /\ InputKind = "file" => InputFile # Stdin /\ InputFile \in Matching
ASSUME ContentAssumption == /\ Content \in [Files -> Seq(Kinds)]
                            /\ OffsetRange \in Nat /\ BufLen \in Nat \ {0} /\ BufLen < OffsetRange
                            /\ \A f \in Files : Size(f) + 1 < OffsetRange
ASSUME NullAssumption    == Null \notin Int /\ Null \notin [kind : Kinds, own : BOOLEAN]

VARIABLES
  inputFileDescriptor,  \* the descriptor the wrappers treat as the input
  inputOffset,          \* the position the wrappers believe it has
  open,                 \* the descriptor table of the process
  stdio,                \* the descriptors that belong to a FILE
  pos,                  \* the position of every descriptor
  back,                 \* the character pushed back to a stream, or Null
  bytes,                \* the bytes that the last call delivered
  \* For stating properties:
  last,                 \* the number that a matching path was last opened under
  lost                  \* a call has been made that the wrappers cannot follow

vars == <<inputFileDescriptor, inputOffset, open, stdio, pos, back, bytes, last, lost>>

-----------------------------------------------------------------------------
(***************************************************************************)
(* The C library's streams                                                 *)
(***************************************************************************)
IsOpen(fd)   == fd \in Fd /\ open[fd] # Closed
IsStream(fd) == IsOpen(fd) /\ fd \in stdio

\* open returns the lowest free descriptor.
LowestFree(fd) == /\ fd \in Fd /\ open[fd] = Closed
                  /\ \A d \in Fd : open[d] = Closed => fd <= d

\* What is left to be read: a character that was pushed back comes first.
Pushed(fd)    == back[fd] # Null
AfterPushed(fd) == IF Pushed(fd) THEN pos[fd] + 1 ELSE pos[fd]
Available(fd) == (IF Pushed(fd) THEN 1 ELSE 0)
                 + (IF AfterPushed(fd) < Size(open[fd]) THEN Size(open[fd]) - AfterPushed(fd) ELSE 0)
ByteAt(fd, i) == IF i = 0 /\ Pushed(fd) THEN back[fd].kind ELSE Content[open[fd]][pos[fd] + i + 1]

\* n > 0 bytes are consumed.
Consume(fd, n) ==
  /\ pos' = [pos EXCEPT ![fd] = @ + n]
  /\ back' = IF n = 0 THEN back ELSE [back EXCEPT ![fd] = Null]

\* The position changes, and what was pushed back is gone.
Reposition(fd, p) ==
  /\ pos' = [pos EXCEPT ![fd] = p]
  /\ back' = [back EXCEPT ![fd] = Null]

-----------------------------------------------------------------------------
(***************************************************************************)
(* The wrappers' state and labels                                          *)
(***************************************************************************)
\* Arithmetic of uint64_t, for results that are out of range by less than it.
Wrap(n) == IF n < 0 THEN n + OffsetRange ELSE IF n >= OffsetRange THEN n - OffsetRange ELSE n

IsInput(fd)  == fd = inputFileDescriptor
Label(fd, i) == IF IsInput(fd) THEN Wrap(inputOffset + i) ELSE Null

\* Mutant: the offset is a signed number.
AdvanceSigned(fd, n) == inputOffset' = IF IsInput(fd) THEN inputOffset + n ELSE inputOffset

AdvanceInput(fd, n) == inputOffset' = IF IsInput(fd) THEN Wrap(inputOffset + n) ELSE inputOffset

\* The number that was last opened is the input's: the path that matched was
\* not another file's, and no other file has got the number since it was
\* closed.  (-1 is nothing's number.)
Watched == last # -1 /\ open[last] = InputFile

\* Labels of bytes that are read through fd are to be relied on.
Trusted(fd) == IF fd = last THEN Watched /\ ~lost ELSE TRUE

\* Calls on the input that the wrappers cannot follow, and calls after which
\* they know the position again.
Lose(fd, condition) == lost' = (lost \/ (fd = last /\ condition))
Regain(fd)          == lost' = (lost /\ fd # last)

\* The offset of the input that byte i of a transfer comes from.
Origin(fd, i) == IF fd = last /\ Watched /\ ~(i = 0 /\ Pushed(fd) /\ ~back[fd].own)
                   THEN pos[fd] + i ELSE Null

\* The bytes of a transfer: the C library delivers the first n, and the
\* wrapper sets the expressions of the first labelled ones.  A byte that was
\* not delivered is the program's; an expression that is not set is stale.
Byte(fd, i, n, labelled) ==
  [from |-> IF i < n THEN Origin(fd, i) ELSE Null,
   expr |-> IF i < labelled THEN Label(fd, i) ELSE Null,
   sure |-> /\ i < labelled /\ Trusted(fd)
            /\ fd = last => i < n /\ Origin(fd, i) # Null]

Deliver(fd, n, labelled) ==
  bytes' = {Byte(fd, i, n, labelled) : i \in 0 .. (IF n < labelled THEN labelled ELSE n) - 1}

-----------------------------------------------------------------------------
(***************************************************************************)
(* The calls                                                               *)
(***************************************************************************)
\* open, fopen and fopen64, with maybeSetInputFile.
maybeSetInputFile(f, fd) ==
  IF InputKind = "file" /\ f \in Matching
    THEN inputFileDescriptor' = fd /\ inputOffset' = 0
    ELSE UNCHANGED <<inputFileDescriptor, inputOffset>>

open_symbolized(f, fd) ==
  /\ f # Stdin /\ LowestFree(fd)
  /\ open' = [open EXCEPT ![fd] = f]
  /\ stdio' \in {stdio \cup {fd}, stdio \ {fd}}
  /\ Reposition(fd, 0)
  /\ maybeSetInputFile(f, fd)
  /\ IF InputKind = "file" /\ f \in Matching
       THEN last' = fd /\ lost' = FALSE
       ELSE UNCHANGED <<last, lost>>
  /\ bytes' = {}

\* close and fclose have no wrapper.
close(fd) ==
  /\ IsOpen(fd)
  /\ open' = [open EXCEPT ![fd] = Closed]
  /\ Reposition(fd, 0)
  /\ bytes' = {}
  /\ UNCHANGED <<inputFileDescriptor, inputOffset, stdio, last, lost>>

\* A read may be short, but delivers something before the end of the file.
read_symbolized(fd, nbyte, result) ==
  /\ IsOpen(fd) /\ fd \notin stdio
  /\ result <= nbyte /\ result <= Available(fd)
  /\ result = 0 => nbyte = 0 \/ Available(fd) = 0
  /\ Deliver(fd, result, result)
  /\ Consume(fd, result)
  /\ AdvanceInput(fd, result)
  /\ UNCHANGED <<inputFileDescriptor, open, stdio, last, lost>>

\* fread returns the number of complete elements; at the end of the file it
\* also consumes an incomplete one, which the wrapper does not notice.
fread_symbolized(fd, size, nmemb) ==
  LET consumed == IF size * nmemb <= Available(fd) THEN size * nmemb ELSE Available(fd)
      result   == consumed \div size IN
  /\ IsStream(fd)
  /\ Deliver(fd, consumed, result * size)
  /\ Consume(fd, consumed)
  /\ AdvanceInput(fd, result * size)
  /\ Lose(fd, consumed # result * size)
  /\ UNCHANGED <<inputFileDescriptor, open, stdio, last>>

\* Mutant: a seek that the wrappers do not notice.
SeekForgotten(fd, p) ==
  /\ IsOpen(fd)
  /\ Reposition(fd, p)
  /\ Regain(fd)
  /\ bytes' = {}
  /\ UNCHANGED <<inputFileDescriptor, inputOffset, open, stdio, last>>

\* lseek, lseek64, fseek, fseeko and fseeko64 to position p.
seek_symbolized(fd, p) ==
  /\ IsOpen(fd)
  /\ Reposition(fd, p)
  /\ inputOffset' = IF IsInput(fd) THEN p ELSE inputOffset
  /\ Regain(fd)
  /\ bytes' = {}
  /\ UNCHANGED <<inputFileDescriptor, open, stdio, last>>

rewind_symbolized(fd) == IsStream(fd) /\ seek_symbolized(fd, 0)

\* A result without a byte of a file.
NoByte == [from |-> Null, expr |-> Null, sure |-> TRUE]

\* Mutant: the offset is incremented before it is used.
GetcPreIncrement(fd) ==
  /\ IsStream(fd)
  /\ IF Available(fd) = 0
       THEN bytes' = {NoByte} /\ UNCHANGED <<pos, back, inputOffset>>
       ELSE /\ bytes' = {[Byte(fd, 0, 1, 1) EXCEPT !.expr = Label(fd, 1)]}
            /\ Consume(fd, 1)
            /\ AdvanceInput(fd, 1)
  /\ UNCHANGED <<inputFileDescriptor, open, stdio, last, lost>>

\* getc, fgetc and getchar; EOF is concrete.
getc_symbolized(fd) ==
  /\ IsStream(fd)
  /\ IF Available(fd) = 0
       THEN bytes' = {NoByte} /\ UNCHANGED <<pos, back, inputOffset>>
       ELSE /\ Deliver(fd, 1, 1)
            /\ Consume(fd, 1)
            /\ AdvanceInput(fd, 1)
  /\ UNCHANGED <<inputFileDescriptor, open, stdio, last, lost>>

\* ungetc pushes back the character before the position, or another one, and
\* moves the position by one, at the beginning of the file to -1.  (One
\* character is what the C standard guarantees; a second ungetc may fail.)
ungetc_symbolized(fd, c) ==
  /\ IsStream(fd) /\ ~Pushed(fd)
  /\ c.own => /\ pos[fd] \in 1 .. Size(open[fd])
              /\ c.kind = Content[open[fd]][pos[fd]]
  /\ back' = [back EXCEPT ![fd] = c]
  /\ pos' = [pos EXCEPT ![fd] = @ - 1]
  /\ AdvanceInput(fd, -1)
  /\ bytes' = {}
  /\ UNCHANGED <<inputFileDescriptor, open, stdio, last, lost>>

\* What fgets delivers into n bytes: a line, or the beginning of one.
EndOfLine(fd, n, got) ==
  /\ got <= n - 1 /\ got <= Available(fd)
  /\ \A i \in 0 .. got - 2 : ByteAt(fd, i) # "newline"
  /\ \/ got = n - 1
     \/ got = Available(fd)
     \/ got > 0 /\ ByteAt(fd, got - 1) = "newline"

\* strlen of the buffer afterwards: up to the first NUL byte of the line or,
\* when the C library reported the end of the file and left the buffer alone,
\* the length of whatever it held.
StrLen(fd, n, got, length) ==
  \/ got = 0 /\ n > 1
  \/ /\ got > 0 \/ n = 1
     /\ length <= got
     /\ \A i \in 0 .. length - 1 : ByteAt(fd, i) # "nul"
     /\ length < got => ByteAt(fd, length) = "nul"

\* The wrapper takes the length of the line from strlen.
fgets_symbolized(fd, n, got, length) ==
  /\ IsStream(fd)
  /\ EndOfLine(fd, n, got)
  /\ StrLen(fd, n, got, length)
  /\ Deliver(fd, got, length)
  /\ Consume(fd, got)
  /\ AdvanceInput(fd, length)
  /\ Lose(fd, length # got)
  /\ UNCHANGED <<inputFileDescriptor, open, stdio, last>>

\* mmap and mmap64 of len bytes from offset off; fildes is -1 for anonymous
\* memory.  The lambda of std::generate reads inputOffset, which is not
\* advanced, and which has left the position of the descriptor.
mmap_symbolized(fildes, len, off) ==
  /\ \/ fildes = -1
     \/ IsOpen(fildes) /\ off + len <= Size(open[fildes])
  /\ inputOffset' = IF IsInput(fildes) THEN Wrap(off + len) ELSE inputOffset
  /\ bytes' = {[from |-> IF fildes = last /\ Watched THEN off + i ELSE Null,
                expr |-> IF IsInput(fildes) THEN inputOffset' ELSE Null,
                sure |-> fildes # last] : i \in 0 .. len - 1}
  /\ Lose(fildes, TRUE)
  /\ UNCHANGED <<inputFileDescriptor, open, stdio, pos, back, last>>

-----------------------------------------------------------------------------
\* initLibcWrappers
Init ==
  /\ inputFileDescriptor = IF InputKind = "stdin" THEN 0 ELSE -1
  /\ inputOffset = 0
  /\ open = [fd \in Fd |-> IF fd = 0 THEN Stdin ELSE Closed]
  /\ stdio \in {{}, {0}}
  /\ pos = [fd \in Fd |-> 0] /\ back = [fd \in Fd |-> Null]
  /\ bytes = {}
  /\ last = IF InputKind = "stdin" THEN 0 ELSE -1
  /\ lost = FALSE

Next ==
  \E fd \in Fd :
    \/ \E f \in Files : open_symbolized(f, fd)
    \/ close(fd)
    \/ \E nbyte, result \in 0 .. BufLen : read_symbolized(fd, nbyte, result)
    \/ \E size, nmemb \in 1 .. BufLen :
         size * nmemb <= BufLen /\ fread_symbolized(fd, size, nmemb)
    \/ IsOpen(fd) /\ \E p \in 0 .. Size(open[fd]) + 1 : seek_symbolized(fd, p)
    \/ rewind_symbolized(fd)
    \/ getc_symbolized(fd)
    \/ \E c \in [kind : Kinds, own : BOOLEAN] : ungetc_symbolized(fd, c)
    \/ \E n \in 1 .. BufLen, got, length \in 0 .. BufLen - 1 :
         fgets_symbolized(fd, n, got, length)
    \/ \E fildes \in {fd, -1}, len \in 1 .. BufLen, off \in 0 .. BufLen :
         mmap_symbolized(fildes, len, off)

Spec == Init /\ [][Next]_vars

-----------------------------------------------------------------------------
(***************************************************************************)
(* Properties                                                              *)
(***************************************************************************)
Cell == [from : Nat \cup {Null}, expr : 0 .. OffsetRange - 1 \cup {Null}, sure : BOOLEAN]

\* Types of the wrappers' state and of the C library's: the offset stays a
\* uint64_t, also when characters are pushed back at the beginning.
TypeOK ==
  /\ inputFileDescriptor \in Fd \cup {-1}
  /\ inputOffset \in 0 .. OffsetRange - 1
  /\ open \in [Fd -> Files \cup {Closed}]
  /\ stdio \subseteq Fd
  /\ pos \in [Fd -> -1 .. OffsetRange - 1]
  /\ back \in [Fd -> [kind : Kinds, own : BOOLEAN] \cup {Null}]
  /\ bytes \subseteq Cell
  /\ last \in Fd \cup {-1} /\ lost \in BOOLEAN

\* "The file descriptor referring to the symbolic input" and "the current
\* position in the (symbolic) input": as long as the input is open under the
\* number it was last opened under, the wrappers know that number and the
\* position from which the C library will read next, whatever other files
\* are opened and closed and whatever is pushed back.  The exceptions are
\* calls that move the stream by another amount than the wrappers think: an
\* incomplete element of fread, a line with a NUL byte, fgets at the end of
\* the file, a mapping.  A seek or opening the file again ends them.
OffsetIsPosition ==
  Watched /\ ~lost => /\ inputFileDescriptor = last
                      /\ inputOffset = Wrap(pos[last])

\* A byte has a label exactly if it was read, through the number that the
\* input was last opened under, from the input, and then the label is the
\* offset it was read from, under the same conditions; bytes of other files
\* have none.  (Not so for bytes of a file that got the input's number after
\* it was closed or whose path matches too, and for a character that the
\* program pushed back without having read it.)  Test cases are built by
\* writing a solution for the label into the input at that offset.
LabelsExact == \A c \in bytes : c.sure => c.expr = c.from
=============================================================================
