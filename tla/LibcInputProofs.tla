-------------------------- MODULE LibcInputProofs --------------------------
(***************************************************************************)
(* The wrappers, for any program, any number of descriptors and files and  *)
(* any content: their offset is the position of the input and their labels *)
(* are the offsets that bytes were read from, until a call is made that    *)
(* they cannot follow, and again after the next seek.                      *)
(***************************************************************************)
EXTENDS LibcInput, TLAPS

\* Positions are not far behind the end of a file; only a character that was
\* pushed back is before its beginning, and one that had been read is not.
Placed ==
  \A fd \in Fd : open[fd] # Closed =>
    /\ AfterPushed(fd) \in 0 .. Size(open[fd]) + 1
    /\ Pushed(fd) /\ back[fd].own => pos[fd] >= 0

\* The wrappers' number is the one that was opened last, if there is an input.
SameNumber == inputFileDescriptor = last /\ (InputKind = "none" => last = -1)

\* The inductive invariant.
IInv == TypeOK /\ Placed /\ SameNumber /\ OffsetIsPosition /\ LabelsExact

-----------------------------------------------------------------------------
(***************************************************************************)
(* Numbers                                                                 *)
(***************************************************************************)
\* An addition to a uint64_t stays in its range.
LEMMA WrapRange ==
  ASSUME NEW o \in 0 .. OffsetRange - 1, NEW n \in Int, -1 <= n, n < OffsetRange
  PROVE  Wrap(o + n) \in 0 .. OffsetRange - 1
BY ContentAssumption DEF Wrap

\* The offset that stands for a position, also for the one before the file.
LEMMA WrapPosition ==
  ASSUME NEW p \in Int, -1 <= p, p < OffsetRange
  PROVE  Wrap(p) \in 0 .. OffsetRange - 1 /\ (p >= 0 => Wrap(p) = p)
BY ContentAssumption DEF Wrap

\* Advancing the offset is advancing the position.
LEMMA WrapStep ==
  ASSUME NEW p \in Int, -1 <= p, NEW n \in Int, -1 <= n, -1 <= p + n, p + n < OffsetRange,
         p < OffsetRange
  PROVE  Wrap(Wrap(p) + n) = Wrap(p + n)
BY ContentAssumption DEF Wrap

\* The sizes of files.
LEMMA SizeType == ASSUME NEW f \in Files PROVE Size(f) \in Nat /\ Size(f) + 1 < OffsetRange
BY ContentAssumption DEF Size

\* What can be read, and where the position is then.
LEMMA AvailableOK ==
  ASSUME TypeOK, Placed, NEW fd \in Fd, open[fd] # Closed
  PROVE  /\ open[fd] \in Files /\ Size(open[fd]) \in Nat /\ Size(open[fd]) + 1 < OffsetRange
         /\ pos[fd] \in Int /\ -1 <= pos[fd] /\ pos[fd] <= Size(open[fd]) + 1
         /\ pos[fd] = -1 => Pushed(fd)
         /\ Available(fd) \in Nat /\ pos[fd] + Available(fd) <= Size(open[fd]) + 1
         /\ 0 < Available(fd) => pos[fd] + Available(fd) >= 0
<1>1. open[fd] \in Files /\ pos[fd] \in Int /\ -1 <= pos[fd]
  BY ContentAssumption DEF TypeOK
<1>2. Size(open[fd]) \in Nat /\ Size(open[fd]) + 1 < OffsetRange
  BY <1>1, SizeType
<1>3. AfterPushed(fd) \in Int /\ 0 <= AfterPushed(fd) /\ AfterPushed(fd) <= Size(open[fd]) + 1
  BY <1>2 DEF Placed
<1>4. CASE Pushed(fd)
  BY <1>1, <1>2, <1>3, <1>4 DEF AfterPushed, Available
<1>5. CASE ~Pushed(fd)
  BY <1>1, <1>2, <1>3, <1>5 DEF AfterPushed, Available
<1> QED
  BY <1>1, <1>2, <1>4, <1>5

-----------------------------------------------------------------------------
(***************************************************************************)
(* Transfers                                                               *)
(***************************************************************************)
\* A byte that is delivered has the label it should have.
LEMMA ByteOK ==
  ASSUME IInv, NEW fd \in Fd, open[fd] # Closed, NEW n \in Nat, n <= Available(fd),
         NEW labelled \in Nat, labelled <= BufLen, NEW i \in Nat, i < n \/ i < labelled
  PROVE  /\ Byte(fd, i, n, labelled) \in Cell
         /\ Byte(fd, i, n, labelled).sure
              => Byte(fd, i, n, labelled).expr = Byte(fd, i, n, labelled).from
<1> DEFINE b == Byte(fd, i, n, labelled)
           from == IF i < n THEN Origin(fd, i) ELSE Null
           expr == IF i < labelled THEN Label(fd, i) ELSE Null
           sure == /\ i < labelled /\ Trusted(fd)
                   /\ fd = last => i < n /\ Origin(fd, i) # Null
<1>0. TypeOK /\ Placed /\ SameNumber /\ OffsetIsPosition
  BY DEF IInv
<1>1. /\ pos[fd] \in Int /\ -1 <= pos[fd] /\ pos[fd] + n < OffsetRange
      /\ pos[fd] = -1 => Pushed(fd)
  <2>1. /\ Size(open[fd]) \in Nat /\ Size(open[fd]) + 1 < OffsetRange
        /\ pos[fd] \in Int /\ -1 <= pos[fd] /\ (pos[fd] = -1 => Pushed(fd))
        /\ Available(fd) \in Nat /\ pos[fd] + Available(fd) <= Size(open[fd]) + 1
    BY <1>0, AvailableOK
  <2> QED
    BY <2>1, ContentAssumption
<1>2. b = [from |-> from, expr |-> expr, sure |-> sure]
  BY DEF Byte
<1>3. Origin(fd, i) # Null => pos[fd] + i >= 0 /\ Origin(fd, i) = pos[fd] + i /\ fd = last /\ Watched
  <2> SUFFICES ASSUME Origin(fd, i) # Null
               PROVE  pos[fd] + i >= 0 /\ Origin(fd, i) = pos[fd] + i /\ fd = last /\ Watched
    OBVIOUS
  <2>1. /\ fd = last /\ Watched /\ ~(i = 0 /\ Pushed(fd) /\ ~back[fd].own)
        /\ Origin(fd, i) = pos[fd] + i
    BY DEF Origin
  <2>2. i = 0 => pos[fd] >= 0
    <3>1. CASE pos[fd] = -1
      BY <1>0, <1>1, <2>1, <3>1 DEF Placed
    <3>2. CASE pos[fd] # -1
      BY <1>1, <3>2
    <3> QED
      BY <3>1, <3>2
  <2> QED
    BY <1>1, <2>1, <2>2
<1>4. from \in Nat \cup {Null}
  BY <1>1, <1>3
<1>5. expr \in 0 .. OffsetRange - 1 \cup {Null}
  <2>1. i < labelled => i < OffsetRange
    BY ContentAssumption
  <2>2. i < labelled => Wrap(inputOffset + i) \in 0 .. OffsetRange - 1
    BY <1>0, <2>1, WrapRange DEF TypeOK
  <2> QED
    BY <2>2 DEF Label
<1>6. b \in Cell /\ b.from = from /\ b.expr = expr /\ b.sure = sure
  BY <1>2, <1>4, <1>5 DEF Cell
<1>7. ASSUME sure PROVE expr = from
  <2>1. CASE fd = last
    <3>1. Watched /\ ~lost /\ i < n /\ i < labelled /\ Origin(fd, i) # Null
      BY <1>7, <2>1 DEF Trusted
    <3>2. from = pos[fd] + i /\ pos[fd] + i >= 0
      BY <1>3, <3>1
    <3>3. expr = Wrap(inputOffset + i) /\ inputOffset = Wrap(pos[fd])
      BY <1>0, <2>1, <3>1 DEF Label, IsInput, SameNumber, OffsetIsPosition
    <3>4. pos[fd] + i < OffsetRange /\ pos[fd] < OffsetRange
      BY <1>1, <3>1, ContentAssumption
    <3>5. Wrap(Wrap(pos[fd]) + i) = Wrap(pos[fd] + i)
      BY <1>1, <3>2, <3>4, WrapStep
    <3>6. Wrap(pos[fd] + i) = pos[fd] + i
      BY <1>1, <3>2, <3>4, WrapPosition
    <3> QED
      BY <3>2, <3>3, <3>5, <3>6
  <2>2. CASE fd # last
    BY <1>0, <1>3, <2>2 DEF Label, IsInput, SameNumber
  <2> QED
    BY <2>1, <2>2
<1> HIDE DEF b, from, expr, sure
<1>8. b \in Cell /\ (b.sure => b.expr = b.from)
  BY <1>6, <1>7
<1> QED
  BY <1>8 DEF b

\* A call that moves the stream by n bytes and the wrappers' offset by another
\* number, the same unless the call is one that they cannot follow.
LEMMA TransferInv ==
  ASSUME IInv, NEW fd \in Fd, open[fd] # Closed, NEW n \in Nat, n <= Available(fd),
         NEW labelled \in Nat, labelled <= BufLen,
         Deliver(fd, n, labelled), Consume(fd, n), AdvanceInput(fd, labelled),
         Lose(fd, n # labelled), UNCHANGED <<inputFileDescriptor, open, stdio, last>>
  PROVE  IInv'
<1>0. TypeOK /\ Placed /\ SameNumber /\ OffsetIsPosition
  BY DEF IInv
<1>1. /\ open[fd] \in Files /\ Size(open[fd]) \in Nat /\ Size(open[fd]) + 1 < OffsetRange
      /\ pos[fd] \in Int /\ -1 <= pos[fd]
      /\ pos[fd] + n <= Size(open[fd]) + 1 /\ (n > 0 => pos[fd] + n >= 0)
  BY <1>0, AvailableOK
<1>2. /\ pos' = [pos EXCEPT ![fd] = @ + n]
      /\ back' = IF n = 0 THEN back ELSE [back EXCEPT ![fd] = Null]
  BY DEF Consume
<1>3. /\ pos' \in [Fd -> -1 .. OffsetRange - 1] /\ pos'[fd] = pos[fd] + n
      /\ \A d \in Fd \ {fd} : pos'[d] = pos[d]
  <2>1. pos[fd] + n \in -1 .. OffsetRange - 1
    BY <1>1, ContentAssumption
  <2> QED
    BY <1>0, <1>2, <2>1 DEF TypeOK
<1>4. /\ back' \in [Fd -> [kind : Kinds, own : BOOLEAN] \cup {Null}]
      /\ n # 0 => back'[fd] = Null
      /\ n = 0 => back'[fd] = back[fd]
      /\ \A d \in Fd \ {fd} : back'[d] = back[d]
  BY <1>0, <1>2 DEF TypeOK
<1>5. \A c \in bytes' : c \in Cell /\ (c.sure => c.expr = c.from)
  <2> SUFFICES ASSUME NEW c \in bytes' PROVE c \in Cell /\ (c.sure => c.expr = c.from)
    OBVIOUS
  <2>1. PICK i \in 0 .. (IF n < labelled THEN labelled ELSE n) - 1 : c = Byte(fd, i, n, labelled)
    BY DEF Deliver
  <2>2. i \in Nat /\ (i < n \/ i < labelled)
    OBVIOUS
  <2> QED
    BY <2>1, <2>2, ByteOK
<1>6. inputOffset' \in 0 .. OffsetRange - 1
  <2>1. labelled \in Int /\ -1 <= labelled /\ labelled < OffsetRange
    BY ContentAssumption
  <2> QED
    BY <1>0, <2>1, WrapRange DEF AdvanceInput, TypeOK
<1>7. TypeOK'
  BY <1>0, <1>3, <1>4, <1>5, <1>6 DEF TypeOK, Lose
<1>8. Placed'
  <2> SUFFICES ASSUME NEW d \in Fd, open[d] # Closed
               PROVE  /\ AfterPushed(d)' \in 0 .. Size(open[d]) + 1
                      /\ Pushed(d)' /\ back'[d].own => pos'[d] >= 0
    BY DEF Placed, Size
  <2>1. CASE d # fd \/ n = 0
    <3>1. pos'[d] = pos[d] /\ back'[d] = back[d]
      BY <1>1, <1>3, <1>4, <2>1
    <3> QED
      BY <1>0, <3>1 DEF Placed, AfterPushed, Pushed
  <2>2. CASE d = fd /\ n # 0
    <3>1. ~Pushed(d)' /\ AfterPushed(d)' = pos[d] + n
      BY <1>3, <1>4, <2>2 DEF Pushed, AfterPushed
    <3> QED
      BY <1>1, <2>2, <3>1
  <2> QED
    BY <2>1, <2>2
<1>9. OffsetIsPosition'
  <2> SUFFICES ASSUME Watched, ~lost' PROVE inputOffset' = Wrap(pos'[last])
    BY <1>0 DEF OffsetIsPosition, SameNumber, Watched, Wrap
  <2>1. ~lost /\ inputOffset = Wrap(pos[last]) /\ (fd = last => n = labelled)
    BY <1>0 DEF Lose, OffsetIsPosition
  <2>2. CASE fd = last
    <3>1. inputOffset' = Wrap(Wrap(pos[fd]) + n)
      BY <1>0, <2>1, <2>2 DEF AdvanceInput, IsInput, SameNumber
    <3>2. Wrap(Wrap(pos[fd]) + n) = Wrap(pos[fd] + n)
      <4>1. -1 <= pos[fd] + n /\ pos[fd] + n < OffsetRange /\ pos[fd] < OffsetRange /\ -1 <= n
        BY <1>1, ContentAssumption
      <4> QED
        BY <1>1, <4>1, WrapStep
    <3> QED
      BY <1>3, <2>2, <3>1, <3>2
  <2>3. CASE fd # last
    <3>1. last \in Fd
      BY <1>0 DEF Watched, TypeOK
    <3> QED
      BY <1>0, <1>3, <2>1, <2>3, <3>1 DEF AdvanceInput, IsInput, SameNumber
  <2> QED
    BY <2>2, <2>3
<1>10. SameNumber' /\ LabelsExact'
  BY <1>0, <1>5 DEF SameNumber, LabelsExact
<1> QED
  BY <1>7, <1>8, <1>9, <1>10 DEF IInv

-----------------------------------------------------------------------------
(***************************************************************************)
(* The calls                                                               *)
(***************************************************************************)
\* Before the first call, nothing has been read.
LEMMA InitInv == Init => IInv
<1> SUFFICES ASSUME Init PROVE IInv
  OBVIOUS
<1>1. TypeOK
  <2>1. OffsetRange > 0
    BY FilesAssumption, SizeType, ContentAssumption
  <2>2. /\ open \in [Fd -> Files \cup {Closed}] /\ pos \in [Fd -> -1 .. OffsetRange - 1]
        /\ back \in [Fd -> [kind : Kinds, own : BOOLEAN] \cup {Null}]
    BY <2>1, FilesAssumption, ContentAssumption DEF Init
  <2>3. /\ stdio \subseteq Fd /\ inputFileDescriptor \in Fd \cup {-1}
        /\ inputOffset \in 0 .. OffsetRange - 1 /\ last \in Fd \cup {-1}
    BY <2>1, FdAssumption, ContentAssumption DEF Init
  <2> QED
    BY <2>2, <2>3 DEF Init, TypeOK
<1>2. Placed
  <2> SUFFICES ASSUME NEW fd \in Fd, open[fd] # Closed
               PROVE  /\ AfterPushed(fd) \in 0 .. Size(open[fd]) + 1
                      /\ Pushed(fd) /\ back[fd].own => pos[fd] >= 0
    BY DEF Placed
  <2>1. ~Pushed(fd) /\ AfterPushed(fd) = 0
    BY DEF Init, Pushed, AfterPushed
  <2>2. Size(open[fd]) \in Nat
    BY <1>1, SizeType DEF TypeOK
  <2> QED
    BY <2>1, <2>2
<1>3. SameNumber /\ LabelsExact
  BY DEF Init, SameNumber, LabelsExact
<1>4. OffsetIsPosition
  <2>1. last \in Fd => pos[last] = 0
    BY DEF Init
  <2>2. Wrap(0) = 0
    BY WrapPosition, FilesAssumption, SizeType, ContentAssumption
  <2> QED
    BY <1>1, <1>3, <2>1, <2>2 DEF Init, OffsetIsPosition, SameNumber, Watched, TypeOK
<1> QED
  BY <1>1, <1>2, <1>3, <1>4 DEF IInv

\* A descriptor gets a new position.
LEMMA RepositionOK ==
  ASSUME IInv, NEW fd \in Fd, NEW f \in Files \cup {Closed}, open' = [open EXCEPT ![fd] = f],
         NEW p \in Nat, f # Closed => p <= Size(f) + 1, f = Closed => p = 0, Reposition(fd, p)
  PROVE  /\ pos' \in [Fd -> -1 .. OffsetRange - 1]
         /\ back' \in [Fd -> [kind : Kinds, own : BOOLEAN] \cup {Null}]
         /\ open' \in [Fd -> Files \cup {Closed}]
         /\ pos'[fd] = p /\ open'[fd] = f
         /\ \A d \in Fd \ {fd} : pos'[d] = pos[d] /\ open'[d] = open[d]
         /\ Placed' /\ Wrap(p) = p /\ p \in 0 .. OffsetRange - 1
<1>0. TypeOK /\ Placed
  BY DEF IInv
<1>1. p \in 0 .. OffsetRange - 1
  <2>1. OffsetRange \in Nat /\ OffsetRange > 0
    BY FilesAssumption, SizeType, ContentAssumption
  <2>2. CASE f = Closed
    BY <2>1, <2>2
  <2>3. CASE f # Closed
    BY <2>1, <2>3, SizeType
  <2> QED
    BY <2>2, <2>3
<1>2. /\ pos' = [pos EXCEPT ![fd] = p] /\ back' = [back EXCEPT ![fd] = Null]
  BY DEF Reposition
<1>3. /\ pos' \in [Fd -> -1 .. OffsetRange - 1]
      /\ back' \in [Fd -> [kind : Kinds, own : BOOLEAN] \cup {Null}]
      /\ open' \in [Fd -> Files \cup {Closed}]
      /\ pos'[fd] = p /\ open'[fd] = f /\ back'[fd] = Null
      /\ \A d \in Fd \ {fd} : pos'[d] = pos[d] /\ open'[d] = open[d] /\ back'[d] = back[d]
  <2>1. p \in -1 .. OffsetRange - 1
    BY <1>1, ContentAssumption
  <2> QED
    BY <1>0, <1>2, <2>1 DEF TypeOK
<1>4. Placed'
  <2> SUFFICES ASSUME NEW d \in Fd, open'[d] # Closed
               PROVE  /\ AfterPushed(d)' \in 0 .. Size(open'[d]) + 1
                      /\ Pushed(d)' /\ back'[d].own => pos'[d] >= 0
    BY DEF Placed, Size
  <2>1. CASE d = fd
    <3>1. ~Pushed(d)' /\ AfterPushed(d)' = p /\ p <= Size(f) + 1 /\ open'[d] = f /\ Size(f) \in Nat
      BY <1>3, <2>1, SizeType DEF Pushed, AfterPushed
    <3> QED
      BY <3>1
  <2>2. CASE d # fd
    BY <1>0, <1>3, <2>2 DEF Placed, AfterPushed, Pushed
  <2> QED
    BY <2>1, <2>2
<1>5. Wrap(p) = p
  BY <1>1, WrapPosition, ContentAssumption
<1> QED
  BY <1>1, <1>3, <1>4, <1>5

\* Opening a file, whatever its path and its number.
LEMMA OpenInv ==
  ASSUME IInv, NEW f \in Files, NEW fd \in Fd, open_symbolized(f, fd)
  PROVE  IInv'
<1>0. TypeOK /\ SameNumber /\ OffsetIsPosition
  BY DEF IInv
<1>1. /\ open[fd] = Closed /\ open' = [open EXCEPT ![fd] = f] /\ Reposition(fd, 0)
      /\ stdio' \in {stdio \cup {fd}, stdio \ {fd}} /\ bytes' = {}
  BY DEF open_symbolized, LowestFree
<1>2. f # Closed /\ Size(f) \in Nat
  BY FilesAssumption, SizeType
<1>3. /\ pos' \in [Fd -> -1 .. OffsetRange - 1]
      /\ back' \in [Fd -> [kind : Kinds, own : BOOLEAN] \cup {Null}]
      /\ open' \in [Fd -> Files \cup {Closed}]
      /\ pos'[fd] = 0 /\ open'[fd] = f
      /\ \A d \in Fd \ {fd} : pos'[d] = pos[d] /\ open'[d] = open[d]
      /\ Placed' /\ Wrap(0) = 0 /\ 0 \in 0 .. OffsetRange - 1
  <2>1. 0 <= Size(f) + 1 /\ f \in Files \cup {Closed} /\ 0 \in Nat
    BY <1>2
  <2> QED
    BY <1>1, <1>2, <2>1, RepositionOK
<1>4. CASE InputKind = "file" /\ f \in Matching
  <2>1. inputFileDescriptor' = fd /\ inputOffset' = 0 /\ last' = fd /\ lost' = FALSE
    BY <1>4 DEF open_symbolized, maybeSetInputFile
  <2>2. TypeOK'
    BY <1>0, <1>1, <1>3, <2>1 DEF TypeOK
  <2>3. SameNumber' /\ LabelsExact' /\ OffsetIsPosition'
    BY <1>1, <1>3, <1>4, <2>1 DEF SameNumber, LabelsExact, OffsetIsPosition, Wrap
  <2> QED
    BY <1>3, <2>2, <2>3 DEF IInv
<1>5. CASE ~(InputKind = "file" /\ f \in Matching)
  <2>1. UNCHANGED <<inputFileDescriptor, inputOffset, last, lost>>
    BY <1>5 DEF open_symbolized, maybeSetInputFile
  <2>2. TypeOK'
    BY <1>0, <1>1, <1>3, <2>1 DEF TypeOK
  <2>3. OffsetIsPosition'
    <3> SUFFICES ASSUME Watched', ~lost PROVE inputOffset = Wrap(pos'[last])
      BY <1>0, <2>1 DEF OffsetIsPosition, SameNumber, Wrap
    <3>1. last \in Fd /\ last # -1 /\ open'[last] = InputFile
      BY <1>0, <2>1 DEF Watched, TypeOK
    <3>2. CASE last = fd
      <4>1. f = InputFile /\ f # Stdin
        BY <1>3, <3>1, <3>2 DEF open_symbolized
      <4>2. InputKind # "none"
        BY <1>0, <3>1 DEF SameNumber
      <4> QED
        BY <1>5, <4>1, <4>2, KindAssumption
    <3>3. CASE last # fd
      <4>1. Watched /\ pos'[last] = pos[last]
        BY <1>3, <3>1, <3>3 DEF Watched
      <4> QED
        BY <1>0, <4>1 DEF OffsetIsPosition
    <3> QED
      BY <3>2, <3>3
  <2>4. SameNumber' /\ LabelsExact'
    BY <1>0, <1>1, <2>1 DEF SameNumber, LabelsExact
  <2> QED
    BY <1>3, <2>2, <2>3, <2>4 DEF IInv
<1> QED
  BY <1>4, <1>5

\* Closing one: if it was the input, there is nothing to know about it.
LEMMA CloseInv ==
  ASSUME IInv, NEW fd \in Fd, close(fd)
  PROVE  IInv'
<1>0. TypeOK /\ SameNumber /\ OffsetIsPosition
  BY DEF IInv
<1>1. /\ open' = [open EXCEPT ![fd] = Closed] /\ Reposition(fd, 0) /\ bytes' = {}
      /\ UNCHANGED <<inputFileDescriptor, inputOffset, stdio, last, lost>>
  BY DEF close
<1>2. /\ pos' \in [Fd -> -1 .. OffsetRange - 1]
      /\ back' \in [Fd -> [kind : Kinds, own : BOOLEAN] \cup {Null}]
      /\ open' \in [Fd -> Files \cup {Closed}]
      /\ open'[fd] = Closed
      /\ \A d \in Fd \ {fd} : pos'[d] = pos[d] /\ open'[d] = open[d]
      /\ Placed'
  <2>1. 0 \in Nat /\ Closed \in Files \cup {Closed}
    OBVIOUS
  <2> QED
    BY <1>1, <2>1, RepositionOK
<1>3. TypeOK' /\ SameNumber' /\ LabelsExact'
  BY <1>0, <1>1, <1>2 DEF TypeOK, SameNumber, LabelsExact
<1>4. OffsetIsPosition'
  <2> SUFFICES ASSUME Watched', ~lost PROVE inputOffset = Wrap(pos'[last])
    BY <1>0, <1>1 DEF OffsetIsPosition, SameNumber, Wrap
  <2>1. last \in Fd /\ last # -1 /\ open'[last] = InputFile
    BY <1>0, <1>1 DEF Watched, TypeOK
  <2>2. last # fd
    BY <1>2, <2>1, FilesAssumption
  <2>3. Watched /\ pos'[last] = pos[last]
    BY <1>2, <2>1, <2>2 DEF Watched
  <2> QED
    BY <1>0, <2>3 DEF OffsetIsPosition
<1> QED
  BY <1>2, <1>3, <1>4 DEF IInv

\* A seek tells the wrappers the position, whatever they believed before.
LEMMA SeekInv ==
  ASSUME IInv, NEW fd \in Fd, open[fd] # Closed, NEW p \in 0 .. Size(open[fd]) + 1,
         seek_symbolized(fd, p)
  PROVE  IInv'
<1>0. TypeOK /\ SameNumber /\ OffsetIsPosition
  BY DEF IInv
<1>1. /\ Reposition(fd, p) /\ bytes' = {}
      /\ inputOffset' = IF IsInput(fd) THEN p ELSE inputOffset
      /\ lost' = (lost /\ fd # last)
      /\ UNCHANGED <<inputFileDescriptor, open, stdio, last>>
  BY DEF seek_symbolized, Regain
<1>2. /\ pos' \in [Fd -> -1 .. OffsetRange - 1]
      /\ back' \in [Fd -> [kind : Kinds, own : BOOLEAN] \cup {Null}]
      /\ pos'[fd] = p
      /\ \A d \in Fd \ {fd} : pos'[d] = pos[d]
      /\ Placed' /\ Wrap(p) = p /\ p \in 0 .. OffsetRange - 1
  <2> DEFINE f == open[fd]
  <2>1. f \in Files \cup {Closed} /\ f # Closed /\ Size(f) \in Nat
    BY <1>0, SizeType DEF TypeOK
  <2>2. p \in Nat /\ p <= Size(f) + 1
    BY <2>1
  <2>3. open' = [open EXCEPT ![fd] = f]
    BY <1>0, <1>1 DEF TypeOK
  <2> HIDE DEF f
  <2> QED
    BY <1>1, <2>1, <2>2, <2>3, RepositionOK
<1>3. TypeOK' /\ SameNumber' /\ LabelsExact'
  BY <1>0, <1>1, <1>2 DEF TypeOK, SameNumber, LabelsExact
<1>4. OffsetIsPosition'
  <2> SUFFICES ASSUME Watched, ~lost' PROVE inputOffset' = Wrap(pos'[last])
    BY <1>0, <1>1 DEF OffsetIsPosition, SameNumber, Watched, Wrap
  <2>1. CASE fd = last
    BY <1>0, <1>1, <1>2, <2>1 DEF IsInput, SameNumber
  <2>2. CASE fd # last
    <3>1. last \in Fd /\ ~lost
      BY <1>0, <1>1, <2>2 DEF Watched, TypeOK
    <3> QED
      BY <1>0, <1>1, <1>2, <2>2, <3>1 DEF OffsetIsPosition, IsInput, SameNumber
  <2> QED
    BY <2>1, <2>2
<1> QED
  BY <1>2, <1>3, <1>4 DEF IInv

\* Pushing back a character, also at the beginning of the file.
LEMMA UngetcInv ==
  ASSUME IInv, NEW fd \in Fd, NEW c \in [kind : Kinds, own : BOOLEAN], ungetc_symbolized(fd, c)
  PROVE  IInv'
<1>0. TypeOK /\ Placed /\ SameNumber /\ OffsetIsPosition
  BY DEF IInv
<1>1. /\ open[fd] # Closed /\ ~Pushed(fd) /\ (c.own => pos[fd] \in 1 .. Size(open[fd]))
      /\ back' = [back EXCEPT ![fd] = c] /\ pos' = [pos EXCEPT ![fd] = @ - 1]
      /\ AdvanceInput(fd, -1) /\ bytes' = {}
      /\ UNCHANGED <<inputFileDescriptor, open, stdio, last, lost>>
  BY DEF ungetc_symbolized, IsStream, IsOpen
<1>2. /\ Size(open[fd]) \in Nat /\ Size(open[fd]) + 1 < OffsetRange /\ pos[fd] \in Int
      /\ 0 <= pos[fd] /\ pos[fd] <= Size(open[fd]) + 1
  <2>1. /\ Size(open[fd]) \in Nat /\ Size(open[fd]) + 1 < OffsetRange /\ pos[fd] \in Int
        /\ -1 <= pos[fd] /\ pos[fd] <= Size(open[fd]) + 1 /\ pos[fd] # -1
    BY <1>0, <1>1, AvailableOK
  <2> QED
    BY <2>1
<1>3. /\ pos' \in [Fd -> -1 .. OffsetRange - 1] /\ pos'[fd] = pos[fd] - 1
      /\ back' \in [Fd -> [kind : Kinds, own : BOOLEAN] \cup {Null}] /\ back'[fd] = c
      /\ \A d \in Fd \ {fd} : pos'[d] = pos[d] /\ back'[d] = back[d]
  <2>1. pos[fd] - 1 \in -1 .. OffsetRange - 1
    BY <1>2, ContentAssumption
  <2> QED
    BY <1>0, <1>1, <2>1 DEF TypeOK
<1>4. inputOffset' \in 0 .. OffsetRange - 1
  <2>1. inputOffset + (-1) = inputOffset - 1 /\ inputOffset \in 0 .. OffsetRange - 1
    BY <1>0, ContentAssumption DEF TypeOK
  <2>2. Wrap(inputOffset + (-1)) \in 0 .. OffsetRange - 1
    BY <2>1, ContentAssumption DEF Wrap
  <2> QED
    BY <1>1, <2>1, <2>2 DEF AdvanceInput
<1>5. TypeOK' /\ SameNumber' /\ LabelsExact'
  BY <1>0, <1>1, <1>3, <1>4 DEF TypeOK, SameNumber, LabelsExact
<1>6. Placed'
  <2> SUFFICES ASSUME NEW d \in Fd, open[d] # Closed
               PROVE  /\ AfterPushed(d)' \in 0 .. Size(open[d]) + 1
                      /\ Pushed(d)' /\ back'[d].own => pos'[d] >= 0
    BY <1>1 DEF Placed, Size
  <2>1. CASE d # fd
    BY <1>0, <1>3, <2>1 DEF Placed, AfterPushed, Pushed
  <2>2. CASE d = fd
    <3>1. Pushed(d)' /\ back'[d] = c
      BY <1>3, <2>2, NullAssumption DEF Pushed
    <3>2. AfterPushed(d)' = pos[fd] - 1 + 1
      BY <1>3, <2>2, <3>1 DEF AfterPushed
    <3>3. c.own => pos'[d] >= 0
      BY <1>1, <1>2, <1>3, <2>2
    <3> QED
      BY <1>2, <2>2, <3>1, <3>2, <3>3
  <2> QED
    BY <2>1, <2>2
<1>7. OffsetIsPosition'
  <2> SUFFICES ASSUME Watched, ~lost PROVE inputOffset' = Wrap(pos'[last])
    BY <1>0, <1>1 DEF OffsetIsPosition, SameNumber, Watched, Wrap
  <2>1. inputOffset = Wrap(pos[last]) /\ last \in Fd
    BY <1>0 DEF OffsetIsPosition, Watched, TypeOK
  <2>2. CASE fd = last
    <3>1. inputOffset' = Wrap(Wrap(pos[fd]) + (-1))
      BY <1>0, <1>1, <2>1, <2>2 DEF AdvanceInput, IsInput, SameNumber
    <3>2. Wrap(Wrap(pos[fd]) + (-1)) = Wrap(pos[fd] - 1)
      BY <1>2, ContentAssumption DEF Wrap
    <3> QED
      BY <1>3, <2>2, <3>1, <3>2
  <2>3. CASE fd # last
    BY <1>0, <1>1, <1>3, <2>1, <2>3 DEF AdvanceInput, IsInput, SameNumber
  <2> QED
    BY <2>2, <2>3
<1> QED
  BY <1>5, <1>6, <1>7 DEF IInv

\* A mapping leaves the positions alone and is one the wrappers cannot follow.
LEMMA MmapInv ==
  ASSUME IInv, NEW fildes \in Fd \cup {-1}, NEW len \in 1 .. BufLen, NEW off \in 0 .. BufLen,
         mmap_symbolized(fildes, len, off)
  PROVE  IInv'
<1>0. TypeOK /\ Placed /\ SameNumber /\ OffsetIsPosition
  BY DEF IInv
<1>1. /\ inputOffset' = IF IsInput(fildes) THEN Wrap(off + len) ELSE inputOffset
      /\ lost' = (lost \/ fildes = last)
      /\ UNCHANGED <<inputFileDescriptor, open, stdio, pos, back, last>>
  BY DEF mmap_symbolized, Lose
<1>2. Wrap(off + len) \in 0 .. OffsetRange - 1
  BY ContentAssumption DEF Wrap
<1>3. inputOffset' \in 0 .. OffsetRange - 1
  BY <1>0, <1>1, <1>2 DEF TypeOK
<1>4. \A c \in bytes' : c \in Cell /\ (c.sure => c.expr = c.from)
  <2> SUFFICES ASSUME NEW c \in bytes' PROVE c \in Cell /\ (c.sure => c.expr = c.from)
    OBVIOUS
  <2> DEFINE from(i) == IF fildes = last /\ Watched THEN off + i ELSE Null
             expr    == IF IsInput(fildes) THEN inputOffset' ELSE Null
  <2>1. PICK i \in 0 .. len - 1 : c = [from |-> from(i), expr |-> expr, sure |-> fildes # last]
    BY DEF mmap_symbolized
  <2>2. from(i) \in Nat \cup {Null}
    BY ContentAssumption
  <2>3. expr \in 0 .. OffsetRange - 1 \cup {Null}
    BY <1>3
  <2>4. fildes # last => expr = Null /\ from(i) = Null
    BY <1>0 DEF IsInput, SameNumber
  <2> HIDE DEF from, expr
  <2> QED
    BY <2>1, <2>2, <2>3, <2>4 DEF Cell
<1>5. TypeOK' /\ SameNumber' /\ LabelsExact'
  BY <1>0, <1>1, <1>3, <1>4 DEF TypeOK, SameNumber, LabelsExact
<1>6. Placed'
  BY <1>0, <1>1 DEF Placed, AfterPushed, Pushed, Size
<1>7. OffsetIsPosition'
  <2> SUFFICES ASSUME Watched, ~lost' PROVE inputOffset' = Wrap(pos[last])
    BY <1>0, <1>1 DEF OffsetIsPosition, SameNumber, Watched, Wrap
  <2> QED
    BY <1>0, <1>1 DEF OffsetIsPosition, IsInput, SameNumber
<1> QED
  BY <1>5, <1>6, <1>7 DEF IInv

\* read, whose result is the number of bytes that it moved the position by.
LEMMA ReadInv ==
  ASSUME IInv, NEW fd \in Fd, NEW nbyte \in 0 .. BufLen, NEW result \in 0 .. BufLen,
         read_symbolized(fd, nbyte, result)
  PROVE  IInv'
<1>1. /\ open[fd] # Closed /\ result \in Nat /\ result <= Available(fd) /\ result <= BufLen
      /\ Deliver(fd, result, result) /\ Consume(fd, result) /\ AdvanceInput(fd, result)
      /\ UNCHANGED <<inputFileDescriptor, open, stdio, last>>
  BY ContentAssumption DEF read_symbolized, IsOpen
<1>2. Lose(fd, result # result)
  BY DEF read_symbolized, Lose, IInv, TypeOK
<1> QED
  BY <1>1, <1>2, TransferInv

\* fread, whose result is a number of elements.
LEMMA FreadInv ==
  ASSUME IInv, NEW fd \in Fd, NEW size \in 1 .. BufLen, NEW nmemb \in 1 .. BufLen,
         size * nmemb <= BufLen, fread_symbolized(fd, size, nmemb)
  PROVE  IInv'
<1> DEFINE consumed == IF size * nmemb <= Available(fd) THEN size * nmemb ELSE Available(fd)
           labelled == (consumed \div size) * size
<1>1. /\ open[fd] # Closed /\ Deliver(fd, consumed, labelled) /\ Consume(fd, consumed)
      /\ AdvanceInput(fd, labelled) /\ Lose(fd, consumed # labelled)
      /\ UNCHANGED <<inputFileDescriptor, open, stdio, last>>
  BY DEF fread_symbolized, IsStream, IsOpen
<1>2. Available(fd) \in Nat
  BY <1>1, AvailableOK DEF IInv
<1>3. size \in Nat /\ 0 < size /\ size * nmemb \in Nat
  BY ContentAssumption
<1>4. consumed \in Nat /\ consumed <= Available(fd) /\ consumed <= BufLen
  BY <1>2, <1>3, ContentAssumption
<1> HIDE DEF consumed
<1>5. consumed \div size \in Nat /\ consumed = size * (consumed \div size) + (consumed % size)
      /\ consumed % size \in Nat
  BY <1>3, <1>4
<1>6. labelled \in Nat /\ labelled <= consumed
  BY <1>3, <1>4, <1>5
<1>7. labelled \in Nat /\ labelled <= BufLen
  BY <1>4, <1>6, ContentAssumption
<1> HIDE DEF labelled
<1> QED
  BY <1>1, <1>4, <1>7, TransferInv

\* fgets, which finds out with strlen what it has read.
LEMMA FgetsInv ==
  ASSUME IInv, NEW fd \in Fd, NEW n \in 1 .. BufLen, NEW got \in 0 .. BufLen - 1,
         NEW length \in 0 .. BufLen - 1, fgets_symbolized(fd, n, got, length)
  PROVE  IInv'
<1>1. /\ open[fd] # Closed /\ got \in Nat /\ got <= Available(fd)
      /\ length \in Nat /\ length <= BufLen
      /\ Deliver(fd, got, length) /\ Consume(fd, got) /\ AdvanceInput(fd, length)
      /\ UNCHANGED <<inputFileDescriptor, open, stdio, last>>
  BY ContentAssumption DEF fgets_symbolized, IsStream, IsOpen, EndOfLine
<1>2. Lose(fd, got # length)
  BY DEF fgets_symbolized, Lose
<1> QED
  BY <1>1, <1>2, TransferInv

\* getc, at the end of the file or before.
LEMMA GetcInv ==
  ASSUME IInv, NEW fd \in Fd, getc_symbolized(fd)
  PROVE  IInv'
<1>0. TypeOK /\ Placed /\ SameNumber /\ OffsetIsPosition
  BY DEF IInv
<1>1. open[fd] # Closed /\ UNCHANGED <<inputFileDescriptor, open, stdio, last, lost>>
  BY DEF getc_symbolized, IsStream, IsOpen
<1>2. CASE Available(fd) = 0
  <2>1. bytes' = {NoByte} /\ UNCHANGED <<pos, back, inputOffset>>
    BY <1>2 DEF getc_symbolized
  <2>2. NoByte \in Cell /\ NoByte.expr = NoByte.from
    BY DEF NoByte, Cell
  <2>3. TypeOK' /\ SameNumber' /\ LabelsExact'
    BY <1>0, <1>1, <2>1, <2>2 DEF TypeOK, SameNumber, LabelsExact
  <2>4. Placed' /\ OffsetIsPosition'
    BY <1>0, <1>1, <2>1
       DEF Placed, AfterPushed, Pushed, Size, OffsetIsPosition, Watched, Wrap
  <2> QED
    BY <2>3, <2>4 DEF IInv
<1>3. CASE Available(fd) # 0
  <2>1. Deliver(fd, 1, 1) /\ Consume(fd, 1) /\ AdvanceInput(fd, 1)
    BY <1>3 DEF getc_symbolized
  <2>2. 1 <= Available(fd) /\ 1 \in Nat /\ 1 <= BufLen
    BY <1>0, <1>1, <1>3, AvailableOK, ContentAssumption
  <2>3. Lose(fd, 1 # 1)
    BY <1>0, <1>1 DEF Lose, TypeOK
  <2> QED
    BY <1>1, <2>1, <2>2, <2>3, TransferInv
<1> QED
  BY <1>2, <1>3

\* Every call preserves the invariant.
LEMMA NextInv == IInv /\ [Next]_vars => IInv'
<1> SUFFICES ASSUME IInv, [Next]_vars PROVE IInv'
  OBVIOUS
<1>1. CASE UNCHANGED vars
  BY <1>1 DEF vars, IInv, TypeOK, Placed, AfterPushed, Pushed, Size, SameNumber,
              OffsetIsPosition, Watched, Wrap, LabelsExact
<1>2. CASE Next
  <2>1. PICK fd \in Fd :
          \/ \E f \in Files : open_symbolized(f, fd)
          \/ close(fd)
          \/ \E nbyte, result \in 0 .. BufLen : read_symbolized(fd, nbyte, result)
          \/ \E size, nmemb \in 1 .. BufLen :
               size * nmemb <= BufLen /\ fread_symbolized(fd, size, nmemb)
          \/ IsOpen(fd) /\ \E p \in 0 .. Size(open[fd]) + 1 : seek_symbolized(fd, p)
          \/ rewind_symbolized(fd)
          \/ getc_symbolized(fd)
          \/ \E c \in [kind : Kinds, own : BOOLEAN] : ungetc_symbolized(fd, c)
          \/ \E n \in 1 .. BufLen, got, length \in 0 .. BufLen - 1 :
               fgets_symbolized(fd, n, got, length)
          \/ \E fildes \in {fd, -1}, len \in 1 .. BufLen, off \in 0 .. BufLen :
               mmap_symbolized(fildes, len, off)
    BY <1>2 DEF Next
  <2>2. ASSUME NEW f \in Files, open_symbolized(f, fd) PROVE IInv'
    BY <2>2, OpenInv
  <2>3. CASE close(fd)
    BY <2>3, CloseInv
  <2>4. ASSUME NEW nbyte \in 0 .. BufLen, NEW result \in 0 .. BufLen,
               read_symbolized(fd, nbyte, result)
        PROVE  IInv'
    BY <2>4, ReadInv
  <2>5. ASSUME NEW size \in 1 .. BufLen, NEW nmemb \in 1 .. BufLen, size * nmemb <= BufLen,
               fread_symbolized(fd, size, nmemb)
        PROVE  IInv'
    BY <2>5, FreadInv
  <2>6. ASSUME IsOpen(fd), NEW p \in 0 .. Size(open[fd]) + 1, seek_symbolized(fd, p)
        PROVE  IInv'
    BY <2>6, SeekInv DEF IsOpen
  <2>7. CASE rewind_symbolized(fd)
    <3>1. open[fd] # Closed /\ seek_symbolized(fd, 0)
      BY <2>7 DEF rewind_symbolized, IsStream, IsOpen
    <3>2. 0 \in 0 .. Size(open[fd]) + 1
      BY <3>1, SizeType DEF IInv, TypeOK
    <3> QED
      BY <3>1, <3>2, SeekInv
  <2>8. CASE getc_symbolized(fd)
    BY <2>8, GetcInv
  <2>9. ASSUME NEW c \in [kind : Kinds, own : BOOLEAN], ungetc_symbolized(fd, c) PROVE IInv'
    BY <2>9, UngetcInv
  <2>10. ASSUME NEW n \in 1 .. BufLen, NEW got \in 0 .. BufLen - 1,
                NEW length \in 0 .. BufLen - 1, fgets_symbolized(fd, n, got, length)
         PROVE  IInv'
    BY <2>10, FgetsInv
  <2>11. ASSUME NEW fildes \in {fd, -1}, NEW len \in 1 .. BufLen, NEW off \in 0 .. BufLen,
                mmap_symbolized(fildes, len, off)
         PROVE  IInv'
    BY <2>11, MmapInv
  <2> QED
    BY <2>1, <2>2, <2>3, <2>4, <2>5, <2>6, <2>7, <2>8, <2>9, <2>10, <2>11
<1> QED
  BY <1>1, <1>2

-----------------------------------------------------------------------------
(***************************************************************************)
(* The theorems                                                            *)
(***************************************************************************)
LEMMA Invariance == Spec => []IInv
BY InitInv, NextInv, PTL DEF Spec

\* The state of the wrappers and of the C library keeps its types whatever
\* calls the program makes; inputOffset wraps around like a uint64_t when
\* ungetc decrements it at the beginning of the input.
THEOREM WrapperTypes == Spec => []TypeOK
<1>1. IInv => TypeOK
  BY DEF IInv
<1> QED
  BY Invariance, <1>1, PTL

\* As long as the input is open under the number of its last open or fopen,
\* and since the last open or seek no call was made that moves the stream by
\* another amount than LibcWrappers.cpp accounts for, the wrappers know its
\* descriptor and its position, pushed-back characters included, for any
\* program, any files and any reuse of descriptor numbers.
THEOREM OffsetInSync == Spec => []OffsetIsPosition
<1>1. IInv => OffsetIsPosition
  BY DEF IInv
<1> QED
  BY Invariance, <1>1, PTL

\* Under the same conditions, every byte that read, fread, fgets or getc
\* delivers from the input is labelled with the offset it came from, and
\* bytes of other descriptors have no label.
THEOREM LabelsAreExact == Spec => []LabelsExact
<1>1. IInv => LabelsExact
  BY DEF IInv
<1> QED
  BY Invariance, <1>1, PTL
=============================================================================
