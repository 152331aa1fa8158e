---------------------------- MODULE DriverProofs ----------------------------
(***************************************************************************)
(* Theorems about module Driver, for every size of file and buffer and     *)
(* every Range header.                                                     *)
(***************************************************************************)
EXTENDS Driver, TLAPS

USE DriverAssumption, BoundAssumption

(***************************************************************************)
(* What Download answers.                                                  *)
(***************************************************************************)

\* The answer of Download is a stretch of the file, and nothing if it is a 500.
LEMMA AnswerInFile ==
    ASSUME NEW h \in Seq(Part), NEW sz \in Nat
    PROVE  LET a == Download(h, sz) IN
           /\ a.first \in Nat /\ a.count \in Nat /\ a.first + a.count <= sz
           /\ a.status \in {200, 500} /\ a.countedOut \in BOOLEAN
  <1>1. CASE h = NoHeader
    BY <1>1 DEF Download
  <1>2. CASE h # NoHeader
    <2>1. 1 \in DOMAIN h /\ h[1] \in Part
      BY <1>2 DEF NoHeader
    <2>2. CASE ~ParseRange(h, sz).ok
      BY <1>2, <2>2 DEF Download, Failed
    <2>3. CASE ParseRange(h, sz).ok
      <3>1. ~Rejected(h[1], sz)
        BY <2>1, <2>3 DEF ParseRange
      <3>2. ParseRange(h, sz).ranges[1] =
               [Start |-> StartOf(h[1], sz), End |-> EndOf(h[1], sz) + 1]
        BY <2>1 DEF ParseRange
      <3>3. /\ StartOf(h[1], sz) \in Int /\ EndOf(h[1], sz) \in Int
            /\ StartOf(h[1], sz) < sz /\ EndOf(h[1], sz) < sz
            /\ StartOf(h[1], sz) <= EndOf(h[1], sz) + 1
        BY <2>1, <3>1 DEF Rejected, StartOf, EndOf, Part
      <3> QED
        BY <1>2, <2>3, <3>2, <3>3 DEF Download, Failed, ContentLength
    <2> QED
      BY <2>2, <2>3
  <1> QED
    BY <1>1, <1>2

\* A request for the whole buffer is accepted only if the file reaches that far,
\* and then starts at its offset; refused, it leaves the reader counted.
LEMMA WholeBufferAnswer ==
    ASSUME NEW o \in Int, NEW sz \in Nat
    PROVE  LET a == Download(FlushHeader(o), sz) IN
           /\ FlushHeader(o) \in Seq(Part) /\ FlushHeader(o) # NoHeader
           /\ a.status = 200 => o >= 0 /\ o + bufSize <= sz /\ a.first = o
           /\ ~a.countedOut => o < 0 \/ o + bufSize > sz
  <1>1. CASE o < 0
    <2>1. FlushHeader(o) = <<Garbage>>
      BY <1>1 DEF FlushHeader
    <2>2. <<Garbage>> \in Seq(Part) /\ <<Garbage>> # NoHeader
      BY DEF Garbage, Part, NoHeader
    <2>3. ~ParseRange(<<Garbage>>, sz).ok
      BY DEF ParseRange, Rejected, Garbage
    <2> QED
      BY <1>1, <2>1, <2>2, <2>3 DEF Download, Failed
  <1>2. CASE o >= 0
    <2> DEFINE p == Closed(o, o + bufSize - 1)
    <2>1. FlushHeader(o) = <<p>>
      BY <1>2 DEF FlushHeader, WholeBuffer
    <2>2. <<p>> \in Seq(Part) /\ <<p>> # NoHeader
      BY <1>2 DEF Closed, Part, NoHeader
    <2>3. /\ StartOf(p, sz) = o /\ EndOf(p, sz) = o + bufSize - 1
          /\ Rejected(p, sz) <=> o + bufSize > sz
      BY <1>2 DEF Closed, StartOf, EndOf, Rejected
    <2>4. /\ ParseRange(<<p>>, sz).ok <=> ~Rejected(p, sz)
          /\ ParseRange(<<p>>, sz).ranges[1] = [Start |-> o, End |-> o + bufSize - 1 + 1]
      BY <2>3 DEF ParseRange
    <2> HIDE DEF p
    <2> QED
      BY <1>2, <2>1, <2>2, <2>3, <2>4 DEF Download, Failed
  <1> QED
    BY <1>1, <1>2

-----------------------------------------------------------------------------
(***************************************************************************)
(* The inductive invariant: the last answer is what Download gives for its *)
(* header, which ties the properties of answers to those of Download.      *)
(***************************************************************************)
ReplyIsDownload ==
    /\ reply.header \in Seq(Part)
    /\ reply.answer = Download(reply.header, size)

IndInv == TypeOK /\ ReplyIsDownload /\ BufferAtOffset

LEMMA SizeIsNat == TypeOK => size \in Nat
  BY DEF TypeOK

LEMMA ServeReplies ==
    ASSUME NEW h \in Seq(Part), Serve(h), UNCHANGED size, OpenCount \in Nat
    PROVE  ReplyIsDownload' /\ OpenCount' \in Nat
  <1>1. /\ reply' = [header |-> h, answer |-> Download(h, size)]
        /\ OpenCount' \in {OpenCount, OpenCount + 1}
    BY DEF Serve
  <1> QED
    BY <1>1 DEF ReplyIsDownload

\* What a flush leaves behind, whichever of the ways it ends in.
LEMMA FlushKeeps ==
    ASSUME IndInv, NEW o \in Int, NEW pos \in 0 .. bufSize,
           flushBuffer(o, pos), f_offset' = o, UNCHANGED size
    PROVE  /\ f_pos' \in 0 .. bufSize
           /\ buf' \in [Index -> Nat \cup {Zero}]
           /\ flushed' \in {"ok", "failed"}
           /\ OpenCount' \in Nat
           /\ ReplyIsDownload' /\ BufferAtOffset'
  <1> DEFINE a == Download(FlushHeader(o), size)
  <1>1. size \in Nat /\ buf \in [Index -> Nat \cup {Zero}] /\ OpenCount \in Nat
    BY SizeIsNat DEF IndInv, TypeOK
  <1>2. CASE Lost(pos)
    <2>1. ReplyIsDownload'
      BY <1>2 DEF IndInv, ReplyIsDownload, Lost
    <2> QED
      BY <1>1, <1>2, <2>1 DEF Lost, BufferAtOffset
  <1>3. CASE Answered(o, pos)
    <2>1. /\ FlushHeader(o) \in Seq(Part)
          /\ a.status = 200 => o >= 0 /\ o + bufSize <= size /\ a.first = o
          /\ a.first \in Nat /\ a.count \in Nat
      BY <1>1, WholeBufferAnswer, AnswerInFile
    <2>2. ReplyIsDownload' /\ OpenCount' \in Nat
      BY <1>1, <1>3, <2>1, ServeReplies DEF Answered
    <2>3. \A k \in Nat : Filled(buf, a.first, k) \in [Index -> Nat \cup {Zero}]
      BY <1>1, <2>1 DEF Filled, Index
    <2>4. \/ /\ a.status = 200
             /\ flushed' = "ok" /\ f_pos' = 0 /\ buf' = Filled(buf, a.first, bufSize)
          \/ /\ flushed' = "failed" /\ f_pos' = pos
             /\ \E k \in Nat : buf' = Filled(buf, a.first, k)
      BY <1>3, <2>1 DEF Answered, ResetPos, Index
    <2> HIDE DEF a
    <2>5. BufferAtOffset'
      <3>1. CASE flushed' = "ok"
        <4>1. /\ f_pos' = 0 /\ buf' = Filled(buf, o, bufSize)
              /\ o >= 0 /\ o + bufSize <= size
          BY <2>1, <2>4, <3>1
        <4>2. ASSUME NEW j \in Index
              PROVE  0 + j \in Index /\ Filled(buf, o, bufSize)[0 + j] = o + j /\ o + j < size
          BY <1>1, <4>1 DEF Filled, Index
        <4> QED
          BY <4>1, <4>2 DEF BufferAtOffset, Index
      <3>2. CASE flushed' # "ok"
        BY <3>2 DEF BufferAtOffset
      <3> QED
        BY <3>1, <3>2
    <2> QED
      BY <2>2, <2>3, <2>4, <2>5
  <1> QED
    BY <1>2, <1>3 DEF flushBuffer

LEMMA InitInv == Init => IndInv
  <1> SUFFICES ASSUME Init PROVE IndInv
    OBVIOUS
  <1>1. NoHeader \in Seq(Part)
    BY DEF NoHeader
  <1>2. TypeOK
    BY DEF Init, TypeOK, Offset, Empty, Index, Zero
  <1> QED
    BY <1>1, <1>2 DEF Init, IndInv, ReplyIsDownload, BufferAtOffset

LEMMA NextInv == IndInv /\ [Next]_vars => IndInv'
  <1> SUFFICES ASSUME IndInv, [Next]_vars PROVE IndInv'
    OBVIOUS
  <1>t. /\ size \in FileSize /\ f_offset \in Int /\ f_offset >= -1 /\ f_offset <= MaxOffset
        /\ f_pos \in 0 .. bufSize /\ bufSize \in Nat
    BY DEF IndInv, TypeOK, Offset
  <1>1. CASE Open
    <2>1. f_offset' = f_offset /\ UNCHANGED size /\ flushBuffer(f_offset, f_pos)
      BY <1>1 DEF Open
    <2> QED
      BY <1>t, <2>1, FlushKeeps DEF IndInv, TypeOK
  <1>2. ASSUME NEW o \in Offset, SeekTo(o)
        PROVE  IndInv'
    <2>1. f_offset' = o /\ UNCHANGED size /\ flushBuffer(o, f_pos) /\ o \in Int
      BY <1>2 DEF SeekTo, Offset
    <2> QED
      BY <1>t, <2>1, FlushKeeps DEF IndInv, TypeOK, Offset
  <1>3. CASE Seek
    <2>1. SeekEnd \in Offset /\ \A o \in Offset : SeekStart(o) = o
      BY DEF SeekEnd, SeekStart, Offset
    <2> QED
      BY <1>2, <1>3, <2>1 DEF Seek
  <1>4. CASE Read
    <2>1. /\ f_offset' = f_offset + Taken /\ UNCHANGED size
          /\ flushBuffer(f_offset + Taken, f_pos + Taken)
          /\ f_offset + Taken <= MaxOffset
      BY <1>4 DEF Read
    <2>2. Taken \in 0 .. bufSize /\ f_pos + Taken = bufSize
      BY <1>t DEF Taken
    <2>3. f_offset + Taken \in Int /\ f_pos + Taken \in 0 .. bufSize
      BY <1>t, <2>2
    <2>4. f_offset' \in Offset'
      BY <1>t, <2>1, <2>2 DEF Offset
    <2> HIDE DEF Taken
    <2> QED
      BY <1>t, <2>1, <2>3, <2>4, FlushKeeps DEF IndInv, TypeOK
  <1>5. ASSUME NEW h \in Asked, OtherDownload(h)
        PROVE  IndInv'
    <2>1. ReplyIsDownload' /\ OpenCount' \in Nat
      BY <1>5, ServeReplies, AskedAssumption DEF OtherDownload, IndInv, TypeOK
    <2> QED
      BY <1>5, <2>1 DEF OtherDownload, IndInv, TypeOK, BufferAtOffset
  <1>6. CASE UNCHANGED vars
    BY <1>6 DEF vars, IndInv, TypeOK, ReplyIsDownload, BufferAtOffset
  <1> QED
    BY <1>1, <1>3, <1>4, <1>5, <1>6 DEF Next

\* The inductive invariant of Driver.
THEOREM Invariance == Spec => []IndInv
  BY InitInv, NextInv, PTL DEF Spec

\* Type correctness: f_pos stays within the buffer that Read slices with it.
THEOREM TypeCorrect == Spec => []TypeOK
  <1>1. IndInv => TypeOK
    BY DEF IndInv
  <1> QED
    BY <1>1, Invariance, PTL

\* After a flush that succeeded the buffer holds the file from f_offset on, for
\* every size of file and buffer and every sequence of reads and seeks.
THEOREM BufferIsFile == Spec => []BufferAtOffset
  <1>1. IndInv => BufferAtOffset
    BY DEF IndInv
  <1> QED
    BY <1>1, Invariance, PTL

-----------------------------------------------------------------------------
(***************************************************************************)
(* The answers, whatever the header.                                       *)
(***************************************************************************)

\* ParseRange and Download against the words of HTTP, for one header.
LEMMA AnswerServesRange ==
    ASSUME NEW h \in Seq(Part), h # NoHeader, size \in Nat
    PROVE  LET a == Download(h, size)
               n == LastByte(h[1]) - FirstByte(h[1]) + 1
           IN  /\ a.status = 200 =>
                     /\ a.first = FirstByte(h[1])
                     /\ a.count \in {n, n + 1}
                     /\ a.declared = a.count \/ (a.declared = n + 1 /\ LastByte(h[1]) = size - 1)
               /\ FirstByte(h[1]) >= size => a.status = 500
  <1>1. 1 \in DOMAIN h /\ h[1] \in Part
    BY DEF NoHeader
  <1>2. CASE ~ParseRange(h, size).ok
    BY <1>2 DEF Download, Failed
  <1>3. CASE ParseRange(h, size).ok
    <2> DEFINE st == StartOf(h[1], size)
               en == EndOf(h[1], size)
    <2>1. ~Rejected(h[1], size)
      BY <1>1, <1>3 DEF ParseRange
    <2>2. ParseRange(h, size).ranges[1] = [Start |-> st, End |-> en + 1]
      BY <1>1 DEF ParseRange
    <2>3. /\ st \in Int /\ en \in Int /\ st < size /\ en < size
          /\ st <= en + 1
          /\ st >= 0 => st = FirstByte(h[1])
          /\ en = LastByte(h[1])
          /\ FirstByte(h[1]) >= size => st < 0
      BY <1>1, <2>1 DEF Rejected, StartOf, EndOf, FirstByte, LastByte, Part
    <2> HIDE DEF st, en
    <2>4. CASE st < 0
      BY <1>3, <2>2, <2>3, <2>4 DEF Download, Failed
    <2>5. CASE st >= 0
      <3>1. st = FirstByte(h[1]) /\ en = LastByte(h[1])
        BY <2>3, <2>5
      <3>2. /\ Download(h, size).status = 200 /\ Download(h, size).first = st
            /\ Download(h, size).declared = en - st + 2
        BY <1>3, <2>2, <2>3, <2>5, SMTT(30) DEF Download, ContentLength, Failed
      <3>3. Download(h, size).count =
               IF st + (en - st + 2) <= size THEN en - st + 2 ELSE size - st
        BY <1>3, <2>2, <2>3, <2>5, SMTT(30) DEF Download, ContentLength, Failed
      <3>4. \/ Download(h, size).count = en - st + 2
            \/ Download(h, size).count = en - st + 1 /\ en = size - 1
        BY <2>3, <3>3
      <3> QED
        BY <2>3, <3>1, <3>2, <3>4, SMTT(30)
    <2> QED
      BY <2>3, <2>4, <2>5
  <1> QED
    BY <1>2, <1>3

\* A range is refused or answered with the bytes that were asked for and at most
\* one more, and nothing beyond the file is sent, for every size and every header.
THEOREM RangesServed == Spec => []RangeServed
  <1>1. ASSUME IndInv PROVE RangeServed
    <2>1. size \in Nat /\ reply.header \in Seq(Part) /\ reply.answer = Download(reply.header, size)
      BY <1>1, SizeIsNat DEF IndInv, ReplyIsDownload
    <2>2. LET a == reply.answer IN a.first >= 0 /\ a.count >= 0 /\ a.first + a.count <= size
      BY <2>1, AnswerInFile
    <2>3. reply.header # NoHeader /\ FirstByte(reply.header[1]) >= size => reply.answer.status = 500
      BY <2>1, AnswerServesRange
    <2>4. NothingBeyondFile
      BY <2>2, <2>3 DEF NothingBeyondFile
    <2>5. AcceptedServed
      BY <2>1, AnswerServesRange DEF AcceptedServed
    <2> QED
      BY <2>4, <2>5 DEF RangeServed
  <1> QED
    BY <1>1, Invariance, PTL

\* The driver leaves a reader counted only by asking beyond the end of the file,
\* or before its start.
THEOREM Leaks == Spec => LeaksOnlyAtEnd
  <1> DEFINE Leak == OpenCount' # OpenCount /\ flushed # "new" =>
                        f_offset' < 0 \/ f_offset' + bufSize > size
  <1>1. ASSUME IndInv, NEW o \in Int, NEW pos, flushBuffer(o, pos), OpenCount' # OpenCount
        PROVE  o < 0 \/ o + bufSize > size
    <2>1. Answered(o, pos)
      BY <1>1 DEF flushBuffer, Lost
    <2>2. ~Download(FlushHeader(o), size).countedOut
      BY <1>1, <2>1 DEF Answered, Serve
    <2> QED
      BY <1>1, <2>2, SizeIsNat, WholeBufferAnswer DEF IndInv
  <1>2. ASSUME IndInv, [Next]_vars PROVE [Leak]_vars
    <2> SUFFICES ASSUME OpenCount' # OpenCount, flushed # "new"
                 PROVE  f_offset' < 0 \/ f_offset' + bufSize > size
      OBVIOUS
    <2>1. f_offset \in Int /\ f_pos \in Int
      BY <1>2 DEF IndInv, TypeOK, Offset
    <2>2. \E o \in Int : \E pos : flushBuffer(o, pos) /\ f_offset' = o
      <3>1. CASE Seek
        <4>1. PICK o \in Offset : SeekTo(o)
          BY <3>1 DEF Seek, SeekEnd, SeekStart, Offset
        <4> QED
          BY <4>1 DEF SeekTo, Offset
      <3>2. CASE Read
        BY <2>1, <3>2 DEF Read, Taken
      <3> QED
        BY <1>2, <3>1, <3>2 DEF Next, Open, OtherDownload, vars
    <2> QED
      BY <1>1, <1>2, <2>2
  <1>3. Spec => [][Leak]_vars
    BY <1>2, Invariance, PTL DEF Spec
  <1> QED
    BY <1>3 DEF LeaksOnlyAtEnd
=============================================================================
