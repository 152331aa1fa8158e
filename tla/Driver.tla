------------------------------- MODULE Driver -------------------------------
(***************************************************************************)
(* A file opened through the client driver (driver/driver.go, sdfs.go) and *)
(* the data node that answers its range requests, next to other HTTP       *)
(* clients that ask for the same file with headers of their own.           *)
(*                                                                         *)
(* A byte is its offset in the file, so buf shows which byte sits where.   *)
(* Every call of File ends with a flush of the buffer, which asks the node *)
(* for a whole buffer from f_offset on; the request may be lost, refused,  *)
(* or break off in the middle, in which case part of the buffer has been   *)
(* overwritten.  Seek and Read ignore the error.                           *)
(***************************************************************************)
EXTENDS Ranges

CONSTANTS bufSize,    \* length of the buffer
          FileSize,   \* sizes of the files that may be opened
          MaxOffset,  \* bound on the offsets sought
          Asked,      \* headers other clients send
          MaxOpen     \* bound on OpenCount, which stays there

ASSUME DriverAssumption == bufSize \in Nat \ {0} /\ FileSize \subseteq Nat
ASSUME BoundAssumption == MaxOffset \in Nat /\ MaxOpen \in Nat
ASSUME AskedAssumption == Asked \subseteq Seq(Part)

VARIABLES
    size,                \* of the file on the node
    f_offset, f_pos, buf,
    flushed,             \* how the last flushBuffer ended
    OpenCount,           \* of the file on the node
    reply                \* the last request the node answered, with its answer

vars == <<size, f_offset, f_pos, buf, flushed, OpenCount, reply>>

Zero  == -1
Index == 0 .. bufSize - 1
Empty == [j \in Index |-> Zero]

(***************************************************************************)
(* The header flushBuffer formats; with a negative offset it has too many  *)
(* minus signs to parse.                                                   *)
(***************************************************************************)
OneMore(offset)     == Closed(offset, offset + bufSize)
WholeBuffer(offset) == Closed(offset, offset + bufSize - 1)
FlushHeader(offset) == IF offset < 0 THEN <<Garbage>> ELSE <<WholeBuffer(offset)>>

(***************************************************************************)
(* The node answers a request: a refused header leaves its reader counted. *)
(***************************************************************************)
Serve(h) ==
    LET a == Download(h, size) IN
    /\ OpenCount' = IF a.countedOut \/ OpenCount = MaxOpen THEN OpenCount ELSE OpenCount + 1
    /\ reply' = [header |-> h, answer |-> a]

(***************************************************************************)
(* flushBuffer from an offset: the buffer is filled from its start; f_pos  *)
(* is reset only if it was filled to its end.                              *)
(***************************************************************************)
Filled(b, from, k) == [j \in Index |-> IF j < k THEN from + j ELSE b[j]]

KeepsPos(pos) == pos
ResetPos(pos) == 0

Lost(pos) ==
    /\ flushed' = "failed"
    /\ f_pos' = pos
    /\ UNCHANGED <<buf, OpenCount, reply>>

Answered(offset, pos) ==
    LET h == FlushHeader(offset)
        a == Download(h, size)
    IN
    /\ Serve(h)
    /\ IF a.status = 200 /\ a.count >= bufSize
       THEN \/ flushed' = "ok" /\ f_pos' = ResetPos(pos) /\ buf' = Filled(buf, a.first, bufSize)
            \/ \E k \in Index : flushed' = "failed" /\ f_pos' = pos /\ buf' = Filled(buf, a.first, k)
       ELSE flushed' = "failed" /\ f_pos' = pos /\ buf' = Filled(buf, a.first, a.count)

flushBuffer(offset, pos) == Lost(pos) \/ Answered(offset, pos)

(***************************************************************************)
(* Open: the driver has its link and fills the buffer for the first time.  *)
(***************************************************************************)
Init ==
    /\ size \in FileSize
    /\ f_offset = 0 /\ f_pos = 0 /\ buf = Empty
    /\ flushed = "new"
    /\ OpenCount = 0
    /\ reply = [header |-> NoHeader, answer |-> Download(NoHeader, size)]

Open ==
    /\ flushed = "new"
    /\ flushBuffer(f_offset, f_pos)
    /\ UNCHANGED <<size, f_offset>>

(***************************************************************************)
(* Seek.  f_size is never set, so SeekEnd goes to offset 0.                *)
(***************************************************************************)
SeekStart(offset)   == offset
SeekCurrent(offset) == f_offset + offset
SeekEnd             == 0

SeekTo(offset) ==
    /\ flushed # "new"
    /\ f_offset' = offset
    /\ flushBuffer(offset, f_pos)
    /\ UNCHANGED size

Offset == -1 .. MaxOffset

Seek ==
    \/ SeekTo(SeekEnd)
    \/ \E offset \in Offset : SeekTo(SeekStart(offset))
    \/ \E offset \in Offset : SeekCurrent(offset) \in Offset /\ SeekTo(SeekCurrent(offset))

(***************************************************************************)
(* Read takes everything that is left in the buffer, whatever the length   *)
(* of p, and always ends up past three quarters of it.  The bytes go to a  *)
(* bytes.Buffer behind p and Read returns 0: the model has what it takes,  *)
(* not what the caller sees.                                               *)
(***************************************************************************)
WholeLength == bufSize
Taken == bufSize - f_pos

Read ==
    /\ flushed # "new"
    /\ f_offset + Taken <= MaxOffset
    /\ f_offset' = f_offset + Taken
    /\ flushBuffer(f_offset + Taken, f_pos + Taken)
    /\ UNCHANGED size

(***************************************************************************)
(* Another client asks the node for the file: the driver and the others    *)
(* share nothing but OpenCount, so this comes before Open.                 *)
(***************************************************************************)
OtherDownload(h) ==
    /\ flushed = "new"
    /\ Serve(h)
    /\ UNCHANGED <<size, f_offset, f_pos, buf, flushed>>

Next == Open \/ Seek \/ Read \/ \E h \in Asked : OtherDownload(h)

Spec == Init /\ [][Next]_vars
-----------------------------------------------------------------------------
(***************************************************************************)
(* Properties.                                                             *)
(***************************************************************************)
\* Every variable keeps its shape, and f_pos stays within the buffer, which Read
\* slices with it.
TypeOK ==
    /\ size \in FileSize
    /\ f_offset \in Offset /\ f_pos \in 0 .. bufSize
    /\ buf \in [Index -> Nat \cup {Zero}]
    /\ flushed \in {"new", "ok", "failed"}
    /\ OpenCount \in Nat

\* After a flush that was not refused, lost or broken off, the next Read gets a
\* whole buffer of the file from f_offset on, although the node sends a byte too
\* many and several seeks and reads may have failed before.
BufferAtOffset ==
    flushed = "ok" =>
        \A j \in Index : /\ f_pos + j \in Index
                        /\ buf[f_pos + j] = f_offset + j
                        /\ f_offset + j < size

\* The bytes a part asks for, in the words of HTTP: all of them exist, and a
\* suffix longer than the file is the whole file.
FirstByte(p) ==
    IF p.kind # "suffix" THEN p.first ELSE IF p.last < size THEN size - p.last ELSE 0
LastByte(p)  == IF p.kind = "closed" /\ p.last < size THEN p.last ELSE size - 1

\* An accepted range is answered with the bytes the client asked for, in their
\* place, and at most one more: the stored end is already past the last byte when
\* Content-Length and CopyN add one to it.  When the range ends with the file that
\* byte is announced and never sent.
AcceptedServed ==
    LET a == reply.answer
        p == reply.header[1]
        n == LastByte(p) - FirstByte(p) + 1
    IN  reply.header # NoHeader /\ a.status = 200 =>
            /\ a.first = FirstByte(p)
            /\ a.count \in {n, n + 1}
            /\ a.declared = a.count \/ (a.declared = n + 1 /\ LastByte(p) = size - 1)

\* No header makes Download send what is not in the file, and one whose first
\* range does not exist is refused.
NothingBeyondFile ==
    LET a == reply.answer IN
    /\ a.first >= 0 /\ a.count >= 0 /\ a.first + a.count <= size
    /\ reply.header # NoHeader /\ FirstByte(reply.header[1]) >= size => a.status = 500

\* What Download does with a Range header: it refuses one that starts beyond the
\* file, answers others with their bytes and at most one more, and never sends
\* what is not in the file.
RangeServed == AcceptedServed /\ NothingBeyondFile

\* The driver leaves a reader counted on the node, which then refuses to delete
\* the file, only by asking for a stretch that is not wholly in the file: never
\* for a last buffer that fits exactly.
LeaksOnlyAtEnd ==
    [][OpenCount' # OpenCount /\ flushed # "new" =>
          f_offset' < 0 \/ f_offset' + bufSize > size]_vars
=============================================================================
