------------------------------- MODULE Ranges -------------------------------
(***************************************************************************)
(* Range headers: ParseRange (router/context.go) and the part of Download  *)
(* (router/node.go) that answers with a stretch of the file.               *)
(*                                                                         *)
(* A header is a sequence of the parts between its commas, each of which   *)
(* is first- (or first alone), -last, first-last or something that does    *)
(* not parse.  Numbers in a part have no sign: a minus sign would be taken *)
(* for the separator.  A header without the prefix "bytes=" does not parse *)
(* as a whole, and one shorter than the prefix panics on the slice, which  *)
(* ends the request in the same place; both are a part that does not parse.*)
(***************************************************************************)
EXTENDS Integers, Sequences

From(a)      == [kind |-> "from", first |-> a, last |-> 0]
Suffix(n)    == [kind |-> "suffix", first |-> 0, last |-> n]
Closed(a, b) == [kind |-> "closed", first |-> a, last |-> b]
Garbage      == [kind |-> "garbage", first |-> 0, last |-> 0]
NoHeader     == << >>

Part == [kind : {"from", "suffix", "closed", "garbage"}, first : Nat, last : Nat]

(***************************************************************************)
(* One part: where the stretch starts and ends in a file of a size.  The   *)
(* end that is stored is one past the last byte.                           *)
(***************************************************************************)
OneBefore(p, size) == IF p.kind = "suffix" THEN size - p.last - 1 ELSE p.first
StartOf(p, size) == IF p.kind = "suffix" THEN size - p.last ELSE p.first
EndOf(p, size)   == IF p.kind = "closed" THEN p.last ELSE size - 1

Rejected(p, size) ==
    \/ p.kind = "garbage"
    \/ p.kind = "closed" /\ p.last < p.first
    \/ StartOf(p, size) >= size
    \/ EndOf(p, size) >= size

ParseRange(h, size) ==
    [ok     |-> \A i \in DOMAIN h : ~Rejected(h[i], size),
     ranges |-> [i \in DOMAIN h |-> [Start |-> StartOf(h[i], size),
                                     End   |-> EndOf(h[i], size) + 1]]]

(***************************************************************************)
(* Download after Get: what is answered, the Content-Length it announces,  *)
(* the bytes first .. first + count - 1 it sends, and whether the reader   *)
(* is counted out.  Only the first range is served.  The status 206 is set *)
(* in the context and never written, so a range is answered with 200.  A   *)
(* start before the file makes Seek fail.                                  *)
(***************************************************************************)
Failed(countedOut) ==
    [status |-> 500, first |-> 0, count |-> 0, declared |-> 0, countedOut |-> countedOut]

ContentLength(r) == r.End - r.Start + 1

Download(h, size) ==
    LET parsed == ParseRange(h, size)
        r      == parsed.ranges[1]
        n      == ContentLength(r)
    IN
    IF h = NoHeader
    THEN [status |-> 200, first |-> 0, count |-> size, declared |-> size, countedOut |-> TRUE]
    ELSE IF ~parsed.ok THEN Failed(FALSE)
    ELSE IF r.Start < 0 THEN Failed(TRUE)
    ELSE [status |-> 200, first |-> r.Start, declared |-> n, countedOut |-> TRUE,
          count |-> IF r.Start + n <= size THEN n ELSE size - r.Start]
=============================================================================
