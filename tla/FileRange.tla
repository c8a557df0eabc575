----------------------------- MODULE FileRange -----------------------------
(***************************************************************************)
(* The Range header of GET file: parseRange, and the status, the length    *)
(* and the span of the file that RecordingsController.file makes of it     *)
(* (src/recordings/recordings.controller.ts).                              *)
(*                                                                         *)
(* A header "bytes=first-last" is a record of two numbers, either of which *)
(* may be blank. Both are blank in one that does not parse and when there  *)
(* is none. Numbers are exact: files are smaller than 2^53 bytes.          *)
(***************************************************************************)
EXTENDS Integers, FiniteSets

Blank      == -1
Headers(N) == [first : N \cup {Blank}, last : N \cup {Blank}]
NoRange    == [first |-> Blank, last |-> Blank]

(* Broken: the last byte of the file has the number size.                  *)
ClippedToSize(h, size) ==
  IF h.first = Blank \/ h.last = Blank \/ h.last > size THEN size ELSE h.last

(* The last position, no further than the end of the file.                 *)
Clipped(h, size) ==
  IF h.first = Blank \/ h.last = Blank \/ h.last >= size THEN size - 1 ELSE h.last

(* "bytes=-n" asks for the last n bytes.                                   *)
First(h, size) ==
  IF h.first # Blank THEN h.first
  ELSE IF size > h.last THEN size - h.last ELSE 0

Unsatisfiable(h, size) ==
  \/ h.first = Blank /\ h.last = 0
  \/ First(h, size) > Clipped(h, size) \/ First(h, size) >= size

(* The answer: its status and Content-Length, and the span to be streamed. *)
Answer(h, size) ==
  IF h = NoRange
    THEN [status |-> 200, length |-> size, start |-> 0, end |-> size - 1]
  ELSE IF Unsatisfiable(h, size)
    THEN [status |-> 416, length |-> 0, start |-> 0, end |-> -1]
  ELSE LET start == First(h, size) end == Clipped(h, size)
       IN  [status |-> 206, length |-> end - start + 1, start |-> start, end |-> end]

-----------------------------------------------------------------------------
(* The positions a header names, of those there are.                       *)
Asked(h, size) ==
  {p \in 0 .. size - 1 :
     IF h.first = Blank THEN h = NoRange \/ p >= size - h.last
     ELSE h.first <= p /\ (h.last = Blank \/ p <= h.last)}

(* The span streamed is what was asked for and there is, the length        *)
(* announced is the span's, and 416 says that no byte is named.            *)
Exact(h, size) ==
  LET a == Answer(h, size)
  IN  /\ a.status = 416 <=> h # NoRange /\ Asked(h, size) = {}
      /\ a.start .. a.end = Asked(h, size)
      /\ a.length = Cardinality(Asked(h, size))
=============================================================================
