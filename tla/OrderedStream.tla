--------------------------- MODULE OrderedStream ---------------------------
(***************************************************************************)
(* What a reader of a byte range promises to whoever called it, with no    *)
(* mention of windows, chunk requests or callbacks: the pieces of the      *)
(* range reach the sink in order, each exactly once; the sink is ended     *)
(* exactly when the last piece has been written; the call settles once,    *)
(* and writes nothing after it has settled.                                *)
(***************************************************************************)
EXTENDS Naturals, Sequences

CONSTANT Content          \* the pieces of the requested range, in order

VARIABLES received,       \* the pieces the sink has been given
          sink,           \* "open", "ended" (end() was called) or "closed"
          outcome         \* "pending", "resolved" or "rejected"

vars == <<received, sink, outcome>>

Total == Len(Content)

AfterWriting(n) == IF n = Total THEN "ended" ELSE "open"

Init == /\ received = <<>>
        /\ sink = AfterWriting(0)
        /\ outcome = "pending"

(* The next n pieces are written; writing the last one ends the sink.      *)
Deliver(n) == /\ outcome = "pending"
              /\ sink = "open"
              /\ received' = SubSeq(Content, 1, Len(received) + n)
              /\ sink' = AfterWriting(Len(received) + n)
              /\ UNCHANGED outcome

(* The sink has closed, after its end or because the client went away.     *)
Resolve == /\ outcome = "pending"
           /\ sink # "closed"
           /\ sink' = "closed"
           /\ outcome' = "resolved"
           /\ UNCHANGED received

(* Either side failed.                                                     *)
Reject == /\ outcome = "pending"
          /\ sink' \in {sink, "closed"}
          /\ outcome' = "rejected"
          /\ UNCHANGED received

(* A sink that was still open when the call was rejected closes later.     *)
CloseLate == /\ outcome = "rejected"
             /\ sink' = "closed"
             /\ UNCHANGED <<received, outcome>>

Next == \/ \E n \in 1..(Total - Len(received)) : Deliver(n)
        \/ Resolve
        \/ Reject
        \/ CloseLate

Spec == Init /\ [][Next]_vars
=============================================================================
