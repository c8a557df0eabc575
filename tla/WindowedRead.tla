---------------------------- MODULE WindowedRead ----------------------------
(***************************************************************************)
(* One call of windowedRead (src/recordings/sftp-windowed-read.ts): the    *)
(* bytes Start..End of a remote file are fetched by up to Window chunk     *)
(* reads at a time over SFTP and written to a Writable in order.           *)
(*                                                                         *)
(* Every callback of the code runs to completion on the one JavaScript     *)
(* thread, so each is one action: the reply to open, the reply to a chunk  *)
(* read, and the sink's drain, close and error events. The order in which  *)
(* those callbacks arrive is arbitrary.                                    *)
(*                                                                         *)
(* Offsets: the code's offsets step from one chunk to the next, so         *)
(* nextOffset and emitOffset are kept as chunk numbers; Offset(c) is the   *)
(* byte offset. A buffer is the sequence of file positions it was filled   *)
(* from, so a byte read from, or written to, the wrong place shows.        *)
(***************************************************************************)
EXTENDS Integers, FiniteSets, Sequences

CONSTANTS
  Start, End,      \* the requested span, inclusive; End = Start - 1 if empty
  ChunkSize,       \* CHUNK_SIZE
  Window,          \* WINDOW
  SinkMayBeGone    \* may the client have gone before windowedRead is called?

ASSUME SpanAssumption == Start \in Nat /\ End \in Int /\ End >= Start - 1
ASSUME SizeAssumption == ChunkSize \in Nat \ {0} /\ Window \in Nat \ {0}
ASSUME GoneAssumption == SinkMayBeGone \in BOOLEAN

VARIABLES
  handle,         \* "none" (nothing to open), "opening", "open", "failed", "closed"
  nextChunk,      \* nextOffset: the next chunk to request
  emitChunk,      \* emitOffset: the next chunk owed to the sink
  inflight,       \* the code's counter of outstanding chunk reads
  awaitingDrain,  \* the last write returned false and no drain came since
  reading,        \* the chunks whose SFTP read has not been answered
  completed,      \* the keys of the code's map of finished chunks
  buf,            \* the buffer of each chunk, as far as it is filled
  sink,           \* dst: "open", "ended", "closed"; "gone": closed before the call
  out,            \* the buffers written to dst so far
  outcome         \* of the promise: "pending", "resolved" or "rejected"

vars == <<handle, nextChunk, emitChunk, inflight, awaitingDrain, reading,
          completed, buf, sink, out, outcome>>

-----------------------------------------------------------------------------
NumChunks == IF End < Start THEN 0 ELSE (End - Start) \div ChunkSize + 1
Chunks    == 0 .. NumChunks - 1

Offset(c)   == Start + c * ChunkSize

(* Broken: the last chunk is as long as the others. (Broken variants stand  *)
(* before the definition they mutate: each is a plausible bug that one of  *)
(* the properties must catch.)                                             *)
ChunkLenUnclipped(c) == ChunkSize

ChunkLen(c) == IF Offset(c) + ChunkSize <= End + 1 THEN ChunkSize
                                                   ELSE End + 1 - Offset(c)

(* The n file positions from offset o on.                                  *)
Bytes(o, n) == [i \in 1..n |-> o + i - 1]

settled == outcome # "pending"

-----------------------------------------------------------------------------
(* The call itself: the listeners are attached, and an empty span ends the *)
(* sink at once. When the client has already gone, dst has emitted its     *)
(* 'close' before the listener was there: it will not emit it again.       *)
Init ==
  /\ handle = IF NumChunks = 0 THEN "none" ELSE "opening"
  /\ sink \in {IF NumChunks = 0 THEN "ended" ELSE "open"}
              \cup (IF SinkMayBeGone THEN {"gone"} ELSE {})
  /\ nextChunk = 0 /\ emitChunk = 0 /\ inflight = 0
  /\ awaitingDrain = FALSE
  /\ reading = {} /\ completed = {}
  /\ buf = [c \in Chunks |-> <<>>]
  /\ out = <<>>
  /\ outcome = "pending"

(* finish(): settles the promise, drops what was buffered and closes the   *)
(* handle if there is one. The listeners go with it (see the guards).      *)
Finish(result) ==
  /\ outcome' = result
  /\ completed' = {}
  /\ handle' = IF handle = "open" THEN "closed" ELSE handle

(* Broken: "inflight <= WINDOW" in the loop of pump().                     *)
PumpOneTooMany(infl, rd) ==
  LET room == Window - infl + 1
      left == NumChunks - nextChunk
      n    == IF room < left THEN room ELSE left
  IN  /\ nextChunk' = nextChunk + n
      /\ inflight' = infl + n
      /\ reading' = rd \cup (nextChunk .. nextChunk + n - 1)

(* pump(): requests chunks while fewer than Window are outstanding. infl   *)
(* and rd are inflight and reading as the calling handler left them.       *)
Pump(infl, rd) ==
  LET room == Window - infl
      left == NumChunks - nextChunk
      n    == IF room < left THEN room ELSE left
  IN  /\ nextChunk' = nextChunk + n
      /\ inflight' = infl + n
      /\ reading' = rd \cup (nextChunk .. nextChunk + n - 1)

(* Broken: the reply is counted out of inflight a second time.             *)
NoPumpCountsTwice(infl, rd) ==
  /\ inflight' = infl - 1
  /\ reading' = rd
  /\ UNCHANGED nextChunk

NoPump(infl, rd) ==
  /\ inflight' = infl
  /\ reading' = rd
  /\ UNCHANGED nextChunk

(* The loop of emitReady() once it is known that no drain is awaited, when *)
(* it writes k buffers. It stops at the end of the span, at a write that   *)
(* returns false, or at a chunk that is not there yet, and only then       *)
(* pumps. A destroyed dst answers false to the first write.                *)
EmitBuffers(k, done, b, infl, rd) ==
  LET last == emitChunk + k
  IN  /\ emitChunk .. last - 1 \subseteq done
      /\ sink = "gone" => k <= 1
      /\ out' = out \o [i \in 1..k |-> b[emitChunk + i - 1]]
      /\ emitChunk' = last
      /\ completed' = done \ (emitChunk .. last - 1)
      /\ \/ /\ k > 0 /\ last = NumChunks             \* all written: dst.end()
            /\ sink' = IF sink = "gone" THEN "gone" ELSE "ended"
            /\ awaitingDrain' = FALSE
            /\ NoPump(infl, rd)
         \/ /\ k > 0 /\ last < NumChunks             \* the last write said false
            /\ awaitingDrain' = TRUE
            /\ NoPump(infl, rd)
            /\ UNCHANGED sink
         \/ /\ last \notin done /\ last < NumChunks  \* nothing more to write
            /\ sink = "gone" => k = 0
            /\ awaitingDrain' = FALSE
            /\ Pump(infl, rd)
            /\ UNCHANGED sink

EmitReady(done, b, infl, rd) ==
  \E k \in 0 .. Cardinality(done) : EmitBuffers(k, done, b, infl, rd)

-----------------------------------------------------------------------------
(* Replies of the SFTP server.                                             *)

(* Broken: the handle is taken and the pump started without a look at      *)
(* settled.                                                                *)
OpenIgnoresSettled ==
  /\ handle = "opening"
  /\ handle' = "open"
  /\ Pump(inflight, reading)
  /\ UNCHANGED <<emitChunk, awaitingDrain, completed, buf, sink, out, outcome>>

OpenSucceeds ==
  /\ handle = "opening"
  /\ IF settled
       THEN /\ handle' = "closed"
            /\ UNCHANGED <<nextChunk, inflight, reading>>
       ELSE /\ handle' = "open"
            /\ Pump(inflight, reading)
  /\ UNCHANGED <<emitChunk, awaitingDrain, completed, buf, sink, out, outcome>>

OpenFails ==
  /\ handle = "opening"
  /\ handle' = "failed"
  /\ IF settled
       THEN UNCHANGED <<outcome, completed>>
       ELSE outcome' = "rejected" /\ completed' = {}
  /\ UNCHANGED <<nextChunk, emitChunk, inflight, awaitingDrain, reading, buf,
                 sink, out>>

(* Broken: the continuation of a short read starts at the chunk's offset.  *)
FilledFromOffset(c, n) == [buf EXCEPT ![c] = @ \o Bytes(Offset(c), n)]

(* n bytes of chunk c arrive, at the position after what is already there. *)
Filled(c, n) ==
  [buf EXCEPT ![c] = @ \o Bytes(Offset(c) + Len(@), n)]

(* A short read: the rest of the chunk is requested by another read.       *)
ReadShort(c) ==
  /\ ~settled
  /\ c \in reading
  /\ \E n \in 1 .. ChunkLen(c) - Len(buf[c]) - 1 : buf' = Filled(c, n)
  /\ UNCHANGED <<handle, nextChunk, emitChunk, inflight, awaitingDrain,
                 reading, completed, sink, out, outcome>>

(* The read that fills the chunk.                                          *)
ReadCompletes(c) ==
  /\ ~settled
  /\ c \in reading
  /\ LET done == completed \cup {c}
         rest == reading \ {c}
     IN  /\ buf' = Filled(c, ChunkLen(c) - Len(buf[c]))
         /\ IF awaitingDrain
              THEN /\ completed' = done
                   /\ NoPump(inflight - 1, rest)
                   /\ UNCHANGED <<emitChunk, awaitingDrain, sink, out>>
              ELSE EmitReady(done, buf', inflight - 1, rest)
  /\ UNCHANGED <<handle, outcome>>

(* Broken: the error of a read is swallowed, finish() without it.          *)
ReadErrorSwallowed(c) ==
  /\ ~settled
  /\ c \in reading
  /\ reading' = reading \ {c}
  /\ Finish("resolved")
  /\ UNCHANGED <<nextChunk, emitChunk, inflight, awaitingDrain, buf, sink, out>>

(* An error, or no byte at all: the file is shorter than the span.         *)
ReadFails(c) ==
  /\ ~settled
  /\ c \in reading
  /\ reading' = reading \ {c}
  /\ Finish("rejected")
  /\ UNCHANGED <<nextChunk, emitChunk, inflight, awaitingDrain, buf, sink, out>>

(* A reply that comes after the promise has settled is dropped.            *)
ReadIgnored(c) ==
  /\ settled
  /\ c \in reading
  /\ reading' = reading \ {c}
  /\ UNCHANGED <<handle, nextChunk, emitChunk, inflight, awaitingDrain,
                 completed, buf, sink, out, outcome>>

ReadReply(c) == ReadShort(c) \/ ReadCompletes(c) \/ ReadFails(c) \/ ReadIgnored(c)

-----------------------------------------------------------------------------
(* Events of the sink.                                                     *)

(* Broken: onDrain clears awaitingDrain but does not call emitReady().     *)
DrainForgetsToEmit ==
  /\ ~settled /\ awaitingDrain /\ sink = "open"
  /\ awaitingDrain' = FALSE
  /\ UNCHANGED <<handle, nextChunk, emitChunk, inflight, reading, completed,
                 buf, sink, out, outcome>>

SinkDrains ==
  /\ ~settled
  /\ awaitingDrain
  /\ sink = "open"
  /\ EmitReady(completed, buf, inflight, reading)
  /\ UNCHANGED <<handle, buf, outcome>>

Close ==
  /\ sink' = "closed"
  /\ IF settled THEN UNCHANGED <<outcome, completed, handle>>
                ELSE Finish("resolved")
  /\ UNCHANGED <<nextChunk, emitChunk, inflight, awaitingDrain, reading, buf, out>>

SinkAborts   == sink = "open"  /\ Close    \* the client goes away
SinkFinishes == sink = "ended" /\ Close    \* everything was flushed

SinkErrors ==
  /\ sink \in {"open", "ended"}
  /\ ~settled
  /\ sink' = "closed"
  /\ Finish("rejected")
  /\ UNCHANGED <<nextChunk, emitChunk, inflight, awaitingDrain, reading, buf, out>>

-----------------------------------------------------------------------------
OpenReply == OpenSucceeds \/ OpenFails

Next == \/ OpenReply
        \/ \E c \in Chunks : ReadReply(c)
        \/ SinkDrains \/ SinkAborts \/ SinkFinishes \/ SinkErrors

Spec == Init /\ [][Next]_vars

(* The server answers every request, and a client that stays connected     *)
(* takes what it was sent. Nothing makes a client go away.                 *)
SourceFairness == /\ WF_vars(OpenReply)
                  /\ \A c \in Chunks : WF_vars(ReadReply(c))
SinkFairness   == WF_vars(SinkDrains) /\ WF_vars(SinkFinishes)

FairSpec == Spec /\ SourceFairness /\ SinkFairness

-----------------------------------------------------------------------------
TypeOK ==
  /\ handle \in {"none", "opening", "open", "failed", "closed"}
  /\ nextChunk \in Nat /\ emitChunk \in Nat /\ inflight \in Nat
  /\ awaitingDrain \in BOOLEAN
  /\ reading \subseteq Chunks /\ completed \subseteq Chunks
  /\ buf \in [Chunks -> Seq(Int)]
  /\ sink \in {"open", "ended", "closed", "gone"}
  /\ out \in Seq(Seq(Int))
  /\ outcome \in {"pending", "resolved", "rejected"}

(* The buffers the requested span consists of.                             *)
Content == [i \in 1..NumChunks |-> Bytes(Offset(i - 1), ChunkLen(i - 1))]

(* Whatever the order of the replies, however short the reads, and         *)
(* wherever backpressure interrupts the loop of emitReady, what dst has    *)
(* received is a prefix of the span, every byte once and in its place.     *)
InOrder == out = SubSeq(Content, 1, Len(out))

(* The window is accounted for: while the call is pending, inflight is the *)
(* number of reads the server owes an answer, never more than Window, and  *)
(* every chunk between the two cursors is either outstanding or buffered,  *)
(* so none is requested twice or lost.                                     *)
WindowAccounted ==
  ~settled => /\ inflight = Cardinality(reading)
              /\ inflight <= Window
              /\ reading \cap completed = {}
              /\ reading \cup completed = emitChunk .. nextChunk - 1

(* While bytes are owed to a sink that takes them, some read is            *)
(* outstanding: no order of callbacks leaves the pump with nothing to wake *)
(* it up.                                                                  *)
NeverIdle ==
  ~settled /\ handle = "open" /\ emitChunk < NumChunks /\ ~awaitingDrain
    => reading # {}

(* finish() is final: after it the outcome stays, nothing is written, no   *)
(* read is issued, and the remote handle is not left open, even when the   *)
(* reply to open comes after it.                                           *)
QuietOnceSettled ==
  [][settled => /\ outcome' = outcome /\ out' = out
                /\ reading' \subseteq reading /\ buf' = buf
                /\ handle' # "open"]_vars

(* "Settles as soon as either side terminates [...] dst close (client      *)
(* abort) -- never depends on the client's cooperation" (the comment on    *)
(* windowedRead), as a property of a sink that has closed.                 *)
SettlesOnceSinkIsClosed == sink \in {"closed", "gone"} ~> settled

-----------------------------------------------------------------------------
(* The call implements an ordered stream. A sink that was gone before the  *)
(* call looks, to the reader, like one that is open until its end().       *)
Stream == INSTANCE OrderedStream WITH
            received <- out,
            sink <- IF sink # "gone" THEN sink
                    ELSE IF Len(out) = NumChunks THEN "ended" ELSE "open"

ImplementsOrderedStream == Stream!Spec
=============================================================================
