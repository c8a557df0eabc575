------------------------- MODULE FileRequestProofs --------------------------
(***************************************************************************)
(* Theorems about GET file: about windowedRead for every span, chunk size  *)
(* and window, about parseRange for every size and Range header, about     *)
(* resolveSafe and relJoin for every path, and about the endpoint that     *)
(* puts them together.                                                     *)
(*                                                                         *)
(* A path is walked, and a body put together, in as many steps as it has   *)
(* parts. Induction over these is by the least counterexample (Least),     *)
(* which Induction and RecursionExists wrap up.                            *)
(***************************************************************************)
EXTENDS FileRequest, FiniteSetTheorems, SequenceTheorems, WellFoundedInduction, TLAPS

-----------------------------------------------------------------------------
(* Induction up to a number, for a set in place of a predicate, and the    *)
(* existence of what is defined by recursion up to a number.               *)

LEMMA Least ==
  ASSUME NEW T, T \subseteq Nat, T # {}
  PROVE  \E n \in T : \A m \in T : n <= m
<1> DEFINE R == {ss \in Nat \X Nat : ss[1] < ss[2]}
<1>1. IsWellFoundedOn(R, Nat)
  BY NatLessThanWellFounded DEF OpToRel
<1>2. \E n \in T : \A m \in T : ~ (<<m, n>> \in R)
  <2> HIDE DEF R
  <2> QED BY <1>1, WFMin, Zenon
<1>3. ASSUME NEW n \in T, NEW m \in T, ~ (<<m, n>> \in R)
      PROVE n <= m
  BY <1>3
<1> HIDE DEF R
<1> QED BY <1>2, <1>3

(* Induction up to n, for a set in place of a predicate.                   *)
LEMMA Induction ==
  ASSUME NEW n \in Nat, NEW Good, 0 \in Good,
         \A k \in 0..n-1 : k \in Good => k + 1 \in Good
  PROVE  \A k \in 0..n : k \in Good
<1> DEFINE Bad == (0..n) \ Good
<1> SUFFICES ASSUME Bad # {} PROVE FALSE
  OBVIOUS
<1>1. Bad \subseteq Nat
  OBVIOUS
<1>2. PICK k \in Bad : \A m \in Bad : k <= m
  <2> HIDE DEF Bad
  <2> QED BY <1>1, Least
<1>3. k \in 0..n /\ k \notin Good /\ k # 0
  BY <1>2
<1>4. k - 1 \in 0..n-1 /\ k - 1 \notin Bad
  BY <1>2, <1>3
<1>5. k - 1 \in Good /\ (k - 1) + 1 = k
  BY <1>4
<1> QED BY <1>3, <1>4, <1>5

(* f is defined by recursion from b on, up to n.                           *)
Follows(f, b, n, move) == f[0] = b /\ \A i \in 1..n : f[i] = move[<<i, f[i-1]>>]

LEMMA RecursionExists ==
  ASSUME NEW T, NEW b \in T, NEW n \in Nat, NEW move \in [(1..n) \X T -> T]
  PROVE  \E f \in [0..n -> T] : Follows(f, b, n, move)
<1> DEFINE Good == {k \in 0..n : \E f \in [0..k -> T] : Follows(f, b, k, move)}
<1>1. 0 \in Good
  <2> DEFINE f == [i \in 0..0 |-> b]
  <2>1. f \in [0..0 -> T] /\ Follows(f, b, 0, move)
    BY DEF Follows
  <2> HIDE DEF f
  <2> QED BY <2>1
<1>2. ASSUME NEW k \in 0..n-1, k \in Good PROVE k + 1 \in Good
  <2>1. PICK f \in [0..k -> T] : Follows(f, b, k, move)
    BY <1>2
  <2> DEFINE x == move[<<k+1, f[k]>>]
             g == [i \in 0..k+1 |-> IF i = k + 1 THEN x ELSE f[i]]
  <2>2. x \in T
    <3>1. f[k] \in T /\ k + 1 \in 1..n
      OBVIOUS
    <3> QED BY <3>1
  <2>3. g \in [0..k+1 -> T]
    BY <2>2
  <2>4. g[k+1] = x /\ \A i \in 0..k : g[i] = f[i]
    OBVIOUS
  <2>5. g[0] = b
    BY <2>1, <2>4 DEF Follows
  <2>6. ASSUME NEW i \in 1..k+1 PROVE g[i] = move[<<i, g[i-1]>>]
    <3>1. CASE i = k + 1
      BY <2>4, <3>1
    <3>2. CASE i \in 1..k
      BY <2>1, <2>4, <3>2 DEF Follows
    <3> QED BY <3>1, <3>2
  <2>7. Follows(g, b, k + 1, move)
    BY <2>5, <2>6 DEF Follows
  <2> HIDE DEF g
  <2> QED BY <2>3, <2>7
<1>3. n \in Good
  <2> HIDE DEF Good
  <2> QED BY <1>1, <1>2, Induction
<1> QED BY <1>3

LEMMA Joined ==
  ASSUME NEW S, NEW s \in Seq(S), NEW t \in Seq(S)
  PROVE  /\ s \o t \in Seq(S)
         /\ Len(s \o t) = Len(s) + Len(t)
         /\ \A i \in 1..Len(s) : (s \o t)[i] = s[i]
         /\ \A i \in 1..Len(t) : (s \o t)[Len(s) + i] = t[i]
OBVIOUS

-----------------------------------------------------------------------------
(* The windowed reader.                                                    *)

(* What chunk c must contain.                                              *)
Piece(c) == Bytes(Offset(c), ChunkLen(c))

-----------------------------------------------------------------------------
(* Arithmetic of the chunking. The rest of the module uses only these      *)
(* facts and never opens Offset, ChunkLen or NumChunks.                    *)

LEMMA DivBound ==
  ASSUME NEW n \in Nat, NEW d \in Nat \ {0}
  PROVE  n \div d \in Nat /\ (n \div d) * d <= n /\ n < (n \div d) * d + d
<1> DEFINE q == n \div d
           r == n % d
<1>1. q \in Int /\ r \in 0 .. d - 1
  BY SMT
<1>2. n = d * q + r
  BY SMT
<1>3. q >= 0
  BY <1>1, <1>2, SMT
<1> QED  BY <1>1, <1>2, <1>3, SMT

LEMMA NumChunksNat == NumChunks \in Nat
<1>1. CASE End < Start
  BY <1>1 DEF NumChunks
<1>2. CASE ~(End < Start)
  <2>1. End - Start \in Nat
    BY <1>2, SpanAssumption
  <2>2. (End - Start) \div ChunkSize \in Nat
    BY <2>1, SizeAssumption, DivBound
  <2> QED  BY <1>2, <2>2 DEF NumChunks
<1> QED  BY <1>1, <1>2

LEMMA IntervalCardinality ==
  ASSUME NEW a \in Nat, NEW n \in Nat
  PROVE  IsFiniteSet(a .. a + n - 1) /\ Cardinality(a .. a + n - 1) = n
<1> DEFINE z == a + n - 1
<1>1. a \in Int /\ z \in Int
  OBVIOUS
<1>2. IsFiniteSet(a .. z) /\ Cardinality(a .. z) = IF a > z THEN 0 ELSE z - a + 1
  BY <1>1, FS_Interval
<1>3. (IF a > z THEN 0 ELSE z - a + 1) = n
  OBVIOUS
<1> QED  BY <1>2, <1>3

LEMMA FiniteChunks ==
  ASSUME NEW S \in SUBSET Chunks
  PROVE  IsFiniteSet(S)
<1>1. IsFiniteSet(Chunks)
  BY NumChunksNat, FS_Interval DEF Chunks
<1> QED  BY <1>1, FS_Subset

LEMMA ChunkTypes ==
  ASSUME NEW c \in Chunks
  PROVE  Offset(c) \in Int /\ ChunkLen(c) \in Nat
<1>1. c \in Nat /\ c <= NumChunks - 1 /\ ~(End < Start)
  BY NumChunksNat DEF Chunks, NumChunks
<1>2. End - Start \in Nat
  BY <1>1, SpanAssumption
<1> DEFINE q == (End - Start) \div ChunkSize
<1>3. q \in Nat /\ q * ChunkSize <= End - Start
  BY <1>2, SizeAssumption, DivBound
<1>4. c <= q
  BY <1>1, <1>3 DEF NumChunks
<1> HIDE DEF q
<1>5. c * ChunkSize \in Nat /\ q * ChunkSize \in Nat /\ c * ChunkSize <= q * ChunkSize
  BY <1>1, <1>3, <1>4, SizeAssumption, SMT
<1> QED  BY <1>3, <1>5, SpanAssumption, SizeAssumption DEF Offset, ChunkLen

LEMMA Concat ==
  ASSUME NEW S, NEW s \in Seq(S), NEW t \in Seq(S)
  PROVE  /\ s \o t \in Seq(S)
         /\ Len(s \o t) = Len(s) + Len(t)
         /\ \A i \in 1 .. Len(s) + Len(t) :
              (s \o t)[i] = IF i <= Len(s) THEN s[i] ELSE t[i - Len(s)]
OBVIOUS

LEMMA BytesType ==
  ASSUME NEW o \in Int, NEW n \in Nat
  PROVE  Bytes(o, n) \in Seq(Int) /\ Len(Bytes(o, n)) = n
BY DEF Bytes

(* Reading on from where a buffer ends extends it by the bytes that follow. *)
LEMMA BytesConcat ==
  ASSUME NEW o \in Int, NEW m \in Nat, NEW n \in Nat
  PROVE  Bytes(o, m) \o Bytes(o + m, n) = Bytes(o, m + n)
BY DEF Bytes

-----------------------------------------------------------------------------
(* The inductive invariant.                                                *)

(* What dst holds is the first emitChunk pieces of the span.               *)
Emitted ==
  /\ emitChunk <= nextChunk /\ nextChunk <= NumChunks
  /\ Len(out) = emitChunk
  /\ \A i \in 1..emitChunk : out[i] = Piece(i - 1)

(* A buffer is filled from the start of its chunk on, and completely once  *)
(* its chunk is in completed.                                              *)
Filling ==
  /\ \A c \in Chunks : /\ Len(buf[c]) <= ChunkLen(c)
                       /\ buf[c] = Bytes(Offset(c), Len(buf[c]))
  /\ \A c \in completed : buf[c] = Piece(c)

(* The pump and the loop of emitReady have done all they could.            *)
Exhausted ==
  ~settled /\ ~awaitingDrain =>
    /\ emitChunk \notin completed
    /\ handle = "open" => inflight = Window \/ nextChunk = NumChunks

(* How the sink, the handle and the outcome go together.                   *)
Phases ==
  /\ settled => handle # "open"
  /\ outcome = "resolved" => sink = "closed"
  /\ ~settled => /\ sink # "closed"
                 /\ sink = "ended" => emitChunk = NumChunks
                 /\ sink = "open" => emitChunk # NumChunks

IInv == TypeOK /\ Emitted /\ Filling /\ WindowAccounted /\ Exhausted /\ Phases

-----------------------------------------------------------------------------
(* The two helpers that move the cursors.                                  *)

LEMMA PumpStep ==
  ASSUME NEW infl \in Nat, NEW rd \in SUBSET Chunks,
         infl = Cardinality(rd), infl <= Window,
         nextChunk \in Nat, nextChunk <= NumChunks,
         \A c \in rd : c < nextChunk,
         Pump(infl, rd)
  PROVE  /\ nextChunk' \in Nat /\ nextChunk <= nextChunk' /\ nextChunk' <= NumChunks
         /\ reading' = rd \cup (nextChunk .. nextChunk' - 1)
         /\ reading' \subseteq Chunks
         /\ inflight' \in Nat /\ inflight' = Cardinality(reading')
         /\ inflight' <= Window
         /\ inflight' = Window \/ nextChunk' = NumChunks
<1> DEFINE room == Window - infl
           left == NumChunks - nextChunk
           n    == IF room < left THEN room ELSE left
           new  == nextChunk .. nextChunk + n - 1
<1>1. n \in Nat /\ n <= room /\ n <= left /\ (n = room \/ n = left)
  BY NumChunksNat, SizeAssumption
<1>2. nextChunk' = nextChunk + n /\ inflight' = infl + n /\ reading' = rd \cup new
  BY DEF Pump
<1> HIDE DEF n
<1>3. IsFiniteSet(rd)
  BY FiniteChunks
<1>4. IsFiniteSet(new) /\ Cardinality(new) = n
  BY <1>1, IntervalCardinality
<1>5. rd \cap new = {}
  OBVIOUS
<1> HIDE DEF new
<1>6. Cardinality(rd \cup new) = infl + n
  <2>1. Cardinality(rd \cup new)
          = Cardinality(rd) + Cardinality(new) - Cardinality(rd \cap new)
    BY <1>3, <1>4, FS_Union
  <2> QED  BY <1>1, <1>4, <1>5, <2>1, FS_EmptySet
<1> USE DEF new
<1>7. new \subseteq Chunks
  BY <1>1, NumChunksNat DEF Chunks
<1> QED  BY <1>1, <1>2, <1>6, <1>7, NumChunksNat, SizeAssumption

(* The loop of emitReady, from any handler that has a chunk set done and a *)
(* read set rd that tile the space between the cursors.                    *)
LEMMA EmitStep ==
  ASSUME NEW done \in SUBSET Chunks, NEW rd \in SUBSET Chunks,
         NEW infl \in Nat, NEW b \in [Chunks -> Seq(Int)],
         TypeOK, Emitted, ~settled, sink # "closed",
         sink = "ended" => emitChunk = NumChunks,
         infl = Cardinality(rd), infl <= Window,
         done \cap rd = {}, done \cup rd = emitChunk .. nextChunk - 1,
         \A c \in done : b[c] = Piece(c),
         emitChunk < NumChunks,
         EmitReady(done, b, infl, rd)
  PROVE  /\ nextChunk' \in Nat /\ emitChunk' \in Nat /\ inflight' \in Nat
         /\ awaitingDrain' \in BOOLEAN
         /\ reading' \subseteq Chunks /\ completed' \subseteq done
         /\ sink' \in {sink, "ended"} /\ out' \in Seq(Seq(Int))
         /\ Emitted'
         /\ inflight' = Cardinality(reading') /\ inflight' <= Window
         /\ reading' \cap completed' = {}
         /\ reading' \cup completed' = emitChunk' .. nextChunk' - 1
         /\ ~awaitingDrain' => /\ emitChunk' \notin completed'
                               /\ inflight' = Window \/ nextChunk' = NumChunks
         /\ sink' = "ended" => emitChunk' = NumChunks
         /\ sink' = "open" => emitChunk' # NumChunks
         /\ emitChunk <= emitChunk'
         /\ sink = "open" /\ emitChunk' = NumChunks => sink' = "ended"
         /\ sink = "gone" => sink' = "gone"
<1>1. PICK k \in 0 .. Cardinality(done) : EmitBuffers(k, done, b, infl, rd)
  BY DEF EmitReady
<1> DEFINE last == emitChunk + k
           written == emitChunk .. last - 1
<1>2. /\ emitChunk \in Nat /\ nextChunk \in Nat /\ NumChunks \in Nat
      /\ emitChunk <= nextChunk /\ nextChunk <= NumChunks
      /\ Len(out) = emitChunk /\ out \in Seq(Seq(Int))
  BY NumChunksNat DEF TypeOK, Emitted
<1>3. k \in Nat /\ written \subseteq done /\ emitChunk' = last
      /\ completed' = done \ written
  <2>1. IsFiniteSet(done)
    BY FiniteChunks
  <2>2. Cardinality(done) \in Nat
    BY <2>1, FS_CardinalityType
  <2> QED  BY <1>1, <2>2 DEF EmitBuffers
<1>4. last <= nextChunk
  <2>1. CASE k = 0
    BY <1>2, <2>1
  <2>2. CASE k > 0
    <3>1. last - 1 \in written
      BY <1>2, <1>3, <2>2
    <3>2. written \subseteq emitChunk .. nextChunk - 1
      BY <1>3
    <3>3. last - 1 \in emitChunk .. nextChunk - 1
      BY <3>1, <3>2
    <3> QED  BY <3>3, <1>2, <1>3
  <2> QED  BY <1>3, <2>1, <2>2
<1>5. out' = out \o [i \in 1..k |-> b[emitChunk + i - 1]]
  BY <1>1 DEF EmitBuffers
<1>6. /\ out' \in Seq(Seq(Int)) /\ Len(out') = last
      /\ \A i \in 1..last : out'[i] = Piece(i - 1)
  <2> DEFINE more == [i \in 1..k |-> b[emitChunk + i - 1]]
  <2>1. \A i \in 1..k : emitChunk + i - 1 \in done
    BY <1>2, <1>3
  <2>2. more \in Seq(Seq(Int)) /\ Len(more) = k
    BY <1>3, <2>1
  <2>3. \A i \in 1..k : more[i] = Piece(emitChunk + i - 1)
    BY <1>3, <2>1
  <2>0. out' = out \o more
    BY <1>5
  <2> HIDE DEF more
  <2>4. /\ out' \in Seq(Seq(Int)) /\ Len(out') = last
        /\ \A i \in 1..last :
             out'[i] = IF i <= emitChunk THEN out[i] ELSE more[i - emitChunk]
    <3>1. out \in Seq(Seq(Int)) /\ more \in Seq(Seq(Int))
      BY <1>2, <2>2
    <3>2. /\ out \o more \in Seq(Seq(Int))
          /\ Len(out \o more) = Len(out) + Len(more)
          /\ \A i \in 1 .. Len(out) + Len(more) :
               (out \o more)[i] = IF i <= Len(out) THEN out[i] ELSE more[i - Len(out)]
      BY <3>1, Concat
    <3>3. Len(out) = emitChunk /\ Len(more) = k
      BY <1>2, <2>2
    <3> QED  BY <2>0, <3>2, <3>3
  <2>5. ASSUME NEW i \in 1..last
        PROVE  out'[i] = Piece(i - 1)
    <3>1. CASE i <= emitChunk
      <4>1. out'[i] = out[i]
        BY <2>4, <3>1
      <4>2. i \in 1..emitChunk
        BY <1>2, <3>1
      <4>3. out[i] = Piece(i - 1)
        BY <4>2 DEF Emitted
      <4> QED  BY <4>1, <4>3
    <3>2. CASE i > emitChunk
      <4>1. i - emitChunk \in 1..k
        BY <1>2, <1>3, <3>2
      <4>2. emitChunk + (i - emitChunk) - 1 = i - 1
        BY <1>2, <1>3
      <4>3. more[i - emitChunk] = Piece(i - 1)
        BY <4>1, <4>2, <2>3
      <4>4. ~(i <= emitChunk)
        BY <3>2, <1>2, <1>3
      <4> QED  BY <4>3, <4>4, <2>4
    <3> QED  BY <1>2, <3>1, <3>2
  <2> QED  BY <2>4, <2>5
<1>7. (done \ written) \cup rd = last .. nextChunk - 1
  <2>1. ASSUME NEW c
        PROVE  c \in (done \ written) \cup rd <=> c \in last .. nextChunk - 1
    <3>1. c \in done \cup rd <=> c \in emitChunk .. nextChunk - 1
      OBVIOUS
    <3>2. c \in rd => c \notin written
      BY <1>3
    <3> QED  BY <1>2, <1>3, <1>4, <3>1, <3>2
  <2> QED  BY <2>1
<1>8. CASE /\ k > 0 /\ NoPump(infl, rd)
           /\ \/ /\ last = NumChunks /\ awaitingDrain' = FALSE
                 /\ sink' = IF sink = "gone" THEN "gone" ELSE "ended"
              \/ last < NumChunks /\ awaitingDrain' = TRUE /\ UNCHANGED sink
  <2>1. nextChunk' = nextChunk /\ inflight' = infl /\ reading' = rd
    BY <1>8 DEF NoPump
  <2>2. last = NumChunks => nextChunk' = NumChunks /\ last \notin completed'
    BY <1>2, <1>3, <1>4, <2>1 DEF Chunks
  <2>3. Emitted'
    BY <1>2, <1>3, <1>4, <1>6, <2>1 DEF Emitted
  <2>4. sink \in {"open", "ended", "gone"}
    BY DEF TypeOK
  <2>5. /\ reading' \cap completed' = {}
        /\ reading' \cup completed' = emitChunk' .. nextChunk' - 1
    BY <1>3, <1>7, <2>1
  <2>6. sink' \in {sink, "ended"} /\ (sink' = "ended" <=> (last = NumChunks /\ sink # "gone"))
    BY <1>2, <1>3, <1>4, <1>8, <2>4
  <2>7. awaitingDrain' \in BOOLEAN /\ (~awaitingDrain' => last = NumChunks)
    BY <1>8, Zenon
  <2>8. /\ sink' = "open" => last # NumChunks
        /\ sink = "open" /\ last = NumChunks => sink' = "ended"
        /\ sink = "gone" => sink' = "gone"
    BY <1>2, <1>3, <1>8
  <2>9. completed' \subseteq done /\ emitChunk' \in Nat /\ emitChunk <= emitChunk'
    BY <1>2, <1>3
  <2> QED  BY <1>2, <1>3, <1>6, <2>1, <2>2, <2>3, <2>5, <2>6, <2>7, <2>8, <2>9, Zenon
<1>9. CASE last \notin done /\ last < NumChunks /\ Pump(infl, rd)
           /\ awaitingDrain' = FALSE /\ UNCHANGED sink
  <2>1. \A c \in rd : c < nextChunk
    BY <1>2
  <2>2. /\ nextChunk' \in Nat /\ nextChunk <= nextChunk' /\ nextChunk' <= NumChunks
        /\ reading' = rd \cup (nextChunk .. nextChunk' - 1)
        /\ reading' \subseteq Chunks
        /\ inflight' \in Nat /\ inflight' = Cardinality(reading')
        /\ inflight' <= Window
        /\ inflight' = Window \/ nextChunk' = NumChunks
    BY <1>2, <1>9, <2>1, PumpStep
  <2>3. Emitted'
    <3>1. emitChunk' = last /\ last <= nextChunk' /\ nextChunk' <= NumChunks
      BY <1>2, <1>3, <1>4, <2>2
    <3> HIDE DEF last
    <3> QED  BY <1>6, <3>1 DEF Emitted
  <2>4. /\ reading' \cup completed' = last .. nextChunk' - 1
        /\ reading' \cap completed' = {}
    <3> DEFINE new == nextChunk .. nextChunk' - 1
    <3>1. reading' = rd \cup new /\ completed' = done \ written
      BY <1>3, <2>2
    <3>2. new \cap done = {}
      BY <1>2
    <3>3. (last .. nextChunk - 1) \cup new = last .. nextChunk' - 1
      BY <1>2, <1>3, <1>4, <2>2
    <3> QED  BY <1>7, <3>1, <3>2, <3>3
  <2>5. sink' = sink /\ sink # "ended" /\ last # NumChunks
    BY <1>2, <1>3, <1>9
  <2>6. emitChunk' = last /\ last \notin completed' /\ completed' \subseteq done
    BY <1>3, <1>9
  <2>7. emitChunk' \in Nat /\ emitChunk <= emitChunk'
    BY <1>2, <1>3
  <2>8. awaitingDrain' \in BOOLEAN
    BY <1>9, Zenon
  <2> QED  BY <1>6, <2>2, <2>3, <2>4, <2>5, <2>6, <2>7, <2>8, Zenon
<1>10. \/ k > 0 /\ last = NumChunks /\ awaitingDrain' = FALSE /\ NoPump(infl, rd)
          /\ sink' = IF sink = "gone" THEN "gone" ELSE "ended"
       \/ k > 0 /\ last < NumChunks /\ awaitingDrain' = TRUE /\ NoPump(infl, rd)
          /\ UNCHANGED sink
       \/ last \notin done /\ last < NumChunks /\ Pump(infl, rd)
          /\ awaitingDrain' = FALSE /\ UNCHANGED sink
  BY <1>1 DEF EmitBuffers
<1> QED  BY <1>8, <1>9, <1>10, Zenon

-----------------------------------------------------------------------------
LEMMA InvInit == Init => IInv
<1> SUFFICES ASSUME Init PROVE IInv
  OBVIOUS
<1> USE NumChunksNat
<1>1. Cardinality({}) = 0
  BY FS_EmptySet
<1>2. TypeOK
  <2>1. handle \in {"none", "opening"} /\ awaitingDrain = FALSE /\ outcome = "pending"
    BY DEF Init
  <2>2. sink \in {"open", "ended", "gone"}
    BY DEF Init
  <2>3. nextChunk = 0 /\ emitChunk = 0 /\ inflight = 0 /\ reading = {} /\ completed = {}
    BY DEF Init
  <2>4. buf \in [Chunks -> Seq(Int)]
    BY DEF Init
  <2>5. out \in Seq(Seq(Int))
    BY DEF Init
  <2> QED  BY <2>1, <2>2, <2>3, <2>4, <2>5 DEF TypeOK
<1>3. Emitted
  BY DEF Init, Emitted
<1>4. Filling
  <2>1. ASSUME NEW c \in Chunks
        PROVE  Len(buf[c]) <= ChunkLen(c) /\ buf[c] = Bytes(Offset(c), Len(buf[c]))
    <3>1. buf[c] = <<>> /\ Len(buf[c]) = 0
      BY DEF Init
    <3>2. Bytes(Offset(c), 0) = <<>>
      BY DEF Bytes
    <3> QED  BY <3>1, <3>2, ChunkTypes
  <2> QED  BY <2>1 DEF Filling, Init
<1>5. WindowAccounted
  BY <1>1, SizeAssumption DEF Init, WindowAccounted
<1>6. Exhausted
  BY DEF Init, Exhausted
<1>7. Phases
  BY DEF Init, Phases, settled
<1> QED  BY <1>2, <1>3, <1>4, <1>5, <1>6, <1>7 DEF IInv

(* Once settled only the late replies and the close of dst remain, and     *)
(* they touch none of the cursors, buffers or written pieces.              *)
LEMMA SettledStep ==
  ASSUME IInv, settled', completed' = {} \/ (settled /\ completed' = completed),
         TypeOK', Phases',
         UNCHANGED <<nextChunk, emitChunk, out, buf>>
  PROVE  IInv'
<1>1. Emitted'
  BY DEF IInv, Emitted
<1>2. completed' \subseteq completed
  OBVIOUS
<1>3. Filling'
  BY <1>2 DEF IInv, Filling
<1>4. WindowAccounted' /\ Exhausted'
  BY DEF WindowAccounted, Exhausted
<1> QED  BY <1>1, <1>3, <1>4 DEF IInv

LEMMA OpenSucceedsInv == ASSUME IInv, OpenSucceeds PROVE IInv'
<1>1. CASE settled
  <2>1. TypeOK'
    BY <1>1 DEF IInv, TypeOK, OpenSucceeds
  <2>2. Phases'
    BY <1>1 DEF IInv, Phases, OpenSucceeds, settled
  <2> QED  BY <1>1, <2>1, <2>2, SettledStep DEF OpenSucceeds, settled
<1>2. CASE ~settled
  <2>1. /\ handle' = "open" /\ Pump(inflight, reading)
        /\ UNCHANGED <<emitChunk, awaitingDrain, completed, buf, sink, out, outcome>>
    BY <1>2 DEF OpenSucceeds
  <2>2. /\ reading \in SUBSET Chunks /\ inflight \in Nat
        /\ nextChunk \in Nat /\ nextChunk <= NumChunks /\ emitChunk \in Nat
        /\ emitChunk <= nextChunk
        /\ inflight = Cardinality(reading) /\ inflight <= Window
        /\ reading \cap completed = {}
        /\ reading \cup completed = emitChunk .. nextChunk - 1
    BY <1>2 DEF IInv, TypeOK, Emitted, WindowAccounted
  <2>3. \A c \in reading : c < nextChunk
    BY <2>2
  <2>4. /\ nextChunk' \in Nat /\ nextChunk <= nextChunk' /\ nextChunk' <= NumChunks
        /\ reading' = reading \cup (nextChunk .. nextChunk' - 1)
        /\ reading' \subseteq Chunks
        /\ inflight' \in Nat /\ inflight' = Cardinality(reading')
        /\ inflight' <= Window
        /\ inflight' = Window \/ nextChunk' = NumChunks
    BY <2>1, <2>2, <2>3, PumpStep
  <2>5. TypeOK'
    BY <2>1, <2>4 DEF IInv, TypeOK
  <2>6. Emitted'
    BY <2>1, <2>2, <2>4, NumChunksNat DEF IInv, Emitted
  <2>7. Filling'
    BY <2>1 DEF IInv, Filling
  <2>8. /\ reading' \cap completed' = {}
        /\ reading' \cup completed' = emitChunk' .. nextChunk' - 1
    BY <2>1, <2>2, <2>4
  <2>9. WindowAccounted'
    BY <2>4, <2>8 DEF WindowAccounted
  <2>10. Exhausted'
    BY <1>2, <2>1, <2>4 DEF IInv, Exhausted, settled
  <2>11. Phases'
    BY <1>2, <2>1 DEF IInv, Phases, settled
  <2> QED  BY <2>5, <2>6, <2>7, <2>9, <2>10, <2>11 DEF IInv
<1> QED  BY <1>1, <1>2

LEMMA OpenFailsInv == ASSUME IInv, OpenFails PROVE IInv'
<1>1. TypeOK'
  BY DEF IInv, TypeOK, OpenFails
<1>2. Phases'
  BY DEF IInv, Phases, OpenFails, settled
<1>3. settled'
  BY DEF OpenFails, settled
<1>4. completed' = {} \/ (settled /\ completed' = completed)
  BY DEF OpenFails
<1> QED  BY <1>1, <1>2, <1>3, <1>4, SettledStep DEF OpenFails

(* A reply extends the buffer of its chunk by the bytes that follow.       *)
LEMMA FilledBuffers ==
  ASSUME IInv, NEW c \in Chunks, NEW n \in Nat,
         n <= ChunkLen(c) - Len(buf[c]), buf' = Filled(c, n)
  PROVE  /\ buf' \in [Chunks -> Seq(Int)]
         /\ \A d \in Chunks : d # c => buf'[d] = buf[d]
         /\ Len(buf'[c]) = Len(buf[c]) + n
         /\ \A d \in Chunks : /\ Len(buf'[d]) <= ChunkLen(d)
                              /\ buf'[d] = Bytes(Offset(d), Len(buf'[d]))
<1> DEFINE m == Len(buf[c])
<1>1. buf \in [Chunks -> Seq(Int)] /\ m \in Nat
  BY DEF IInv, TypeOK
<1>2. Offset(c) \in Int /\ ChunkLen(c) \in Nat
  BY ChunkTypes
<1>3. buf[c] = Bytes(Offset(c), m)
  BY DEF IInv, Filling
<1>4. buf[c] \o Bytes(Offset(c) + m, n) = Bytes(Offset(c), m + n)
  <2> HIDE DEF m
  <2>1. Bytes(Offset(c), m) \o Bytes(Offset(c) + m, n) = Bytes(Offset(c), m + n)
    BY <1>1, <1>2, BytesConcat
  <2> QED  BY <1>3, <2>1
<1>5. buf' = [buf EXCEPT ![c] = Bytes(Offset(c), m + n)]
  BY <1>4 DEF Filled
<1>6. Bytes(Offset(c), m + n) \in Seq(Int) /\ Len(Bytes(Offset(c), m + n)) = m + n
  <2>1. m + n \in Nat
    BY <1>1
  <2> QED  BY <1>2, <2>1, BytesType
<1>7. \A d \in Chunks : d # c => buf'[d] = buf[d]
  BY <1>1, <1>5
<1>8. buf'[c] = Bytes(Offset(c), m + n) /\ Len(buf'[c]) = m + n
  BY <1>1, <1>5, <1>6
<1>9. buf' \in [Chunks -> Seq(Int)]
  BY <1>1, <1>5, <1>6
<1>10. m + n <= ChunkLen(c)
  BY <1>1, <1>2
<1> QED  BY <1>7, <1>8, <1>9, <1>10 DEF IInv, Filling

LEMMA ReadShortInv == ASSUME IInv, NEW c \in Chunks, ReadShort(c) PROVE IInv'
<1>1. ~settled /\ c \in reading
      /\ UNCHANGED <<handle, nextChunk, emitChunk, inflight, awaitingDrain,
                     reading, completed, sink, out, outcome>>
  BY DEF ReadShort
<1>2. PICK n \in 1 .. ChunkLen(c) - Len(buf[c]) - 1 : buf' = Filled(c, n)
  BY DEF ReadShort
<1>3. Len(buf[c]) \in Nat /\ ChunkLen(c) \in Nat
  BY ChunkTypes DEF IInv, TypeOK
<1>4. n \in Nat /\ n <= ChunkLen(c) - Len(buf[c])
  BY <1>2, <1>3
<1>5. /\ buf' \in [Chunks -> Seq(Int)]
      /\ \A d \in Chunks : d # c => buf'[d] = buf[d]
      /\ \A d \in Chunks : /\ Len(buf'[d]) <= ChunkLen(d)
                           /\ buf'[d] = Bytes(Offset(d), Len(buf'[d]))
  BY <1>2, <1>4, FilledBuffers
<1>6. c \notin completed /\ completed \subseteq Chunks
  BY <1>1 DEF IInv, TypeOK, WindowAccounted
<1>7. \A d \in completed : buf'[d] = Piece(d)
  BY <1>5, <1>6 DEF IInv, Filling
<1>8. TypeOK'
  BY <1>1, <1>5 DEF IInv, TypeOK
<1>9. Filling'
  BY <1>1, <1>5, <1>7 DEF Filling
<1>10. Emitted'
  BY <1>1 DEF IInv, Emitted
<1>11. WindowAccounted'
  BY <1>1 DEF IInv, WindowAccounted, settled
<1>12. Exhausted'
  BY <1>1 DEF IInv, Exhausted, settled
<1>13. Phases'
  BY <1>1 DEF IInv, Phases, settled
<1> QED  BY <1>8, <1>9, <1>10, <1>11, <1>12, <1>13 DEF IInv

(* What EmitStep needs and establishes, put together as the invariant.     *)
LEMMA EmitInv ==
  ASSUME IInv, NEW done \in SUBSET Chunks, NEW rd \in SUBSET Chunks,
         NEW infl \in Nat, NEW b \in [Chunks -> Seq(Int)],
         ~settled, infl = Cardinality(rd), infl <= Window,
         done \cap rd = {}, done \cup rd = emitChunk .. nextChunk - 1,
         \A c \in Chunks : /\ Len(b[c]) <= ChunkLen(c)
                           /\ b[c] = Bytes(Offset(c), Len(b[c])),
         \A c \in done : b[c] = Piece(c),
         emitChunk < NumChunks,
         EmitReady(done, b, infl, rd), buf' = b, UNCHANGED <<handle, outcome>>
  PROVE  IInv'
<1>1. /\ nextChunk' \in Nat /\ emitChunk' \in Nat /\ inflight' \in Nat
      /\ awaitingDrain' \in BOOLEAN
      /\ reading' \subseteq Chunks /\ completed' \subseteq done
      /\ sink' \in {sink, "ended"} /\ out' \in Seq(Seq(Int))
      /\ Emitted'
      /\ inflight' = Cardinality(reading') /\ inflight' <= Window
      /\ reading' \cap completed' = {}
      /\ reading' \cup completed' = emitChunk' .. nextChunk' - 1
      /\ ~awaitingDrain' => /\ emitChunk' \notin completed'
                            /\ inflight' = Window \/ nextChunk' = NumChunks
      /\ sink' = "ended" => emitChunk' = NumChunks
      /\ sink' = "open" => emitChunk' # NumChunks
  <2>1. TypeOK /\ Emitted /\ sink # "closed" /\ (sink = "ended" => emitChunk = NumChunks)
    BY DEF IInv, Phases
  <2> QED  BY <2>1, EmitStep
<1>2. ~settled' /\ sink' # "closed"
  BY <1>1 DEF settled, IInv, Phases
<1>3. TypeOK'
  <2>1. completed' \subseteq Chunks
    BY <1>1
  <2>2. sink' \in {"open", "ended", "closed", "gone"}
    BY <1>1 DEF IInv, TypeOK
  <2>3. handle' \in {"none", "opening", "open", "failed", "closed"}
        /\ outcome' \in {"pending", "resolved", "rejected"}
    BY DEF IInv, TypeOK
  <2> QED  BY <1>1, <2>1, <2>2, <2>3, Zenon DEF TypeOK
<1>4. Filling'
  BY <1>1 DEF Filling
<1>5. WindowAccounted'
  BY <1>1 DEF WindowAccounted
<1>6. Exhausted'
  BY <1>1, Zenon DEF Exhausted
<1>7. Phases'
  BY <1>1, <1>2 DEF IInv, Phases, settled
<1> QED  BY <1>1, <1>3, <1>4, <1>5, <1>6, <1>7 DEF IInv

LEMMA ReadCompletesInv == ASSUME IInv, NEW c \in Chunks, ReadCompletes(c) PROVE IInv'
<1> DEFINE done == completed \cup {c}
           rest == reading \ {c}
<1>1. /\ ~settled /\ c \in reading
      /\ buf' = Filled(c, ChunkLen(c) - Len(buf[c]))
      /\ UNCHANGED <<handle, outcome>>
  BY DEF ReadCompletes
<1>2. /\ reading \subseteq Chunks /\ completed \subseteq Chunks /\ inflight \in Nat
      /\ inflight = Cardinality(reading) /\ inflight <= Window
      /\ reading \cap completed = {}
      /\ reading \cup completed = emitChunk .. nextChunk - 1
      /\ emitChunk \in Nat /\ nextChunk \in Nat /\ nextChunk <= NumChunks
  BY <1>1 DEF IInv, TypeOK, WindowAccounted, Emitted
<1>3. Len(buf[c]) \in Nat /\ ChunkLen(c) \in Nat /\ Len(buf[c]) <= ChunkLen(c)
  BY ChunkTypes DEF IInv, TypeOK, Filling
<1>4. ChunkLen(c) - Len(buf[c]) \in Nat
  BY <1>3
<1>5. /\ buf' \in [Chunks -> Seq(Int)]
      /\ \A d \in Chunks : d # c => buf'[d] = buf[d]
      /\ Len(buf'[c]) = ChunkLen(c)
      /\ \A d \in Chunks : /\ Len(buf'[d]) <= ChunkLen(d)
                           /\ buf'[d] = Bytes(Offset(d), Len(buf'[d]))
  BY <1>1, <1>3, <1>4, FilledBuffers
<1>6. \A d \in done : buf'[d] = Piece(d)
  BY <1>2, <1>5 DEF IInv, Filling, Piece
<1>7. /\ done \in SUBSET Chunks /\ rest \in SUBSET Chunks
      /\ done \cap rest = {} /\ done \cup rest = emitChunk .. nextChunk - 1
  BY <1>1, <1>2
<1>8. inflight - 1 = Cardinality(rest) /\ inflight - 1 \in Nat /\ inflight - 1 <= Window
  <2>1. IsFiniteSet(reading) /\ IsFiniteSet(rest)
    BY <1>2, <1>7, FiniteChunks
  <2>2. Cardinality(rest) = Cardinality(reading) - 1
    BY <1>1, <2>1, FS_RemoveElement
  <2>3. Cardinality(rest) \in Nat
    BY <2>1, FS_CardinalityType
  <2> QED  BY <1>2, <2>2, <2>3, SizeAssumption
<1>9. CASE awaitingDrain
  <2>1. /\ completed' = done /\ inflight' = inflight - 1 /\ reading' = rest
        /\ UNCHANGED <<nextChunk, emitChunk, awaitingDrain, sink, out>>
    BY <1>9 DEF ReadCompletes, NoPump
  <2> HIDE DEF done, rest
  <2>2. TypeOK'
    BY <1>1, <1>5, <1>7, <1>8, <2>1 DEF IInv, TypeOK
  <2>3. Emitted'
    BY <2>1 DEF IInv, Emitted
  <2>4. Filling'
    BY <1>5, <1>6, <2>1 DEF Filling
  <2>5. WindowAccounted'
    BY <1>7, <1>8, <2>1 DEF WindowAccounted
  <2>6. Exhausted'
    BY <1>9, <2>1 DEF Exhausted
  <2>7. Phases'
    BY <1>1, <2>1 DEF IInv, Phases, settled
  <2> QED  BY <2>2, <2>3, <2>4, <2>5, <2>6, <2>7 DEF IInv
<1>10. CASE ~awaitingDrain
  <2>1. EmitReady(done, buf', inflight - 1, rest)
    BY <1>10 DEF ReadCompletes
  <2>2. emitChunk < NumChunks
    <3>1. c \in emitChunk .. nextChunk - 1
      BY <1>1, <1>2
    <3> QED  BY <3>1, <1>2, NumChunksNat
  <2> HIDE DEF done, rest
  <2> QED  BY <1>1, <1>5, <1>6, <1>7, <1>8, <2>1, <2>2, EmitInv
<1> QED  BY <1>9, <1>10

LEMMA ReadFailsInv == ASSUME IInv, NEW c \in Chunks, ReadFails(c) PROVE IInv'
<1>1. TypeOK'
  BY DEF IInv, TypeOK, ReadFails, Finish
<1>2. Phases'
  BY DEF IInv, Phases, ReadFails, Finish, settled
<1>3. settled' /\ completed' = {}
  BY DEF ReadFails, Finish, settled
<1> QED  BY <1>1, <1>2, <1>3, SettledStep DEF ReadFails

LEMMA ReadIgnoredInv == ASSUME IInv, NEW c \in Chunks, ReadIgnored(c) PROVE IInv'
<1>1. TypeOK'
  BY DEF IInv, TypeOK, ReadIgnored
<1>2. Phases'
  BY DEF IInv, Phases, ReadIgnored, settled
<1>3. settled' /\ settled /\ completed' = completed
  BY DEF ReadIgnored, settled
<1> QED  BY <1>1, <1>2, <1>3, SettledStep DEF ReadIgnored

LEMMA SinkDrainsInv == ASSUME IInv, SinkDrains PROVE IInv'
<1>1. /\ ~settled /\ sink = "open" /\ EmitReady(completed, buf, inflight, reading)
      /\ UNCHANGED <<handle, buf, outcome>>
  BY DEF SinkDrains
<1>2. /\ reading \in SUBSET Chunks /\ completed \in SUBSET Chunks /\ inflight \in Nat
      /\ buf \in [Chunks -> Seq(Int)]
      /\ inflight = Cardinality(reading) /\ inflight <= Window
      /\ completed \cap reading = {}
      /\ completed \cup reading = emitChunk .. nextChunk - 1
  BY <1>1 DEF IInv, TypeOK, WindowAccounted
<1>3. emitChunk < NumChunks
  BY <1>1, NumChunksNat DEF IInv, TypeOK, Emitted, Phases
<1>4. /\ \A c \in Chunks : /\ Len(buf[c]) <= ChunkLen(c)
                           /\ buf[c] = Bytes(Offset(c), Len(buf[c]))
      /\ \A c \in completed : buf[c] = Piece(c)
  BY DEF IInv, Filling
<1> QED  BY <1>1, <1>2, <1>3, <1>4, EmitInv

LEMMA CloseInv == ASSUME IInv, Close PROVE IInv'
<1>1. TypeOK'
  BY DEF IInv, TypeOK, Close, Finish
<1>2. Phases'
  BY DEF IInv, Phases, Close, Finish, settled
<1>3. settled'
  BY DEF Close, Finish, settled
<1>4. completed' = {} \/ (settled /\ completed' = completed)
  BY DEF Close, Finish
<1> QED  BY <1>1, <1>2, <1>3, <1>4, SettledStep DEF Close

LEMMA SinkErrorsInv == ASSUME IInv, SinkErrors PROVE IInv'
<1>1. TypeOK'
  BY DEF IInv, TypeOK, SinkErrors, Finish
<1>2. Phases'
  BY DEF IInv, Phases, SinkErrors, Finish, settled
<1>3. settled' /\ completed' = {}
  BY DEF SinkErrors, Finish, settled
<1> QED  BY <1>1, <1>2, <1>3, SettledStep DEF SinkErrors

LEMMA EmitAdvance ==
  ASSUME NEW done, NEW b, NEW infl, NEW rd,
         IsFiniteSet(done), EmitReady(done, b, infl, rd)
  PROVE  \E k \in Nat : emitChunk' = emitChunk + k
<1>1. PICK k \in 0 .. Cardinality(done) : EmitBuffers(k, done, b, infl, rd)
  BY DEF EmitReady
<1>2. Cardinality(done) \in Nat
  BY FS_CardinalityType
<1> QED  BY <1>1, <1>2 DEF EmitBuffers

LEMMA InvStutter == ASSUME IInv, UNCHANGED vars PROVE IInv'
BY DEF IInv, TypeOK, Emitted, Filling, WindowAccounted, Exhausted, Phases, settled, vars

LEMMA InvNext == IInv /\ [Next]_vars => IInv'
<1> SUFFICES ASSUME IInv, [Next]_vars PROVE IInv'
  OBVIOUS
<1>1. CASE OpenReply
  BY <1>1, OpenSucceedsInv, OpenFailsInv DEF OpenReply
<1>2. ASSUME NEW c \in Chunks, ReadReply(c) PROVE IInv'
  BY <1>2, ReadShortInv, ReadCompletesInv, ReadFailsInv, ReadIgnoredInv DEF ReadReply
<1>3. CASE SinkDrains
  BY <1>3, SinkDrainsInv
<1>4. CASE SinkAborts \/ SinkFinishes
  BY <1>4, CloseInv DEF SinkAborts, SinkFinishes
<1>5. CASE SinkErrors
  BY <1>5, SinkErrorsInv
<1>6. CASE UNCHANGED vars
  BY <1>6, InvStutter
<1> QED  BY <1>1, <1>2, <1>3, <1>4, <1>5, <1>6 DEF Next

(* The invariant holds in every state of every run, for every span, chunk  *)
(* size and window, whether or not the client has gone before the call.    *)
THEOREM Invariance == Spec => []IInv
<1>1. Init => IInv
  BY InvInit
<1>2. IInv /\ [Next]_vars => IInv'
  BY InvNext
<1> QED  BY <1>1, <1>2, PTL DEF Spec

-----------------------------------------------------------------------------
(* What the invariant gives: the properties of WindowedRead, for every     *)
(* value of its constants.                                                 *)

(* The type invariant of the reader.                                       *)
THEOREM TypeCorrect == Spec => []TypeOK
<1>1. IInv => TypeOK
  BY DEF IInv
<1> QED  BY <1>1, Invariance, PTL

(* The first pieces of the span, as a prefix of the whole content.         *)
LEMMA EmittedPrefix ==
  IInv => /\ out = SubSeq(Content, 1, emitChunk) /\ Len(out) = emitChunk
          /\ Len(Content) = NumChunks
<1> SUFFICES ASSUME IInv
             PROVE  /\ out = SubSeq(Content, 1, emitChunk) /\ Len(out) = emitChunk
                    /\ Len(Content) = NumChunks
  OBVIOUS
<1>1. /\ out \in Seq(Seq(Int)) /\ Len(out) = emitChunk /\ emitChunk \in Nat
      /\ emitChunk <= NumChunks /\ NumChunks \in Nat
  BY NumChunksNat DEF IInv, TypeOK, Emitted
<1>2. Len(Content) = NumChunks /\ \A i \in 1..NumChunks : Content[i] = Piece(i - 1)
  BY <1>1 DEF Content, Piece
<1>3. SubSeq(Content, 1, emitChunk) = [i \in 1..emitChunk |-> Content[i]]
  BY <1>1, <1>2 DEF Content
<1>4. ASSUME NEW i \in 1..emitChunk PROVE out[i] = Content[i]
  <2>1. i \in 1..NumChunks
    BY <1>1
  <2>2. out[i] = Piece(i - 1)
    BY DEF IInv, Emitted
  <2> QED  BY <1>2, <2>1, <2>2
<1>5. out = [i \in 1..emitChunk |-> out[i]]
  BY <1>1
<1> QED  BY <1>1, <1>2, <1>3, <1>4, <1>5

(* However the replies are ordered and split, and wherever backpressure    *)
(* interrupts emitReady, dst has received a prefix of the span.            *)
THEOREM DeliveryInOrder == Spec => []InOrder
<1>1. IInv => InOrder
  BY EmittedPrefix DEF InOrder
<1> QED  BY <1>1, Invariance, PTL

(* No chunk between the cursors is lost or requested twice, and at most    *)
(* Window reads are outstanding.                                           *)
THEOREM WindowIsAccounted == Spec => []WindowAccounted
<1>1. IInv => WindowAccounted
  BY DEF IInv
<1> QED  BY <1>1, Invariance, PTL

(* No order of callbacks leaves the reader with bytes owed, a sink that    *)
(* takes them, and nothing outstanding that would wake it up.              *)
THEOREM NoLostWakeup == Spec => []NeverIdle
<1>1. IInv => NeverIdle
  <2> SUFFICES ASSUME IInv, ~settled, handle = "open", emitChunk < NumChunks,
                      ~awaitingDrain
               PROVE  reading # {}
    BY DEF NeverIdle
  <2>1. /\ inflight = Cardinality(reading)
        /\ reading \cup completed = emitChunk .. nextChunk - 1
        /\ emitChunk \notin completed
        /\ inflight = Window \/ nextChunk = NumChunks
        /\ emitChunk \in Nat
    BY DEF IInv, TypeOK, WindowAccounted, Exhausted
  <2>2. CASE inflight = Window
    BY <2>1, <2>2, FS_EmptySet, SizeAssumption
  <2>3. CASE nextChunk = NumChunks
    BY <2>1, <2>3, NumChunksNat
  <2> QED  BY <2>1, <2>2, <2>3
<1> QED  BY <1>1, Invariance, PTL

(* After finish() the outcome stays, nothing is written, no read is        *)
(* issued, and the handle does not stay open.                              *)
THEOREM FinishIsFinal == Spec => QuietOnceSettled
<1>1. IInv /\ [Next]_vars =>
        [settled => /\ outcome' = outcome /\ out' = out
                    /\ reading' \subseteq reading /\ buf' = buf
                    /\ handle' # "open"]_vars
  <2> SUFFICES ASSUME IInv, Next, settled
               PROVE  /\ outcome' = outcome /\ out' = out
                      /\ reading' \subseteq reading /\ buf' = buf
                      /\ handle' # "open"
    OBVIOUS
  <2>0. handle # "open"
    BY DEF IInv, Phases
  <2>1. CASE OpenReply
    BY <2>0, <2>1 DEF OpenReply, OpenSucceeds, OpenFails
  <2>2. ASSUME NEW c \in Chunks, ReadReply(c)
        PROVE  /\ outcome' = outcome /\ out' = out
               /\ reading' \subseteq reading /\ buf' = buf
               /\ handle' # "open"
    <3>1. ReadIgnored(c)
      BY <2>2 DEF ReadReply, ReadShort, ReadCompletes, ReadFails
    <3> QED  BY <2>0, <3>1 DEF ReadIgnored
  <2>3. ~SinkDrains /\ ~SinkErrors
    BY DEF SinkDrains, SinkErrors
  <2>4. CASE SinkAborts \/ SinkFinishes
    BY <2>0, <2>4 DEF SinkAborts, SinkFinishes, Close
  <2> QED  BY <2>1, <2>2, <2>3, <2>4 DEF Next
<1> QED  BY <1>1, Invariance, PTL DEF Spec, QuietOnceSettled

-----------------------------------------------------------------------------
(* windowedRead implements OrderedStream.                                  *)

(* The value the refinement mapping gives to the abstract sink.            *)
Mapped == IF sink # "gone" THEN sink
          ELSE IF Len(out) = NumChunks THEN "ended" ELSE "open"

LEMMA MappedSink == IInv /\ ~settled => Mapped = Stream!AfterWriting(emitChunk)
<1> SUFFICES ASSUME IInv, ~settled PROVE Mapped = Stream!AfterWriting(emitChunk)
  OBVIOUS
<1>1. Len(Content) = NumChunks /\ Len(out) = emitChunk
  BY EmittedPrefix
<1>2. /\ sink \in {"open", "ended", "gone"}
      /\ sink = "ended" => emitChunk = NumChunks
      /\ sink = "open" => emitChunk # NumChunks
  BY DEF IInv, TypeOK, Phases
<1> QED  BY <1>1, <1>2 DEF Mapped, Stream!AfterWriting, Stream!Total

LEMMA RefinementInit == Init => Stream!Init
<1> SUFFICES ASSUME Init PROVE Stream!Init
  OBVIOUS
<1>1. IInv /\ ~settled /\ emitChunk = 0 /\ out = <<>> /\ outcome = "pending"
  BY InvInit DEF Init, settled
<1> QED  BY <1>1, MappedSink DEF Stream!Init, Mapped

(* A step that moves the emit cursor while the call is pending delivers    *)
(* some pieces, or none.                                                   *)
LEMMA RefinementEmit ==
  ASSUME IInv, IInv', ~settled, outcome' = outcome,
         NEW k \in Nat, emitChunk' = emitChunk + k
  PROVE  [Stream!Next]_Stream!vars
<1>1. /\ out = SubSeq(Content, 1, emitChunk) /\ Len(out) = emitChunk
      /\ Len(Content) = NumChunks
  BY EmittedPrefix
<1>2. out' = SubSeq(Content, 1, emitChunk') /\ Len(out') = emitChunk'
  <2>1. IInv' => (out = SubSeq(Content, 1, emitChunk) /\ Len(out) = emitChunk)'
    BY EmittedPrefix, PTL
  <2> QED  BY <2>1
<1>3. Mapped = Stream!AfterWriting(emitChunk)
  BY MappedSink
<1>4. Mapped' = Stream!AfterWriting(emitChunk')
  <2>1. (IInv /\ ~settled)' => (Mapped = Stream!AfterWriting(emitChunk))'
    BY MappedSink, PTL
  <2>2. ~settled'
    BY DEF settled
  <2> QED  BY <2>1, <2>2
<1>5. /\ emitChunk \in Nat /\ emitChunk' \in Nat /\ NumChunks \in Nat
      /\ emitChunk' <= NumChunks
  BY NumChunksNat DEF IInv, TypeOK, Emitted
<1>6. CASE k = 0
  <2>1. out' = out /\ Mapped' = Mapped
    BY <1>1, <1>2, <1>3, <1>4, <1>5, <1>6
  <2> QED  BY <2>1 DEF Mapped, Stream!vars
<1>7. CASE k # 0
  <2>1. k \in 1 .. NumChunks - emitChunk /\ emitChunk # NumChunks
    BY <1>5, <1>7
  <2>2. Mapped = "open"
    BY <1>1, <1>3, <2>1 DEF Stream!AfterWriting, Stream!Total
  <2>3. Stream!Deliver(k)
    BY <1>1, <1>2, <1>4, <2>2 DEF Stream!Deliver, Mapped, settled
  <2> QED  BY <1>1, <2>1, <2>3 DEF Stream!Next, Stream!Total
<1> QED  BY <1>6, <1>7

LEMMA RefinementStep == IInv /\ IInv' /\ [Next]_vars => [Stream!Next]_Stream!vars
<1> SUFFICES ASSUME IInv, IInv', [Next]_vars PROVE [Stream!Next]_Stream!vars
  OBVIOUS
<1>1. ASSUME UNCHANGED <<out, sink, outcome>>
      PROVE  [Stream!Next]_Stream!vars
  BY <1>1 DEF Stream!vars
<1>2. CASE OpenReply
  <2>1. CASE OpenSucceeds \/ (OpenFails /\ settled)
    BY <1>1, <2>1 DEF OpenSucceeds, OpenFails
  <2>2. CASE OpenFails /\ ~settled
    BY <2>2 DEF OpenFails, settled, Stream!Next, Stream!Reject
  <2> QED  BY <1>2, <2>1, <2>2 DEF OpenReply
<1>3. ASSUME NEW c \in Chunks, ReadReply(c) PROVE [Stream!Next]_Stream!vars
  <2>1. CASE ReadShort(c) \/ ReadIgnored(c)
    BY <1>1, <2>1 DEF ReadShort, ReadIgnored
  <2>2. CASE ReadFails(c)
    BY <2>2 DEF ReadFails, Finish, settled, Stream!Next, Stream!Reject
  <2>3. CASE ReadCompletes(c)
    <3>1. ~settled /\ outcome' = outcome
      BY <2>3 DEF ReadCompletes
    <3>2. IsFiniteSet(completed \cup {c})
      BY FiniteChunks DEF IInv, TypeOK
    <3>3. CASE awaitingDrain
      BY <1>1, <2>3, <3>3 DEF ReadCompletes
    <3>4. CASE ~awaitingDrain
      <4>1. EmitReady(completed \cup {c}, buf', inflight - 1, reading \ {c})
        BY <2>3, <3>4 DEF ReadCompletes
      <4>2. PICK k \in Nat : emitChunk' = emitChunk + k
        BY <3>2, <4>1, EmitAdvance
      <4> QED  BY <3>1, <4>2, RefinementEmit
    <3> QED  BY <3>3, <3>4
  <2> QED  BY <1>3, <2>1, <2>2, <2>3 DEF ReadReply
<1>4. CASE SinkDrains
  <2>1. ~settled /\ outcome' = outcome
    BY <1>4 DEF SinkDrains
  <2>2. EmitReady(completed, buf, inflight, reading)
    BY <1>4 DEF SinkDrains
  <2>3. IsFiniteSet(completed)
    BY FiniteChunks DEF IInv, TypeOK
  <2>4. PICK k \in Nat : emitChunk' = emitChunk + k
    BY <2>2, <2>3, EmitAdvance
  <2> QED  BY <2>1, <2>4, RefinementEmit
<1>5. CASE SinkAborts \/ SinkFinishes
  <2>1. sink \in {"open", "ended"} /\ sink' = "closed" /\ out' = out
    BY <1>5 DEF SinkAborts, SinkFinishes, Close
  <2>2. CASE settled
    <3>1. outcome = "rejected" /\ outcome' = outcome
      BY <1>5, <2>1, <2>2 DEF IInv, TypeOK, Phases, SinkAborts, SinkFinishes, Close, settled
    <3> QED  BY <2>1, <3>1 DEF Stream!Next, Stream!CloseLate
  <2>3. CASE ~settled
    <3>1. outcome = "pending" /\ outcome' = "resolved"
      BY <1>5, <2>3 DEF SinkAborts, SinkFinishes, Close, Finish, settled
    <3> QED  BY <2>1, <3>1 DEF Stream!Next, Stream!Resolve
  <2> QED  BY <2>2, <2>3
<1>6. CASE SinkErrors
  BY <1>6 DEF SinkErrors, Finish, settled, Stream!Next, Stream!Reject
<1>7. CASE UNCHANGED vars
  BY <1>1, <1>7 DEF vars
<1> QED  BY <1>2, <1>3, <1>4, <1>5, <1>6, <1>7 DEF Next

(* The reader implements the ordered stream: whatever the interleaving, it *)
(* only delivers the pieces in order, ends the sink exactly with the last  *)
(* of them, settles once and delivers nothing afterwards.                  *)
THEOREM ReaderImplementsStream == Spec => ImplementsOrderedStream
<1>1. Init => Stream!Init
  BY RefinementInit
<1>2. IInv /\ IInv' /\ [Next]_vars => [Stream!Next]_Stream!vars
  BY RefinementStep
<1> QED  BY <1>1, <1>2, Invariance, PTL DEF Spec, ImplementsOrderedStream, Stream!Spec

-----------------------------------------------------------------------------
(* GET file, which runs the reader for the span that a Range header asks   *)
(* for.                                                                    *)

LEMMA HeaderTypes ==
  ASSUME NEW h \in Headers(Nat)
  PROVE  /\ h.first \in Nat \/ h.first = -1
         /\ h.last \in Nat \/ h.last = -1
         /\ h = NoRange <=> h.first = -1 /\ h.last = -1
BY DEF Headers, NoRange, Blank

(* The last position is before the end, and nothing asked for is after it. *)
LEMMA ClippedBound ==
  ASSUME NEW h \in Headers(Nat), NEW size \in Nat
  PROVE  /\ Clipped(h, size) \in Int /\ Clipped(h, size) <= size - 1
         /\ \A p \in 0 .. size - 1 :
              p <= Clipped(h, size) <=> h.first = -1 \/ h.last = -1 \/ p <= h.last
BY HeaderTypes DEF Clipped, Blank

LEMMA FirstBound ==
  ASSUME NEW h \in Headers(Nat), NEW size \in Nat, h # NoRange
  PROVE  /\ First(h, size) \in Nat
         /\ \A p \in 0 .. size - 1 :
              First(h, size) <= p <=>
                IF h.first = -1 THEN p >= size - h.last ELSE h.first <= p
BY HeaderTypes DEF First, Blank

(* What is asked for is the span from First to Clipped.                    *)
LEMMA AskedSpan ==
  ASSUME NEW h \in Headers(Nat), NEW size \in Nat, h # NoRange
  PROVE  Asked(h, size) = First(h, size) .. Clipped(h, size)
<1> DEFINE a == First(h, size)
           z == Clipped(h, size)
<1>1. a \in Nat /\ z \in Int /\ z <= size - 1
  BY ClippedBound, FirstBound
<1>2. ASSUME NEW p \in 0 .. size - 1
      PROVE  p \in Asked(h, size) <=> a <= p /\ p <= z
  <2>1. p \in Asked(h, size) <=>
          IF h.first = -1 THEN p >= size - h.last
          ELSE h.first <= p /\ (h.last = -1 \/ p <= h.last)
    BY HeaderTypes DEF Asked, Blank
  <2>2. a <= p <=> IF h.first = -1 THEN p >= size - h.last ELSE h.first <= p
    BY FirstBound
  <2>3. p <= z <=> h.first = -1 \/ h.last = -1 \/ p <= h.last
    BY ClippedBound
  <2> HIDE DEF a, z
  <2> QED  BY <2>1, <2>2, <2>3
<1>3. Asked(h, size) \subseteq 0 .. size - 1
  BY DEF Asked
<1>4. a .. z \subseteq 0 .. size - 1
  BY <1>1
<1>5. ASSUME NEW p \in 0 .. size - 1
      PROVE  p \in a .. z <=> a <= p /\ p <= z
  BY <1>1
<1> DEFINE there == 0 .. size - 1
           span  == a .. z
           asked == Asked(h, size)
<1>6. /\ asked \subseteq there /\ span \subseteq there
      /\ \A p \in there : p \in asked <=> p \in span
  BY <1>2, <1>3, <1>4, <1>5
<1> HIDE DEF there, span, asked
<1>7. asked = span
  BY <1>6
<1> QED  BY <1>7 DEF asked, span

LEMMA SpanCardinality ==
  ASSUME NEW a \in Int, NEW z \in Int
  PROVE  Cardinality(a .. z) = IF a > z THEN 0 ELSE z - a + 1
BY FS_Interval

LEMMA RangeExact ==
  ASSUME NEW h \in Headers(Nat), NEW size \in Nat
  PROVE  Exact(h, size)
<1>1. CASE h = NoRange
  <2>1. Answer(h, size) = [status |-> 200, length |-> size, start |-> 0, end |-> size - 1]
    BY <1>1 DEF Answer
  <2>2. Asked(h, size) = 0 .. size - 1
    BY <1>1 DEF Asked, NoRange
  <2>3. Cardinality(0 .. size - 1) = size
    BY SpanCardinality
  <2> QED  BY <1>1, <2>1, <2>2, <2>3 DEF Exact
<1>2. CASE h # NoRange
  <2> DEFINE a == First(h, size)
             z == Clipped(h, size)
  <2>1. a \in Nat /\ z \in Int /\ z <= size - 1
    BY <1>2, ClippedBound, FirstBound
  <2>2. Asked(h, size) = a .. z
    BY <1>2, AskedSpan
  <2>3. Unsatisfiable(h, size) <=> a > z
    BY <1>2, <2>1, HeaderTypes DEF Unsatisfiable, First, Clipped, Blank
  <2>4. CASE a > z
    <3>1. Answer(h, size) = [status |-> 416, length |-> 0, start |-> 0, end |-> -1]
      BY <1>2, <2>3, <2>4 DEF Answer
    <3>2. a .. z = {} /\ 0 .. -1 = {}
      BY <2>1, <2>4
    <3>3. Asked(h, size) = {}
      BY <2>2, <3>2
    <3>4. Cardinality({}) = 0
      BY FS_EmptySet
    <3> HIDE DEF a, z
    <3> QED  BY <1>2, <3>1, <3>2, <3>3, <3>4 DEF Exact
  <2>5. CASE ~(a > z)
    <3>1. Answer(h, size) = [status |-> 206, length |-> z - a + 1, start |-> a, end |-> z]
      BY <1>2, <2>3, <2>5 DEF Answer
    <3>2. Cardinality(a .. z) = z - a + 1
      BY <2>1, <2>5, SpanCardinality
    <3>3. a .. z # {}
      BY <2>1, <2>5
    <3> HIDE DEF a, z
    <3> QED  BY <1>2, <2>2, <3>1, <3>2, <3>3 DEF Exact
  <2> QED  BY <2>4, <2>5
<1> QED  BY <1>1, <1>2

LEMMA SameRequest == [FileNext]_fileVars => request' = request
BY DEF FileNext, fileVars, endpoint, Begin, Load, Stat, Open, Lease, Reader

(* For every file size and every Range header, the span that is streamed   *)
(* is what was asked for and exists, and the length announced is its own.  *)
THEOREM RangesAreExact == FileSpec => []AnswersExactly
<1>1. FileInit => request \in Requests
  BY DEF FileInit
<1>2. request \in Requests /\ [FileNext]_fileVars => (request \in Requests)'
  BY SameRequest
<1>3. request \in Requests => AnswersExactly
  BY RequestsAssumption, RangeExact DEF AnswersExactly
<1> QED  BY <1>1, <1>2, <1>3, PTL DEF FileSpec

(* The reader within the endpoint is the reader: what is proved of it      *)
(* above holds of every request that is streamed.                          *)
THEOREM EndpointRunsTheReader == FileSpec => Spec
<1>1. FileInit => Init
  BY DEF FileInit
<1>2. [FileNext]_fileVars => [Next]_vars
  BY DEF FileNext, fileVars, Begin, Load, Stat, Open, Lease, Reader
<1> QED  BY <1>1, <1>2, PTL DEF FileSpec, Spec

-----------------------------------------------------------------------------
(* Walking a path: Walk(p)[i] is where its first i segments lead.          *)

LEMMA Cases ==
  ASSUME NEW s \in Segments
  PROVE  \/ s \in {"", "."} /\ s \notin Names /\ s # ".."
         \/ s = ".." /\ s \notin Names /\ s \notin {"", "."}
         \/ s \in Names /\ s \notin {"", ".", ".."}
BY NamesAssumption DEF Segments

LEMMA EnterType ==
  ASSUME NEW at \in Seq(Names), NEW s \in Segments
  PROVE  Enter(at, s) \in Seq(Names)
<1>1. CASE s \in {"", "."}
  BY <1>1 DEF Enter
<1>2. CASE s = ".."
  <2>1. Enter(at, s) = IF at = <<>> THEN at ELSE Front(at)
    BY <1>2 DEF Enter
  <2>2. CASE at # <<>>
    <3>1. Len(at) - 1 \in 0..Len(at)
      BY <2>2
    <3>2. Front(at) \in Seq(Names)
      BY <2>2, <3>1 DEF Front
    <3> QED BY <2>1, <2>2, <3>2
  <2> QED BY <2>1, <2>2
<1>3. CASE s \in Names /\ s \notin {"", ".", ".."}
  <2>1. Enter(at, s) = Append(at, s)
    BY <1>3 DEF Enter
  <2>2. Append(at, s) \in Seq(Names)
    BY <1>3, AppendProperties
  <2> QED BY <2>1, <2>2
<1> QED BY <1>1, <1>2, <1>3, Cases

Walked(p, at) == at = [i \in 0..Len(p) |-> IF i = 0 THEN <<>> ELSE Enter(at[i-1], p[i])]

Walk(p) == CHOOSE at : Walked(p, at)

LEMMA Walks ==
  ASSUME NEW p \in Seq(Segments)
  PROVE  /\ Normalize(p) = Walk(p)[Len(p)]
         /\ Walk(p) \in [0..Len(p) -> Seq(Names)]
         /\ Walk(p)[0] = <<>>
         /\ \A i \in 1..Len(p) : Walk(p)[i] = Enter(Walk(p)[i-1], p[i])
<1> DEFINE n == Len(p)
           T == Seq(Names)
           root == <<>>
           move == [ix \in (1..n) \X T |-> Enter(ix[2], p[ix[1]])]
<1>1. n \in Nat /\ \A i \in 1..n : p[i] \in Segments
  OBVIOUS
<1>2. \A ix \in (1..n) \X T : Enter(ix[2], p[ix[1]]) \in T
  BY <1>1, EnterType
<1>3. move \in [(1..n) \X T -> T]
  BY <1>2
<1>4. root \in T
  OBVIOUS
<1>5. \E f \in [0..n -> T] : Follows(f, root, n, move)
  <2> HIDE DEF move, n, T, root
  <2> QED BY <1>1, <1>3, <1>4, RecursionExists, Zenon
<1>6. PICK f \in [0..n -> T] : f[0] = <<>> /\ \A i \in 1..n : f[i] = move[<<i, f[i-1]>>]
  BY <1>5 DEF Follows
<1>7. \A i \in 1..n : f[i] = Enter(f[i-1], p[i])
  <2> HIDE DEF T
  <2> SUFFICES ASSUME NEW i \in 1..n PROVE f[i] = Enter(f[i-1], p[i])
    OBVIOUS
  <2>1. <<i, f[i-1]>> \in (1..n) \X T
    BY <1>1
  <2>2. move[<<i, f[i-1]>>] = Enter(f[i-1], p[i])
    BY <2>1
  <2> QED BY <1>6, <2>2
<1>8. f = [i \in 0..Len(p) |-> IF i = 0 THEN <<>> ELSE Enter(f[i-1], p[i])]
  BY <1>6, <1>7
<1>9. Walked(p, f)
  BY <1>8 DEF Walked
<1> DEFINE at == Walk(p)
<1>10. Walked(p, at)
  BY <1>9, Zenon DEF Walk
<1>11. Normalize(p) = at[Len(p)]
  BY Zenon DEF Normalize, Walk, Walked
<1> HIDE DEF at
<1>12. at = [i \in 0..n |-> IF i = 0 THEN <<>> ELSE Enter(at[i-1], p[i])]
  BY <1>10 DEF Walked
<1>13. at[0] = <<>> /\ \A i \in 1..n : at[i] = Enter(at[i-1], p[i])
  BY <1>1, <1>12
<1>14. \A i \in 0..n : at[i] \in T
  <2> DEFINE Good == {i \in 0..n : at[i] \in T}
  <2>1. 0 \in Good
    <3>1. 0 \in 0..n /\ at[0] \in T
      BY <1>1, <1>4, <1>13
    <3> QED BY <3>1
  <2>2. ASSUME NEW k \in 0..n-1, k \in Good PROVE k + 1 \in Good
    <3>1. k + 1 \in 1..n /\ at[k] \in T /\ (k + 1) - 1 = k
      BY <2>2
    <3>2. at[k+1] = Enter(at[k], p[k+1]) /\ p[k+1] \in Segments
      BY <1>1, <1>13, <3>1
    <3>3. at[k+1] \in T
      BY <3>1, <3>2, EnterType
    <3> QED BY <3>1, <3>3
  <2>3. \A k \in 0..n : k \in Good
    <3> HIDE DEF Good
    <3> QED BY <1>1, <2>1, <2>2, Induction
  <2> QED BY <2>3
<1>15. at \in [0..n -> T]
  <2> HIDE DEF n, T
  <2> QED BY <1>12, <1>14
<1> QED BY <1>11, <1>13, <1>15 DEF at
(* Walks that are at the same place stay together while they take the same *)
(* segments.                                                               *)
Alike(p, i, q, j, n) == \A k \in 1..n : p[i + k] = q[j + k]

LEMMA Together ==
  ASSUME NEW p \in Seq(Segments), NEW q \in Seq(Segments),
         NEW i \in Nat, NEW j \in Nat, NEW n \in Nat,
         i + n <= Len(p), j + n <= Len(q),
         Walk(p)[i] = Walk(q)[j],
         Alike(p, i, q, j, n)
  PROVE  Walk(p)[i + n] = Walk(q)[j + n]
<1> DEFINE Good == {k \in 0..n : Walk(p)[i + k] = Walk(q)[j + k]}
<1>1. 0 \in Good
  OBVIOUS
<1>2. ASSUME NEW k \in 0..n-1, k \in Good PROVE k + 1 \in Good
  <2>1. /\ i + (k+1) \in 1..Len(p) /\ (i + (k+1)) - 1 = i + k
        /\ j + (k+1) \in 1..Len(q) /\ (j + (k+1)) - 1 = j + k
    OBVIOUS
  <2>2. Walk(p)[i + (k+1)] = Enter(Walk(p)[i + k], p[i + (k+1)])
    BY <2>1, Walks
  <2>3. Walk(q)[j + (k+1)] = Enter(Walk(q)[j + k], q[j + (k+1)])
    BY <2>1, Walks
  <2>4. k + 1 \in 1..n /\ k + 1 \in 0..n
    OBVIOUS
  <2>5. p[i + (k+1)] = q[j + (k+1)]
    BY <2>4 DEF Alike
  <2> QED BY <1>2, <2>2, <2>3, <2>4, <2>5
<1>3. \A k \in 0..n : k \in Good
  <2> HIDE DEF Good
  <2> QED BY <1>1, <1>2, Induction
<1> QED BY <1>3

LEMMA NormalizeType ==
  ASSUME NEW p \in Seq(Segments)
  PROVE  Normalize(p) \in Seq(Names)
BY Walks

(* Empty segments lead nowhere.                                            *)
Empty(p, i, n) == \A k \in 1..n : p[i + k] = ""

LEMMA Waits ==
  ASSUME NEW p \in Seq(Segments), NEW i \in Nat, NEW n \in Nat, i + n <= Len(p),
         Empty(p, i, n)
  PROVE  Walk(p)[i + n] = Walk(p)[i]
<1> DEFINE Good == {k \in 0..n : Walk(p)[i + k] = Walk(p)[i]}
<1>1. 0 \in Good
  OBVIOUS
<1>2. ASSUME NEW k \in 0..n-1, k \in Good PROVE k + 1 \in Good
  <2>1. i + (k+1) \in 1..Len(p) /\ (i + (k+1)) - 1 = i + k
    OBVIOUS
  <2>2. Walk(p)[i + (k+1)] = Enter(Walk(p)[i + k], p[i + (k+1)])
    BY <2>1, Walks
  <2>3. p[i + (k+1)] = "" /\ k + 1 \in 0..n
    <3>1. k + 1 \in 1..n /\ k + 1 \in 0..n
      OBVIOUS
    <3> QED BY <3>1 DEF Empty
  <2>4. \A at : Enter(at, "") = at
    BY DEF Enter
  <2> QED BY <1>2, <2>2, <2>3, <2>4
<1>3. \A k \in 0..n : k \in Good
  <2> HIDE DEF Good
  <2> QED BY <1>1, <1>2, Induction
<1> QED BY <1>3

(* A path of names leads where it says.                                    *)
LEMMA Normal ==
  ASSUME NEW p \in Seq(Names)
  PROVE  Normalize(p) = p
<1>1. p \in Seq(Segments)
  <2>1. Names \subseteq Segments
    BY DEF Segments
  <2> QED BY <2>1
<1> DEFINE Good == {k \in 0..Len(p) : Walk(p)[k] = SubSeq(p, 1, k)}
<1>2. 0 \in Good
  BY <1>1, Walks
<1>3. ASSUME NEW k \in 0..Len(p)-1, k \in Good PROVE k + 1 \in Good
  <2>1. Walk(p)[k+1] = Enter(Walk(p)[k], p[k+1])
    BY <1>1, Walks
  <2>2. p[k+1] \in Names
    OBVIOUS
  <2>3. Walk(p)[k+1] = Append(SubSeq(p, 1, k), p[k+1])
    BY <1>3, <2>1, <2>2, NamesAssumption DEF Enter
  <2>4. Append(SubSeq(p, 1, k), p[k+1]) = SubSeq(p, 1, k+1)
    OBVIOUS
  <2> QED BY <2>3, <2>4
<1>4. \A k \in 0..Len(p) : k \in Good
  <2> HIDE DEF Good
  <2> QED BY <1>2, <1>3, Induction
<1>5. SubSeq(p, 1, Len(p)) = p
  OBVIOUS
<1> QED BY <1>1, <1>4, <1>5, Walks

(* The walk along b \o r passes the end of b.                            *)
LEMMA Passes ==
  ASSUME NEW b \in Seq(Segments), NEW r \in Seq(Segments)
  PROVE  Walk(b \o r)[Len(b)] = Normalize(b)
<1>1. /\ b \o r \in Seq(Segments) /\ Len(b \o r) = Len(b) + Len(r)
      /\ \A i \in 1..Len(b) : (b \o r)[i] = b[i]
  BY Joined
<1>2. Walk(b \o r)[0] = Walk(b)[0]
  BY <1>1, Walks
<1> DEFINE p == b \o r
<1> HIDE DEF p
<1>3. Walk(p)[0 + Len(b)] = Walk(b)[0 + Len(b)]
  <2>1. Alike(p, 0, b, 0, Len(b))
    BY <1>1 DEF p, Alike
  <2>2. /\ 0 \in Nat /\ Len(b) \in Nat /\ p \in Seq(Segments)
        /\ 0 + Len(b) <= Len(p) /\ 0 + Len(b) <= Len(b)
    BY <1>1 DEF p
  <2>3. Walk(p)[0] = Walk(b)[0]
    BY <1>2 DEF p
  <2> QED BY <2>1, <2>2, <2>3, Together, SMTT(20)
<1>4. 0 + Len(b) = Len(b)
  OBVIOUS
<1> QED BY <1>3, <1>4, Walks DEF p

(* Normalizing the base first makes no difference.                         *)
LEMMA NormalizeTwice ==
  ASSUME NEW b \in Seq(Segments), NEW c \in Seq(Segments), NEW r \in Seq(Segments),
         Normalize(b) = Normalize(c)
  PROVE  Normalize(b \o r) = Normalize(c \o r)
<1> DEFINE p == b \o r
           q == c \o r
<1>1. /\ p \in Seq(Segments) /\ Len(p) = Len(b) + Len(r)
      /\ \A i \in 1..Len(r) : p[Len(b) + i] = r[i]
  BY Joined
<1>2. /\ q \in Seq(Segments) /\ Len(q) = Len(c) + Len(r)
      /\ \A i \in 1..Len(r) : q[Len(c) + i] = r[i]
  BY Joined
<1>3. Walk(p)[Len(b)] = Walk(q)[Len(c)]
  BY Passes
<1> HIDE DEF p, q
<1>4. Walk(p)[Len(b) + Len(r)] = Walk(q)[Len(c) + Len(r)]
  <2>1. Len(b) \in Nat /\ Len(c) \in Nat /\ Len(r) \in Nat
    OBVIOUS
  <2>2. Alike(p, Len(b), q, Len(c), Len(r))
    BY <1>1, <1>2 DEF Alike
  <2>3. Len(b) + Len(r) <= Len(p) /\ Len(c) + Len(r) <= Len(q)
    BY <1>1, <1>2, <2>1
  <2>4. p \in Seq(Segments) /\ q \in Seq(Segments)
    BY <1>1, <1>2
  <2> QED BY <1>3, <2>1, <2>2, <2>3, <2>4, Together, SMTT(20)
<1> QED BY <1>1, <1>2, <1>4, Walks DEF p, q
-----------------------------------------------------------------------------
(* Walking a path leads where Denoted says.                                *)

LEMMA CountStep ==
  ASSUME NEW p \in Seq(Segments), NEW S, NEW k \in Nat, NEW j \in Nat, 1 <= k, k <= j + 1
  PROVE  /\ Count(p, k, j, S) \in Nat
         /\ k = j + 1 => Count(p, k, j, S) = 0
         /\ Count(p, k, j + 1, S) = Count(p, k, j, S) + (IF p[j+1] \in S THEN 1 ELSE 0)
<1> DEFINE C(i) == {m \in k..i : p[m] \in S}
<1>1. IsFiniteSet(C(j))
  <2>1. IsFiniteSet(k..j) /\ C(j) \in SUBSET (k..j)
    BY FS_Interval
  <2> HIDE DEF C
  <2> QED BY <2>1, FS_Subset
<1>2. Cardinality(C(j)) \in Nat
  <2> HIDE DEF C
  <2> QED BY <1>1, FS_CardinalityType
<1>3. k = j + 1 => Cardinality(C(j)) = 0
  <2>1. k = j + 1 => C(j) = {}
    OBVIOUS
  <2> QED BY <2>1, FS_EmptySet
<1>0. Count(p, k, j, S) = Cardinality(C(j)) /\ Count(p, k, j + 1, S) = Cardinality(C(j+1))
  BY DEF Count
<1>4. k..(j+1) = (k..j) \cup {j+1} /\ j + 1 \notin k..j
  OBVIOUS
<1>5. CASE p[j+1] \in S
  <2>1. C(j+1) = C(j) \cup {j+1} /\ j + 1 \notin C(j)
    BY <1>4, <1>5
  <2>2. Cardinality(C(j) \cup {j+1}) = Cardinality(C(j)) + 1
    <3> HIDE DEF C
    <3> QED BY <1>1, <2>1, FS_AddElement
  <2> HIDE DEF C
  <2> QED BY <1>0, <1>2, <1>3, <1>5, <2>1, <2>2
<1>6. CASE p[j+1] \notin S
  <2>1. C(j+1) = C(j)
    BY <1>4, <1>6
  <2> HIDE DEF C
  <2> QED BY <1>0, <1>2, <1>3, <1>6, <2>1
<1> QED BY <1>5, <1>6

(* How many more names than ".." there are from k to j.                    *)
Excess(p, k, j) == Count(p, k, j, Names) - Count(p, k, j, {".."})

Weight(s) == IF s \in Names THEN 1 ELSE IF s = ".." THEN -1 ELSE 0

LEMMA ExcessStep ==
  ASSUME NEW p \in Seq(Segments), NEW k \in Nat, NEW j \in Nat, 1 <= k, k <= j + 1, j + 1 <= Len(p)
  PROVE  /\ Excess(p, k, j) \in Int
         /\ k = j + 1 => Excess(p, k, j) = 0
         /\ Excess(p, k, j + 1) = Excess(p, k, j) + Weight(p[j+1])
<1>1. p[j+1] \in Segments
  OBVIOUS
<1>2. p[j+1] \in {".."} <=> p[j+1] = ".."
  OBVIOUS
<1>3. ~(p[j+1] \in Names /\ p[j+1] = "..")
  BY <1>1, Cases
<1> DEFINE N(i) == Count(p, k, i, Names)
           D(i) == Count(p, k, i, {".."})
<1>4. /\ N(j) \in Nat /\ (k = j + 1 => N(j) = 0)
      /\ N(j+1) = N(j) + (IF p[j+1] \in Names THEN 1 ELSE 0)
  BY CountStep
<1>5. /\ D(j) \in Nat /\ (k = j + 1 => D(j) = 0)
      /\ D(j+1) = D(j) + (IF p[j+1] = ".." THEN 1 ELSE 0)
  BY CountStep, <1>2
<1>6. Excess(p, k, j) = N(j) - D(j) /\ Excess(p, k, j+1) = N(j+1) - D(j+1)
  BY DEF Excess
<1> HIDE DEF N, D
<1> QED BY <1>3, <1>4, <1>5, <1>6 DEF Weight

(* The positions up to i whose names count when the walk is at i.          *)
KeptAt(p, i) == {k \in 1..i : p[k] \in Names /\ \A j \in k..i : Excess(p, k, j) > 0}

LEMMA KeptStep ==
  ASSUME NEW p \in Seq(Segments), NEW i \in Nat, i + 1 <= Len(p), NEW k \in 1..i
  PROVE  k \in KeptAt(p, i + 1) <=> k \in KeptAt(p, i) /\ Excess(p, k, i + 1) > 0
<1>1. k..(i+1) = (k..i) \cup {i+1} /\ k \in 1..(i+1)
  OBVIOUS
<1> QED BY <1>1 DEF KeptAt

(* q lists, in order, the positions of the names that are still there.     *)
Lists(q, K) ==
  /\ \A n \in 1..Len(q) : q[n] \in K
  /\ \A k \in K : \E n \in 1..Len(q) : q[n] = k
  /\ \A m \in 1..Len(q), n \in 1..Len(q) : m < n => q[m] < q[n]

Traced(p, i, q) ==
  /\ Lists(q, KeptAt(p, i))
  /\ Len(Walk(p)[i]) = Len(q)
  /\ \A n \in 1..Len(q) : /\ Walk(p)[i][n] = p[q[n]]
                          /\ Excess(p, q[n], i) = Len(q) - n + 1

(* The segments that are no names.                                         *)
Idle(s) == s \in {"", "."}
Up(s)   == s = ".."

LEMMA Kinds ==
  ASSUME NEW s \in Segments
  PROVE  /\ s \in Names \/ Idle(s) \/ Up(s)
         /\ s \in Names => Weight(s) = 1 /\ \A at : Enter(at, s) = Append(at, s)
         /\ Idle(s) => s \notin Names /\ Weight(s) = 0 /\ \A at : Enter(at, s) = at
         /\ Up(s) => /\ s \notin Names /\ Weight(s) = -1
                     /\ \A at : Enter(at, s) = IF at = <<>> THEN at ELSE Front(at)
<1>1. CASE s \in {"", "."} /\ s \notin Names /\ s # ".."
  BY <1>1 DEF Idle, Up, Weight, Enter
<1>2. CASE s = ".." /\ s \notin Names /\ s \notin {"", "."}
  BY <1>2 DEF Idle, Up, Weight, Enter
<1>3. CASE s \in Names /\ s \notin {"", ".", ".."}
  BY <1>3 DEF Idle, Up, Weight, Enter
<1> QED BY <1>1, <1>2, <1>3, Cases

LEMMA TraceName ==
  ASSUME NEW p \in Seq(Segments), NEW i \in Nat, i + 1 <= Len(p), p[i+1] \in Names,
         NEW q \in Seq(Nat), Traced(p, i, q)
  PROVE  Traced(p, i + 1, Append(q, i + 1))
<1> DEFINE r == Append(q, i + 1)
           at == Walk(p)[i]
           next == Walk(p)[i+1]
<1>1. at \in Seq(Names) /\ next = Append(at, p[i+1])
  <2>1. i + 1 \in 1..Len(p) /\ (i + 1) - 1 = i /\ i \in 0..Len(p)
    OBVIOUS
  <2>2. next = Enter(at, p[i+1]) /\ at \in Seq(Names)
    BY <2>1, Walks
  <2>3. p[i+1] \in Segments
    BY <2>1
  <2> QED BY <2>2, <2>3, Kinds
<1>2. /\ r \in Seq(Nat) /\ Len(r) = Len(q) + 1
      /\ \A n \in 1..Len(q) : r[n] = q[n]
      /\ r[Len(q) + 1] = i + 1
  OBVIOUS
<1>3. ASSUME NEW k \in 1..i PROVE Excess(p, k, i) \in Int /\ Excess(p, k, i + 1) = Excess(p, k, i) + 1
  BY ExcessStep DEF Weight
<1>4. Excess(p, i + 1, i + 1) = 1
  BY ExcessStep DEF Weight
<1>5. i + 1 \in KeptAt(p, i + 1)
  BY <1>4 DEF KeptAt
<1>6. ASSUME NEW k \in 1..i PROVE k \in KeptAt(p, i + 1) <=> k \in KeptAt(p, i)
  <2>1. k \in KeptAt(p, i) => Excess(p, k, i) > 0
    BY DEF KeptAt
  <2> QED BY <1>3, <2>1, KeptStep
<1>7. KeptAt(p, i) \subseteq 1..i /\ KeptAt(p, i + 1) \subseteq 1..(i+1)
  BY DEF KeptAt
<1>8. KeptAt(p, i + 1) = KeptAt(p, i) \cup {i + 1}
  BY <1>5, <1>6, <1>7
<1>9. Lists(r, KeptAt(p, i + 1))
  <2>1. Lists(q, KeptAt(p, i))
    BY DEF Traced
  <2>2. \A n \in 1..Len(r) : r[n] \in KeptAt(p, i + 1)
    BY <1>2, <1>8, <2>1 DEF Lists
  <2>3. \A k \in KeptAt(p, i + 1) : \E n \in 1..Len(r) : r[n] = k
    BY <1>2, <1>8, <2>1 DEF Lists
  <2>4. \A m \in 1..Len(r), n \in 1..Len(r) : m < n => r[m] < r[n]
    <3>1. \A m \in 1..Len(q) : q[m] < i + 1
      BY <1>7, <2>1 DEF Lists
    <3> QED BY <1>2, <2>1, <3>1 DEF Lists
  <2> QED BY <2>2, <2>3, <2>4 DEF Lists
<1>10. Len(next) = Len(r) /\ \A n \in 1..Len(q) : next[n] = at[n]
  BY <1>1, <1>2 DEF Traced
<1>11. ASSUME NEW n \in 1..Len(r)
       PROVE  next[n] = p[r[n]] /\ Excess(p, r[n], i + 1) = Len(r) - n + 1
  <2>1. CASE n = Len(q) + 1
    BY <1>1, <1>2, <1>4, <1>10, <2>1 DEF Traced
  <2>2. CASE n \in 1..Len(q)
    <3>1. q[n] \in 1..i
      BY <1>7, <2>2 DEF Traced, Lists
    <3>2. at[n] = p[q[n]] /\ Excess(p, q[n], i) = Len(q) - n + 1
      BY <2>2 DEF Traced
    <3>3. Excess(p, q[n], i + 1) = Len(q) - n + 1 + 1
      BY <1>3, <3>1, <3>2
    <3>4. next[n] = at[n] /\ r[n] = q[n]
      BY <1>2, <1>10, <2>2
    <3>5. Len(r) - n + 1 = Len(q) - n + 1 + 1
      BY <1>2, <2>2
    <3> QED BY <3>2, <3>3, <3>4, <3>5
  <2> QED BY <1>2, <2>1, <2>2
<1> QED BY <1>9, <1>10, <1>11 DEF Traced

LEMMA TraceSame ==
  ASSUME NEW p \in Seq(Segments), NEW i \in Nat, i + 1 <= Len(p), Idle(p[i+1]),
         NEW q \in Seq(Nat), Traced(p, i, q)
  PROVE  Traced(p, i + 1, q)
<1>1. Walk(p)[i+1] = Walk(p)[i]
  <2>1. i + 1 \in 1..Len(p) /\ (i + 1) - 1 = i
    OBVIOUS
  <2>2. Walk(p)[i+1] = Enter(Walk(p)[i], p[i+1])
    BY <2>1, Walks
  <2> QED BY <2>1, <2>2, Kinds
<1>2. p[i+1] \notin Names /\ Weight(p[i+1]) = 0
  BY Kinds
<1>3. ASSUME NEW k \in 1..i PROVE Excess(p, k, i) \in Int /\ Excess(p, k, i + 1) = Excess(p, k, i)
  <2>1. k \in Nat /\ 1 <= k /\ k <= i + 1
    OBVIOUS
  <2>2. Excess(p, k, i) \in Int /\ Excess(p, k, i + 1) = Excess(p, k, i) + Weight(p[i+1])
    BY <2>1, ExcessStep
  <2> QED BY <1>2, <2>2
<1>4. KeptAt(p, i) \subseteq 1..i /\ KeptAt(p, i + 1) \subseteq (1..i) \cup {i+1} /\ i + 1 \notin KeptAt(p, i+1)
  BY <1>2 DEF KeptAt
<1>5. ASSUME NEW k \in 1..i PROVE k \in KeptAt(p, i + 1) <=> k \in KeptAt(p, i)
  <2>1. k \in KeptAt(p, i) => Excess(p, k, i) > 0
    BY DEF KeptAt
  <2> QED BY <1>3, <2>1, KeptStep
<1>6. KeptAt(p, i + 1) = KeptAt(p, i)
  BY <1>4, <1>5
<1>7. \A n \in 1..Len(q) : q[n] \in 1..i
  BY <1>4 DEF Traced, Lists
<1> QED BY <1>1, <1>3, <1>6, <1>7 DEF Traced

LEMMA Beginning ==
  ASSUME NEW S, NEW q \in Seq(S), NEW n \in 0..Len(q)
  PROVE  /\ SubSeq(q, 1, n) \in Seq(S) /\ Len(SubSeq(q, 1, n)) = n
         /\ \A i \in 1..n : SubSeq(q, 1, n)[i] = q[i]
OBVIOUS

LEMMA TraceUp ==
  ASSUME NEW p \in Seq(Segments), NEW i \in Nat, i + 1 <= Len(p), Up(p[i+1]),
         NEW q \in Seq(Nat), Traced(p, i, q)
  PROVE  \E r \in Seq(Nat) : Traced(p, i + 1, r)
<1> DEFINE at == Walk(p)[i]
           next == Walk(p)[i+1]
<1>1. at \in Seq(Names) /\ next = IF at = <<>> THEN at ELSE Front(at)
  <2>1. i + 1 \in 1..Len(p) /\ (i + 1) - 1 = i /\ i \in 0..Len(p)
    OBVIOUS
  <2>2. next = Enter(at, p[i+1]) /\ at \in Seq(Names)
    BY <2>1, Walks
  <2> QED BY <2>1, <2>2, Kinds
<1>2. p[i+1] \notin Names /\ Weight(p[i+1]) = -1
  BY Kinds
<1>3. ASSUME NEW k \in 1..i PROVE Excess(p, k, i) \in Int /\ Excess(p, k, i + 1) = Excess(p, k, i) - 1
  BY <1>2, ExcessStep
<1>4. KeptAt(p, i) \subseteq 1..i /\ KeptAt(p, i + 1) \subseteq (1..i) \cup {i+1} /\ i + 1 \notin KeptAt(p, i+1)
  BY <1>2 DEF KeptAt
<1>5. ASSUME NEW k \in 1..i PROVE k \in KeptAt(p, i + 1) <=> k \in KeptAt(p, i) /\ Excess(p, k, i) > 1
  BY <1>3, KeptStep
<1>6. CASE at = <<>>
  <2>1. Len(q) = 0
    BY <1>6 DEF Traced
  <2>2. KeptAt(p, i) = {}
    BY <2>1 DEF Traced, Lists
  <2>3. KeptAt(p, i + 1) = {}
    BY <1>4, <1>5, <2>2
  <2>4. Traced(p, i + 1, q)
    BY <1>1, <1>6, <2>1, <2>3 DEF Traced, Lists
  <2> QED BY <2>4
<1>7. CASE at # <<>>
  <2> DEFINE r == SubSeq(q, 1, Len(q) - 1)
  <2>1. Len(q) \in Nat \ {0} /\ Len(at) = Len(q)
    BY <1>1, <1>7 DEF Traced
  <2>2. r \in Seq(Nat) /\ Len(r) = Len(q) - 1 /\ \A n \in 1..Len(q)-1 : r[n] = q[n]
    <3>1. Len(q) - 1 \in 0..Len(q)
      BY <2>1
    <3> QED BY <3>1, Beginning
  <2>3. Len(next) = Len(r) /\ \A n \in 1..Len(q)-1 : next[n] = at[n]
    BY <1>1, <1>7, <2>1, <2>2 DEF Front
  <2>4. ASSUME NEW n \in 1..Len(q)
        PROVE  q[n] \in 1..i /\ (q[n] \in KeptAt(p, i + 1) <=> n < Len(q))
    <3>1. q[n] \in KeptAt(p, i) /\ q[n] \in 1..i /\ Excess(p, q[n], i) = Len(q) - n + 1
      BY <1>4 DEF Traced, Lists
    <3> QED BY <1>5, <3>1
  <2>5. Lists(r, KeptAt(p, i + 1))
    <3>1. \A n \in 1..Len(r) : r[n] \in KeptAt(p, i + 1)
      BY <2>1, <2>2, <2>4
    <3>2. ASSUME NEW k \in KeptAt(p, i + 1) PROVE \E n \in 1..Len(r) : r[n] = k
      <4>1. k \in KeptAt(p, i)
        BY <1>4, <1>5
      <4>2. PICK n \in 1..Len(q) : q[n] = k
        BY <4>1 DEF Traced, Lists
      <4>3. n \in 1..Len(r) /\ r[n] = k
        BY <2>1, <2>2, <2>4, <4>2
      <4> QED BY <4>3
    <3>3. \A m \in 1..Len(r), n \in 1..Len(r) : m < n => r[m] < r[n]
      <4>1. \A n \in 1..Len(r) : n \in 1..Len(q) /\ n \in 1..Len(q)-1
        BY <2>1, <2>2
      <4> QED BY <2>2, <4>1 DEF Traced, Lists
    <3> QED BY <3>1, <3>2, <3>3 DEF Lists
  <2>6. ASSUME NEW n \in 1..Len(r)
        PROVE  next[n] = p[r[n]] /\ Excess(p, r[n], i + 1) = Len(r) - n + 1
    <3>1. n \in 1..Len(q) /\ n \in 1..Len(q)-1 /\ r[n] = q[n]
      BY <2>1, <2>2
    <3>2. at[n] = p[q[n]] /\ Excess(p, q[n], i) = Len(q) - n + 1
      BY <3>1 DEF Traced
    <3>3. Excess(p, q[n], i + 1) = Len(q) - n + 1 - 1
      <4>1. q[n] \in 1..i
        BY <2>4, <3>1
      <4>2. Excess(p, q[n], i + 1) = Excess(p, q[n], i) - 1
        BY <1>3, <4>1
      <4> QED BY <3>2, <4>2
    <3>4. next[n] = at[n]
      BY <2>3, <3>1
    <3>5. Len(r) - n + 1 = Len(q) - n + 1 - 1
      BY <2>1, <2>2, <3>1
    <3> QED BY <3>1, <3>2, <3>3, <3>4, <3>5
  <2>7. Traced(p, i + 1, r)
    BY <2>3, <2>5, <2>6 DEF Traced
  <2> QED BY <2>2, <2>7
<1> QED BY <1>6, <1>7
LEMMA TraceExists ==
  ASSUME NEW p \in Seq(Segments)
  PROVE  \E q \in Seq(Nat) : Traced(p, Len(p), q)
<1> DEFINE Good == {i \in 0..Len(p) : \E q \in Seq(Nat) : Traced(p, i, q)}
<1>1. 0 \in Good
  <2>1. KeptAt(p, 0) = {}
    BY DEF KeptAt
  <2>2. Walk(p)[0] = <<>>
    BY Walks
  <2>3. Traced(p, 0, <<>>)
    BY <2>1, <2>2 DEF Traced, Lists
  <2>4. <<>> \in Seq(Nat) /\ 0 \in 0..Len(p)
    OBVIOUS
  <2>5. \E q \in Seq(Nat) : Traced(p, 0, q)
    BY <2>3, <2>4, Zenon
  <2> QED BY <2>4, <2>5
<1>2. ASSUME NEW i \in 0..Len(p)-1, i \in Good PROVE i + 1 \in Good
  <2>1. PICK q \in Seq(Nat) : Traced(p, i, q)
    BY <1>2
  <2>2. i \in Nat /\ i + 1 <= Len(p) /\ i + 1 \in 0..Len(p) /\ p[i+1] \in Segments
    OBVIOUS
  <2>3. CASE p[i+1] \in Names
    <3>1. Traced(p, i + 1, Append(q, i + 1)) /\ Append(q, i + 1) \in Seq(Nat)
      BY <2>1, <2>2, <2>3, TraceName
    <3> QED BY <2>2, <3>1
  <2>4. CASE Idle(p[i+1])
    <3>1. Traced(p, i + 1, q)
      BY <2>1, <2>2, <2>4, TraceSame
    <3> QED BY <2>2, <3>1
  <2>5. CASE Up(p[i+1])
    <3>1. \E r \in Seq(Nat) : Traced(p, i + 1, r)
      BY <2>1, <2>2, <2>5, TraceUp
    <3> QED BY <2>2, <3>1
  <2> QED BY <2>2, <2>3, <2>4, <2>5, Kinds
<1>3. \A i \in 0..Len(p) : i \in Good
  <2> HIDE DEF Good
  <2>1. Len(p) \in Nat
    OBVIOUS
  <2> QED BY <1>1, <1>2, <2>1, Induction
<1> QED BY <1>3

(* The x-th of them is the one with x of them up to it.                    *)
LEMMA Ranks ==
  ASSUME NEW q \in Seq(Nat), NEW K \in SUBSET (Nat \ {0}), Lists(q, K)
  PROVE  /\ IsFiniteSet(K) /\ Cardinality(K) = Len(q)
         /\ \A x \in 1..Len(q) : Cardinality(K \cap 1..q[x]) = x
<1> DEFINE Low(x) == {q[y] : y \in 1..x}
           Good == {x \in 0..Len(q) : IsFiniteSet(Low(x)) /\ Cardinality(Low(x)) = x}
<1>1. 0 \in Good
  <2>1. Low(0) = {} /\ 0 \in 0..Len(q)
    OBVIOUS
  <2> HIDE DEF Low
  <2>2. IsFiniteSet(Low(0)) /\ Cardinality(Low(0)) = 0
    BY <2>1, FS_EmptySet
  <2> QED BY <2>1, <2>2
<1>2. ASSUME NEW x \in 0..Len(q)-1, x \in Good PROVE x + 1 \in Good
  <2>1. x + 1 \in 1..Len(q) /\ x + 1 \in 0..Len(q) /\ 1..(x+1) = (1..x) \cup {x+1}
    OBVIOUS
  <2>2. Low(x+1) = Low(x) \cup {q[x+1]}
    BY <2>1
  <2>3. q[x+1] \notin Low(x)
    <3> SUFFICES ASSUME NEW y \in 1..x, q[y] = q[x+1] PROVE FALSE
      OBVIOUS
    <3>1. y \in 1..Len(q) /\ y < x + 1
      OBVIOUS
    <3>2. q[y] < q[x+1] /\ q[y] \in Nat
      BY <2>1, <3>1 DEF Lists
    <3> QED BY <3>2
  <2> HIDE DEF Low
  <2>4. IsFiniteSet(Low(x)) /\ Cardinality(Low(x)) = x
    BY <1>2
  <2>5. IsFiniteSet(Low(x+1)) /\ Cardinality(Low(x+1)) = x + 1
    <3> DEFINE L == Low(x)
    <3> HIDE DEF L
    <3>1. IsFiniteSet(L) /\ Cardinality(L) = x /\ q[x+1] \notin L
      BY <2>3, <2>4 DEF L
    <3>2. IsFiniteSet(L \cup {q[x+1]}) /\ Cardinality(L \cup {q[x+1]}) = x + 1
      BY <3>1, FS_AddElement
    <3> QED BY <2>2, <3>2 DEF L
  <2> QED BY <2>1, <2>5
<1>3. \A x \in 0..Len(q) : x \in Good
  <2> HIDE DEF Good
  <2>1. Len(q) \in Nat
    OBVIOUS
  <2> QED BY <1>1, <1>2, <2>1, Induction
<1>4. K = Low(Len(q))
  BY DEF Lists
<1>5. ASSUME NEW x \in 1..Len(q) PROVE K \cap 1..q[x] = Low(x)
  <2>1. ASSUME NEW y \in 1..Len(q)
        PROVE  q[y] \in 1..q[x] <=> y <= x
    <3>1. q[y] \in K /\ q[x] \in K /\ q[y] \in Nat \ {0} /\ q[x] \in Nat \ {0}
      BY DEF Lists
    <3>2. (y < x => q[y] < q[x]) /\ (x < y => q[x] < q[y])
      BY DEF Lists
    <3>3. x \in Nat /\ y \in Nat
      OBVIOUS
    <3> QED BY <3>1, <3>2, <3>3
  <2>2. ASSUME NEW k PROVE k \in K \cap 1..q[x] <=> k \in Low(x)
    <3>1. k \in K <=> \E y \in 1..Len(q) : q[y] = k
      BY DEF Lists
    <3>2. 1..x \subseteq 1..Len(q) /\ \A y \in 1..Len(q) : y <= x <=> y \in 1..x
      OBVIOUS
    <3> QED BY <2>1, <3>1, <3>2
  <2> QED BY <2>2
<1>6. Len(q) \in 0..Len(q) /\ \A x \in 1..Len(q) : x \in 0..Len(q)
  OBVIOUS
<1>7. \A x \in 0..Len(q) : IsFiniteSet(Low(x)) /\ Cardinality(Low(x)) = x
  <2> HIDE DEF Low
  <2> QED BY <1>3
<1> HIDE DEF Low, Good
<1> QED BY <1>4, <1>5, <1>6, <1>7

LEMMA NormalizeDenoted ==
  ASSUME NEW p \in Seq(Segments)
  PROVE  Normalize(p) = Denoted(p)
<1>1. PICK q \in Seq(Nat) : Traced(p, Len(p), q)
  BY TraceExists
<1> DEFINE kept == {i \in DOMAIN p : Stays(p, i)}
           Kept(n) == CHOOSE i \in kept : Cardinality(kept \cap 1..i) = n
           to == Normalize(p)
<1>2. kept = KeptAt(p, Len(p))
  <2>1. ASSUME NEW i \in 1..Len(p), NEW j \in i..Len(p)
        PROVE  Count(p, i, j, Names) > Count(p, i, j, {".."}) <=> Excess(p, i, j) > 0
    <3>1. i \in Nat /\ j \in Nat /\ 1 <= i /\ i <= j + 1
      OBVIOUS
    <3>2. Count(p, i, j, Names) \in Nat /\ Count(p, i, j, {".."}) \in Nat
      BY <3>1, CountStep
    <3> QED BY <3>2 DEF Excess
  <2>2. DOMAIN p = 1..Len(p)
    OBVIOUS
  <2> QED BY <2>1, <2>2 DEF KeptAt, Stays
<1>3. Lists(q, kept) /\ kept \in SUBSET (Nat \ {0})
  <2> HIDE DEF kept
  <2>1. Lists(q, KeptAt(p, Len(p)))
    BY <1>1 DEF Traced
  <2>2. KeptAt(p, Len(p)) \in SUBSET (Nat \ {0})
    BY DEF KeptAt
  <2> QED BY <1>2, <2>1, <2>2
<1> HIDE DEF kept
<1>4. Cardinality(kept) = Len(q) /\ \A x \in 1..Len(q) : Cardinality(kept \cap 1..q[x]) = x
  BY <1>3, Ranks
<1>5. ASSUME NEW x \in 1..Len(q) PROVE Kept(x) = q[x]
  <2>1. q[x] \in kept
    BY <1>3 DEF Lists
  <2>2. \A i \in kept : Cardinality(kept \cap 1..i) = x => i = q[x]
    BY <1>3, <1>4 DEF Lists
  <2> QED BY <1>4, <2>1, <2>2
<1>6. to \in Seq(Names) /\ to = Walk(p)[Len(p)]
  BY Walks, NormalizeType
<1> HIDE DEF to
<1>7. Len(to) = Len(q) /\ \A x \in 1..Len(q) : to[x] = p[q[x]]
  BY <1>1, <1>6 DEF Traced
<1>8. Denoted(p) = [n \in 1..Cardinality(kept) |-> p[Kept(n)]]
  BY DEF Denoted, kept
<1>9. Denoted(p) = [n \in 1..Len(q) |-> p[q[n]]]
  BY <1>4, <1>5, <1>8
<1>10. to = [n \in 1..Len(to) |-> to[n]]
  BY <1>6
<1>11. to = [n \in 1..Len(q) |-> p[q[n]]]
  BY <1>7, <1>10
<1> QED BY <1>9, <1>11 DEF to

LEMMA ResolveSafeMeans ==
  ASSUME NEW home \in Seq(Segments), NEW rel \in Seq(Segments)
  PROVE  ResolveSafe(home, rel) =
           IF ~IsAbsolute(rel) /\ IsPrefix(Normalize(home), Normalize(home \o rel))
           THEN {Normalize(home \o rel)} ELSE {}
<1>1. Normalize(home) \in Seq(Names) /\ Normalize(home) \in Seq(Segments)
  <2>1. Names \subseteq Segments
    BY DEF Segments
  <2> QED BY <2>1, NormalizeType
<1>2. Normalize(Normalize(home)) = Normalize(home)
  BY <1>1, Normal
<1>3. Normalize(Normalize(home) \o rel) = Normalize(home \o rel)
  BY <1>1, <1>2, NormalizeTwice
<1> QED BY <1>3 DEF ResolveSafe

(* For every base and every path: resolveSafe answers exactly if the path  *)
(* is relative and leads into the base, and with the place it leads to, as *)
(* Denoted says it without walking.                                        *)
THEOREM ResolveIsExact ==
  ASSUME NEW home \in Seq(Segments), NEW rel \in Seq(Segments)
  PROVE  ResolveSafe(home, rel) = IF Inside(home, rel) THEN {Denoted(home \o rel)} ELSE {}
<1>1. home \o rel \in Seq(Segments)
  BY Joined
<1>2. Normalize(home) = Denoted(home) /\ Normalize(home \o rel) = Denoted(home \o rel)
  BY <1>1, NormalizeDenoted
<1> QED BY <1>2, ResolveSafeMeans DEF Inside

-----------------------------------------------------------------------------
(* The paths of the entries of a listing.                                  *)

LEMMA Greatest ==
  ASSUME NEW n \in Nat, NEW T, T \subseteq 1..n, T # {}
  PROVE  \E x \in T : \A y \in T : x >= y
<1> DEFINE U == {u \in Nat : \E x \in T : u = n - x}
<1>1. U \subseteq Nat /\ U # {}
  <2>1. PICK x : x \in T
    OBVIOUS
  <2>2. n - x \in U
    BY <2>1
  <2> QED BY <2>2
<1>2. PICK u \in U : \A v \in U : u <= v
  <2> HIDE DEF U
  <2> QED BY <1>1, Least
<1>3. PICK x \in T : u = n - x
  OBVIOUS
<1>4. ASSUME NEW y \in T PROVE x >= y
  <2>1. n - x <= n - y
    <3>1. n - y \in U
      OBVIOUS
    <3> QED BY <1>2, <1>3, <3>1
  <2>2. x \in Int /\ y \in Int
    OBVIOUS
  <2> QED BY <2>1, <2>2
<1> QED BY <1>4

LEMMA MinMax ==
  ASSUME NEW n \in Nat, NEW T, T \subseteq 1..n, T # {}
  PROVE  /\ Min(T) \in T /\ \A y \in T : Min(T) <= y
         /\ Max(T) \in T /\ \A y \in T : Max(T) >= y
<1>1. \E x \in T : \A y \in T : x <= y
  <2>1. T \subseteq Nat
    OBVIOUS
  <2> QED BY <2>1, Least
<1>2. \E x \in T : \A y \in T : x >= y
  BY Greatest
<1> QED BY <1>1, <1>2, Zenon DEF Min, Max

(* The folder without the slashes around it.                               *)
Core(dir, a, z) ==
  /\ a \in 1..Len(dir) /\ z \in a..Len(dir) /\ dir[a] # ""
  /\ Empty(dir, 0, a - 1) /\ Empty(dir, z, Len(dir) - z)

LEMMA JoinMeans ==
  ASSUME NEW dir \in Seq(Segments), NEW name \in Names
  PROVE  \/ RelJoin(dir, name) = <<name>> /\ Empty(dir, 0, Len(dir))
         \/ \E a, z \in 1..Len(dir) :
              /\ Core(dir, a, z)
              /\ RelJoin(dir, name) = Append(SubSeq(dir, a, z), name)
<1> DEFINE D == DOMAIN dir
           Before == {i \in D : \E j \in 1..i : dir[j] # ""}
           After == {i \in D : \E j \in i..Len(dir) : dir[j] # ""}
           kept == Before \cap After
           a == Min(kept)
           z == Max(kept)
<1>1. D = 1..Len(dir) /\ Len(dir) \in Nat
  OBVIOUS
<1>2. ASSUME NEW k \in 1..Len(dir), dir[k] # "" PROVE k \in kept
  <2>1. k \in 1..k /\ k \in k..Len(dir) /\ k \in D
    BY <1>1
  <2> QED BY <1>2, <2>1
<1>3. RelJoin(dir, name) = IF kept = {} THEN <<name>> ELSE Append(SubSeq(dir, a, z), name)
  BY DEF RelJoin
<1>4. CASE kept = {}
  <2>1. \A k \in 1..Len(dir) : 0 + k = k
    OBVIOUS
  <2>2. Empty(dir, 0, Len(dir))
    BY <1>2, <1>4, <2>1 DEF Empty
  <2> QED BY <1>3, <1>4, <2>2
<1>5. CASE kept # {}
  <2>1. kept \subseteq 1..Len(dir)
    BY <1>1
  <2>2. /\ a \in kept /\ \A y \in kept : a <= y
        /\ z \in kept /\ \A y \in kept : z >= y
    <3> HIDE DEF kept
    <3> QED BY <1>1, <1>5, <2>1, MinMax
  <2>3. PICK j \in 1..a : dir[j] # ""
    BY <2>2
  <2> HIDE DEF kept, a, z
  <2>4. a \in 1..Len(dir) /\ z \in a..Len(dir) /\ z \in 1..Len(dir)
    BY <2>1, <2>2
  <2>5. j = a
    <3>1. j \in 1..Len(dir)
      BY <2>4
    <3>2. a <= j
      BY <1>2, <2>2, <2>3, <3>1
    <3> QED BY <2>4, <3>2
  <2>6. Empty(dir, 0, a - 1)
    <3> SUFFICES ASSUME NEW k \in 1..a-1 PROVE dir[0 + k] = ""
      BY DEF Empty
    <3>1. 0 + k \in 1..Len(dir) /\ ~(a <= 0 + k)
      BY <2>4
    <3> QED BY <1>2, <2>2, <3>1
  <2>7. Empty(dir, z, Len(dir) - z)
    <3> SUFFICES ASSUME NEW k \in 1..Len(dir)-z PROVE dir[z + k] = ""
      BY DEF Empty
    <3>1. z + k \in 1..Len(dir) /\ ~(z >= z + k)
      BY <2>4
    <3> QED BY <1>2, <2>2, <3>1
  <2>8. Core(dir, a, z)
    BY <2>3, <2>4, <2>5, <2>6, <2>7 DEF Core
  <2> QED BY <1>3, <1>5, <2>4, <2>8
<1> QED BY <1>4, <1>5

LEMMA SubSeqMeans ==
  ASSUME NEW S, NEW s \in Seq(S), NEW a \in 1..Len(s), NEW z \in a..Len(s)
  PROVE  /\ SubSeq(s, a, z) \in Seq(S) /\ Len(SubSeq(s, a, z)) = z - a + 1
         /\ \A i \in 1..z-a+1 : SubSeq(s, a, z)[i] = s[a + i - 1]
OBVIOUS

LEMMA AppendMeans ==
  ASSUME NEW S, NEW s \in Seq(S), NEW e \in S
  PROVE  /\ Append(s, e) \in Seq(S) /\ Len(Append(s, e)) = Len(s) + 1
         /\ \A i \in 1..Len(s) : Append(s, e)[i] = s[i]
         /\ Append(s, e)[Len(s) + 1] = e
OBVIOUS

(* One segment more is one step more.                                      *)
LEMMA OneMore ==
  ASSUME NEW q \in Seq(Segments), NEW n \in Nat, Len(q) = n + 1, q[n+1] \in Names
  PROVE  Normalize(q) = Append(Walk(q)[n], q[n+1])
<1>1. Walk(q)[n+1] = Enter(Walk(q)[n], q[n+1])
  <2>1. n + 1 \in 1..Len(q) /\ (n + 1) - 1 = n
    OBVIOUS
  <2> QED BY <2>1, Walks
<1>2. q[n+1] \in Segments
  BY DEF Segments
<1>3. Normalize(q) = Walk(q)[n+1]
  BY Walks
<1>4. Enter(Walk(q)[n], q[n+1]) = Append(Walk(q)[n], q[n+1])
  BY <1>2, Kinds
<1> QED BY <1>1, <1>3, <1>4

(* A stretch of empty segments stays one when the base is put before it.   *)
LEMMA EmptyBehind ==
  ASSUME NEW b \in Seq(Segments), NEW r \in Seq(Segments),
         NEW i \in Nat, NEW n \in Nat, i + n <= Len(r), Empty(r, i, n)
  PROVE  /\ Empty(b \o r, Len(b) + i, n)
         /\ (Len(b) + i) + n <= Len(b \o r) /\ Len(b) + i \in Nat
<1>1. /\ Len(b \o r) = Len(b) + Len(r) /\ Len(b) \in Nat
      /\ \A k \in 1..Len(r) : (b \o r)[Len(b) + k] = r[k]
  BY Joined
<1> DEFINE p == b \o r
<1> HIDE DEF p
<1>2. ASSUME NEW k \in 1..n PROVE p[(Len(b) + i) + k] = r[i + k]
  <2>1. (Len(b) + i) + k = Len(b) + (i + k) /\ i + k \in 1..Len(r)
    BY <1>1
  <2> QED BY <1>1, <2>1 DEF p
<1>3. Empty(p, Len(b) + i, n)
  BY <1>2 DEF Empty
<1> QED BY <1>1, <1>3 DEF p

LEMMA JoinLeadsBack ==
  ASSUME NEW home \in Seq(Segments), NEW dir \in Seq(Segments), NEW name \in Names
  PROVE  /\ RelJoin(dir, name) \in Seq(Segments)
         /\ ~IsAbsolute(RelJoin(dir, name))
         /\ Normalize(home \o RelJoin(dir, name)) = Append(Normalize(home \o dir), name)
<1> DEFINE p == home \o dir
           rel == RelJoin(dir, name)
           q == home \o rel
           B == Len(home)
<1>1. /\ p \in Seq(Segments) /\ Len(p) = B + Len(dir) /\ B \in Nat
      /\ \A i \in 1..Len(dir) : p[B + i] = dir[i]
  BY Joined
<1>2. Walk(p)[B] = Normalize(home)
  BY Passes
<1>3. name \in Segments
  BY DEF Segments
<1>4. ASSUME rel \in Seq(Segments), Len(rel) = 1, rel[1] = name, Empty(dir, 0, Len(dir))
      PROVE  ~IsAbsolute(rel) /\ Normalize(q) = Append(Normalize(p), name)
  <2>1. ~IsAbsolute(rel)
    BY <1>4 DEF IsAbsolute
  <2>2. q \in Seq(Segments) /\ Len(q) = B + 1 /\ q[B + 1] = name
    <3> HIDE DEF rel
    <3>0. rel \in Seq(Segments)
      BY <1>4
    <3>1. /\ q \in Seq(Segments) /\ Len(q) = B + Len(rel)
          /\ \A i \in 1..Len(rel) : q[B + i] = rel[i]
      BY <3>0, Joined
    <3> QED BY <1>4, <3>1
  <2>3. Walk(q)[B] = Normalize(home)
    BY <1>4, Passes
  <2>4. Walk(p)[(B + 0) + Len(dir)] = Walk(p)[B + 0]
    <3>1. 0 \in Nat /\ Len(dir) \in Nat /\ 0 + Len(dir) <= Len(dir)
      OBVIOUS
    <3>2. Empty(p, B + 0, Len(dir)) /\ (B + 0) + Len(dir) <= Len(p) /\ B + 0 \in Nat
      BY <1>4, <3>1, EmptyBehind
    <3> HIDE DEF p, B
    <3> QED BY <1>1, <3>1, <3>2, Waits
  <2>5. Normalize(p) = Walk(p)[B + Len(dir)]
    BY <1>1, Walks
  <2> HIDE DEF p, q, B
  <2>6. Normalize(q) = Append(Walk(q)[B], q[B + 1])
    BY <1>1, <2>2, OneMore
  <2>7. B + 0 = B
    BY <1>1
  <2> QED BY <1>2, <2>1, <2>2, <2>3, <2>4, <2>5, <2>6, <2>7
<1>5. ASSUME NEW a \in 1..Len(dir), NEW z \in 1..Len(dir), Core(dir, a, z),
             rel = Append(SubSeq(dir, a, z), name)
      PROVE  rel \in Seq(Segments) /\ ~IsAbsolute(rel) /\ Normalize(q) = Append(Normalize(p), name)
  <2> DEFINE n == z - a + 1
  <2>0. dir[a] # ""
    BY <1>5 DEF Core
  <2>1. /\ n \in Nat \ {0} /\ z \in a..Len(dir)
        /\ a - 1 \in Nat /\ Len(dir) - z \in Nat /\ Len(dir) \in Nat
    <3>1. z \in a..Len(dir)
      BY <1>5 DEF Core
    <3> QED BY <3>1
  <2>2. /\ SubSeq(dir, a, z) \in Seq(Segments) /\ Len(SubSeq(dir, a, z)) = n
        /\ \A i \in 1..n : SubSeq(dir, a, z)[i] = dir[a + i - 1]
    BY <2>1, SubSeqMeans
  <2>3. /\ rel \in Seq(Segments) /\ Len(rel) = n + 1 /\ rel[n + 1] = name
        /\ \A i \in 1..n : rel[i] = dir[a + i - 1]
    BY <1>3, <1>5, <2>2, AppendMeans
  <2> HIDE DEF rel
  <2>4. ~IsAbsolute(rel)
    <3>1. rel[1] = dir[a]
      BY <2>1, <2>3
    <3> QED BY <2>0, <3>1 DEF IsAbsolute
  <2>5. /\ q \in Seq(Segments) /\ Len(q) = B + (n + 1)
        /\ \A i \in 1..n+1 : q[B + i] = rel[i]
    <3>0. rel \in Seq(Segments)
      BY <2>3
    <3>1. /\ q \in Seq(Segments) /\ Len(q) = B + Len(rel)
          /\ \A i \in 1..Len(rel) : q[B + i] = rel[i]
      BY <3>0, Joined
    <3> QED BY <2>3, <3>1
  <2>6. Walk(q)[B] = Normalize(home)
    BY <2>3, Passes
  <2>7. Normalize(p) = Walk(p)[B + Len(dir)]
    BY <1>1, Walks
  <2> HIDE DEF p, q, B, n
  <2>8. Walk(p)[B + (a - 1)] = Walk(p)[B]
    <3>1. /\ 0 \in Nat /\ a - 1 \in Nat /\ 0 + (a - 1) <= Len(dir)
          /\ B + 0 = B /\ (B + 0) + (a - 1) = B + (a - 1)
      BY <1>1, <2>1
    <3>2. Empty(dir, 0, a - 1)
      BY <1>5 DEF Core
    <3>3. Empty(p, B + 0, a - 1) /\ (B + 0) + (a - 1) <= Len(p) /\ B + 0 \in Nat
      BY <3>1, <3>2, EmptyBehind DEF p, B
    <3>4. Walk(p)[(B + 0) + (a - 1)] = Walk(p)[B + 0]
      BY <1>1, <3>1, <3>3, Waits
    <3> QED BY <3>1, <3>4
  <2>9. Walk(p)[(B + (a - 1)) + n] = Walk(q)[B + n]
    <3>1. Alike(p, B + (a - 1), q, B, n)
      <4> SUFFICES ASSUME NEW k \in 1..n PROVE p[(B + (a - 1)) + k] = q[B + k]
        BY DEF Alike
      <4>1. (B + (a - 1)) + k = B + (a + k - 1) /\ a + k - 1 \in 1..Len(dir) /\ k \in 1..n+1
        BY <1>1, <2>1 DEF n
      <4> QED BY <1>1, <2>3, <2>5, <4>1
    <3>2. /\ (B + (a - 1)) + n <= Len(p) /\ B + n <= Len(q)
          /\ B + (a - 1) \in Nat /\ n \in Nat
      BY <1>1, <2>1, <2>5 DEF n
    <3>3. Walk(p)[B + (a - 1)] = Walk(q)[B]
      BY <1>2, <2>6, <2>8
    <3>4. B \in Nat /\ p \in Seq(Segments) /\ q \in Seq(Segments)
      BY <1>1, <2>5
    <3> QED BY <3>1, <3>2, <3>3, <3>4, Together
  <2>10. (B + (a - 1)) + n = B + z /\ (B + z) + (Len(dir) - z) = B + Len(dir)
    BY <1>1, <2>1 DEF n
  <2>11. Walk(p)[(B + z) + (Len(dir) - z)] = Walk(p)[B + z]
    <3>1. z \in Nat /\ Len(dir) - z \in Nat /\ z + (Len(dir) - z) <= Len(dir)
      BY <2>1
    <3>2. Empty(dir, z, Len(dir) - z)
      BY <1>5 DEF Core
    <3>3. Empty(p, B + z, Len(dir) - z) /\ (B + z) + (Len(dir) - z) <= Len(p) /\ B + z \in Nat
      BY <3>1, <3>2, EmptyBehind DEF p, B
    <3> QED BY <1>1, <3>1, <3>3, Waits
  <2>12. Normalize(q) = Append(Walk(q)[B + n], q[(B + n) + 1])
    <3>1. B + n \in Nat /\ Len(q) = (B + n) + 1 /\ (B + n) + 1 = B + (n + 1) /\ n + 1 \in 1..n+1
      BY <1>1, <2>1, <2>5 DEF n
    <3>2. q[(B + n) + 1] = name
      BY <2>3, <2>5, <3>1
    <3> QED BY <2>5, <3>1, <3>2, OneMore
  <2>13. q[(B + n) + 1] = name
    <3>1. (B + n) + 1 = B + (n + 1) /\ n + 1 \in 1..n+1
      BY <1>1, <2>1 DEF n
    <3> QED BY <2>3, <2>5, <3>1
  <2> QED BY <2>3, <2>4, <2>7, <2>9, <2>10, <2>11, <2>12, <2>13
<1>6. CASE rel = <<name>> /\ Empty(dir, 0, Len(dir))
  <2>1. rel \in Seq(Segments) /\ Len(rel) = 1 /\ rel[1] = name
    BY <1>3, <1>6
  <2> QED BY <1>4, <1>6, <2>1
<1> QED BY <1>5, <1>6, JoinMeans

LEMMA PrefixGrows ==
  ASSUME NEW S, NEW s \in Seq(S), NEW t \in Seq(S), NEW e \in S, IsPrefix(s, t)
  PROVE  IsPrefix(s, Append(t, e))
BY DEF IsPrefix

(* What an entry's path leads to is the entry.                             *)
LEMMA EntryResolves ==
  ASSUME NEW home \in Seq(Segments), NEW dir \in Seq(Segments), NEW name \in Names,
         NEW folder \in ResolveSafe(home, dir)
  PROVE  ResolveSafe(home, RelJoin(dir, name)) = {Append(folder, name)}
<1> DEFINE rel == RelJoin(dir, name)
           b == Normalize(home)
<1>1. rel \in Seq(Segments) /\ ~IsAbsolute(rel)
      /\ Normalize(home \o rel) = Append(Normalize(home \o dir), name)
  BY JoinLeadsBack
<1>2. folder = Normalize(home \o dir) /\ IsPrefix(b, folder)
  BY ResolveSafeMeans
<1>3. folder \in Seq(Names) /\ b \in Seq(Names)
  BY <1>2, NormalizeType, Joined
<1> HIDE DEF rel, b
<1>4. IsPrefix(b, Append(folder, name))
  BY <1>2, <1>3, PrefixGrows
<1> QED BY <1>1, <1>2, <1>4, ResolveSafeMeans DEF rel, b

-----------------------------------------------------------------------------
(* What the client receives of a request that is streamed to the end.      *)

(* FlattenSeq adds one sequence after the other.                           *)
LEMMA Flattens ==
  ASSUME NEW S, NEW seqs \in Seq(Seq(S)), Len(seqs) > 0
  PROVE  \E f \in [1..Len(seqs) -> Seq(S)] :
           /\ FlattenSeq(seqs) = f[Len(seqs)]
           /\ f[1] = seqs[1]
           /\ \A i \in 2..Len(seqs) : f[i] = f[i-1] \o seqs[i]
<1> DEFINE n == Len(seqs)
           T == Seq(S)
           none == <<>>
           move == [ix \in (1..n) \X T |-> ix[2] \o seqs[ix[1]]]
           Adds(f) == f = [i \in 1..n |-> IF i = 1 THEN seqs[i] ELSE f[i-1] \o seqs[i]]
           flatten == CHOOSE f : Adds(f)
<1>1. n \in Nat \ {0} /\ none \in T /\ \A i \in 1..n : seqs[i] \in T
  OBVIOUS
<1>2. move \in [(1..n) \X T -> T]
  <2>1. \A ix \in (1..n) \X T : ix[2] \in Seq(S) /\ seqs[ix[1]] \in Seq(S)
    BY <1>1
  <2>2. \A ix \in (1..n) \X T : ix[2] \o seqs[ix[1]] \in T
    BY <2>1, Joined
  <2> QED BY <2>2
<1>3. PICK g \in [0..n -> T] : Follows(g, none, n, move)
  <2> HIDE DEF move, n, T, none
  <2> QED BY <1>1, <1>2, RecursionExists, Zenon
<1>4. g[0] = <<>> /\ \A i \in 1..n : g[i] = g[i-1] \o seqs[i]
  <2>1. ASSUME NEW i \in 1..n PROVE g[i] = g[i-1] \o seqs[i]
    <3> HIDE DEF T
    <3>0. i - 1 \in 0..n
      BY <1>1
    <3>1. g[i-1] \in T
      BY <1>3, <3>0
    <3>2. move[<<i, g[i-1]>>] = g[i-1] \o seqs[i]
      BY <3>1
    <3> QED BY <1>3, <3>2 DEF Follows
  <2> QED BY <1>3, <2>1 DEF Follows
<1>5. g[1] = seqs[1]
  <2>1. 1 \in 1..n /\ seqs[1] \in Seq(S) /\ 1 - 1 = 0
    BY <1>1
  <2>2. <<>> \o seqs[1] = seqs[1]
    BY <2>1
  <2> QED BY <1>4, <2>1, <2>2
<1> DEFINE h == [i \in 1..n |-> g[i]]
<1>6. Adds(h)
  <2>1. ASSUME NEW i \in 1..n PROVE h[i] = IF i = 1 THEN seqs[i] ELSE h[i-1] \o seqs[i]
    <3>1. CASE i = 1
      BY <1>5, <3>1
    <3>2. CASE i # 1
      <4>1. i - 1 \in 1..n
        BY <1>1, <3>2
      <4> QED BY <1>4, <3>2, <4>1
    <3> QED BY <3>1, <3>2
  <2> QED BY <2>1
<1>7. Adds(flatten)
  <2> HIDE DEF Adds, h
  <2> QED BY <1>6, Zenon
<1>8. FlattenSeq(seqs) = flatten[n]
  <2>1. ~(Len(seqs) = 0)
    BY <1>1
  <2> QED BY <2>1, Zenon DEF FlattenSeq
<1> HIDE DEF flatten
<1>9. flatten[1] = seqs[1] /\ \A i \in 2..n : flatten[i] = flatten[i-1] \o seqs[i]
  <2>1. flatten = [i \in 1..n |-> IF i = 1 THEN seqs[i] ELSE flatten[i-1] \o seqs[i]]
    BY <1>7
  <2>2. 1 \in 1..n /\ \A i \in 2..n : i \in 1..n /\ i # 1
    BY <1>1
  <2> HIDE DEF n
  <2> QED BY <2>1, <2>2
<1>10. flatten \in [1..n -> T]
  <2> DEFINE Good == {i \in 0..n : i > 0 => flatten[i] \in T}
  <2>1. 0 \in Good
    BY <1>1
  <2>2. ASSUME NEW k \in 0..n-1, k \in Good PROVE k + 1 \in Good
    <3>1. k + 1 \in 1..n /\ k + 1 \in 0..n /\ (k + 1) - 1 = k
      BY <1>1
    <3>2. CASE k = 0
      BY <1>1, <1>9, <3>1, <3>2
    <3>3. CASE k > 0
      <4>1. k + 1 \in 2..n /\ flatten[k] \in Seq(S) /\ seqs[k+1] \in Seq(S)
        BY <1>1, <2>2, <3>1, <3>3
      <4>2. flatten[k+1] = flatten[k] \o seqs[k+1]
        BY <1>9, <3>1, <4>1
      <4>3. flatten[k] \o seqs[k+1] \in Seq(S)
        BY <4>1, Joined
      <4> HIDE DEF n
      <4> QED BY <3>1, <4>2, <4>3
    <3> QED BY <3>2, <3>3
  <2>3. \A k \in 0..n : k \in Good
    <3> HIDE DEF Good
    <3> QED BY <1>1, <2>1, <2>2, Induction
  <2>4. \A i \in 1..n : flatten[i] \in T
    BY <1>1, <2>3
  <2>5. flatten = [i \in 1..n |-> flatten[i]]
    BY <1>7
  <2> HIDE DEF T, n
  <2> QED BY <2>4, <2>5
<1> QED BY <1>8, <1>9, <1>10

(* The pieces lie end to end from Start to End.                            *)
LEMMA PiecesJoin ==
  /\ NumChunks > 0 => /\ Offset(0) = Start
                      /\ Offset(NumChunks - 1) + ChunkLen(NumChunks - 1) = End + 1
  /\ NumChunks = 0 => End = Start - 1
  /\ \A c \in Chunks : c + 1 \in Chunks => Offset(c) + ChunkLen(c) = Offset(c + 1)
<1> DEFINE q == (End - Start) \div ChunkSize
           n == End - Start
<1>1. CASE End < Start
  <2>1. NumChunks = 0 /\ Chunks = {}
    BY <1>1 DEF NumChunks, Chunks
  <2> QED BY <1>1, <2>1, SpanAssumption
<1>2. CASE ~(End < Start)
  <2>1. n \in Nat /\ ChunkSize \in Nat \ {0} /\ Start \in Int /\ End = Start + n
    BY <1>2, SpanAssumption, SizeAssumption
  <2>2. q \in Nat /\ q * ChunkSize <= n /\ n < q * ChunkSize + ChunkSize
    BY <2>1, DivBound
  <2>4. NumChunks = q + 1
    BY <1>2 DEF NumChunks
  <2> HIDE DEF q, n
  <2>5. ASSUME NEW c \in 0..q-1 PROVE Offset(c) + ChunkLen(c) = Offset(c + 1)
    <3>1. c * ChunkSize \in Int /\ q * ChunkSize \in Int
          /\ (c + 1) * ChunkSize = c * ChunkSize + ChunkSize
          /\ (c + 1) * ChunkSize <= q * ChunkSize
      BY <2>1, <2>2, SMT
    <3>2. Offset(c) + ChunkSize <= End + 1
      BY <2>1, <2>2, <3>1 DEF Offset
    <3> QED BY <2>1, <3>1, <3>2 DEF Offset, ChunkLen
  <2>6. Offset(q) + ChunkLen(q) = End + 1
    <3>1. q * ChunkSize \in Int
      BY <2>1, <2>2, SMT
    <3> QED BY <2>1, <2>2, <3>1 DEF Offset, ChunkLen
  <2>7. Offset(0) = Start
    BY <2>1 DEF Offset
  <2> QED BY <2>2, <2>4, <2>5, <2>6, <2>7 DEF Chunks
<1> QED BY <1>1, <1>2

(* Once every piece is written, dst holds the span.                        *)
LEMMA WholeBody ==
  ASSUME out \in Seq(Seq(Int)), Len(out) = NumChunks, InOrder
  PROVE  FlattenSeq(out) = Bytes(Start, End - Start + 1)
<1>1. NumChunks \in Nat /\ Start \in Int /\ End \in Int
  BY NumChunksNat, SpanAssumption
<1>2. CASE NumChunks = 0
  <2>1. FlattenSeq(out) = out /\ out = <<>>
    BY <1>2 DEF FlattenSeq
  <2>2. Bytes(Start, 0) = <<>>
    BY DEF Bytes
  <2>3. End - Start + 1 = 0
    BY <1>1, <1>2, PiecesJoin
  <2> QED BY <2>1, <2>2, <2>3
<1>3. CASE NumChunks > 0
  <2>1. \A i \in 1..NumChunks : out[i] = Bytes(Offset(i-1), ChunkLen(i-1))
    BY <1>1 DEF InOrder, Content
  <2>2. PICK f \in [1..Len(out) -> Seq(Int)] :
          /\ FlattenSeq(out) = f[Len(out)]
          /\ f[1] = out[1]
          /\ \A i \in 2..Len(out) : f[i] = f[i-1] \o out[i]
    BY <1>3, Flattens
  <2> DEFINE Upto(i) == Offset(i-1) + ChunkLen(i-1) - Start
             Good == {i \in 0..NumChunks : i > 0 => Upto(i) \in Nat /\ f[i] = Bytes(Start, Upto(i))}
  <2>3. 0 \in Good
    BY <1>1
  <2>4. ASSUME NEW k \in 0..NumChunks-1, k \in Good PROVE k + 1 \in Good
    <3>1. k \in Chunks /\ k + 1 \in 1..NumChunks /\ k + 1 \in 0..NumChunks /\ (k + 1) - 1 = k
      BY <1>1 DEF Chunks
    <3>2. Offset(k) \in Int /\ ChunkLen(k) \in Nat
      BY <3>1, ChunkTypes
    <3>3. out[k+1] = Bytes(Offset(k), ChunkLen(k)) /\ Upto(k + 1) = Offset(k) + ChunkLen(k) - Start
      BY <2>1, <3>1
    <3>4. CASE k = 0
      <4>1. Upto(k + 1) = ChunkLen(k) /\ Offset(k) = Start
        BY <1>1, <1>3, <3>2, <3>3, <3>4, PiecesJoin
      <4> QED BY <2>2, <3>1, <3>2, <3>3, <3>4, <4>1
    <3>5. CASE k > 0
      <4>1. k - 1 \in Chunks /\ (k - 1) + 1 = k /\ k + 1 \in 2..Len(out)
        BY <1>1, <3>1, <3>5 DEF Chunks
      <4>2. Upto(k) = Offset(k) - Start
        <5>1. Offset(k-1) + ChunkLen(k-1) = Offset((k-1) + 1)
          BY <3>1, <4>1, PiecesJoin
        <5>2. Offset(k-1) \in Int /\ ChunkLen(k-1) \in Nat
          BY <4>1, ChunkTypes
        <5> QED BY <1>1, <3>2, <4>1, <5>1, <5>2
      <4>3. Upto(k) \in Nat /\ f[k] = Bytes(Start, Upto(k))
        BY <2>4, <3>5
      <4>4. f[k+1] = f[k] \o out[k+1]
        BY <2>2, <3>1, <4>1
      <4>5. Start + Upto(k) = Offset(k) /\ Upto(k + 1) = Upto(k) + ChunkLen(k)
        BY <1>1, <3>2, <3>3, <4>2
      <4> HIDE DEF Upto
      <4>6. Bytes(Start, Upto(k)) \o Bytes(Start + Upto(k), ChunkLen(k)) = Bytes(Start, Upto(k) + ChunkLen(k))
        BY <1>1, <3>2, <4>3, BytesConcat
      <4>7. f[k] \o out[k+1] = Bytes(Start, Upto(k + 1))
        BY <3>3, <4>3, <4>5, <4>6
      <4>8. Upto(k + 1) \in Nat
        BY <3>2, <4>3, <4>5
      <4> QED BY <3>1, <4>4, <4>7, <4>8
    <3> QED BY <3>4, <3>5
  <2>5. \A k \in 0..NumChunks : k \in Good
    <3> HIDE DEF Good
    <3> QED BY <1>1, <2>3, <2>4, Induction
  <2>6. f[NumChunks] = Bytes(Start, Upto(NumChunks))
    BY <1>1, <1>3, <2>5
  <2>7. Upto(NumChunks) = End - Start + 1
    <3>1. Offset(NumChunks - 1) + ChunkLen(NumChunks - 1) = End + 1
      BY <1>3, PiecesJoin
    <3>2. NumChunks - 1 \in Chunks
      BY <1>1, <1>3 DEF Chunks
    <3>3. Offset(NumChunks - 1) \in Int /\ ChunkLen(NumChunks - 1) \in Nat
      BY <3>2, ChunkTypes
    <3> DEFINE o == Offset(NumChunks - 1)
               l == ChunkLen(NumChunks - 1)
    <3>4. Upto(NumChunks) = o + l - Start
      OBVIOUS
    <3>5. o + l = End + 1 /\ o \in Int /\ l \in Int
      BY <3>1, <3>3
    <3> HIDE DEF o, l, Upto, Good
    <3> QED BY <1>1, <3>5, <3>4
  <2> QED BY <2>2, <2>6, <2>7
<1> QED BY <1>1, <1>2, <1>3

-----------------------------------------------------------------------------
(* The endpoint's own properties.                                          *)

(* What the storage is asked for is what resolveSafe made of the path and  *)
(* the base as loaded last, and 403 says that it made nothing of it.       *)
Answered ==
  /\ request \in Requests
  /\ base \in Seq(Segments)
  /\ abs # {} => abs = ResolveSafe(base, request.path)
  /\ step \in {"statting", "leasing", "streaming"} => abs # {}
  /\ status = 403 => step = "over" /\ ResolveSafe(base, request.path) = {}

LEMMA AnswerStatus ==
  ASSUME NEW h, NEW size
  PROVE  Answer(h, size).status \in {200, 206, 416}
BY DEF Answer

(* However a step sets the headers, it is not to 403.                      *)
LEMMA RespondStatus == Respond => status' # 403 /\ step' \in {"opening", "over"}
BY AnswerStatus DEF Respond

LEMMA ResolveType == Resolve => base' \in Seq(Segments) /\ abs' = ResolveSafe(base', request.path)
BY BasesAssumption DEF Resolve

LEMMA AnsweredStep == Answered /\ [FileNext]_fileVars => Answered'
<1> SUFFICES ASSUME Answered, [FileNext]_fileVars PROVE Answered'
  OBVIOUS
<1>1. request' = request
  BY SameRequest
<1>2. CASE Begin
  <2>1. base' = base /\ abs' = abs /\ status # 403
    BY <1>2 DEF Begin, Answered
  <2>2. Throw({400}) \/ Respond \/ (step' = "loading" /\ UNCHANGED status)
    BY <1>2 DEF Begin
  <2>3. status' # 403 /\ step' \in {"loading", "opening", "over"}
    BY <2>1, <2>2, RespondStatus DEF Throw
  <2> QED  BY <1>1, <2>1, <2>3 DEF Answered
<1>3. CASE Load
  <2>1. status # 403
    BY <1>3 DEF Load, Answered
  <2>2. CASE Throw({404, 500}) /\ UNCHANGED <<base, abs>>
    BY <1>1, <2>2 DEF Answered, Throw
  <2>3. CASE Resolve /\ abs' = {} /\ Throw({403})
    BY <1>1, <2>3, ResolveType DEF Answered, Throw
  <2>4. CASE Resolve /\ abs' # {} /\ step' = "statting" /\ UNCHANGED status
    BY <1>1, <2>1, <2>4, ResolveType DEF Answered
  <2> QED  BY <1>3, <2>2, <2>3, <2>4 DEF Load
<1>4. CASE Stat
  <2>1. base' = base /\ abs' = abs
    BY <1>4 DEF Stat
  <2>2. status' # 403 /\ step' \in {"opening", "over"}
    BY <1>4, RespondStatus DEF Stat, Throw
  <2> QED  BY <1>1, <2>1, <2>2 DEF Answered
<1>5. CASE Open
  <2>1. status' = status /\ status # 403
    BY <1>5 DEF Open, Cut, Answered
  <2>2. CASE Cut /\ UNCHANGED <<base, abs>>
    BY <1>1, <2>1, <2>2 DEF Answered, Cut
  <2>3. CASE Resolve /\ abs' = {} /\ Cut
    BY <1>1, <2>1, <2>3, ResolveType DEF Answered, Cut
  <2>4. CASE Resolve /\ abs' # {} /\ step' = "leasing" /\ UNCHANGED status
    BY <1>1, <2>1, <2>4, ResolveType DEF Answered
  <2> QED  BY <1>5, <2>2, <2>3, <2>4 DEF Open
<1>6. CASE Lease
  <2>1. base' = base /\ abs' = abs /\ status' = status /\ step' \in {"over", "streaming"}
    BY <1>6 DEF Lease, Cut
  <2>2. status # 403 /\ abs # {}
    BY <1>6 DEF Lease, Answered
  <2> QED  BY <1>1, <2>1, <2>2 DEF Answered
<1>7. CASE UNCHANGED endpoint
  BY <1>7 DEF Answered, endpoint
<1> QED  BY <1>2, <1>3, <1>4, <1>5, <1>6, <1>7 DEF FileNext, Reader, fileVars

LEMMA AnsweredAlways == FileSpec => []Answered
<1>1. FileInit => Answered
  BY DEF FileInit, Answered
<1> QED  BY <1>1, AnsweredStep, PTL DEF FileSpec

(* For every path, however long and with slashes and ".." wherever it      *)
(* likes, and whatever base path the profile has each time it is loaded,   *)
(* with the size from the cache or not: the storage is asked for nothing   *)
(* that is not inside the base as loaded last, and always for the place    *)
(* the path leads to; 403 is for the paths that lead outside only.         *)
THEOREM RequestsStayInside == FileSpec => []StaysInside
<1>1. Answered => StaysInside
  <2> SUFFICES ASSUME Answered PROVE StaysInside
    OBVIOUS
  <2>1. ResolveSafe(base, request.path) =
          IF Inside(base, request.path) THEN {Denoted(base \o request.path)} ELSE {}
    BY RequestsAssumption, ResolveIsExact DEF Answered
  <2> QED  BY <2>1 DEF Answered, StaysInside
<1> QED  BY <1>1, AnsweredAlways, PTL

(* Whatever folder was listed, by whatever path, the path that relJoin     *)
(* gives an entry of it resolves to that entry, and to nothing else.       *)
THEOREM ListedEntriesResolve == FileSpec => []EntriesLeadBack
<1>1. Answered => EntriesLeadBack
  BY RequestsAssumption, EntryResolves DEF Answered, EntriesLeadBack
<1> QED  BY <1>1, AnsweredAlways, PTL

(* The bytes of a span are its positions, each once and in order.          *)
LEMMA BytesOfSpan ==
  ASSUME NEW o \in Int, NEW n \in Nat
  PROVE  /\ Len(Bytes(o, n)) = n /\ DOMAIN Bytes(o, n) = 1..n
         /\ {Bytes(o, n)[i] : i \in 1..n} = o .. o + n - 1
         /\ \A i \in 1 .. n - 1 : Bytes(o, n)[i] < Bytes(o, n)[i + 1]
<1> DEFINE b == Bytes(o, n)
<1>1. Len(b) = n /\ DOMAIN b = 1..n /\ \A i \in 1..n : b[i] = o + i - 1
  BY DEF Bytes
<1> HIDE DEF b
<1>2. ASSUME NEW p \in o .. o + n - 1 PROVE \E i \in 1..n : b[i] = p
  <2>1. p - o + 1 \in 1..n /\ o + (p - o + 1) - 1 = p
    OBVIOUS
  <2> QED  BY <1>1, <2>1
<1>3. \A i \in 1..n : b[i] \in o .. o + n - 1
  BY <1>1
<1>4. {b[i] : i \in 1..n} = o .. o + n - 1
  BY <1>2, <1>3
<1>5. \A i \in 1 .. n - 1 : b[i] < b[i + 1]
  BY <1>1
<1> QED  BY <1>1, <1>4, <1>5 DEF b

(* Whatever the range, the chunk size, the window and the order of the     *)
(* replies: when the reader has written its last buffer, the client has    *)
(* every byte the header asks for, once and in order, and as many as       *)
(* Content-Length says.                                                    *)
THEOREM BodyIsWhatWasAsked == FileSpec => []DeliversWhatWasAsked
<1>1. TypeOK /\ InOrder /\ AnswersExactly => DeliversWhatWasAsked
  <2> SUFFICES ASSUME TypeOK, InOrder, AnswersExactly, Streaming, Len(out) = NumChunks
               PROVE  LET body == FlattenSeq(out)
                      IN  /\ Len(body) = Answer(request.header, request.size).length
                          /\ {body[i] : i \in DOMAIN body} = Asked(request.header, request.size)
                          /\ \A i \in 1 .. Len(body) - 1 : body[i] < body[i + 1]
    BY DEF DeliversWhatWasAsked
  <2> DEFINE n == End - Start + 1
             body == FlattenSeq(out)
             asked == Asked(request.header, request.size)
             length == Answer(request.header, request.size).length
  <2>1. n \in Nat /\ Start \in Int /\ Start + n - 1 = End
    BY SpanAssumption
  <2>2. body = Bytes(Start, n)
    BY WholeBody DEF TypeOK
  <2>3. asked = Start .. End /\ length = Cardinality(asked)
    BY DEF AnswersExactly, Exact, Streaming
  <2>4. Cardinality(Start .. Start + n - 1) = n
    <3>1. Start \in Nat
      BY SpanAssumption
    <3> HIDE DEF n
    <3> QED  BY <2>1, <3>1, IntervalCardinality
  <2> HIDE DEF n, body, asked, length
  <2>5. length = n
    BY <2>1, <2>3, <2>4
  <2>6. /\ Len(body) = n /\ DOMAIN body = 1..n
        /\ {body[i] : i \in 1..n} = Start .. Start + n - 1
        /\ \A i \in 1 .. n - 1 : body[i] < body[i + 1]
    <3>1. /\ Len(Bytes(Start, n)) = n /\ DOMAIN Bytes(Start, n) = 1..n
          /\ {Bytes(Start, n)[i] : i \in 1..n} = Start .. Start + n - 1
          /\ \A i \in 1 .. n - 1 : Bytes(Start, n)[i] < Bytes(Start, n)[i + 1]
      BY <2>1, BytesOfSpan, Zenon
    <3> QED  BY <2>2, <3>1, Zenon
  <2> QED  BY <2>1, <2>3, <2>5, <2>6 DEF body, asked, length
<1> QED  BY <1>1, EndpointRunsTheReader, TypeCorrect, DeliveryInOrder, RangesAreExact, PTL
=============================================================================
