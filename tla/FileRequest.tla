---------------------------- MODULE FileRequest ----------------------------
(***************************************************************************)
(* GET file from end to end (RecordingsController.file with the service's  *)
(* stat and streamTo): the size comes from the cache or from the storage,  *)
(* the size and the Range header make the status and the length, and       *)
(* windowedRead streams the span. stat, on a miss, and streamTo each load  *)
(* the profile (conn()) and each put the path under the base path it has   *)
(* then (resolveSafe): between the two an update may have moved it.        *)
(*                                                                         *)
(* It composes PathSafety, FileRange and WindowedRead: the request is any  *)
(* of Requests, and the instance of WindowedRead, which is for one span,   *)
(* runs for those of the requests that ask for that span.                  *)
(***************************************************************************)
EXTENDS WindowedRead, FileRange, PathSafety

CONSTANTS Bases,      \* the base paths the profile has at one time or another
          Requests    \* path, method, Range header, and the size that is found

ASSUME BasesAssumption == Bases \subseteq Seq(Segments)
ASSUME RequestsAssumption ==
  \A r \in Requests :
    /\ r.path \in Seq(Segments) /\ r.method \in {"GET", "HEAD"}
    /\ r.size \in Nat /\ r.header \in Headers(Nat)

VARIABLES
  request,
  step,      \* "new", "loading" and "statting" (stat), "opening" and
             \* "leasing" (streamTo), "streaming" (windowedRead), "over"
  base,      \* the base path in the profile as loaded last
  abs,       \* {the path the storage is asked for since then}, or nothing
  status     \* 0 until the headers are set

endpoint == <<request, step, base, abs, status>>
fileVars == <<vars, endpoint>>

FileInit == /\ Init /\ request \in Requests
            /\ step = "new" /\ base = <<>> /\ abs = {} /\ status = 0

(* An exception before the headers: the response is an error.              *)
Throw(codes) == status' \in codes /\ step' = "over"

(* One after them: nothing is left but to cut the connection.              *)
Cut == step' = "over" /\ UNCHANGED status

(* The size is known: the headers are set, and a GET goes on to streamTo.  *)
Respond ==
  LET a == Answer(request.header, request.size)
  IN  /\ status' = a.status
      /\ step' = IF a.status = 416 \/ request.method = "HEAD" THEN "over" ELSE "opening"

(* The cache has a size for a path only after that path was resolved under *)
(* a base path the profile had.                                            *)
MayBeCached == \E b \in Bases : ResolveSafe(b, request.path) # {}

Begin ==
  /\ step = "new"
  /\ \/ request.path = <<"">> /\ Throw({400})
     \/ request.path # <<"">> /\ MayBeCached /\ Respond
     \/ request.path # <<"">> /\ step' = "loading" /\ UNCHANGED status
  /\ UNCHANGED <<vars, request, base, abs>>

(* conn() and, at once when it returns, resolveSafe.                       *)
Resolve == \E b \in Bases : base' = b /\ abs' = ResolveSafe(b, request.path)

(* The profile may be gone since the guard (404), the query or the         *)
(* decryption fail (500), and only then does the path matter.              *)
Load ==
  /\ step = "loading"
  /\ \/ Throw({404, 500}) /\ UNCHANGED <<base, abs>>
     \/ Resolve /\ abs' = {} /\ Throw({403})
     \/ Resolve /\ abs' # {} /\ step' = "statting" /\ UNCHANGED status
  /\ UNCHANGED <<vars, request>>

(* The pool and the storage answer.                                        *)
Stat == /\ step = "statting"
        /\ Throw({404, 500}) \/ Respond
        /\ UNCHANGED <<vars, request, base, abs>>

(* Broken: streamTo goes by the check that stat has made.                  *)
OpenTrusts ==
  /\ step = "opening"
  /\ Cut \/ (step' = "leasing" /\ UNCHANGED status)
  /\ UNCHANGED <<vars, request, base, abs>>

(* streamTo loads the profile and resolves the path anew.                  *)
Open ==
  /\ step = "opening"
  /\ \/ Cut /\ UNCHANGED <<base, abs>>
     \/ Resolve /\ abs' = {} /\ Cut
     \/ Resolve /\ abs' # {} /\ step' = "leasing" /\ UNCHANGED status
  /\ UNCHANGED <<vars, request>>

(* The pool lends a connection, or fails to.                               *)
Lease == /\ step = "leasing"
         /\ Cut \/ (step' = "streaming" /\ UNCHANGED status)
         /\ UNCHANGED <<vars, request, base, abs>>

(* A request whose span is the one of this WindowedRead.                   *)
Streaming ==
  LET a == Answer(request.header, request.size)
  IN  step = "streaming" /\ a.start = Start /\ a.end = End

(* A step of the windowed reader.                                          *)
Reader(Step) == Streaming /\ Step /\ UNCHANGED endpoint

FileNext == Begin \/ Load \/ Stat \/ Open \/ Lease \/ Reader(Next)

FileSpec == FileInit /\ [][FileNext]_fileVars

(* As for the reader: the server answers, and a client that stays takes    *)
(* what it is sent.                                                        *)
FileFairSpec ==
  /\ FileSpec
  /\ WF_fileVars(Reader(OpenReply)) /\ \A c \in Chunks : WF_fileVars(Reader(ReadReply(c)))
  /\ WF_fileVars(Reader(SinkDrains)) /\ WF_fileVars(Reader(SinkFinishes))

-----------------------------------------------------------------------------
(* The storage is asked for a path only if it is relative and leads into   *)
(* the base directory ("if and only if it stays within basePath", the      *)
(* comment on resolveSafe), and then for the place it leads to; 403 is for *)
(* the others only. The base is the one the profile had when it was loaded *)
(* last: that a size was in the cache, or that stat was let through, lets  *)
(* nobody read outside of a base that has changed since.                   *)
StaysInside ==
  /\ abs # {} => /\ Inside(base, request.path)
                 /\ abs = {Denoted(base \o request.path)}
  /\ step \in {"statting", "leasing", "streaming"} => abs # {}
  /\ status = 403 => ~Inside(base, request.path)

(* The path a listing gives for an entry leads to that entry: it can be    *)
(* fetched and deleted, however the folder's own path was written.         *)
EntriesLeadBack ==
  \A folder \in ResolveSafe(base, request.path), name \in Names :
    ResolveSafe(base, RelJoin(request.path, name)) = {Append(folder, name)}

(* What is announced is what the Range header asks for, an empty file and  *)
(* a range past the end included.                                          *)
AnswersExactly == Exact(request.header, request.size)

(* When the reader has written all it wants to, the client has received    *)
(* every byte it asked for, once and in order, and as many as announced.   *)
DeliversWhatWasAsked ==
  Streaming /\ Len(out) = NumChunks =>
    LET body == FlattenSeq(out)
    IN  /\ Len(body) = Answer(request.header, request.size).length
        /\ {body[i] : i \in DOMAIN body} = Asked(request.header, request.size)
        /\ \A i \in 1 .. Len(body) - 1 : body[i] < body[i + 1]

(* A request that is streamed settles, unless the client was gone before.  *)
StreamSettles == Streaming /\ sink # "gone" ~> settled
=============================================================================
