--------------------------- MODULE MCFileRequest ---------------------------
(* Every path of up to four segments under base paths written in all ways, *)
(* for a whole file of one byte; and every range of every size, for one    *)
(* path. At each load the base may be another one than at the load before. *)
EXTENDS FileRequest

MCPaths == UNION {[1..k -> Segments] : k \in 1..4}

MCBases == { <<"">>, <<"a">>, <<"a", "b">>, <<"", "a">>, <<"a", "">>,
             <<".", "b">>, <<"..", "a">>, <<"a", "..">> }

MCPathRequests == [path : MCPaths, method : {"GET"}, header : {NoRange}, size : {1}]
MCRangeRequests ==
  [path : {<<"b">>}, method : {"GET", "HEAD"}, header : Headers(0..13), size : 0..12]
MCRequests == MCPathRequests \cup MCRangeRequests
=============================================================================
