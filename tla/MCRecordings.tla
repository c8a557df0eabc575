---------------------------- MODULE MCRecordings ----------------------------
(* Two files. Profile A deletes one of them or prunes both while it lists  *)
(* and fetches.                                                            *)
EXTENDS Recordings, TLC

MCProfileOf == [r \in Requests |-> "A"]
MCTarget    == [r \in Gets |-> "f1"]
MCDoomed    == [r \in Removals |-> IF r \in Prunes THEN {"f1", "f2"} ELSE {"f1"}]

(* Two lists, and two gets of the same file, differ in nothing.            *)
MCSymmetry == Permutations(Lists) \cup Permutations(Gets)
=============================================================================
