----------------------------- MODULE PathSafety -----------------------------
(***************************************************************************)
(* resolveSafe (src/recordings/path-safety.ts), which puts a path from a   *)
(* request under a profile's base path, and relJoin, which makes the paths *)
(* of the entries of a listing.                                            *)
(*                                                                         *)
(* A path is the sequence of what stands between its slashes: "a//b" is    *)
(* <<"a", "", "b">>, and "" is <<"">>. Base paths are absolute, and are    *)
(* given without their leading slash.                                      *)
(***************************************************************************)
EXTENDS SequencesExt, Integers

CONSTANT Names    \* names of files and folders

ASSUME NamesAssumption == Names \cap {"", ".", ".."} = {}

Segments == Names \cup {"", ".", ".."}

(* path.posix.normalize of an absolute path; the root is its own parent.   *)
Enter(at, s) == CASE s \in {"", "."} -> at
                  [] s = ".."        -> IF at = <<>> THEN at ELSE Front(at)
                  [] OTHER           -> Append(at, s)
Normalize(p) ==
  LET at[i \in 0..Len(p)] == IF i = 0 THEN <<>> ELSE Enter(at[i-1], p[i])
  IN  at[Len(p)]

IsAbsolute(p) == Len(p) > 1 /\ p[1] = ""

(* Broken: an absolute path is joined to the base like any other.          *)
ResolveFolds(base, rel) ==
  LET b == Normalize(base) resolved == Normalize(b \o rel)
  IN  IF IsPrefix(b, resolved) THEN {resolved} ELSE {}

(* The path, or nothing: ForbiddenException.                               *)
ResolveSafe(base, rel) ==
  LET b == Normalize(base) resolved == Normalize(b \o rel)
  IN  IF ~IsAbsolute(rel) /\ IsPrefix(b, resolved) THEN {resolved} ELSE {}

(* Broken: the slashes around the folder are kept.                         *)
RelJoinKeepsSlashes(dir, name) == Append(dir, name)

(* Slashes around the folder are dropped.                                  *)
RelJoin(dir, name) ==
  LET kept == {i \in DOMAIN dir : \E j \in 1..i : dir[j] # ""}
                \cap {i \in DOMAIN dir : \E j \in i..Len(dir) : dir[j] # ""}
  IN  IF kept = {} THEN <<name>>
      ELSE Append(SubSeq(dir, Min(kept), Max(kept)), name)

-----------------------------------------------------------------------------
(* Where an absolute path leads, said without walking it: a name counts    *)
(* unless some stretch that begins with it has as many ".." as names.      *)
Count(p, i, j, S) == Cardinality({m \in i..j : p[m] \in S})
Stays(p, i) == p[i] \in Names /\ \A j \in i..Len(p) : Count(p, i, j, Names) > Count(p, i, j, {".."})
Denoted(p)  ==
  LET kept    == {i \in DOMAIN p : Stays(p, i)}
      Kept(n) == CHOOSE i \in kept : Cardinality(kept \cap 1..i) = n    \* the n-th of them
  IN  [n \in 1..Cardinality(kept) |-> p[Kept(n)]]

(* A relative path that leads into the base directory, by whatever detours. *)
Inside(base, rel) == ~IsAbsolute(rel) /\ IsPrefix(Denoted(base), Denoted(base \o rel))
=============================================================================
