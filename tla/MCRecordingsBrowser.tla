------------------------ MODULE MCRecordingsBrowser ------------------------
(* An old recording in the root folder and a new one in a folder below it. *)
EXTENDS RecordingsBrowser

MCAbove    == [d \in {"root", "day"} |-> IF d = "root" THEN {} ELSE {"root"}]
MCFolderOf == [f \in {"old", "new"} |-> IF f = "old" THEN "root" ELSE "day"]
=============================================================================
