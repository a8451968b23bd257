------------------------------- MODULE Files -------------------------------
(***************************************************************************)
(* The files below www/ and what the calls of FileUtils.cpp and            *)
(* Autoindex.cpp answer about them.  A file system is a function: its      *)
(* domain holds the paths that exist, with every path the directories      *)
(* above it, and gives a file its content.                                 *)
(***************************************************************************)
EXTENDS Integers, Sequences, SequencesExt

CONSTANT Denied              \* the paths the server has no permission for

Dir == "DIR"

Parent(segs) == SubSeq(segs, 1, Len(segs) - 1)

Children(f, segs) ==
  {q \in DOMAIN f : q # <<>> /\ Parent(q) = segs}

IsTree(f) ==
  /\ <<>> \in DOMAIN f
  /\ \A p \in DOMAIN f \ {<<>>} : Parent(p) \in DOMAIN f /\ f[Parent(p)] = Dir

(* What looking for the n-th segment of a path answers.                    *)
Lookup(f, segs, n) ==
  LET above == SubSeq(segs, 1, n - 1)
  IN CASE f[above] # Dir                    -> "ENOTDIR"
       [] f[above] = Dir /\ above \in Denied -> "EACCES"
       [] OTHER -> IF SubSeq(segs, 1, n) \in DOMAIN f THEN "found"
                   ELSE "ENOENT"

(* A path that is there below directories that may be searched.            *)
Reaches(f, segs) ==
  /\ segs \in DOMAIN f
  /\ \A n \in DOMAIN segs : SubSeq(segs, 1, n - 1) \notin Denied

(* Otherwise the first segment that is not found gives the error.          *)
LookupError(f, segs) ==
  LET failing == {n \in DOMAIN segs : /\ SubSeq(segs, 1, n - 1) \in DOMAIN f
                                      /\ Lookup(f, segs, n) # "found"}
  IN Lookup(f, segs, Min(failing))

(* stat: "file", "dir" or the error.  A path that ends with a slash must   *)
(* be a directory.                                                         *)
Stat(f, p) ==
  IF ~Reaches(f, p.segs) THEN LookupError(f, p.segs)
  ELSE IF f[p.segs] = Dir THEN "dir"
  ELSE IF p.slash THEN "ENOTDIR" ELSE "file"

(* open for reading, which directories allow as well.                      *)
Opens(f, p) == Stat(f, p) \in {"file", "dir"} /\ p.segs \notin Denied

(* opendir: "dir" or the error.                                            *)
OpenDir(f, p) ==
  CASE Stat(f, p) = "file"                        -> "ENOTDIR"
    [] Stat(f, p) = "dir" /\ p.segs \in Denied    -> "EACCES"
    [] OTHER                                      -> Stat(f, p)

(* Mutant: a directory goes with everything in it left behind.             *)
RemovableAny(f, p) == Stat(f, p) \in {"file", "dir"}

(* remove: a file, or a directory with nothing in it.                      *)
Removable(f, p) ==
  \/ Stat(f, p) = "file"
  \/ Stat(f, p) = "dir" /\ Children(f, p.segs) = {}

(* open for writing empties a file, or creates one where its directory may *)
(* be searched.                                                            *)
Creatable(f, p) ==
  \/ Stat(f, p) = "file" /\ p.segs \notin Denied
  \/ /\ p.segs \notin DOMAIN f
     /\ Parent(p.segs) \notin Denied
     /\ Stat(f, [p EXCEPT !.segs = Parent(@)]) = "dir"

With(f, segs, data) == [q \in DOMAIN f \cup {segs} |->
                          IF q = segs THEN data ELSE f[q]]
Without(f, segs) == [q \in DOMAIN f \ {segs} |-> f[q]]

-----------------------------------------------------------------------------
(* The status codes of the errors.  ENONET is tested where ENOENT is meant.*)

FileOrFolderStatusCode(error) ==
  CASE error = "EACCES" -> 403
    [] error = "ENOENT" -> 404
    [] OTHER            -> 500

DirFailStatusCode(error) ==
  CASE error = "EACCES"  -> 403
    [] error = "ENOTDIR" -> 404
    [] OTHER             -> 500
=============================================================================
