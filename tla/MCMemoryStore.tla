--------------------------- MODULE MCMemoryStore ---------------------------
(***************************************************************************)
(* MemoryStore for TLC: two goroutines, two solutions, two files, and an   *)
(* index that has room for one of them.                                    *)
(***************************************************************************)
EXTENDS MemoryStore, TLC

CONSTANTS p1, p2, s1, s2, f1, f2

\* The walk of the workspace finds two files.
MCWalk == <<f1, f2>>

\* An earlier process left one solution, in use or retired.
MCBefore == {<<[id |-> s, retired |-> r]>> : s \in Items, r \in BOOLEAN}

\* Three jobs on the knowledge bases and the project memory, three on the index
\* while files change, and two of any kinds.
MCBounds ==
  {[kinds |-> Kinds \ {"mark", "rebuild", "blank"}, jobs |-> 3, edits |-> 0, crashes |-> 0],
   [kinds |-> {"mark", "rebuild"}, jobs |-> 3, edits |-> 2, crashes |-> 0],
   [kinds |-> Kinds, jobs |-> 2, edits |-> 1, crashes |-> 1]}

MCSymmetry == Permutations({p1, p2}) \cup Permutations({s1, s2})
=============================================================================
