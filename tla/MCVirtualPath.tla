---------------------------- MODULE MCVirtualPath ----------------------------
(* Characters, partitions and paths for TLC. *)
EXTENDS VirtualPath

MCLower == [c \in {"/", ".", ":", "a", "A", "b"} |-> IF c = "A" THEN "a" ELSE c]

\* The alias of one partition continues that of another.
MCPartitions ==
  << [alias |-> <<"/", "a">>, prefix |-> <<"a", ":", "/">>],
     [alias |-> <<"/", "a", "b">>, prefix |-> <<"a", "b", ":", "/">>] >>

\* All paths of a few characters, longer ones of slashes, dots and one letter, and
\* absolute ones of every length around the limit.
MCPaths ==
  BoundedSeq({"/", ".", ":", "a", "A", "b"}, 3) \cup BoundedSeq({"/", ".", "a"}, 6)
  \cup {<<"/", "a", "/">> \o [i \in 1..n |-> "b"] : n \in 1..MAXPATHLEN}
=============================================================================
