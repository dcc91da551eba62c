----------------------------- MODULE MCTransfer -----------------------------
(* Files that are empty, shorter than a buffer, as long as one or two, or between. *)
EXTENDS Transfer

MCContents == {[i \in 1..n |-> i] : n \in {0, 3, 4, 6, 8}}
=============================================================================
