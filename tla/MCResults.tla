----------------------------- MODULE MCResults -----------------------------
(***************************************************************************)
(* Result files of up to MaxLines lines, for checking Results with TLC.    *)
(***************************************************************************)
EXTENDS Results

CONSTANT MaxLines  \* bound: lines of a result file

MCContents == UNION {[1..n -> Lines] : n \in 1..MaxLines}
MCGiven == SUBSET ArgNames
=============================================================================
