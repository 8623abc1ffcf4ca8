------------------------------ MODULE MCMindyld ------------------------------
(***************************************************************************)
(* Four kinds of file: a library with code and data, one that begins with  *)
(* cleared memory, one without a PT_LOAD segment, and an executable.       *)
(***************************************************************************)
EXTENDS Mindyld, TLC

CONSTANTS h1, h2, h3, r1, r2, r3, r4

Code == [bytes |-> TRUE, bss |-> FALSE]
Data == [bytes |-> TRUE, bss |-> TRUE]
Bss == [bytes |-> FALSE, bss |-> TRUE]

MCSegments == [f \in Files |->
                  CASE f = "lib" -> <<Code, Data>>
                    [] f = "bss" -> <<Bss>>
                    [] f = "note" -> <<>>
                    [] f = "exec" -> <<Code>>]
MCSymmetry == Permutations({h1, h2, h3}) \cup Permutations({r1, r2, r3, r4})
=============================================================================
