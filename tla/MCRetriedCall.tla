--------------------------- MODULE MCRetriedCall ---------------------------
(* RetriedCall with two clients, two data files and records that fit, that
   are too short and that are too long for the reads.                       *)
EXTENDS RetriedCall

CONSTANTS c1, c2, d1, d2

Token(d, n, end) == [data |-> d, arg |-> n, end |-> end]

MCCalls == { <<Token(d1, 1, 3)>>,
             <<Token(d1, 1, 4)>>,
             <<Token(d1, 1, 2), Token(d1, 1, 4)>>,
             <<Token(d2, 1, 3), Token(d1, 2, 6)>>,
             <<Token(d1, 1, 1), Token(d2, 2, 2)>> }

=============================================================================
