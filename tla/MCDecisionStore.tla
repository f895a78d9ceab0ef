--------------------------- MODULE MCDecisionStore ---------------------------
(***************************************************************************)
(* DecisionStore for the model checker.  A behaviour has late uploads, or  *)
(* racing record requests, or many reads, not all at once.                 *)
(***************************************************************************)
EXTENDS DecisionStore, TLC

CONSTANTS x, y

Zigzag == [s \in Times |-> IF s % 2 = 0 THEN 3 ELSE s]

LateUploads == [ticks |-> 4, uploading |-> 4, uploads |-> 2, reads |-> 1,
                posts |-> 1, bodies |-> {x}]
RacingRecords == [ticks |-> 2, uploading |-> 1, uploads |-> 1, reads |-> 1,
                  posts |-> 3, bodies |-> {x, y}]
ManyReads == [ticks |-> 3, uploading |-> 2, uploads |-> 2, reads |-> 3,
              posts |-> 0, bodies |-> {}]
Cases == {LateUploads, RacingRecords, ManyReads}

Interchangeable == Permutations(Clients)
=============================================================================
