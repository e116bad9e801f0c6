------------------------------ MODULE MCDbPool ------------------------------
(* The connection pool with four named workers. *)
EXTENDS DbPool

CONSTANTS w1, w2, w3, w4

MCWorkers == {w1, w2, w3, w4}

=============================================================================
