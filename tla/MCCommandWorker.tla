-------------------------- MODULE MCCommandWorker --------------------------
(* Two updates, one of which may need a stage in between, and two versions to come. *)
EXTENDS CommandWorker
CONSTANTS u1, u2
Goals == [c \in Updates |-> IF c = u1 THEN 3 ELSE 2]
=============================================================================
