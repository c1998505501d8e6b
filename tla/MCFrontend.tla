------------------------------ MODULE MCFrontend ------------------------------
(* Runs that ask two questions, or upload files the second of which fails. *)
EXTENDS Frontend

CONSTANTS qRate, qOwner

MCIds == {qRate, qOwner}

MCAsked == [i \in 1..MaxRuns |-> IF i = 2 THEN qOwner ELSE qRate]

MCIngested == {1, 3}
===============================================================================
