----------------------------- MODULE MCRequestPool -----------------------------
(***************************************************************************)
(* Five requests for two connections and two threads: uploads beside       *)
(* extractions that meet on a row, beside requests that hold a connection  *)
(* through a long call, and beside short ones.                             *)
(***************************************************************************)
EXTENDS RequestPool

CONSTANTS r1, r2, r3, r4, r5

MCRequests == {r1, r2, r3, r4, r5}

Load(a, b, c, d, e) ==
    [r \in MCRequests |-> CASE r = r1 -> a [] r = r2 -> b [] r = r3 -> c
                            [] r = r4 -> d [] r = r5 -> e]

MCLoads ==
    {Load("upload", "extract", "extract", "extract", "health"),
     Load("upload", "upload", "answer", "search", "graph_query"),
     Load("extract", "extract", "review", "stats", "search")}
===============================================================================
