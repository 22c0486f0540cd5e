------------------------------ MODULE MCRouter ------------------------------
(* A policy under two loads, whose providers are edited under one of them   *)
(* (one cache key): from one that is missing from the operator's            *)
(* configuration to one without a fallback.                                 *)
EXTENDS Router

Req(n, load, main, other) ==
  [name |-> n, load |-> load, primary |-> main, fallback |-> other]

MCRequests == {Req("web", 1, "absent", "openai"),
               Req("web", 1, "ollama", Nothing),
               Req("web", 2, "openai", "ollama")}
=============================================================================
