------------------------------ MODULE MCServer ------------------------------
(***************************************************************************)
(* A pool of one connection and a queue of one event: every limit is       *)
(* reached at once.  The workloads share one run: two requests of any      *)
(* companies against one connection, and a request against a webhook, with *)
(* two things that go wrong; a goroutine with two browsers, a request and  *)
(* a goroutine with one, and a request with one and a fault.               *)
(***************************************************************************)
EXTENDS Server

CONSTANTS r1, r2, j1, s1, s2

Load(who, n) == [who |-> who, faults |-> n]
MCWorkloads ==
  {Load({r1, r2}, 2), Load({r1, j1}, 2),
   Load({j1, s1, s2}, 0), Load({r1, j1, s1}, 0), Load({r1, s1}, 1)}
=============================================================================
