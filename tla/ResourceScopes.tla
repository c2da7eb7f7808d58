--------------------------- MODULE ResourceScopes ---------------------------
(***************************************************************************)
(* The counters a resource scope keeps and the test a reservation makes    *)
(* (internal/core/resourcemgr/scope.go, limit.go).                         *)
(*                                                                         *)
(* A scope counts what it holds per direction.  A reservation first loads  *)
(* the counters and compares them with the scope's limit, and only then    *)
(* adds: two atomic accesses, no lock around them.  The modules that use   *)
(* these operators make the test and the addition two separate steps.      *)
(***************************************************************************)
EXTENDS Integers, FiniteSets

Dirs == {"in", "out"}

(* A limit: Conns / ConnsInbound / ConnsOutbound, or the stream triple.    *)
LimitRecord == [total : Nat, in : Nat, out : Nat]

(* What a scope holds: nconnsIn / nconnsOut (or nstreamsIn / nstreamsOut). *)
NoUsage == [d \in Dirs |-> 0]

Total(use) == use["in"] + use["out"]

(* checkLimit: a limit of 0 is no limit.                                   *)
Within(n, limit) == limit > 0 => n <= limit

(* Mutant: the limit of the direction is not tested.                       *)
FitsTotal(use, d, limit) == Within(Total(use) + 1, limit.total)

(* The tests of reserveConns and reserveStreams, for one unit.             *)
Fits(use, d, limit) ==
  /\ Within(Total(use) + 1, limit.total)
  /\ Within(use[d] + 1, limit[d])

(* The atomic additions at the end of reserveConns / reserveStreams, and   *)
(* those of releaseConns / releaseStreams.  Nothing stops the counter at 0.*)
Reserve(cnt, s, d) == [cnt EXCEPT ![s][d] = @ + 1]
Release(cnt, s, d) == [cnt EXCEPT ![s][d] = @ - 1]
=============================================================================
