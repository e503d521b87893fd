---------------------------- MODULE MCWorkerLoop ----------------------------
(***************************************************************************)
(* Instances of WorkerLoop for TLC: crawler processes only, Crawlers =     *)
(* Workers.                                                                *)
(***************************************************************************)
EXTENDS WorkerLoop

CONSTANTS f1, f2, u1, u2, u3, w1

(* No document announces a move; redirects do. *)
MCAnnounces == [d \in Docs |-> None]
=============================================================================
