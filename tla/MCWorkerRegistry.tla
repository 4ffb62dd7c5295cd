-------------------------- MODULE MCWorkerRegistry --------------------------
(***************************************************************************)
(* Two workers, so that a sweep can be under way for one when the other    *)
(* changes, and two requests, so that one can remove a worker under the    *)
(* other.                                                                  *)
(***************************************************************************)
EXTENDS WorkerRegistry
=============================================================================
