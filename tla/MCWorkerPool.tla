---------------------------- MODULE MCWorkerPool ----------------------------
(***************************************************************************)
(* WorkerPool for TLC.  The pool's constants are numbers, given in the     *)
(* configurations: three workers over five tasks, so that workers come     *)
(* back for a second and third task, tasks wait for a worker, and later    *)
(* tasks deliver before earlier ones.                                      *)
(***************************************************************************)
EXTENDS WorkerPool
=============================================================================
