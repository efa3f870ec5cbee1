---------------------------- MODULE MCThreadPool ----------------------------
(* Small instances of ThreadPool for TLC: liveness is checked along with safety, *)
(* so no symmetry is used.                                                      *)
EXTENDS ThreadPool
=============================================================================
