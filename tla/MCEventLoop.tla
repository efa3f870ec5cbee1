---------------------------- MODULE MCEventLoop ----------------------------
(* Small instances of EventLoop for TLC. *)
EXTENDS EventLoop, TLC

\* Nothing in EventLoop distinguishes one connection, or one descriptor, from
\* another.
Symmetry == Permutations(Conns) \cup Permutations(Fds)
=============================================================================
