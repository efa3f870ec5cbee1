----------------------------- MODULE MCRequests -----------------------------
(* The clients of MCConnection that are answered as Dialogue says. *)
EXTENDS MCConnection, StreamParse

\* The pass over s, with any row where several fit: they lead to the same state.
PassOf(s) ==
  LET Step(run, byte) ==
        LET c == Fresh(Last(run))
        IN  Append(run, Advance(c, Len(run) - 1, CHOOSE row \in RowsFor(c, byte) : TRUE))
      run == FoldLeft(Step, <<Start>>, s.bytes)
  IN  [n \in 0 .. Len(s.bytes) |-> run[n + 1]]

\* What Orderly asks of the streams holds for these, in a ring that has room for them.
ASSUME RequestStreamsAreOrderly ==
  \A s \in RequestStreams : LET run == PassOf(s) IN IsPass(s, run) /\ Describes(s, run)
=============================================================================
