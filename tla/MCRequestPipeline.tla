-------------------------- MODULE MCRequestPipeline --------------------------
(* TLC instances of RequestPipeline: the chains the documentation shows.   *)
EXTENDS RequestPipeline, TLC

Setup(c, recover, level, post, pre) ==
    [chain |-> c, recover |-> recover, level |-> level, skipPost |-> post, skipPre |-> pre]
Debug == -4   \* slog.LevelDebug: nothing is dropped

MCSetups ==
    { \* UseRequestID and UseStructuredLogger, as in README and _examples
      Setup(<<"requestID", "logger">>, TRUE, 0, {404}, TRUE),
      \* the recoverer inside a logger that panics again
      Setup(<<"logger", "recoverer">>, FALSE, Debug, {}, FALSE),
      \* the recoverer outside one that does not
      Setup(<<"recoverer", "logger">>, TRUE, 4, {}, FALSE),
      \* and outside one that does
      Setup(<<"recoverer", "logger">>, FALSE, 0, {}, FALSE),
      \* the metrics outside and inside of a logger that recovers
      Setup(<<"metrics", "logger">>, TRUE, Debug, {}, FALSE),
      Setup(<<"logger", "metrics">>, TRUE, Debug, {}, FALSE) }

Kind(o, u, h) == [options |-> o, upgrade |-> u, header |-> h]
MCKinds == {Kind(FALSE, FALSE, FALSE), Kind(TRUE, FALSE, TRUE), Kind(FALSE, TRUE, FALSE)}

Sym == Permutations(Requests) \cup Permutations(Entries)
=============================================================================
