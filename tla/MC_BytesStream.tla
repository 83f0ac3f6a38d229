-------------------------- MODULE MC_BytesStream --------------------------
(* Small instances of BytesStream for TLC. *)
EXTENDS BytesStream

\* Every stream with up to four answers in store, also ones that go on after their end.
SomeStories ==
  UNION {{[k \in 1..len |-> [n |-> k, kind |-> kinds[k]]] :
            kinds \in [1..len -> {"chunk", "empty", "error", "end"}]} : len \in 0..4}

=============================================================================
