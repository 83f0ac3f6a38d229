----------------------------- MODULE TaskLines -----------------------------
(* Lines of waiting tasks, and histories: what is said of either. *)
EXTENDS Naturals, Sequences

Elements(seq) == {seq[k] : k \in 1..Len(seq)}

NoRepeat(line) == \A a, b \in 1..Len(line) : line[a] = line[b] => a = b

\* A line of tasks, each in it at most once, after x has left it.
Without(line, x) ==
  IF x \notin Elements(line) THEN line
  ELSE LET k == CHOOSE k \in 1..Len(line) : line[k] = x
       IN SubSeq(line, 1, k - 1) \o SubSeq(line, k + 1, Len(line))

IsPrefixOf(s, t) == Len(s) <= Len(t) /\ \A k \in 1..Len(s) : s[k] = t[k]
=============================================================================
