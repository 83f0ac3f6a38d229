---------------------------- MODULE BodyDelivery ----------------------------
(***************************************************************************)
(* What the body channel promises, whoever shares its two ends and however *)
(* the calls on them interleave: the reading side sees what was written,   *)
(* in order and once, and then one true ending: "eof" when the writers     *)
(* declared the body whole, "abort" when they went away without it.        *)
(***************************************************************************)
EXTENDS Naturals, Sequences

CONSTANT Item

VARIABLES
  written,   \* the items accepted from the writers
  read,      \* the items given to the reading side
  ending,    \* "open" while there are writers, then what they left behind
  told,      \* the endings the reading side was told of
  reading    \* is there a reading side

vars == <<written, read, ending, told, reading>>

Init ==
  /\ written = <<>> /\ read = <<>> /\ told = {}
  /\ \/ ending = "open" /\ reading = TRUE
     \/ ending = "abort" /\ reading = FALSE   \* there never was a body

\* An item is accepted only while somebody reads.
Write(i) ==
  /\ ending = "open" /\ reading
  /\ written' = Append(written, i)
  /\ UNCHANGED <<read, ending, told, reading>>

\* The last writer leaves.
End(how) ==
  /\ ending = "open"
  /\ ending' = how
  /\ UNCHANGED <<written, read, told, reading>>

Read ==
  /\ reading /\ Len(read) < Len(written)
  /\ read' = Append(read, written[Len(read) + 1])
  /\ UNCHANGED <<written, ending, told, reading>>

TellEnd ==
  /\ reading /\ ending # "open" /\ read = written
  /\ told' = told \cup {ending}
  /\ UNCHANGED <<written, read, ending, reading>>

Leave ==
  /\ reading
  /\ reading' = FALSE
  /\ UNCHANGED <<written, read, ending, told>>

Next ==
  \/ \E i \in Item : Write(i)
  \/ \E how \in {"eof", "abort"} : End(how)
  \/ Read
  \/ TellEnd
  \/ Leave

Spec == Init /\ [][Next]_vars
=============================================================================
