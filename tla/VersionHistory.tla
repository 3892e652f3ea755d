--------------------------- MODULE VersionHistory ---------------------------
(***************************************************************************)
(* What the profile promises its readers, without rows, locks or indexes:  *)
(* a history that is only ever added to at its end.  A version once given  *)
(* is never changed, taken back or given again, and a save request adds at *)
(* most one.                                                               *)
(***************************************************************************)
EXTENDS Sequences

CONSTANTS
    Saves,   \* save requests
    Content  \* what a version of the profile may say

VARIABLE history \* version n of the profile is history[n], the last one is current

Entry == [by: Saves, content: Content]

SavedBy(s) == \E n \in DOMAIN history : history[n].by = s

Save(s, c) ==
    /\ ~SavedBy(s)
    /\ history' = Append(history, [by |-> s, content |-> c])

Init == history = <<>>

Next == \E s \in Saves, c \in Content : Save(s, c)

Spec == Init /\ [][Next]_history
=============================================================================
