-------------------------- MODULE MCFeedbackForms --------------------------
(* Small instances of FeedbackForms for TLC. *)
EXTENDS FeedbackForms

CONSTANTS f1, f2

Bound(f, a, c, m, e, i, x, s) ==
    [forms |-> f, asks |-> a, calls |-> c, moves |-> m, edits |-> e, items |-> i,
     faults |-> x, slots |-> 1 .. s]

\* Two suggestions; a fault; two calls at once; edits; two pages; a new form,
\* and a fault then.
MCBounds ==
    {Bound({f1}, 2, 2, 1, 0, 1, 0, 1), Bound({f1}, 1, 1, 1, 0, 1, 1, 1),
     Bound({f1}, 1, 2, 1, 0, 1, 0, 2), Bound({f1}, 0, 2, 1, 3, 2, 0, 1),
     Bound({f1}, 1, 2, 2, 0, 1, 0, 1), Bound({}, 1, 2, 1, 1, 1, 0, 2),
     Bound({}, 1, 1, 1, 1, 1, 1, 2)}
=============================================================================
