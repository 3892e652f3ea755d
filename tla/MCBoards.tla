------------------------------- MODULE MCBoards -------------------------------
(* Small instances of the scenes of Boards for TLC. *)
EXTENDS Boards

CONSTANTS p1, p2, e1, e2

BoardBound(c, n, o, f, x) == [cards |-> c, calls |-> n, opens |-> o, faults |-> f, others |-> x]

\* Two cards and two calls; a call or load that fails; a change from elsewhere,
\* without a failure and with one; an empty board.
MCBoardBounds ==
    {BoardBound({p1, p2}, 2, 2, 0, 0), BoardBound({p1}, 2, 2, 1, 0), BoardBound({p1}, 1, 2, 0, 1),
     BoardBound({p1}, 1, 1, 1, 1), BoardBound({}, 1, 2, 1, 0)}

EventBound(es, a, f, p, o, c, r, n, d, x, t) ==
    [events |-> es, att |-> a, files |-> f, page |-> p, open |-> o, calls |-> c, runs |-> r, opens |-> n, edits |-> d,
     faults |-> x, others |-> t]

\* An upload that a second call may meet; an upload, and a form or a question,
\* that meets an analysis; edits beside an analysis; two analyses with restarts and
\* lost reports; someone else's change; two events; a new event; participants;
\* two files picked together, on the page and in the form.
MCEventBounds ==
    {EventBound({e1}, {1}, {2}, "detail", e1, 1, 0, 1, 0, 0, 0),
     EventBound({e1}, {}, {1}, "detail", e1, 0, 1, 0, 0, 0, 0),
     EventBound({e1}, {1}, {}, "detail", e1, 1, 1, 1, 0, 0, 0),
     EventBound({e1}, {}, {}, "detail", e1, 0, 2, 0, 0, 2, 0),
     EventBound({e1}, {}, {1}, "detail", e1, 0, 0, 0, 0, 1, 0),
     EventBound({e1}, {}, {}, "detail", e1, 0, 1, 0, 0, 1, 1),
     EventBound({e1, e2}, {}, {1}, "list", None, 2, 0, 2, 0, 0, 0),
     EventBound({}, {}, {1}, "list", None, 1, 0, 1, 1, 0, 0),
     EventBound({e1}, {}, {}, "detail", e1, 1, 0, 1, 1, 0, 0),
     EventBound({e1}, {}, {1, 2}, "detail", e1, 0, 0, 0, 0, 0, 0),
     EventBound({e1}, {}, {1, 2}, "list", None, 1, 0, 1, 0, 0, 0)}
=============================================================================
