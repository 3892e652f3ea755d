---------------------------- MODULE MCTenderRadar ----------------------------
(* Small instances of TenderRadar for TLC. *)
EXTENDS TenderRadar

CONSTANTS t1, t2

Bound(f, m, n, st, p, c, o, x, e) ==
    [found |-> f, made |-> m, new |-> n, st |-> st, page |-> p, calls |-> c, opens |-> o,
     faults |-> x, others |-> e]

\* Decisions on a card, and on two at once; a run from the radar, and the page of
\* a tender; a fault, on a tender made by hand; someone else's promotion or run;
\* runs while the user is on another page; a new tender; two proposals.
MCBounds ==
    {Bound({t1}, {}, {}, "IDENTIFIED", "inbox", 2, 1, 0, 0),
     Bound({t1, t2}, {}, {}, "IDENTIFIED", "inbox", 2, 0, 0, 0),
     Bound({}, {}, {t1}, "IDENTIFIED", "inbox", 1, 1, 0, 0),
     Bound({t1}, {}, {}, "BIDDING", "table", 1, 2, 0, 0),
     Bound({}, {t1}, {}, "SUBMITTED", "table", 1, 1, 1, 0),
     Bound({t1}, {}, {}, "IDENTIFIED", "inbox", 1, 1, 0, 1),
     Bound({}, {}, {t1}, "IDENTIFIED", "other", 0, 2, 0, 1),
     Bound({}, {}, {t1}, "IDENTIFIED", "table", 1, 1, 1, 0),
     Bound({}, {t1, t2}, {}, "QUALIFYING", "table", 2, 0, 0, 0)}
=============================================================================
