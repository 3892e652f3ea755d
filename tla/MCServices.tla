------------------------------ MODULE MCServices ------------------------------
(* Small instances of the scenes of Services for TLC. *)
EXTENDS Services, TLC

CONSTANTS u1, u2, c1, c2

\* Two calls that share a refresh; another account, with a call that the console's
\* gate may refuse; a refresh that is lost.
SignInBound(us, cs, f) == [users |-> us, calls |-> cs, faults |-> f]
MCSignInBounds ==
    {SignInBound({u1}, {c1, c2}, 0), SignInBound({u1, u2}, {c2}, 0), SignInBound({u1}, {c1}, 1)}

\* A visit and another; a tab beside the page, or the end and another session; a
\* connection and something that fails; a press and something that fails.
ConsoleBound(v, p, c, f) == [visits |-> v, presses |-> p, conns |-> c, faults |-> f]
MCConsoleBounds ==
    {ConsoleBound(2, 0, 0, 0), ConsoleBound(1, 2, 0, 0), ConsoleBound(1, 0, 1, 1), ConsoleBound(1, 1, 0, 1)}

-----------------------------------------------------------------------------
(* A playbook as slides *)

Sheet == INSTANCE PlaybookDeck WITH Contents <- {}

NoFlat == [summary |-> FALSE, metrics |-> 0, diffs |-> 0, value |-> FALSE, people |-> 0, strategy |-> 0,
           plan |-> 0, timeline |-> 0, risks |-> 0, actions |-> 0]
Designed(s) == [deck |-> <<s, Sheet!Told("statement"), Sheet!Told("quote")>>, flat |-> NoFlat, next |-> <<>>]
Plain(f) == [deck |-> <<>>, flat |-> f, next |-> <<>>]

\* A slide of each layout, with as many entries as it takes and one more.
Full(l) ==
    {[Sheet!NoSpec EXCEPT !.layout = l, !.n = [k \in Sheet!Kinds |-> IF k = Sheet!Own(l) THEN n ELSE 0],
                    !.list = 6, !.head = t, !.body = t, !.text = t, !.note = e, !.extra = x,
                    !.days = IF x THEN 440 ELSE 1] :
        n \in {0, 1, 2, 3, 5, 6, 8, 11}, t \in {1, 3, 9}, e, x \in BOOLEAN}

\* A slide with the wrong data.
Wrong ==
    {[Sheet!NoSpec EXCEPT !.layout = l, !.body = y,
                    !.n = [k \in Sheet!Kinds |-> IF k = o THEN 2 ELSE IF k = "bullets" THEN b ELSE 0]] :
        l \in Sheet!Names, o \in Sheet!Kinds, b, y \in {0, 2}}

Flats ==
    {[summary |-> s, metrics |-> n, diffs |-> n, value |-> v, people |-> m, strategy |-> n, plan |-> m, timeline |-> n,
      risks |-> m, actions |-> n] : s, v \in BOOLEAN, n, m \in {0, 1, 7}}

MCContents ==
    {Designed(s) : s \in UNION {Full(l) : l \in Sheet!Layouts} \cup Wrong} \cup {Plain(f) : f \in Flats}
    \cup {Designed([Sheet!NoSpec EXCEPT !.layout = "bullets", !.n["bullets"] = 2, !.eyebrow = 200])}
    \cup {[Plain(f) EXCEPT !.next = <<Plain(NoFlat)>>] : f \in Flats}
=============================================================================
