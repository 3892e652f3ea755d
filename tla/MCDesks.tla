-------------------------------- MODULE MCDesks --------------------------------
(* A small instance of each scene of Desks for TLC. *)
EXTENDS Desks, TLC

CONSTANTS c1, c2, j1, j2, p1, p2, r1, r2

-----------------------------------------------------------------------------
(* The public questionnaire *)

Question(t, r, s, o, m) == [type |-> t, required |-> r, scale |-> s, options |-> o, multiple |-> m]
Scale(n) == Question("rating", TRUE, n, {}, FALSE)
Optional == Question("rating", FALSE, 2, {}, FALSE)
Score == Question("nps", FALSE, 0, {}, FALSE)
Comment == Question("text", FALSE, 0, {}, FALSE)
Choice(m) == Question("choice", TRUE, 0, {"x", "y"}, m)

MCQuestionnaires ==
    {"q1" :> Scale(3), "q1" :> Scale(2), "q1" :> Scale(2) @@ "q2" :> Comment,
     "q1" :> Score, "q1" :> Optional, "q1" :> Comment, "q1" :> Choice(FALSE), "q1" :> Choice(TRUE)}

\* A rating, whose scale is cut beside a new comment, while a client answers who
\* may reconnect; one that becomes an NPS; an optional one that becomes a text; a
\* choice that becomes single; an outcome that is lost; two clients.
FormBound(l, c, s, n, f) == [lists |-> l, clients |-> c, saves |-> s, sends |-> n, faults |-> f]
MCFormBounds ==
    {FormBound({"q1" :> Scale(3), "q1" :> Scale(2) @@ "q2" :> Comment}, {c1}, 1, 1, 1),
     FormBound({"q1" :> Scale(3), "q1" :> Score}, {c1}, 1, 1, 0),
     FormBound({"q1" :> Optional, "q1" :> Comment}, {c1}, 1, 1, 0),
     FormBound({"q1" :> Choice(FALSE), "q1" :> Choice(TRUE)}, {c1}, 1, 1, 1),
     FormBound({"q1" :> Scale(2)}, {c1}, 0, 2, 1),
     FormBound({"q1" :> Scale(2)}, {c1, c2}, 0, 1, 0)}

-----------------------------------------------------------------------------
(* The pages of the playbook jobs *)

\* Two revisions of a playbook, and one that is deleted, with something lost; two
\* playbooks and one box; a change elsewhere; the card of an event, whose
\* playbook is made anew while it is revised or tried again, or with a failure.
PlaybookBound(p, js, l, c, o, t, f, x) ==
    [page |-> p, jobs |-> js, linked |-> l, calls |-> c, opens |-> o, texts |-> t, faults |-> f, others |-> x]
MCPlaybookBounds ==
    {PlaybookBound("list", {j1}, {}, 2, 1, 1, 1, 0),
     PlaybookBound("list", {j1}, {}, 2, 2, 0, 0, 0),
     PlaybookBound("list", {j1, j2}, {}, 1, 2, 2, 0, 0),
     PlaybookBound("list", {j1}, {}, 1, 2, 1, 0, 1),
     PlaybookBound("event", {j1}, {j1}, 2, 2, 1, 0, 0),
     PlaybookBound("event", {j1}, {j1}, 2, 1, 1, 1, 0)}

-----------------------------------------------------------------------------
(* The pages of the running projects *)

MCChanges == {[status |-> "COMPLETED", progress |-> 101], [status |-> "AT_RISK", progress |-> 202]}
Row(st, a, b) == [form |-> [status |-> st, progress |-> 80], miles |-> "m1" :> a @@ "m2" :> b, notes |-> {"n1"}]

\* The summary; a milestone and a note added and the others ticked; two of them
\* ticked; two projects, one deleted; something lost, or changed elsewhere.
ProjectBound(p, rs, c, o, t, f, x) ==
    [page |-> p, rows |-> rs, calls |-> c, opens |-> o, types |-> t, faults |-> f, others |-> x]
MCProjectBounds ==
    {ProjectBound("summary", p1 :> Row("COMPLETED", "open", "none") @@ p2 :> Row("DELAYED", "done", "none"), 1, 3, 0, 0, 0),
     ProjectBound("list", p1 :> Row("ON_TRACK", "open", "none"), 2, 1, 2, 0, 0),
     ProjectBound("list", p1 :> Row("DELAYED", "open", "open"), 2, 1, 0, 0, 0),
     ProjectBound("list", p1 :> Row("ON_TRACK", "open", "none") @@ p2 :> Row("DELAYED", "done", "none"), 2, 2, 0, 0, 0),
     ProjectBound("list", p1 :> Row("ON_TRACK", "open", "none"), 1, 2, 1, 1, 1)}

-----------------------------------------------------------------------------
(* The chat *)

\* Two messages; a room that is left or deleted, as another is open, or beside
\* the drawer; a room that is made, with something lost, or a file; two presses;
\* something lost.
ChatBound(r, cs, t, o, f, x, d) ==
    [room |-> r, convs |-> cs, texts |-> t, opens |-> o, files |-> f, faults |-> x, drawer |-> d]
MCChatBounds ==
    {ChatBound(r1, {r1}, 2, 0, 0, 0, FALSE), ChatBound(r1, {r1}, 0, 3, 0, 1, FALSE),
     ChatBound(r1, {r1, r2}, 1, 1, 0, 0, FALSE), ChatBound(r1, {r1}, 1, 1, 0, 0, TRUE),
     ChatBound(None, {}, 1, 0, 0, 1, FALSE), ChatBound(None, {}, 1, 0, 1, 0, FALSE),
     ChatBound(r1, {r1}, 1, 0, 2, 0, FALSE), ChatBound(r1, {r1}, 1, 0, 0, 1, FALSE)}
=============================================================================
