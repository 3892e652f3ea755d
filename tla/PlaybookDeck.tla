----------------------------- MODULE PlaybookDeck -----------------------------
(***************************************************************************)
(* The slides of a playbook (apps/web/src/lib/playbookDeck.ts): which ones *)
(* are made of what the agent delivered, and where their texts go; the     *)
(* check that the agent's own drawings must pass (lib/playbookSvg.ts); and *)
(* the viewer that shows them (PlaybookSlideViewer.tsx).                   *)
(*                                                                         *)
(* Lengths are in whole pixels, rounded down.  A text is the number of     *)
(* full lines that it would take, and a line is as wide as it may be.      *)
(***************************************************************************)
EXTENDS Integers, Sequences, FiniteSets

CONSTANT Contents  \* the playbooks to look at

VARIABLES
    content,  \* the playbook that is shown
    idx       \* the slide that the viewer is set to

vars == <<content, idx>>

-----------------------------------------------------------------------------
(* Texts *)

VW == 1280
VH == 720
Margin == 72
ContentTop == 168
Wide == VW - 2 * Margin

Least(a, b) == IF a < b THEN a ELSE b
Most(a, b) == IF a > b THEN a ELSE b

\* A box of the check: x and y of its corners, and what it holds.
Box(s, x, y, size, chars) ==
    LET top == y - (80 * size) \div 100 IN
    [s |-> s, l |-> x, r |-> x + (55 * size * chars) \div 100,
     t |-> top, b |-> top + (115 * size) \div 100]

\* line1: one line, however long; its start is at x.
Label(s, x, y, size, chars) == IF chars = 0 THEN {} ELSE {Box(<<s, 0>>, x, y, size, chars)}

\* fitLines: at most max lines of the given width, the last one with an ellipsis.
FitLines(t, max) == Least(t, max)
PerLine(width, size) == Most(6, (100 * width) \div (53 * size)) + 1

TextBlock(s, n, x, y, width, size, lh) ==
    {Box(<<s, k>>, x, y + k * lh, size, PerLine(width, size)) : k \in 0 .. n - 1}

CenteredBlock(s, n, x, cy, width, size, lh) ==
    TextBlock(s, n, x, cy - ((n - 1) * lh) \div 2 + (35 * size) \div 100, width, size, lh)

-----------------------------------------------------------------------------
(* What a slide is made of *)

Layouts == {"cover", "closing", "statement", "quote", "metrics", "pillars", "bullets", "steps",
            "process", "comparison", "matrix", "people", "risks", "timeline"}
Kinds == {"metrics", "cards", "people", "risks", "columns", "quadrants", "plan", "bullets"}

\* A layout that the catalogue does not have is called a table.
Names == Layouts \cup {"table"}

\* layout: what the slide says; n: how many entries of each kind;
\* list: entries in a column or a quadrant; head, body, text: the lines that the
\* heading, the body and each entry would take; days: the length of the plan.
Slide ==
    [layout : Names, n : [Kinds -> Nat], list : Nat, head : Nat, body : Nat, text : Nat, note : BOOLEAN,
     extra : BOOLEAN, eyebrow : Nat, days : Nat]
NoSpec == [layout |-> "statement", n |-> [k \in Kinds |-> 0], list |-> 0, head |-> 1, body |-> 0,
           text |-> 1, note |-> FALSE, extra |-> FALSE, eyebrow |-> 20, days |-> 30]

Own(layout) ==
    CASE layout \in {"pillars", "process"} -> "cards"
      [] layout \in {"bullets", "steps"} -> "bullets"
      [] layout = "comparison" -> "columns"
      [] layout = "matrix" -> "quadrants"
      [] layout = "timeline" -> "plan"
      [] OTHER -> layout

BodyElseBullets(s) == IF s.body > 0 THEN "statement" ELSE "bullets"
BulletsElseStatement(s) == IF s.n["bullets"] > 0 THEN "bullets" ELSE "statement"

\* A layout that is not known is chosen by the entries that are there.
ByEntries(s) ==
    LET there(k) == s.n[k] > 0 IN
    IF there("metrics") THEN "metrics" ELSE IF there("risks") THEN "risks"
    ELSE IF there("people") THEN "people" ELSE IF there("cards") THEN "pillars" ELSE BulletsElseStatement(s)

\* Mutant: a slide whose entries are missing is set as it says.
AsTold(s) == IF s.layout \in Layouts THEN s.layout ELSE "statement"

\* resolveLayout: a layout whose entries are missing is replaced.
ResolveLayout(s) ==
    LET few(k) == s.n[k] < IF k \in {"metrics", "columns"} THEN 2 ELSE 1 IN
    CASE s.layout = "metrics" /\ few("metrics") -> BodyElseBullets(s)
      [] s.layout \in {"pillars", "process"} /\ few("cards") -> BulletsElseStatement(s)
      [] s.layout = "comparison" /\ few("columns") -> BulletsElseStatement(s)
      [] s.layout \in {"people", "risks", "matrix"} /\ few(Own(s.layout)) -> "bullets"
      [] s.layout = "timeline" /\ few("plan") -> "steps"
      [] s.layout \in {"bullets", "steps"} /\ few("bullets") -> "statement"
      [] s.layout \in {"statement", "quote"} /\ s.body = 0 -> "bullets"
      [] s.layout \notin Layouts -> ByEntries(s)
      [] OTHER -> s.layout

-----------------------------------------------------------------------------
(* The parts that slides share *)

\* Mutant: the strip below the content takes no room.
FullHeight(s) == 648
ContentBottom(s) == IF s.note THEN 582 ELSE 648

Header(s) ==
    Label("eyebrow", Margin + 70, 76, 13, s.eyebrow)
    \cup TextBlock("heading", FitLines(s.head, 1), Margin + 70, 105, Wide - 90, 30, 39)

Footer == Label("brand", Margin, 692, 13, 9)

NoteStrip(s) ==
    IF s.note THEN Label("insight", Margin + 26, 618, 10, 7)
                   \cup TextBlock("note", 1, Margin + 26, 636, Wide - 130, 14, 18)
    ELSE {}

\* n entries, each with the boxes that it has at its place.
Each(n, Boxes(_)) == UNION {{[b EXCEPT !.s = <<i>> \o @] : b \in Boxes(i)} : i \in 0 .. n - 1}

\* n columns with a gap between them.
ColumnWidth(n, gap) == (Wide - gap * (n - 1)) \div Most(n, 1)
ColumnX(i, n, gap) == Margin + i * (ColumnWidth(n, gap) + gap)

\* The height of each of n rows from y to the bottom.
RowHeight(max, from, bottom, n) == Least(max, (bottom - from) \div Most(n, 1))

-----------------------------------------------------------------------------
(* Layouts *)

LayCover(s) ==
    LET k == FitLines(s.head, 3)
        y == 330 - (k - 1) * 34 IN
    Label("eyebrow", Margin, 182, 16, s.eyebrow) \cup TextBlock("title", k, Margin, y, 950, 58, 68)
    \cup TextBlock("body", FitLines(s.body, 2), Margin, y + k * 68 + 20, 920, 24, 34)
    \cup Label("brand", Margin, 660, 17, 30)

\* The text below follows the height of the title.
LayClosing(s) ==
    LET k == FitLines(s.head, 2) IN
    TextBlock("title", k, Margin, 366, 900, 52, 60)
    \cup TextBlock("body", FitLines(Most(s.body, 1), 3), Margin, 366 + k * 60 + 4, 880, 22, 31)
    \cup Label("brand", Margin, 644, 18, 9)

LayStatement(s) ==
    CenteredBlock("body", FitLines(s.body, 6), Margin + 84,
                  ContentTop + (ContentBottom(s) - ContentTop) \div 2, Wide - 170, 34, 48)

LayQuote(s) ==
    CenteredBlock("body", FitLines(s.body, 5), Margin + 130,
                  ContentTop + (ContentBottom(s) - ContentTop) \div 2 - (IF s.extra THEN 22 ELSE 0),
                  Wide - 260, 30, 44)
    \cup IF s.extra THEN Label("attribution", Margin + 130, ContentBottom(s) - 40, 17, s.eyebrow) ELSE {}

LayMetrics(s) ==
    LET n == Least(s.n["metrics"], 4)
        cw == ColumnWidth(n, 26)
        k == FitLines(s.text, 2)
        y == ContentTop + 26
        below == y + 150 + (k - 1) * 50
        card(i) == LET x == ColumnX(i, n, 26) IN
            Label("number", x + 34, y + 63, 17, 2)
            \cup TextBlock("value", k, x + 28, y + 150, cw - 56, 46, 50)
            \cup TextBlock("label", FitLines(s.text, 2), x + 28, below + 62, cw - 56, 18, 24)
            \cup TextBlock("caption", FitLines(s.text, 4), x + 28, below + 118, cw - 56, 14, 21)
    IN Each(n, card)

\* extra: the cards have tags.
LayPillars(s) ==
    LET n == Least(s.n["cards"], 4)
        cw == ColumnWidth(n, 24)
        y == ContentTop + 22
        card(i) == LET x == ColumnX(i, n, 24) IN
            Label("number", x + 33, y + 56, 20, 2)
            \cup TextBlock("title", FitLines(s.text, 2), x + 78, y + 42, cw - 120, 19, 24)
            \cup (IF s.extra THEN Label("tag", x + 36, y + 130, 12, 22) ELSE {})
            \cup TextBlock("detail", FitLines(s.text, 9), x + 26, y + 96 + (IF s.extra THEN 74 ELSE 44), cw - 52, 16, 25)
    IN Each(n, card)

LayBullets(s) ==
    LET n == Least(s.n["bullets"], 10)
        cols == IF n > 5 THEN 2 ELSE 1
        per == IF cols = 2 THEN (n + 1) \div 2 ELSE n
        w == ColumnWidth(cols, 44)
        y == ContentTop + 14
        h == RowHeight(80, y, ContentBottom(s), per)
        row(i) == CenteredBlock("item", FitLines(s.text, 3), ColumnX(i \div per, cols, 44) + 50,
                                y + (i % per) * h + h \div 2 - 4, w - 62, 17, 23)
    IN Each(n, row)

LaySteps(s) ==
    LET n == Least(s.n["bullets"], 6)
        y == ContentTop + 18
        h == RowHeight(84, y, ContentBottom(s), n)
        row(i) == Label("number", Margin + 25, y + i * h + 15, 17, 1)
                  \cup CenteredBlock("item", FitLines(s.text, 3), Margin + 74, y + i * h + 8,
                                     VW - (Margin + 30) - Margin - 60, 17, 24)
    IN Each(n, row)

LayProcess(s) ==
    LET n == Least(s.n["cards"], 5)
        cw == ColumnWidth(n, 16)
        y == ContentTop + 52
        step(i) == LET x == ColumnX(i, n, 16) + IF i = 0 THEN 30 ELSE 46 IN
            Label("number", x, y + 42, 15, 2)
            \cup TextBlock("title", FitLines(s.text, 2), x, y + 78, cw - 70, 18, 23)
            \cup TextBlock("detail", FitLines(s.text, 5), x, y + 132, cw - 76, 13, 19)
    IN Each(n, step)

LayComparison(s) ==
    LET cw == ColumnWidth(2, 34)
        y == ContentTop + 16
        n == Least(s.list, 6)
        h == RowHeight(64, 108 + y, ContentBottom(s), n)
        column(i) ==
            LET x == ColumnX(i, 2, 34)
                item(k) == CenteredBlock("item", FitLines(s.text, 3), x + 58, y + 92 + k * h + h \div 2 - 8,
                                         cw - 82, 15, 21) IN
            TextBlock("title", FitLines(s.text, 1), x + 24, y + 38, cw - 44, 19, 25) \cup Each(n, item)
    IN Each(2, column)

LayMatrix(s) ==
    LET cw == ColumnWidth(2, 20)
        y == ContentTop + 14
        ch == (ContentBottom(s) - y - 20) \div 2
        quadrant(i) ==
            LET x == ColumnX(i % 2, 2, 20)
                yy == y + (i \div 2) * (ch + 20)
                item(k) == TextBlock("item", FitLines(s.text, 2), x + 46, yy + 85 + k * 34, cw - 76, 14, 19) IN
            Label("letter", x + 26, yy + 48, 13, 1)
            \cup TextBlock("title", FitLines(s.text, 1), x + 54, yy + 48, cw - 80, 18, 24)
            \cup Each(Least(s.list, 3), item)
    IN Each(Least(s.n["quadrants"], 4), quadrant)

\* The lines below follow the height of the name.  extra: they have roles.
LayPeople(s) ==
    LET n == Least(s.n["people"], 6)
        per == IF n <= 4 THEN 2 ELSE 3
        cw == ColumnWidth(per, 22)
        rows == (n + per - 1) \div per
        y0 == ContentTop + 12
        ch == RowHeight(200, y0 + 22 * (rows - 1), ContentBottom(s), rows)
        k == FitLines(s.text, 2)
        person(i) ==
            LET x == ColumnX(i % per, per, 22)
                y == y0 + (i \div per) * (ch + 22)
                role == y + 42 + (k - 1) * 23 + IF s.extra THEN 21 ELSE 0
                angle == role + 57
                lines == FitLines(s.text, 2) IN
            Label("initials", x + 40, y + 55, 17, 2)
            \cup TextBlock("name", k, x + 88, y + 42, cw - 108, 19, 23)
            \cup (IF s.extra THEN TextBlock("role", 1, x + 88, role, cw - 108, 14, 18) ELSE {})
            \cup Label("influence", x + 54, role + 29, 12, 15)
            \cup IF angle + (lines - 1) * 19 <= y + ch - 10
                 THEN TextBlock("angle", lines, x + 26, angle, cw - 52, 13, 19) ELSE {}
    IN Each(n, person)

LayRisks(s) ==
    LET n == Least(s.n["risks"], 5)
        y == ContentTop + 30
        h == RowHeight(100, y + 12 * (n - 1), ContentBottom(s), n)
        w == (Wide * 44) \div 100
        x == Margin + w + 44
        row(i) == LET cy == y + i * (h + 12) + h \div 2 IN
            CenteredBlock("risk", FitLines(s.text, 3), Margin + 54, cy, w - 70, 15, 20)
            \cup CenteredBlock("mitigation", FitLines(s.text, 3), x + 54, cy, VW - Margin - x - 70, 15, 20)
    IN Label("risks", Margin + 14, y - 12, 12, 6) \cup Label("mitigations", x + 14, y - 12, 12, 8)
       \cup Each(n, row)

LayTimeline(s) ==
    LET n == Least(s.n["plan"], 8)
        x == Margin + 292
        w == VW - Margin - x
        top == ContentTop + 44
        h == RowHeight(60, top, ContentBottom(s), n)
        days == Most(s.days, 7)
        week(i) == Label("week", x + (i * 7 * w) \div days + 6, top - 16, 12, IF i < 9 THEN 2 ELSE 3)
        row(i) == CenteredBlock("activity", FitLines(s.text, 2), Margin, top + i * h + (h - 8) \div 2, 272, 15, 19)
    IN Each((days + 6) \div 7, week) \cup Each(n, row)

\* The texts of a slide of the catalogue.
Texts(layout, s) ==
    LET body ==
        CASE layout = "cover" -> LayCover(s) [] layout = "closing" -> LayClosing(s)
          [] layout = "statement" -> LayStatement(s) [] layout = "quote" -> LayQuote(s)
          [] layout = "metrics" -> LayMetrics(s) [] layout = "pillars" -> LayPillars(s)
          [] layout = "bullets" -> LayBullets(s) [] layout = "steps" -> LaySteps(s)
          [] layout = "process" -> LayProcess(s) [] layout = "comparison" -> LayComparison(s)
          [] layout = "matrix" -> LayMatrix(s) [] layout = "people" -> LayPeople(s)
          [] layout = "risks" -> LayRisks(s) [] layout = "timeline" -> LayTimeline(s)
    IN IF layout \in {"cover", "closing"} THEN body ELSE Header(s) \cup body \cup NoteStrip(s) \cup Footer

-----------------------------------------------------------------------------
(* The check of a drawing *)

InCanvas(b) == b.l >= -1 /\ b.t >= -1 /\ b.r <= VW + 1 /\ b.b <= VH + 1
Touch(a, b) == Least(a.r, b.r) - Most(a.l, b.l) > 6 /\ Least(a.b, b.b) - Most(a.t, b.t) > 6

AuditBoxes(boxes) ==
    (\A b \in boxes : InCanvas(b)) /\ \A a, b \in boxes : a.s # b.s => ~Touch(a, b)

-----------------------------------------------------------------------------
(* The slides of a playbook *)

\* A playbook has the slides that the agent designed, deck, or flat fields only:
\* flat says which of those are filled in, or how many entries they have.
Spec1(layout, kind, n) == [NoSpec EXCEPT !.layout = layout, !.n[kind] = n, !.text = 2]
Told(layout) == [NoSpec EXCEPT !.layout = layout, !.body = 2]
When(p, s) == IF p THEN <<s>> ELSE <<>>

LegacySpecs(c) ==
    <<Told("cover")>>
    \o When(c.summary, Told("statement"))
    \o When(c.metrics >= 2, Spec1("metrics", "metrics", c.metrics))
    \o When(c.diffs >= 2, Spec1("pillars", "cards", c.diffs))
    \o When(c.diffs < 2 /\ c.value, Told("statement"))
    \o When(c.people > 0, Spec1("people", "people", c.people))
    \o When(c.strategy > 0, Spec1("bullets", "bullets", c.strategy))
    \o When(c.plan > 0, Spec1("timeline", "plan", c.plan))
    \o When(c.plan = 0 /\ c.timeline > 0, Spec1("steps", "bullets", c.timeline))
    \o When(c.risks > 0, Spec1("risks", "risks", c.risks))
    \o When(c.actions > 0, Spec1("steps", "bullets", c.actions))
    \o <<[NoSpec EXCEPT !.layout = "closing"]>>

Flat == [summary : BOOLEAN, value : BOOLEAN, metrics : Nat, diffs : Nat, people : Nat, strategy : Nat,
         plan : Nat, timeline : Nat, risks : Nat, actions : Nat]
SlidesAssumption == \A c \in Contents : c.deck \in Seq(Slide) /\ c.flat \in Flat /\ c.next \in Seq(Contents)

\* Mutant: the slides of the agent are taken as they are.
DeckAsIs(c) == IF Len(c.deck) >= 3 THEN c.deck ELSE LegacySpecs(c.flat)

\* The agent may forget the first slide and the last.
ToSpecs(c) ==
    IF Len(c.deck) >= 3
    THEN When(c.deck[1].layout # "cover", Told("cover")) \o c.deck
         \o When(c.deck[Len(c.deck)].layout # "closing", [NoSpec EXCEPT !.layout = "closing"])
    ELSE LegacySpecs(c.flat)

Numbered(layout) == layout \notin {"cover", "closing"}

BuildDeck(c) ==
    LET specs == ToSpecs(c)
        layouts == [i \in DOMAIN specs |-> ResolveLayout(specs[i])] IN
    [i \in DOMAIN specs |->
        [layout |-> layouts[i], spec |-> specs[i],
         num |-> Cardinality({k \in 1 .. i : Numbered(layouts[k])})]]

-----------------------------------------------------------------------------
(* The viewer *)

Deck == BuildDeck(content)

\* Mutant: the slide is the one that was chosen, however short the deck is.
RawIdx == idx

\* The deck may have got shorter: the position is held within it when it is read.
SafeIdx == Least(idx, Most(Len(Deck) - 1, 0))

Init == content \in Contents /\ idx = 0

NextSlide == SafeIdx < Len(Deck) - 1 /\ idx' = Least(Len(Deck) - 1, idx + 1) /\ UNCHANGED content
PrevSlide == SafeIdx # 0 /\ idx' = Most(0, idx - 1) /\ UNCHANGED content
PickSlide == idx' \in 0 .. Len(Deck) - 1 /\ UNCHANGED content

\* The list is fetched anew and has another playbook in the place of this one.
Revised == content.next # <<>> /\ content' = Head(content.next) /\ UNCHANGED idx

Next == NextSlide \/ PrevSlide \/ PickSlide \/ Revised
Spec == Init /\ [][Next]_vars

-----------------------------------------------------------------------------
(* Properties *)

\* Texts that no line breaks, and that may be longer than a line; six entries of
\* three lines above a note; plans of more than sixty weeks.
Overfull(layout, s) ==
    \/ s.eyebrow > 100
    \/ layout = "comparison" /\ s.note /\ s.list >= 6 /\ s.text >= 3
    \/ layout = "timeline" /\ s.days > 450

\* The slides of the catalogue, which stand in for the drawings of the agent
\* that fail the check, pass it themselves, unless they are overfull.
CataloguePassesTheCheck ==
    \A i \in DOMAIN Deck : ~Overfull(Deck[i].layout, Deck[i].spec) => AuditBoxes(Texts(Deck[i].layout, Deck[i].spec))

\* A slide says something besides its heading if it has bullets, or what its own layout is for.
NoSlideIsBlank ==
    \A i \in DOMAIN Deck :
        LET s == Deck[i].spec IN
        (\/ s.n["bullets"] > 0
         \/ s.layout \in Layouts /\ Own(s.layout) \in Kinds /\ s.n[Own(s.layout)] > 1
         \/ s.layout \in {"statement", "quote"} /\ s.body > 0)
        => LET l == Deck[i].layout IN
           IF Own(l) \in Kinds THEN s.n[Own(l)] > 0 ELSE l \in {"cover", "closing"} \/ s.body > 0

\* A deck begins with its cover and ends with its closing slide, and the slides
\* between are numbered one after the other.
DeckIsFramed ==
    /\ Deck[1].layout = "cover" /\ Deck[Len(Deck)].layout = "closing"
    /\ \A i \in DOMAIN Deck : Numbered(Deck[i].layout) =>
          Deck[i].num = 1 + IF i = 1 THEN 0 ELSE Deck[i - 1].num

\* The viewer shows a slide of the deck, whatever became of the deck.
ViewerShowsASlide == SafeIdx + 1 \in DOMAIN Deck
=============================================================================
