------------------------------ MODULE ProjectDesk ------------------------------
(***************************************************************************)
(* "Ongoing projects" in the browser (apps/web/src/pages/ongoing,          *)
(* api/projects.ts) and the server behind it                               *)
(* (internal/service/project_service.go, http/handlers/project_handler.go).*)
(*                                                                         *)
(* A project is one row: the fields of the form, its milestones and its    *)
(* notes.  A handler that changes it reads the row, edits its copy and     *)
(* saves the whole copy, two steps here.  The browser sends the form and   *)
(* all the milestones, as its list shows them, to tick a single one.       *)
(***************************************************************************)
EXTENDS Naturals, Integers, FiniteSets, FiniteSetsExt, QueryCache

CONSTANTS
    Projects,    \* ids of projects
    Milestones,  \* titles of milestones
    Notes,       \* notes
    Inputs,      \* what may be filled in: records [status, progress]
    Slots,       \* bound: calls under way at a time
    Bounds       \* the smaller bounds to explore, one record per instance

ProjectStatus == {"ON_TRACK", "AT_RISK", "DELAYED", "COMPLETED"}

\* Progress is counted in half percents: the field of the form takes fractions.
FormOf == [status : ProjectStatus, progress : Int]
Row == [form : FormOf, miles : [Milestones -> {"none", "open", "done"}], notes : SUBSET Notes]
Fields == {"form"} \cup Milestones \cup Notes

\* The tags of the request: a whole number of percents, between 0 and 100.
Valid(f) == f.progress \in 0 .. 200 /\ f.progress % 2 = 0

Pages == {"list", "summary", "other"}
Ops == {"create", "update", "delete", "note"}
CallRecord ==
    [op : Ops, id : Projects \cup {None}, from : Ops \cup {"save", "toggle", "add"}, form : FormOf \cup {None},
     miles : [Milestones -> {"none", "open", "done"}], seen : Row \cup {None}, note : Notes \cup {None},
     aim : SUBSET Fields, at : Projects \cup {None}, got : Row \cup {None}, alive : BOOLEAN,
     st : {"sent", "read", "ok", "failed"}]

\* page: the page that is open; rows: the projects there are at first, their
\* rows by id; calls, opens, types: calls, dialogs and pages, and texts to come;
\* faults: calls and loads that are lost; others: changes this browser has not
\* made.  A field is told by its name.
ProjectDeskAssumption ==
    /\ None \notin Projects \cup Milestones \cup Notes \cup Row \cup CallRecord
    /\ "form" \notin Milestones \cup Notes /\ Milestones \cap Notes = {}
    /\ Inputs \subseteq FormOf /\ None \notin Slots /\ Slots \subseteq Nat
    /\ \A b \in Bounds :
          /\ {b.calls, b.opens, b.types, b.faults, b.others} \subseteq Nat
          /\ b.page \in Pages /\ DOMAIN b.rows \subseteq Projects
          /\ \A p \in DOMAIN b.rows : b.rows[p] \in Row /\ Valid(b.rows[p].form)

VARIABLES
    row,     \* the table of projects
    cache,   \* the entries of the query cache
    calls,   \* the mutations under way
    latest,  \* the last call of each useMutation, while it is pending
    ui,      \* the page that is open, and its local state
    budget,  \* the bounds of this behaviour
    told,    \* history: an entry was told something outdated, or nothing
    want,    \* history: each field as it was last changed on purpose
    lost,    \* history: fields put back by a write that did not know of a change
    gone,    \* history: the projects deleted from here
    revived  \* history: those that a call was about to save meanwhile

vars == <<row, cache, calls, latest, ui, budget, told, want, lost, gone, revived>>
browser == <<cache, calls, latest>>
history == <<told, want, lost, gone, revived>>

-----------------------------------------------------------------------------
(* Data *)

Table == [Projects -> Row \cup {None}]

\* Mutant: only what is too low is corrected.
AtLeastZero(f) == [f EXCEPT !.progress = IF @ < 0 THEN 0 ELSE @]

\* formToBody
FormToBody(f) == [f EXCEPT !.progress = IF @ < 0 THEN 0 ELSE IF @ > 200 THEN 200 ELSE @]

NoMilestones == [m \in Milestones |-> "none"]
Value(r, f) == CASE f = "form" -> r.form [] f \in Milestones -> r.miles[f] [] OTHER -> f \in r.notes

\* Mutant: a project that is completed counts as active.
SummarisedAll(t) ==
    LET Of(sts) == {p \in Projects : t[p] # None /\ t[p].form.status \in sts}
    IN [active |-> Cardinality(Of(ProjectStatus)), on_track |-> Cardinality(Of({"ON_TRACK"})),
        at_risk |-> Cardinality(Of({"AT_RISK"})), delayed |-> Cardinality(Of({"DELAYED"})),
        completed |-> Cardinality(Of({"COMPLETED"})), avg |-> 0]

\* ProjectService.Summary
Summarised(t) ==
    LET Of(sts) == {p \in Projects : t[p] # None /\ t[p].form.status \in sts}
        active == Of(ProjectStatus \ {"COMPLETED"})
    IN [active |-> Cardinality(active), on_track |-> Cardinality(Of({"ON_TRACK"})),
        at_risk |-> Cardinality(Of({"AT_RISK"})), delayed |-> Cardinality(Of({"DELAYED"})),
        completed |-> Cardinality(Of({"COMPLETED"})),
        avg |-> IF active = {} THEN 0
                ELSE MapThenSumSet(LAMBDA p : t[p].form.progress \div 2, active) \div Cardinality(active)]

Keys == {"projects", "summary"}
Answer(k) == IF k = "projects" THEN row ELSE Summarised(row)

-----------------------------------------------------------------------------
(* The pages *)

Watched(k) == ui.page = "summary" \/ (ui.page = "list" /\ k = "projects")
Shown == cache["projects"].val
Listed(p) == Shown # None /\ Shown[p] # None

\* What the summary page lists as in need of attention.
NeedAttention == {p \in Projects : Listed(p) /\ Shown[p].form.status \in {"AT_RISK", "DELAYED"}}

\* modal: the form, for a new project, or for one as it was when it was opened;
\* detail: the project whose drawer is open; erase: the question whether to
\* delete; mile, note: what is typed in the drawer, whichever project it shows.
NoUi == [page |-> "other", modal |-> None, detail |-> None, erase |-> None, mile |-> None, note |-> None]
NewProject == [id |-> None, row |-> None]

Detail == IF ui.detail # None /\ Listed(ui.detail) THEN ui.detail ELSE None
Covered == ui.modal # None \/ Detail # None \/ ui.erase # None

Spend(f) == budget[f] > 0 /\ budget' = [budget EXCEPT ![f] = @ - 1]
Opening(u) == ui.page = "list" /\ ui' = u /\ Spend("opens") /\ UNCHANGED <<row, browser, history>>
Closing(u) == ui' = u /\ UNCHANGED <<row, browser, budget, history>>

-----------------------------------------------------------------------------
(* The two queries *)

Serve(k) ==
    /\ cache[k].fetch = "asked" /\ cache' = [cache EXCEPT ![k] = Answered(@, Answer(k))]
    /\ UNCHANGED <<row, calls, latest, ui, budget, history>>

Store(k) ==
    /\ cache[k].fetch = "answered" /\ cache' = [cache EXCEPT ![k] = Stored(@)]
    /\ UNCHANGED <<row, calls, latest, ui, budget, history>>

LoadFails(k) ==
    /\ cache[k].fetch = "asked" /\ Spend("faults")
    /\ cache' = [cache EXCEPT ![k] = Cancelled(@)] /\ told' = TRUE
    /\ UNCHANGED <<row, calls, latest, ui, want, lost, gone, revived>>

-----------------------------------------------------------------------------
(* The server *)

Reply(s, st) == calls' = [calls EXCEPT ![s].st = st]
Sent(s, op) == calls[s] # None /\ calls[s].st = "sent" /\ calls[s].op = op

\* Mutant: a project that is not there is taken for a new one.
FetchedOrNew(c) ==
    {IF row[c.id] = None THEN [form |-> CHOOSE f \in Inputs : TRUE, miles |-> NoMilestones, notes |-> {}]
     ELSE row[c.id]}
\* GetByID
Fetched(c) == {row[c.id]} \ {None}

Create(s) ==
    /\ Sent(s, "create") /\ Valid(calls[s].form)
    /\ \E p \in Projects \ budget.used :
          LET r == [form |-> calls[s].form, miles |-> NoMilestones, notes |-> {}] IN
          /\ row' = [row EXCEPT ![p] = r] /\ want' = [want EXCEPT ![p] = r]
          /\ budget' = [budget EXCEPT !.used = @ \cup {p}]
    /\ Reply(s, "ok") /\ UNCHANGED <<cache, latest, ui, told, lost, gone, revived>>

Refuse(s) ==
    /\ \/ \E op \in {"create", "update"} : Sent(s, op) /\ ~Valid(calls[s].form)
       \/ \E op \in {"update", "note"} : Sent(s, op) /\ Fetched(calls[s]) = {}
    /\ Reply(s, "failed") /\ UNCHANGED <<row, cache, latest, ui, budget, history>>

\* A request that is in order.
Reads(s) ==
    /\ \/ Sent(s, "update") /\ Valid(calls[s].form)
       \/ Sent(s, "note")
    /\ \E r \in Fetched(calls[s]) : calls' = [calls EXCEPT ![s].st = "read", ![s].got = r]
    /\ UNCHANGED <<row, cache, latest, ui, budget, history>>

\* Mutant: the note takes the place of those before.
OnlyTheNote(c) == [c.got EXCEPT !.notes = {c.note}]
WithNote(c) == [c.got EXCEPT !.notes = @ \cup {c.note}]

\* applyProjectRequest
Edited(c) == [c.got EXCEPT !.form = c.form, !.miles = c.miles]

\* What the call knew of a field it is not to change: a request for a change sends what the browser
\* saw, the rest is what the handler has read.
Knew(c, f) == IF c.op = "update" /\ f \notin Notes THEN Value(c.seen, f) ELSE Value(c.got, f)

\* Save writes the copy, and the row anew if it is gone.
Writes(s) ==
    LET c == calls[s]
        p == c.id
        new == IF c.op = "note" THEN WithNote(c) ELSE Edited(c)
    IN
    /\ c # None /\ c.st = "read" /\ Reply(s, "ok") /\ row' = [row EXCEPT ![p] = new]
    /\ IF row[p] = None THEN want' = [want EXCEPT ![p] = new] /\ UNCHANGED lost
       ELSE /\ want' = [want EXCEPT ![p] =
                 [form |-> IF "form" \in c.aim THEN c.form ELSE @.form,
                  miles |-> [m \in Milestones |-> IF m \in c.aim THEN c.miles[m] ELSE @.miles[m]],
                  notes |-> @.notes \cup (c.aim \cap Notes)]]
            /\ lost' = (lost \ {<<p, f>> : f \in c.aim})
                       \cup {<<p, f>> : f \in {g \in Fields \ c.aim : Knew(c, g) # Value(row[p], g)}}
    /\ UNCHANGED <<cache, latest, ui, budget, told, gone, revived>>

Delete(s) ==
    /\ Sent(s, "delete") /\ Reply(s, "ok")
    /\ row' = [row EXCEPT ![calls[s].id] = None] /\ gone' = gone \cup {calls[s].id}
    /\ revived' = revived \cup {p \in {calls[s].id} :
                                   \E t \in Slots : calls[t] # None /\ calls[t].st = "read" /\ calls[t].id = p}
    /\ UNCHANGED <<cache, latest, ui, budget, told, want, lost>>

LoseCall(s) ==
    /\ calls[s] # None /\ calls[s].st \in {"sent", "ok"} /\ Spend("faults") /\ Reply(s, "failed")
    /\ told' = (told \/ calls[s].st = "ok")
    /\ UNCHANGED <<row, cache, latest, ui, want, lost, gone, revived>>

\* Another browser adds a milestone.
Elsewhere ==
    /\ Spend("others")
    /\ \E p \in Projects, m \in Milestones :
          /\ row[p] # None /\ row[p].miles[m] = "none"
          /\ row' = [row EXCEPT ![p].miles[m] = "open"] /\ want' = [want EXCEPT ![p].miles[m] = "open"]
    /\ told' = TRUE
    /\ UNCHANGED <<browser, ui, lost, gone, revived>>

-----------------------------------------------------------------------------
(* Calls *)

Pending(op) == latest[op] # None
Call(op, p) == [op |-> op, id |-> p, from |-> op, form |-> None, miles |-> NoMilestones, seen |-> None,
                note |-> None, aim |-> {}, at |-> None, got |-> None, alive |-> TRUE, st |-> "sent"]

Ask(c) ==
    /\ Spend("calls")
    /\ \E s \in Slots : /\ calls[s] = None /\ \A t \in Slots : t < s => calls[t] # None
                       /\ calls' = [calls EXCEPT ![s] = c]
                       /\ latest' = [latest EXCEPT ![c.op] = s]
    /\ UNCHANGED <<row, cache, ui, history>>

\* A change of a project, from the row the browser knows; aim: what it is to change.
Change(from, p, aim, seen, f, ms) ==
    Ask([Call("update", p) EXCEPT !.from = from, !.aim = aim, !.seen = seen, !.form = f, !.miles = ms])

-----------------------------------------------------------------------------
(* The list *)

OpenCreate == ~Covered /\ Opening([ui EXCEPT !.modal = NewProject])
OpenEdit(p) == ~Covered /\ Listed(p) /\ Opening([ui EXCEPT !.modal = [id |-> p, row |-> Shown[p]]])
OpenDetail(p) == ~Covered /\ Listed(p) /\ Opening([ui EXCEPT !.detail = p])
AskDelete(p) == ~Covered /\ Listed(p) /\ Opening([ui EXCEPT !.erase = p])

\* handleSave, of a project with a name.  "Save" is off while a call is pending.
HandleSave ==
    /\ ui.modal # None /\ ~Pending("create") /\ ~Pending("update")
    /\ \E f \in Inputs \cup (IF ui.modal.id = None THEN {} ELSE {ui.modal.row.form}) :
          IF ui.modal.id = None THEN Ask([Call("create", None) EXCEPT !.form = FormToBody(f)])
          ELSE Change("save", ui.modal.id, {"form"}, ui.modal.row, FormToBody(f), ui.modal.row.miles)

\* It keeps in mind which drawer is open now.
HandleDelete == ui.erase # None /\ ~Pending("delete") /\ Ask([Call("delete", ui.erase) EXCEPT !.at = ui.detail])

-----------------------------------------------------------------------------
(* The drawer: nothing waits for the call before *)

ToggleMilestone(m) ==
    /\ Detail # None /\ Shown[Detail].miles[m] # "none"
    /\ LET r == Shown[Detail] IN
          Change("toggle", Detail, {m}, r, FormToBody(r.form),
                 [r.miles EXCEPT ![m] = IF @ = "done" THEN "open" ELSE "done"])

Type(f, t) ==
    /\ Detail # None /\ ui[f] # t
    /\ ui' = [ui EXCEPT ![f] = t] /\ Spend("types") /\ UNCHANGED <<row, browser, history>>

\* Mutant: only the new milestone is sent.
OnlyTheMilestone(r, m) == [NoMilestones EXCEPT ![m] = "open"]
WithMilestone(r, m) == [r.miles EXCEPT ![m] = "open"]

\* Of a title the list does not have: milestones are told apart by their titles here.
AddMilestone ==
    /\ Detail # None /\ ui.mile # None /\ Shown[Detail].miles[ui.mile] = "none"
    /\ LET r == Shown[Detail] IN Change("add", Detail, {ui.mile}, r, FormToBody(r.form), WithMilestone(r, ui.mile))

AddNote == Detail # None /\ ui.note # None /\ Ask([Call("note", Detail) EXCEPT !.note = ui.note, !.aim = {ui.note}])

-----------------------------------------------------------------------------
(* Everywhere *)

\* Escape, the cross, the backdrop or "Cancel", of what is open.
Dismiss ==
    \/ ui.modal # None /\ Closing([ui EXCEPT !.modal = None])
    \/ Detail # None /\ Closing([ui EXCEPT !.detail = None])
    \/ ui.erase # None /\ Closing([ui EXCEPT !.erase = None])

\* A page is left: its local state and mutations go.
Go(p) ==
    /\ ~Covered /\ p # ui.page /\ Spend("opens")
    /\ ui' = [NoUi EXCEPT !.page = p]
    /\ \E old \in [Keys -> BOOLEAN] :
          cache' = [k \in Keys |-> IF Watched(k)' /\ ~Watched(k) THEN Opened(cache[k], old[k]) ELSE cache[k]]
    /\ calls' = [s \in Slots |-> IF calls[s] = None THEN None ELSE [calls[s] EXCEPT !.alive = FALSE]]
    /\ latest' = [op \in Ops |-> None]
    /\ UNCHANGED <<row, history>>

Answers(c, u) == IF c.from = "delete" THEN [u EXCEPT !.erase = None] ELSE u

\* The handlers that wait for a call close, and empty, what is there by now.
Closed(c) ==
    CASE ~c.alive -> ui
      [] c.alive /\ c.st = "failed" -> Answers(c, ui)
      [] c.alive /\ c.st = "ok" ->
            Answers(c, [ui EXCEPT !.modal = IF c.from \in {"create", "save"} THEN None ELSE @,
                                  !.detail = IF c.from = "delete" /\ c.at = c.id THEN None ELSE @,
                                  !.mile = IF c.from = "add" THEN None ELSE @,
                                  !.note = IF c.from = "note" THEN None ELSE @])

\* useInvalidateProjects
Invalidates(c) == IF c.st = "ok" THEN Keys ELSE {}

Freed(s) == [op \in Ops |-> IF latest[op] = s THEN None ELSE latest[op]]

\* An invalidation does not start anew the first fetch of an entry, nor that of
\* an entry off screen: an answer under way is stored, and the mark goes.
Outrun(k) == cache[k].fetch = "answered" /\ (cache[k].val = None \/ ~Watched(k))

Deliver(s) ==
    LET c == calls[s] IN
    /\ c # None /\ c.st \in {"ok", "failed"}
    /\ cache' = [k \in Keys |-> IF k \in Invalidates(c) THEN Invalidated(cache[k], Watched(k)) ELSE cache[k]]
    /\ calls' = [calls EXCEPT ![s] = None] /\ latest' = Freed(s) /\ ui' = Closed(c)
    /\ told' = (told \/ \E k \in Invalidates(c) : Outrun(k))
    /\ UNCHANGED <<row, budget, want, lost, gone, revived>>

-----------------------------------------------------------------------------
Init ==
    /\ \E b \in Bounds :
          /\ budget = [calls |-> b.calls, opens |-> b.opens, types |-> b.types, faults |-> b.faults,
                       others |-> b.others, used |-> DOMAIN b.rows]
          /\ row = [p \in Projects |-> IF p \in DOMAIN b.rows THEN b.rows[p] ELSE None]
          /\ ui = [NoUi EXCEPT !.page = b.page]
    /\ cache = [k \in Keys |-> IF Watched(k) THEN Loaded(Answer(k)) ELSE NoEntry]
    /\ calls = [s \in Slots |-> None] /\ latest = [op \in Ops |-> None]
    /\ told = FALSE /\ want = row /\ lost = {} /\ gone = {} /\ revived = {}

Query(k) == Serve(k) \/ Store(k)
Handle(s) == Create(s) \/ Refuse(s) \/ Reads(s) \/ Writes(s) \/ Delete(s)
UseList == OpenCreate \/ HandleSave \/ HandleDelete \/ \E p \in Projects : OpenEdit(p) \/ OpenDetail(p) \/ AskDelete(p)
UseDrawer ==
    \/ AddMilestone \/ AddNote
    \/ \E m \in Milestones : ToggleMilestone(m) \/ Type("mile", m)
    \/ \E n \in Notes : Type("note", n)

Next ==
    \/ \E k \in Keys : Query(k) \/ LoadFails(k)
    \/ \E s \in Slots : Handle(s) \/ LoseCall(s) \/ Deliver(s)
    \/ Elsewhere \/ UseList \/ UseDrawer \/ Dismiss \/ \E p \in Pages : Go(p)

Spec == Init /\ [][Next]_vars

-----------------------------------------------------------------------------
(* Properties *)

TypeOK ==
    /\ row \in Table /\ want \in Table /\ cache["projects"] \in Entry(Table)
    /\ told \in BOOLEAN /\ lost \subseteq Projects \X Fields /\ revived \subseteq gone /\ gone \subseteq Projects
    /\ ui.detail \in Projects \cup {None} /\ ui.erase \in Projects \cup {None}
    /\ \A p \in Projects : row[p] # None => Valid(row[p].form)
    /\ \A op \in Ops : Pending(op) => calls[latest[op]] # None /\ calls[latest[op]].op = op

AtRest == (\A s \in Slots : calls[s] = None) /\ (\A k \in Keys : Watched(k) => Idle(cache[k])) /\ ~told

\* When nothing is under way, the projects and the summary on screen are those
\* of the server, and the two agree on how many projects need attention.
DeskIsCurrent ==
    AtRest =>
        /\ \A k \in Keys : Watched(k) => cache[k].val = Answer(k)
        /\ ui.page = "summary" =>
              LET sum == cache["summary"].val IN
              /\ sum.at_risk + sum.delayed = Cardinality(NeedAttention)
              /\ sum.active = sum.on_track + Cardinality(NeedAttention)

\* A change of the form or of a milestone is kept, whatever else is saved,
\* except by a write that was composed, or had read the row, before it.
EditsKept ==
    \A p \in Projects, f \in {"form"} \cup Milestones :
        row[p] # None => Value(row[p], f) = Value(want[p], f) \/ <<p, f>> \in lost

\* A note is kept, except by a write whose handler had read the row before it:
\* the browser's outdated list alone never costs one.
NotesKept ==
    \A p \in Projects, n \in Notes :
        row[p] # None /\ n \in want[p].notes => n \in row[p].notes \/ <<p, n>> \in lost

\* What the pages send is refused only for a fraction of a percent, or because
\* the project is gone.
RefusedForACause ==
    \A s \in Slots :
        Sent(s, "create") \/ Sent(s, "update") =>
            Valid(calls[s].form) \/ calls[s].form.progress \in {h \in 0 .. 200 : h % 2 = 1}

\* A project that was deleted stays deleted, unless a handler had its row.
DeletedStaysGone == \A p \in gone : row[p] = None \/ p \in revived
=============================================================================
