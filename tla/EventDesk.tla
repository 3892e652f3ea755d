------------------------------ MODULE EventDesk ------------------------------
(***************************************************************************)
(* "Events" in the browser and the analysis of an event behind it: the     *)
(* list, the form, the page of one event with its attachments, its         *)
(* participants and its analysis (apps/web/src/pages/events and            *)
(* components/events, api/events.ts), and the server's side of it          *)
(* (internal/service/event_service.go, event_analysis_service.go).         *)
(*                                                                         *)
(* Every handler of the server that writes an event reads the whole row,   *)
(* edits its copy and saves the whole row: two steps here.                 *)
(***************************************************************************)
EXTENDS Naturals, Sequences, FiniteSets, SequencesExt, QueryCache

CONSTANTS
    Events,    \* ids of events
    MaxFiles,  \* bound: files to be attached, numbered in the order of a folder
    Slots,     \* bound: calls under way at a time
    MaxRuns,   \* bound: analyses
    Bounds     \* the smaller bounds to explore, one record per instance

Files == 1 .. MaxFiles

VARIABLES
    row,     \* the event table
    runs,    \* the analyses, in the order they were started
    writes,  \* what the callback, the dispatch and the reaper are about to save
    cache,   \* the query cache
    calls,   \* the mutations under way
    latest,  \* the last call of each useMutation, while it is pending
    loads,   \* the files that are being uploaded
    ui,      \* the page that is open, and its local state
    budget,  \* the bounds of this behaviour
    told,    \* history: the entries that were told something outdated, or nothing
    removed, \* history: the files the user has taken off
    holes,   \* history: events changed from where their lock was not shown
    astray   \* history: events whose analysis goes on without their being locked

vars == <<row, runs, writes, cache, calls, latest, loads, ui, budget,
          told, removed, holes, astray>>
server == <<row, runs, writes, holes, astray>>
browser == <<cache, calls, latest, loads>>
history == <<told, removed>>

-----------------------------------------------------------------------------
(* Data *)

Analysis == {"idle", "running", "success", "failed"}
\* att: the files attached; guest: a participant is invited; held: the event was
\* attended; an: the status of the analysis, by: the run whose report it holds.
Event == [att: SUBSET Files, guest: BOOLEAN, held: BOOLEAN, an: Analysis, by: 0 .. MaxRuns]

\* What the analysis reads.
Data(r) == [att |-> r.att, guest |-> r.guest, held |-> r.held]
Locking(r) == r # None /\ r.an = "running"

Keys == {"list"} \cup Events
Truth(k) == IF k = "list" THEN row ELSE row[k]

-----------------------------------------------------------------------------
(* The pages *)

Pages == {"list", "detail", "other"}
Uses(p, e) == CASE p = "list" -> {"list"} [] p = "detail" -> {e} [] p = "other" -> {}
Watched(k) == k \in Uses(ui.page, ui.open)

Shown(k) == cache[k].val

\* The local state of a page.  form: the dialog of the form; erase: the question
\* whether to delete; remove: the question whether to take off a file; draft:
\* the list of participants that is being edited.
NoUi == [page |-> "other", open |-> None, form |-> None, erase |-> None, remove |-> None,
         draft |-> None]

FormRecord ==
    [event: Events \cup {None}, att: SUBSET Files, guest: BOOLEAN, held: BOOLEAN, seen: SUBSET Files, free: BOOLEAN]

Covered == ui.form # None \/ ui.erase # None \/ ui.remove # None

\* The page of an event, and whether it shows that the event is locked.
Here == IF ui.page = "detail" THEN Shown(ui.open) ELSE None
Locked == Locking(Here)
Detail == Here # None /\ ~Covered

\* Mutant: nothing on the page minds the lock.
AlwaysOpen == Detail
Unlocked == Detail /\ ~Locked

Spend(f) == budget[f] > 0 /\ budget' = [budget EXCEPT ![f] = @ - 1]
Opening(u) == ui' = u /\ Spend("opens") /\ UNCHANGED <<server, browser, history>>
Typing(u) == ui' = u /\ Spend("edits") /\ UNCHANGED <<server, browser, history>>

Invalidate(ks) == [k \in Keys |-> IF k \in ks THEN Invalidated(cache[k], Watched(k)) ELSE cache[k]]

-----------------------------------------------------------------------------
(* Queries *)

\* The refetchInterval of useEvent.
Polls == Locked

Poll ==
    /\ Polls /\ cache[ui.open].fetch = "idle" /\ Here # Truth(ui.open)
    /\ cache' = [cache EXCEPT ![ui.open] = Refetched(@)]
    /\ UNCHANGED <<server, calls, latest, loads, ui, budget, history>>

Serve(k) ==
    /\ cache[k].fetch = "asked" /\ Truth(k) # None
    /\ cache' = [cache EXCEPT ![k] = Answered(@, Truth(k))]
    /\ UNCHANGED <<server, calls, latest, loads, ui, budget, history>>

Store(k) ==
    /\ cache[k].fetch = "answered"
    /\ told' = IF cache[k].got = Truth(k) THEN told \ {k} ELSE told \cup {k}
    /\ cache' = [cache EXCEPT ![k] = Stored(@)]
    /\ UNCHANGED <<server, calls, latest, loads, ui, budget, removed>>

LoadFails(k) ==
    /\ cache[k].fetch = "asked"
    /\ IF Truth(k) = None THEN UNCHANGED budget ELSE Spend("faults")
    /\ cache' = [cache EXCEPT ![k] = Cancelled(@)]
    /\ told' = told \cup {k}
    /\ UNCHANGED <<server, calls, latest, loads, ui, removed>>

-----------------------------------------------------------------------------
(* The server *)

Active(i) == runs[i].st \in {"new", "out"}
Analysed(e) == \E i \in DOMAIN runs : runs[i].event = e /\ Active(i)

\* A row is saved.  An analysis that goes on without the event saying so goes astray.
Save(e, r) ==
    /\ row' = [row EXCEPT ![e] = r]
    /\ astray' = IF Analysed(e) /\ ~Locking(r) THEN astray \cup {e} ELSE astray

Disturbed(e) == IF Locking(row[e]) THEN {e} ELSE {}

\* Create: one INSERT.
Insert(s) ==
    LET c == calls[s] IN
    /\ c # None /\ c.st = "sent" /\ c.op = "create"
    /\ \E e \in Events \ budget.used :
          /\ Save(e, [att |-> c.att, guest |-> c.guest, held |-> c.held, an |-> "idle", by |-> 0])
          /\ budget' = [budget EXCEPT !.used = @ \cup {e}]
          /\ calls' = [calls EXCEPT ![s].st = "ok", ![s].event = e]
    /\ UNCHANGED <<runs, writes, holes, cache, latest, loads, ui, history>>

\* Mutant: an analysis is started whatever the event says.
RefusesNone(c, r) == r = None

\* Update of an event that is gone; Start of an analysis while one is running.
Refuses(c, r) == r = None \/ (c.op = "analyze" /\ Locking(r))

\* The handler of a call reads the row ...
Read(s) ==
    LET c == calls[s] IN
    /\ c # None /\ c.st = "sent" /\ c.op \notin {"create", "delete"}
    /\ calls' = [calls EXCEPT ![s] =
          IF Refuses(c, row[c.event]) THEN [c EXCEPT !.st = "failed"]
          ELSE [c EXCEPT !.st = "read", !.copy = row[c.event],
                         !.seen = IF c.att = None THEN row[c.event].att ELSE @]]
    /\ UNCHANGED <<server, cache, latest, loads, ui, budget, history>>

\* ... and saves it with the fields the call has.
Sent(new, old) == IF new = None THEN old ELSE new
Updated(c) == [c.copy EXCEPT !.att = Sent(c.att, @), !.guest = Sent(c.guest, @),
                             !.held = Sent(c.held, @)]

Write(s) ==
    LET c == calls[s] IN
    /\ c # None /\ c.st = "read" /\ c.op # "analyze"
    /\ Save(c.event, Updated(c))
    /\ holes' = IF c.free THEN holes \cup Disturbed(c.event) ELSE holes
    /\ calls' = [calls EXCEPT ![s].st = "ok"]
    /\ UNCHANGED <<runs, writes, cache, latest, loads, ui, budget, history>>

\* Start: the event says that it is analysed, and the task is handed to a goroutine.
Start(s) ==
    LET c == calls[s]
        e == c.event IN
    /\ c # None /\ c.st = "read" /\ c.op = "analyze" /\ Len(runs) < MaxRuns
    /\ row' = [row EXCEPT ![e] = [c.copy EXCEPT !.an = "running"]]
    /\ runs' = Append(runs, [event |-> e, st |-> "new", data |-> Data(c.copy)])
    /\ astray' = IF row[e] = c.copy THEN astray ELSE astray \cup {e}
    /\ holes' = holes \ {e}
    /\ calls' = [calls EXCEPT ![s].st = "ok"]
    /\ UNCHANGED <<writes, cache, latest, loads, ui, budget, history>>

Delete(s) ==
    LET c == calls[s] IN
    /\ c # None /\ c.st = "sent" /\ c.op = "delete"
    /\ calls' = [calls EXCEPT ![s].st = IF row[c.event] = None THEN "failed" ELSE "ok"]
    /\ Save(c.event, None)
    /\ UNCHANGED <<runs, writes, holes, cache, latest, loads, ui, budget, history>>

\* The bridge takes the task; or it cannot be reached, or its answer is lost.
Later(w) == writes' = writes \cup {w}
Task(kind, i) == [kind |-> kind, run |-> i, event |-> runs[i].event, copy |-> row[runs[i].event]]
Turns(i, st) == runs' = [runs EXCEPT ![i].st = st]

Dispatch(i) ==
    /\ i \in DOMAIN runs /\ runs[i].st = "new" /\ Turns(i, "out")
    /\ UNCHANGED <<row, writes, holes, astray, browser, ui, budget, history>>

\* fail: only an event that is still waiting is marked.
DispatchFails(i) ==
    /\ i \in DOMAIN runs /\ runs[i].st = "new" /\ Spend("faults")
    /\ \E st \in {"out", "over"} : Turns(i, st)
    /\ IF Locking(row[runs[i].event]) THEN Later(Task("failed", i)) ELSE UNCHANGED writes
    /\ UNCHANGED <<row, holes, astray, browser, ui, history>>

\* Complete reads the event whose run has ended, whatever its status is.
Report(i) ==
    /\ i \in DOMAIN runs /\ runs[i].st = "out" /\ Turns(i, "over")
    /\ IF row[runs[i].event] = None THEN UNCHANGED writes
       ELSE \E kind \in {"success", "failed"} : Later(Task(kind, i))
    /\ UNCHANGED <<row, holes, astray, browser, ui, budget, history>>

LoseReport(i) ==
    /\ i \in DOMAIN runs /\ runs[i].st = "out" /\ Spend("faults") /\ Turns(i, "over")
    /\ UNCHANGED <<row, writes, holes, astray, browser, ui, history>>

\* ReapStale reads an event that has been running for too long.
Reap(i) ==
    /\ i \in DOMAIN runs /\ runs[i].st # "new" /\ Locking(row[runs[i].event])
    /\ \A j \in DOMAIN runs : j > i => runs[j].event # runs[i].event
    /\ \A w \in writes : w.event # runs[i].event
    /\ Later(Task("failed", i))
    /\ UNCHANGED <<row, runs, holes, astray, browser, ui, budget, history>>

\* Mutant: a failure is written down without the status.
KeepsRunning(w) == [w.copy EXCEPT !.an = IF w.kind = "success" THEN "success" ELSE @]

Settled(w) == [w.copy EXCEPT !.an = w.kind, !.by = IF w.kind = "success" THEN w.run ELSE @]

\* The browser hears of it by polling, if the page knows of the analysis.
Unheard(e) == {"list"} \cup (IF Locking(Shown(e)) THEN {} ELSE {e})

Settle(w) ==
    /\ Save(w.event, Settled(w)) /\ writes' = writes \ {w}
    /\ told' = told \cup Unheard(w.event)
    /\ UNCHANGED <<runs, holes, browser, ui, budget, removed>>

\* The API restarts: its goroutines and handlers die.  No sweep at boot looks at events.
Restart ==
    /\ Spend("faults")
    /\ runs' = [i \in DOMAIN runs |-> IF runs[i].st = "new" THEN [runs[i] EXCEPT !.st = "over"] ELSE runs[i]]
    /\ writes' = {}
    /\ calls' = [s \in Slots |-> IF calls[s] # None /\ calls[s].st \in {"sent", "read"}
                                 THEN [calls[s] EXCEPT !.st = "failed"] ELSE calls[s]]
    /\ UNCHANGED <<row, holes, astray, cache, latest, loads, ui, history>>

LoseCall(s) ==
    /\ calls[s] # None /\ calls[s].st \in {"sent", "ok"} /\ Spend("faults")
    /\ calls' = [calls EXCEPT ![s].st = "failed"]
    /\ told' = IF calls[s].st = "ok" THEN told \cup {"list"} \cup ({calls[s].event} \ {None}) ELSE told
    /\ UNCHANGED <<server, cache, latest, loads, ui, removed>>

\* Another browser invites someone, or deletes the event.
Elsewhere ==
    /\ Spend("others")
    /\ \E e \in Events :
          /\ row[e] # None
          /\ Save(e, [row[e] EXCEPT !.guest = ~@]) \/ Save(e, None)
          /\ told' = told \cup {e, "list"} /\ holes' = holes \cup Disturbed(e)
    /\ UNCHANGED <<runs, writes, browser, ui, removed>>

-----------------------------------------------------------------------------
(* Calls *)

\* att, guest, held: what the body has, None for a field it leaves out; file:
\* the file it attaches; free: it was begun where no lock was shown; seen: the
\* files its sender knew of.
Call(op, e) == [op |-> op, event |-> e, att |-> None, guest |-> None, held |-> None,
                file |-> None, free |-> FALSE, seen |-> {}, copy |-> None,
                alive |-> TRUE, st |-> "sent"]

\* useMutation per operation; "create" and "save" are those of one form.
Ops == {"create", "save", "files", "people", "delete", "analyze"}
CallRecord ==
    [op: Ops, event: Events \cup {None}, att: (SUBSET Files) \cup {None}, guest: BOOLEAN \cup {None},
     held: BOOLEAN \cup {None}, file: Files \cup {None}, free: BOOLEAN, seen: SUBSET Files,
     copy: Event \cup {None}, alive: BOOLEAN, st: {"sent", "read", "ok", "failed"}]

\* events: those that are there at first, with the files att; files: those to be attached; page: the page that is open;
\* calls, runs, opens, edits: calls, analyses, dialogs and pages, and edits to come;
\* faults: calls, loads and reports that fail; others: changes this browser has not made.
EventAssumption ==
    /\ {None, "list"} \cap Events = {} /\ None \notin FormRecord \cup CallRecord \cup Event
    /\ \A att \in SUBSET Files : att # None
    /\ Slots \subseteq Nat /\ MaxFiles \in Nat /\ MaxRuns \in Nat
    /\ \A b \in Bounds :
          /\ b.events \subseteq Events /\ b.att \cup b.files \subseteq Files /\ b.runs <= MaxRuns
          /\ IF b.page = "detail" THEN b.open \in b.events ELSE b.page \in {"list", "other"} /\ b.open = None
          /\ {b.calls, b.runs, b.opens, b.edits, b.faults, b.others} \subseteq Nat

Pending(op) == latest[op] # None

Post(c) ==
    \E s \in Slots : /\ calls[s] = None /\ \A t \in Slots : t < s => calls[t] # None
                    /\ calls' = [calls EXCEPT ![s] = c]
                    /\ latest' = IF c.alive THEN [latest EXCEPT ![c.op] = s] ELSE latest

Send(c) == Post(c) /\ UNCHANGED <<server, cache, history>>
Ask(c) == Send(c) /\ Spend("calls") /\ UNCHANGED loads

-----------------------------------------------------------------------------
(* Attachments *)

\* The files that are picked together are uploaded one after the other; value
\* is the list that was there when they were picked.
Load(into, e, value, fs, free) ==
    [into |-> into, event |-> e, value |-> value, with |-> fs, free |-> free, alive |-> TRUE]

Pick(into, e, value, free) ==
    /\ \E fs \in SUBSET budget.files :
          /\ fs # {}
          /\ loads' = [f \in Files |-> IF f \in fs THEN Load(into, e, value, fs, free) ELSE loads[f]]
          /\ budget' = [budget EXCEPT !.files = @ \ fs]
    /\ UNCHANGED <<server, cache, calls, latest, ui, history>>

\* onChange of EventAttachmentsInput: the list that was there, and the new file.
Listed(l, f) == l.value \cup {f}

\* A file is uploaded: the form takes the list in, the page saves it at once.
Uploaded(f) ==
    LET l == loads[f] IN
    /\ l # None /\ \A g \in l.with : g < f => loads[g] = None
    /\ loads' = [loads EXCEPT ![f] = None]
    /\ \/ /\ l.into = "form" /\ ui' = [ui EXCEPT !.form.att = Listed(l, f)]
          /\ UNCHANGED <<server, cache, calls, latest, history>>
       \/ /\ l.into = "page"
          /\ Send([Call("files", l.event) EXCEPT !.att = Listed(l, f), !.file = f, !.free = l.free,
                                                 !.seen = l.value, !.alive = l.alive])
          /\ UNCHANGED ui
    /\ UNCHANGED budget

UploadFails(f) ==
    /\ loads[f] # None /\ Spend("faults") /\ loads' = [loads EXCEPT ![f] = None]
    /\ UNCHANGED <<server, cache, calls, latest, ui, history>>

-----------------------------------------------------------------------------
(* The form *)

\* Mutant: the form keeps the attachments it had for the last event.
BlankForm(e, r, free) ==
    [event |-> e, att |-> {}, guest |-> r.guest, held |-> r.held, seen |-> r.att, free |-> free]

\* The form takes its fields from the event it is opened for, once.
FormOf(e, r, free) ==
    [event |-> e, att |-> r.att, guest |-> r.guest, held |-> r.held, seen |-> r.att, free |-> free]

NewForm == [event |-> None, att |-> {}, guest |-> FALSE, held |-> FALSE, seen |-> {}, free |-> TRUE]

Invite == ui.form # None /\ ~Pending("save") /\ ~Pending("create")
          /\ Typing([ui EXCEPT !.form.guest = ~@])
Hold == ui.form # None /\ Typing([ui EXCEPT !.form.held = ~@])

DropFromForm(f) ==
    /\ ui.form # None /\ ~Pending("save") /\ ~Pending("create") /\ f \in ui.form.att
    /\ ui' = [ui EXCEPT !.form.att = @ \ {f}]
    /\ removed' = removed \cup {<<ui.form.event, f>>}
    /\ UNCHANGED <<server, browser, budget, told>>

PickInForm ==
    /\ ui.form # None /\ ~Pending("save") /\ ~Pending("create")
    /\ Pick("form", ui.form.event, ui.form.att, ui.form.free)

\* handleSubmit sends every field; the button is off while a call is pending.
Submit ==
    LET f == ui.form
        op == IF f.event = None THEN "create" ELSE "save" IN
    /\ f # None /\ ~Pending("create") /\ ~Pending("save")
    /\ Ask([Call(op, f.event) EXCEPT !.att = f.att, !.guest = f.guest, !.held = f.held,
                                     !.seen = f.seen, !.free = f.free])
    /\ UNCHANGED ui

\* The form goes, with its mutations and its uploads.
Unmount(u) ==
    /\ ui' = u
    /\ IF ui.form # None /\ u.form = None
       THEN /\ latest' = [latest EXCEPT !["create"] = None, !["save"] = None]
            /\ loads' = [f \in Files |-> IF loads[f] # None /\ loads[f].into = "form" THEN None ELSE loads[f]]
       ELSE UNCHANGED <<latest, loads>>

CloseForm ==
    /\ ui.form # None /\ Unmount([ui EXCEPT !.form = None])
    /\ UNCHANGED <<server, cache, calls, budget, history>>

-----------------------------------------------------------------------------
(* The list *)

InList(e) == ui.page = "list" /\ ~Covered /\ Shown("list") # None /\ Shown("list")[e] # None

\* "Edit" in the list does not mind the lock.
OpenCreate == ui.page = "list" /\ ~Covered /\ Opening([ui EXCEPT !.form = NewForm])
OpenEdit(e) == InList(e) /\ Opening([ui EXCEPT !.form = FormOf(e, Shown("list")[e], TRUE)])
AskDelete(e) == InList(e) /\ Opening([ui EXCEPT !.erase = e])
ConfirmDelete ==
    ui.erase # None /\ ~Pending("delete") /\ Ask(Call("delete", ui.erase)) /\ UNCHANGED ui

-----------------------------------------------------------------------------
(* The page of an event *)

EditEvent == Unlocked /\ Opening([ui EXCEPT !.form = FormOf(ui.open, Here, ~Locked)])

\* EventAttachmentsSection: its input is gone while the event is locked.
PickHere == Unlocked /\ ~Pending("files") /\ Pick("page", ui.open, Here.att, ~Locked)

AskRemove(f) ==
    /\ Unlocked /\ ~Pending("files") /\ f \in Here.att
    /\ Opening([ui EXCEPT !.remove = [file |-> f, free |-> ~Locked]])

\* The question does not go when the event is locked meanwhile.
ConfirmRemove ==
    LET f == ui.remove.file IN
    /\ ui.remove # None /\ ~Pending("files")
    /\ ui' = [ui EXCEPT !.remove = None]
    /\ Post([Call("files", ui.open) EXCEPT !.att = Here.att \ {f}, !.seen = Here.att,
                                           !.free = ui.remove.free])
    /\ removed' = removed \cup {<<ui.open, f>>} /\ Spend("calls")
    /\ UNCHANGED <<server, cache, loads, told>>

\* EventParticipantsSection: the list is copied when it is opened for editing.
EditPeople == Unlocked /\ Opening([ui EXCEPT !.draft = IF @ = None THEN Here.guest ELSE None])
TypePeople == Unlocked /\ ui.draft # None /\ ~Pending("people") /\ Typing([ui EXCEPT !.draft = ~@])
SavePeople ==
    /\ Unlocked /\ ui.draft # None /\ ui.draft # Here.guest /\ ~Pending("people")
    /\ Ask([Call("people", ui.open) EXCEPT !.guest = ui.draft, !.free = ~Locked]) /\ UNCHANGED ui

\* EventAnalysisPanel is there for an event that was attended.
Analyze ==
    /\ Unlocked /\ Here.held /\ ~Pending("analyze")
    /\ Send(Call("analyze", ui.open)) /\ Spend("runs") /\ UNCHANGED <<loads, ui>>

Dismiss(d) == d \in {"erase", "remove"} /\ ui[d] # None /\ ui' = [ui EXCEPT ![d] = None]
              /\ UNCHANGED <<server, browser, budget, history>>

-----------------------------------------------------------------------------
(* Everywhere *)

\* A page is left: its local state and mutations go, its uploads go on.
Go(p, e) ==
    /\ ~Covered /\ <<p, e>> # <<ui.page, ui.open>> /\ Spend("opens")
    /\ ui' = [NoUi EXCEPT !.page = p, !.open = e]
    /\ \E old \in BOOLEAN :
          cache' = [k \in Keys |-> IF k \in Uses(p, e) THEN Opened(cache[k], old) ELSE cache[k]]
    /\ calls' = [s \in Slots |-> IF calls[s] = None THEN None ELSE [calls[s] EXCEPT !.alive = FALSE]]
    /\ latest' = [op \in Ops |-> None]
    /\ loads' = [f \in Files |-> IF loads[f] = None THEN None ELSE [loads[f] EXCEPT !.alive = FALSE]]
    /\ UNCHANGED <<server, history>>

OpenPage(p) == p # "detail" /\ Go(p, None)
OpenEvent(e) == InList(e) /\ Go("detail", e)

-----------------------------------------------------------------------------
(* Answers *)

\* The handlers that wait for a call close what is open by now.
Closed(c) ==
    CASE ~c.alive -> ui
      [] c.alive /\ c.op \in {"create", "save"} /\ c.st = "ok" -> [ui EXCEPT !.form = None]
      [] c.alive /\ c.op = "people" /\ c.st = "ok" -> [ui EXCEPT !.draft = None]
      [] c.alive /\ c.op = "delete" -> [ui EXCEPT !.erase = None]
      [] OTHER -> ui

\* Mutant: the page of the event is not told of what its sections save.
InvalidatesList(c) == {"list"}

\* The onSuccess of the hooks.
Invalidates(c) == IF c.op \in {"create", "delete"} THEN {"list"} ELSE {"list", c.event}

\* Mutant: a call that is over leaves its button pending.
StaysPending(s, ls) == ls

Freed(s, ls) == [op \in Ops |-> IF ls[op] = s THEN None ELSE ls[op]]

Deliver(s) ==
    LET c == calls[s]
        u == Closed(c)
        shut == ui.form # None /\ u.form = None IN
    /\ c # None /\ c.st \in {"ok", "failed"}
    /\ cache' = IF c.st = "ok" THEN Invalidate(Invalidates(c)) ELSE cache
    /\ calls' = [calls EXCEPT ![s] = None]
    /\ ui' = u
    /\ latest' = Freed(s, IF shut THEN [latest EXCEPT !["create"] = None, !["save"] = None] ELSE latest)
    /\ loads' = [f \in Files |-> IF shut /\ loads[f] # None /\ loads[f].into = "form" THEN None ELSE loads[f]]
    /\ UNCHANGED <<server, budget, told, removed>>

-----------------------------------------------------------------------------
Init ==
    /\ \E b \in Bounds :
          /\ budget = [calls |-> b.calls, opens |-> b.opens, edits |-> b.edits, faults |-> b.faults, runs |-> b.runs,
                       others |-> b.others, files |-> b.files \ b.att, used |-> b.events]
          /\ row = [e \in Events |-> IF e \in b.events
                                     THEN [att |-> b.att, guest |-> FALSE, held |-> TRUE, an |-> "idle", by |-> 0]
                                     ELSE None]
          /\ ui = [NoUi EXCEPT !.page = b.page, !.open = b.open]
    /\ runs = <<>> /\ writes = {}
    /\ cache = [k \in Keys |-> IF Truth(k) # None THEN Loaded(Truth(k)) ELSE NoEntry]
    /\ calls = [s \in Slots |-> None] /\ latest = [op \in Ops |-> None]
    /\ loads = [f \in Files |-> None]
    /\ told = {} /\ removed = {} /\ holes = {} /\ astray = {}

Query(k) == Serve(k) \/ Store(k)
Handle(s) == Insert(s) \/ Read(s) \/ Write(s) \/ Start(s) \/ Delete(s)
Bridge(i) == Dispatch(i) \/ DispatchFails(i) \/ Report(i) \/ LoseReport(i)
UseForm == Invite \/ Hold \/ PickInForm \/ Submit \/ CloseForm \/ \E f \in Files : DropFromForm(f)
UseList == OpenCreate \/ ConfirmDelete \/ \E e \in Events : OpenEdit(e) \/ AskDelete(e)
UseDetail ==
    \/ EditEvent \/ PickHere \/ ConfirmRemove \/ EditPeople \/ TypePeople \/ SavePeople \/ Analyze
    \/ \E f \in Files : AskRemove(f)
UseDialogs == \E d \in {"erase", "remove"} : Dismiss(d)
Upload(f) == Uploaded(f) \/ UploadFails(f)
Navigate == (\E p \in Pages : OpenPage(p)) \/ \E e \in Events : OpenEvent(e)

Next ==
    \/ Poll \/ \E k \in Keys : Query(k) \/ LoadFails(k)
    \/ \E s \in Slots : Handle(s) \/ LoseCall(s) \/ Deliver(s)
    \/ \E i \in 1 .. MaxRuns : Bridge(i) \/ Reap(i)
    \/ (\E w \in writes : Settle(w)) \/ Restart \/ Elsewhere
    \/ UseForm \/ UseList \/ UseDetail \/ UseDialogs \/ Navigate \/ \E f \in Files : Upload(f)

Spec == Init /\ [][Next]_vars

\* Requests are answered and answers handled, the browser polls, the reaper
\* comes round and what it has read it saves.
FairSpec ==
    /\ Spec /\ WF_vars(Poll) /\ \A k \in Keys : WF_vars(Query(k))
    /\ \A s \in Slots : WF_vars(Handle(s)) /\ WF_vars(Deliver(s))
    /\ \A i \in 1 .. MaxRuns : WF_vars(Reap(i)) /\ WF_vars(Dispatch(i))
    /\ WF_vars(\E w \in writes : Settle(w))

-----------------------------------------------------------------------------
(* Properties *)

TypeOK ==
    /\ row \in [Events -> Event \cup {None}]
    /\ \A i \in DOMAIN runs : runs[i].event \in Events /\ runs[i].st \in {"new", "out", "over"}
    /\ \A w \in writes : w.copy \in Event /\ w.event \in Events
    /\ \A e \in Events : Shown(e) \in Event \cup {None}
    /\ \A f \in Files : loads[f] # None /\ loads[f].into = "form" => ui.form # None
    /\ told \subseteq Keys /\ removed \subseteq (Events \cup {None}) \X Files
    /\ holes \cup astray \subseteq Events
    /\ calls \in [Slots -> CallRecord \cup {None}]
    /\ \A op \in Ops : Pending(op) => calls[latest[op]] # None /\ calls[latest[op]].op = op

AtRest ==
    /\ \A s \in Slots : calls[s] = None
    /\ \A k \in Keys : Watched(k) => Idle(cache[k])

\* When nothing is under way and the page does not wait for an analysis, the
\* list and the event on screen are those of the server, though sections, form,
\* uploads and analysis all write the same event.  `told' lists the ways around
\* it: a change elsewhere, a lost answer, a failed load, and an analysis that
\* ends while no page waits for it.
EventIsCurrent ==
    AtRest /\ ~Locked =>
        \A k \in Keys : Watched(k) /\ k \notin told /\ Truth(k) # None => Shown(k) = Truth(k)

\* A file goes from an event because the user has taken it off, or by a list
\* that was made without knowing of it; whole rows that are saved back and
\* forms that send all they have drop no other.
DropsNoOther ==
    \A e \in Events : row[e] # None /\ row'[e] # None =>
       \A f \in row[e].att \ row'[e].att :
          \/ <<e, f>> \in removed
          \/ \E s \in Slots : /\ calls[s] # None /\ calls[s].event = e /\ calls[s].st = "read"
                             /\ f \notin calls[s].seen
          \/ \E w \in writes : w.event = e /\ f \notin w.copy.att
DroppedUnseen == [][DropsNoOther]_vars

\* While an event is analysed it is the event that the analysis has read, as
\* long as nobody has changed it from where the lock was not shown: the list,
\* a form or a question that was open before, an upload that was under way,
\* another browser (`holes').
LockHolds ==
    \A i \in DOMAIN runs :
        LET e == runs[i].event IN
        Active(i) /\ Locking(row[e]) /\ e \notin holes \cup astray => Data(row[e]) = runs[i].data

\* An event is analysed once at a time, unless an earlier analysis was given up
\* for dead, or the event lost its mark to a handler that had read it before.
OneAnalysis ==
    \A i, j \in DOMAIN runs :
        Active(i) /\ Active(j) /\ runs[i].event = runs[j].event /\ runs[i].event \notin astray => i = j

\* A page that shows that its event is being analysed comes to show something
\* else, whatever is lost and whoever restarts, unless the event is gone.
Awaits == Locked /\ row[ui.open] # None
AnalysisEnds == Awaits ~> ~Awaits
=============================================================================
