---------------------------- MODULE FeedbackForms ----------------------------
(***************************************************************************)
(* Feedback questionnaires: the pages that edit them in the browser         *)
(* (apps/web/src/pages/postproject/feedback, api/feedbackForms.ts over      *)
(* react-query) and the service behind them                                 *)
(* (internal/service/feedback_form_service.go).                             *)
(*                                                                         *)
(* A page keeps its edits in local state, which starts from the cached form *)
(* and dies with the page; the query cache and calls under way outlive it.  *)
(* On the server a handler reads a form, edits the copy and saves all of    *)
(* it, and suggestions of questions are delegated to the bridge, which      *)
(* reports back.                                                            *)
(***************************************************************************)
EXTENDS Naturals, Sequences, FiniteSets, Functions

CONSTANTS
    Forms,         \* ids of feedback_form rows
    None,          \* no row, no form, no data
    Slots,         \* bound: calls of the browser under way at a time
    PendingSizes,  \* how many questions a suggestion may hold
    MaxAsks,       \* bound: suggestions handed to the bridge
    MaxVisits,     \* bound: openings of the builder
    MaxItems,      \* bound: questions in the editor
    MaxFaults,     \* bound: lost answers, failed loads and restarts
    Bounds         \* the smaller bounds to explore, one record per instance

\* forms: the rows there are at first; calls, moves and edits: how many calls
\* may be sent, pages opened and edits made.
Budget ==
    [forms: SUBSET Forms, slots: SUBSET Slots, asks: 0 .. MaxAsks, items: 0 .. MaxItems,
     faults: 0 .. MaxFaults, calls: Nat, moves: Nat, edits: Nat]
ASSUME BoundsAssumption == Bounds \subseteq Budget
ASSUME FormsAssumption == None \notin Forms /\ Slots \subseteq Nat
ASSUME SizesAssumption == PendingSizes \subseteq Nat \ {0}
ASSUME LimitsAssumption == {MaxAsks, MaxVisits, MaxItems, MaxFaults} \subseteq Nat

VARIABLES
    row,     \* the feedback_form table
    tasks,   \* handlers of the server that work for the bridge or the reaper
    asks,    \* suggestions handed over so far
    calls,   \* mutations under way, one per slot
    cache,   \* the query cache: what is kept under ['feedback-form', id]
    stale,   \* the forms whose cache entry is invalidated
    fetch,   \* the query under way per form
    page,    \* the page that is mounted, and the form in its address
    ui,      \* the local state of the builder
    visit,   \* how many times the builder was opened
    budget,  \* the bounds of this behaviour, and the faults it has left
    born,    \* history: the rows each visit created
    twice,   \* history: visits with a creation sent before the last was known
    mixed,   \* history: forms asked again while an older run was under way, or
             \* saved from an outdated copy
    misled   \* history: forms that changed behind the back of the page

server == <<row, tasks, asks, mixed>>
browser == <<cache, stale, fetch>>
local == <<page, ui, visit>>
history == <<born, twice>>
vars == <<server, calls, browser, local, budget, history, misled>>

-----------------------------------------------------------------------------
(* Data *)

Status == {"draft", "published", "processing_ai", "need_clarification"}
Sizes == PendingSizes \cup {0}

\* ask: the request the job is for; by: the one whose report it holds.
Job == [ask: 0 .. MaxAsks, by: 0 .. MaxAsks, clarify: BOOLEAN, pending: Sizes,
        err: BOOLEAN]
ASSUME JobAssumption == None \notin Job

\* A question is its id and where its label comes from.
Item == [id: 1 .. MaxItems, label: {"blank", "typed", "ai"}]
Items == UNION {[1 .. n -> Item] : n \in 0 .. MaxItems}
Row == [st: Status, qs: Items, job: Job \cup {None}]

NewJob(k, vague) ==
    [ask |-> k, by |-> 0, clarify |-> vague, pending |-> 0, err |-> FALSE]

Busy(r) == r.st \in {"processing_ai", "need_clarification"}

-----------------------------------------------------------------------------
(* The server *)

\* Update keeps the status of a form with a suggestion under way.
Updated(r, qs) == [r EXCEPT !.qs = qs, !.st = IF Busy(r) THEN r.st ELSE "draft"]

\* StartAISuggest; a prompt that is too vague asks back without the agent.
Suggested(r, k, vague) ==
    [r EXCEPT !.job = NewJob(k, vague),
              !.st = IF vague THEN "need_clarification" ELSE "processing_ai"]

\* SubmitClarifyAnswers.
Clarified(r, k) ==
    [r EXCEPT !.job = [@ EXCEPT !.ask = k, !.by = 0, !.clarify = FALSE, !.err = FALSE],
              !.st = "processing_ai"]

\* ClearAIJob.
Cleared(r) == [r EXCEPT !.job = None, !.st = IF Busy(r) THEN "draft" ELSE r.st]

\* Mutant: the failure is noted in the job only.
KeepsStatus(r) ==
    [r EXCEPT !.job = [IF r.job = None THEN NewJob(0, FALSE) ELSE r.job
                       EXCEPT !.err = TRUE, !.clarify = FALSE, !.pending = 0]]

\* The failure of a run: markAISuggestFailed, the reaper, a report of failure.
Failed(r) ==
    [r EXCEPT !.st = "draft",
              !.job = [IF r.job = None THEN NewJob(0, FALSE) ELSE r.job
                       EXCEPT !.err = TRUE, !.clarify = FALSE, !.pending = 0]]

Clarify == <<"clarify", 0>>
Failure == <<"failed", 0>>
Outcomes == {Clarify, Failure} \cup {<<"questions", n>> : n \in PendingSizes}

\* CompleteAISuggest: run k reports questions back, or some, or a failure.
Completed(r, k, out) ==
    LET job == IF r.job = None THEN NewJob(0, FALSE) ELSE r.job IN
    IF out = Failure THEN [Failed(r) EXCEPT !.job.by = k]
    ELSE [r EXCEPT !.st = IF out = Clarify THEN "need_clarification" ELSE "draft",
                   !.job = [job EXCEPT !.by = k, !.err = FALSE,
                                       !.clarify = (out = Clarify), !.pending = out[2]]]

\* What the handler of a call refuses of the row it has read.
Refuses(c, r) ==
    \/ r = None
    \/ c.op = "publish" /\ r.qs = <<>>
    \/ c.op = "suggest" /\ r.st = "processing_ai"
    \/ c.op = "clarify"
       /\ (r.job = None \/ ~r.job.clarify \/ r.st # "need_clarification")

\* A slot without a call.
NoCall ==
    [op |-> "none", form |-> None, qs |-> <<>>, visit |-> 0, then |-> "none", st |-> "free", copy |-> None]

Task(f, k, st, copy, out) ==
    [form |-> f, ask |-> k, st |-> st, copy |-> copy, out |-> out]

\* A new run for form f, next to those of it that are under way.
Launch(f) ==
    /\ asks < budget.asks
    /\ asks' = asks + 1
    /\ tasks' = tasks \cup {Task(f, asks + 1, "new", None, None)}
NoLaunch == UNCHANGED <<asks, tasks>>

\* The row is no longer what the handler has read.
Outdated(f, copy) == IF copy = row[f] THEN {} ELSE {f}
Running(f) == row[f] # None /\ row[f].st = "processing_ai"
Underway(f) == IF \E t \in tasks : t.form = f /\ t.ask # 0 THEN {f} ELSE {}

\* One fault, call, page or edit less to come.
Fault == budget.faults > 0 /\ budget' = [budget EXCEPT !.faults = @ - 1]
Spend == budget.calls > 0 /\ budget' = [budget EXCEPT !.calls = @ - 1]
Go == budget.moves > 0 /\ budget' = [budget EXCEPT !.moves = @ - 1]
Change == budget.edits > 0 /\ budget' = [budget EXCEPT !.edits = @ - 1]

Fresh(f) == row[f] = None /\ \A v \in 0 .. MaxVisits : f \notin born[v]

\* Create, and StartAISuggest without a form: one INSERT.
Insert(s, f) ==
    LET c == calls[s]
        empty == [st |-> "draft", qs |-> c.qs, job |-> None]
        Put(r) == /\ row' = [row EXCEPT ![f] = r]
                  /\ calls' = [calls EXCEPT ![s] = [c EXCEPT !.st = "ok", !.form = f, !.copy = r]]
    IN  /\ c.st = "sent" /\ c.form = None /\ Fresh(f)
        /\ \/ c.op = "create" /\ Put(empty) /\ NoLaunch
           \/ c.op = "suggest" /\ Put(Suggested(empty, 0, TRUE)) /\ NoLaunch
           \/ c.op = "suggest" /\ Put(Suggested(empty, asks + 1, FALSE)) /\ Launch(f)
        /\ born' = [born EXCEPT ![c.visit] = @ \cup {f}]
        /\ UNCHANGED <<browser, local, budget, twice, misled, mixed>>

\* The handler of a call on a form reads the row and checks it.
Read(s) ==
    LET c == calls[s] IN
    /\ c.st = "sent" /\ c.form # None /\ c.op # "delete"
    /\ calls' = [calls EXCEPT ![s] = IF Refuses(c, row[c.form])
                                     THEN [c EXCEPT !.st = "failed"]
                                     ELSE [c EXCEPT !.st = "read", !.copy = row[c.form]]]
    /\ UNCHANGED <<server, browser, local, budget, history, misled>>

\* ... and saves the copy it has edited, all of it.
Write(s) ==
    LET c == calls[s]
        Save(r) == /\ row' = [row EXCEPT ![c.form] = r]
                   /\ calls' = [calls EXCEPT ![s] = [c EXCEPT !.st = "ok", !.copy = r]]
    IN  /\ c.st = "read"
        /\ \/ c.op = "update" /\ Save(Updated(c.copy, c.qs)) /\ NoLaunch
           \/ c.op = "publish" /\ Save([c.copy EXCEPT !.st = "published"]) /\ NoLaunch
           \/ c.op = "clear" /\ Save(Cleared(c.copy)) /\ NoLaunch
           \/ c.op = "suggest" /\ Save(Suggested(c.copy, 0, TRUE)) /\ NoLaunch
           \/ c.op = "suggest" /\ Save(Suggested(c.copy, asks + 1, FALSE)) /\ Launch(c.form)
           \/ c.op = "clarify" /\ Save(Clarified(c.copy, asks + 1)) /\ Launch(c.form)
        /\ mixed' = mixed \cup Outdated(c.form, c.copy)
                         \cup (IF asks' = asks THEN {} ELSE Underway(c.form))
        /\ UNCHANGED <<browser, local, budget, history, misled>>

Delete(s) ==
    LET c == calls[s] IN
    /\ c.st = "sent" /\ c.op = "delete"
    /\ row' = [row EXCEPT ![c.form] = None]
    /\ calls' = [calls EXCEPT ![s].st = "ok"]
    /\ NoLaunch
    /\ UNCHANGED <<mixed, browser, local, budget, history, misled>>

Becomes(t, st, copy, out) ==
    tasks' = (tasks \ {t}) \cup {Task(t.form, t.ask, st, copy, out)}

\* dispatchAISuggest hands the run over.  When the bridge does not answer the
\* run is given up for failed, whether the bridge took it or not.
Dispatch(t) ==
    /\ t.st = "new" /\ Becomes(t, "running", None, None)
    /\ UNCHANGED <<row, asks, mixed, calls, browser, local, budget, history, misled>>

DispatchFails(t) ==
    /\ t.st = "new" /\ Fault
    /\ \E taken \in BOOLEAN :
          tasks' = (tasks \ {t})
                   \cup (IF taken THEN {Task(t.form, t.ask, "running", None, None)} ELSE {})
                   \cup (IF Running(t.form)
                         THEN {Task(t.form, t.ask, "failing", row[t.form], Failure)} ELSE {})
    /\ UNCHANGED <<row, asks, mixed, calls, browser, local, history, misled>>

\* Mutant: a report is applied whatever the form is doing.
AcceptsAnyway(f) == row[f] # None

\* CompleteAISuggest takes a report for a form that waits for one.
Accepts(f) == Running(f)

\* The callback reads the form; a report nobody waits for is dropped, and one
\* may be lost on its way.
Report(t, out) ==
    /\ t.st = "running"
    /\ IF Accepts(t.form) THEN Becomes(t, "reporting", row[t.form], out) ELSE tasks' = tasks \ {t}
    /\ UNCHANGED <<row, asks, mixed, calls, browser, local, budget, history, misled>>

LoseReport(t) ==
    /\ t.st = "running" /\ tasks' = tasks \ {t} /\ Fault
    /\ UNCHANGED <<row, asks, mixed, calls, browser, local, history, misled>>

\* The reaper reads every form; one that has been processing too long is failed.
Reap(f) ==
    /\ Running(f) /\ \A t \in tasks : t.form = f => t.ask # 0
    /\ tasks' = tasks \cup {Task(f, 0, "reaping", row[f], Failure)}
    /\ UNCHANGED <<row, asks, mixed, calls, browser, local, budget, history, misled>>

\* A query: not under way, sent, or answered and about to be stored; late when
\* the row or the cache has moved on since it was answered.
NoFetch == [st |-> "idle", val |-> None, late |-> FALSE]
Asked == [st |-> "asked", val |-> None, late |-> FALSE]
Overtaken(f) == [fetch[f] EXCEPT !.late = (fetch[f].st = "answered")]

\* What the callback, markAISuggestFailed or the reaper saves.
Settle(t) ==
    /\ t.st \in {"failing", "reporting", "reaping"}
    /\ row' = [row EXCEPT ![t.form] =
                  IF t.st = "reporting" THEN Completed(t.copy, t.ask, t.out) ELSE Failed(t.copy)]
    /\ tasks' = tasks \ {t}
    /\ misled' = IF Running(t.form) THEN misled ELSE misled \cup {t.form}
    /\ fetch' = IF Running(t.form) THEN fetch
                ELSE [fetch EXCEPT ![t.form] = Overtaken(t.form)]
    /\ mixed' = mixed \cup Outdated(t.form, t.copy)
    /\ UNCHANGED <<asks, calls, cache, stale, local, budget, history>>

\* The API restarts: handlers die, the bridge does not, and the boot sweep
\* fails every form that is processing.
Restart ==
    /\ Fault
    /\ tasks' = {t \in tasks : t.st = "running"}
    /\ row' = [f \in Forms |-> IF Running(f) THEN Failed(row[f]) ELSE row[f]]
    /\ calls' = [s \in Slots |-> IF calls[s].st \in {"sent", "read"}
                                 THEN [calls[s] EXCEPT !.st = "failed"] ELSE calls[s]]
    /\ UNCHANGED <<asks, mixed, browser, local, history, misled>>

-----------------------------------------------------------------------------
(* The query cache *)

At(p, f) == [at |-> p, form |-> f]
NoUi == [form |-> None, panel |-> None, qs |-> <<>>, sel |-> {}, shown |-> 0,
         titled |-> FALSE, refining |-> 0, bare |-> FALSE]

Editing == page.at = "builder"

\* The components that subscribe to a form: the detail page, the wrapper of
\* the builder and its AI panel.
Observes(p, u, f) == p.at # "list" /\ (p.form = f \/ u.panel = f)

\* Mutant: a successful save leaves the cached form alone.
NotInvalidated(f) == UNCHANGED <<stale, fetch>>

\* invalidateQueries: an entry that is on screen is fetched again at once, and
\* an answer under way is not waited for, unless it is the first; off screen,
\* it is only marked, and the answer under way takes the mark off.
Invalidated(f) ==
    /\ stale' = stale \cup {f}
    /\ fetch' = [fetch EXCEPT ![f] = IF Observes(page, ui, f) /\ (cache[f] # None \/ @.st = "idle")
                                    THEN Asked ELSE Overtaken(f)]

\* setQueryData: a fetch under way is not cancelled, it will overwrite this.
SetData(f, r) ==
    /\ cache' = [cache EXCEPT ![f] = r]
    /\ stale' = stale \ {f}
    /\ fetch' = [fetch EXCEPT ![f] = Overtaken(f)]
    /\ misled' = IF r = row[f] \/ r.st = "processing_ai" THEN misled \ {f}
                 ELSE misled \cup {f}

\* What the page is told: the AI is at work.
Working(f) == cache[f] # None /\ cache[f].st = "processing_ai"

\* Mutant: only the detail page polls.
PollsOnDetail(f) ==
    /\ page = At("detail", f) /\ Working(f) /\ fetch[f].st = "idle"
    /\ fetch' = [fetch EXCEPT ![f] = Asked]
    /\ UNCHANGED <<server, calls, cache, stale, local, budget, history, misled>>

\* refetchInterval: every three seconds while the form on screen is processing.
Poll(f) ==
    /\ Observes(page, ui, f) /\ Working(f)
    /\ fetch[f].st = "idle"
    /\ fetch' = [fetch EXCEPT ![f] = Asked]
    /\ UNCHANGED <<server, calls, cache, stale, local, budget, history, misled>>

\* The server answers a query with the row as it is.
Serve(f) ==
    /\ fetch[f].st = "asked" /\ row[f] # None
    /\ fetch' = [fetch EXCEPT ![f].st = "answered", ![f].val = row[f]]
    /\ UNCHANGED <<server, calls, cache, stale, local, budget, history, misled>>

-----------------------------------------------------------------------------
(* The builder's local state *)

\* Mutant: the selection is kept when another suggestion is shown.
KeepSelection(u, c) ==
    LET job == IF u.panel = None \/ c[u.panel] = None THEN None ELSE c[u.panel].job
        n == IF job = None THEN 0 ELSE job.pending
    IN  [u EXCEPT !.shown = n, !.sel = IF u.shown = 0 THEN 1 .. n ELSE @]

\* State that is adjusted while rendering: a list of another length is shown
\* with everything selected.
Rendered(u, c) ==
    LET job == IF u.panel = None \/ c[u.panel] = None THEN None ELSE c[u.panel].job
        n == IF job = None THEN 0 ELSE job.pending
    IN  IF n = u.shown THEN u ELSE [u EXCEPT !.shown = n, !.sel = 1 .. n]

\* What the AI panel shows.
Panel == LET c == IF ui.panel = None THEN None ELSE cache[ui.panel] IN
         IF c = None THEN "prompt"
         ELSE CASE c.st = "processing_ai" -> "processing"
                [] c.st = "need_clarification" /\ c.job # None /\ c.job.clarify -> "clarifying"
                [] OTHER -> IF ui.shown # 0 THEN "pending" ELSE "prompt"

\* BuilderInner mounts: its state comes from the cached form, once.
Mounted(f, r) ==
    Rendered([NoUi EXCEPT !.form = f, !.panel = f, !.titled = (r # None),
                          !.qs = IF r = None THEN <<>> ELSE r.qs,
                          !.bare = (f # None /\ r = None)],
             [cache EXCEPT ![f] = r])

\* A query is mounted: an entry that is missing or invalidated is fetched,
\* and so is one older than thirty seconds, unless it is being fetched.
Subscribed(f, then) ==
    /\ stale' = stale
    /\ \/ fetch' = IF fetch[f].st = "idle" THEN [fetch EXCEPT ![f] = then] ELSE fetch
       \/ cache[f] # None /\ f \notin stale /\ fetch' = fetch

Leave == ui' = NoUi /\ visit' = visit

OpenList ==
    /\ page.at # "list" /\ page' = At("list", None) /\ Leave
    /\ Go
    /\ UNCHANGED <<server, calls, browser, history, misled>>

OpenDetail(f) ==
    /\ page.at # "detail" /\ row[f] # None
    /\ page' = At("detail", f) /\ Leave /\ Subscribed(f, Asked)
    /\ Go
    /\ UNCHANGED <<server, calls, cache, history, misled>>

OpenNew ==
    /\ page.at = "list" /\ visit < MaxVisits
    /\ page' = At("builder", None) /\ ui' = Mounted(None, None) /\ visit' = visit + 1
    /\ Go
    /\ UNCHANGED <<server, calls, browser, history, misled>>

\* The wrapper mounts the editor at once on cached data, however old, and
\* waits for the query otherwise.
Enter(f) ==
    /\ visit < MaxVisits /\ visit' = visit + 1
    /\ IF cache[f] = None
       THEN page' = At("loading", f) /\ ui' = NoUi
       ELSE page' = At("builder", f) /\ ui' = Mounted(f, cache[f])

OpenBuilder(f) ==
    /\ page.at \in {"list", "detail"} /\ row[f] # None
    /\ Enter(f) /\ Subscribed(f, Asked)
    /\ Go
    /\ UNCHANGED <<server, calls, cache, history, misled>>

\* The answer of a query goes into the cache, whatever was put there since.
Store(f) ==
    /\ fetch[f].st = "answered"
    /\ cache' = [cache EXCEPT ![f] = fetch[f].val]
    /\ fetch' = [fetch EXCEPT ![f] = NoFetch]
    /\ stale' = stale \ {f}
    /\ misled' = IF fetch[f].late THEN misled \cup {f} ELSE misled \ {f}
    /\ IF page = At("loading", f)
       THEN page' = At("builder", f) /\ ui' = Mounted(f, fetch[f].val)
       ELSE page' = page /\ ui' = Rendered(ui, cache')
    /\ UNCHANGED <<server, calls, visit, budget, history>>

\* The query has failed for good: it is no longer loading, so the editor is
\* mounted with no data, but bound to the form in the address.
WithoutData(f) ==
    IF page = At("loading", f)
    THEN page' = At("builder", f) /\ ui' = Mounted(f, None)
    ELSE page' = page /\ ui' = ui

LoadFails(f) ==
    /\ fetch[f].st = "asked"
    /\ \/ row[f] = None /\ budget' = budget
       \/ Fault
    /\ fetch' = [fetch EXCEPT ![f] = NoFetch]
    /\ misled' = misled \cup {f}
    /\ WithoutData(f)
    /\ UNCHANGED <<server, calls, cache, stale, visit, history>>

-----------------------------------------------------------------------------
(* Editing questions *)

Edits(u) == /\ Editing /\ ui' = u /\ Change
            /\ UNCHANGED <<server, calls, browser, page, visit, history, misled>>

\* Mutant: ids are numbered by position, and used again after a removal.
NumberedByPosition(u, n) == [i \in 1 .. n |-> Len(u.qs) + i]

UsedIds(u) == {u.qs[i].id : i \in DOMAIN u.qs} \cup {u.refining}
Appended(u, n) ==
    LET free == {i \in 1 .. MaxItems : i \notin UsedIds(u)}
        ids == CHOOSE seq \in [1 .. n -> free] : \A i, j \in 1 .. n : i < j => seq[i] < seq[j]
    IN  [i \in 1 .. n |-> ids[i]]
Room(u, n) == Cardinality(UsedIds(u) \ {0}) + n <= budget.items

TypeTitle == ~ui.titled /\ Edits([ui EXCEPT !.titled = TRUE])

AddQuestion ==
    /\ Room(ui, 1)
    /\ Edits([ui EXCEPT !.qs = Append(@, [id |-> Appended(ui, 1)[1], label |-> "blank"])])

TypeLabel(i) ==
    /\ i \in DOMAIN ui.qs /\ ui.qs[i].label # "typed"
    /\ Edits([ui EXCEPT !.qs[i].label = "typed"])

RemoveQuestion(i) ==
    /\ i \in DOMAIN ui.qs
    /\ Edits([ui EXCEPT !.qs = SelectSeq(@, LAMBDA q : q.id # ui.qs[i].id)])

\* The arrows of a card; dragging one card over the next is the same.
Move(i) ==
    /\ i \in DOMAIN ui.qs /\ i + 1 \in DOMAIN ui.qs
    /\ Edits([ui EXCEPT !.qs = [@ EXCEPT ![i] = ui.qs[i + 1], ![i + 1] = ui.qs[i]]])

\* "Edit dengan AI" sends the question as it is now ...
Refine(i) ==
    /\ i \in DOMAIN ui.qs /\ ui.refining = 0
    /\ Edits([ui EXCEPT !.refining = ui.qs[i].id])

\* ... and patches the one that has its id when the answer comes, if any has.
RefineAnswered ==
    /\ ui.refining # 0
    /\ \/ Edits([ui EXCEPT !.refining = 0])
       \/ Edits([ui EXCEPT !.refining = 0,
                           !.qs = [i \in DOMAIN ui.qs |->
                                      IF ui.qs[i].id = ui.refining
                                      THEN [ui.qs[i] EXCEPT !.label = "ai"] ELSE ui.qs[i]]])

-----------------------------------------------------------------------------
(* Calls of the pages *)

Call(op, f, qs, then) ==
    [op |-> op, form |-> f, qs |-> qs, visit |-> visit, then |-> then, st |-> "sent",
     copy |-> None]

Send(c) ==
    /\ Spend
    /\ \E s \in budget.slots : /\ calls[s] = NoCall /\ \A t \in Slots : t < s => calls[t] # NoCall
                              /\ calls' = [calls EXCEPT ![s] = c]

Pending(ops) == \E s \in Slots : calls[s].visit = visit /\ calls[s].op \in ops

Creates(c) == c.op \in {"create", "suggest"} /\ c.then \in {"new", "newPublish"}
Creating == \E s \in Slots : Creates(calls[s]) /\ calls[s].visit = visit
Noted(c) == twice' = IF Creates(c) /\ Creating THEN twice \cup {visit} ELSE twice

\* persist: a form that has an id is updated, another one created; the
\* buttons are blocked by each other's calls, not by those of the AI panel.
Persist(publish) ==
    /\ Editing /\ ~Pending({"create", "update", "publish"})
    /\ ui.titled /\ \A i \in DOMAIN ui.qs : ui.qs[i].label # "blank"
    /\ publish => ui.qs # <<>>
    /\ LET c == IF ui.form # None
                THEN Call("update", ui.form, ui.qs, IF publish THEN "publish" ELSE "save")
                ELSE Call("create", None, ui.qs, IF publish THEN "newPublish" ELSE "new")
       IN  Send(c) /\ Noted(c)
    /\ UNCHANGED <<server, browser, local, born, misled>>

\* runSuggest.
RunSuggest ==
    /\ Editing /\ Panel = "prompt" /\ ~Pending({"suggest"})
    /\ LET c == Call("suggest", ui.panel, <<>>, IF ui.panel = None THEN "new" ELSE "save")
       IN  Send(c) /\ Noted(c)
    /\ UNCHANGED <<server, browser, local, born, misled>>

\* submitAnswers: Enter in a field is not blocked by the call under way.
SubmitAnswers ==
    /\ Editing /\ Panel = "clarifying" /\ Send(Call("clarify", ui.panel, <<>>, "save"))
    /\ UNCHANGED <<server, browser, local, history, misled>>

\* cancelJob.
CancelJob ==
    /\ Editing /\ Panel \in {"clarifying", "pending"}
    /\ Send(Call("clear", ui.panel, <<>>, "save"))
    /\ UNCHANGED <<server, browser, local, history, misled>>

Toggle(i) ==
    /\ Panel = "pending" /\ i \in 1 .. ui.shown
    /\ Edits([ui EXCEPT !.sel = IF i \in @ THEN @ \ {i} ELSE @ \cup {i}])

\* addSelected: into the local questions, then the job is cleared.
AddSelected ==
    LET n == Cardinality(ui.sel)
        ids == Appended(ui, n)
    IN  /\ Editing /\ Panel = "pending" /\ n > 0 /\ ~Pending({"clear"}) /\ Room(ui, n)
        /\ ui' = [ui EXCEPT !.sel = {},
                            !.qs = @ \o [i \in 1 .. n |-> [id |-> ids[i], label |-> "ai"]]]
        /\ Send(Call("clear", ui.panel, <<>>, "save"))
        /\ UNCHANGED <<server, browser, page, visit, history, misled>>

\* The buttons of the detail page and of the list.
PublishFromDetail ==
    /\ page.at = "detail" /\ cache[page.form] # None /\ ~Pending({"publish"})
    /\ cache[page.form].st = "draft" /\ cache[page.form].qs # <<>>
    /\ Send(Call("publish", page.form, <<>>, "stay"))
    /\ UNCHANGED <<server, browser, local, history, misled>>

Duplicate(f) ==
    /\ page.at = "list" /\ row[f] # None
    /\ Send([Call("create", None, row[f].qs, "open") EXCEPT !.visit = 0])
    /\ UNCHANGED <<server, browser, local, history, misled>>

DeleteForm(f) ==
    /\ page.at = "list" /\ row[f] # None /\ Send(Call("delete", f, <<>>, "save"))
    /\ UNCHANGED <<server, browser, local, history, misled>>

-----------------------------------------------------------------------------
(* Answers of calls *)

Alive(c) == Editing /\ c.visit = visit
Done(s) == calls' = [calls EXCEPT ![s] = NoCall]
Then(s, next) ==
    calls' = [calls EXCEPT ![s] = IF next THEN [@ EXCEPT !.op = "publish", !.then = "publish",
                                                         !.st = "sent", !.copy = None]
                                          ELSE NoCall]

\* Mutant: the id of the new form is shown in the address only.
NotAdopted(f) == ui

\* setSavedId; the AI panel follows the id of its parent.
Adopted(f) == Rendered([ui EXCEPT !.form = f, !.panel = f], cache)

OnCreated(s) ==
    LET c == calls[s] IN
    /\ c.st = "ok" /\ c.op = "create" /\ c.then # "open"
    /\ IF Alive(c) THEN ui' = Adopted(c.form) /\ Subscribed(c.form, Asked)
                   ELSE UNCHANGED <<ui, fetch, stale>>
    /\ Then(s, c.then = "newPublish")
    /\ UNCHANGED <<server, cache, page, visit, budget, history, misled>>

\* A copy is opened for editing, wherever the user is by now.
OnDuplicated(s) ==
    LET c == calls[s] IN
    /\ c.st = "ok" /\ c.then = "open"
    /\ Enter(c.form) /\ Subscribed(c.form, Asked) /\ Done(s)
    /\ UNCHANGED <<server, cache, budget, history, misled>>

OnUpdated(s) ==
    LET c == calls[s] IN
    /\ c.st = "ok" /\ c.op = "update"
    /\ Invalidated(c.form) /\ Then(s, c.then = "publish")
    /\ UNCHANGED <<server, cache, local, budget, history, misled>>

\* handlePublish of the builder goes on to the detail page, wherever the user
\* is by now.
OnPublished(s) ==
    LET c == calls[s] IN
    /\ c.st = "ok" /\ c.op = "publish" /\ Done(s)
    /\ \/ c.then = "stay" /\ Invalidated(c.form) /\ UNCHANGED local
       \/ /\ c.then = "publish"
          /\ page' = At("detail", c.form) /\ Leave
          /\ stale' = stale \cup {c.form}
          /\ fetch' = [fetch EXCEPT ![c.form] =
                          IF Observes(page, ui, c.form) \/ @.st = "idle" THEN Asked
                          ELSE Overtaken(c.form)]
    /\ UNCHANGED <<server, cache, budget, history, misled>>

\* The answer of the AI calls is the form itself; the panel adopts a new one.
OnForm(s) ==
    LET c == calls[s] IN
    /\ c.st = "ok" /\ c.op \in {"suggest", "clarify", "clear"}
    /\ SetData(c.form, c.copy) /\ Done(s)
    /\ ui' = Rendered(IF ~Alive(c) \/ c.op # "suggest" THEN ui
                      ELSE [ui EXCEPT !.panel = c.form, !.titled = @ \/ c.then = "new",
                                      !.form = IF c.then = "new" THEN c.form ELSE @], cache')
    /\ UNCHANGED <<server, page, visit, budget, history>>

OnDeleted(s) ==
    LET c == calls[s] IN
    /\ c.st = "ok" /\ c.op = "delete"
    /\ Done(s)
    /\ UNCHANGED <<server, browser, local, budget, history, misled>>

\* A toast, and nothing else.
OnFailed(s) ==
    /\ calls[s].st = "failed" /\ Done(s)
    /\ UNCHANGED <<server, browser, local, budget, history, misled>>

\* The network loses a request, or the answer to one that was carried out.
LoseCall(s) ==
    LET c == calls[s] IN
    /\ c.st \in {"sent", "ok"}
    /\ Fault
    /\ calls' = [calls EXCEPT ![s].st = "failed"]
    /\ twice' = IF c.st = "ok" /\ Creates(c) THEN twice \cup {c.visit} ELSE twice
    /\ IF c.st = "ok"
       THEN misled' = misled \cup {c.form} /\ fetch' = [fetch EXCEPT ![c.form] = Overtaken(c.form)]
       ELSE UNCHANGED <<misled, fetch>>
    /\ UNCHANGED <<server, cache, stale, local, born>>

-----------------------------------------------------------------------------
Saved == [st |-> "published", qs |-> <<[id |-> 1, label |-> "typed"]>>, job |-> None]

Init ==
    /\ budget \in Bounds
    /\ row = [f \in Forms |-> IF f \in budget.forms THEN Saved ELSE None]
    /\ tasks = {} /\ asks = 0 /\ mixed = {}
    /\ calls = [s \in Slots |-> NoCall]
    /\ cache = [f \in Forms |-> None] /\ stale = {} /\ fetch = [f \in Forms |-> NoFetch]
    /\ page = At("list", None) /\ ui = NoUi /\ visit = 0
    /\ born = [v \in 0 .. MaxVisits |-> IF v = 0 THEN budget.forms ELSE {}]
    /\ twice = {} /\ misled = {}

Handle(s) == Read(s) \/ Write(s) \/ Delete(s) \/ \E f \in Forms : Insert(s, f)
Deliver(s) == OnCreated(s) \/ OnDuplicated(s) \/ OnUpdated(s) \/ OnPublished(s)
              \/ OnForm(s) \/ OnDeleted(s) \/ OnFailed(s)
Work(t) == Dispatch(t) \/ Settle(t)
Bridge(t) == DispatchFails(t) \/ LoseReport(t)
             \/ \E out \in Outcomes : Report(t, out)
Query(f) == Poll(f) \/ Serve(f) \/ Store(f) \/ LoadFails(f)
Navigate == OpenList \/ OpenNew \/ \E f \in Forms : OpenDetail(f) \/ OpenBuilder(f)
Edit == TypeTitle \/ AddQuestion \/ RefineAnswered
        \/ \E i \in 1 .. MaxItems : TypeLabel(i) \/ RemoveQuestion(i) \/ Move(i) \/ Refine(i)
Ask == RunSuggest \/ SubmitAnswers \/ CancelJob \/ AddSelected
       \/ \E i \in 1 .. MaxItems : Toggle(i)
Command == PublishFromDetail \/ (\E publish \in BOOLEAN : Persist(publish))
           \/ \E f \in Forms : Duplicate(f) \/ DeleteForm(f)

Next ==
    \/ \E s \in Slots : Handle(s) \/ Deliver(s) \/ LoseCall(s)
    \/ \E t \in tasks : Work(t) \/ Bridge(t)
    \/ \E f \in Forms : Query(f) \/ Reap(f)
    \/ Restart \/ Navigate \/ Edit \/ Ask \/ Command

Spec == Init /\ [][Next]_vars

\* The server serves what it was sent, the goroutines and the reaper run, and
\* the browser polls, and stores what it is answered.  Users and the bridge
\* need do nothing.
FairSpec ==
    /\ Spec
    /\ \A s \in Slots : WF_vars(Handle(s) \/ Deliver(s))
    /\ WF_vars(\E t \in tasks : Work(t))
    /\ \A f \in Forms : WF_vars(Reap(f)) /\ WF_vars(Poll(f) \/ Serve(f) \/ Store(f))

-----------------------------------------------------------------------------
(* Properties *)

TypeOK ==
    /\ row \in [Forms -> Row \cup {None}]
    /\ asks \in 0 .. MaxAsks /\ visit \in 0 .. MaxVisits /\ budget \in Budget
    /\ cache \in [Forms -> Row \cup {None}]
    /\ ui.qs \in Items /\ IsInjective([i \in DOMAIN ui.qs |-> ui.qs[i].id])
    /\ stale \subseteq Forms /\ misled \subseteq Forms

\* A visit to the builder makes at most one form, except when a creation is
\* sent before the last one is known to have succeeded: "Simpan Draft" next to
\* "Minta saran AI", or a retry after a lost answer.
OneFormPerVisit == \A v \in 1 .. MaxVisits : Cardinality(born[v]) <= 1 \/ v \in twice

\* The outcome a form shows is that of the request it is shown for.  Not so in
\* the code when the form was asked again while an abandoned run was still
\* under way, whose late report is taken for the new one's, or when a handler
\* saved a copy that was outdated by then: those forms are in `mixed'.
ResultIsOwn ==
    \A f \in Forms \ mixed :
        row[f] # None /\ row[f].job # None => row[f].job.by \in {0, row[f].job.ask}

\* When nothing is under way for the form on screen, the page shows the form
\* (unless it was deleted) as it is, or is polling; `misled' lists the ways around it: an answer that
\* overtakes a newer one, a lost one, a write of the server nobody asked for.
ScreenIsCurrent ==
    \A f \in Forms \ misled :
        /\ Observes(page, ui, f) /\ cache[f] # None /\ row[f] # None
        /\ fetch[f].st = "idle" /\ f \notin stale
        /\ \A s \in Slots : calls[s].form # f
        => cache[f] = row[f] \/ cache[f].st = "processing_ai"

\* The AI panel never selects a question that is not in the list it shows, so
\* "Tambahkan yang dipilih" counts and adds the same ones.
SelectionIsShown == ui.sel \subseteq 1 .. ui.shown /\ (Panel = "prompt" => ui.sel = {})

\* What the page shows is current, and what its buttons act on.
PageHolds == ScreenIsCurrent /\ SelectionIsShown

\* A form does not wait for its suggestion for ever, whatever the bridge does.
SuggestionEnds == \A f \in Forms : Running(f) ~> ~Running(f)

\* A panel that says the AI is at work stops saying so, as long as the form
\* is there and on screen.
PanelSettles ==
    \A f \in Forms :
        Working(f) ~> (~Working(f) \/ ~Observes(page, ui, f) \/ row[f] = None)

\* A suggestion comes to an end, on the server and on screen.
SuggestionSettles == SuggestionEnds /\ PanelSettles
=============================================================================
