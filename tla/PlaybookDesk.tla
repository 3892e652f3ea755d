----------------------------- MODULE PlaybookDesk -----------------------------
(***************************************************************************)
(* "Playbooks" in the browser and the card of a playbook on the page of an *)
(* event (apps/web/src/pages/playbooks/PlaybooksIndex.tsx,                 *)
(* components/events/EventPlaybookCard.tsx, api/playbookJobs.ts), with the *)
(* server behind them.  Both show the same list of jobs, which polls while *)
(* a job in it is active.  A request for a revision or another try checks  *)
(* a copy of the row and saves it later: two may pass the check, and both  *)
(* hand a task over.  The other handlers are one step each here:           *)
(* PlaybookJobs opens them.                                                *)
(***************************************************************************)
EXTENDS Naturals, FiniteSets, QueryCache

CONSTANTS
    Jobs,      \* ids of playbook jobs
    Slots,     \* bound: calls under way at a time
    MaxTexts,  \* bound: instructions typed
    Bounds     \* the smaller bounds to explore, one record per instance

Texts == 1 .. MaxTexts

Pages == {"list", "event", "other"}
Status == {"in_progress", "updating", "success", "failed"}
JobRow == [st : Status, ev : BOOLEAN]
Ops == {"create", "event", "refine", "retry", "delete"}
CallRecord == [op : Ops, job : Jobs \cup {None}, text : Texts \cup {None}, alive : BOOLEAN,
               st : {"sent", "held", "ok", "failed"}, copy : JobRow \cup {None}]

\* jobs: the finished playbooks there are at first; linked: that of the event among them; page: the page that is open;
\* calls, opens, texts: calls, dialogs and pages, and instructions to come;
\* faults: calls, loads and reports that are lost; others: changes this browser has not made.
PlaybookDeskAssumption ==
    /\ None \notin Jobs /\ None \notin JobRow /\ None \notin CallRecord
    /\ None \notin Slots /\ None \notin Texts /\ Slots \subseteq Nat /\ MaxTexts \in Nat
    /\ \A b \in Bounds : /\ b.jobs \cup b.linked \subseteq Jobs /\ Cardinality(b.linked) <= 1
                         /\ b.page \in Pages /\ b.texts \in 0 .. MaxTexts
                         /\ {b.calls, b.opens, b.faults, b.others} \subseteq Nat

VARIABLES
    job,     \* the table of jobs
    out,     \* the tasks the bridge works on, by job
    list,    \* the entry of the query cache
    calls,   \* the mutations under way
    latest,  \* the last call of each useMutation, while it is pending
    ui,      \* the page that is open, and its local state
    budget,  \* the bounds of this behaviour
    told,    \* history: the list was told something outdated, or nothing
    lost,    \* history: the instructions the user has given up
    again,   \* history: the instructions that may have been sent twice
    taken    \* history: how often the server has taken each instruction

vars == <<job, out, list, calls, latest, ui, budget, told, lost, again, taken>>
server == <<job, out, taken>>
browser == <<list, calls, latest>>
history == <<told, lost, again>>

-----------------------------------------------------------------------------
(* Data *)

IsJobActive(st) == st \in {"in_progress", "updating"}

Active(j) == job[j] # None /\ IsJobActive(job[j].st)

-----------------------------------------------------------------------------
(* The pages *)

Watched == ui.page # "other"
Shown == list.val
Listed(j) == Shown # None /\ Shown[j] # None

\* create: the dialog of a new playbook, filled in or not; open: the job whose
\* details are open; view: with its slides and the box for an instruction;
\* text: what is in that box; erase: the question whether to delete.
NoUi == [page |-> "other", create |-> "closed", open |-> None, view |-> FALSE,
         text |-> None, erase |-> None]

Covered == ui.create # "closed" \/ ui.open # None \/ ui.view \/ ui.erase # None

\* The playbook of the event.
Card == IF \E j \in Jobs : Listed(j) /\ Shown[j].ev THEN CHOOSE j \in Jobs : Listed(j) /\ Shown[j].ev
        ELSE None

Current ==
    CASE ui.page = "list" /\ ui.open # None -> IF Listed(ui.open) THEN ui.open ELSE None
      [] ui.page = "event" /\ ui.view -> Card
      [] OTHER -> None

\* The box is there under the slides of a finished playbook.
Box == ui.view /\ Current # None /\ Shown[Current].st = "success"

Spend(f) == budget[f] > 0 /\ budget' = [budget EXCEPT ![f] = @ - 1]
Opening(u) == ui' = u /\ Spend("opens") /\ UNCHANGED <<server, browser, history>>
Closing(u) == ui' = u /\ UNCHANGED <<server, browser, budget, history>>

-----------------------------------------------------------------------------
(* The list of jobs *)

\* Mutant: a playbook that is being revised is not polled for.
PollsForNew == Watched /\ \E j \in Jobs : Listed(j) /\ Shown[j].st = "in_progress"

\* The refetchInterval of usePlaybookJobs.
Polls == Watched /\ \E j \in Jobs : Listed(j) /\ IsJobActive(Shown[j].st)

Poll ==
    /\ Polls /\ list.fetch = "idle" /\ Shown # job
    /\ list' = Refetched(list)
    /\ UNCHANGED <<server, calls, latest, ui, budget, history>>

Serve ==
    /\ list.fetch = "asked" /\ list' = Answered(list, job)
    /\ UNCHANGED <<server, calls, latest, ui, budget, history>>

Store ==
    /\ list.fetch = "answered" /\ list' = Stored(list)
    /\ told' = (list.got # job)
    /\ UNCHANGED <<server, calls, latest, ui, budget, lost, again>>

LoadFails ==
    /\ list.fetch = "asked" /\ Spend("faults")
    /\ list' = Cancelled(list) /\ told' = TRUE
    /\ UNCHANGED <<server, calls, latest, ui, lost, again>>

-----------------------------------------------------------------------------
(* The server *)

Hand(j) == out' = [out EXCEPT ![j] = @ + 1]

Accepts(op) == CASE op = "refine" -> {"success"} [] op = "retry" -> {"failed"} [] OTHER -> Status
Refuses(c) == job[c.job] # None => job[c.job].st \notin Accepts(c.op)

Reply(s, st) == calls' = [calls EXCEPT ![s].st = st, ![s].copy = None]
Sent(s, ops) == calls[s] # None /\ calls[s].st = "sent" /\ calls[s].op \in ops
Holds(s, ops) == calls[s] # None /\ calls[s].st = "held" /\ calls[s].op \in ops

\* A new playbook of an event takes the link from the one before.
Create(s) ==
    /\ Sent(s, {"create", "event"})
    /\ \E j \in Jobs \ budget.used :
          /\ job' = [i \in Jobs |->
                IF i = j THEN [st |-> "in_progress", ev |-> calls[s].op = "event"]
                ELSE IF calls[s].op = "event" /\ job[i] # None THEN [job[i] EXCEPT !.ev = FALSE] ELSE job[i]]
          /\ Hand(j) /\ budget' = [budget EXCEPT !.used = @ \cup {j}]
    /\ Reply(s, "ok") /\ UNCHANGED <<taken, list, latest, ui, history>>

Refuse(s) ==
    /\ Sent(s, {"refine", "retry", "delete"}) /\ Refuses(calls[s]) /\ Reply(s, "failed")
    /\ UNCHANGED <<server, list, latest, ui, budget, history>>

\* A request for a revision or another try has read the row, and it may be done ...
Check(s) ==
    /\ Sent(s, {"refine", "retry"}) /\ ~Refuses(calls[s])
    /\ calls' = [calls EXCEPT ![s].st = "held", ![s].copy = job[calls[s].job]]
    /\ UNCHANGED <<server, list, latest, ui, budget, history>>

\* ... and saves the copy, which brings back a row that was deleted meanwhile,
\* unless the event has another playbook by now (uq_playbook_job_event).
Fits(c) == c.copy.ev => \A j \in Jobs \ {c.job} : job[j] # None => ~job[j].ev
Save(c, st) == Fits(c) /\ job' = [job EXCEPT ![c.job] = [c.copy EXCEPT !.st = st]]

Collide(s) ==
    /\ Holds(s, {"refine", "retry"}) /\ ~Fits(calls[s]) /\ Reply(s, "failed")
    /\ UNCHANGED <<server, list, latest, ui, budget, history>>

Refine(s) ==
    /\ Holds(s, {"refine"}) /\ Save(calls[s], "updating") /\ Hand(calls[s].job) /\ Reply(s, "ok")
    /\ taken' = [taken EXCEPT ![calls[s].text] = @ + 1]
    /\ UNCHANGED <<list, latest, ui, budget, history>>

Retry(s) ==
    /\ Holds(s, {"retry"}) /\ Save(calls[s], "in_progress") /\ Hand(calls[s].job) /\ Reply(s, "ok")
    /\ UNCHANGED <<taken, list, latest, ui, budget, history>>

Delete(s) ==
    /\ Sent(s, {"delete"}) /\ ~Refuses(calls[s]) /\ Reply(s, "ok")
    /\ job' = [job EXCEPT ![calls[s].job] = None]
    /\ UNCHANGED <<out, taken, list, latest, ui, budget, history>>

\* The browser hears of the end of a task by polling, if its list knows of it.
Ended(j, st) ==
    /\ job' = [job EXCEPT ![j].st = st]
    /\ told' = (told \/ ~(Listed(j) /\ IsJobActive(Shown[j].st)))

\* Complete takes any report, the late one of a job that was given up too.
Report(j) ==
    /\ out[j] > 0 /\ out' = [out EXCEPT ![j] = @ - 1]
    /\ IF job[j] = None THEN UNCHANGED <<job, told>> ELSE \E st \in {"success", "failed"} : Ended(j, st)
    /\ UNCHANGED <<taken, browser, ui, budget, lost, again>>

LoseReport(j) ==
    /\ out[j] > 0 /\ Spend("faults") /\ out' = [out EXCEPT ![j] = @ - 1]
    /\ UNCHANGED <<job, taken, browser, ui, history>>

\* The reaper, a dispatch that fails, the sweep at boot.
GiveUp(j) ==
    /\ Active(j) /\ Ended(j, "failed")
    /\ UNCHANGED <<out, taken, browser, ui, budget, lost, again>>

LoseCall(s) ==
    /\ calls[s] # None /\ calls[s].st # "failed" /\ Spend("faults") /\ Reply(s, "failed")
    /\ told' = (told \/ calls[s].st = "ok")
    /\ again' = IF calls[s].st = "ok" THEN again \cup ({calls[s].text} \ {None}) ELSE again
    /\ UNCHANGED <<server, list, latest, ui, lost>>

\* Another browser deletes a playbook.
Elsewhere ==
    /\ Spend("others") /\ \E j \in Jobs : job[j] # None /\ job' = [job EXCEPT ![j] = None]
    /\ told' = TRUE
    /\ UNCHANGED <<out, taken, browser, ui, lost, again>>

-----------------------------------------------------------------------------
(* Calls *)

Pending(op) == latest[op] # None
Call(op, j) == [op |-> op, job |-> j, text |-> None, alive |-> TRUE,
                st |-> "sent", copy |-> None]

Post(c) ==
    \E s \in Slots : /\ calls[s] = None /\ \A t \in Slots : t < s => calls[t] # None
                    /\ calls' = [calls EXCEPT ![s] = c]
                    /\ latest' = [latest EXCEPT ![c.op] = s]
Ask(c) == Post(c) /\ Spend("calls") /\ UNCHANGED <<server, list, told, lost>>

-----------------------------------------------------------------------------
(* "Playbooks" *)

\* The fields of the dialog stay when it is closed: it opens as it was left.
OpenCreate == ui.page = "list" /\ ~Covered /\ Opening([ui EXCEPT !.create = "open"])

\* handleCreate.  The button is off while a call is pending.
HandleCreate ==
    /\ ui.page = "list" /\ ui.create = "open" /\ ~Pending("create")
    /\ Ask(Call("create", None)) /\ UNCHANGED <<ui, again>>

OpenDetail(j, view) ==
    /\ ui.page = "list" /\ ~Covered /\ Listed(j) /\ (view => Shown[j].st = "success")
    /\ Opening([ui EXCEPT !.open = j, !.view = view])

AskDelete(j) == ui.page = "list" /\ ~Covered /\ Listed(j) /\ Opening([ui EXCEPT !.erase = j])
HandleDelete ==
    ui.erase # None /\ ~Pending("delete") /\ Ask(Call("delete", ui.erase)) /\ UNCHANGED <<ui, again>>

\* "Retry" in the row of a playbook, and on the card of the event.
HandleRetry(j) ==
    /\ ~Covered /\ ui.page \in {"list", "event"} /\ (ui.page = "event" => j = Card)
    /\ Listed(j) /\ Shown[j].st = "failed" /\ ~Pending("retry")
    /\ Ask(Call("retry", j)) /\ UNCHANGED <<ui, again>>

-----------------------------------------------------------------------------
(* The card of an event *)

Busy == Pending("event") \/ (Card # None /\ IsJobActive(Shown[Card].st))
OpenGenerate == ui.page = "event" /\ ~Covered /\ ~Busy /\ Opening([ui EXCEPT !.create = "open"])
HandleGenerate ==
    /\ ui.page = "event" /\ ui.create = "open" /\ ~Pending("event")
    /\ Ask(Call("event", None)) /\ UNCHANGED <<ui, again>>

OpenCard ==
    /\ ui.page = "event" /\ ~Covered /\ Card # None /\ Shown[Card].st = "success"
    /\ Opening([ui EXCEPT !.view = TRUE])

-----------------------------------------------------------------------------
(* A revision *)

\* One box for all playbooks: what is in it stays when another is opened.
\* An instruction typed while a revision is awaited goes when that succeeds.
Type ==
    /\ Box /\ budget.typed < budget.texts
    /\ LET t == budget.typed + 1 IN
          /\ ui' = [ui EXCEPT !.text = t] /\ budget' = [budget EXCEPT !.typed = t]
          /\ lost' = lost \cup ({ui.text} \ {None})
                          \cup (IF \E s \in Slots : calls[s] # None /\ calls[s].op = "refine" /\ calls[s].alive
                                THEN {t} ELSE {})
    /\ UNCHANGED <<server, browser, told, again>>

HandleRefine ==
    /\ Box /\ ui.text # None
    /\ Ask([Call("refine", Current) EXCEPT !.text = ui.text])
    /\ UNCHANGED ui

\* Mutant: the button is not off while a revision is pending.
PressAlways == HandleRefine /\ UNCHANGED again

\* The button is off while a revision is pending, Enter is not.
Press == ~Pending("refine") /\ HandleRefine /\ UNCHANGED again
Enter == HandleRefine /\ again' = IF Pending("refine") THEN again \cup {ui.text} ELSE again

-----------------------------------------------------------------------------
(* Everywhere *)

\* Escape, the cross or the backdrop, of the dialog that is open.
Dismiss ==
    \/ ui.create = "open" /\ Closing([ui EXCEPT !.create = "closed"])
    \/ (ui.open # None \/ ui.view) /\ Closing([ui EXCEPT !.open = None, !.view = FALSE])
    \/ ui.erase # None /\ Closing([ui EXCEPT !.erase = None])

\* A page is left: its local state and mutations go.
Go(p) ==
    /\ ~Covered /\ p # ui.page /\ Spend("opens")
    /\ ui' = [NoUi EXCEPT !.page = p]
    /\ lost' = lost \cup {t \in Texts : \/ ui.text = t
                                         \/ \E s \in Slots : calls[s] # None /\ calls[s].text = t}
    /\ list' \in IF p = "other" THEN {list} ELSE Mounted(list)
    /\ calls' = [s \in Slots |-> IF calls[s] = None THEN None ELSE [calls[s] EXCEPT !.alive = FALSE]]
    /\ latest' = [op \in Ops |-> None]
    /\ UNCHANGED <<server, told, again>>

\* Mutant: the box is emptied however the call has ended.
EmptiedAnyhow(c, u) == [u EXCEPT !.text = None]
Emptied(c, u) == IF c.st = "ok" THEN [u EXCEPT !.text = None] ELSE u

\* The handlers that wait for a call close what is open by now.
Closed(c) ==
    CASE ~c.alive -> ui
      [] c.alive /\ c.op \in {"create", "event"} /\ c.st = "ok" -> [ui EXCEPT !.create = "closed"]
      [] c.alive /\ c.op = "refine" -> Emptied(c, ui)
      [] c.alive /\ c.op = "delete" -> [ui EXCEPT !.erase = None]
      [] OTHER -> ui

\* Mutant: nobody says that a playbook was deleted.
InvalidatesBut(c) == c.st = "ok" /\ c.op # "delete"
Invalidates(c) == c.st = "ok"

Freed(s) == [op \in Ops |-> IF latest[op] = s THEN None ELSE latest[op]]

Deliver(s) ==
    LET c == calls[s] IN
    /\ c # None /\ c.st \in {"ok", "failed"}
    /\ list' = IF Invalidates(c) THEN Invalidated(list, Watched) ELSE list
    /\ calls' = [calls EXCEPT ![s] = None] /\ latest' = Freed(s) /\ ui' = Closed(c)
    /\ UNCHANGED <<server, budget, history>>

-----------------------------------------------------------------------------
Init ==
    /\ \E b \in Bounds :
          /\ budget = [calls |-> b.calls, opens |-> b.opens, faults |-> b.faults, others |-> b.others,
                       texts |-> b.texts, typed |-> 0, used |-> b.jobs]
          /\ job = [j \in Jobs |-> IF j \in b.jobs THEN [st |-> "success", ev |-> j \in b.linked] ELSE None]
          /\ ui = [NoUi EXCEPT !.page = b.page]
    /\ out = [j \in Jobs |-> 0] /\ list = Loaded(job)
    /\ calls = [s \in Slots |-> None] /\ latest = [op \in Ops |-> None]
    /\ told = FALSE /\ lost = {} /\ again = {} /\ taken = [t \in Texts |-> 0]

Query == Serve \/ Store
Handle(s) == Create(s) \/ Refuse(s) \/ Check(s) \/ Collide(s) \/ Refine(s) \/ Retry(s) \/ Delete(s)
UseList ==
    \/ OpenCreate \/ HandleCreate \/ HandleDelete
    \/ \E j \in Jobs : AskDelete(j) \/ HandleRetry(j) \/ \E view \in BOOLEAN : OpenDetail(j, view)
UseCard == OpenGenerate \/ HandleGenerate \/ OpenCard
UseBox == Type \/ Press \/ Enter

Next ==
    \/ Poll \/ Query \/ LoadFails
    \/ \E s \in Slots : Handle(s) \/ LoseCall(s) \/ Deliver(s)
    \/ (\E j \in Jobs : Report(j) \/ LoseReport(j) \/ GiveUp(j)) \/ Elsewhere
    \/ UseList \/ UseCard \/ UseBox \/ Dismiss \/ \E p \in Pages : Go(p)

Spec == Init /\ [][Next]_vars

\* Requests are answered and answers handled, the list polls, the reaper comes round.
Served == \E s \in Slots : Handle(s) \/ Deliver(s)
Refreshed == Poll \/ Query
Reaped == \E j \in Jobs : GiveUp(j)
Fairness == WF_vars(Served) /\ WF_vars(Refreshed) /\ WF_vars(Reaped)
FairSpec == Spec /\ Fairness

-----------------------------------------------------------------------------
(* Properties *)

TypeOK ==
    /\ job \in [Jobs -> JobRow \cup {None}] /\ out \in [Jobs -> Nat]
    /\ list \in Entry([Jobs -> JobRow \cup {None}])
    /\ calls \in [Slots -> CallRecord \cup {None}] /\ latest \in [Ops -> Slots \cup {None}]
    /\ told \in BOOLEAN /\ lost \cup again \subseteq Texts /\ taken \in [Texts -> Nat]
    /\ ui \in [page : Pages, create : {"closed", "open"}, open : Jobs \cup {None}, view : BOOLEAN,
               text : Texts \cup {None}, erase : Jobs \cup {None}]
    /\ budget \in [calls : Nat, opens : Nat, faults : Nat, others : Nat,
                   texts : 0 .. MaxTexts, typed : 0 .. MaxTexts, used : SUBSET Jobs]
    /\ \A op \in Ops : Pending(op) => calls[latest[op]] # None /\ calls[latest[op]].op = op

\* When nothing is under way and the list waits for no playbook, the list on
\* screen is that of the server.  `told' lists the ways around it: a change
\* elsewhere, a lost answer, a failed load, a report nobody polls for.
JobsAreCurrent ==
    Watched /\ (\A s \in Slots : calls[s] = None) /\ Idle(list) /\ ~Polls /\ ~told => Shown = job

\* An instruction revises a playbook once, unless it was sent by Enter while it
\* was waited for, or its outcome was lost and the user sent it again.
RevisedOnce == \A t \in Texts : taken[t] > 1 => t \in again

\* An instruction is in the box, on its way, or taken by the server, unless the
\* user has typed over it or has left, or has typed it while an earlier
\* revision was awaited, whose success empties the box.
InstructionKept ==
    \A t \in 1 .. budget.typed :
        \/ t \in lost \/ ui.text = t \/ taken[t] > 0
        \/ \E s \in Slots : calls[s] # None /\ calls[s].text = t

\* A playbook that is shown at work comes to be shown finished, or gone,
\* whatever is lost, unless the page is left.
AtWork(j) == Watched /\ Listed(j) /\ IsJobActive(Shown[j].st)
WorkIsSeenToEnd == \A j \in Jobs : AtWork(j) ~> ~AtWork(j)
=============================================================================
