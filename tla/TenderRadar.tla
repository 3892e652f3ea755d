----------------------------- MODULE TenderRadar -----------------------------
(***************************************************************************)
(* "Radar Tender" in the browser: the inbox of discovered tenders, the     *)
(* table, the page of one tender with its form, outcome, analysis and      *)
(* drafts (apps/web/src/pages/tenders), the watcher of discovery runs that *)
(* lives in the shell (components/DiscoveryRunWatcher.tsx), and the hooks  *)
(* of api/tenders.ts, api/discovery.ts and api/scores.ts.                  *)
(*                                                                         *)
(* Each request is one step of the server here; its own steps are the      *)
(* subject of modules Tenders and DiscoveryRuns.                           *)
(***************************************************************************)
EXTENDS Naturals, Sequences, FiniteSets, SequencesExt, QueryCache

CONSTANTS
    Tenders,   \* ids of tenders
    Slots,     \* bound: calls under way at a time
    MaxRuns,   \* bound: discovery runs
    MaxFaults, \* bound: calls and loads that fail
    Bounds     \* the smaller bounds to explore, one record per instance

\* found and made: the tenders that discovery has found and that were entered by
\* hand, all of one status; new: those that may still come; page: the page that is
\* open; opens: dialogs and pages to be opened; others: changes this browser has
\* not made.
Status == {"IDENTIFIED", "QUALIFYING", "BIDDING", "SUBMITTED", "WON", "LOST"}
Radar == {"inbox", "table"}
Instance ==
    [found: SUBSET Tenders, made: SUBSET Tenders, new: SUBSET Tenders, st: Status,
     page: Radar \cup {"other"}, calls: Nat, opens: Nat, faults: 0 .. MaxFaults, others: Nat]
ASSUME BoundsAssumption ==
    /\ {MaxRuns, MaxFaults} \subseteq Nat /\ Bounds \subseteq Instance
    /\ \A b \in Bounds : b.found \cap b.made = {} /\ b.new \cap (b.found \cup b.made) = {}
ASSUME TendersAssumption ==
    (Tenders \cup {None}) \cap {"runs", "inbox", "table"} = {} /\ Slots \subseteq Nat

VARIABLES
    row,     \* the tender table
    runs,    \* the discovery runs, in the order they were started
    cache,   \* the query cache
    calls,   \* the mutations under way
    latest,  \* the last call of each useMutation, while it is pending
    ui,      \* the page that is open, and its local state
    budget,  \* the bounds of this behaviour, and the starts under way elsewhere
    told     \* history: the entries that were told something outdated, or nothing

vars == <<row, runs, cache, calls, latest, ui, budget, told>>

-----------------------------------------------------------------------------

\* v counts the writes: every one of them changes updated_at.
Row == [st: Status, found: BOOLEAN, reviewed: BOOLEAN, v: Nat]
NewRow(st, found) == [st |-> st, found |-> found, reviewed |-> FALSE, v |-> 0]

RunStatus == {"active", "success", "failed"}
NoRun == [id |-> 0, st |-> "none"]
RunRecord == [id: Nat, st: RunStatus \cup {"none"}]
LastRun == IF runs = <<>> THEN NoRun ELSE [id |-> Len(runs), st |-> Last(runs)]

\* None is none of the values that it stands in for.
ASSUME NoneAssumption ==
    /\ None \notin Tenders \cup Slots /\ None \notin Row /\ None \notin RunRecord
    /\ None \notin [Tenders -> Row \cup {None}] /\ \A T \in SUBSET Tenders : T # None

\* What the inbox lists.
Waiting(r) == r # None /\ r.found /\ r.st = "IDENTIFIED" /\ ~r.reviewed
Inbox == {t \in Tenders : Waiting(row[t])}

\* The list of tenders is the rest: what is new and found is in the inbox only.
Table == [t \in Tenders |-> IF Waiting(row[t]) THEN None ELSE row[t]]

Keys == {"runs", "inbox", "table"} \cup Tenders
Truth(k) == CASE k = "runs" -> LastRun
              [] k = "inbox" -> Inbox
              [] k = "table" -> Table
              [] k \in Tenders -> row[k]

-----------------------------------------------------------------------------
(* The pages *)

Pages == Radar \cup {"detail", "other"}

\* The useQuery of the pages; the badge of the inbox is on both tabs of the
\* radar, the watcher of runs on every page.
Uses(p, t) == {"runs"} \cup (IF p \in Radar THEN {"inbox"} ELSE {})
                       \cup (IF p = "table" THEN {"table"} ELSE {})
                       \cup (IF p = "detail" THEN {t} ELSE {})
Watched(k) == k \in Uses(ui.page, ui.open)

Shown(k) == cache[k].val
Crawling == Shown("runs") # None /\ Shown("runs").st = "active"

\* The local state of a page.  pending: the card whose decision is under way;
\* reject: the card in the dialog of "Tolak"; form: the drawer of the form;
\* erase: the question whether to delete; outcome: the dialog of WON / LOST;
\* proposal: the tender in the drawer of proposals, draft: whose proposal its
\* mutation has come back with.
NoUi == [page |-> "other", open |-> None, pending |-> None, reject |-> None, form |-> None,
         erase |-> None, outcome |-> FALSE, proposal |-> None, draft |-> None]

\* live: the form is bound to the tender of the page, not to a copy of a row.
FormRecord == [tender: Tenders \cup {None}, live: BOOLEAN, st: Status, picked: BOOLEAN, typed: BOOLEAN]
Form(t, live, st) == [tender |-> t, live |-> live, st |-> st, picked |-> FALSE, typed |-> FALSE]

Covered == ui.reject # None \/ ui.form # None \/ ui.erase # None \/ ui.outcome \/ ui.proposal # None
On(p) == ui.page = p /\ ~Covered

Same == UNCHANGED <<row, runs, cache, calls, latest, told>>
Local(u) == ui' = u /\ UNCHANGED budget /\ Same
Spend(f) == budget[f] > 0 /\ budget' = [budget EXCEPT ![f] = @ - 1]
Opening(u) == ui' = u /\ Spend("opens") /\ Same

Invalidate(ks) == [k \in Keys |-> IF k \in ks THEN Invalidated(cache[k], Watched(k)) ELSE cache[k]]

-----------------------------------------------------------------------------
(* Queries *)

\* The watcher has seen the last run under way.
Seen(e) == LastRun.id > 0 /\ e.val = [LastRun EXCEPT !.st = "active"]

\* Mutant: the watcher leaves polling to the pages of the radar.
PollsOnRadar == ui.page \in Radar

\* refetchInterval: always on the radar, elsewhere while a run is under way.  A
\* poll that would bring nothing new is left out.
Polls == ui.page \in Radar \/ Crawling

Poll ==
    /\ Polls /\ cache["runs"].fetch = "idle" /\ Shown("runs") # LastRun
    /\ cache' = [cache EXCEPT !["runs"] = Refetched(@)]
    /\ UNCHANGED <<row, runs, calls, latest, ui, budget, told>>

Serve(k) ==
    /\ cache[k].fetch = "asked" /\ Truth(k) # None
    /\ cache' = [cache EXCEPT ![k] = Answered(@, Truth(k))]
    /\ UNCHANGED <<row, runs, calls, latest, ui, budget, told>>

\* DiscoveryRunWatcher: the run that was under way is not any more.
Ended(old, new) == old # None /\ old.id = new.id /\ old.st = "active" /\ new.st # "active"

\* Mutant: the effect of the form on [open] only.
FilledOnce(u, k, v) == u

\* The effect of the form on [open, tender]: a tender that has changed fills it
\* anew, with a copy of all fields.
Rendered(u, k, v) ==
    IF u.form # None /\ u.form.live /\ u.form.tender = k /\ v # Shown(k)
    THEN [u EXCEPT !.form = Form(k, TRUE, v.st)] ELSE u

Store(k) ==
    LET e == cache[k]
        lists == IF k = "runs" /\ Ended(e.val, e.got) THEN {"inbox", "table"} ELSE {}
    IN  /\ e.fetch = "answered"
        /\ cache' = [Invalidate(lists) EXCEPT ![k] = Stored(e)]
        /\ told' = IF e.got = Truth(k) THEN told \ {k} ELSE told \cup {k}
        /\ ui' = Rendered(ui, k, e.got)
        /\ UNCHANGED <<row, runs, calls, latest, budget>>

LoadFails(k) ==
    /\ cache[k].fetch = "asked"
    /\ IF Truth(k) = None THEN UNCHANGED budget ELSE Spend("faults")
    /\ cache' = [cache EXCEPT ![k] = Cancelled(@)]
    /\ told' = told \cup {k}
    /\ UNCHANGED <<row, runs, calls, latest, ui>>

-----------------------------------------------------------------------------
(* The server *)

Transitions == [IDENTIFIED |-> {"QUALIFYING", "LOST"}, QUALIFYING |-> {"BIDDING", "LOST"},
                BIDDING |-> {"SUBMITTED", "WON", "LOST"}, SUBMITTED |-> {"WON", "LOST"},
                WON |-> {}, LOST |-> {}]

Fresh(t) == row[t] = None /\ t \notin budget.used
Put(t, r) == row' = [row EXCEPT ![t] = r]
Wrote(r) == [r EXCEPT !.v = @ + 1]

\* A run that the browser has seen under way ends, or another takes its place,
\* before the browser hears of it: its tenders come unannounced.
Lists == {"inbox", "table"}
Missed(ks) == IF Seen(cache["runs"]) THEN {} ELSE ks

StartRun ==
    /\ Len(runs) < MaxRuns /\ runs' = Append(runs, "active")
    /\ told' = told \cup (IF Seen(cache["runs"]) THEN Lists ELSE {})

\* RunAsync, first: the run under way is the answer; a failed look for it is
\* taken for none.  Requests that overlap may all find none.
Active == \E i \in DOMAIN runs : runs[i] = "active"
MayStart == IF Active THEN Spend("faults") ELSE UNCHANGED budget

\* The agent writes down what it finds while the run is under way.  Nothing
\* promises that a run ends: its last update may fail, or the server restart.
Find(t) ==
    /\ Fresh(t) /\ Active
    /\ Put(t, NewRow("IDENTIFIED", TRUE)) /\ budget' = [budget EXCEPT !.used = @ \cup {t}]
    /\ told' = told \cup Missed({"inbox"})
    /\ UNCHANGED <<runs, cache, calls, latest, ui>>

Finish(i) ==
    /\ i \in DOMAIN runs /\ runs[i] = "active"
    /\ \E st \in {"success", "failed"} : runs' = [runs EXCEPT ![i] = st]
    /\ UNCHANGED <<row, cache, calls, latest, ui, budget, told>>

\* What a request is refused for, and what it makes of the row.
Refused(c, r) ==
    \/ c.op # "run" /\ r = None
    \/ c.op = "run" /\ ~Active
    \/ c.op = "promote" /\ ~(r.found /\ r.st = "IDENTIFIED")
    \/ c.op = "review" /\ ~r.found
    \/ c.op \in {"status", "outcome"} /\ c.to \notin Transitions[r.st]

Effect(c, r) ==
    CASE c.op = "promote" -> [r EXCEPT !.st = "QUALIFYING"]
      [] c.op = "review" -> [r EXCEPT !.reviewed = TRUE]
      [] c.op \in {"save", "status", "outcome"} -> [r EXCEPT !.st = c.to]
      [] c.op = "score" -> r

Asks == {"proposal", "check"}

\* The inbox is not told of changes made elsewhere than in the inbox.
Untold(c) == IF c.op \in {"save", "status", "outcome", "delete"} THEN {"inbox"} ELSE {}

Carry(s) ==
    LET c == calls[s]
        Reply(t) == calls' = [calls EXCEPT ![s].st = "ok", ![s].tender = t]
        r == IF c = None \/ c.tender = None THEN None ELSE row[c.tender]
    IN  /\ c # None /\ c.st = "sent"
        /\ \/ c.op = "run" /\ Active /\ Reply(None) /\ UNCHANGED <<row, runs, told, budget>>
           \/ /\ c.op = "run" /\ MayStart
              /\ calls' = [calls EXCEPT ![s].st = "checked"] /\ UNCHANGED <<row, runs, told>>
           \/ c.op = "create" /\ \E t \in Tenders :
                 /\ Fresh(t) /\ Put(t, NewRow(c.to, FALSE)) /\ Reply(t)
                 /\ budget' = [budget EXCEPT !.used = @ \cup {t}] /\ UNCHANGED <<runs, told>>
           \/ c.op = "delete" /\ r # None /\ Put(c.tender, None) /\ Reply(c.tender)
              /\ told' = told \cup Untold(c) /\ UNCHANGED <<runs, budget>>
           \/ c.op \in Asks /\ r # None /\ Reply(c.tender) /\ UNCHANGED <<row, runs, told, budget>>
           \/ /\ c.op \notin {"run", "create", "delete"} \cup Asks /\ ~Refused(c, r)
              /\ Put(c.tender, Wrote(Effect(c, r))) /\ Reply(c.tender)
              /\ told' = told \cup Untold(c) /\ UNCHANGED <<runs, budget>>
           \/ /\ c.op # "create" /\ Refused(c, r)
              /\ calls' = [calls EXCEPT ![s].st = "failed"] /\ UNCHANGED <<row, runs, told, budget>>
        /\ UNCHANGED <<cache, latest, ui>>

\* StartRun, for a request that has found no run under way.
Insert(s) ==
    /\ calls[s] # None /\ calls[s].st = "checked"
    /\ StartRun /\ calls' = [calls EXCEPT ![s].st = "ok"]
    /\ UNCHANGED <<row, cache, latest, ui, budget>>

LoseCall(s) ==
    /\ calls[s] # None /\ calls[s].st \in {"sent", "checked", "ok"} /\ Spend("faults")
    /\ calls' = [calls EXCEPT ![s].st = "failed"]
    /\ told' = IF calls[s].st = "ok" THEN told \cup Lists \cup ({calls[s].tender} \ {None}) ELSE told
    /\ UNCHANGED <<row, runs, cache, latest, ui>>

\* Another browser promotes a tender, or the schedule asks for a run and
\* starts it.
Elsewhere ==
    /\ \/ /\ budget.others > 0 /\ ~Active
          /\ budget' = [budget EXCEPT !.others = @ - 1, !.starts = @ + 1]
          /\ UNCHANGED <<row, runs, told>>
       \/ /\ budget.starts > 0 /\ budget' = [budget EXCEPT !.starts = @ - 1]
          /\ StartRun /\ UNCHANGED row
       \/ /\ Spend("others")
          /\ \E t \in Inbox : /\ Put(t, Wrote(Effect([op |-> "promote"], row[t])))
                           /\ told' = told \cup {t, "inbox", "table"}
          /\ UNCHANGED runs
    /\ UNCHANGED <<cache, calls, latest, ui>>

-----------------------------------------------------------------------------
(* Calls *)

\* useMutation per operation; "save" and "create" are those of one form.
Ops == {"run", "promote", "review", "create", "save", "delete", "status", "outcome", "score"} \cup Asks
CallRecord ==
    [op: Ops, tender: Tenders \cup {None}, to: Status \cup {"REJECT", None}, alive: BOOLEAN,
     st: {"sent", "checked", "ok", "failed"}]
ASSUME CallAssumption == None \notin CallRecord

Call(op, t, to) == [op |-> op, tender |-> t, to |-> to, alive |-> TRUE, st |-> "sent"]
Pending(op) == latest[op] # None

Send(c) ==
    /\ Spend("calls")
    /\ \E s \in Slots : /\ calls[s] = None /\ \A t \in Slots : t < s => calls[t] # None
                       /\ calls' = [calls EXCEPT ![s] = c]
                       /\ latest' = [latest EXCEPT ![c.op] = s]
    /\ UNCHANGED <<row, runs, cache, told>>

\* The drawer asks for a proposal when it is opened for a tender; a new request
\* takes the place of the last one and of its result.
Propose(t) ==
    /\ ui' = [ui EXCEPT !.proposal = t, !.draft = None]
    /\ Send(Call("proposal", t, None))

-----------------------------------------------------------------------------
(* The header and the inbox *)

Run ==
    /\ ui.page \in Radar /\ ~Covered /\ ~Crawling /\ ~Pending("run")
    /\ Send(Call("run", None, None)) /\ UNCHANGED ui

\* A card offers its buttons unless it is the one that is pending; while a run
\* is under way no card is shown.
Card(t) == On("inbox") /\ Shown("inbox") # None /\ t \in Shown("inbox") /\ ~Crawling /\ ui.pending # t

\* handlePursue, handleWatchlist.
Decide(op, t, to) == ui' = [ui EXCEPT !.pending = t] /\ Send(Call(op, t, to))

Pursue(t) == Card(t) /\ Decide("promote", t, None)
Watchlist(t) == Card(t) /\ Decide("review", t, None)

OpenReject(t) == Card(t) /\ Opening([ui EXCEPT !.reject = t])
ConfirmReject == ui.reject # None /\ ~Pending("review") /\ Decide("review", ui.reject, "REJECT")

-----------------------------------------------------------------------------
(* The table *)

Listed(t) == On("table") /\ Shown("table") # None /\ Shown("table")[t] # None

OpenCreate == On("table") /\ Opening([ui EXCEPT !.form = Form(None, FALSE, "IDENTIFIED")])
OpenEdit(t) == Listed(t) /\ Opening([ui EXCEPT !.form = Form(t, FALSE, Shown("table")[t].st)])
AskDelete(t) == Listed(t) /\ Opening([ui EXCEPT !.erase = t])
OpenProposal(t) == Listed(t) /\ Propose(t)

ConfirmDelete ==
    /\ ui.erase # None /\ ~Pending("delete")
    /\ Send(Call("delete", ui.erase, None)) /\ UNCHANGED ui

\* "Promote ke Pipeline" is not blocked by the call it has made.
Promote(t) ==
    /\ Listed(t) /\ Shown("table")[t].found /\ Shown("table")[t].st = "IDENTIFIED"
    /\ Send(Call("promote", t, None)) /\ UNCHANGED ui

-----------------------------------------------------------------------------
(* The form *)

Type == ui.form # None /\ ~ui.form.typed /\ Local([ui EXCEPT !.form.typed = TRUE])
PickStatus(st) ==
    /\ ui.form # None /\ ~ui.form.picked
    /\ Local([ui EXCEPT !.form.st = st, !.form.picked = TRUE])

\* formToBody sends every field that is not empty, the status among them.
Submit ==
    LET op == IF ui.form.tender = None THEN "create" ELSE "save" IN
    /\ ui.form # None /\ ~Pending("create") /\ ~Pending("save") /\ (op = "create" => ui.form.typed)
    /\ Send(Call(op, ui.form.tender, ui.form.st)) /\ UNCHANGED ui

-----------------------------------------------------------------------------
(* The page of one tender *)

Tender == Shown(ui.open)
Detail == On("detail") /\ Tender # None

EditTender == Detail /\ Opening([ui EXCEPT !.form = Form(ui.open, TRUE, Tender.st)])
ProposeHere == Detail /\ Propose(ui.open)

NextStatus == [IDENTIFIED |-> {"QUALIFYING"}, QUALIFYING |-> {"BIDDING"}, BIDDING |-> {"SUBMITTED"},
               SUBMITTED |-> {}, WON |-> {}, LOST |-> {}]

ChangeStatus(st) ==
    /\ Detail /\ st \in NextStatus[Tender.st] /\ ~Pending("status")
    /\ Send(Call("status", ui.open, st)) /\ UNCHANGED ui

OpenOutcome == Detail /\ Tender.st \notin {"WON", "LOST"} /\ Opening([ui EXCEPT !.outcome = TRUE])
RecordOutcome(result) ==
    /\ ui.outcome /\ Tender # None /\ ~Pending("outcome")
    /\ Send(Call("outcome", ui.open, result)) /\ UNCHANGED ui

Analyze ==
    /\ Detail /\ ~Pending("score")
    /\ Send(Call("score", ui.open, None)) /\ UNCHANGED ui

\* useAIBusy: a check that an earlier visit has asked for still blocks this one.
CheckDocs ==
    /\ Detail
    /\ \A s \in Slots : calls[s] # None => ~(calls[s].op = "check" /\ calls[s].tender = ui.open)
    /\ Send(Call("check", ui.open, None)) /\ UNCHANGED ui

\* "Generate Ulang", and "Coba Lagi" after a failure.
Regenerate == ui.proposal # None /\ ~Pending("proposal") /\ Propose(ui.proposal)

-----------------------------------------------------------------------------
(* Everywhere *)

Dismiss(d) ==
    /\ d \in {"reject", "form", "erase", "proposal"} /\ ui[d] # None
    /\ Local([ui EXCEPT ![d] = None])
DismissOutcome == ui.outcome /\ Local([ui EXCEPT !.outcome = FALSE])

\* A page, or a tab of the radar, is left: its local state and mutations go.
Go(p, t) ==
    LET new == Uses(p, t) \ Uses(ui.page, ui.open) IN
    /\ ~Covered /\ <<p, t>> # <<ui.page, ui.open>> /\ Spend("opens")
    /\ ui' = [NoUi EXCEPT !.page = p, !.open = t]
    /\ \E old \in BOOLEAN :
          cache' = [k \in Keys |-> IF k \in new THEN Opened(cache[k], old) ELSE cache[k]]
    /\ calls' = [s \in Slots |-> IF calls[s] = None THEN None ELSE [calls[s] EXCEPT !.alive = FALSE]]
    /\ latest' = [op \in Ops |-> IF op = "run" /\ {p, ui.page} \subseteq Radar THEN latest[op] ELSE None]
    /\ UNCHANGED <<row, runs, told>>

OpenPage(p) == p # "detail" /\ Go(p, None)
OpenTender(t) == Listed(t) /\ Go("detail", t)

-----------------------------------------------------------------------------
(* Answers *)

\* Mutant: a card is offered again when its decision succeeds, not when it fails.
BlockedByFailure(c) ==
    IF ~c.alive \/ c.st = "failed" THEN ui
    ELSE CASE c.op \in {"promote", "review"} /\ ui.page = "inbox" ->
                 [ui EXCEPT !.pending = None, !.reject = IF c.to = "REJECT" THEN None ELSE @]
           [] c.op \in {"create", "save"} -> [ui EXCEPT !.form = None]
           [] c.op = "delete" -> [ui EXCEPT !.erase = None]
           [] c.op = "outcome" -> [ui EXCEPT !.outcome = FALSE]
           [] OTHER -> ui

\* The handlers that wait for a call close what is open by now.
Closed(c) ==
    IF ~c.alive THEN ui
    ELSE CASE c.op \in {"promote", "review"} /\ ui.page = "inbox" ->
                 [ui EXCEPT !.pending = None, !.reject = IF c.to = "REJECT" THEN None ELSE @]
           [] c.op \in {"create", "save"} -> [ui EXCEPT !.form = IF c.st = "ok" THEN None ELSE @]
           [] c.op = "delete" -> [ui EXCEPT !.erase = None]
           [] c.op = "outcome" -> [ui EXCEPT !.outcome = IF c.st = "ok" THEN FALSE ELSE @]
           [] OTHER -> ui

\* Mutant: a decision on a card leaves the inbox alone.
InvalidatesLess(c) == {"table", c.tender}

\* The onSuccess of the hooks.
Invalidates(c) ==
    CASE c.op = "run" -> {"runs", "inbox"}
      [] c.op \in {"promote", "review"} -> {"table", "inbox", c.tender}
      [] c.op \in {"create", "delete"} -> {"table"}
      [] c.op \in {"save", "status", "outcome", "score"} -> {"table", c.tender}
      [] c.op \in Asks -> {}

\* Mutant: the last answer is shown, not that of the last request.
LastAnswer(s, u) ==
    IF calls[s].op = "proposal" /\ calls[s].alive /\ calls[s].st = "ok"
    THEN [u EXCEPT !.draft = calls[s].tender] ELSE u

\* A result is shown by the mutation that was the last to ask for it.
Drafted(s, u) ==
    IF latest["proposal"] = s /\ calls[s].st = "ok" THEN [u EXCEPT !.draft = calls[s].tender] ELSE u

\* Mutant: a call that is over leaves its button pending.
StaysPending(s) == calls' = [calls EXCEPT ![s] = None] /\ UNCHANGED latest

Done(s) ==
    /\ calls' = [calls EXCEPT ![s] = None]
    /\ latest' = [op \in Ops |-> IF latest[op] = s THEN None ELSE latest[op]]

Deliver(s) ==
    LET c == calls[s] IN
    /\ c # None /\ c.st \in {"ok", "failed"}
    /\ cache' = IF c.st = "ok" THEN Invalidate(Invalidates(c)) ELSE cache
    /\ ui' = Drafted(s, Closed(c))
    /\ Done(s)
    /\ UNCHANGED <<row, runs, budget, told>>

-----------------------------------------------------------------------------
Init ==
    /\ \E b \in Bounds :
          /\ budget = [calls |-> b.calls, opens |-> b.opens, faults |-> b.faults,
                       others |-> b.others, starts |-> 0, used |-> Tenders \ b.new]
          /\ row = [t \in Tenders |-> IF t \in b.found \cup b.made
                                      THEN NewRow(b.st, t \in b.found) ELSE None]
          /\ ui = [NoUi EXCEPT !.page = b.page]
    /\ runs = <<>>
    \* What was visited before is in the cache; a session may also begin elsewhere.
    /\ cache = [k \in Keys |-> IF Truth(k) # None /\ (k = "runs" \/ ui.page # "other")
                              THEN Loaded(Truth(k)) ELSE NoEntry]
    /\ calls = [s \in Slots |-> None] /\ latest = [op \in Ops |-> None]
    /\ told = {}

Query(k) == Serve(k) \/ Store(k)
UseInbox == Run \/ ConfirmReject \/ \E t \in Tenders : Pursue(t) \/ Watchlist(t) \/ OpenReject(t)
UseTable ==
    \/ OpenCreate \/ ConfirmDelete
    \/ \E t \in Tenders : OpenEdit(t) \/ AskDelete(t) \/ OpenProposal(t) \/ Promote(t)
UseForm == Type \/ Submit \/ \E st \in Status : PickStatus(st)
UseDetail ==
    \/ EditTender \/ ProposeHere \/ OpenOutcome \/ Analyze \/ CheckDocs
    \/ \E st \in Status : ChangeStatus(st) \/ (st \in {"WON", "LOST"} /\ RecordOutcome(st))
UseDialogs == Regenerate \/ DismissOutcome \/ \E d \in {"reject", "form", "erase", "proposal"} : Dismiss(d)
Navigate == (\E p \in Pages : OpenPage(p)) \/ \E t \in Tenders : OpenTender(t)
Discover == (\E t \in Tenders : Find(t)) \/ \E i \in 1 .. MaxRuns : Finish(i)

Next ==
    \/ Poll \/ \E k \in Keys : Query(k) \/ LoadFails(k)
    \/ \E s \in Slots : Carry(s) \/ Insert(s) \/ LoseCall(s) \/ Deliver(s)
    \/ Discover \/ Elsewhere
    \/ UseInbox \/ UseTable \/ UseForm \/ UseDetail \/ UseDialogs \/ Navigate

Spec == Init /\ [][Next]_vars

\* The browser polls, and the list of runs is answered and stored: one read of
\* the database.  No run is taken to end.
FairSpec == Spec /\ WF_vars(Poll) /\ WF_vars(Query("runs"))

-----------------------------------------------------------------------------
(* Properties *)

TypeOK ==
    /\ row \in [Tenders -> Row \cup {None}]
    /\ Len(runs) <= MaxRuns /\ \A i \in DOMAIN runs : runs[i] \in RunStatus
    /\ \A t \in Tenders : Shown(t) \in Row \cup {None}
    /\ {ui.open, ui.pending, ui.reject, ui.erase, ui.proposal, ui.draft} \subseteq Tenders \cup {None}
    /\ told \subseteq Keys

AtRest ==
    /\ \A s \in Slots : calls[s] = None
    /\ \A k \in Keys : Watched(k) => Idle(cache[k])

\* When nothing is under way, and as far as the page knows no run is either, the
\* inbox, the table and the tender on screen are those of the server; what a
\* run has found is there when it ends, wherever the user was.  `told' lists
\* the ways around it: a change elsewhere, a lost answer, a run that ends
\* unseen, and that the inbox is not told of deletions and changes of status.
RadarIsCurrent ==
    AtRest /\ ~Crawling =>
        \A k \in Lists \cup Tenders :
            Watched(k) /\ k \notin told /\ Truth(k) # None => Shown(k) = Truth(k)

\* The proposal in the drawer is that of the tender the drawer is open for,
\* though the one asked for first may come last.
DraftBelongs == ui.proposal # None => ui.draft \in {None, ui.proposal}

\* What the pages show is well-formed, current, and of the tender it is shown for.
PageHolds == TypeOK /\ RadarIsCurrent /\ DraftBelongs

\* What the page blocks waits for an answer that is still to come: the buttons
\* of a card for a decision on it, and those of an operation for its call; no
\* failure, late answer or change of page leaves one blocked for good.
NothingStaysBlocked ==
    /\ ui.pending # None => \E s \in Slots :
          /\ calls[s] # None /\ calls[s].alive
          /\ calls[s].op \in {"promote", "review"} /\ calls[s].tender = ui.pending
    /\ \A op \in Ops : Pending(op) => calls[latest[op]] # None /\ calls[latest[op]].op = op

\* The form on the page of a tender offers the status that the page shows, unless
\* another was picked: saving other fields does not take back a change of status
\* that has come in while the form was open.
FormFollows ==
    LET f == ui.form IN
    f # None /\ f.live /\ ~f.picked => Shown(f.tender) # None /\ f.st = Shown(f.tender).st

\* A run that is shown as under way and has ended is seen to have ended, on
\* whatever page the user is.  (That it ends is another matter: see Finish.)
Overdue(i) == Crawling /\ Shown("runs").id = i /\ runs[i] # "active"
RunIsNoticed == \A i \in 1 .. MaxRuns : Overdue(i) ~> ~(Crawling /\ Shown("runs").id = i)
=============================================================================
