--------------------------- MODULE TenderRadarProofs ---------------------------
(* Proofs about TenderRadar. *)
EXTENDS TenderRadar, TLAPS

(***************************************************************************)
(* The types.                                                              *)
(***************************************************************************)
IsUi(u) ==
    u \in [page: Pages, open: Tenders \cup {None}, pending: Tenders \cup {None},
           reject: Tenders \cup {None}, form: FormRecord \cup {None}, erase: Tenders \cup {None},
           outcome: BOOLEAN, proposal: Tenders \cup {None}, draft: Tenders \cup {None}]

\* A call on a tender has one, and one that carries a status has one; only the
\* start of a run is checked first.
Aimed(c) ==
    /\ c.st = "checked" => c.op = "run"
    /\ c.op \in {"create", "save", "status", "outcome"} => c.to \in Status
    /\ c.op \notin {"run", "create"} \/ (c.op = "create" /\ c.st = "ok") => c.tender \in Tenders

IsBudget(b) == b \in [calls: Nat, opens: Nat, faults: Nat, others: Nat, starts: Nat, used: SUBSET Tenders]

\* What a query may hold.
Values(k) ==
    CASE k = "runs" -> RunRecord
      [] k = "inbox" -> SUBSET Tenders
      [] k = "table" -> [Tenders -> Row \cup {None}]
      [] k \in Tenders -> Row

RowsTyped ==
    /\ row \in [Tenders -> Row \cup {None}] /\ IsBudget(budget)
    /\ runs \in Seq(RunStatus) /\ Len(runs) <= MaxRuns
CacheTyped == cache = [k \in Keys |-> cache[k]] /\ \A k \in Keys : cache[k] \in Entry(Values(k))
CallsTyped ==
    /\ calls \in [Slots -> CallRecord \cup {None}] /\ \A s \in Slots : calls[s] # None => Aimed(calls[s])
    /\ latest \in [Ops -> Slots \cup {None}]
    /\ \A op \in Ops : Pending(op) => calls[latest[op]] # None /\ calls[latest[op]].op = op
PageTyped ==
    /\ IsUi(ui) /\ (ui.page = "detail" \/ ui.outcome => ui.open \in Tenders)
    /\ told \subseteq Keys
Typed == RowsTyped /\ CacheTyped /\ CallsTyped /\ PageTyped

(***************************************************************************)
(* The local state of a page.  A card is marked only in the inbox, and only *)
(* while a decision on it is under way; a form that is bound to the tender  *)
(* of the page has its status.                                             *)
(***************************************************************************)
Decisions == {"promote", "review"}
Deciding(c, t) == c # None /\ c.alive /\ c.op \in Decisions /\ c.tender = t
CardsInv ==
    /\ ui.page # "inbox" => ui.pending = None /\ ui.reject = None
    /\ ui.pending # None => \E s \in Slots : Deciding(calls[s], ui.pending)

Bound(f) == f # None /\ f.live => f.tender \in Tenders
Follows(f) == f # None /\ f.live /\ ~f.picked => Shown(f.tender) # None /\ f.st = Shown(f.tender).st
FormInv == Bound(ui.form) /\ Follows(ui.form)

\* The drawer of proposals waits for the proposal it was opened for.
DraftInv ==
    ui.proposal # None =>
        /\ ui.draft \in {None, ui.proposal}
        /\ Pending("proposal") => calls[latest["proposal"]].tender = ui.proposal

(***************************************************************************)
(* The pages.  What a page holds of the server is right, or will be put    *)
(* right: it is marked or being fetched, the answer of the call that       *)
(* changed the server is to come, or the watcher will see its run end.     *)
(***************************************************************************)
Covers(c, k) == c # None /\ c.st = "ok" /\ k \in Invalidates(c)
CoveredKey(k) == \E s \in Slots : Covers(calls[s], k)
SeenNow == Seen(cache["runs"])
Current(k) ==
    \/ Truth(k) = None \/ cache[k].val = None \/ cache[k].val = Truth(k)
    \/ cache[k].stale \/ cache[k].fetch # "idle"
    \/ CoveredKey(k) \/ (k \in Lists /\ SeenNow)

\* What is watched has been loaded, or is being loaded.
LoadedKey(k) == Watched(k) => cache[k].val # None \/ cache[k].fetch # "idle"

\* A tender that has not been there is not known to the browser.
Unknown(t) == row[t] = None /\ cache[t].val = None /\ cache[t].fetch # "answered"

\* The browser hears of the runs in order.
RunsHeard ==
    LET e == cache["runs"] IN
    /\ e.val # None => e.val.id <= Len(runs)
    /\ e.fetch = "answered" => e.got.id <= Len(runs)
    /\ e.fetch = "answered" /\ Seen(e) => e.got.id = e.val.id

RadarInv ==
    /\ \A k \in Lists \cup Tenders : k \notin told => Current(k) /\ LoadedKey(k)
    /\ \A k \in Keys : cache[k].fetch = "answered" => cache[k].got # None
    /\ \A t \in Tenders \ budget.used : Unknown(t)
    /\ RunsHeard

-----------------------------------------------------------------------------
(* The parts of a state *)

LEMMA KeysAre ==
    /\ Values("runs") = RunRecord /\ Values("inbox") = SUBSET Tenders
    /\ Values("table") = [Tenders -> Row \cup {None}] /\ \A t \in Tenders : Values(t) = Row
    /\ Truth("runs") = LastRun /\ Truth("inbox") = Inbox /\ Truth("table") = Table
    /\ \A t \in Tenders : Truth(t) = row[t] /\ t \notin {"runs", "inbox", "table"}
BY TendersAssumption DEF Values, Truth

\* What the operations of the cache make of an entry.
LEMMA EntryKept ==
    ASSUME NEW V, NEW e \in Entry(V), NEW watched \in BOOLEAN, NEW old \in BOOLEAN
    PROVE  /\ \A x \in {Refetched(e), Opened(e, old), Invalidated(e, watched), Cancelled(e)} :
                 x \in Entry(V) /\ x.val = e.val
                 /\ (x.fetch = "answered" => e.fetch = "answered" /\ x.got = e.got)
           /\ \A x \in {Refetched(e), Opened(e, old), Invalidated(e, watched)} :
                 (e.stale => x.stale) /\ (e.fetch # "idle" => x.fetch # "idle")
           /\ Refetched(e).fetch # "idle" /\ Invalidated(e, watched).stale
           /\ Opened(e, old).val # None \/ Opened(e, old).fetch # "idle"
           /\ watched => Invalidated(e, watched).fetch # "idle"
<1>1. e = [val |-> e.val, stale |-> e.stale, fetch |-> e.fetch, got |-> e.got]
      /\ e.val \in V \cup {None} /\ e.stale \in BOOLEAN /\ e.got \in V \cup {None}
      /\ e.fetch \in {"idle", "asked", "answered"}
  BY DEF Entry
<1>2. /\ Refetched(e) \in Entry(V) /\ Refetched(e).val = e.val /\ (e.stale => Refetched(e).stale)
      /\ Refetched(e).fetch # "idle"
      /\ Refetched(e).fetch = "answered" => e.fetch = "answered" /\ Refetched(e).got = e.got
  BY <1>1 DEF Refetched, Entry
<1>3. /\ Opened(e, old) \in {e, Refetched(e)}
      /\ Opened(e, old).val # None \/ Opened(e, old).fetch # "idle"
  BY <1>2 DEF Opened
<1>4. /\ Invalidated(e, watched) \in Entry(V) /\ Invalidated(e, watched).val = e.val /\ Invalidated(e, watched).stale
      /\ (watched \/ e.fetch # "idle") => Invalidated(e, watched).fetch # "idle"
      /\ Invalidated(e, watched).fetch = "answered" => e.fetch = "answered" /\ Invalidated(e, watched).got = e.got
  BY <1>1, <1>2 DEF Invalidated, Entry
<1>5. /\ Cancelled(e) \in Entry(V) /\ Cancelled(e).val = e.val /\ Cancelled(e).fetch = "idle"
  BY <1>1 DEF Cancelled, Entry
<1> QED
  BY <1>2, <1>3, <1>4, <1>5

LEMMA EntryAnswered ==
    ASSUME NEW V, NEW e \in Entry(V), NEW v \in V
    PROVE  /\ Answered(e, v) \in Entry(V) /\ Answered(e, v).val = e.val /\ Answered(e, v).got = v
           /\ Answered(e, v).fetch = "answered"
           /\ Stored(e) \in Entry(V) /\ Stored(e).val = e.got /\ Stored(e).fetch = "idle"
BY DEF Answered, Stored, Loaded, NoEntry, Entry

LEMMA CallMade ==
    ASSUME NEW op \in Ops, NEW t \in Tenders \cup {None}, NEW to \in Status \cup {"REJECT", None}
    PROVE  /\ Call(op, t, to) \in CallRecord /\ Call(op, t, to).op = op /\ Call(op, t, to).tender = t
           /\ Call(op, t, to).to = to /\ Call(op, t, to).st = "sent" /\ Call(op, t, to).alive
BY DEF Call, CallRecord

LEMMA FormMade ==
    ASSUME NEW t \in Tenders \cup {None}, NEW live \in BOOLEAN, NEW st \in Status
    PROVE  /\ Form(t, live, st) \in FormRecord /\ Form(t, live, st).tender = t /\ Form(t, live, st).st = st
           /\ Form(t, live, st).live = live
BY DEF Form, FormRecord

LEMMA BudgetKept ==
    ASSUME IsBudget(budget),
           UNCHANGED budget \/ Spend("calls") \/ Spend("opens") \/ Spend("faults") \/ Spend("others")
    PROVE  IsBudget(budget') /\ budget'.used = budget.used
<1>1. CASE UNCHANGED budget
  BY <1>1
<1>2. CASE Spend("calls")
  BY <1>2 DEF Spend, IsBudget
<1>3. CASE Spend("opens")
  BY <1>3 DEF Spend, IsBudget
<1>4. CASE Spend("faults")
  BY <1>4 DEF Spend, IsBudget
<1>5. CASE Spend("others")
  BY <1>5 DEF Spend, IsBudget
<1> QED
  BY <1>1, <1>2, <1>3, <1>4, <1>5

LEMMA EntryFirm ==
    ASSUME NEW V, NEW e \in Entry(V), NEW watched \in BOOLEAN, NEW old \in BOOLEAN,
           NEW x \in {e, Refetched(e), Opened(e, old), Invalidated(e, watched)}
    PROVE  /\ x.val = e.val
           /\ x.fetch = "answered" => e.fetch = "answered" /\ x.got = e.got
           /\ e.stale => x.stale
           /\ e.fetch # "idle" => x.fetch # "idle"
BY EntryKept

LEMMA EntryMarked ==
    ASSUME NEW V, NEW e \in Entry(V), NEW watched \in BOOLEAN
    PROVE  Invalidated(e, watched).stale
BY EntryKept

LEMMA EntryCancelled ==
    ASSUME NEW V, NEW e \in Entry(V)
    PROVE  Cancelled(e).val = e.val /\ Cancelled(e).fetch = "idle" /\ Cancelled(e) \in Entry(V)
BY DEF Cancelled, Entry

LEMMA EntryOpened ==
    ASSUME NEW V, NEW e \in Entry(V), NEW old \in BOOLEAN
    PROVE  Opened(e, old).val # None \/ Opened(e, old).fetch # "idle"
BY EntryKept


(***************************************************************************)
(* The actions of the page, sorted by what they do: edits of its local     *)
(* state, and calls.                                                       *)
(***************************************************************************)
Edits ==
    \/ OpenCreate \/ EditTender \/ OpenOutcome \/ Type \/ DismissOutcome
    \/ \E t \in Tenders : OpenReject(t) \/ OpenEdit(t) \/ AskDelete(t)
    \/ \E st \in Status : PickStatus(st)
    \/ \E d \in {"reject", "form", "erase", "proposal"} : Dismiss(d)

\* The page stays, with its marks, and a form keeps to the tender of the page; the
\* dialog of "Tolak" is opened from a card.
Edited(u) ==
    /\ IsUi(u) /\ u.page = ui.page /\ u.open = ui.open /\ u.pending = ui.pending /\ u.draft = ui.draft
    /\ u.proposal \in {None, ui.proposal}
    /\ u.reject \in {None, ui.reject} \/ (u.reject \in Tenders /\ Card(u.reject))
    /\ u.outcome => ui.outcome \/ ui.open \in Tenders
    /\ FormInv => Bound(u.form) /\ Follows(u.form)

LEMMA ShownIs ==
    ASSUME Typed
    PROVE  /\ \A k \in Keys : Shown(k) \in Values(k) \cup {None} /\ cache[k] \in Entry(Values(k))
           /\ \A t \in Tenders : Shown(t) \in Row \cup {None}
           /\ Shown("table") \in [Tenders -> Row \cup {None}] \cup {None}
<1>1. \A k \in Keys : Shown(k) \in Values(k) \cup {None} /\ cache[k] \in Entry(Values(k))
  BY DEF Typed, CacheTyped, Shown, Entry
<1>2. "table" \in Keys /\ \A t \in Tenders : t \in Keys
  BY DEF Keys
<1> QED
  BY <1>1, <1>2, KeysAre

LEMMA ListedRow ==
    ASSUME Typed, NEW t \in Tenders, Listed(t)
    PROVE  Shown("table")[t] \in Row /\ ~Covered /\ ui.page = "table"
BY ShownIs DEF Listed, On

LEMMA DetailRow ==
    ASSUME Typed, Detail
    PROVE  Tender \in Row /\ ui.open \in Tenders /\ ~Covered /\ ui.page = "detail"
BY ShownIs DEF Detail, On, Tender, Typed, PageTyped

LEMMA NothingOpen ==
    ASSUME ~Covered
    PROVE  ui.form = None /\ ui.reject = None /\ ui.proposal = None /\ ui.erase = None
BY DEF Covered

LEMMA EditsEdit ==
    ASSUME Typed, Edits
    PROVE  Edited(ui') /\ Same /\ (UNCHANGED budget \/ Spend("opens"))
<1>0. IsUi(ui)
  BY DEF Typed, PageTyped
<1>1. CASE OpenCreate
  <2>1. ui' = [ui EXCEPT !.form = Form(None, FALSE, "IDENTIFIED")] /\ Same /\ Spend("opens") /\ ~Covered
    BY <1>1, Zenon DEF OpenCreate, Opening, On
  <2>2. Form(None, FALSE, "IDENTIFIED") \in FormRecord /\ ~Form(None, FALSE, "IDENTIFIED").live
    BY FormMade DEF Status
  <2>3. Bound(Form(None, FALSE, "IDENTIFIED")) /\ Follows(Form(None, FALSE, "IDENTIFIED"))
    BY <2>2 DEF Bound, Follows
  <2> QED
    BY <1>0, <2>1, <2>2, <2>3 DEF Edited, IsUi
<1>2. CASE EditTender
  <2>1. ui' = [ui EXCEPT !.form = Form(ui.open, TRUE, Tender.st)] /\ Same /\ Spend("opens") /\ Detail
    BY <1>2, Zenon DEF EditTender, Opening
  <2> DEFINE f == Form(ui.open, TRUE, Tender.st)
  <2>5. ui.open \in Tenders \cup {None} /\ Tender.st \in Status
    BY <2>1, DetailRow DEF Row
  <2>2. f \in FormRecord /\ f.tender = ui.open /\ f.st = Tender.st
    BY <2>5, FormMade
  <2>3. Bound(f) /\ Follows(f)
    BY <2>1, <2>2, DetailRow DEF Bound, Follows, Detail, Tender
  <2> HIDE DEF f
  <2>4. ui' = [ui EXCEPT !.form = f]
    BY <2>1 DEF f
  <2> QED
    BY <1>0, <2>1, <2>2, <2>3, <2>4 DEF Edited, IsUi
<1>3. CASE OpenOutcome
  <2>1. ui' = [ui EXCEPT !.outcome = TRUE] /\ Same /\ Spend("opens") /\ Detail
    BY <1>3, Zenon DEF OpenOutcome, Opening
  <2> QED
    BY <1>0, <2>1, DetailRow DEF Edited, IsUi, FormInv
<1>4. CASE Type
  <2>1. ui' = [ui EXCEPT !.form.typed = TRUE] /\ Same /\ UNCHANGED budget /\ ui.form # None
    BY <1>4, Zenon DEF Type, Local
  <2>2. /\ ui'.form \in FormRecord /\ ui'.form.live = ui.form.live /\ ui'.form.tender = ui.form.tender
        /\ ui'.form.picked = ui.form.picked /\ ui'.form.st = ui.form.st
    BY <1>0, <2>1 DEF IsUi, FormRecord
  <2>3. FormInv => Bound(ui'.form) /\ Follows(ui'.form)
    BY <2>1, <2>2 DEF FormInv, Bound, Follows
  <2> QED
    BY <1>0, <2>1, <2>2, <2>3 DEF Edited, IsUi
<1>5. CASE DismissOutcome
  <2>1. ui' = [ui EXCEPT !.outcome = FALSE] /\ Same /\ UNCHANGED budget
    BY <1>5, Zenon DEF DismissOutcome, Local
  <2> QED
    BY <1>0, <2>1 DEF Edited, IsUi, FormInv
<1>6. ASSUME NEW t \in Tenders, OpenReject(t) PROVE Edited(ui') /\ Same /\ Spend("opens")
  <2>1. ui' = [ui EXCEPT !.reject = t] /\ Same /\ Spend("opens") /\ Card(t)
    BY <1>6, Zenon DEF OpenReject, Opening
  <2> QED
    BY <1>0, <2>1 DEF Edited, IsUi, FormInv
<1>7. ASSUME NEW t \in Tenders, OpenEdit(t) PROVE Edited(ui') /\ Same /\ Spend("opens")
  <2>1. ui' = [ui EXCEPT !.form = Form(t, FALSE, Shown("table")[t].st)] /\ Same /\ Spend("opens") /\ Listed(t)
    BY <1>7, Zenon DEF OpenEdit, Opening
  <2> DEFINE f == Form(t, FALSE, Shown("table")[t].st)
  <2>2. f \in FormRecord /\ ~f.live
    BY <2>1, FormMade, ListedRow DEF Row
  <2>3. Bound(f) /\ Follows(f)
    BY <2>2 DEF Bound, Follows
  <2> HIDE DEF f
  <2>4. ui' = [ui EXCEPT !.form = f]
    BY <2>1 DEF f
  <2> QED
    BY <1>0, <2>1, <2>2, <2>3, <2>4 DEF Edited, IsUi
<1>8. ASSUME NEW t \in Tenders, AskDelete(t) PROVE Edited(ui') /\ Same /\ Spend("opens")
  <2>1. ui' = [ui EXCEPT !.erase = t] /\ Same /\ Spend("opens")
    BY <1>8, Zenon DEF AskDelete, Opening
  <2> QED
    BY <1>0, <2>1 DEF Edited, IsUi, FormInv
<1>9. ASSUME NEW st \in Status, PickStatus(st) PROVE Edited(ui') /\ Same /\ UNCHANGED budget
  <2>1. ui' = [ui EXCEPT !.form.st = st, !.form.picked = TRUE] /\ Same /\ UNCHANGED budget /\ ui.form # None
    BY <1>9, Zenon DEF PickStatus, Local
  <2>2. /\ ui'.form \in FormRecord /\ ui'.form.live = ui.form.live /\ ui'.form.tender = ui.form.tender
        /\ ui'.form.picked
    BY <1>0, <2>1 DEF IsUi, FormRecord
  <2>3. FormInv => Bound(ui'.form) /\ Follows(ui'.form)
    BY <2>1, <2>2 DEF FormInv, Bound, Follows
  <2> QED
    BY <1>0, <2>1, <2>2, <2>3 DEF Edited, IsUi
<1>10. ASSUME NEW d \in {"reject", "form", "erase", "proposal"}, Dismiss(d)
       PROVE  Edited(ui') /\ Same /\ UNCHANGED budget
  <2>1. ui' = [ui EXCEPT ![d] = None] /\ Same /\ UNCHANGED budget
    BY <1>10, Zenon DEF Dismiss, Local
  <2>2. CASE d = "reject"
    BY <1>0, <2>1, <2>2 DEF Edited, IsUi, FormInv
  <2>3. CASE d = "form"
    BY <1>0, <2>1, <2>3 DEF Edited, IsUi, Bound, Follows
  <2>4. CASE d = "erase"
    BY <1>0, <2>1, <2>4 DEF Edited, IsUi, FormInv
  <2>5. CASE d = "proposal"
    BY <1>0, <2>1, <2>5 DEF Edited, IsUi, FormInv
  <2> QED
    BY <1>10, <2>2, <2>3, <2>4, <2>5
<1> QED
  BY <1>1, <1>2, <1>3, <1>4, <1>5, <1>6, <1>7, <1>8, <1>9, <1>10, Zenon DEF Edits

Asking ==
    \/ Run \/ ConfirmReject \/ ConfirmDelete \/ Submit \/ ProposeHere \/ Analyze \/ CheckDocs \/ Regenerate
    \/ \E t \in Tenders : Pursue(t) \/ Watchlist(t) \/ OpenProposal(t) \/ Promote(t)
    \/ \E st \in Status : ChangeStatus(st) \/ RecordOutcome(st)

\* A decision is taken on a card, in the dialog of "Tolak", or in the table.
Decided(c) ==
    \/ Card(c.tender) /\ ui' = [ui EXCEPT !.pending = c.tender]
    \/ c.op = "review" /\ ui.reject = c.tender /\ ui' = [ui EXCEPT !.pending = c.tender]
    \/ ui.page = "table" /\ UNCHANGED ui
Asked(c) ==
    /\ c \in CallRecord /\ Aimed(c) /\ c.st = "sent" /\ c.alive /\ Send(c)
    /\ \/ c.op \notin Decisions \cup {"proposal"} /\ UNCHANGED ui
       \/ c.op = "proposal" /\ ui' = [ui EXCEPT !.proposal = c.tender, !.draft = None]
       \/ c.op \in Decisions /\ Decided(c)

LEMMA AskingAsks ==
    ASSUME Typed, Asking
    PROVE  \E c \in CallRecord : Asked(c)
<1>0. IsUi(ui)
  BY DEF Typed, PageTyped
<1>1. CASE Run
  <2> DEFINE c == Call("run", None, None)
  <2>1. Send(c) /\ UNCHANGED ui
    BY <1>1, Zenon DEF Run
  <2>2. c \in CallRecord /\ c.st = "sent" /\ c.alive /\ c.op = "run"
    BY CallMade DEF Ops
  <2> HIDE DEF c
  <2> QED
    BY <2>1, <2>2 DEF Asked, Aimed, Decisions
<1>2. CASE ConfirmReject
  <2> DEFINE c == Call("review", ui.reject, "REJECT")
  <2>1. /\ ui.reject # None /\ Send(c)
        /\ ui' = [ui EXCEPT !.pending = ui.reject]
    BY <1>2, Zenon DEF ConfirmReject, Decide
  <2>2. ui.reject \in Tenders
    BY <1>0, <2>1 DEF IsUi
  <2>3. c \in CallRecord /\ c.st = "sent" /\ c.alive /\ c.op = "review" /\ c.tender = ui.reject
    BY <2>2, CallMade DEF Ops
  <2> HIDE DEF c
  <2>4. Decided(c)
    BY <2>1, <2>3 DEF Decided
  <2> QED
    BY <2>1, <2>2, <2>3, <2>4 DEF Asked, Aimed, Decisions
<1>3. CASE ConfirmDelete
  <2> DEFINE c == Call("delete", ui.erase, None)
  <2>1. ui.erase # None /\ Send(c) /\ UNCHANGED ui
    BY <1>3, Zenon DEF ConfirmDelete
  <2>2. ui.erase \in Tenders
    BY <1>0, <2>1 DEF IsUi
  <2>3. c \in CallRecord /\ c.st = "sent" /\ c.alive /\ c.op = "delete" /\ c.tender = ui.erase
    BY <2>2, CallMade DEF Ops
  <2> HIDE DEF c
  <2> QED
    BY <2>1, <2>2, <2>3 DEF Asked, Aimed, Decisions
<1>4. CASE Submit
  <2> DEFINE op == IF ui.form.tender = None THEN "create" ELSE "save"
             c == Call(op, ui.form.tender, ui.form.st)
  <2>1. ui.form # None /\ Send(c) /\ UNCHANGED ui
    BY <1>4, Zenon DEF Submit
  <2>2. ui.form.tender \in Tenders \cup {None} /\ ui.form.st \in Status
    BY <1>0, <2>1 DEF IsUi, FormRecord
  <2>5. op \in Ops
    BY DEF Ops
  <2>3. c \in CallRecord /\ c.st = "sent" /\ c.alive /\ c.op = op /\ c.tender = ui.form.tender /\ c.to = ui.form.st
    BY <2>2, <2>5, CallMade
  <2>4. Aimed(c)
    BY <2>2, <2>3 DEF Aimed
  <2> HIDE DEF c
  <2> QED
    BY <2>1, <2>3, <2>4 DEF Asked, Decisions
<1>5. CASE ProposeHere
  <2> DEFINE c == Call("proposal", ui.open, None)
  <2>1. Detail /\ Send(c) /\ ui' = [ui EXCEPT !.proposal = ui.open, !.draft = None]
    BY <1>5, Zenon DEF ProposeHere, Propose
  <2>2. ui.open \in Tenders
    BY <2>1, DetailRow
  <2>3. c \in CallRecord /\ c.st = "sent" /\ c.alive /\ c.op = "proposal" /\ c.tender = ui.open
    BY <2>2, CallMade DEF Ops, Asks
  <2> HIDE DEF c
  <2> QED
    BY <2>1, <2>2, <2>3 DEF Asked, Aimed, Decisions
<1>6. CASE Analyze
  <2> DEFINE c == Call("score", ui.open, None)
  <2>1. Detail /\ Send(c) /\ UNCHANGED ui
    BY <1>6, Zenon DEF Analyze
  <2>2. ui.open \in Tenders
    BY <2>1, DetailRow
  <2>3. c \in CallRecord /\ c.st = "sent" /\ c.alive /\ c.op = "score" /\ c.tender = ui.open
    BY <2>2, CallMade DEF Ops
  <2> HIDE DEF c
  <2> QED
    BY <2>1, <2>2, <2>3 DEF Asked, Aimed, Decisions
<1>7. CASE CheckDocs
  <2> DEFINE c == Call("check", ui.open, None)
  <2>1. Detail /\ Send(c) /\ UNCHANGED ui
    BY <1>7, Zenon DEF CheckDocs
  <2>2. ui.open \in Tenders
    BY <2>1, DetailRow
  <2>3. c \in CallRecord /\ c.st = "sent" /\ c.alive /\ c.op = "check" /\ c.tender = ui.open
    BY <2>2, CallMade DEF Ops, Asks
  <2> HIDE DEF c
  <2> QED
    BY <2>1, <2>2, <2>3 DEF Asked, Aimed, Decisions
<1>8. CASE Regenerate
  <2> DEFINE c == Call("proposal", ui.proposal, None)
  <2>1. /\ ui.proposal # None /\ Send(c)
        /\ ui' = [ui EXCEPT !.proposal = ui.proposal, !.draft = None]
    BY <1>8, Zenon DEF Regenerate, Propose
  <2>2. ui.proposal \in Tenders
    BY <1>0, <2>1 DEF IsUi
  <2>3. c \in CallRecord /\ c.st = "sent" /\ c.alive /\ c.op = "proposal" /\ c.tender = ui.proposal
    BY <2>2, CallMade DEF Ops, Asks
  <2> HIDE DEF c
  <2> QED
    BY <2>1, <2>2, <2>3 DEF Asked, Aimed, Decisions
<1>9. ASSUME NEW t \in Tenders, Pursue(t) \/ Watchlist(t)
      PROVE  \E c \in CallRecord : Asked(c)
  <2> DEFINE op == IF Pursue(t) THEN "promote" ELSE "review"
             c == Call(op, t, None)
  <2>1. Card(t) /\ Send(c) /\ ui' = [ui EXCEPT !.pending = t]
    <3>1. CASE Pursue(t)
      <4>1. Card(t) /\ Decide("promote", t, None) /\ op = "promote"
        BY <3>1, Zenon DEF Pursue
      <4> QED
        BY <4>1, Zenon DEF Decide
    <3>2. CASE ~Pursue(t)
      <4>1. Card(t) /\ Decide("review", t, None) /\ op = "review"
        BY <1>9, <3>2, Zenon DEF Watchlist
      <4> QED
        BY <4>1, Zenon DEF Decide
    <3> QED
      BY <3>1, <3>2, Zenon
  <2>2. op \in Decisions
    BY DEF Decisions
  <2> HIDE DEF op
  <2>3. c \in CallRecord /\ c.st = "sent" /\ c.alive /\ c.op = op /\ c.tender = t
    BY <2>2, CallMade DEF Ops, Decisions
  <2> HIDE DEF c
  <2>4. Decided(c)
    BY <2>1, <2>3 DEF Decided
  <2> QED
    BY <2>1, <2>2, <2>3, <2>4 DEF Asked, Aimed, Decisions
<1>10. ASSUME NEW t \in Tenders, OpenProposal(t)
       PROVE  \E c \in CallRecord : Asked(c)
  <2> DEFINE c == Call("proposal", t, None)
  <2>1. Send(c) /\ ui' = [ui EXCEPT !.proposal = t, !.draft = None]
    BY <1>10, Zenon DEF OpenProposal, Propose
  <2>3. c \in CallRecord /\ c.st = "sent" /\ c.alive /\ c.op = "proposal" /\ c.tender = t
    BY CallMade DEF Ops, Asks
  <2> HIDE DEF c
  <2> QED
    BY <2>1, <2>3 DEF Asked, Aimed, Decisions
<1>11. ASSUME NEW t \in Tenders, Promote(t)
       PROVE  \E c \in CallRecord : Asked(c)
  <2> DEFINE c == Call("promote", t, None)
  <2>1. Listed(t) /\ Send(c) /\ UNCHANGED ui
    BY <1>11, Zenon DEF Promote
  <2>2. ui.page = "table"
    BY <2>1, ListedRow
  <2>3. c \in CallRecord /\ c.st = "sent" /\ c.alive /\ c.op = "promote" /\ c.tender = t
    BY CallMade DEF Ops
  <2> HIDE DEF c
  <2>4. Decided(c)
    BY <2>1, <2>2 DEF Decided
  <2> QED
    BY <2>1, <2>3, <2>4 DEF Asked, Aimed, Decisions
<1>12. ASSUME NEW st \in Status, ChangeStatus(st) \/ RecordOutcome(st)
       PROVE  \E c \in CallRecord : Asked(c)
  <2> DEFINE op == IF ChangeStatus(st) THEN "status" ELSE "outcome"
             c == Call(op, ui.open, st)
  <2>1. Send(c) /\ UNCHANGED ui /\ Tender # None /\ (Detail \/ ui.outcome)
    <3>1. CASE ChangeStatus(st)
      <4>1. op = "status"
        BY <3>1, Zenon
      <4> QED
        BY <3>1, <4>1, Zenon DEF ChangeStatus, Detail
    <3>2. CASE ~ChangeStatus(st)
      <4>1. op = "outcome"
        BY <3>2, Zenon
      <4> QED
        BY <1>12, <3>2, <4>1, Zenon DEF RecordOutcome
    <3> QED
      BY <3>1, <3>2, Zenon
  <2>2. op \in {"status", "outcome"} /\ op \in Ops
    BY DEF Ops
  <2> HIDE DEF op
  <2>4. ui.open \in Tenders
    BY <2>1, DetailRow DEF Typed, PageTyped
  <2>3. c \in CallRecord /\ c.st = "sent" /\ c.alive /\ c.op = op /\ c.tender = ui.open /\ c.to = st
    BY <2>2, <2>4, st \in Status \cup {"REJECT", None}, CallMade
  <2> HIDE DEF c
  <2> QED
    BY <2>1, <2>2, <2>3, <2>4 DEF Asked, Aimed, Decisions
<1> QED
  BY <1>1, <1>2, <1>3, <1>4, <1>5, <1>6, <1>7, <1>8, <1>9, <1>10, <1>11, <1>12, Zenon DEF Asking

\* A request is carried out, or the start of the run that it has checked for.
Served(s) == Carry(s) \/ Insert(s)

LEMMA NextIs ==
    ASSUME Next
    PROVE  \/ Edits \/ Asking \/ Poll \/ Elsewhere
           \/ \E k \in Keys : Serve(k) \/ Store(k) \/ LoadFails(k)
           \/ \E s \in Slots : Served(s) \/ LoseCall(s) \/ Deliver(s)
           \/ \E t \in Tenders : Find(t) \/ Go("detail", t)
           \/ \E i \in 1 .. MaxRuns : Finish(i)
           \/ \E p \in Pages \ {"detail"} : Go(p, None)
<1>1. CASE UseInbox
  BY <1>1, Zenon DEF UseInbox, Edits, Asking
<1>2. CASE UseTable
  BY <1>2, Zenon DEF UseTable, Edits, Asking
<1>3. CASE UseForm
  BY <1>3, Zenon DEF UseForm, Edits, Asking
<1>4. CASE UseDetail
  BY <1>4, Zenon DEF UseDetail, Edits, Asking
<1>5. CASE UseDialogs
  BY <1>5, Zenon DEF UseDialogs, Edits, Asking
<1>6. CASE Navigate
  <2>1. ASSUME NEW p \in Pages, OpenPage(p) PROVE p \in Pages \ {"detail"} /\ Go(p, None)
    BY <2>1, Zenon DEF OpenPage
  <2>2. ASSUME NEW t \in Tenders, OpenTender(t) PROVE Go("detail", t)
    BY <2>2, Zenon DEF OpenTender
  <2> QED
    BY <1>6, <2>1, <2>2, Zenon DEF Navigate
<1>7. CASE Discover
  BY <1>7, Zenon DEF Discover
<1> QED
  BY <1>1, <1>2, <1>3, <1>4, <1>5, <1>6, <1>7, Zenon DEF Next, Query, Served

\* A call under way is answered, or its answer is lost; only a new tender gets its id.
Changed(s, d) ==
    /\ calls[s] # None /\ d \in CallRecord /\ Aimed(d) /\ d.st \in {"checked", "ok", "failed"}
    /\ calls' = [calls EXCEPT ![s] = d] /\ UNCHANGED <<cache, latest, ui>>
    /\ d.op = calls[s].op /\ d.alive = calls[s].alive /\ (d.tender = calls[s].tender \/ d.op \in {"run", "create"})

Writes == {"promote", "review", "save", "status", "outcome", "score"}
Effected(c, d) ==
    \/ UNCHANGED <<row, runs, told>> /\ (UNCHANGED budget \/ Spend("faults"))
    \/ c.op = "run" /\ StartRun /\ UNCHANGED <<row, budget>>
    \/ /\ c.op = "create" /\ d.st = "ok" /\ Fresh(d.tender) /\ Put(d.tender, NewRow(c.to, FALSE))
       /\ budget' = [budget EXCEPT !.used = @ \cup {d.tender}] /\ UNCHANGED <<runs, told>>
    \/ /\ c.op = "delete" /\ d.st = "ok" /\ Put(c.tender, None) /\ row[c.tender] # None
       /\ told' = told \cup {"inbox"} /\ UNCHANGED <<runs, budget>>
    \/ /\ c.op \in Writes /\ d.st = "ok" /\ row[c.tender] # None
       /\ Put(c.tender, Wrote(Effect(c, row[c.tender])))
       /\ told' = told \cup Untold(c) /\ UNCHANGED <<runs, budget>>

LEMMA CallIs ==
    ASSUME Typed, NEW s \in Slots, calls[s] # None
    PROVE  calls[s] \in CallRecord /\ Aimed(calls[s])
BY DEF Typed, CallsTyped

LEMMA Replied ==
    ASSUME Typed, NEW s \in Slots, calls[s] # None, NEW t \in Tenders \cup {None},
           t = calls[s].tender \/ calls[s].op \in {"run", "create"},
           calls[s].op = "create" => t \in Tenders,
           calls' = [calls EXCEPT ![s].st = "ok", ![s].tender = t], UNCHANGED <<cache, latest, ui>>
    PROVE  \E d \in CallRecord : Changed(s, d) /\ d.st = "ok" /\ d.tender = t
<1>1. PICK c \in CallRecord : c = calls[s] /\ Aimed(c)
  BY CallIs
<1> DEFINE d == [c EXCEPT !.st = "ok", !.tender = t]
<1>2. calls' = [calls EXCEPT ![s] = d]
  BY <1>1 DEF Typed, CallsTyped
<1>3. d \in CallRecord /\ d.op = c.op /\ d.to = c.to /\ d.alive = c.alive /\ d.st = "ok" /\ d.tender = t
  BY DEF CallRecord
<1> HIDE DEF d
<1>4. Aimed(d)
  BY <1>1, <1>3 DEF Aimed
<1> QED
  BY <1>1, <1>2, <1>3, <1>4 DEF Changed

LEMMA Marked ==
    ASSUME Typed, NEW s \in Slots, calls[s] # None, NEW st \in {"checked", "ok", "failed"},
           st = "checked" => calls[s].op = "run", st = "ok" => calls[s].op # "create",
           calls' = [calls EXCEPT ![s].st = st], UNCHANGED <<cache, latest, ui>>
    PROVE  \E d \in CallRecord : Changed(s, d) /\ d.st = st
<1>1. PICK c \in CallRecord : c = calls[s] /\ Aimed(c)
  BY CallIs
<1> DEFINE d == [c EXCEPT !.st = st]
<1>2. calls' = [calls EXCEPT ![s] = d]
  BY <1>1 DEF Typed, CallsTyped
<1>3. d \in CallRecord /\ d.op = c.op /\ d.to = c.to /\ d.alive = c.alive /\ d.st = st /\ d.tender = c.tender
  BY DEF CallRecord
<1> HIDE DEF d
<1>4. Aimed(d)
  BY <1>1, <1>3 DEF Aimed
<1> QED
  BY <1>1, <1>2, <1>3, <1>4 DEF Changed

LEMMA CarryIs ==
    ASSUME Typed, NEW s \in Slots, Carry(s)
    PROVE  calls[s].st = "sent" /\ \E d \in CallRecord : Changed(s, d) /\ Effected(calls[s], d)
<1>0. calls[s] # None
  BY Zenon DEF Carry
<1>1. PICK c \in CallRecord : c = calls[s] /\ Aimed(c)
  BY <1>0, CallIs
<1> DEFINE r == IF c = None \/ c.tender = None THEN None ELSE row[c.tender]
           Reply(t) == calls' = [calls EXCEPT ![s].st = "ok", ![s].tender = t]
<1>2. UNCHANGED <<cache, latest, ui>> /\ c # None /\ c.st = "sent"
  BY <1>1, Zenon DEF Carry
<1>3. c.tender \in Tenders \cup {None} /\ (c.op \notin {"run", "create"} => c.tender \in Tenders)
  BY <1>1 DEF CallRecord, Aimed
<1>4. \/ c.op = "run" /\ Reply(None) /\ UNCHANGED <<row, runs, told, budget>>
      \/ c.op = "run" /\ MayStart /\ calls' = [calls EXCEPT ![s].st = "checked"] /\ UNCHANGED <<row, runs, told>>
      \/ c.op = "create" /\ \E t \in Tenders :
            /\ Fresh(t) /\ Put(t, NewRow(c.to, FALSE)) /\ Reply(t)
            /\ budget' = [budget EXCEPT !.used = @ \cup {t}] /\ UNCHANGED <<runs, told>>
      \/ c.op = "delete" /\ r # None /\ Put(c.tender, None) /\ Reply(c.tender)
         /\ told' = told \cup Untold(c) /\ UNCHANGED <<runs, budget>>
      \/ c.op \in Asks /\ r # None /\ Reply(c.tender) /\ UNCHANGED <<row, runs, told, budget>>
      \/ /\ c.op \notin {"run", "create", "delete"} \cup Asks /\ ~Refused(c, r)
         /\ Put(c.tender, Wrote(Effect(c, r))) /\ Reply(c.tender)
         /\ told' = told \cup Untold(c) /\ UNCHANGED <<runs, budget>>
      \/ calls' = [calls EXCEPT ![s].st = "failed"] /\ UNCHANGED <<row, runs, told, budget>>
  BY <1>1, Zenon DEF Carry
<1>5. c.op \notin {"run", "create"} => r = row[c.tender]
  BY <1>2, <1>3, NoneAssumption
<1> HIDE DEF r
<1>6. CASE c.op = "run" /\ Reply(None) /\ UNCHANGED <<row, runs, told, budget>>
  <2>1. PICK d \in CallRecord : Changed(s, d)
    BY <1>1, <1>2, <1>6, Replied
  <2> QED
    BY <1>1, <1>2, <1>6, <2>1 DEF Effected
<1>12. CASE c.op = "run" /\ MayStart /\ calls' = [calls EXCEPT ![s].st = "checked"] /\ UNCHANGED <<row, runs, told>>
  <2>1. PICK d \in CallRecord : Changed(s, d)
    BY <1>1, <1>2, <1>12, Marked
  <2>2. UNCHANGED budget \/ Spend("faults")
    BY <1>12, Zenon DEF MayStart
  <2> QED
    BY <1>1, <1>2, <1>12, <2>1, <2>2, Zenon DEF Effected
<1>7. ASSUME NEW t \in Tenders, c.op = "create", Fresh(t), Put(t, NewRow(c.to, FALSE)), Reply(t),
             budget' = [budget EXCEPT !.used = @ \cup {t}], UNCHANGED <<runs, told>>
      PROVE  \E d \in CallRecord : Changed(s, d) /\ Effected(c, d)
  <2>1. PICK d \in CallRecord : Changed(s, d) /\ d.st = "ok" /\ d.tender = t
    BY <1>1, <1>2, <1>7, Replied
  <2> QED
    BY <1>7, <2>1 DEF Effected
<1>8. CASE c.op = "delete" /\ r # None /\ Put(c.tender, None) /\ Reply(c.tender)
           /\ told' = told \cup Untold(c) /\ UNCHANGED <<runs, budget>>
  <2>1. PICK d \in CallRecord : Changed(s, d) /\ d.st = "ok"
    BY <1>1, <1>2, <1>3, <1>8, Replied
  <2> QED
    BY <1>1, <1>2, <1>5, <1>8, <2>1 DEF Effected, Untold
<1>9. CASE c.op \in Asks /\ r # None /\ Reply(c.tender) /\ UNCHANGED <<row, runs, told, budget>>
  <2>1. PICK d \in CallRecord : Changed(s, d) /\ d.st = "ok"
    BY <1>1, <1>2, <1>3, <1>9, Replied DEF Asks
  <2> QED
    BY <1>1, <1>2, <1>9, <2>1 DEF Effected
<1>10. CASE /\ c.op \notin {"run", "create", "delete"} \cup Asks /\ ~Refused(c, r)
            /\ Put(c.tender, Wrote(Effect(c, r))) /\ Reply(c.tender)
            /\ told' = told \cup Untold(c) /\ UNCHANGED <<runs, budget>>
  <2>1. PICK d \in CallRecord : Changed(s, d) /\ d.st = "ok"
    BY <1>1, <1>2, <1>3, <1>10, Replied
  <2>2. c.op \in Writes
    BY <1>10 DEF CallRecord, Ops, Writes
  <2>3. r = row[c.tender] /\ r # None
    BY <1>5, <1>10 DEF Refused
  <2> QED
    BY <1>1, <1>2, <1>10, <2>1, <2>2, <2>3, Zenon DEF Effected
<1>11. CASE calls' = [calls EXCEPT ![s].st = "failed"] /\ UNCHANGED <<row, runs, told, budget>>
  <2>1. PICK d \in CallRecord : Changed(s, d)
    BY <1>1, <1>2, <1>11, Marked
  <2> QED
    BY <1>1, <1>2, <1>11, <2>1 DEF Effected
<1> QED
  BY <1>1, <1>2, <1>4, <1>6, <1>7, <1>8, <1>9, <1>10, <1>11, <1>12, Zenon

LEMMA ServedIs ==
    ASSUME Typed, NEW s \in Slots, Served(s)
    PROVE  calls[s].st # "ok" /\ \E d \in CallRecord : Changed(s, d) /\ Effected(calls[s], d)
<1>1. CASE Carry(s)
  BY <1>1, CarryIs
<1>2. CASE Insert(s)
  <2>1. /\ calls[s] # None /\ calls[s].st = "checked" /\ StartRun
        /\ calls' = [calls EXCEPT ![s].st = "ok"] /\ UNCHANGED <<row, cache, latest, ui, budget>>
    BY <1>2, Zenon DEF Insert
  <2>2. calls[s].op = "run"
    BY <2>1, CallIs DEF Aimed
  <2>3. PICK d \in CallRecord : Changed(s, d)
    BY <2>1, <2>2, Marked
  <2>4. Effected(calls[s], d)
    BY <2>1, <2>2, Zenon DEF Effected
  <2> QED
    BY <2>1, <2>3, <2>4
<1> QED
  BY <1>1, <1>2 DEF Served

(***************************************************************************)
(* What the other steps make of the calls and of the page.                 *)
(***************************************************************************)
LEMMA NewSlot ==
    ASSUME Typed, NEW c \in CallRecord, Send(c)
    PROVE  \E s \in Slots :
              /\ calls[s] = None /\ calls' = [calls EXCEPT ![s] = c] /\ calls'[s] = c
              /\ latest' = [latest EXCEPT ![c.op] = s] /\ latest'[c.op] = s
              /\ \A r \in Slots : r # s => calls'[r] = calls[r]
              /\ \A op \in Ops : op # c.op => latest'[op] = latest[op]
<1>1. PICK s \in Slots : calls[s] = None /\ calls' = [calls EXCEPT ![s] = c] /\ latest' = [latest EXCEPT ![c.op] = s]
  BY Zenon DEF Send
<1>2. c.op \in Ops
  BY DEF CallRecord
<1> QED
  BY <1>1, <1>2 DEF Typed, CallsTyped

LEMMA RenderedIs ==
    ASSUME Typed, NEW k \in Keys, NEW v, k \in Tenders => v \in Row, ui' = Rendered(ui, k, v)
    PROVE  /\ IsUi(ui') /\ ui' = [ui EXCEPT !.form = ui'.form]
           /\ ui'.form # ui.form => /\ ui.form # None /\ ui.form.live /\ ui.form.tender = k /\ k \in Tenders
                                    /\ v # Shown(k)
<1>0. IsUi(ui)
  BY DEF Typed, PageTyped
<1>1. CASE ui.form # None /\ ui.form.live /\ ui.form.tender = k /\ v # Shown(k)
  <2>1. k \in Tenders
    BY <1>0, <1>1, TendersAssumption DEF Keys, IsUi, FormRecord
  <2>2. v.st \in Status
    BY <2>1 DEF Row
  <2>3. Form(k, TRUE, v.st) \in FormRecord
    BY <2>1, <2>2, FormMade
  <2>4. ui' = [ui EXCEPT !.form = Form(k, TRUE, v.st)]
    BY <1>1 DEF Rendered
  <2> QED
    BY <1>0, <1>1, <2>1, <2>3, <2>4 DEF IsUi
<1>2. CASE ~(ui.form # None /\ ui.form.live /\ ui.form.tender = k /\ v # Shown(k))
  <2>1. ui' = ui
    BY <1>2 DEF Rendered
  <2>2. ui = [ui EXCEPT !.form = ui.form]
    BY <1>0 DEF IsUi
  <2> QED
    BY <1>0, <2>1, <2>2
<1> QED
  BY <1>1, <1>2

\* What a fetch has brought.
LEMMA GotIs ==
    ASSUME Typed, NEW k \in Keys, cache[k].fetch = "answered" => cache[k].got # None
    PROVE  cache[k].fetch = "answered" => cache[k].got \in Values(k) /\ (k \in Tenders => cache[k].got \in Row)
BY ShownIs, KeysAre DEF Entry

\* The steps that leave the calls and the page as they are, but for the form.
Quiet == UNCHANGED <<calls, latest>> /\ ui' = [ui EXCEPT !.form = ui'.form]

Answering == \A k \in Keys : cache[k].fetch = "answered" => cache[k].got # None

QuietSteps ==
    \/ Poll \/ Elsewhere \/ (\E k \in Keys : Serve(k) \/ Store(k) \/ LoadFails(k))
    \/ (\E t \in Tenders : Find(t)) \/ (\E i \in 1 .. MaxRuns : Finish(i))

LEMMA QuietAre ==
    ASSUME Typed, Answering, QuietSteps
    PROVE  Quiet /\ IsUi(ui')
<1>0. IsUi(ui) /\ ui = [ui EXCEPT !.form = ui.form]
  BY DEF Typed, PageTyped, IsUi
<1>1. CASE Poll
  BY <1>0, <1>1 DEF Poll, Quiet
<1>2. CASE Elsewhere
  <2>1. UNCHANGED <<calls, latest, ui>>
    BY <1>2, Zenon DEF Elsewhere
  <2> QED
    BY <1>0, <2>1 DEF Quiet
<1>3. ASSUME NEW k \in Keys, Serve(k) \/ LoadFails(k) PROVE Quiet /\ IsUi(ui')
  <2>1. UNCHANGED <<calls, latest, ui>>
    BY <1>3, Zenon DEF Serve, LoadFails
  <2> QED
    BY <1>0, <2>1 DEF Quiet
<1>4. ASSUME NEW k \in Keys, Store(k) PROVE Quiet /\ IsUi(ui')
  <2>1. UNCHANGED <<calls, latest>> /\ ui' = Rendered(ui, k, cache[k].got) /\ cache[k].fetch = "answered"
    BY <1>4, Zenon DEF Store
  <2>2. k \in Tenders => cache[k].got \in Row
    BY <2>1, GotIs DEF Answering
  <2> QED
    BY <2>1, <2>2, RenderedIs DEF Quiet
<1>5. ASSUME NEW t \in Tenders, Find(t) PROVE Quiet /\ IsUi(ui')
  <2>1. UNCHANGED <<calls, latest, ui>>
    BY <1>5, Zenon DEF Find
  <2> QED
    BY <1>0, <2>1 DEF Quiet
<1>6. ASSUME NEW i \in 1 .. MaxRuns, Finish(i) PROVE Quiet /\ IsUi(ui')
  <2>1. UNCHANGED <<calls, latest, ui>>
    BY <1>6, Zenon DEF Finish
  <2> QED
    BY <1>0, <2>1 DEF Quiet
<1> QED
  BY <1>1, <1>2, <1>3, <1>4, <1>5, <1>6, Zenon DEF QuietSteps

\* What the handlers of an answer leave open.
LEMMA ClosedIs ==
    ASSUME Typed, NEW s \in Slots, calls[s] # None, ui' = Drafted(s, Closed(calls[s]))
    PROVE  /\ IsUi(ui') /\ ui'.page = ui.page /\ ui'.open = ui.open /\ ui'.proposal = ui.proposal
           /\ ui'.pending \in {None, ui.pending} /\ ui'.reject \in {None, ui.reject}
           /\ ui'.form \in {None, ui.form} /\ (ui'.outcome => ui.outcome)
           /\ calls[s].alive /\ calls[s].op \in Decisions /\ ui.page = "inbox" => ui'.pending = None
           /\ ui'.draft = IF latest["proposal"] = s /\ calls[s].st = "ok" THEN calls[s].tender ELSE ui.draft
<1> DEFINE c == calls[s]
           u == Closed(c)
<1>0. IsUi(ui) /\ c \in CallRecord
  BY CallIs DEF Typed, PageTyped
<1>1. /\ IsUi(u) /\ u.page = ui.page /\ u.open = ui.open /\ u.proposal = ui.proposal /\ u.draft = ui.draft
      /\ u.pending \in {None, ui.pending} /\ u.reject \in {None, ui.reject}
      /\ u.form \in {None, ui.form} /\ (u.outcome => ui.outcome)
      /\ c.alive /\ c.op \in Decisions /\ ui.page = "inbox" => u.pending = None
  <2> HIDE DEF c
  <2>1. CASE ~c.alive
    BY <1>0, <2>1 DEF Closed
  <2>2. CASE c.alive /\ c.op \in {"promote", "review"} /\ ui.page = "inbox"
    <3>1. u = [ui EXCEPT !.pending = None, !.reject = IF c.to = "REJECT" THEN None ELSE ui.reject]
      BY <1>0, <2>2 DEF Closed, IsUi, Decisions
    <3>2. c.to = "REJECT" => u = [ui EXCEPT !.pending = None, !.reject = None]
      BY <3>1
    <3>3. c.to # "REJECT" => u = [ui EXCEPT !.pending = None]
      BY <1>0, <3>1 DEF IsUi
    <3> HIDE DEF u
    <3> QED
      BY <1>0, <3>2, <3>3 DEF IsUi
  <2>3. CASE c.alive /\ c.op \in {"create", "save"}
    BY <1>0, <2>3 DEF Closed, IsUi, Decisions
  <2>4. CASE c.alive /\ c.op = "delete"
    BY <1>0, <2>4 DEF Closed, IsUi, Decisions
  <2>5. CASE c.alive /\ c.op = "outcome"
    BY <1>0, <2>5 DEF Closed, IsUi, Decisions
  <2>6. CASE c.alive /\ ~(c.op \in {"promote", "review"} /\ ui.page = "inbox")
             /\ c.op \notin {"create", "save", "delete", "outcome"}
    <3>1. u = ui
      BY <2>6 DEF Closed
    <3> QED
      BY <1>0, <2>6, <3>1 DEF Decisions
  <2> QED
    BY <1>0, <2>1, <2>2, <2>3, <2>4, <2>5, <2>6 DEF CallRecord
<1>2. c.tender \in Tenders \cup {None}
  BY <1>0 DEF CallRecord
<1> HIDE DEF u
<1>3. CASE latest["proposal"] = s /\ c.st = "ok"
  <2>1. ui' = [u EXCEPT !.draft = c.tender]
    BY <1>3 DEF Drafted, u
  <2> QED
    BY <1>1, <1>2, <1>3, <2>1 DEF IsUi
<1>4. CASE ~(latest["proposal"] = s /\ c.st = "ok")
  <2>1. ui' = u
    BY <1>4 DEF Drafted, u
  <2> QED
    BY <1>1, <1>4, <2>1
<1> QED
  BY <1>3, <1>4

LEMMA DeliverIs ==
    ASSUME Typed, NEW s \in Slots, Deliver(s)
    PROVE  /\ calls[s] # None /\ calls[s].st \in {"ok", "failed"}
           /\ ui' = Drafted(s, Closed(calls[s])) /\ UNCHANGED <<row, runs, budget, told>>
           /\ cache' = IF calls[s].st = "ok" THEN Invalidate(Invalidates(calls[s])) ELSE cache
           /\ calls' \in [Slots -> CallRecord \cup {None}] /\ latest' \in [Ops -> Slots \cup {None}]
           /\ \A r \in Slots : calls'[r] = IF r = s THEN None ELSE calls[r]
           /\ \A op \in Ops : latest'[op] = IF latest[op] = s THEN None ELSE latest[op]
<1>1. /\ calls[s] # None /\ calls[s].st \in {"ok", "failed"}
      /\ ui' = Drafted(s, Closed(calls[s])) /\ UNCHANGED <<row, runs, budget, told>>
      /\ cache' = IF calls[s].st = "ok" THEN Invalidate(Invalidates(calls[s])) ELSE cache
      /\ calls' = [calls EXCEPT ![s] = None]
      /\ latest' = [op \in Ops |-> IF latest[op] = s THEN None ELSE latest[op]]
  BY Zenon DEF Deliver, Done
<1>2. calls \in [Slots -> CallRecord \cup {None}] /\ latest \in [Ops -> Slots \cup {None}]
  BY DEF Typed, CallsTyped
<1>3. /\ calls' \in [Slots -> CallRecord \cup {None}]
      /\ \A r \in Slots : calls'[r] = IF r = s THEN None ELSE calls[r]
  BY <1>1, <1>2
<1>4. /\ latest' \in [Ops -> Slots \cup {None}]
      /\ \A op \in Ops : latest'[op] = IF latest[op] = s THEN None ELSE latest[op]
  BY <1>1, <1>2
<1> QED
  BY <1>1, <1>3, <1>4

LEMMA GoIs ==
    ASSUME Typed, NEW p \in Pages, NEW t \in Tenders \cup {None}, p = "detail" => t \in Tenders, Go(p, t)
    PROVE  /\ ~Covered /\ Spend("opens") /\ UNCHANGED <<row, runs, told>>
           /\ IsUi(ui') /\ ui'.page = p /\ ui'.open = t /\ ui'.pending = None /\ ui'.reject = None
           /\ ui'.form = None /\ ui'.proposal = None /\ ui'.outcome = FALSE
           /\ calls' \in [Slots -> CallRecord \cup {None}] /\ latest' \in [Ops -> Slots \cup {None}]
           /\ \A s \in Slots : calls[s] = None => calls'[s] = None
           /\ \A s \in Slots : calls[s] # None =>
                 /\ calls'[s] # None /\ calls'[s].op = calls[s].op /\ calls'[s].tender = calls[s].tender
                 /\ calls'[s].to = calls[s].to /\ calls'[s].st = calls[s].st
           /\ \A op \in Ops : latest'[op] \in {None, latest[op]}
           /\ \E old \in BOOLEAN : \A k \in Keys : cache'[k] \in {cache[k], Opened(cache[k], old)}
           /\ \E old \in BOOLEAN : \A k \in Keys : Watched(k)' =>
                 Watched(k) \/ cache'[k] = Opened(cache[k], old)
           /\ cache' = [k \in Keys |-> cache'[k]]
<1> DEFINE new == Uses(p, t) \ Uses(ui.page, ui.open)
<1>1. /\ ~Covered /\ Spend("opens") /\ UNCHANGED <<row, runs, told>>
      /\ ui' = [NoUi EXCEPT !.page = p, !.open = t]
      /\ calls' = [s \in Slots |-> IF calls[s] = None THEN None ELSE [calls[s] EXCEPT !.alive = FALSE]]
      /\ latest' = [op \in Ops |-> IF op = "run" /\ {p, ui.page} \subseteq Radar THEN latest[op] ELSE None]
      /\ \E old \in BOOLEAN :
            cache' = [k \in Keys |-> IF k \in new THEN Opened(cache[k], old) ELSE cache[k]]
  BY Zenon DEF Go
<1>2. /\ IsUi(ui') /\ ui'.page = p /\ ui'.open = t /\ ui'.pending = None /\ ui'.reject = None
      /\ ui'.form = None /\ ui'.proposal = None /\ ui'.outcome = FALSE
  BY <1>1 DEF NoUi, IsUi
<1>3. calls \in [Slots -> CallRecord \cup {None}] /\ latest \in [Ops -> Slots \cup {None}]
  BY DEF Typed, CallsTyped
<1>4. ASSUME NEW s \in Slots, calls[s] # None
      PROVE  /\ calls'[s] \in CallRecord /\ calls'[s].op = calls[s].op /\ calls'[s].tender = calls[s].tender
             /\ calls'[s].to = calls[s].to /\ calls'[s].st = calls[s].st
  <2>1. calls'[s] = [calls[s] EXCEPT !.alive = FALSE] /\ calls[s] \in CallRecord
    BY <1>1, <1>3, <1>4
  <2> QED
    BY <2>1 DEF CallRecord
<1>5. \A s \in Slots : calls[s] = None => calls'[s] = None
  BY <1>1
<1>6. calls' \in [Slots -> CallRecord \cup {None}]
  <2>1. \A s \in Slots : calls'[s] \in CallRecord \cup {None}
    BY <1>4, <1>5
  <2>2. calls' = [s \in Slots |-> calls'[s]]
    BY <1>1
  <2> QED
    BY <2>1, <2>2
<1>7. latest' \in [Ops -> Slots \cup {None}] /\ \A op \in Ops : latest'[op] \in {None, latest[op]}
  BY <1>1, <1>3
<1>8. PICK old \in BOOLEAN : cache' = [k \in Keys |-> IF k \in new THEN Opened(cache[k], old) ELSE cache[k]]
  BY <1>1
<1>9. \A k \in Keys : Watched(k)' = (k \in Uses(p, t))
  BY <1>2 DEF Watched
<1>10. \A k \in Keys : cache'[k] = IF k \in new THEN Opened(cache[k], old) ELSE cache[k]
  BY <1>8
<1>11. cache' = [k \in Keys |-> cache'[k]]
  BY <1>8
<1>12. \A k \in Keys : Watched(k)' => Watched(k) \/ cache'[k] = Opened(cache[k], old)
  BY <1>9, <1>10 DEF Watched
<1>13. \A k \in Keys : cache'[k] \in {cache[k], Opened(cache[k], old)}
  BY <1>10
<1> HIDE DEF new
<1>14. \A s \in Slots : calls[s] # None =>
          /\ calls'[s] # None /\ calls'[s].op = calls[s].op /\ calls'[s].tender = calls[s].tender
          /\ calls'[s].to = calls[s].to /\ calls'[s].st = calls[s].st
  BY <1>4, CallAssumption
<1> QED
  BY <1>1, <1>2, <1>5, <1>6, <1>7, <1>11, <1>12, <1>13, <1>14, Zenon

LEMMA LoseIs ==
    ASSUME Typed, NEW s \in Slots, LoseCall(s)
    PROVE  /\ \E d \in CallRecord : Changed(s, d) /\ d.st = "failed"
           /\ Spend("faults") /\ UNCHANGED <<row, runs>>
           /\ told' = IF calls[s].st = "ok" THEN told \cup Lists \cup ({calls[s].tender} \ {None}) ELSE told
<1>1. /\ calls[s] # None /\ calls' = [calls EXCEPT ![s].st = "failed"] /\ UNCHANGED <<cache, latest, ui>>
      /\ Spend("faults") /\ UNCHANGED <<row, runs>>
      /\ told' = IF calls[s].st = "ok" THEN told \cup Lists \cup ({calls[s].tender} \ {None}) ELSE told
  BY Zenon DEF LoseCall
<1> QED
  BY <1>1, Marked

LEMMA ChangedCalls ==
    ASSUME Typed, NEW s \in Slots, NEW d, Changed(s, d)
    PROVE  /\ calls'[s] = d /\ \A r \in Slots : r # s => calls'[r] = calls[r]
           /\ calls' \in [Slots -> CallRecord \cup {None}]
BY DEF Changed, Typed, CallsTyped

\* A card is marked while a decision on it is under way.
LEMMA CardsKept ==
    ASSUME CardsInv, ui'.page = ui.page, ui'.pending = ui.pending, ui'.reject \in {None, ui.reject},
           \A s \in Slots, t \in Tenders : Deciding(calls[s], t) => Deciding(calls'[s], t),
           ui.pending \in Tenders \cup {None}
    PROVE  CardsInv'
<1>1. ui'.page # "inbox" => ui'.pending = None /\ ui'.reject = None
  BY DEF CardsInv
<1>2. ui'.pending # None => \E s \in Slots : Deciding(calls'[s], ui'.pending)
  BY DEF CardsInv
<1> QED
  BY <1>1, <1>2 DEF CardsInv

LEMMA AskedCards ==
    ASSUME Typed, CardsInv, NEW c \in CallRecord, Asked(c)
    PROVE  CardsInv'
<1>1. PICK s \in Slots :
              /\ calls[s] = None /\ calls'[s] = c
              /\ \A r \in Slots : r # s => calls'[r] = calls[r]
  BY NewSlot DEF Asked
<1>2. c # None /\ IsUi(ui) /\ c.alive
  BY CallAssumption DEF Typed, PageTyped, Asked
<1>3. \A r \in Slots, t \in Tenders : Deciding(calls[r], t) => Deciding(calls'[r], t)
  BY <1>1 DEF Deciding
<1>4. CASE c.op \notin Decisions
  <2>1. ui'.page = ui.page /\ ui'.pending = ui.pending /\ ui'.reject = ui.reject
    BY <1>2, <1>4 DEF Asked, IsUi
  <2> QED
    BY <1>2, <1>3, <2>1, CardsKept DEF IsUi
<1>5. CASE c.op \in Decisions /\ ui.page = "table" /\ UNCHANGED ui
  BY <1>2, <1>3, <1>5, CardsKept DEF IsUi
<1>6. CASE /\ c.op \in Decisions /\ ui' = [ui EXCEPT !.pending = c.tender]
           /\ Card(c.tender) \/ ui.reject = c.tender
  <2>1. c.tender \in Tenders /\ c.tender # None
    BY <1>6, NoneAssumption DEF Asked, Aimed, Decisions
  <2>2. ui.page = "inbox"
    BY <1>6, <2>1 DEF Card, On, CardsInv
  <2>3. ui'.page = "inbox" /\ ui'.pending = c.tender
    BY <1>2, <1>6, <2>1, <2>2 DEF IsUi
  <2>4. Deciding(calls'[s], ui'.pending)
    BY <1>1, <1>2, <1>6, <2>3 DEF Deciding
  <2> QED
    BY <2>3, <2>4 DEF CardsInv
<1> QED
  BY <1>4, <1>5, <1>6 DEF Asked, Decided, Decisions

LEMMA CardsStep ==
    ASSUME Typed, Answering, CardsInv, [Next]_vars
    PROVE  CardsInv'
<1>0. IsUi(ui) /\ ui.pending \in Tenders \cup {None}
  BY DEF Typed, PageTyped, IsUi
<1>1. CASE UNCHANGED vars
  BY <1>1 DEF vars, CardsInv
<1>2. CASE Edits
  <2>1. Edited(ui') /\ UNCHANGED calls
    BY <1>2, EditsEdit DEF Same
  <2>2. ui'.page = ui.page /\ ui'.pending = ui.pending
        /\ (ui'.reject \in {None, ui.reject} \/ ui.page = "inbox")
    BY <2>1 DEF Edited, Card, On
  <2> QED
    BY <2>1, <2>2 DEF CardsInv
<1>3. CASE Asking
  BY <1>3, AskingAsks, AskedCards
<1>4. CASE QuietSteps
  <2>1. UNCHANGED calls /\ ui'.page = ui.page /\ ui'.pending = ui.pending /\ ui'.reject = ui.reject
    BY <1>0, <1>4, QuietAre DEF Quiet, IsUi
  <2> QED
    BY <2>1 DEF CardsInv
<1>5. ASSUME NEW s \in Slots, Served(s) \/ LoseCall(s) PROVE CardsInv'
  <2>1. PICK d : Changed(s, d)
    BY <1>5, ServedIs, LoseIs
  <2>2. /\ UNCHANGED ui /\ d \in CallRecord /\ d.op = calls[s].op /\ d.alive = calls[s].alive
        /\ d.tender = calls[s].tender \/ d.op \in {"run", "create"}
    BY <2>1 DEF Changed
  <2>3. calls'[s] = d /\ \A r \in Slots : r # s => calls'[r] = calls[r]
    BY <2>1, ChangedCalls
  <2>4. \A t \in Tenders : Deciding(calls[s], t) => Deciding(d, t)
    BY <2>2, CallAssumption DEF Deciding, Decisions
  <2>5. \A r \in Slots, t \in Tenders : Deciding(calls[r], t) => Deciding(calls'[r], t)
    BY <2>3, <2>4
  <2> QED
    BY <1>0, <2>2, <2>5, CardsKept
<1>6. ASSUME NEW s \in Slots, Deliver(s) PROVE CardsInv'
  <2>1. /\ ui'.page = ui.page /\ ui'.pending \in {None, ui.pending} /\ ui'.reject \in {None, ui.reject}
        /\ calls[s].alive /\ calls[s].op \in Decisions /\ ui.page = "inbox" => ui'.pending = None
    BY <1>6, DeliverIs, ClosedIs
  <2>2. \A r \in Slots : calls'[r] = IF r = s THEN None ELSE calls[r]
    BY <1>6, DeliverIs
  <2>3. ASSUME ui'.pending # None PROVE \E r \in Slots : Deciding(calls'[r], ui'.pending)
    <3>1. ui'.pending = ui.pending /\ ui.page = "inbox"
      BY <2>1, <2>3 DEF CardsInv
    <3>2. PICK r \in Slots : Deciding(calls[r], ui.pending)
      BY <2>3, <3>1 DEF CardsInv
    <3>3. r # s
      BY <2>1, <2>3, <3>1, <3>2 DEF Deciding
    <3> QED
      BY <2>2, <3>1, <3>2, <3>3
  <2> QED
    BY <2>1, <2>3 DEF CardsInv
<1>7. ASSUME NEW p \in Pages, NEW t \in Tenders \cup {None}, p = "detail" => t \in Tenders, Go(p, t) PROVE CardsInv'
  BY <1>7, GoIs DEF CardsInv
<1>8. ASSUME NEW t \in Tenders, Go("detail", t) PROVE CardsInv'
  BY <1>7, <1>8 DEF Pages
<1>9. ASSUME NEW p \in Pages \ {"detail"}, Go(p, None) PROVE CardsInv'
  BY <1>7, <1>9
<1> QED
  BY <1>1, <1>2, <1>3, <1>4, <1>5, <1>6, <1>8, <1>9, NextIs, Zenon DEF QuietSteps

(***************************************************************************)
(* What a query stores, and the drawer of proposals.                       *)
(***************************************************************************)
EndedLists(k) == IF k = "runs" /\ Ended(cache[k].val, cache[k].got) THEN Lists ELSE {}

LEMMA StoreIs ==
    ASSUME NEW k \in Keys, Store(k)
    PROVE  /\ cache[k].fetch = "answered" /\ ui' = Rendered(ui, k, cache[k].got)
           /\ told' = IF cache[k].got = Truth(k) THEN told \ {k} ELSE told \cup {k}
           /\ UNCHANGED <<row, runs, calls, latest, budget>>
           /\ cache' = [j \in Keys |-> cache'[j]] /\ cache'[k] = Stored(cache[k])
           /\ \A j \in Keys : j # k => cache'[j] = IF j \in EndedLists(k) THEN Invalidated(cache[j], Watched(j)) ELSE cache[j]
<1>1. /\ cache[k].fetch = "answered" /\ ui' = Rendered(ui, k, cache[k].got)
      /\ told' = IF cache[k].got = Truth(k) THEN told \ {k} ELSE told \cup {k}
      /\ UNCHANGED <<row, runs, calls, latest, budget>>
      /\ cache' = [Invalidate(EndedLists(k)) EXCEPT ![k] = Stored(cache[k])]
  BY Zenon DEF Store, EndedLists, Lists
<1> DEFINE I == Invalidate(EndedLists(k))
<1>2. \A j \in Keys : I[j] = IF j \in EndedLists(k) THEN Invalidated(cache[j], Watched(j)) ELSE cache[j]
  BY DEF Invalidate
<1>3. I = [j \in Keys |-> I[j]]
  BY DEF Invalidate
<1> HIDE DEF I
<1>4. cache' = [I EXCEPT ![k] = Stored(cache[k])]
  BY <1>1 DEF I
<1>5. cache' = [j \in Keys |-> cache'[j]] /\ cache'[k] = Stored(cache[k]) /\ \A j \in Keys : j # k => cache'[j] = I[j]
  BY <1>3, <1>4
<1> QED
  BY <1>1, <1>2, <1>5

LEMMA DraftStep ==
    ASSUME Typed, Answering, DraftInv, [Next]_vars
    PROVE  DraftInv'
<1>0. IsUi(ui) /\ "proposal" \in Ops
  BY DEF Typed, PageTyped, Ops, Asks
<1>1. CASE UNCHANGED vars
  BY <1>1 DEF vars, DraftInv, Pending
<1>2. CASE Edits
  <2>1. Edited(ui') /\ UNCHANGED <<calls, latest>>
    BY <1>2, EditsEdit DEF Same
  <2> QED
    BY <2>1 DEF Edited, DraftInv, Pending
<1>3. CASE Asking
  <2>1. PICK c \in CallRecord : Asked(c)
    BY <1>3, AskingAsks
  <2>2. PICK s \in Slots :
              /\ calls[s] = None /\ calls'[s] = c /\ latest'[c.op] = s
              /\ \A r \in Slots : r # s => calls'[r] = calls[r]
              /\ \A op \in Ops : op # c.op => latest'[op] = latest[op]
    BY <2>1, NewSlot DEF Asked
  <2>3. CASE c.op = "proposal"
    <3>1. ui' = [ui EXCEPT !.proposal = c.tender, !.draft = None]
      BY <2>1, <2>3 DEF Asked, Decisions
    <3>2. ui'.proposal = c.tender /\ ui'.draft = None
      BY <1>0, <3>1 DEF IsUi
    <3> QED
      BY <2>2, <2>3, <3>2 DEF DraftInv
  <2>4. CASE c.op # "proposal"
    <3>1. ui'.proposal = ui.proposal /\ ui'.draft = ui.draft
      BY <1>0, <2>1, <2>4 DEF Asked, Decided, IsUi
    <3>2. latest'["proposal"] = latest["proposal"]
      BY <1>0, <2>2, <2>4
    <3>3. Pending("proposal") => latest["proposal"] \in Slots /\ calls[latest["proposal"]] # None
      BY <1>0 DEF Typed, CallsTyped, Pending
    <3>4. Pending("proposal") => calls'[latest["proposal"]] = calls[latest["proposal"]]
      BY <2>2, <3>3
    <3> QED
      BY <3>1, <3>2, <3>4 DEF DraftInv, Pending
  <2> QED
    BY <2>3, <2>4
<1>4. CASE QuietSteps
  <2>1. UNCHANGED <<calls, latest>> /\ ui'.proposal = ui.proposal /\ ui'.draft = ui.draft
    BY <1>0, <1>4, QuietAre DEF Quiet, IsUi
  <2> QED
    BY <2>1 DEF DraftInv, Pending
<1>5. ASSUME NEW s \in Slots, Served(s) \/ LoseCall(s) PROVE DraftInv'
  <2>1. PICK d : Changed(s, d)
    BY <1>5, ServedIs, LoseIs
  <2>2. UNCHANGED <<latest, ui>> /\ d.op = calls[s].op /\ (d.tender = calls[s].tender \/ d.op \in {"run", "create"})
    BY <2>1 DEF Changed
  <2>3. Pending("proposal") => latest["proposal"] \in Slots /\ calls[latest["proposal"]].op = "proposal"
    BY <1>0 DEF Typed, CallsTyped, Pending
  <2>4. Pending("proposal") => calls'[latest["proposal"]].tender = calls[latest["proposal"]].tender
    BY <2>1, <2>2, <2>3, ChangedCalls
  <2> QED
    BY <2>2, <2>4 DEF DraftInv, Pending
<1>6. ASSUME NEW s \in Slots, Deliver(s) PROVE DraftInv'
  <2>1. ui'.proposal = ui.proposal
        /\ ui'.draft = IF latest["proposal"] = s /\ calls[s].st = "ok" THEN calls[s].tender ELSE ui.draft
    BY <1>6, DeliverIs, ClosedIs
  <2>2. /\ \A r \in Slots : calls'[r] = IF r = s THEN None ELSE calls[r]
        /\ latest'["proposal"] = IF latest["proposal"] = s THEN None ELSE latest["proposal"]
    BY <1>0, <1>6, DeliverIs
  <2>3. latest["proposal"] \in Slots \cup {None} /\ s # None
    BY <1>0, NoneAssumption DEF Typed, CallsTyped
  <2> QED
    BY <2>1, <2>2, <2>3 DEF DraftInv, Pending
<1>7. ASSUME NEW p \in Pages, NEW t \in Tenders \cup {None}, p = "detail" => t \in Tenders, Go(p, t) PROVE DraftInv'
  BY <1>7, GoIs DEF DraftInv
<1>8. "detail" \in Pages
  BY DEF Pages
<1>9. CASE Next
  <2>1. ASSUME NEW t \in Tenders, Go("detail", t) PROVE DraftInv'
    BY <1>7, <1>8, <2>1
  <2>2. ASSUME NEW p \in Pages \ {"detail"}, Go(p, None) PROVE DraftInv'
    BY <1>7, <2>2
  <2> QED
    BY <1>2, <1>3, <1>4, <1>5, <1>6, <1>9, <2>1, <2>2, NextIs, Zenon DEF QuietSteps
<1> QED
  BY <1>1, <1>9

(***************************************************************************)
(* The types hold.                                                         *)
(***************************************************************************)
LEMMA TruthOfRows ==
    ASSUME RowsTyped, NEW k \in Keys
    PROVE  Truth(k) \in Values(k) \cup {None}
<1>1. LastRun \in RunRecord
  <2>1. runs \in Seq(RunStatus)
    BY DEF RowsTyped
  <2>2. runs # <<>> => Len(runs) \in Nat /\ Last(runs) \in RunStatus
    BY <2>1 DEF Last
  <2> QED
    BY <2>2 DEF LastRun, NoRun, RunRecord
<1>2. row \in [Tenders -> Row \cup {None}]
  BY DEF RowsTyped
<1>3. Inbox \in SUBSET Tenders /\ Table \in [Tenders -> Row \cup {None}]
  BY <1>2 DEF Inbox, Table
<1> QED
  BY <1>1, <1>2, <1>3, KeysAre DEF Keys

LEMMA TruthTyped ==
    ASSUME Typed, NEW k \in Keys
    PROVE  Truth(k) \in Values(k) \cup {None}
BY TruthOfRows DEF Typed

LEMMA RowMade ==
    /\ \A st \in Status, found \in BOOLEAN :
          /\ NewRow(st, found) \in Row /\ NewRow(st, found).st = st /\ NewRow(st, found).found = found
          /\ ~NewRow(st, found).reviewed
    /\ \A r \in Row : \A c : c.op \in Writes /\ (c.op \in {"save", "status", "outcome"} => c.to \in Status) =>
          /\ Wrote(Effect(c, r)) \in Row
          /\ c.op = "score" => /\ Wrote(Effect(c, r)).st = r.st /\ Wrote(Effect(c, r)).found = r.found
                               /\ Wrote(Effect(c, r)).reviewed = r.reviewed
<1>1. \A st \in Status, found \in BOOLEAN :
          /\ NewRow(st, found) \in Row /\ NewRow(st, found).st = st /\ NewRow(st, found).found = found
          /\ ~NewRow(st, found).reviewed
  BY DEF NewRow, Row
<1>2. ASSUME NEW r \in Row, NEW c, c.op \in Writes, c.op \in {"save", "status", "outcome"} => c.to \in Status
      PROVE  /\ Wrote(Effect(c, r)) \in Row
             /\ c.op = "score" => /\ Wrote(Effect(c, r)).st = r.st /\ Wrote(Effect(c, r)).found = r.found
                                  /\ Wrote(Effect(c, r)).reviewed = r.reviewed
  <2> DEFINE e == Effect(c, r)
  <2>1. e \in Row /\ (c.op = "score" => e = r)
    <3>1. CASE c.op = "promote"
      BY <3>1 DEF Effect, Row, Status
    <3>2. CASE c.op = "review"
      BY <3>2 DEF Effect, Row
    <3>3. CASE c.op \in {"save", "status", "outcome"}
      BY <1>2, <3>3 DEF Effect, Row
    <3>4. CASE c.op = "score"
      BY <3>4 DEF Effect
    <3> QED
      BY <1>2, <3>1, <3>2, <3>3, <3>4 DEF Writes
  <2> HIDE DEF e
  <2>2. Wrote(e) \in Row /\ Wrote(e).st = e.st /\ Wrote(e).found = e.found /\ Wrote(e).reviewed = e.reviewed
    BY <2>1 DEF Wrote, Row
  <2> QED
    BY <2>1, <2>2 DEF e
<1> QED
  BY <1>1, <1>2

LEMMA StartTyped ==
    ASSUME RowsTyped, StartRun
    PROVE  /\ runs' \in Seq(RunStatus) /\ Len(runs') <= MaxRuns /\ Len(runs') = Len(runs) + 1
           /\ LastRun' = [id |-> Len(runs) + 1, st |-> "active"] /\ Len(runs) \in Nat
           /\ told' = told \cup (IF Seen(cache["runs"]) THEN Lists ELSE {})
<1>1. /\ Len(runs) < MaxRuns /\ runs' = Append(runs, "active")
      /\ told' = told \cup (IF Seen(cache["runs"]) THEN Lists ELSE {})
  BY Zenon DEF StartRun
<1>2. runs \in Seq(RunStatus) /\ "active" \in RunStatus /\ MaxRuns \in Nat
  BY BoundsAssumption DEF RowsTyped, RunStatus
<1> QED
  BY <1>1, <1>2 DEF LastRun, Last

LEMMA CacheKept ==
    ASSUME CacheTyped, cache' = [k \in Keys |-> cache'[k]], \A k \in Keys : cache'[k] \in Entry(Values(k))
    PROVE  CacheTyped'
BY DEF CacheTyped, Values

\* One entry is replaced.
LEMMA EntryReplaced ==
    ASSUME Typed, NEW k \in Keys, NEW e, cache' = [cache EXCEPT ![k] = e]
    PROVE  /\ cache'[k] = e /\ \A j \in Keys : j # k => cache'[j] = cache[j]
           /\ cache' = [j \in Keys |-> cache'[j]]
           /\ e \in Entry(Values(k)) => CacheTyped'
<1>1. cache = [j \in Keys |-> cache[j]] /\ \A j \in Keys : cache[j] \in Entry(Values(j))
  BY DEF Typed, CacheTyped
<1>2. /\ cache'[k] = e /\ \A j \in Keys : j # k => cache'[j] = cache[j]
      /\ cache' = [j \in Keys |-> cache'[j]]
  BY <1>1
<1> QED
  BY <1>1, <1>2, CacheKept DEF Typed

LEMMA InvalidateIs ==
    ASSUME Typed, NEW ks
    PROVE  /\ \A k \in Keys : Invalidate(ks)[k] = IF k \in ks THEN Invalidated(cache[k], Watched(k)) ELSE cache[k]
           /\ Invalidate(ks) = [k \in Keys |-> Invalidate(ks)[k]]
           /\ \A k \in Keys : Invalidate(ks)[k] \in Entry(Values(k))
<1>1. \A k \in Keys : Invalidate(ks)[k] = IF k \in ks THEN Invalidated(cache[k], Watched(k)) ELSE cache[k]
  BY DEF Invalidate
<1>2. Invalidate(ks) = [k \in Keys |-> Invalidate(ks)[k]]
  BY DEF Invalidate
<1>3. \A k \in Keys : Watched(k) \in BOOLEAN /\ cache[k] \in Entry(Values(k))
  BY DEF Watched, Typed, CacheTyped
<1>4. \A k \in Keys : Invalidated(cache[k], Watched(k)) \in Entry(Values(k))
  BY <1>3, EntryKept
<1> QED
  BY <1>1, <1>2, <1>3, <1>4

LEMMA RowsKept ==
    ASSUME RowsTyped, UNCHANGED <<row, runs>>,
           UNCHANGED budget \/ Spend("calls") \/ Spend("opens") \/ Spend("faults") \/ Spend("others")
    PROVE  RowsTyped'
BY BudgetKept DEF RowsTyped, IsBudget

LEMMA RowPut ==
    ASSUME RowsTyped, NEW t \in Tenders, NEW r \in Row \cup {None}, Put(t, r)
    PROVE  /\ row' \in [Tenders -> Row \cup {None}] /\ row'[t] = r
           /\ \A u \in Tenders : u # t => row'[u] = row[u]
BY DEF Put, RowsTyped

LEMMA UsedKept ==
    ASSUME RowsTyped, NEW t \in Tenders, budget' = [budget EXCEPT !.used = @ \cup {t}]
    PROVE  IsBudget(budget') /\ budget'.used = budget.used \cup {t}
BY DEF RowsTyped, IsBudget

LEMMA ElsewhereIs ==
    ASSUME RowsTyped, Elsewhere
    PROVE  /\ IsBudget(budget') /\ budget'.used = budget.used /\ UNCHANGED <<cache, calls, latest, ui>>
           /\ \/ UNCHANGED <<row, runs, told>>
              \/ StartRun /\ UNCHANGED row
              \/ /\ \E t \in Inbox : /\ Put(t, Wrote(Effect([op |-> "promote"], row[t])))
                                     /\ told' = told \cup {t, "inbox", "table"}
                 /\ UNCHANGED runs
<1>0. IsBudget(budget)
  BY DEF RowsTyped
<1>1. UNCHANGED <<cache, calls, latest, ui>>
  BY Zenon DEF Elsewhere
<1>2. \/ /\ budget.others > 0 /\ budget' = [budget EXCEPT !.others = @ - 1, !.starts = @ + 1]
         /\ UNCHANGED <<row, runs, told>>
      \/ /\ budget.starts > 0 /\ budget' = [budget EXCEPT !.starts = @ - 1]
         /\ StartRun /\ UNCHANGED row
      \/ /\ Spend("others")
         /\ \E t \in Inbox : /\ Put(t, Wrote(Effect([op |-> "promote"], row[t])))
                             /\ told' = told \cup {t, "inbox", "table"}
         /\ UNCHANGED runs
  BY Zenon DEF Elsewhere
<1>3. ASSUME budget.others > 0, budget' = [budget EXCEPT !.others = @ - 1, !.starts = @ + 1]
      PROVE  IsBudget(budget') /\ budget'.used = budget.used
  <2>1. PICK n \in Nat, m \in Nat : budget' = [budget EXCEPT !.others = n, !.starts = m]
    <3>1. budget.others - 1 \in Nat /\ budget.starts + 1 \in Nat
      BY <1>0, <1>3 DEF IsBudget
    <3> QED
      BY <1>3, <3>1
  <2> QED
    BY <1>0, <2>1 DEF IsBudget
<1>4. ASSUME budget.starts > 0, budget' = [budget EXCEPT !.starts = @ - 1]
      PROVE  IsBudget(budget') /\ budget'.used = budget.used
  BY <1>0, <1>4 DEF IsBudget
<1>5. ASSUME Spend("others") PROVE IsBudget(budget') /\ budget'.used = budget.used
  BY <1>0, <1>5, BudgetKept
<1>6. IsBudget(budget') /\ budget'.used = budget.used
  BY <1>2, <1>3, <1>4, <1>5
<1> QED
  BY <1>1, <1>2, <1>6, Zenon

LEMMA InboxIs ==
    ASSUME Typed, NEW t \in Inbox
    PROVE  t \in Tenders /\ row[t] \in Row /\ Wrote(Effect([op |-> "promote"], row[t])) \in Row
<1>1. t \in Tenders /\ row[t] \in Row
  BY DEF Inbox, Waiting, Typed, RowsTyped
<1> QED
  BY <1>1, RowMade DEF Writes

\* What a call makes of the rows and the runs.
LEMMA EffectedRows ==
    ASSUME Typed, NEW s \in Slots, NEW d \in CallRecord, Changed(s, d), Effected(calls[s], d)
    PROVE  RowsTyped'
<1> DEFINE c == calls[s]
<1>0. c \in CallRecord /\ Aimed(c) /\ Aimed(d) /\ d.op = c.op /\ RowsTyped
  BY CallIs DEF Changed, Typed
<1>1. CASE UNCHANGED <<row, runs, told>> /\ (UNCHANGED budget \/ Spend("faults"))
  BY <1>0, <1>1, RowsKept
<1>2. CASE c.op = "run" /\ StartRun /\ UNCHANGED <<row, budget>>
  BY <1>0, <1>2, StartTyped DEF RowsTyped, IsBudget
<1>3. CASE /\ c.op = "create" /\ d.st = "ok" /\ Fresh(d.tender) /\ Put(d.tender, NewRow(c.to, FALSE))
           /\ budget' = [budget EXCEPT !.used = @ \cup {d.tender}] /\ UNCHANGED <<runs, told>>
  <2>1. c.to \in Status /\ d.tender \in Tenders
    BY <1>0, <1>3 DEF Aimed
  <2>2. NewRow(c.to, FALSE) \in Row
    BY <2>1, RowMade
  <2>3. row' \in [Tenders -> Row \cup {None}]
    BY <1>0, <1>3, <2>1, <2>2, RowPut
  <2>4. IsBudget(budget')
    BY <1>0, <1>3, <2>1, UsedKept
  <2> QED
    BY <1>0, <1>3, <2>3, <2>4 DEF RowsTyped, IsBudget
<1>4. CASE /\ c.op = "delete" /\ d.st = "ok" /\ Put(c.tender, None) /\ row[c.tender] # None
           /\ told' = told \cup {"inbox"} /\ UNCHANGED <<runs, budget>>
  <2>1. c.tender \in Tenders
    BY <1>0, <1>4 DEF Aimed
  <2>2. row' \in [Tenders -> Row \cup {None}]
    BY <1>0, <1>4, <2>1, RowPut
  <2> QED
    BY <1>0, <1>4, <2>2 DEF RowsTyped, IsBudget
<1>5. CASE /\ c.op \in Writes /\ d.st = "ok" /\ row[c.tender] # None
           /\ Put(c.tender, Wrote(Effect(c, row[c.tender])))
           /\ told' = told \cup Untold(c) /\ UNCHANGED <<runs, budget>>
  <2>1. c.tender \in Tenders /\ (c.op \in {"save", "status", "outcome"} => c.to \in Status)
    BY <1>0, <1>5 DEF Aimed, Writes
  <2>2. row[c.tender] \in Row
    BY <1>0, <1>5, <2>1 DEF RowsTyped
  <2>3. Wrote(Effect(c, row[c.tender])) \in Row
    BY <1>5, <2>1, <2>2, RowMade
  <2>4. row' \in [Tenders -> Row \cup {None}]
    BY <1>0, <1>5, <2>1, <2>3, RowPut
  <2> QED
    BY <1>0, <1>5, <2>4 DEF RowsTyped, IsBudget
<1> QED
  BY <1>1, <1>2, <1>3, <1>4, <1>5, Zenon DEF Effected

LEMMA RunUpdated ==
    ASSUME NEW S, NEW q \in Seq(S), NEW i \in DOMAIN q, NEW x \in S
    PROVE  [q EXCEPT ![i] = x] \in Seq(S) /\ Len([q EXCEPT ![i] = x]) = Len(q)
OBVIOUS

LEMMA FinishIs ==
    ASSUME Typed, NEW i, Finish(i)
    PROVE  /\ runs' \in Seq(RunStatus) /\ Len(runs') = Len(runs)
           /\ UNCHANGED <<row, cache, calls, latest, ui, budget, told>>
<1>1. PICK st \in {"success", "failed"} : runs' = [runs EXCEPT ![i] = st]
  BY Zenon DEF Finish
<1>2. i \in DOMAIN runs /\ UNCHANGED <<row, cache, calls, latest, ui, budget, told>>
  BY Zenon DEF Finish
<1>3. st \in RunStatus /\ runs \in Seq(RunStatus)
  BY DEF RunStatus, Typed, RowsTyped
<1> QED
  BY <1>1, <1>2, <1>3, RunUpdated

LEMMA RowsStep ==
    ASSUME Typed, Answering, [Next]_vars
    PROVE  RowsTyped'
<1>0. RowsTyped
  BY DEF Typed
<1>1. CASE UNCHANGED vars
  BY <1>0, <1>1, RowsKept DEF vars
<1>2. CASE Edits
  BY <1>0, <1>2, EditsEdit, RowsKept DEF Same
<1>3. CASE Asking
  <2>1. PICK c \in CallRecord : Asked(c)
    BY <1>3, AskingAsks
  <2>2. UNCHANGED <<row, runs>> /\ Spend("calls")
    BY <2>1 DEF Asked, Send
  <2> QED
    BY <1>0, <2>2, RowsKept
<1>4. CASE Poll \/ \E k \in Keys : Serve(k) \/ Store(k) \/ LoadFails(k)
  <2>1. UNCHANGED <<row, runs>> /\ (UNCHANGED budget \/ Spend("faults"))
    BY <1>4, Zenon DEF Poll, Serve, Store, LoadFails
  <2> QED
    BY <1>0, <2>1, RowsKept
<1>5. ASSUME NEW s \in Slots, Served(s) PROVE RowsTyped'
  BY <1>5, ServedIs, EffectedRows
<1>6. ASSUME NEW s \in Slots, LoseCall(s) \/ Deliver(s) PROVE RowsTyped'
  <2>1. UNCHANGED <<row, runs>> /\ (UNCHANGED budget \/ Spend("faults"))
    BY <1>6, LoseIs, DeliverIs
  <2> QED
    BY <1>0, <2>1, RowsKept
<1>7. ASSUME NEW t \in Tenders, Find(t) PROVE RowsTyped'
  <2>1. /\ Put(t, NewRow("IDENTIFIED", TRUE)) /\ budget' = [budget EXCEPT !.used = @ \cup {t}]
        /\ UNCHANGED runs
    BY <1>7, Zenon DEF Find
  <2>2. NewRow("IDENTIFIED", TRUE) \in Row
    BY RowMade DEF Status
  <2>3. row' \in [Tenders -> Row \cup {None}] /\ IsBudget(budget')
    BY <1>0, <2>1, <2>2, RowPut, UsedKept
  <2> QED
    BY <1>0, <2>1, <2>3 DEF RowsTyped, IsBudget
<1>8. ASSUME NEW i \in 1 .. MaxRuns, Finish(i) PROVE RowsTyped'
  BY <1>0, <1>8, FinishIs DEF RowsTyped, IsBudget
<1>9. CASE Elsewhere
  <2>1. IsBudget(budget')
    BY <1>0, <1>9, ElsewhereIs
  <2>4. CASE UNCHANGED <<row, runs, told>>
    BY <1>0, <2>1, <2>4 DEF RowsTyped, IsBudget
  <2>2. CASE StartRun /\ UNCHANGED row
    BY <1>0, <2>1, <2>2, StartTyped DEF RowsTyped, IsBudget
  <2>3. ASSUME NEW t \in Inbox, Put(t, Wrote(Effect([op |-> "promote"], row[t]))), UNCHANGED runs
        PROVE  RowsTyped'
    <3>1. row' \in [Tenders -> Row \cup {None}]
      BY <1>0, <2>3, InboxIs, RowPut
    <3> QED
      BY <1>0, <2>1, <2>3, <3>1 DEF RowsTyped, IsBudget
  <2> QED
    BY <1>0, <1>9, <2>2, <2>3, <2>4, ElsewhereIs
<1>10. ASSUME NEW p \in Pages, NEW t \in Tenders \cup {None}, p = "detail" => t \in Tenders, Go(p, t) PROVE RowsTyped'
  BY <1>0, <1>10, GoIs, RowsKept
<1>11. ASSUME NEW t \in Tenders, Go("detail", t) PROVE RowsTyped'
  BY <1>10, <1>11 DEF Pages
<1>12. ASSUME NEW p \in Pages \ {"detail"}, Go(p, None) PROVE RowsTyped'
  BY <1>10, <1>12
<1> QED
  BY <1>1, <1>2, <1>3, <1>4, <1>5, <1>6, <1>7, <1>8, <1>9, <1>11, <1>12, NextIs, Zenon

LEMMA CacheStep ==
    ASSUME Typed, Answering, [Next]_vars
    PROVE  CacheTyped'
<1>0. CacheTyped /\ \A k \in Keys : cache[k] \in Entry(Values(k))
  BY DEF Typed, CacheTyped
<1>1. CASE UNCHANGED cache
  BY <1>0, <1>1, CacheKept DEF CacheTyped
<1>2. CASE Poll
  <2>1. cache' = [cache EXCEPT !["runs"] = Refetched(cache["runs"])] /\ "runs" \in Keys
    BY <1>2 DEF Poll, Keys
  <2>2. Refetched(cache["runs"]) \in Entry(Values("runs"))
    BY <1>0, <2>1, EntryKept
  <2> QED
    BY <2>1, <2>2, EntryReplaced
<1>3. ASSUME NEW k \in Keys, Serve(k) PROVE CacheTyped'
  <2>1. cache' = [cache EXCEPT ![k] = Answered(cache[k], Truth(k))] /\ Truth(k) # None
    BY <1>3 DEF Serve
  <2>2. Answered(cache[k], Truth(k)) \in Entry(Values(k))
    BY <1>0, <2>1, TruthTyped, EntryAnswered
  <2> QED
    BY <2>1, <2>2, EntryReplaced
<1>4. ASSUME NEW k \in Keys, LoadFails(k) PROVE CacheTyped'
  <2>1. cache' = [cache EXCEPT ![k] = Cancelled(cache[k])]
    BY <1>4 DEF LoadFails
  <2>2. Cancelled(cache[k]) \in Entry(Values(k))
    BY <1>0, EntryKept
  <2> QED
    BY <2>1, <2>2, EntryReplaced
<1>5. ASSUME NEW k \in Keys, Store(k) PROVE CacheTyped'
  <2>1. /\ cache' = [j \in Keys |-> cache'[j]] /\ cache'[k] = Stored(cache[k]) /\ cache[k].fetch = "answered"
        /\ \A j \in Keys : j # k => cache'[j] = IF j \in EndedLists(k) THEN Invalidated(cache[j], Watched(j)) ELSE cache[j]
    BY <1>5, StoreIs
  <2>2. Stored(cache[k]) \in Entry(Values(k))
    BY <1>0, <2>1, GotIs, EntryAnswered DEF Answering
  <2>3. \A j \in Keys : Invalidated(cache[j], Watched(j)) \in Entry(Values(j))
    <3>1. \A j \in Keys : Watched(j) \in BOOLEAN
      BY DEF Watched
    <3> QED
      BY <1>0, <3>1, EntryKept
  <2>4. \A j \in Keys : cache'[j] \in Entry(Values(j))
    BY <1>0, <2>1, <2>2, <2>3
  <2> QED
    BY <1>0, <2>1, <2>4, CacheKept
<1>6. ASSUME NEW s \in Slots, Deliver(s) PROVE CacheTyped'
  <2>1. cache' = cache \/ cache' = Invalidate(Invalidates(calls[s]))
    BY <1>6, DeliverIs
  <2>2. CASE cache' = Invalidate(Invalidates(calls[s]))
    BY <1>0, <2>2, InvalidateIs, CacheKept
  <2> QED
    BY <1>1, <2>1, <2>2
<1>7. ASSUME NEW p \in Pages, NEW t \in Tenders \cup {None}, p = "detail" => t \in Tenders, Go(p, t) PROVE CacheTyped'
  <2>1. cache' = [k \in Keys |-> cache'[k]]
        /\ \E old \in BOOLEAN : \A k \in Keys : cache'[k] \in {cache[k], Opened(cache[k], old)}
    BY <1>7, GoIs
  <2>2. \A k \in Keys : \A old \in BOOLEAN : Opened(cache[k], old) \in Entry(Values(k))
    BY <1>0, EntryKept
  <2>3. \A k \in Keys : cache'[k] \in Entry(Values(k))
    BY <1>0, <2>1, <2>2
  <2> QED
    BY <1>0, <2>1, <2>3, CacheKept
<1>8. CASE Edits
  BY <1>1, <1>8, EditsEdit DEF Same
<1>9. CASE Asking
  BY <1>1, <1>9, AskingAsks DEF Asked, Send
<1>10. ASSUME NEW s \in Slots, Served(s) \/ LoseCall(s) PROVE CacheTyped'
  BY <1>1, <1>10, Zenon DEF Served, Carry, Insert, LoseCall
<1>11. CASE Elsewhere \/ (\E t \in Tenders : Find(t)) \/ \E i \in 1 .. MaxRuns : Finish(i)
  BY <1>1, <1>11, Zenon DEF Elsewhere, Find, Finish
<1>12. ASSUME NEW t \in Tenders, Go("detail", t) PROVE CacheTyped'
  BY <1>7, <1>12 DEF Pages
<1>13. ASSUME NEW p \in Pages \ {"detail"}, Go(p, None) PROVE CacheTyped'
  BY <1>7, <1>13
<1>14. CASE UNCHANGED vars
  BY <1>1, <1>14 DEF vars
<1> QED
  BY <1>2, <1>3, <1>4, <1>5, <1>6, <1>8, <1>9, <1>10, <1>11, <1>12, <1>13, <1>14, NextIs, Zenon

LEMMA CallsKept ==
    ASSUME CallsTyped, UNCHANGED <<calls, latest>>
    PROVE  CallsTyped'
BY DEF CallsTyped, Pending, Aimed

LEMMA CallsStep ==
    ASSUME Typed, Answering, [Next]_vars
    PROVE  CallsTyped'
<1>0. /\ CallsTyped /\ calls \in [Slots -> CallRecord \cup {None}] /\ latest \in [Ops -> Slots \cup {None}]
      /\ \A s \in Slots : calls[s] # None => Aimed(calls[s])
      /\ \A op \in Ops : latest[op] # None => calls[latest[op]] # None /\ calls[latest[op]].op = op
  BY DEF Typed, CallsTyped, Pending
<1>1. CASE UNCHANGED <<calls, latest>>
  BY <1>0, <1>1, CallsKept
<1>2. CASE Edits
  BY <1>1, <1>2, EditsEdit DEF Same
<1>3. CASE QuietSteps
  BY <1>1, <1>3, QuietAre DEF Quiet
<1>4. CASE Asking
  <2>1. PICK c \in CallRecord : Asked(c)
    BY <1>4, AskingAsks
  <2>2. PICK s \in Slots :
              /\ calls[s] = None /\ calls' = [calls EXCEPT ![s] = c] /\ calls'[s] = c
              /\ latest' = [latest EXCEPT ![c.op] = s] /\ latest'[c.op] = s
              /\ \A r \in Slots : r # s => calls'[r] = calls[r]
              /\ \A op \in Ops : op # c.op => latest'[op] = latest[op]
    BY <2>1, NewSlot DEF Asked
  <2>3. calls' \in [Slots -> CallRecord \cup {None}] /\ latest' \in [Ops -> Slots \cup {None}]
    BY <1>0, <2>2
  <2>4. \A r \in Slots : calls'[r] # None => Aimed(calls'[r])
    BY <1>0, <2>1, <2>2 DEF Asked
  <2>5. ASSUME NEW op \in Ops, latest'[op] # None PROVE calls'[latest'[op]] # None /\ calls'[latest'[op]].op = op
    <3>1. CASE op = c.op
      BY <2>2, <3>1, CallAssumption
    <3>2. CASE op # c.op
      <4>1. latest'[op] = latest[op] /\ latest[op] \in Slots
        BY <1>0, <2>2, <2>5, <3>2
      <4>2. latest[op] # s
        BY <1>0, <2>2, <2>5, <4>1
      <4> QED
        BY <1>0, <2>2, <2>5, <4>1, <4>2
    <3> QED
      BY <3>1, <3>2
  <2> QED
    BY <2>3, <2>4, <2>5 DEF CallsTyped, Pending, Aimed
<1>5. ASSUME NEW s \in Slots, Served(s) \/ LoseCall(s) PROVE CallsTyped'
  <2>1. PICK d : Changed(s, d)
    BY <1>5, ServedIs, LoseIs
  <2>2. d \in CallRecord /\ Aimed(d) /\ d.op = calls[s].op /\ UNCHANGED latest
    BY <2>1 DEF Changed
  <2>3. calls'[s] = d /\ (\A r \in Slots : r # s => calls'[r] = calls[r]) /\ calls' \in [Slots -> CallRecord \cup {None}]
    BY <2>1, ChangedCalls
  <2>4. \A r \in Slots : calls'[r] # None => Aimed(calls'[r])
    BY <1>0, <2>2, <2>3
  <2>5. ASSUME NEW op \in Ops, latest'[op] # None PROVE calls'[latest'[op]] # None /\ calls'[latest'[op]].op = op
    <3>1. latest'[op] = latest[op] /\ latest[op] \in Slots
      BY <1>0, <2>2, <2>5
    <3> QED
      BY <1>0, <2>2, <2>3, <2>5, <3>1, CallAssumption
  <2> QED
    BY <1>0, <2>2, <2>3, <2>4, <2>5 DEF CallsTyped, Pending, Aimed
<1>6. ASSUME NEW s \in Slots, Deliver(s) PROVE CallsTyped'
  <2>1. /\ calls' \in [Slots -> CallRecord \cup {None}] /\ latest' \in [Ops -> Slots \cup {None}]
        /\ \A r \in Slots : calls'[r] = IF r = s THEN None ELSE calls[r]
        /\ \A op \in Ops : latest'[op] = IF latest[op] = s THEN None ELSE latest[op]
    BY <1>6, DeliverIs
  <2>2. \A r \in Slots : calls'[r] # None => Aimed(calls'[r])
    BY <1>0, <2>1
  <2>3. \A op \in Ops : latest'[op] # None => calls'[latest'[op]] # None /\ calls'[latest'[op]].op = op
    BY <1>0, <2>1
  <2> QED
    BY <2>1, <2>2, <2>3 DEF CallsTyped, Pending, Aimed
<1>7. ASSUME NEW p \in Pages, NEW t \in Tenders \cup {None}, p = "detail" => t \in Tenders, Go(p, t) PROVE CallsTyped'
  <2>1. /\ calls' \in [Slots -> CallRecord \cup {None}] /\ latest' \in [Ops -> Slots \cup {None}]
        /\ \A s \in Slots : calls[s] = None => calls'[s] = None
        /\ \A s \in Slots : calls[s] # None =>
              /\ calls'[s] # None /\ calls'[s].op = calls[s].op /\ calls'[s].tender = calls[s].tender
              /\ calls'[s].to = calls[s].to /\ calls'[s].st = calls[s].st
        /\ \A op \in Ops : latest'[op] \in {None, latest[op]}
    BY <1>7, GoIs
  <2>2. \A r \in Slots : calls'[r] # None => Aimed(calls'[r])
    BY <1>0, <2>1 DEF Aimed
  <2>3. \A op \in Ops : latest'[op] # None => calls'[latest'[op]] # None /\ calls'[latest'[op]].op = op
    BY <1>0, <2>1
  <2> QED
    BY <2>1, <2>2, <2>3 DEF CallsTyped, Pending, Aimed
<1>8. ASSUME NEW t \in Tenders, Go("detail", t) PROVE CallsTyped'
  BY <1>7, <1>8 DEF Pages
<1>9. ASSUME NEW p \in Pages \ {"detail"}, Go(p, None) PROVE CallsTyped'
  BY <1>7, <1>9
<1>10. CASE UNCHANGED vars
  BY <1>1, <1>10 DEF vars
<1> QED
  BY <1>2, <1>3, <1>4, <1>5, <1>6, <1>8, <1>9, <1>10, NextIs, Zenon DEF QuietSteps

LEMMA PageKept ==
    ASSUME PageTyped, IsUi(ui'), (ui'.page = "detail" \/ ui'.outcome => ui'.open \in Tenders),
           told' \subseteq Keys
    PROVE  PageTyped'
BY DEF PageTyped, IsUi

LEMMA KeysHold == {"runs", "inbox", "table"} \cup Tenders \subseteq Keys /\ Lists \subseteq Keys
BY DEF Keys, Lists

LEMMA EffectedTold ==
    ASSUME Typed, NEW c, NEW d, Effected(c, d)
    PROVE  told \subseteq told' /\ told' \subseteq Keys
<1>1. told \subseteq Keys /\ RowsTyped
  BY DEF Typed, PageTyped
<1>2. CASE UNCHANGED told
  BY <1>1, <1>2
<1>3. CASE StartRun
  BY <1>1, <1>3, StartTyped, KeysHold
<1>4. CASE told' = told \cup {"inbox"}
  BY <1>1, <1>4, KeysHold
<1>5. CASE told' = told \cup Untold(c)
  BY <1>1, <1>5, KeysHold DEF Untold
<1> QED
  BY <1>2, <1>3, <1>4, <1>5, Zenon DEF Effected

LEMMA PageStep ==
    ASSUME Typed, Answering, [Next]_vars
    PROVE  PageTyped'
<1>0. /\ PageTyped /\ IsUi(ui) /\ told \subseteq Keys /\ RowsTyped
      /\ (ui.page = "detail" \/ ui.outcome => ui.open \in Tenders)
  BY DEF Typed, PageTyped
<1>1. ASSUME UNCHANGED ui, told' \subseteq Keys PROVE PageTyped'
  BY <1>0, <1>1, PageKept
<1>2. CASE Edits
  <2>1. Edited(ui') /\ UNCHANGED told
    BY <1>2, EditsEdit DEF Same
  <2>2. ui'.page = "detail" \/ ui'.outcome => ui'.open \in Tenders
    BY <1>0, <2>1 DEF Edited
  <2> QED
    BY <1>0, <2>1, <2>2, PageKept DEF Edited
<1>3. CASE Asking
  <2>1. PICK c \in CallRecord : Asked(c)
    BY <1>3, AskingAsks
  <2>2. told' = told
    BY <2>1 DEF Asked, Send
  <2>3. c.tender \in Tenders \cup {None}
    BY DEF CallRecord
  <2>4. IsUi(ui') /\ ui'.page = ui.page /\ ui'.open = ui.open /\ ui'.outcome = ui.outcome
    <3>1. CASE UNCHANGED ui
      BY <1>0, <3>1
    <3>2. CASE ui' = [ui EXCEPT !.proposal = c.tender, !.draft = None]
      BY <1>0, <2>3, <3>2 DEF IsUi
    <3>3. CASE ui' = [ui EXCEPT !.pending = c.tender]
      BY <1>0, <2>3, <3>3 DEF IsUi
    <3> QED
      BY <2>1, <3>1, <3>2, <3>3 DEF Asked, Decided
  <2> QED
    BY <1>0, <2>2, <2>4, PageKept
<1>4. CASE QuietSteps
  <2>1. Quiet /\ IsUi(ui')
    BY <1>4, QuietAre
  <2>2. ui'.page = ui.page /\ ui'.open = ui.open /\ ui'.outcome = ui.outcome
    BY <1>0, <2>1 DEF Quiet, IsUi
  <2>3. told' \subseteq Keys
    <3>1. CASE Poll
      BY <1>0, <3>1, Zenon DEF Poll
    <3>2. ASSUME NEW k \in Keys, Serve(k) \/ Store(k) \/ LoadFails(k) PROVE told' \subseteq Keys
      <4>1. told' \in {told, told \ {k}, told \cup {k}}
        BY <3>2, StoreIs DEF Serve, LoadFails
      <4> QED
        BY <1>0, <4>1
    <3>3. ASSUME NEW t \in Tenders, Find(t) PROVE told' \subseteq Keys
      <4>1. told' = told \cup Missed({"inbox"})
        BY <3>3, Zenon DEF Find
      <4> QED
        BY <1>0, <4>1, KeysHold DEF Missed
    <3>4. ASSUME NEW i \in 1 .. MaxRuns, Finish(i) PROVE told' \subseteq Keys
      BY <1>0, <3>4, FinishIs
    <3>5. CASE Elsewhere
      BY <1>0, <3>5, ElsewhereIs, StartTyped, InboxIs, KeysHold
    <3> QED
      BY <1>4, <3>1, <3>2, <3>3, <3>4, <3>5, Zenon DEF QuietSteps
  <2> QED
    BY <1>0, <2>1, <2>2, <2>3, PageKept
<1>5. ASSUME NEW s \in Slots, Served(s) PROVE PageTyped'
  <2>1. PICK d \in CallRecord : Changed(s, d) /\ Effected(calls[s], d)
    BY <1>5, ServedIs
  <2>2. UNCHANGED ui /\ told' \subseteq Keys
    BY <2>1, EffectedTold DEF Changed
  <2> QED
    BY <1>1, <2>2
<1>6. ASSUME NEW s \in Slots, LoseCall(s) PROVE PageTyped'
  <2>1. PICK d \in CallRecord : Changed(s, d)
    BY <1>6, LoseIs
  <2>2. UNCHANGED ui /\ calls[s] # None
    BY <2>1 DEF Changed
  <2>3. calls[s].tender \in Tenders \cup {None}
    BY <2>2, CallIs DEF CallRecord
  <2>4. told' = IF calls[s].st = "ok" THEN told \cup Lists \cup ({calls[s].tender} \ {None}) ELSE told
    BY <1>6, LoseIs
  <2>5. told' \subseteq Keys
    BY <1>0, <2>3, <2>4, KeysHold
  <2> QED
    BY <1>1, <2>2, <2>5
<1>7. ASSUME NEW s \in Slots, Deliver(s) PROVE PageTyped'
  <2>1. IsUi(ui') /\ ui'.page = ui.page /\ ui'.open = ui.open /\ (ui'.outcome => ui.outcome)
    BY <1>7, DeliverIs, ClosedIs
  <2>2. told' = told
    BY <1>7, DeliverIs
  <2> QED
    BY <1>0, <2>1, <2>2, PageKept
<1>8. ASSUME NEW p \in Pages, NEW t \in Tenders \cup {None}, p = "detail" => t \in Tenders, Go(p, t) PROVE PageTyped'
  <2>1. told' = told /\ IsUi(ui') /\ ui'.page = p /\ ui'.open = t /\ ui'.outcome = FALSE
    BY <1>8, GoIs
  <2> QED
    BY <1>0, <1>8, <2>1, PageKept
<1>9. ASSUME NEW t \in Tenders, Go("detail", t) PROVE PageTyped'
  BY <1>8, <1>9 DEF Pages
<1>10. ASSUME NEW p \in Pages \ {"detail"}, Go(p, None) PROVE PageTyped'
  BY <1>8, <1>10
<1>11. CASE UNCHANGED vars
  BY <1>0, <1>1, <1>11 DEF vars
<1> QED
  BY <1>2, <1>3, <1>4, <1>5, <1>6, <1>7, <1>9, <1>10, <1>11, NextIs, Zenon DEF QuietSteps

LEMMA TypesStep ==
    ASSUME Typed, Answering, [Next]_vars
    PROVE  Typed'
BY RowsStep, CacheStep, CallsStep, PageStep DEF Typed

(***************************************************************************)
(* What the pages hold.                                                    *)
(***************************************************************************)
\* An entry keeps its value, and the answer that it waits for; it keeps its mark,
\* and its fetch goes on.
Kept(k) ==
    /\ cache'[k].val = cache[k].val
    /\ cache'[k].fetch = "answered" => cache[k].fetch = "answered" /\ cache'[k].got = cache[k].got
Firm(k) ==
    Kept(k) /\ (cache[k].stale => cache'[k].stale) /\ (cache[k].fetch # "idle" => cache'[k].fetch # "idle")

LEMMA FirmIs ==
    ASSUME Typed, NEW k \in Keys, NEW old \in BOOLEAN, NEW watched \in BOOLEAN,
           cache'[k] \in {cache[k], Refetched(cache[k]), Opened(cache[k], old), Invalidated(cache[k], watched)}
    PROVE  Firm(k)
<1>1. cache[k] \in Entry(Values(k))
  BY DEF Typed, CacheTyped
<1>2. /\ cache'[k].val = cache[k].val
      /\ cache'[k].fetch = "answered" => cache[k].fetch = "answered" /\ cache'[k].got = cache[k].got
      /\ cache[k].stale => cache'[k].stale
      /\ cache[k].fetch # "idle" => cache'[k].fetch # "idle"
  BY <1>1, EntryFirm
<1> QED
  BY <1>2 DEF Firm, Kept

\* What the steps of a query do to the cache.
LEMMA PollIs ==
    ASSUME Typed, Poll, NEW k \in Keys
    PROVE  Firm(k)
<1>1. cache' = [cache EXCEPT !["runs"] = Refetched(cache["runs"])] /\ "runs" \in Keys
  BY DEF Poll, Keys
<1>2. cache'[k] \in {cache[k], Refetched(cache[k])}
  BY <1>1, EntryReplaced
<1> QED
  BY <1>2, FirmIs

LEMMA ServeIs ==
    ASSUME Typed, NEW k \in Keys, Serve(k)
    PROVE  /\ cache'[k].val = cache[k].val /\ cache'[k].fetch = "answered" /\ cache'[k].got = Truth(k)
           /\ Truth(k) # None /\ \A j \in Keys : j # k => Firm(j)
           /\ UNCHANGED <<row, runs, calls, latest, ui, budget, told>>
<1>1. /\ cache' = [cache EXCEPT ![k] = Answered(cache[k], Truth(k))] /\ Truth(k) # None
      /\ UNCHANGED <<row, runs, calls, latest, ui, budget, told>>
  BY DEF Serve
<1>2. cache'[k] = Answered(cache[k], Truth(k)) /\ \A j \in Keys : j # k => cache'[j] = cache[j]
  BY <1>1, EntryReplaced
<1>3. cache[k] \in Entry(Values(k)) /\ Truth(k) \in Values(k)
  BY <1>1, TruthTyped DEF Typed, CacheTyped
<1>4. \A j \in Keys : j # k => Firm(j)
  BY <1>2, FirmIs
<1>5. cache'[k].val = cache[k].val /\ cache'[k].fetch = "answered" /\ cache'[k].got = Truth(k)
  BY <1>2 DEF Answered
<1> QED
  BY <1>1, <1>4, <1>5

LEMMA LoadFailsIs ==
    ASSUME Typed, NEW k \in Keys, LoadFails(k)
    PROVE  /\ Kept(k) /\ \A j \in Keys : j # k => Firm(j)
           /\ told' = told \cup {k} /\ budget'.used = budget.used
           /\ UNCHANGED <<row, runs, calls, latest, ui>>
<1>1. /\ cache' = [cache EXCEPT ![k] = Cancelled(cache[k])] /\ told' = told \cup {k}
      /\ UNCHANGED budget \/ Spend("faults")
      /\ UNCHANGED <<row, runs, calls, latest, ui>>
  BY DEF LoadFails
<1>2. cache'[k] = Cancelled(cache[k]) /\ \A j \in Keys : j # k => cache'[j] = cache[j]
  BY <1>1, EntryReplaced
<1>3. cache[k] \in Entry(Values(k)) /\ IsBudget(budget)
  BY DEF Typed, CacheTyped, RowsTyped
<1>4. Kept(k)
  BY <1>2, <1>3, EntryCancelled DEF Kept
<1>5. \A j \in Keys : j # k => Firm(j)
  BY <1>2, FirmIs
<1>6. budget'.used = budget.used
  BY <1>1, <1>3, BudgetKept
<1> QED
  BY <1>1, <1>4, <1>5, <1>6

LEMMA StoredIs ==
    ASSUME Typed, NEW k \in Keys, Store(k)
    PROVE  /\ cache'[k].val = cache[k].got /\ cache'[k].fetch = "idle" /\ cache[k].fetch = "answered"
           /\ \A j \in Keys : j # k => Firm(j)
           /\ \A j \in EndedLists(k) : cache'[j].stale
<1>1. /\ cache'[k] = Stored(cache[k]) /\ cache[k].fetch = "answered"
      /\ \A j \in Keys : j # k => cache'[j] = IF j \in EndedLists(k) THEN Invalidated(cache[j], Watched(j)) ELSE cache[j]
  BY StoreIs
<1>2. cache'[k].val = cache[k].got /\ cache'[k].fetch = "idle"
  BY <1>1 DEF Stored, Loaded, NoEntry
<1>3. \A j \in Keys : Watched(j) \in BOOLEAN /\ cache[j] \in Entry(Values(j))
  BY DEF Watched, Typed, CacheTyped
<1>4. \A j \in Keys : j # k => Firm(j)
  BY <1>1, <1>3, FirmIs
<1>5. \A j \in EndedLists(k) : j \in Keys /\ j # k
  BY KeysHold DEF EndedLists, Lists
<1>6. \A j \in EndedLists(k) : cache'[j].stale
  BY <1>1, <1>3, <1>5, EntryMarked
<1> QED
  BY <1>1, <1>2, <1>4, <1>6

LEMMA DeliveredCache ==
    ASSUME Typed, NEW s \in Slots, Deliver(s), NEW k \in Keys
    PROVE  Firm(k) /\ (Covers(calls[s], k) => cache'[k].stale)
<1>1. cache' = IF calls[s].st = "ok" THEN Invalidate(Invalidates(calls[s])) ELSE cache
  BY DeliverIs
<1>2. Watched(k) \in BOOLEAN /\ cache[k] \in Entry(Values(k))
  BY DEF Watched, Typed, CacheTyped
<1>3. CASE calls[s].st = "ok"
  <2>1. cache'[k] = IF k \in Invalidates(calls[s]) THEN Invalidated(cache[k], Watched(k)) ELSE cache[k]
    BY <1>1, <1>3, InvalidateIs
  <2>2. Covers(calls[s], k) => cache'[k].stale
    BY <1>2, <2>1, EntryMarked DEF Covers
  <2> QED
    BY <1>2, <2>1, <2>2, FirmIs
<1>4. CASE calls[s].st # "ok"
  BY <1>1, <1>4, FirmIs DEF Covers
<1> QED
  BY <1>3, <1>4

LEMMA CacheMoves ==
    ASSUME Typed, [Next]_vars, NEW k \in Keys
    PROVE  Firm(k) \/ Serve(k) \/ Store(k) \/ LoadFails(k)
<1>1. CASE UNCHANGED cache
  BY <1>1, FirmIs
<1>2. CASE Poll
  BY <1>2, PollIs
<1>3. ASSUME NEW j \in Keys, Serve(j) \/ Store(j) \/ LoadFails(j) PROVE Firm(k) \/ Serve(k) \/ Store(k) \/ LoadFails(k)
  BY <1>3, ServeIs, StoredIs, LoadFailsIs
<1>4. ASSUME NEW s \in Slots, Deliver(s) PROVE Firm(k)
  BY <1>4, DeliveredCache
<1>5. ASSUME NEW p \in Pages, NEW t \in Tenders \cup {None}, p = "detail" => t \in Tenders, Go(p, t) PROVE Firm(k)
  BY <1>5, GoIs, FirmIs
<1>6. CASE Edits
  BY <1>1, <1>6, EditsEdit DEF Same
<1>7. CASE Asking
  BY <1>1, <1>7, AskingAsks DEF Asked, Send
<1>8. ASSUME NEW s \in Slots, Served(s) \/ LoseCall(s) PROVE UNCHANGED cache
  BY <1>8, Zenon DEF Served, Carry, Insert, LoseCall
<1>9. CASE Elsewhere \/ (\E t \in Tenders : Find(t)) \/ \E i \in 1 .. MaxRuns : Finish(i)
  BY <1>1, <1>9, Zenon DEF Elsewhere, Find, Finish
<1>10. ASSUME NEW t \in Tenders, Go("detail", t) PROVE Firm(k)
  BY <1>5, <1>10 DEF Pages
<1>11. ASSUME NEW p \in Pages \ {"detail"}, Go(p, None) PROVE Firm(k)
  BY <1>5, <1>11
<1>12. CASE UNCHANGED vars
  BY <1>1, <1>12 DEF vars
<1> QED
  BY <1>1, <1>2, <1>3, <1>4, <1>6, <1>7, <1>8, <1>9, <1>10, <1>11, <1>12, NextIs, Zenon

LEMMA FormKept ==
    ASSUME FormInv, ui'.form \in {None, ui.form}, \A t \in Tenders : cache'[t].val = cache[t].val
    PROVE  FormInv'
<1>1. CASE ui'.form = None
  BY <1>1 DEF FormInv, Bound, Follows
<1>2. CASE ui'.form = ui.form
  BY <1>2 DEF FormInv, Bound, Follows, Shown
<1> QED
  BY <1>1, <1>2

LEMMA FormStored ==
    ASSUME Typed, Answering, FormInv, NEW k \in Keys, Store(k)
    PROVE  FormInv'
<1>0. IsUi(ui)
  BY DEF Typed, PageTyped
<1>1. /\ ui' = Rendered(ui, k, cache[k].got) /\ cache'[k].val = cache[k].got
      /\ \A j \in Keys : j # k => cache'[j].val = cache[j].val
  BY StoreIs, StoredIs DEF Firm, Kept
<1>2. k \in Tenders => cache[k].got \in Row
  BY GotIs, StoreIs DEF Answering
<1>3. CASE ui.form # None /\ ui.form.live /\ ui.form.tender = k /\ cache[k].got # Shown(k)
  <2>1. k \in Tenders /\ cache[k].got \in Row /\ cache[k].got # None
    BY <1>2, <1>3, NoneAssumption DEF FormInv, Bound
  <2>5. PICK st \in Status : st = cache[k].got.st
    BY <2>1 DEF Row
  <2> DEFINE f == Form(k, TRUE, st)
  <2>6. k \in Tenders \cup {None} /\ TRUE \in BOOLEAN
    BY <2>1
  <2>2. f \in FormRecord /\ f.tender = k /\ f.st = st
    BY <2>6, FormMade, Zenon
  <2>3. ui' = [ui EXCEPT !.form = f]
    BY <1>1, <1>3, <2>5 DEF Rendered
  <2> HIDE DEF f
  <2>4. ui'.form = f
    BY <1>0, <2>3 DEF IsUi
  <2> QED
    BY <1>1, <2>1, <2>2, <2>4, <2>5 DEF FormInv, Bound, Follows, Shown
<1>4. CASE ~(ui.form # None /\ ui.form.live /\ ui.form.tender = k /\ cache[k].got # Shown(k))
  <2>1. ui' = ui
    BY <1>1, <1>4 DEF Rendered
  <2>2. CASE ui.form # None /\ ui.form.live
    <3>1. ui.form.tender \in Tenders /\ ui.form.tender \in Keys
      BY <2>2 DEF FormInv, Bound, Keys
    <3>2. cache'[ui.form.tender].val = cache[ui.form.tender].val
      BY <1>1, <1>4, <2>2, <3>1 DEF Shown
    <3> QED
      BY <2>1, <2>2, <3>2 DEF FormInv, Bound, Follows, Shown
  <2>3. CASE ~(ui.form # None /\ ui.form.live)
    BY <2>1, <2>3 DEF FormInv, Bound, Follows
  <2> QED
    BY <2>2, <2>3
<1> QED
  BY <1>3, <1>4

LEMMA FormStep ==
    ASSUME Typed, Answering, FormInv, [Next]_vars
    PROVE  FormInv'
<1>0. IsUi(ui) /\ \A t \in Tenders : t \in Keys
  BY DEF Typed, PageTyped, Keys
<1>1. ASSUME UNCHANGED cache, ui'.form = ui.form PROVE FormInv'
  BY <1>1, FormKept
<1>2. CASE UNCHANGED vars
  BY <1>1, <1>2 DEF vars
<1>3. CASE Edits
  <2>1. Edited(ui') /\ UNCHANGED cache
    BY <1>3, EditsEdit DEF Same
  <2>2. Bound(ui'.form) /\ Follows(ui'.form)
    BY <2>1 DEF Edited
  <2> QED
    BY <2>1, <2>2 DEF FormInv, Bound, Follows, Shown
<1>4. CASE Asking
  <2>1. PICK c \in CallRecord : Asked(c)
    BY <1>4, AskingAsks
  <2>2. ui'.form = ui.form /\ UNCHANGED cache
    BY <1>0, <2>1 DEF Asked, Decided, IsUi, Send
  <2> QED
    BY <1>1, <2>2
<1>5. CASE Poll \/ \E k \in Keys : Serve(k) \/ LoadFails(k)
  <2>1. UNCHANGED ui
    BY <1>5, Zenon DEF Poll, Serve, LoadFails
  <2>2. ASSUME NEW t \in Tenders PROVE cache'[t].val = cache[t].val
    <3>1. CASE Poll
      BY <1>0, <3>1, PollIs DEF Firm, Kept
    <3>2. ASSUME NEW k \in Keys, Serve(k) PROVE cache'[t].val = cache[t].val
      BY <1>0, <3>2, ServeIs DEF Firm, Kept
    <3>3. ASSUME NEW k \in Keys, LoadFails(k) PROVE cache'[t].val = cache[t].val
      BY <1>0, <3>3, LoadFailsIs DEF Firm, Kept
    <3> QED
      BY <1>5, <3>1, <3>2, <3>3, Zenon
  <2> QED
    BY <2>1, <2>2, FormKept
<1>6. ASSUME NEW k \in Keys, Store(k) PROVE FormInv'
  BY <1>6, FormStored
<1>7. ASSUME NEW s \in Slots, Served(s) \/ LoseCall(s) PROVE FormInv'
  <2>1. UNCHANGED <<cache, ui>>
    BY <1>7, Zenon DEF Served, Carry, Insert, LoseCall
  <2> QED
    BY <1>1, <2>1
<1>8. ASSUME NEW s \in Slots, Deliver(s) PROVE FormInv'
  <2>1. ui'.form \in {None, ui.form}
    BY <1>8, DeliverIs, ClosedIs
  <2>2. \A t \in Tenders : cache'[t].val = cache[t].val
    BY <1>0, <1>8, DeliveredCache DEF Firm, Kept
  <2> QED
    BY <2>1, <2>2, FormKept
<1>9. CASE Elsewhere \/ (\E t \in Tenders : Find(t)) \/ \E i \in 1 .. MaxRuns : Finish(i)
  <2>1. UNCHANGED <<cache, ui>>
    BY <1>9, Zenon DEF Elsewhere, Find, Finish
  <2> QED
    BY <1>1, <2>1
<1>10. ASSUME NEW p \in Pages, NEW t \in Tenders \cup {None}, p = "detail" => t \in Tenders, Go(p, t) PROVE FormInv'
  BY <1>10, GoIs DEF FormInv, Bound, Follows
<1>11. ASSUME NEW t \in Tenders, Go("detail", t) PROVE FormInv'
  BY <1>10, <1>11 DEF Pages
<1>12. ASSUME NEW p \in Pages \ {"detail"}, Go(p, None) PROVE FormInv'
  BY <1>10, <1>12
<1> QED
  BY <1>2, <1>3, <1>4, <1>5, <1>6, <1>7, <1>8, <1>9, <1>11, <1>12, NextIs, Zenon

\* A tender gets a row only by taking its id for good.
IdsTaken ==
    \A t \in Tenders : t \notin budget'.used => t \notin budget.used /\ (row[t] = None => row'[t] = None)

LEMMA RowsMove ==
    ASSUME Typed, [Next]_vars
    PROVE  IdsTaken
<1>0. RowsTyped /\ IsBudget(budget)
  BY DEF Typed, RowsTyped
<1>1. ASSUME UNCHANGED row, budget'.used = budget.used
      PROVE  IdsTaken
  BY <1>1 DEF IdsTaken
<1>2. ASSUME NEW u \in Tenders, NEW r \in Row \cup {None}, Put(u, r), row[u] # None \/ r = None, budget'.used = budget.used
      PROVE  IdsTaken
  BY <1>0, <1>2, RowPut DEF IdsTaken
<1>3. ASSUME NEW u \in Tenders, NEW r \in Row, Put(u, r), budget' = [budget EXCEPT !.used = @ \cup {u}]
      PROVE  IdsTaken
  BY <1>0, <1>3, RowPut, UsedKept DEF IdsTaken
<1>4. CASE UNCHANGED vars
  BY <1>1, <1>4 DEF vars
<1>5. CASE Edits
  BY <1>0, <1>1, <1>5, EditsEdit, BudgetKept DEF Same
<1>6. CASE Asking
  BY <1>0, <1>1, <1>6, AskingAsks, BudgetKept DEF Asked, Send
<1>7. CASE Poll \/ \E k \in Keys : Serve(k) \/ Store(k) \/ LoadFails(k)
  <2>1. UNCHANGED row /\ (UNCHANGED budget \/ Spend("faults"))
    BY <1>7, Zenon DEF Poll, Serve, Store, LoadFails
  <2> QED
    BY <1>0, <1>1, <2>1, BudgetKept
<1>8. ASSUME NEW s \in Slots, LoseCall(s) \/ Deliver(s)
      PROVE  IdsTaken
  <2>1. UNCHANGED row /\ (UNCHANGED budget \/ Spend("faults"))
    BY <1>8, LoseIs, DeliverIs
  <2> QED
    BY <1>0, <1>1, <2>1, BudgetKept
<1>9. ASSUME NEW t \in Tenders, Find(t)
      PROVE  IdsTaken
  <2>1. Put(t, NewRow("IDENTIFIED", TRUE)) /\ budget' = [budget EXCEPT !.used = @ \cup {t}]
    BY <1>9, Zenon DEF Find
  <2>2. NewRow("IDENTIFIED", TRUE) \in Row
    BY RowMade DEF Status
  <2> QED
    BY <1>3, <2>1, <2>2
<1>10. ASSUME NEW i \in 1 .. MaxRuns, Finish(i)
       PROVE  IdsTaken
  BY <1>1, <1>10, FinishIs
<1>11. CASE Elsewhere
  <2>1. budget'.used = budget.used
    BY <1>0, <1>11, ElsewhereIs
  <2>2. ASSUME NEW t \in Inbox, Put(t, Wrote(Effect([op |-> "promote"], row[t])))
        PROVE  IdsTaken
    <3>1. row[t] # None
      BY DEF Inbox, Waiting
    <3>2. t \in Tenders /\ Wrote(Effect([op |-> "promote"], row[t])) \in Row
      BY InboxIs
    <3> QED
      BY <1>2, <2>1, <2>2, <3>1, <3>2
  <2> QED
    BY <1>0, <1>1, <1>11, <2>1, <2>2, ElsewhereIs
<1>12. ASSUME NEW p \in Pages, NEW t \in Tenders \cup {None}, p = "detail" => t \in Tenders, Go(p, t)
       PROVE  IdsTaken
  BY <1>0, <1>1, <1>12, GoIs, BudgetKept
<1>13. ASSUME NEW s \in Slots, Served(s)
       PROVE  IdsTaken
  <2>1. PICK d \in CallRecord : Changed(s, d) /\ Effected(calls[s], d)
    BY <1>13, ServedIs
  <2> DEFINE c == calls[s]
  <2>2. c \in CallRecord /\ Aimed(c) /\ Aimed(d) /\ d.op = c.op
    BY <2>1, CallIs DEF Changed
  <2> HIDE DEF c
  <2>3. CASE UNCHANGED row /\ (UNCHANGED budget \/ Spend("faults"))
    BY <1>0, <1>1, <2>3, BudgetKept
  <2>4. CASE /\ c.op = "create" /\ d.st = "ok" /\ Fresh(d.tender) /\ Put(d.tender, NewRow(c.to, FALSE))
             /\ budget' = [budget EXCEPT !.used = @ \cup {d.tender}] /\ UNCHANGED <<runs, told>>
    <3>1. c.to \in Status /\ d.tender \in Tenders
      BY <2>2, <2>4 DEF Aimed
    <3>2. NewRow(c.to, FALSE) \in Row
      BY <3>1, RowMade
    <3> QED
      BY <1>3, <2>4, <3>1, <3>2
  <2>5. CASE /\ c.op = "delete" /\ d.st = "ok" /\ Put(c.tender, None) /\ row[c.tender] # None
             /\ told' = told \cup {"inbox"} /\ UNCHANGED <<runs, budget>>
    <3>1. c.tender \in Tenders
      BY <2>2, <2>5 DEF Aimed
    <3> QED
      BY <1>2, <2>5, <3>1
  <2>6. CASE /\ c.op \in Writes /\ d.st = "ok" /\ row[c.tender] # None
             /\ Put(c.tender, Wrote(Effect(c, row[c.tender])))
             /\ told' = told \cup Untold(c) /\ UNCHANGED <<runs, budget>>
    <3>1. c.tender \in Tenders /\ (c.op \in {"save", "status", "outcome"} => c.to \in Status)
      BY <2>2, <2>6 DEF Aimed, Writes
    <3>2. row[c.tender] \in Row
      BY <1>0, <2>6, <3>1 DEF RowsTyped
    <3>3. Wrote(Effect(c, row[c.tender])) \in Row
      BY <2>6, <3>1, <3>2, RowMade
    <3> QED
      BY <1>2, <2>6, <3>1, <3>3
  <2> QED
    BY <2>1, <2>3, <2>4, <2>5, <2>6, Zenon DEF Effected, c
<1>14. ASSUME NEW t \in Tenders, Go("detail", t)
       PROVE  IdsTaken
  BY <1>12, <1>14 DEF Pages
<1>15. ASSUME NEW p \in Pages \ {"detail"}, Go(p, None)
       PROVE  IdsTaken
  BY <1>12, <1>15
<1> QED
  BY <1>4, <1>5, <1>6, <1>7, <1>8, <1>9, <1>10, <1>11, <1>13, <1>14, <1>15, NextIs, Zenon

LEMMA UnknownStep ==
    ASSUME Typed, \A t \in Tenders \ budget.used : Unknown(t), [Next]_vars
    PROVE  \A t \in Tenders \ budget'.used : Unknown(t)'
<1> SUFFICES ASSUME NEW t \in Tenders, t \notin budget'.used PROVE Unknown(t)'
  OBVIOUS
<1>1. t \notin budget.used /\ (row[t] = None => row'[t] = None)
  BY RowsMove DEF IdsTaken
<1>2. row[t] = None /\ cache[t].val = None /\ cache[t].fetch # "answered"
  BY <1>1 DEF Unknown
<1>3. t \in Keys /\ Truth(t) = row[t]
  BY KeysAre DEF Keys
<1>4. ~Serve(t) /\ ~Store(t)
  BY <1>2, <1>3, ServeIs, StoredIs
<1>5. Kept(t)
  BY <1>3, <1>4, CacheMoves, LoadFailsIs DEF Firm
<1> QED
  BY <1>1, <1>2, <1>5 DEF Kept, Unknown

LEMMA AnsweringStep ==
    ASSUME Typed, Answering, [Next]_vars
    PROVE  Answering'
<1> SUFFICES ASSUME NEW k \in Keys, cache'[k].fetch = "answered" PROVE cache'[k].got # None
  BY DEF Answering, Keys
<1>1. CASE Kept(k)
  BY <1>1 DEF Kept, Answering
<1>2. CASE Serve(k)
  BY <1>2, ServeIs
<1>3. CASE Store(k)
  BY <1>3, StoredIs
<1> QED
  BY <1>1, <1>2, <1>3, CacheMoves, LoadFailsIs DEF Firm

LEMMA LastIs ==
    ASSUME NEW q \in Seq(RunStatus), NEW l, l = IF q = <<>> THEN NoRun ELSE [id |-> Len(q), st |-> Last(q)]
    PROVE  /\ l.id = Len(q) /\ Len(q) \in Nat
           /\ [l EXCEPT !.st = "active"] = [id |-> Len(q), st |-> "active"]
BY DEF NoRun

LEMMA SeenState ==
    ASSUME RowsTyped, SeenNow
    PROVE  cache["runs"].val = [id |-> Len(runs), st |-> "active"] /\ Len(runs) \in Nat
<1>1. [LastRun EXCEPT !.st = "active"] = [id |-> Len(runs), st |-> "active"] /\ Len(runs) \in Nat
  BY LastIs DEF LastRun, RowsTyped
<1> QED
  BY <1>1 DEF SeenNow, Seen

LEMMA SeenIs ==
    ASSUME runs \in Seq(RunStatus), runs' \in Seq(RunStatus)
    PROVE  /\ SeenNow = (Len(runs) > 0 /\ cache["runs"].val = [id |-> Len(runs), st |-> "active"])
           /\ SeenNow' = (Len(runs') > 0 /\ cache'["runs"].val = [id |-> Len(runs'), st |-> "active"])
           /\ LastRun.id = Len(runs) /\ Len(runs) \in Nat /\ Len(runs') \in Nat
<1>1. /\ LastRun.id = Len(runs) /\ Len(runs) \in Nat
      /\ [LastRun EXCEPT !.st = "active"] = [id |-> Len(runs), st |-> "active"]
  BY LastIs DEF LastRun
<1>2. /\ LastRun'.id = Len(runs') /\ Len(runs') \in Nat
      /\ [LastRun' EXCEPT !.st = "active"] = [id |-> Len(runs'), st |-> "active"]
  BY LastIs DEF LastRun
<1> QED
  BY <1>1, <1>2 DEF SeenNow, Seen

LEMMA RunsMove ==
    ASSUME Typed, [Next]_vars
    PROVE  \/ Len(runs') = Len(runs)
           \/ Len(runs') = Len(runs) + 1 /\ UNCHANGED cache
<1>0. RowsTyped
  BY DEF Typed
<1>1. CASE UNCHANGED runs
  BY <1>1
<1>2. CASE Edits
  BY <1>1, <1>2, EditsEdit DEF Same
<1>3. CASE Asking
  BY <1>1, <1>3, AskingAsks DEF Asked, Send
<1>4. CASE Poll \/ (\E k \in Keys : Serve(k) \/ Store(k) \/ LoadFails(k)) \/ (\E t \in Tenders : Find(t))
           \/ (\E s \in Slots : LoseCall(s) \/ Deliver(s)) \/ UNCHANGED vars
  <2>1. UNCHANGED runs
    BY <1>4, Zenon DEF Poll, Serve, Store, LoadFails, Find, LoseCall, Deliver, vars
  <2> QED
    BY <1>1, <2>1
<1>5. ASSUME NEW p \in Pages, NEW t, Go(p, t) PROVE UNCHANGED runs
  BY <1>5, Zenon DEF Go
<1>6. ASSUME NEW i \in 1 .. MaxRuns, Finish(i) PROVE Len(runs') = Len(runs)
  BY <1>6, FinishIs
<1>7. CASE Elsewhere
  BY <1>0, <1>1, <1>7, ElsewhereIs, StartTyped
<1>8. ASSUME NEW s \in Slots, Served(s) PROVE Len(runs') = Len(runs) \/ (Len(runs') = Len(runs) + 1 /\ UNCHANGED cache)
  <2>1. PICK d \in CallRecord : Changed(s, d) /\ Effected(calls[s], d)
    BY <1>8, ServedIs
  <2>2. UNCHANGED cache
    BY <2>1 DEF Changed
  <2>3. UNCHANGED runs \/ StartRun
    BY <2>1, Zenon DEF Effected
  <2> QED
    BY <1>0, <1>1, <2>2, <2>3, StartTyped
<1>9. "detail" \in Pages
  BY DEF Pages
<1> QED
  BY <1>1, <1>2, <1>3, <1>4, <1>5, <1>6, <1>7, <1>8, <1>9, NextIs, Zenon

LEMMA RunsHeardStep ==
    ASSUME Typed, Answering, RunsHeard, [Next]_vars, RowsTyped'
    PROVE  RunsHeard'
<1> DEFINE k == "runs"
<1>1. k \in Keys /\ Truth(k) = LastRun /\ Values(k) = RunRecord
  BY KeysAre DEF Keys
<1>2. /\ SeenNow = (Len(runs) > 0 /\ cache["runs"].val = [id |-> Len(runs), st |-> "active"])
      /\ SeenNow' = (Len(runs') > 0 /\ cache'["runs"].val = [id |-> Len(runs'), st |-> "active"])
      /\ LastRun.id = Len(runs) /\ Len(runs) \in Nat /\ Len(runs') \in Nat
  BY SeenIs DEF Typed, RowsTyped
<1>3. /\ cache[k].val # None => cache[k].val.id <= Len(runs)
      /\ cache[k].fetch = "answered" => cache[k].got.id <= Len(runs)
      /\ cache[k].fetch = "answered" /\ SeenNow => cache[k].got.id = cache[k].val.id
  BY Zenon DEF RunsHeard, SeenNow
<1>4. Len(runs') = Len(runs) \/ (Len(runs') = Len(runs) + 1 /\ UNCHANGED cache)
  BY RunsMove
<1>5. SUFFICES /\ cache'[k].val # None => cache'[k].val.id <= Len(runs')
               /\ cache'[k].fetch = "answered" => cache'[k].got.id <= Len(runs')
               /\ cache'[k].fetch = "answered" /\ SeenNow' => cache'[k].got.id = cache'[k].val.id
  BY Zenon DEF RunsHeard, SeenNow
<1>6. /\ cache[k].val # None => cache[k].val.id \in Nat
      /\ cache[k].fetch = "answered" => cache[k].got.id \in Nat
  <2>1. cache[k] \in Entry(RunRecord)
    BY <1>1 DEF Typed, CacheTyped
  <2>2. cache[k].fetch = "answered" => cache[k].got \in RunRecord
    BY <1>1, GotIs DEF Answering
  <2> QED
    BY <2>1, <2>2 DEF Entry, RunRecord
<1>s. SeenNow' => cache'[k].val.id = Len(runs') /\ cache'[k].val # None
  <2> SUFFICES ASSUME SeenNow' PROVE cache'[k].val.id = Len(runs') /\ cache'[k].val # None
    OBVIOUS
  <2>1. cache'[k].val = [id |-> Len(runs'), st |-> "active"]
    BY <1>2
  <2>2. [id |-> Len(runs'), st |-> "active"] \in RunRecord
    BY <1>2 DEF RunRecord, RunStatus
  <2> QED
    BY <2>1, <2>2, NoneAssumption
<1>7. CASE Kept(k)
  <2>1. /\ cache'[k].val = cache[k].val
        /\ cache'[k].fetch = "answered" => cache[k].fetch = "answered" /\ cache'[k].got = cache[k].got
    BY <1>7 DEF Kept
  <2>2. SeenNow' => cache[k].val.id = Len(runs') /\ cache[k].val # None
    BY <1>s, <2>1
  <2>3. SeenNow' => Len(runs') = Len(runs)
    BY <1>2, <1>3, <1>4, <1>6, <2>2
  <2>4. SeenNow' => SeenNow
    BY <1>2, <2>1, <2>3
  <2> QED
    BY <1>2, <1>3, <1>4, <1>6, <2>1, <2>4
<1>8. CASE Serve(k)
  <2>1. cache'[k].val = cache[k].val /\ cache'[k].got = LastRun /\ UNCHANGED runs
    BY <1>1, <1>8, ServeIs
  <2> QED
    BY <1>2, <1>3, <1>s, <2>1
<1>9. CASE Store(k)
  <2>1. cache'[k].val = cache[k].got /\ cache'[k].fetch = "idle" /\ cache[k].fetch = "answered" /\ UNCHANGED runs
    BY <1>1, <1>9, StoredIs, StoreIs
  <2> QED
    BY <1>3, <2>1
<1> QED
  BY <1>1, <1>7, <1>8, <1>9, CacheMoves, LoadFailsIs DEF Firm

Listing == Lists \cup Tenders

LEMMA ListingIs == Listing \subseteq Keys /\ "runs" \in Keys /\ "runs" \notin Listing
BY TendersAssumption DEF Listing, Lists, Keys

LEMMA CurrentKept ==
    ASSUME NEW k, Current(k), Firm(k), Truth(k)' \in {None, Truth(k)},
           CoveredKey(k) => CoveredKey(k)' \/ cache'[k].stale,
           k \in Lists /\ SeenNow => SeenNow' \/ cache'[k].stale
    PROVE  Current(k)'
BY DEF Current, Firm, Kept

LEMMA TruthSame ==
    ASSUME UNCHANGED row
    PROVE  \A k \in Listing : Truth(k)' = Truth(k)
<1>1. Inbox' = Inbox /\ Table' = Table
  BY DEF Inbox, Table
<1> QED
  BY <1>1, KeysAre DEF Listing, Lists, Truth

LEMMA SeenSame ==
    ASSUME UNCHANGED runs, Kept("runs")
    PROVE  SeenNow' = SeenNow
BY DEF SeenNow, Seen, LastRun, Kept

\* A step that leaves the server as it is.
LEMMA CurrentFrame ==
    ASSUME NEW k \in Listing, Current(k), Firm(k), UNCHANGED <<row, runs>>, Kept("runs"),
           CoveredKey(k) => CoveredKey(k)' \/ cache'[k].stale
    PROVE  Current(k)'
BY CurrentKept, TruthSame, SeenSame

LEMMA CoveredAsked ==
    ASSUME Typed, NEW c \in CallRecord, Asked(c), NEW k, CoveredKey(k)
    PROVE  CoveredKey(k)'
<1>1. PICK s \in Slots : calls[s] = None /\ \A r \in Slots : r # s => calls'[r] = calls[r]
  BY NewSlot DEF Asked
<1>2. PICK r \in Slots : Covers(calls[r], k)
  BY DEF CoveredKey
<1>3. calls'[r] = calls[r]
  BY <1>1, <1>2 DEF Covers
<1> QED
  BY <1>2, <1>3 DEF CoveredKey

\* An answer covers what its handlers will invalidate.
LEMMA CoveredChanged ==
    ASSUME Typed, NEW s \in Slots, NEW d, Changed(s, d), NEW k
    PROVE  /\ calls[s].st # "ok" /\ CoveredKey(k) => CoveredKey(k)'
           /\ d.st = "ok" /\ k \in Invalidates(d) => CoveredKey(k)'
           /\ CoveredKey(k) => CoveredKey(k)' \/ Covers(calls[s], k)
<1>1. calls'[s] = d /\ \A r \in Slots : r # s => calls'[r] = calls[r]
  BY ChangedCalls
<1>2. d # None
  BY CallAssumption DEF Changed
<1>3. CoveredKey(k) => CoveredKey(k)' \/ Covers(calls[s], k)
  BY <1>1 DEF CoveredKey
<1>4. d.st = "ok" /\ k \in Invalidates(d) => CoveredKey(k)'
  BY <1>1, <1>2 DEF CoveredKey, Covers
<1> QED
  BY <1>3, <1>4 DEF Covers

LEMMA CoveredGo ==
    ASSUME Typed, NEW p \in Pages, NEW t \in Tenders \cup {None}, p = "detail" => t \in Tenders, Go(p, t),
           NEW k, CoveredKey(k)
    PROVE  CoveredKey(k)'
<1>1. PICK s \in Slots : Covers(calls[s], k)
  BY DEF CoveredKey
<1>2. calls[s] # None /\ calls[s].st = "ok" /\ k \in Invalidates(calls[s])
  BY <1>1 DEF Covers
<1>3. calls'[s] # None /\ calls'[s].op = calls[s].op /\ calls'[s].tender = calls[s].tender /\ calls'[s].st = calls[s].st
  BY <1>2, GoIs
<1>4. Invalidates(calls'[s]) = Invalidates(calls[s])
  BY <1>3 DEF Invalidates
<1> QED
  BY <1>2, <1>3, <1>4 DEF CoveredKey, Covers

LEMMA InvalidatesIs ==
    ASSUME NEW c \in CallRecord
    PROVE  /\ c.op = "create" => Invalidates(c) = {"table"}
           /\ c.op = "delete" => Invalidates(c) = {"table"}
           /\ c.op \in Writes => {"table", c.tender} \subseteq Invalidates(c)
           /\ c.op \in Decisions => "inbox" \in Invalidates(c)
           /\ Invalidates(c) \subseteq {"runs"} \cup Lists \cup {c.tender}
BY DEF Invalidates, Writes, Decisions, Lists, CallRecord, Ops, Asks

\* The lists of a row: both, when it is put into another.
LEMMA PutTruth ==
    ASSUME RowsTyped, NEW t \in Tenders, NEW r \in Row \cup {None}, Put(t, r)
    PROVE  /\ \A u \in Tenders : u # t => Truth(u)' = Truth(u)
           /\ Truth(t)' = r
           /\ Waiting(r) = Waiting(row[t]) => Truth("inbox")' = Truth("inbox")
           /\ (Waiting(r) \/ r = None) /\ (Waiting(row[t]) \/ row[t] = None) => Truth("table")' = Truth("table")
<1>1. row' \in [Tenders -> Row \cup {None}] /\ row'[t] = r /\ \A u \in Tenders : u # t => row'[u] = row[u]
  BY RowPut
<1>2. \A u \in Tenders : Truth(u)' = row'[u] /\ Truth(u) = row[u]
  BY KeysAre DEF Truth
<1>3. Truth("inbox")' = Inbox' /\ Truth("inbox") = Inbox /\ Truth("table")' = Table' /\ Truth("table") = Table
  BY TendersAssumption DEF Truth
<1>4. Waiting(r) = Waiting(row[t]) => Inbox' = Inbox
  BY <1>1 DEF Inbox
<1>5. (Waiting(r) \/ r = None) /\ (Waiting(row[t]) \/ row[t] = None) => Table' = Table
  BY <1>1 DEF Table
<1> QED
  BY <1>1, <1>2, <1>3, <1>4, <1>5

\* What has been told to the pages stays told, unless it is judged anew.
LEMMA ToldMoves ==
    ASSUME Typed, [Next]_vars
    PROVE  told \subseteq told' \/ \E k \in Keys : Store(k) /\ told \ {k} \subseteq told'
<1>1. CASE UNCHANGED told
  BY <1>1
<1>2. CASE Edits
  BY <1>1, <1>2, EditsEdit DEF Same
<1>3. CASE Asking
  BY <1>1, <1>3, AskingAsks DEF Asked, Send
<1>4. ASSUME NEW k \in Keys, Store(k) PROVE told \ {k} \subseteq told'
  BY <1>4, StoreIs
<1>5. ASSUME NEW k \in Keys, LoadFails(k) PROVE told \subseteq told'
  BY <1>5, LoadFailsIs
<1>6. CASE Poll \/ (\E k \in Keys : Serve(k)) \/ UNCHANGED vars
  BY <1>1, <1>6, Zenon DEF Poll, Serve, vars
<1>7. ASSUME NEW t \in Tenders, Find(t) PROVE told \subseteq told'
  BY <1>7, Zenon DEF Find
<1>8. ASSUME NEW i \in 1 .. MaxRuns, Finish(i) PROVE told \subseteq told'
  BY <1>8, FinishIs
<1>9. CASE Elsewhere
  <2>1. RowsTyped
    BY DEF Typed
  <2> QED
    BY <1>9, <2>1, ElsewhereIs, StartTyped
<1>10. ASSUME NEW s \in Slots, Served(s) PROVE told \subseteq told'
  BY <1>10, ServedIs, EffectedTold
<1>11. ASSUME NEW s \in Slots, LoseCall(s) PROVE told \subseteq told'
  BY <1>11, LoseIs
<1>12. ASSUME NEW s \in Slots, Deliver(s) PROVE told \subseteq told'
  BY <1>12, DeliverIs
<1>13. ASSUME NEW p \in Pages, NEW t, Go(p, t) PROVE told \subseteq told'
  BY <1>13, Zenon DEF Go
<1>14. "detail" \in Pages
  BY DEF Pages
<1> QED
  BY <1>1, <1>2, <1>3, <1>4, <1>5, <1>6, <1>7, <1>8, <1>9, <1>10, <1>11, <1>12, <1>13, <1>14, NextIs, Zenon

LEMMA LoadedStep ==
    ASSUME Typed, Answering, [Next]_vars, NEW k \in Listing, k \notin told', k \notin told => LoadedKey(k)
    PROVE  LoadedKey(k)'
<1>0. k \in Keys /\ cache[k] \in Entry(Values(k))
  BY ListingIs DEF Typed, CacheTyped
<1> SUFFICES ASSUME Watched(k)' PROVE cache'[k].val # None \/ cache'[k].fetch # "idle"
  BY DEF LoadedKey
<1>1. CASE Store(k)
  BY <1>0, <1>1, StoredIs DEF Answering
<1>2. CASE Serve(k)
  BY <1>0, <1>2, ServeIs
<1>3. CASE ~Store(k) /\ ~Serve(k)
  <2>1. ~LoadFails(k)
    BY <1>0, LoadFailsIs
  <2>2. Firm(k)
    BY <1>0, <1>3, <2>1, CacheMoves
  <2>3. LoadedKey(k)
    BY <1>3, ToldMoves
  <2>4. CASE Watched(k)
    BY <2>2, <2>3, <2>4 DEF LoadedKey, Firm, Kept
  <2>5. ASSUME NEW p \in Pages, NEW t \in Tenders \cup {None}, p = "detail" => t \in Tenders, Go(p, t), ~Watched(k)
        PROVE  cache'[k].val # None \/ cache'[k].fetch # "idle"
    <3>1. PICK old \in BOOLEAN : cache'[k] = Opened(cache[k], old)
      BY <1>0, <2>5, GoIs
    <3> QED
      BY <1>0, <3>1, EntryOpened
  <2>6. ASSUME ui'.page = ui.page, ui'.open = ui.open PROVE Watched(k)
    BY <2>6 DEF Watched
  <2>7. ASSUME UNCHANGED vars PROVE Watched(k)
    BY <2>6, <2>7 DEF vars
  <2>8. ASSUME Edits PROVE Watched(k)
    BY <2>6, <2>8, EditsEdit DEF Edited
  <2>9. ASSUME Asking PROVE Watched(k)
    <3>1. PICK c \in CallRecord : Asked(c)
      BY <2>9, AskingAsks
    <3>2. ui'.page = ui.page /\ ui'.open = ui.open
      BY <3>1 DEF Asked, Decided, Typed, PageTyped, IsUi
    <3> QED
      BY <2>6, <3>2
  <2>10. ASSUME QuietSteps PROVE Watched(k)
    BY <2>6, <2>10, QuietAre DEF Quiet, Typed, PageTyped, IsUi
  <2>11. ASSUME NEW s \in Slots, Served(s) \/ LoseCall(s) PROVE Watched(k)
    <3>1. UNCHANGED ui
      BY <2>11, Zenon DEF Served, Carry, Insert, LoseCall
    <3> QED
      BY <2>6, <3>1
  <2>12. ASSUME NEW s \in Slots, Deliver(s) PROVE Watched(k)
    BY <2>6, <2>12, DeliverIs, ClosedIs
  <2>13. ASSUME NEW t \in Tenders, Go("detail", t), ~Watched(k) PROVE cache'[k].val # None \/ cache'[k].fetch # "idle"
    BY <2>5, <2>13 DEF Pages
  <2>14. ASSUME NEW p \in Pages \ {"detail"}, Go(p, None), ~Watched(k)
         PROVE  cache'[k].val # None \/ cache'[k].fetch # "idle"
    BY <2>5, <2>14
  <2> QED
    BY <2>4, <2>7, <2>8, <2>9, <2>10, <2>11, <2>12, <2>13, <2>14, NextIs, Zenon DEF QuietSteps
<1> QED
  BY <1>1, <1>2, <1>3

LEMMA CurrentServer ==
    ASSUME NEW k \in Listing, Current(k), UNCHANGED cache,
           \/ Truth(k)' \in {None, Truth(k)} \/ CoveredKey(k)' \/ cache[k].val = None
           \/ k \in Lists /\ SeenNow',
           CoveredKey(k) => CoveredKey(k)', k \in Lists /\ SeenNow => SeenNow'
    PROVE  Current(k)'
BY DEF Current

\* A run starts.
LEMMA CurrentStart ==
    ASSUME RowsTyped, StartRun, UNCHANGED <<row, cache>>, NEW k \in Listing, k \notin told', Current(k),
           CoveredKey(k) => CoveredKey(k)'
    PROVE  Current(k)'
<1>1. Truth(k)' = Truth(k)
  BY TruthSame
<1>2. told' = told \cup (IF SeenNow THEN Lists ELSE {})
  BY StartTyped DEF SeenNow
<1>3. k \in Lists => ~SeenNow
  BY <1>2
<1> QED
  BY <1>1, <1>3, CurrentServer

\* Someone else promotes a tender.
LEMMA CurrentElsewhere ==
    ASSUME Typed, Elsewhere, NEW k \in Listing, k \notin told', Current(k)
    PROVE  Current(k)'
<1>0. RowsTyped /\ UNCHANGED <<cache, calls>>
  BY ElsewhereIs DEF Typed
<1>1. CoveredKey(k)' = CoveredKey(k)
  BY <1>0 DEF CoveredKey
<1>4. CASE UNCHANGED <<row, runs, told>>
  <2>1. SeenNow' = SeenNow
    BY <1>0, <1>4 DEF SeenNow, Seen, LastRun
  <2> QED
    BY <1>0, <1>1, <1>4, <2>1, TruthSame, CurrentServer
<1>2. CASE StartRun /\ UNCHANGED row
  BY <1>0, <1>1, <1>2, CurrentStart
<1>3. ASSUME NEW t \in Inbox, Put(t, Wrote(Effect([op |-> "promote"], row[t]))),
             told' = told \cup {t, "inbox", "table"}, UNCHANGED runs
      PROVE  Current(k)'
  <2>1. k # t /\ k \notin Lists /\ k \in Tenders
    BY <1>3 DEF Listing, Lists
  <2>2. Truth(k)' = Truth(k)
    BY <1>0, <1>3, <2>1, InboxIs, PutTruth
  <2> QED
    BY <1>0, <1>1, <2>1, <2>2, CurrentServer
<1> QED
  BY <1>0, <1>2, <1>3, <1>4, ElsewhereIs

\* The agent finds a tender: its run will be seen to end, or the inbox was told.
LEMMA CurrentFind ==
    ASSUME Typed, NEW t \in Tenders, Find(t), Unknown(t), NEW k \in Listing, k \notin told', Current(k)
    PROVE  Current(k)'
<1>0. RowsTyped
  BY DEF Typed
<1>1. /\ row[t] = None /\ Put(t, NewRow("IDENTIFIED", TRUE))
      /\ told' = told \cup Missed({"inbox"}) /\ UNCHANGED <<runs, cache, calls>>
  BY Zenon DEF Find, Fresh
<1>2. NewRow("IDENTIFIED", TRUE) \in Row /\ Waiting(NewRow("IDENTIFIED", TRUE))
  <2> DEFINE n == NewRow("IDENTIFIED", TRUE)
  <2>1. n \in Row /\ n.st = "IDENTIFIED" /\ n.found = TRUE /\ ~n.reviewed
    BY RowMade DEF Status
  <2> HIDE DEF n
  <2>2. n \in Row /\ Waiting(n)
    BY <2>1, NoneAssumption DEF Waiting
  <2> QED
    BY <2>2 DEF n
<1>3. CoveredKey(k)' = CoveredKey(k) /\ SeenNow' = SeenNow
  BY <1>1 DEF CoveredKey, SeenNow, Seen, LastRun
<1>4. k = "inbox" => SeenNow
  BY <1>1 DEF Missed, SeenNow
<1>5. Truth("table")' = Truth("table") /\ \A u \in Tenders : u # t => Truth(u)' = Truth(u)
  BY <1>0, <1>1, <1>2, PutTruth
<1>6. cache[t].val = None
  BY DEF Unknown
<1> QED
  BY <1>1, <1>3, <1>4, <1>5, <1>6, CurrentServer DEF Listing, Lists

\* A call is answered.
LEMMA CurrentServed ==
    ASSUME Typed, NEW s \in Slots, Served(s), \A t \in Tenders \ budget.used : Unknown(t),
           NEW k \in Listing, k \notin told', Current(k)
    PROVE  Current(k)'
<1>1. PICK d \in CallRecord : Changed(s, d) /\ Effected(calls[s], d)
  BY ServedIs
<1>c. PICK c \in CallRecord : c = calls[s] /\ Aimed(c)
  BY <1>1, CallIs DEF Changed
<1>2. c \in CallRecord /\ Aimed(c) /\ Aimed(d) /\ d.op = c.op /\ c.st # "ok" /\ UNCHANGED cache
      /\ (d.tender = c.tender \/ d.op \in {"run", "create"})
  BY <1>1, <1>c, ServedIs DEF Changed
<1>3. CoveredKey(k) => CoveredKey(k)'
  BY <1>1, <1>c, <1>2, CoveredChanged
<1>4. d.st = "ok" /\ k \in Invalidates(d) => CoveredKey(k)'
  BY <1>1, CoveredChanged
<1>5. RowsTyped
  BY DEF Typed
<1>6. UNCHANGED runs => SeenNow' = SeenNow
  BY <1>2 DEF SeenNow, Seen, LastRun
<1>7. CASE UNCHANGED <<row, runs, told>> /\ (UNCHANGED budget \/ Spend("faults"))
  BY <1>2, <1>3, <1>6, <1>7, TruthSame, CurrentServer
<1>8. CASE c.op = "run" /\ StartRun /\ UNCHANGED <<row, budget>>
  BY <1>2, <1>3, <1>5, <1>8, CurrentStart
<1>9. CASE /\ c.op = "create" /\ d.st = "ok" /\ Fresh(d.tender) /\ Put(d.tender, NewRow(c.to, FALSE))
           /\ budget' = [budget EXCEPT !.used = @ \cup {d.tender}] /\ UNCHANGED <<runs, told>>
  <2>1. c.to \in Status /\ d.tender \in Tenders
    BY <1>2, <1>9 DEF Aimed
  <2>2. NewRow(c.to, FALSE) \in Row /\ Waiting(NewRow(c.to, FALSE)) = FALSE
    BY <2>1, RowMade DEF Waiting
  <2>3. row[d.tender] = None /\ cache[d.tender].val = None
    BY <1>9, <2>1 DEF Fresh, Unknown
  <2>4. Waiting(row[d.tender]) = FALSE
    BY <2>3 DEF Waiting
  <2>5. Truth("inbox")' = Truth("inbox") /\ \A u \in Tenders : u # d.tender => Truth(u)' = Truth(u)
    <3>1. PICK n : n = NewRow(c.to, FALSE)
      OBVIOUS
    <3>2. Put(d.tender, n) /\ n \in Row \cup {None}
      BY <1>9, <2>2, <3>1
    <3>3. Waiting(n) = Waiting(row[d.tender])
      BY <2>2, <2>4, <3>1
    <3> QED
      BY <1>5, <2>1, <3>2, <3>3, PutTruth
  <2>6. k = "table" => CoveredKey(k)'
    BY <1>2, <1>4, <1>9, InvalidatesIs
  <2>7. Truth(k)' = Truth(k) \/ CoveredKey(k)' \/ cache[k].val = None
    BY <2>3, <2>5, <2>6 DEF Listing, Lists
  <2> QED
    BY <1>2, <1>3, <1>6, <1>9, <2>7, CurrentServer
<1>10. CASE /\ c.op = "delete" /\ d.st = "ok" /\ Put(c.tender, None) /\ row[c.tender] # None
            /\ told' = told \cup {"inbox"} /\ UNCHANGED <<runs, budget>>
  <2>1. c.tender \in Tenders
    BY <1>2, <1>10 DEF Aimed
  <2>2. Truth(c.tender)' = None /\ \A u \in Tenders : u # c.tender => Truth(u)' = Truth(u)
    BY <1>5, <1>10, <2>1, PutTruth
  <2>3. k # "inbox"
    BY <1>10
  <2>4. k = "table" => CoveredKey(k)'
    BY <1>2, <1>4, <1>10, InvalidatesIs
  <2>5. Truth(k)' \in {None, Truth(k)} \/ CoveredKey(k)'
    BY <2>2, <2>3, <2>4 DEF Listing, Lists
  <2> QED
    BY <1>2, <1>3, <1>6, <1>10, <2>5, CurrentServer
<1>11. CASE /\ c.op \in Writes /\ d.st = "ok" /\ row[c.tender] # None
            /\ Put(c.tender, Wrote(Effect(c, row[c.tender])))
            /\ told' = told \cup Untold(c) /\ UNCHANGED <<runs, budget>>
  <2>r. PICK r : r = row[c.tender]
    OBVIOUS
  <2>w. PICK w : w = Wrote(Effect(c, r))
    OBVIOUS
  <2>1. c.tender \in Tenders /\ (c.op \in {"save", "status", "outcome"} => c.to \in Status)
    BY <1>2, <1>11 DEF Aimed, Writes
  <2>2. r \in Row
    BY <1>5, <1>11, <2>r, <2>1 DEF RowsTyped
  <2>3. w \in Row /\ (c.op = "score" => w.st = r.st /\ w.found = r.found /\ w.reviewed = r.reviewed)
    BY <1>11, <2>w, <2>1, <2>2, RowMade
  <2>4. Put(c.tender, w)
    BY <1>11, <2>r, <2>w
  <2>5. c.op = "score" => Waiting(w) = Waiting(r)
    BY <2>2, <2>3, NoneAssumption DEF Waiting
  <2>6. /\ \A u \in Tenders : u # c.tender => Truth(u)' = Truth(u)
        /\ Waiting(w) = Waiting(row[c.tender]) => Truth("inbox")' = Truth("inbox")
    BY <1>5, <2>1, <2>3, <2>4, PutTruth
  <2>7. {"table", c.tender} \subseteq Invalidates(d) /\ (c.op \in Decisions => "inbox" \in Invalidates(d))
    <3>1. d.tender = c.tender
      BY <1>2, <1>11 DEF Writes
    <3> QED
      BY <1>2, <1>11, <3>1, InvalidatesIs
  <2>8. k = "inbox" => c.op \in Decisions \cup {"score"}
    BY <1>11 DEF Untold, Writes, Decisions
  <2>9. k = "inbox" => CoveredKey(k)' \/ Truth(k)' = Truth(k)
    <3>1. CASE c.op = "score"
      BY <2>r, <2>5, <2>6, <3>1
    <3>2. CASE c.op \in Decisions
      BY <1>4, <1>11, <2>7, <3>2
    <3> QED
      BY <2>8, <3>1, <3>2
  <2>10. k \in {"table", c.tender} => CoveredKey(k)'
    BY <1>4, <1>11, <2>7
  <2>11. Truth(k)' = Truth(k) \/ CoveredKey(k)'
    BY <2>6, <2>9, <2>10 DEF Listing, Lists
  <2> QED
    BY <1>2, <1>3, <1>6, <1>11, <2>11, CurrentServer
<1> QED
  BY <1>1, <1>7, <1>8, <1>9, <1>10, <1>11, <1>c, Zenon DEF Effected

\* The watcher stores what it has heard: a run that is over marks the lists.
LEMMA CurrentStore ==
    ASSUME Typed, Answering, RunsHeard, NEW j \in Keys, Store(j),
           NEW k \in Listing, k \notin told', k \notin told => Current(k)
    PROVE  Current(k)'
<1>1. /\ UNCHANGED <<row, runs, calls>> /\ cache[j].fetch = "answered"
      /\ told' = IF cache[j].got = Truth(j) THEN told \ {j} ELSE told \cup {j}
  BY StoreIs
<1>2. /\ cache'[j].val = cache[j].got
      /\ \A i \in Keys : i # j => Firm(i)
      /\ \A i \in EndedLists(j) : cache'[i].stale
  BY StoredIs
<1>3. Truth(k)' = Truth(k) /\ CoveredKey(k)' = CoveredKey(k) /\ k \in Keys
  BY <1>1, TruthSame, ListingIs DEF CoveredKey
<1>4. CASE k = j
  <2>1. cache'[k].val = Truth(k)'
    BY <1>1, <1>2, <1>3, <1>4
  <2> QED
    BY <2>1 DEF Current
<1>5. CASE k # j
  <2>1. Firm(k) /\ Current(k)
    BY <1>1, <1>2, <1>3, <1>5
  <2>2. CASE j # "runs"
    <3>1. Kept("runs")
      BY <1>2, <2>2, ListingIs DEF Firm
    <3> QED
      BY <1>1, <1>3, <2>1, <3>1, CurrentFrame
  <2>3. CASE j = "runs"
    <3> DEFINE e == cache["runs"]
    <3>1. SeenNow => e.val = [LastRun EXCEPT !.st = "active"] /\ e.got.id = e.val.id
      BY <1>1, <2>3 DEF RunsHeard, SeenNow, Seen
    <3>2. e.got \in RunRecord
      BY <1>1, <2>3, GotIs, KeysAre DEF Answering
    <3>3. SeenNow => e.val = [id |-> Len(runs), st |-> "active"] /\ Len(runs) \in Nat /\ Len(runs) > 0
      BY <1>1, SeenIs DEF Typed, RowsTyped
    <3>4. CASE SeenNow /\ e.got.st # "active"
      <4>1. e.val \in RunRecord
        BY <3>3, <3>4 DEF RunRecord, RunStatus
      <4>2. Ended(e.val, e.got)
        BY <3>1, <3>3, <3>4, <4>1, NoneAssumption DEF Ended
      <4>3. EndedLists(j) = Lists
        BY <2>3, <4>2 DEF EndedLists
      <4> QED
        BY <1>2, <1>3, <2>1, <4>3, CurrentKept
    <3>5. CASE SeenNow /\ e.got.st = "active"
      <4>1. e.got = e.val
        BY <3>1, <3>2, <3>3, <3>5 DEF RunRecord
      <4>2. SeenNow'
        BY <1>1, <1>2, <2>3, <3>5, <4>1 DEF SeenNow, Seen, LastRun
      <4> QED
        BY <1>3, <2>1, <4>2, CurrentKept
    <3>6. CASE ~SeenNow
      BY <1>3, <2>1, <3>6, CurrentKept
    <3> QED
      BY <3>4, <3>5, <3>6
  <2> QED
    BY <2>2, <2>3
<1> QED
  BY <1>4, <1>5

LEMMA CurrentStep ==
    ASSUME Typed, RadarInv, [Next]_vars, NEW k \in Listing, k \notin told'
    PROVE  Current(k)'
<1>0. /\ k \in Keys /\ "runs" \in Keys /\ "runs" # k /\ Answering /\ RunsHeard
      /\ \A t \in Tenders \ budget.used : Unknown(t)
      /\ k \notin told => Current(k)
  BY ListingIs DEF RadarInv, Answering, Listing
<1>1. ASSUME UNCHANGED <<row, runs, told>>, Firm(k), Kept("runs"), CoveredKey(k) => CoveredKey(k)' \/ cache'[k].stale
      PROVE  Current(k)'
  BY <1>0, <1>1, CurrentFrame
<1>2. ASSUME UNCHANGED <<row, runs, told, cache>>, CoveredKey(k) => CoveredKey(k)'
      PROVE  Current(k)'
  BY <1>0, <1>1, <1>2, FirmIs DEF Firm
<1>3. UNCHANGED calls => CoveredKey(k)' = CoveredKey(k)
  BY DEF CoveredKey
<1>4. CASE UNCHANGED vars
  BY <1>2, <1>3, <1>4 DEF vars
<1>5. CASE Edits
  BY <1>2, <1>3, <1>5, EditsEdit DEF Same
<1>6. CASE Asking
  <2>1. PICK c \in CallRecord : Asked(c)
    BY <1>6, AskingAsks
  <2>2. UNCHANGED <<row, runs, told, cache>>
    BY <2>1 DEF Asked, Send
  <2> QED
    BY <1>2, <2>1, <2>2, CoveredAsked
<1>7. CASE Poll
  <2>1. UNCHANGED <<row, runs, told, calls>>
    BY <1>7, Zenon DEF Poll
  <2>2. Firm(k) /\ Kept("runs")
    BY <1>0, <1>7, PollIs DEF Firm
  <2> QED
    BY <1>1, <1>3, <2>1, <2>2
<1>8. ASSUME NEW j \in Keys, Serve(j) PROVE Current(k)'
  <2>1. /\ cache'[j].val = cache[j].val /\ cache'[j].fetch = "answered" /\ (\A i \in Keys : i # j => Firm(i))
        /\ UNCHANGED <<row, runs, calls, told>>
    BY <1>8, ServeIs
  <2>2. CASE k = j
    BY <2>1, <2>2 DEF Current
  <2>3. CASE k # j
    <3>1. SeenNow' = SeenNow
      BY <1>0, <2>1 DEF SeenNow, Seen, LastRun, Firm, Kept
    <3>2. Firm(k) /\ Current(k) /\ Truth(k)' = Truth(k)
      BY <1>0, <2>1, <2>3, TruthSame
    <3> QED
      BY <1>3, <2>1, <3>1, <3>2, CurrentKept
  <2> QED
    BY <2>2, <2>3
<1>9. ASSUME NEW j \in Keys, Store(j) PROVE Current(k)'
  BY <1>0, <1>9, CurrentStore
<1>10. ASSUME NEW j \in Keys, LoadFails(j) PROVE Current(k)'
  <2>1. /\ Kept(j) /\ (\A i \in Keys : i # j => Firm(i)) /\ told' = told \cup {j}
        /\ UNCHANGED <<row, runs, calls>>
    BY <1>10, LoadFailsIs
  <2>2. k # j /\ Firm(k) /\ Kept("runs") /\ Current(k)
    BY <1>0, <2>1 DEF Firm
  <2> QED
    BY <1>3, <2>1, <2>2, CurrentFrame
<1>11. ASSUME NEW s \in Slots, Deliver(s) PROVE Current(k)'
  <2>1. UNCHANGED <<row, runs, told>> /\ \A r \in Slots : calls'[r] = IF r = s THEN None ELSE calls[r]
    BY <1>11, DeliverIs
  <2>2. Firm(k) /\ Kept("runs") /\ (Covers(calls[s], k) => cache'[k].stale)
    BY <1>0, <1>11, DeliveredCache DEF Firm
  <2>3. CoveredKey(k) => CoveredKey(k)' \/ Covers(calls[s], k)
    BY <2>1 DEF CoveredKey
  <2> QED
    BY <1>1, <2>1, <2>2, <2>3
<1>12. ASSUME NEW p \in Pages, NEW t \in Tenders \cup {None}, p = "detail" => t \in Tenders, Go(p, t) PROVE Current(k)'
  <2>1. UNCHANGED <<row, runs, told>>
    BY <1>12, GoIs
  <2>2. PICK old \in BOOLEAN : \A i \in Keys : cache'[i] \in {cache[i], Opened(cache[i], old)}
    BY <1>12, GoIs
  <2>3. Firm(k) /\ Kept("runs")
    BY <1>0, <2>2, FirmIs DEF Firm
  <2>4. CoveredKey(k) => CoveredKey(k)'
    BY <1>12, CoveredGo
  <2> QED
    BY <1>1, <2>1, <2>3, <2>4
<1>13. ASSUME NEW s \in Slots, Served(s) PROVE Current(k)'
  <2>1. Current(k)
    BY <1>0, <1>13, ServedIs, EffectedTold
  <2> QED
    BY <1>0, <1>13, <2>1, CurrentServed
<1>14. ASSUME NEW s \in Slots, LoseCall(s) PROVE Current(k)'
  <2>1. PICK d \in CallRecord : Changed(s, d)
    BY <1>14, LoseIs
  <2>2. /\ UNCHANGED <<row, runs, cache>> /\ calls[s] \in CallRecord
        /\ told' = IF calls[s].st = "ok" THEN told \cup Lists \cup ({calls[s].tender} \ {None}) ELSE told
    BY <1>14, <2>1, LoseIs, CallIs DEF Changed
  <2>3. Current(k)
    BY <1>0, <2>2
  <2>4. ~Covers(calls[s], k)
    <3>1. CASE calls[s].st = "ok"
      <4>1. k \notin Lists /\ k \in Tenders /\ k # calls[s].tender
        BY <2>2, <3>1, NoneAssumption DEF Listing
      <4>2. k \notin Invalidates(calls[s])
        BY <1>0, <2>2, <4>1, InvalidatesIs
      <4> QED
        BY <4>2 DEF Covers
    <3>2. CASE calls[s].st # "ok"
      BY <3>2 DEF Covers
    <3> QED
      BY <3>1, <3>2
  <2>5. CoveredKey(k) => CoveredKey(k)'
    BY <2>1, <2>4, CoveredChanged
  <2> QED
    BY <1>0, <2>2, <2>3, <2>5, CurrentFrame, FirmIs DEF Firm
<1>15. ASSUME NEW t \in Tenders, Find(t) PROVE Current(k)'
  <2>1. t \notin budget.used /\ told \subseteq told'
    BY <1>15, Zenon DEF Find, Fresh
  <2> QED
    BY <1>0, <1>15, <2>1, CurrentFind
<1>16. ASSUME NEW i \in 1 .. MaxRuns, Finish(i) PROVE Current(k)'
  <2>1. /\ runs' \in Seq(RunStatus) /\ Len(runs') = Len(runs) /\ UNCHANGED <<row, cache, calls, told>>
    BY <1>16, FinishIs
  <2>2. SeenNow' = SeenNow
    BY <2>1, SeenIs DEF Typed, RowsTyped
  <2>3. Truth(k)' = Truth(k)
    BY <2>1, TruthSame
  <2> QED
    BY <1>0, <1>3, <2>1, <2>2, <2>3, CurrentServer
<1>17. CASE Elsewhere
  <2>1. RowsTyped
    BY DEF Typed
  <2>2. told \subseteq told'
    BY <1>17, <2>1, ElsewhereIs, StartTyped
  <2> QED
    BY <1>0, <1>17, <2>2, CurrentElsewhere
<1>18. ASSUME NEW t \in Tenders, Go("detail", t) PROVE Current(k)'
  BY <1>12, <1>18 DEF Pages
<1>19. ASSUME NEW p \in Pages \ {"detail"}, Go(p, None) PROVE Current(k)'
  BY <1>12, <1>19
<1> QED
  BY <1>4, <1>5, <1>6, <1>7, <1>8, <1>9, <1>10, <1>11, <1>13, <1>14, <1>15, <1>16, <1>17, <1>18, <1>19, NextIs, Zenon

LEMMA RadarStep ==
    ASSUME Typed, RadarInv, [Next]_vars
    PROVE  RadarInv'
<1>1. Answering /\ RunsHeard /\ (\A t \in Tenders \ budget.used : Unknown(t))
      /\ \A k \in Listing : k \notin told => Current(k) /\ LoadedKey(k)
  BY DEF RadarInv, Answering, Listing
<1>2. Typed'
  BY <1>1, TypesStep
<1>3. Answering' /\ RunsHeard' /\ (\A t \in Tenders \ budget'.used : Unknown(t)')
  BY <1>1, <1>2, AnsweringStep, RunsHeardStep, UnknownStep DEF Typed
<1>4. \A k \in Listing : k \notin told' => Current(k)' /\ LoadedKey(k)'
  BY <1>1, CurrentStep, LoadedStep
<1> QED
  BY <1>3, <1>4 DEF RadarInv, Answering, Listing

-----------------------------------------------------------------------------
(* The beginning *)

LEMMA InitIs ==
    ASSUME Init
    PROVE  \E b \in Bounds :
              /\ budget = [calls |-> b.calls, opens |-> b.opens, faults |-> b.faults,
                           others |-> b.others, starts |-> 0, used |-> Tenders \ b.new]
              /\ row = [t \in Tenders |-> IF t \in b.found \cup b.made
                                          THEN NewRow(b.st, t \in b.found) ELSE None]
              /\ ui = [NoUi EXCEPT !.page = b.page]
BY Zenon DEF Init

LEMMA BoundIs ==
    ASSUME NEW b \in Bounds
    PROVE  /\ b \in Instance
           /\ b.found \subseteq Tenders /\ b.made \subseteq Tenders /\ b.new \subseteq Tenders /\ b.st \in Status
           /\ b.page \in Radar \cup {"other"} /\ {b.calls, b.opens, b.faults, b.others} \subseteq Nat
           /\ b.new \cap (b.found \cup b.made) = {}
<1>1. b \in Instance /\ b.new \cap (b.found \cup b.made) = {} /\ {MaxRuns, MaxFaults} \subseteq Nat
  BY BoundsAssumption
<1> QED
  BY <1>1 DEF Instance

LEMMA RowsInit ==
    ASSUME Init
    PROVE  RowsTyped /\ IsUi(ui) /\ ui.page \in Radar \cup {"other"} /\ ui.open = None /\ ui.outcome = FALSE
           /\ ui.pending = None /\ ui.reject = None /\ ui.proposal = None /\ ui.form = None
           /\ \A t \in Tenders \ budget.used : row[t] = None
<1>1. PICK b \in Bounds :
              /\ budget = [calls |-> b.calls, opens |-> b.opens, faults |-> b.faults,
                           others |-> b.others, starts |-> 0, used |-> Tenders \ b.new]
              /\ row = [t \in Tenders |-> IF t \in b.found \cup b.made
                                          THEN NewRow(b.st, t \in b.found) ELSE None]
              /\ ui = [NoUi EXCEPT !.page = b.page]
  BY InitIs
<1>2. row \in [Tenders -> Row \cup {None}] /\ \A t \in Tenders : t \notin b.found \cup b.made => row[t] = None
  <2>1. \A t \in Tenders : NewRow(b.st, t \in b.found) \in Row
    <3>1. \A t \in Tenders : (t \in b.found) \in BOOLEAN
      OBVIOUS
    <3> QED
      BY <3>1, BoundIs, RowMade
  <2> QED
    BY <1>1, <2>1
<1>3. IsBudget(budget) /\ budget.used = Tenders \ b.new
  BY <1>1, BoundIs DEF IsBudget
<1>4. runs = <<>> /\ MaxRuns \in Nat
  BY BoundsAssumption DEF Init
<1>5. runs \in Seq(RunStatus) /\ Len(runs) <= MaxRuns
  BY <1>4
<1>6. RowsTyped
  BY <1>2, <1>3, <1>5 DEF RowsTyped
<1>7. /\ IsUi(ui) /\ ui.page = b.page /\ ui.open = None /\ ui.outcome = FALSE
      /\ ui.pending = None /\ ui.reject = None /\ ui.proposal = None /\ ui.form = None
  BY <1>1, BoundIs DEF IsUi, NoUi, Pages
<1>8. \A t \in Tenders \ budget.used : row[t] = None
  BY <1>2, <1>3, BoundIs
<1> QED
  BY <1>6, <1>7, <1>8, BoundIs

LEMMA CacheInit ==
    ASSUME Init
    PROVE  /\ CacheTyped
           /\ \A k \in Keys : cache[k].val \in {None, Truth(k)} /\ ~cache[k].stale /\ cache[k].fetch = "idle"
           /\ \A k \in Keys : Truth(k) # None /\ ui.page # "other" => cache[k].val = Truth(k)
<1>1. cache = [k \in Keys |-> IF Truth(k) # None /\ (k = "runs" \/ ui.page # "other")
                              THEN Loaded(Truth(k)) ELSE NoEntry]
  BY DEF Init
<1>2. ASSUME NEW k \in Keys
      PROVE  /\ cache[k] \in Entry(Values(k))
             /\ cache[k].val \in {None, Truth(k)} /\ ~cache[k].stale /\ cache[k].fetch = "idle"
             /\ Truth(k) # None /\ ui.page # "other" => cache[k].val = Truth(k)
  <2>1. Truth(k) \in Values(k) \cup {None}
    BY RowsInit, TruthOfRows
  <2>2. CASE Truth(k) # None /\ (k = "runs" \/ ui.page # "other")
    <3>1. cache[k] = Loaded(Truth(k))
      BY <1>1, <2>2
    <3> QED
      BY <2>1, <2>2, <3>1 DEF Loaded, NoEntry, Entry
  <2>3. CASE ~(Truth(k) # None /\ (k = "runs" \/ ui.page # "other"))
    <3>1. cache[k] = NoEntry
      BY <1>1, <2>3
    <3> QED
      BY <2>3, <3>1 DEF NoEntry, Entry
  <2> QED
    BY <2>2, <2>3
<1>3. cache = [k \in Keys |-> cache[k]]
  BY <1>1
<1> QED
  BY <1>2, <1>3 DEF CacheTyped

LEMMA NothingUnderWay ==
    ASSUME Init
    PROVE  /\ calls \in [Slots -> CallRecord \cup {None}] /\ latest \in [Ops -> Slots \cup {None}]
           /\ \A s \in Slots : calls[s] = None
           /\ \A op \in Ops : latest[op] = None
           /\ told = {} /\ runs = <<>>
<1>1. calls = [s \in Slots |-> None] /\ latest = [op \in Ops |-> None] /\ told = {} /\ runs = <<>>
  BY DEF Init
<1> QED
  BY <1>1

LEMMA TypesInit ==
    ASSUME Init
    PROVE  Typed
<1>1. CallsTyped
  BY NothingUnderWay DEF CallsTyped, Pending
<1>2. PageTyped
  BY NothingUnderWay, RowsInit DEF PageTyped, Radar
<1> QED
  BY <1>1, <1>2, RowsInit, CacheInit DEF Typed

LEMMA PageInit ==
    ASSUME Init
    PROVE  CardsInv /\ FormInv /\ DraftInv
BY RowsInit DEF CardsInv, FormInv, Bound, Follows, DraftInv

LEMMA RadarInit ==
    ASSUME Init
    PROVE  RadarInv
<1>1. ASSUME NEW k \in Listing
      PROVE  Current(k) /\ LoadedKey(k)
  <2>1. k \in Keys /\ k # "runs"
    BY ListingIs
  <2>2. Current(k)
    BY <2>1, CacheInit DEF Current
  <2>3. ASSUME Watched(k) PROVE cache[k].val # None
    <3>1. k \in Lists /\ ui.page # "other"
      <4>1. k \in Uses(ui.page, None) /\ ui.page # "detail"
        BY <2>3, RowsInit DEF Watched, Radar
      <4> QED
        BY <2>1, <4>1 DEF Uses, Lists, Radar
    <3>2. Truth(k) # None
      <4>1. Inbox \in SUBSET Tenders /\ Table \in [Tenders -> Row \cup {None}]
        BY RowsInit DEF Inbox, Table, RowsTyped
      <4>2. Inbox # None /\ Table # None
        BY <4>1, NoneAssumption
      <4> QED
        BY <3>1, <4>2, KeysAre DEF Lists
    <3> QED
      BY <2>1, <3>1, <3>2, CacheInit
  <2> QED
    BY <2>2, <2>3 DEF LoadedKey
<1>2. \A k \in Keys : cache[k].fetch # "answered"
  BY CacheInit
<1>3. \A t \in Tenders \ budget.used : Unknown(t)
  <2> SUFFICES ASSUME NEW t \in Tenders \ budget.used PROVE Unknown(t)
    OBVIOUS
  <2>1. t \in Keys /\ Truth(t) = row[t] /\ row[t] = None
    BY RowsInit, KeysAre DEF Keys
  <2> QED
    BY <1>2, <2>1, CacheInit DEF Unknown
<1>4. RunsHeard
  <2>1. "runs" \in Keys /\ Truth("runs") = NoRun /\ runs = <<>>
    BY KeysAre, NothingUnderWay DEF Keys, LastRun
  <2> QED
    BY <1>2, <2>1, CacheInit DEF RunsHeard, NoRun
<1> QED
  BY <1>1, <1>2, <1>3, <1>4 DEF RadarInv, Listing
-----------------------------------------------------------------------------
(* The theorems *)

RadarIInv == Typed /\ CardsInv /\ FormInv /\ DraftInv /\ RadarInv

LEMMA RadarIInvHolds == Spec => []RadarIInv
<1>1. Init => RadarIInv
  BY TypesInit, PageInit, RadarInit DEF RadarIInv
<1>2. RadarIInv /\ [Next]_vars => RadarIInv'
  <2> SUFFICES ASSUME RadarIInv, [Next]_vars PROVE RadarIInv'
    OBVIOUS
  <2>1. Typed /\ CardsInv /\ FormInv /\ DraftInv /\ RadarInv /\ Answering
    BY DEF RadarIInv, RadarInv, Answering
  <2> QED
    BY <2>1, TypesStep, CardsStep, FormStep, DraftStep, RadarStep DEF RadarIInv
<1> QED
  BY <1>1, <1>2, PTL DEF Spec

\* pendingId and the isPending of the mutations: what is blocked waits for an
\* answer that is under way, after any failures, late answers and changes of page.
THEOREM BlockedOnlyByCalls == Spec => []NothingStaysBlocked
<1>1. RadarIInv => NothingStaysBlocked
  <2> SUFFICES ASSUME RadarIInv PROVE NothingStaysBlocked
    OBVIOUS
  <2>1. ui.pending # None => \E s \in Slots :
          /\ calls[s] # None /\ calls[s].alive
          /\ calls[s].op \in {"promote", "review"} /\ calls[s].tender = ui.pending
    BY DEF RadarIInv, CardsInv, Deciding, Decisions
  <2>2. \A op \in Ops : Pending(op) => calls[latest[op]] # None /\ calls[latest[op]].op = op
    BY DEF RadarIInv, Typed, CallsTyped
  <2> QED
    BY <2>1, <2>2 DEF NothingStaysBlocked
<1> QED
  BY <1>1, RadarIInvHolds, PTL

\* The effect on [open, tender] of TenderFormDrawer: unless another was picked, a
\* form on the page of a tender sends the status that the page shows, whatever has
\* been fetched since it was opened.
THEOREM FormsFollowThePage == Spec => []FormFollows
<1>1. RadarIInv => FormFollows
  BY DEF RadarIInv, FormInv, Follows, FormFollows
<1> QED
  BY <1>1, RadarIInvHolds, PTL

\* The inbox, the table, the page of a tender and the drawer of proposals: their
\* state is well-formed; at rest they show what the server holds, but for the
\* entries in `told'; a proposal is shown to the tender it was asked for.
THEOREM PagesShowTheServer == Spec => []PageHolds
<1>1. RadarIInv => PageHolds
  <2> SUFFICES ASSUME RadarIInv PROVE PageHolds
    OBVIOUS
  <2>0. Typed /\ DraftInv /\ RadarInv
    BY DEF RadarIInv
  <2>1. TypeOK
    <3>1. row \in [Tenders -> Row \cup {None}] /\ Len(runs) <= MaxRuns /\ \A i \in DOMAIN runs : runs[i] \in RunStatus
      BY <2>0 DEF Typed, RowsTyped
    <3>2. \A t \in Tenders : Shown(t) \in Row \cup {None}
      BY <2>0, ShownIs
    <3>3. {ui.open, ui.pending, ui.reject, ui.erase, ui.proposal, ui.draft} \subseteq Tenders \cup {None}
      BY <2>0 DEF Typed, PageTyped, IsUi
    <3> QED
      BY <2>0, <3>1, <3>2, <3>3 DEF TypeOK, Typed, PageTyped, CallsTyped
  <2>2. RadarIsCurrent
    <3> SUFFICES ASSUME AtRest, ~Crawling, NEW k \in Lists \cup Tenders, Watched(k), k \notin told, Truth(k) # None
                 PROVE  Shown(k) = Truth(k)
      BY DEF RadarIsCurrent
    <3>1. k \in Keys /\ Current(k) /\ LoadedKey(k)
      BY <2>0, ListingIs DEF RadarInv, Listing
    <3>2. cache[k].fetch = "idle" /\ ~cache[k].stale /\ ~CoveredKey(k)
      BY <3>1 DEF AtRest, Idle, CoveredKey, Covers
    <3>3. ~SeenNow
      <4> SUFFICES ASSUME SeenNow PROVE FALSE
        OBVIOUS
      <4>1. Shown("runs") = [id |-> Len(runs), st |-> "active"] /\ Len(runs) \in Nat
        BY <2>0, SeenState DEF Typed, Shown
      <4>2. Shown("runs") \in RunRecord
        BY <4>1 DEF RunRecord, RunStatus
      <4> QED
        BY <4>1, <4>2, NoneAssumption DEF Crawling
    <3> QED
      BY <3>1, <3>2, <3>3 DEF Current, LoadedKey, Shown
  <2>3. DraftBelongs
    BY <2>0 DEF DraftInv, DraftBelongs
  <2> QED
    BY <2>1, <2>2, <2>3 DEF PageHolds
<1> QED
  BY <1>1, RadarIInvHolds, PTL

=============================================================================
