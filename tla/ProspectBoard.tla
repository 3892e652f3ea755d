---------------------------- MODULE ProspectBoard ----------------------------
(***************************************************************************)
(* The pipeline page in the browser: the board of                          *)
(* apps/web/src/pages/prospects/ProspectBoard.tsx with its drawers and     *)
(* dialogs, and the hooks of api/prospects.ts.  A move of a card is shown  *)
(* before the server has it and taken back when the server refuses.        *)
(*                                                                         *)
(* Each request is one step of the server here; how the server's own steps *)
(* interleave is the subject of module Prospects.                          *)
(***************************************************************************)
EXTENDS Naturals, FiniteSets, QueryCache

CONSTANTS
    Cards,     \* ids of prospects
    Slots,     \* bound: mutations under way at a time
    MaxFaults, \* bound: calls and loads that fail
    Bounds     \* the smaller bounds to explore, one record per instance

VARIABLES
    row,     \* the prospect table: the stage of each prospect
    list,    \* the cache entry ['prospects', ...] of the board
    detail,  \* the cache entries ['prospect', id]
    calls,   \* the mutations under way
    latest,  \* the last call of each useMutation, while it is pending
    ui,      \* the local state of the page and its drawers
    budget,  \* the bounds of this behaviour
    told     \* history: what the browser was last told of a card is outdated

vars == <<row, list, detail, calls, latest, ui, budget, told>>

-----------------------------------------------------------------------------

Terminal == {"WON", "LOST"}
\* OPEN stands for QUALIFIED, ENGAGED and PROPOSAL.
Stages == {"NEW", "OPEN"} \cup Terminal
Board == [Cards -> Stages \cup {None}]

\* useMutation: the board's moves, the drawer's moves, the form, deletions.
Hooks == {"board", "drawer", "form", "delete"}

\* The local state of the page.  drag: the card under the pointer; change: the
\* dialog of "Ubah Stage"; move: the dialog for the notes of a move, asked for
\* on the board; open: the card in the drawer; outcome: the drawer's dialog for
\* notes; notes: the card that the notes are about; form and erase: the form
\* and the question whether to delete; only: the stages that are picked in the filter.
NoUi == [drag |-> None, change |-> None, move |-> None, open |-> None,
         outcome |-> None, notes |-> None, form |-> None, erase |-> None,
         only |-> {}, away |-> FALSE]

NoForm == [card |-> None, stage |-> "NEW", picked |-> FALSE, seen |-> None, was |-> None]
FormRecord ==
    [card: Cards \cup {None}, stage: Stages, picked: BOOLEAN, seen: Stages \cup {None}, was: Stages \cup {None}]

\* What a call carries, and what it keeps for a rollback.
CallRecord ==
    [op: {"move", "create", "save", "delete"}, card: Cards \cup {None}, stage: Stages \cup {None},
     hook: Hooks \cup {"gone"}, notes: Cards \cup {None}, st: {"sent", "ok", "failed"},
     was: [list: Board, detail: Stages \cup {None}] \cup {None}, got: Stages \cup {None}, form: FormRecord]

\* cards: the prospects there are at first; calls and opens: how many calls may
\* be sent and dialogs opened; others: changes that this browser has not made.
BoardAssumption ==
    /\ None \notin Cards \cup Stages \cup Board \cup CallRecord /\ Slots \subseteq Nat
    /\ \A b \in Bounds : b.cards \subseteq Cards /\ b.faults \in 0 .. MaxFaults
                         /\ {b.calls, b.opens, b.others} \subseteq Nat

\* The overlay covers the board while a dialog or drawer is open.
Covered == \E d \in {"change", "move", "open", "form", "erase"} : ui[d] # None
Usable == ~ui.away /\ ~Covered /\ list.val # None /\ ui.drag = None

\* The cards on the board: those that the filter of stages lets through.
Shown(p) == /\ list.val # None /\ list.val[p] # None
            /\ ui.only = {} \/ list.val[p] \in ui.only

Pending(h) == latest[h] # None

Open == budget.opens > 0 /\ budget' = [budget EXCEPT !.opens = @ - 1]
Fault == budget.faults > 0 /\ budget' = [budget EXCEPT !.faults = @ - 1]

Same == UNCHANGED <<row, list, detail, calls, latest, told>>
Local(u) == ui' = u /\ UNCHANGED budget /\ Same
Opening(u) == ui' = u /\ Open /\ Same

-----------------------------------------------------------------------------
(* Queries *)

View(v, p) == <<v, p>>
Views(v) == {View(v, p) : p \in Cards}

\* What v was told of a card is not what the server has by now.
Outdated(v, b) == {View(v, p) : p \in {q \in Cards : b[q] # row[q]}}

ServeList ==
    /\ list.fetch = "asked"
    /\ list' = Answered(list, row)
    /\ UNCHANGED <<row, detail, calls, latest, ui, budget, told>>

StoreList ==
    /\ list.fetch = "answered"
    /\ list' = Stored(list)
    /\ told' = (told \ Views("list")) \cup Outdated("list", list.got)
    /\ UNCHANGED <<row, detail, calls, latest, ui, budget>>

\* useProspect is enabled by the drawer being open.
ServeDetail(p) ==
    /\ detail[p].fetch = "asked" /\ row[p] # None
    /\ detail' = [detail EXCEPT ![p] = Answered(@, row[p])]
    /\ UNCHANGED <<row, list, calls, latest, ui, budget, told>>

StoreDetail(p) ==
    /\ detail[p].fetch = "answered"
    /\ detail' = [detail EXCEPT ![p] = Stored(@)]
    /\ told' = IF detail[p].got = row[p] THEN told \ {View("detail", p)}
               ELSE told \cup {View("detail", p)}
    /\ UNCHANGED <<row, list, calls, latest, ui, budget>>

LoadFails ==
    /\ \/ list.fetch = "asked" /\ Fault /\ list' = Cancelled(list)
          /\ told' = told \cup Views("list") /\ UNCHANGED detail
       \/ \E p \in Cards :
             /\ detail[p].fetch = "asked" /\ (Fault \/ (row[p] = None /\ UNCHANGED budget))
             /\ detail' = [detail EXCEPT ![p] = Cancelled(@)]
             /\ told' = told \cup {View("detail", p)} /\ UNCHANGED list
    /\ UNCHANGED <<row, calls, latest, ui>>

\* invalidateQueries over the keys ['prospects'] and ['prospect', id].
ListInvalidated == list' = Invalidated(list, ~ui.away)
DetailInvalidated(d, p) == [d EXCEPT ![p] = Invalidated(@, ui.open = p)]

-----------------------------------------------------------------------------
(* Calls *)

Call(op, p, stage, h, notes) ==
    [op |-> op, card |-> p, stage |-> stage, hook |-> h, notes |-> notes, st |-> "sent",
     was |-> None, got |-> None, form |-> NoForm]

\* The page is left while a call is under way: nothing of it is closed then.
Alive(c) == c.hook # "gone"

SendAs(c) ==
    /\ budget.calls > 0 /\ budget' = [budget EXCEPT !.calls = @ - 1]
    /\ \E s \in Slots : /\ calls[s] = None /\ \A t \in Slots : t < s => calls[t] # None
                       /\ calls' = [calls EXCEPT ![s] = c]
                       /\ latest' = [latest EXCEPT ![c.hook] = s]

\* Mutant: a call that is over leaves its button pending.
StaysPending(s) == calls' = [calls EXCEPT ![s] = None] /\ UNCHANGED latest

Done(s) ==
    /\ calls' = [calls EXCEPT ![s] = None]
    /\ latest' = [h \in Hooks |-> IF latest[h] = s THEN None ELSE latest[h]]

\* onMutate of a move: fetches of the board are cancelled, the caches are kept
\* for a rollback, and the stage is written into both.
SendMove(p, stage, h, notes) ==
    /\ SendAs([Call("move", p, stage, h, notes) EXCEPT
                 !.was = [list |-> list.val, detail |-> detail[p].val]])
    /\ list' = Patched(Cancelled(list), [list.val EXCEPT ![p] = IF @ = None THEN None ELSE stage])
    /\ detail' = IF detail[p].val = None THEN detail
                 ELSE [detail EXCEPT ![p] = Patched(@, stage)]
    /\ told' = IF Idle(list) THEN told ELSE told \cup Views("list")
    /\ UNCHANGED row

Fresh(p) == row[p] = None /\ p \notin budget.used

\* What a request does to the table; a call on a prospect that is gone fails.
Effect(c, p) ==
    CASE c.op \in {"move", "save"} -> [row EXCEPT ![p] = c.stage]
      [] c.op = "create" -> [row EXCEPT ![p] = c.stage]
      [] c.op = "delete" -> [row EXCEPT ![p] = None]

Carry(s) ==
    LET c == calls[s] IN
    /\ c # None /\ c.st = "sent"
    /\ \/ /\ c.op # "create" /\ row[c.card] = None
          /\ calls' = [calls EXCEPT ![s].st = "failed"] /\ UNCHANGED <<row, budget>>
       \/ \E p \in Cards :
             /\ IF c.op = "create" THEN Fresh(p) /\ budget' = [budget EXCEPT !.used = @ \cup {p}]
                                   ELSE p = c.card /\ row[p] # None /\ UNCHANGED budget
             /\ row' = Effect(c, p)
             /\ calls' = [calls EXCEPT ![s].st = "ok", ![s].card = p, ![s].got = row'[p]]
    /\ UNCHANGED <<list, detail, latest, ui, told>>

\* The request or its answer is lost, or the server fails.  Only a move fetches
\* what it has failed to change.
LoseCall(s) ==
    /\ calls[s] # None /\ calls[s].st \in {"sent", "ok"} /\ Fault
    /\ calls' = [calls EXCEPT ![s].st = "failed"]
    /\ told' = IF calls[s].st = "sent" \/ calls[s].op = "move" THEN told
               ELSE told \cup {View("list", calls[s].card), View("detail", calls[s].card)}
    /\ UNCHANGED <<row, list, detail, latest, ui>>

\* Another browser, or the agent's tool update_prospect_stage, moves a prospect.
Elsewhere(p, stage) ==
    /\ row[p] \notin {None, stage}
    /\ budget.others > 0 /\ budget' = [budget EXCEPT !.others = @ - 1]
    /\ row' = [row EXCEPT ![p] = stage]
    /\ told' = told \cup {View("list", p), View("detail", p)}
    /\ UNCHANGED <<list, detail, calls, latest, ui>>

-----------------------------------------------------------------------------
(* The board *)

DragStart(p) == Usable /\ Shown(p) /\ Opening([ui EXCEPT !.drag = p])
DragCancel == ui.drag # None /\ Local([ui EXCEPT !.drag = None])

\* Mutant: the notes of the last dialog are still there.
KeepNotes(u, p, stage) == [u EXCEPT !.move = [card |-> p, stage |-> stage]]

\* A card that is won or lost is asked for notes first.
AskNotes(u, p, stage) ==
    [u EXCEPT !.move = [card |-> p, stage |-> stage], !.notes = None]

\* handleDragEnd looks the card up in what is shown by now.
DragEnd(stage) ==
    LET p == ui.drag
        dropped == [ui EXCEPT !.drag = None]
    IN  /\ p # None
        /\ IF ~Shown(p) \/ list.val[p] = stage THEN Local(dropped)
           ELSE IF stage \in Terminal THEN Local(AskNotes(dropped, p, stage))
           ELSE ui' = dropped /\ SendMove(p, stage, "board", None)

\* "Ubah Stage" of the table keeps a copy of the row.
OpenStageChange(p) ==
    /\ Usable /\ Shown(p)
    /\ \E stage \in Stages :
          Opening([ui EXCEPT !.change = [card |-> p, from |-> list.val[p], stage |-> stage]])

ConfirmStageChange ==
    LET c == ui.change
        closed == [ui EXCEPT !.change = None]
    IN  /\ c # None /\ ui.move = None /\ ~Pending("board")
        /\ IF c.stage = c.from THEN Local(closed)
           ELSE IF c.stage \in Terminal THEN Local(AskNotes(closed, c.card, c.stage))
           ELSE SendMove(c.card, c.stage, "board", None) /\ UNCHANGED ui

TypeNotes ==
    \/ ui.move # None /\ ui.notes = None /\ Local([ui EXCEPT !.notes = ui.move.card])
    \/ ui.outcome # None /\ ui.notes = None /\ Local([ui EXCEPT !.notes = ui.open])

\* OutcomeNotesModal may be dismissed while its call is under way.
ConfirmMove ==
    /\ ui.move # None /\ ~Pending("board")
    /\ SendMove(ui.move.card, ui.move.stage, "board", ui.notes) /\ UNCHANGED ui

AskDelete(p) == Usable /\ Shown(p) /\ Opening([ui EXCEPT !.erase = p])
ConfirmDelete ==
    /\ ui.erase # None /\ ~Pending("delete")
    /\ SendAs(Call("delete", ui.erase, None, "delete", None))
    /\ UNCHANGED <<row, list, detail, ui, told>>

ToggleFilter(stage) ==
    /\ Usable
    /\ Opening([ui EXCEPT !.only = IF stage \in @ THEN @ \ {stage} ELSE @ \cup {stage}])

\* Everything that lies over the board can be dismissed by a click beside it;
\* Escape reaches every open overlay at once.
Dismiss(d) ==
    /\ ui[d] # None /\ (d = "open" => ui.outcome = None)
    /\ Local([ui EXCEPT ![d] = None])
Escape ==
    /\ ui.open # None /\ ui.outcome # None
    /\ Local([ui EXCEPT !.open = None, !.outcome = None])

\* Another page is opened, and the pipeline again.
Leave ==
    /\ ~ui.away /\ ui.drag = None
    /\ ui' = [NoUi EXCEPT !.away = TRUE]
    /\ calls' = [s \in Slots |-> IF calls[s] = None THEN None
                                 ELSE [calls[s] EXCEPT !.hook = "gone"]]
    /\ latest' = [h \in Hooks |-> None]
    /\ Open /\ UNCHANGED <<row, list, detail, told>>

Return ==
    /\ ui.away /\ ui' = NoUi
    /\ list' \in Mounted(list)
    /\ UNCHANGED <<row, detail, calls, latest, budget, told>>

-----------------------------------------------------------------------------
(* The drawer of one prospect *)

OpenDetail(p) ==
    /\ Usable /\ Shown(p) /\ Open
    /\ ui' = [ui EXCEPT !.open = p]
    /\ detail' \in {[detail EXCEPT ![p] = e] : e \in Mounted(detail[p])}
    /\ UNCHANGED <<row, list, calls, latest, told>>

Drawn == ui.open # None /\ detail[ui.open].val # None /\ ui.outcome = None

\* handleStageChange, and the buttons WON and LOST.
DrawerMove(stage) ==
    /\ Drawn /\ ~Pending("drawer") /\ detail[ui.open].val # stage /\ stage \notin Terminal
    /\ SendMove(ui.open, stage, "drawer", None) /\ UNCHANGED ui

DrawerOutcome(stage) ==
    /\ Drawn /\ stage \in Terminal /\ detail[ui.open].val # stage
    /\ Opening([ui EXCEPT !.outcome = stage, !.notes = None])

ConfirmOutcome ==
    /\ ui.outcome # None /\ ~Pending("drawer")
    /\ SendMove(ui.open, ui.outcome, "drawer", ui.notes) /\ UNCHANGED ui

-----------------------------------------------------------------------------
(* The form *)

OpenCreate == Usable /\ Opening([ui EXCEPT !.form = NoForm])

\* Mutant: the form forgets the stage of the row it was opened for.
BlankForm(p) == [NoForm EXCEPT !.card = p, !.seen = list.val[p], !.was = row[p]]

\* prospectToForm: a copy of the row as it is shown when the form is opened.
FormOf(p) == [NoForm EXCEPT !.card = p, !.stage = list.val[p], !.seen = list.val[p], !.was = row[p]]

OpenEdit(p) == Usable /\ Shown(p) /\ Opening([ui EXCEPT !.form = FormOf(p)])

PickStage(stage) ==
    /\ ui.form # None /\ ~ui.form.picked
    /\ Local([ui EXCEPT !.form.stage = stage, !.form.picked = TRUE])

\* formToBody sends every field, the stage among them.
Submit ==
    /\ ui.form # None /\ ~Pending("form")
    /\ SendAs([Call(IF ui.form.card = None THEN "create" ELSE "save", ui.form.card,
                    ui.form.stage, "form", None) EXCEPT !.form = ui.form])
    /\ UNCHANGED <<row, list, detail, ui, told>>

-----------------------------------------------------------------------------
(* Answers *)

\* The handlers that wait for a call close the dialog that is open by now.
Closed(c) ==
    IF ~Alive(c) THEN ui
    ELSE CASE c.hook = "board" -> [ui EXCEPT !.move = IF c.stage \in Terminal THEN None ELSE @,
                                             !.notes = IF c.stage \in Terminal THEN None ELSE @,
                                             !.change = IF c.stage \in Terminal THEN @ ELSE None]
           [] c.hook = "drawer" -> [ui EXCEPT !.outcome = IF c.stage \in Terminal THEN None ELSE @,
                                              !.notes = IF c.stage \in Terminal THEN None ELSE @]
           [] c.hook = "form" -> [ui EXCEPT !.form = None]
           [] c.hook = "delete" -> [ui EXCEPT !.erase = None]

\* onSuccess of a move writes the answer into the caches and fetches nothing.
OnMoved(s) ==
    LET c == calls[s]
        p == c.card
        views == {View("list", p), View("detail", p)}
    IN  /\ c # None /\ c.st = "ok" /\ c.op = "move"
        /\ list' = IF list.val = None THEN list
                   ELSE Patched(list, [list.val EXCEPT ![p] = IF @ = None THEN None ELSE c.got])
        /\ detail' = [detail EXCEPT ![p] = Patched(@, c.got)]
        /\ told' = told \cup (IF c.got # row[p] THEN views ELSE {})
                        \cup (IF list.stale /\ list.fetch = "idle" THEN Views("list") ELSE {})
        /\ ui' = Closed(c) /\ Done(s)
        /\ UNCHANGED <<row, budget>>

\* Mutant: only the page that has sent a move handles its failure.
HandledOnPage(s) ==
    LET c == calls[s] IN
    /\ c # None /\ c.st = "failed" /\ c.op = "move" /\ Alive(c)
    /\ list' = Invalidated(Patched(list, c.was.list), ~ui.away)
    /\ detail' = DetailInvalidated(detail, c.card)
    /\ ui' = Closed(c) /\ Done(s)
    /\ UNCHANGED <<row, budget, told>>

\* onError puts the whole board back as it was before this move, and fetches.
OnMoveFailed(s) ==
    LET c == calls[s]
        p == c.card
        back == IF c.was.detail = None THEN detail
                ELSE [detail EXCEPT ![p] = Patched(@, c.was.detail)]
    IN  /\ c # None /\ c.st = "failed" /\ c.op = "move"
        /\ list' = Invalidated(Patched(list, c.was.list), ~ui.away)
        /\ detail' = DetailInvalidated(back, p)
        /\ ui' = Closed(c) /\ Done(s)
        /\ UNCHANGED <<row, budget, told>>

OnSaved(s) ==
    LET c == calls[s] IN
    /\ c # None /\ c.st = "ok" /\ c.op \in {"create", "save"}
    /\ ListInvalidated
    /\ detail' = IF c.op = "create" THEN detail ELSE DetailInvalidated(detail, c.card)
    /\ ui' = Closed(c) /\ Done(s)
    /\ UNCHANGED <<row, budget, told>>

\* Mutant: the board is not fetched again after a deletion.
KeepsList == UNCHANGED list

AfterDelete == ListInvalidated

OnDeleted(s) ==
    LET c == calls[s] IN
    /\ c # None /\ c.st = "ok" /\ c.op = "delete"
    /\ AfterDelete /\ ui' = Closed(c) /\ Done(s)
    /\ UNCHANGED <<row, detail, budget, told>>

\* The form stays open when its call has failed; the question is closed.
OnFailed(s) ==
    LET c == calls[s] IN
    /\ c # None /\ c.st = "failed" /\ c.op # "move"
    /\ ui' = IF c.hook = "form" THEN ui ELSE Closed(c)
    /\ Done(s)
    /\ UNCHANGED <<row, list, detail, budget, told>>

-----------------------------------------------------------------------------
Init ==
    /\ \E b \in Bounds :
          /\ budget = [calls |-> b.calls, opens |-> b.opens, faults |-> b.faults,
                       others |-> b.others, used |-> b.cards]
          /\ row = [p \in Cards |-> IF p \in b.cards THEN "NEW" ELSE None]
    /\ list = Loaded(row) /\ detail = [p \in Cards |-> NoEntry]
    /\ calls = [s \in Slots |-> None] /\ latest = [h \in Hooks |-> None]
    /\ ui = NoUi /\ told = {}

Query == ServeList \/ StoreList \/ \E p \in Cards : ServeDetail(p) \/ StoreDetail(p)
Deliver(s) == OnMoved(s) \/ OnMoveFailed(s) \/ OnSaved(s) \/ OnDeleted(s) \/ OnFailed(s)
UseBoard == DragCancel \/ (\E p \in Cards : DragStart(p)) \/ \E t \in Stages : DragEnd(t)
UseTable == \E p \in Cards : OpenDetail(p) \/ OpenEdit(p) \/ OpenStageChange(p) \/ AskDelete(p)
UseDialogs ==
    \/ ConfirmStageChange \/ ConfirmMove \/ ConfirmDelete \/ TypeNotes \/ Escape
    \/ \E d \in {"change", "move", "open", "outcome", "form", "erase"} : Dismiss(d)
UseDrawer == ConfirmOutcome \/ \E t \in Stages : DrawerMove(t) \/ DrawerOutcome(t)
UseForm == OpenCreate \/ Submit \/ \E t \in Stages : PickStage(t)

Next ==
    \/ Query \/ LoadFails
    \/ \E s \in Slots : Carry(s) \/ LoseCall(s) \/ Deliver(s)
    \/ \E p \in Cards, t \in Stages : Elsewhere(p, t)
    \/ UseBoard \/ UseTable \/ UseDialogs \/ UseDrawer \/ UseForm
    \/ Leave \/ Return \/ \E t \in Stages : ToggleFilter(t)

Spec == Init /\ [][Next]_vars

\* Requests are answered and answers are handled; the user need do nothing.
FairSpec ==
    /\ Spec /\ WF_vars(Query)
    /\ \A s \in Slots : WF_vars(Carry(s)) /\ WF_vars(Deliver(s))

-----------------------------------------------------------------------------
(* Properties *)

TypeOK ==
    /\ row \in Board /\ list \in Entry(Board) /\ detail \in [Cards -> Entry(Stages)]
    /\ ui.open \in Cards \cup {None} /\ ui.notes \in Cards \cup {None}
    /\ told \subseteq Views("list") \cup Views("detail")
    /\ calls \in [Slots -> CallRecord \cup {None}]
    /\ \A h \in Hooks : latest[h] # None => calls[latest[h]] # None /\ calls[latest[h]].hook = h

Resting == \A s \in Slots : calls[s] = None
AtRest(p) == Resting /\ ~ui.away /\ Idle(list) /\ Idle(detail[p])

\* When nothing is under way, the board and the drawer show what the server
\* has, except of a card that the browser was told something outdated about,
\* or when a move has cancelled a fetch of the board or taken off its mark.  A
\* deletion is not told to the drawer.
BoardIsCurrent ==
    \A p \in Cards : AtRest(p) =>
        /\ list.val # None /\ View("list", p) \notin told => list.val[p] = row[p]
        /\ ui.open = p /\ None \notin {detail[p].val, row[p]} /\ View("detail", p) \notin told
              => detail[p].val = row[p]

\* The notes that are sent with an outcome were typed for that prospect.
NotesBelong ==
    \A s \in Slots : calls[s] # None => calls[s].notes \in {None, calls[s].card}

\* An edit that leaves the stage alone leaves it alone on the server, unless the
\* form was opened on a stage the server did not have, or the prospect was
\* moved while the form was open.
SavesKeepStage ==
    \A s \in Slots :
        LET c == calls[s] IN
        /\ c # None /\ c.op = "save" /\ c.st = "sent" /\ ~c.form.picked
        /\ calls'[s] # None /\ calls'[s].st = "ok"
        /\ c.form.seen = c.form.was /\ row[c.card] = c.form.was
        => row'[c.card] = row[c.card]
EditKeepsStage == [][SavesKeepStage]_vars

\* A stage that is shown but not had is settled, one way or the other.
Unsettled(p) ==
    /\ list.val # None /\ list.val[p] # row[p]
    /\ View("list", p) \notin told /\ ~list.stale /\ ~ui.away
DropSettles == \A p \in Cards : Unsettled(p) ~> ~Unsettled(p)
=============================================================================
