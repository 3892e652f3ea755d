----------------------------- MODULE BoardsProofs -----------------------------
(***************************************************************************)
(* Proofs about Boards, for every value of its constants.  The first part  *)
(* shows an inductive invariant of the pipeline board (BoardInv), the      *)
(* second one of the pages of the events and of the analyses behind them   *)
(* (EventInv); the last part joins the scenes.                             *)
(***************************************************************************)
EXTENDS Boards, Sequences, TLAPS

-----------------------------------------------------------------------------
(* The pipeline board *)

BoardUi ==
    [drag: Cards \cup {None}, change: [card: Cards, from: Board!Stages, stage: Board!Stages] \cup {None},
     move: [card: Cards, stage: Board!Stages] \cup {None}, open: Cards \cup {None}, outcome: Board!Stages \cup {None},
     notes: Cards \cup {None}, form: Board!FormRecord \cup {None}, erase: Cards \cup {None},
     only: SUBSET Board!Stages, away: BOOLEAN]

\* Beside the drawer nothing is asked; notes are those of the dialog that is open;
\* a form in which no stage was picked has the one it was opened with.
BoardUiSound(u) ==
    /\ u \in BoardUi
    /\ u.open # None => u.drag = None /\ u.change = None /\ u.move = None
    /\ u.outcome # None => u.open # None /\ u.notes \in {None, u.open}
    /\ u.move # None => u.notes \in {None, u.move.card}
    /\ u.form # None /\ u.form.card # None /\ ~u.form.picked => u.form.stage = u.form.seen

\* What a call has, by what it is for.
BoardCallSound(c) ==
    /\ c \in Board!CallRecord
    /\ c.op # "create" \/ c.st = "ok" => c.card \in Cards
    /\ c.op # "delete" => c.stage \in Board!Stages
    /\ c.op = "move" => c.was \in [list: Board!Board, detail: Board!Stages \cup {None}]
       /\ (c.st = "ok" => c.got \in Board!Stages)
    /\ c.op = "save" /\ ~c.form.picked => c.stage = c.form.seen
    /\ c.notes \in {None, c.card} /\ (c.op # "move" => c.notes = None)

BudgetSound(b) == b \in [calls: Nat, opens: Nat, faults: Nat, others: Nat, used: SUBSET Cards]

BoardEntrySound(e, V) == e \in Board!Entry(V) /\ (e.fetch = "answered" => e.got \in V)

BoardServerTyped ==
    /\ row \in Board!Board /\ BoardEntrySound(list, Board!Board) /\ list.val \in Board!Board
    /\ detail \in [Cards -> Board!Entry(Board!Stages)] /\ \A p \in Cards : BoardEntrySound(detail[p], Board!Stages)
    /\ told \subseteq Board!Views("list") \cup Board!Views("detail")
BoardCallsTyped ==
    /\ calls \in [Slots -> Board!CallRecord \cup {None}]
       /\ \A s \in Slots : calls[s] # None => BoardCallSound(calls[s])
    /\ latest \in [Board!Hooks -> Slots \cup {None}]
    /\ \A h \in Board!Hooks : latest[h] # None => calls[latest[h]] # None /\ calls[latest[h]].hook = h
BoardTyped == BoardServerTyped /\ BoardCallsTyped /\ BoardUiSound(ui) /\ BudgetSound(budget)

\* Of a prospect that has not been there, nothing is known.
CardsKnown ==
    /\ \A p \in Cards \ budget.used : row[p] = None /\ detail[p].val = None /\ detail[p].fetch # "answered"
    /\ \A s \in Slots : calls[s] # None /\ calls[s].op = "move" /\ (calls[s].st = "ok" \/ calls[s].was.detail # None)
                         => calls[s].card \in budget.used

\* What board and drawer show is right, or will be put right.
Moving(p) == \E s \in Slots : calls[s] # None /\ calls[s].op = "move" /\ calls[s].card = p
BoardWritten(p, ops) ==
    \E s \in Slots : calls[s] # None /\ calls[s].op \in ops /\ calls[s].st = "ok" /\ calls[s].card = p
ListOk(p) ==
    \/ Board!View("list", p) \in told \/ list.stale \/ list.fetch # "idle" \/ list.val[p] = row[p]
    \/ (Moving(p) /\ list.val[p] # None) \/ BoardWritten(p, {"create", "save", "delete"})
DetailOk(p) ==
    \/ Board!View("detail", p) \in told \/ detail[p].stale \/ detail[p].fetch # "idle"
    \/ detail[p].val \in {None, row[p]} \/ row[p] = None
    \/ Moving(p) \/ BoardWritten(p, {"save"})
BoardInv == BoardTyped /\ CardsKnown /\ \A p \in Cards : ListOk(p) /\ DetailOk(p)

-----------------------------------------------------------------------------
(* What users do *)

Edited == BoardUiSound(ui') /\ Board!Same /\ (UNCHANGED budget \/ Board!Open)
Moved ==
    /\ BoardUiSound(ui')
    /\ \E p \in Cards, t \in Board!Stages, h \in {"board", "drawer"}, n \in Cards \cup {None} :
          n \in {None, p} /\ Board!SendMove(p, t, h, n)
Asked ==
    \E c \in Board!CallRecord :
       /\ BoardCallSound(c) /\ c.op # "move" /\ c.st = "sent" /\ c.hook \in Board!Hooks
       /\ Board!SendAs(c) /\ UNCHANGED <<row, list, detail, ui, told>>

LEMMA BoardNone == None \notin Cards /\ None \notin Board!Stages /\ None \notin Board!CallRecord
      /\ None \notin Board!Board
BY BoardsAssumption DEF Board!BoardAssumption

LEMMA CardShown ==
    ASSUME BoardTyped, NEW p \in Cards, Board!Shown(p)
    PROVE  list.val[p] \in Board!Stages
BY DEF BoardTyped, BoardServerTyped, Board!Shown, Board!Board

LEMMA UsableIs ==
    ASSUME Board!Usable
    PROVE  ui.drag = None /\ ui.change = None /\ ui.move = None /\ ui.open = None /\ ui.form = None
BY DEF Board!Usable, Board!Covered

LEMMA Dragging ==
    ASSUME BoardTyped,
           Board!DragCancel \/ (\E p \in Cards : Board!DragStart(p)) \/ \E t \in Board!Stages : Board!DragEnd(t)
    PROVE  Edited \/ Moved
<1>0. BoardUiSound(ui) /\ ui \in BoardUi
  BY DEF BoardTyped, BoardUiSound
<1>1. CASE Board!DragCancel
  <2>1. ui' = [ui EXCEPT !.drag = None] /\ Board!Same /\ UNCHANGED budget
    BY <1>1, Zenon DEF Board!DragCancel, Board!Local
  <2>2. BoardUiSound(ui')
    BY <1>0, <2>1 DEF BoardUiSound, BoardUi
  <2> QED
    BY <2>1, <2>2 DEF Edited
<1>2. ASSUME NEW p \in Cards, Board!DragStart(p) PROVE Edited
  <2>1. Board!Usable /\ ui' = [ui EXCEPT !.drag = p] /\ Board!Same /\ Board!Open
    BY <1>2, Zenon DEF Board!DragStart, Board!Opening
  <2>2. BoardUiSound(ui')
    BY <1>0, <2>1, UsableIs DEF BoardUiSound, BoardUi
  <2> QED
    BY <2>1, <2>2 DEF Edited
<1>3. ASSUME NEW t \in Board!Stages, Board!DragEnd(t) PROVE Edited \/ Moved
  <2> DEFINE dropped == [ui EXCEPT !.drag = None]
  <2>1. /\ ui.drag # None
        /\ \/ Board!Local(dropped)
           \/ Board!Local(Board!AskNotes(dropped, ui.drag, t))
           \/ ui' = dropped /\ Board!SendMove(ui.drag, t, "board", None)
    BY <1>3, Zenon DEF Board!DragEnd
  <2>2. ui.drag \in Cards /\ ui.open = None /\ ui.outcome = None
    BY <1>0, <2>1 DEF BoardUiSound, BoardUi
  <2>3. BoardUiSound(dropped)
    BY <1>0 DEF BoardUiSound, BoardUi
  <2>4. BoardUiSound(Board!AskNotes(dropped, ui.drag, t))
    BY <1>0, <2>2 DEF BoardUiSound, BoardUi, Board!AskNotes
  <2> HIDE DEF dropped
  <2>5. CASE Board!Local(dropped) \/ Board!Local(Board!AskNotes(dropped, ui.drag, t))
    BY <2>3, <2>4, <2>5 DEF Edited, Board!Local
  <2>6. CASE ui' = dropped /\ Board!SendMove(ui.drag, t, "board", None)
    BY <2>2, <2>3, <2>6 DEF Moved
  <2> QED
    BY <2>1, <2>5, <2>6
<1> QED
  BY <1>1, <1>2, <1>3

LEMMA TableUsed ==
    ASSUME BoardTyped, NEW p \in Cards, Board!OpenEdit(p) \/ Board!OpenStageChange(p) \/ Board!AskDelete(p)
    PROVE  Edited
<1>0. BoardUiSound(ui) /\ ui \in BoardUi
  BY DEF BoardTyped, BoardUiSound
<1>1. CASE Board!OpenEdit(p)
  <2>1. Board!Usable /\ Board!Shown(p) /\ ui' = [ui EXCEPT !.form = Board!FormOf(p)] /\ Board!Same /\ Board!Open
    BY <1>1, Zenon DEF Board!OpenEdit, Board!Opening
  <2>2. Board!FormOf(p) \in Board!FormRecord /\ Board!FormOf(p).stage = Board!FormOf(p).seen
    BY <2>1, CardShown DEF Board!FormOf, Board!NoForm, Board!FormRecord, BoardTyped, BoardServerTyped, Board!Board
  <2>3. BoardUiSound(ui')
    BY <1>0, <2>1, <2>2 DEF BoardUiSound, BoardUi
  <2> QED
    BY <2>1, <2>3 DEF Edited
<1>2. CASE Board!OpenStageChange(p)
  <2>1. PICK t \in Board!Stages :
           Board!Usable /\ Board!Shown(p)
           /\ ui' = [ui EXCEPT !.change = [card |-> p, from |-> list.val[p], stage |-> t]]
           /\ Board!Same /\ Board!Open
    BY <1>2, Zenon DEF Board!OpenStageChange, Board!Opening
  <2>3. BoardUiSound(ui')
    BY <1>0, <2>1, CardShown, UsableIs DEF BoardUiSound, BoardUi
  <2> QED
    BY <2>1, <2>3 DEF Edited
<1>3. CASE Board!AskDelete(p)
  <2>1. ui' = [ui EXCEPT !.erase = p] /\ Board!Same /\ Board!Open
    BY <1>3, Zenon DEF Board!AskDelete, Board!Opening
  <2>3. BoardUiSound(ui')
    BY <1>0, <2>1 DEF BoardUiSound, BoardUi
  <2> QED
    BY <2>1, <2>3 DEF Edited
<1> QED
  BY <1>1, <1>2, <1>3

LEMMA DialogsUsed ==
    ASSUME BoardTyped, Board!UseDialogs
    PROVE  Edited \/ Moved \/ Asked
<1>0. BoardUiSound(ui) /\ ui \in BoardUi
  BY DEF BoardTyped, BoardUiSound
<1>1. CASE Board!ConfirmStageChange
  <2> DEFINE closed == [ui EXCEPT !.change = None]
             c == ui.change
  <2>1. /\ c # None /\ ui.move = None
        /\ \/ Board!Local(closed)
           \/ Board!Local(Board!AskNotes(closed, c.card, c.stage))
           \/ Board!SendMove(c.card, c.stage, "board", None) /\ UNCHANGED ui
    BY <1>1, Zenon DEF Board!ConfirmStageChange
  <2>2. c.card \in Cards /\ c.stage \in Board!Stages /\ ui.open = None /\ ui.outcome = None
    BY <1>0, <2>1 DEF BoardUiSound, BoardUi
  <2>3. BoardUiSound(closed)
    BY <1>0 DEF BoardUiSound, BoardUi
  <2>4. BoardUiSound(Board!AskNotes(closed, c.card, c.stage))
    BY <1>0, <2>2 DEF BoardUiSound, BoardUi, Board!AskNotes
  <2> HIDE DEF closed, c
  <2>5. CASE Board!Local(closed) \/ Board!Local(Board!AskNotes(closed, c.card, c.stage))
    BY <2>3, <2>4, <2>5 DEF Edited, Board!Local
  <2>6. CASE Board!SendMove(c.card, c.stage, "board", None) /\ UNCHANGED ui
    BY <1>0, <2>2, <2>6 DEF Moved
  <2> QED
    BY <2>1, <2>5, <2>6
<1>2. CASE Board!ConfirmMove
  <2>1. ui.move # None /\ Board!SendMove(ui.move.card, ui.move.stage, "board", ui.notes) /\ UNCHANGED ui
    BY <1>2, Zenon DEF Board!ConfirmMove
  <2>2. ui.move.card \in Cards /\ ui.move.stage \in Board!Stages /\ ui.notes \in {None, ui.move.card}
    BY <1>0, <2>1 DEF BoardUiSound, BoardUi
  <2> QED
    BY <1>0, <2>1, <2>2 DEF Moved
<1>3. CASE Board!ConfirmDelete
  <2> DEFINE c == Board!Call("delete", ui.erase, None, "delete", None)
  <2>1. ui.erase # None /\ Board!SendAs(c) /\ UNCHANGED <<row, list, detail, ui, told>>
    BY <1>3, Zenon DEF Board!ConfirmDelete
  <2>2. ui.erase \in Cards
    BY <1>0, <2>1 DEF BoardUi
  <2>3. c \in Board!CallRecord /\ c.op = "delete" /\ c.card = ui.erase /\ c.hook = "delete" /\ c.notes = None
        /\ c.st = "sent"
    BY <2>2 DEF Board!Call, Board!CallRecord, Board!FormRecord, Board!NoForm, Board!Stages, Board!Hooks
  <2> HIDE DEF c
  <2> QED
    BY <2>1, <2>2, <2>3 DEF Asked, BoardCallSound, Board!Hooks
<1>4. CASE Board!TypeNotes
  <2>1. CASE ui.move # None /\ ui.notes = None /\ Board!Local([ui EXCEPT !.notes = ui.move.card])
    <3>1. BoardUiSound(ui')
      BY <1>0, <2>1 DEF Board!Local, BoardUiSound, BoardUi
    <3> QED
      BY <2>1, <3>1 DEF Edited, Board!Local
  <2>2. CASE ui.outcome # None /\ ui.notes = None /\ Board!Local([ui EXCEPT !.notes = ui.open])
    <3>1. BoardUiSound(ui')
      BY <1>0, <2>2 DEF Board!Local, BoardUiSound, BoardUi
    <3> QED
      BY <2>2, <3>1 DEF Edited, Board!Local
  <2> QED
    BY <1>4, <2>1, <2>2 DEF Board!TypeNotes
<1>5. CASE Board!Escape
  <2>1. ui' = [ui EXCEPT !.open = None, !.outcome = None] /\ Board!Same /\ UNCHANGED budget
    BY <1>5, Zenon DEF Board!Escape, Board!Local
  <2>2. BoardUiSound(ui')
    BY <1>0, <2>1 DEF BoardUiSound, BoardUi
  <2> QED
    BY <2>1, <2>2 DEF Edited
<1>6. ASSUME NEW d \in {"change", "move", "open", "outcome", "form", "erase"}, Board!Dismiss(d) PROVE Edited
  <2>1. ui' = [ui EXCEPT ![d] = None] /\ Board!Same /\ UNCHANGED budget /\ (d = "open" => ui.outcome = None)
    BY <1>6, Zenon DEF Board!Dismiss, Board!Local
  <2>2. CASE d = "change"
    BY <1>0, <2>1, <2>2 DEF Edited, BoardUiSound, BoardUi
  <2>3. CASE d = "move"
    BY <1>0, <2>1, <2>3 DEF Edited, BoardUiSound, BoardUi
  <2>4. CASE d = "open"
    BY <1>0, <2>1, <2>4 DEF Edited, BoardUiSound, BoardUi
  <2>5. CASE d = "outcome"
    BY <1>0, <2>1, <2>5 DEF Edited, BoardUiSound, BoardUi
  <2>6. CASE d = "form"
    BY <1>0, <2>1, <2>6 DEF Edited, BoardUiSound, BoardUi
  <2>7. CASE d = "erase"
    BY <1>0, <2>1, <2>7 DEF Edited, BoardUiSound, BoardUi
  <2> QED
    BY <1>6, <2>2, <2>3, <2>4, <2>5, <2>6, <2>7
<1> QED
  BY <1>1, <1>2, <1>3, <1>4, <1>5, <1>6, Zenon DEF Board!UseDialogs

LEMMA DrawerUsed ==
    ASSUME BoardTyped, Board!UseDrawer
    PROVE  Edited \/ Moved
<1>0. BoardUiSound(ui) /\ ui \in BoardUi
  BY DEF BoardTyped, BoardUiSound
<1>1. CASE Board!ConfirmOutcome
  <2>1. ui.outcome # None /\ Board!SendMove(ui.open, ui.outcome, "drawer", ui.notes) /\ UNCHANGED ui
    BY <1>1, Zenon DEF Board!ConfirmOutcome
  <2>2. ui.open \in Cards /\ ui.outcome \in Board!Stages /\ ui.notes \in {None, ui.open}
    BY <1>0, <2>1 DEF BoardUiSound, BoardUi
  <2> QED
    BY <1>0, <2>1, <2>2 DEF Moved
<1>2. ASSUME NEW t \in Board!Stages, Board!DrawerMove(t) PROVE Moved
  <2>1. Board!Drawn /\ Board!SendMove(ui.open, t, "drawer", None) /\ UNCHANGED ui
    BY <1>2, Zenon DEF Board!DrawerMove
  <2>2. ui.open \in Cards
    BY <1>0, <2>1 DEF BoardUiSound, BoardUi, Board!Drawn
  <2> QED
    BY <1>0, <2>1, <2>2 DEF Moved
<1>3. ASSUME NEW t \in Board!Stages, Board!DrawerOutcome(t) PROVE Edited
  <2>1. Board!Drawn /\ ui' = [ui EXCEPT !.outcome = t, !.notes = None] /\ Board!Same /\ Board!Open
    BY <1>3, Zenon DEF Board!DrawerOutcome, Board!Opening
  <2>2. BoardUiSound(ui')
    BY <1>0, <2>1 DEF BoardUiSound, BoardUi, Board!Drawn
  <2> QED
    BY <2>1, <2>2 DEF Edited
<1> QED
  BY <1>1, <1>2, <1>3, Zenon DEF Board!UseDrawer

LEMMA FormUsed ==
    ASSUME BoardTyped, Board!UseForm
    PROVE  Edited \/ Asked
<1>0. BoardUiSound(ui) /\ ui \in BoardUi
  BY DEF BoardTyped, BoardUiSound
<1>1. CASE Board!OpenCreate
  <2>1. Board!Usable /\ ui' = [ui EXCEPT !.form = Board!NoForm] /\ Board!Same /\ Board!Open
    BY <1>1, Zenon DEF Board!OpenCreate, Board!Opening
  <2>2. Board!NoForm \in Board!FormRecord /\ Board!NoForm.card = None
    BY DEF Board!NoForm, Board!FormRecord, Board!Stages
  <2>3. BoardUiSound(ui')
    BY <1>0, <2>1, <2>2 DEF BoardUiSound, BoardUi
  <2> QED
    BY <2>1, <2>3 DEF Edited
<1>2. CASE Board!Submit
  <2> DEFINE op == IF ui.form.card = None THEN "create" ELSE "save"
             c == Board!Call(op, ui.form.card, ui.form.stage, "form", None)
             d == [c EXCEPT !.form = ui.form]
  <2>1. ui.form # None /\ Board!SendAs(d) /\ UNCHANGED <<row, list, detail, ui, told>>
    BY <1>2, Zenon DEF Board!Submit
  <2>2. ui.form \in Board!FormRecord
    BY <1>0, <2>1 DEF BoardUi
  <2>3. c \in Board!CallRecord /\ c.op = op /\ c.card = ui.form.card /\ c.stage = ui.form.stage /\ c.hook = "form"
        /\ c.notes = None /\ c.st = "sent"
    BY <2>2 DEF Board!Call, Board!CallRecord, Board!FormRecord, Board!NoForm, Board!Stages, Board!Hooks
  <2> HIDE DEF c
  <2>4. d \in Board!CallRecord /\ d.op = op /\ d.card = ui.form.card /\ d.stage = ui.form.stage /\ d.hook = "form"
        /\ d.notes = None /\ d.st = "sent" /\ d.form = ui.form
    BY <2>2, <2>3 DEF Board!CallRecord
  <2> HIDE DEF d
  <2>5. BoardCallSound(d)
    BY <1>0, <2>1, <2>2, <2>4 DEF BoardCallSound, BoardUiSound, Board!FormRecord
  <2> QED
    BY <2>1, <2>4, <2>5 DEF Asked, Board!Hooks
<1>3. ASSUME NEW t \in Board!Stages, Board!PickStage(t) PROVE Edited
  <2>1. ui.form # None /\ ui' = [ui EXCEPT !.form.stage = t, !.form.picked = TRUE] /\ Board!Same /\ UNCHANGED budget
    BY <1>3, Zenon DEF Board!PickStage, Board!Local
  <2>2. ui.form \in Board!FormRecord
    BY <1>0, <2>1 DEF BoardUi
  <2>3. ui'.form \in Board!FormRecord /\ ui'.form.picked
    BY <1>0, <2>1, <2>2 DEF BoardUi, Board!FormRecord
  <2>4. BoardUiSound(ui')
    BY <1>0, <2>1, <2>3 DEF BoardUiSound, BoardUi
  <2> QED
    BY <2>1, <2>4 DEF Edited
<1> QED
  BY <1>1, <1>2, <1>3, Zenon DEF Board!UseForm

LEMMA BoardSteps ==
    ASSUME BoardTyped, Board!Next
    PROVE  \/ Edited \/ Moved \/ Asked \/ Board!ServeList \/ Board!StoreList \/ Board!LoadFails \/ Board!Leave
              \/ Board!Return
           \/ \E p \in Cards : Board!ServeDetail(p) \/ Board!StoreDetail(p) \/ Board!OpenDetail(p)
              \/ \E t \in Board!Stages : Board!Elsewhere(p, t)
           \/ \E s \in Slots : Board!Carry(s) \/ Board!LoseCall(s) \/ Board!OnMoved(s) \/ Board!OnMoveFailed(s) \/ Board!OnSaved(s)
                              \/ Board!OnDeleted(s) \/ Board!OnFailed(s)
<1>1. CASE Board!UseBoard
  BY <1>1, Dragging, Zenon DEF Board!UseBoard
<1>2. CASE Board!UseTable
  BY <1>2, TableUsed, Zenon DEF Board!UseTable
<1>3. CASE Board!UseDialogs
  BY <1>3, DialogsUsed
<1>4. CASE Board!UseDrawer
  BY <1>4, DrawerUsed
<1>5. CASE Board!UseForm
  BY <1>5, FormUsed
<1>6. ASSUME NEW t \in Board!Stages, Board!ToggleFilter(t) PROVE Edited
  <2>0. BoardUiSound(ui) /\ ui \in BoardUi
    BY DEF BoardTyped, BoardUiSound
  <2>1. /\ ui' = [ui EXCEPT !.only = IF t \in @ THEN @ \ {t} ELSE @ \cup {t}]
        /\ Board!Same /\ Board!Open
    BY <1>6, Zenon DEF Board!ToggleFilter, Board!Opening
  <2>2. BoardUiSound(ui')
    BY <2>0, <2>1 DEF BoardUiSound, BoardUi
  <2> QED
    BY <2>1, <2>2 DEF Edited
<1>7. CASE Board!Query
  BY <1>7, Zenon DEF Board!Query
<1> QED
  BY <1>1, <1>2, <1>3, <1>4, <1>5, <1>6, <1>7, Zenon DEF Board!Next, Board!Deliver

-----------------------------------------------------------------------------
(* What the steps do to the parts of a state *)

LEMMA BoardEntryIs ==
    ASSUME NEW V, NEW e, BoardEntrySound(e, V)
    PROVE  /\ e = [val |-> e.val, stale |-> e.stale, fetch |-> e.fetch, got |-> e.got]
           /\ e.val \in V \cup {None} /\ e.stale \in BOOLEAN /\ e.got \in V \cup {None}
           /\ e.fetch \in {"idle", "asked", "answered"} /\ (e.fetch = "answered" => e.got \in V)
BY DEF BoardEntrySound, Board!Entry

LEMMA BoardEntryRefetched ==
    ASSUME NEW V, NEW e, BoardEntrySound(e, V)
    PROVE  /\ BoardEntrySound(Board!Refetched(e), V) /\ Board!Refetched(e).val = e.val
              /\ (e.stale => Board!Refetched(e).stale)
           /\ Board!Refetched(e).fetch # "idle" /\ (Board!Refetched(e).fetch = "answered" => e.fetch = "answered")
BY BoardEntryIs DEF Board!Refetched, BoardEntrySound, Board!Entry

LEMMA BoardEntryOpened ==
    ASSUME NEW V, NEW e, BoardEntrySound(e, V), NEW x \in Board!Mounted(e)
    PROVE  /\ BoardEntrySound(x, V) /\ x.val = e.val /\ (e.stale => x.stale) /\ (e.fetch # "idle" => x.fetch # "idle")
           /\ (x.fetch = "answered" => e.fetch = "answered")
<1>1. x \in {e, Board!Refetched(e)}
  BY DEF Board!Mounted, Board!Opened
<1> QED
  BY <1>1, BoardEntryRefetched

LEMMA BoardEntryMarked ==
    ASSUME NEW V, NEW e, BoardEntrySound(e, V), NEW watched
    PROVE  /\ BoardEntrySound(Board!Invalidated(e, watched), V) /\ Board!Invalidated(e, watched).val = e.val
           /\ Board!Invalidated(e, watched).stale
           /\ (Board!Invalidated(e, watched).fetch = "answered" => e.fetch = "answered")
<1> DEFINE x == IF watched THEN Board!Refetched(e) ELSE e
<1>1. BoardEntrySound(x, V) /\ x.val = e.val /\ (x.fetch = "answered" => e.fetch = "answered")
  BY BoardEntryRefetched
<1>2. Board!Invalidated(e, watched) = [x EXCEPT !.stale = TRUE]
  BY DEF Board!Invalidated
<1> HIDE DEF x
<1> QED
  BY <1>1, <1>2, BoardEntryIs DEF BoardEntrySound, Board!Entry

LEMMA BoardEntryCancelled ==
    ASSUME NEW V, NEW e, BoardEntrySound(e, V)
    PROVE  BoardEntrySound(Board!Cancelled(e), V) /\ Board!Cancelled(e).val = e.val
           /\ Board!Cancelled(e).fetch = "idle"
BY BoardEntryIs DEF Board!Cancelled, BoardEntrySound, Board!Entry

LEMMA EntryPatched ==
    ASSUME NEW V, NEW e, BoardEntrySound(e, V), NEW v \in V
    PROVE  BoardEntrySound(Board!Patched(e, v), V) /\ Board!Patched(e, v).val = v
           /\ Board!Patched(e, v).fetch = e.fetch
BY BoardEntryIs DEF Board!Patched, BoardEntrySound, Board!Entry

LEMMA BoardEntryAnswered ==
    ASSUME NEW V, NEW e, BoardEntrySound(e, V), NEW v \in V
    PROVE  BoardEntrySound(Board!Answered(e, v), V) /\ Board!Answered(e, v).val = e.val
           /\ Board!Answered(e, v).fetch = "answered"
BY BoardEntryIs DEF Board!Answered, BoardEntrySound, Board!Entry

LEMMA BoardEntryStored ==
    ASSUME NEW V, NEW e, BoardEntrySound(e, V), e.fetch = "answered"
    PROVE  BoardEntrySound(Board!Stored(e), V) /\ Board!Stored(e).val = e.got /\ Board!Stored(e).fetch = "idle"
           /\ e.got \in V
BY BoardEntryIs DEF Board!Stored, Board!Loaded, Board!NoEntry, BoardEntrySound, Board!Entry

LEMMA Spent ==
    ASSUME BudgetSound(budget),
           \/ UNCHANGED budget \/ Board!Open \/ Board!Fault
           \/ budget.calls > 0 /\ budget' = [budget EXCEPT !.calls = @ - 1]
           \/ budget.others > 0 /\ budget' = [budget EXCEPT !.others = @ - 1]
    PROVE  BudgetSound(budget') /\ budget'.used = budget.used
BY DEF BudgetSound, Board!Open, Board!Fault

LEMMA BoardSent ==
    ASSUME BoardTyped, NEW c, BoardCallSound(c), c.hook \in Board!Hooks, Board!SendAs(c)
    PROVE  /\ BoardCallsTyped' /\ BudgetSound(budget') /\ budget'.used = budget.used
           /\ \E s \in Slots : calls[s] = None /\ calls'[s] = c /\ c # None
              /\ \A r \in Slots : r # s => calls'[r] = calls[r]
<1>1. PICK s \in Slots : calls[s] = None /\ calls' = [calls EXCEPT ![s] = c]
      /\ latest' = [latest EXCEPT ![c.hook] = s]
  BY Zenon DEF Board!SendAs
<1>2. c \in Board!CallRecord /\ c # None
  BY BoardNone DEF BoardCallSound
<1>3. calls' \in [Slots -> Board!CallRecord \cup {None}] /\ latest' \in [Board!Hooks -> Slots \cup {None}]
      /\ calls'[s] = c /\ latest'[c.hook] = s
      /\ (\A r \in Slots : r # s => calls'[r] = calls[r])
         /\ \A h \in Board!Hooks : h # c.hook => latest'[h] = latest[h]
  BY <1>1, <1>2 DEF BoardTyped, BoardCallsTyped
<1>4. \A r \in Slots : calls'[r] # None => BoardCallSound(calls'[r])
  BY <1>3 DEF BoardTyped, BoardCallsTyped
<1>5. ASSUME NEW h \in Board!Hooks, latest'[h] # None PROVE calls'[latest'[h]] # None /\ calls'[latest'[h]].hook = h
  BY <1>1, <1>2, <1>3, <1>5 DEF BoardTyped, BoardCallsTyped
<1>6. BudgetSound(budget') /\ budget'.used = budget.used
  BY Spent DEF Board!SendAs, BoardTyped
<1> QED
  BY <1>1, <1>2, <1>3, <1>4, <1>5, <1>6 DEF BoardCallsTyped

\* A call is answered, or fails.
LEMMA BoardTurned ==
    ASSUME BoardTyped, NEW s \in Slots, NEW d, calls[s] # None, BoardCallSound(d), d.hook = calls[s].hook,
           calls' = [calls EXCEPT ![s] = d], UNCHANGED latest
    PROVE  BoardCallsTyped' /\ calls'[s] = d /\ d # None /\ \A r \in Slots : r # s => calls'[r] = calls[r]
<1>1. d \in Board!CallRecord /\ d # None
  BY BoardNone DEF BoardCallSound
<1>2. calls' \in [Slots -> Board!CallRecord \cup {None}] /\ calls'[s] = d
      /\ \A r \in Slots : r # s => calls'[r] = calls[r]
  BY <1>1 DEF BoardTyped, BoardCallsTyped
<1>3. ASSUME NEW h \in Board!Hooks, latest[h] # None PROVE calls'[latest[h]] # None /\ calls'[latest[h]].hook = h
  BY <1>1, <1>2, <1>3 DEF BoardTyped, BoardCallsTyped
<1> QED
  BY <1>1, <1>2, <1>3 DEF BoardTyped, BoardCallsTyped

\* A call is over.
LEMMA BoardDone ==
    ASSUME BoardTyped, NEW s \in Slots, Board!Done(s)
    PROVE  BoardCallsTyped' /\ calls'[s] = None /\ \A r \in Slots : r # s => calls'[r] = calls[r]
<1>1. calls' \in [Slots -> Board!CallRecord \cup {None}] /\ calls'[s] = None
      /\ \A r \in Slots : r # s => calls'[r] = calls[r]
  BY DEF BoardTyped, BoardCallsTyped, Board!Done
<1>2. latest' \in [Board!Hooks -> Slots \cup {None}]
      /\ \A h \in Board!Hooks : latest'[h] # None => latest'[h] = latest[h] /\ latest[h] # s
  BY DEF BoardTyped, BoardCallsTyped, Board!Done
<1>3. ASSUME NEW h \in Board!Hooks, latest'[h] # None PROVE calls'[latest'[h]] # None /\ calls'[latest'[h]].hook = h
  BY <1>1, <1>2, <1>3 DEF BoardTyped, BoardCallsTyped
<1> QED
  BY <1>1, <1>2, <1>3 DEF BoardTyped, BoardCallsTyped

LEMMA BoardClosed ==
    ASSUME BoardUiSound(ui), NEW c \in Board!CallRecord
    PROVE  BoardUiSound(Board!Closed(c))
<1>1. ui \in BoardUi
  BY DEF BoardUiSound
<1>2. CASE ~Board!Alive(c)
  BY <1>2 DEF Board!Closed
<1>3. CASE Board!Alive(c)
  <2>1. c.hook \in Board!Hooks
    BY <1>3 DEF Board!Alive, Board!CallRecord
  <2>2. CASE c.hook = "board"
    <3>1. Board!Closed(c) = [ui EXCEPT !.move = IF c.stage \in Board!Terminal THEN None ELSE @,
                                       !.notes = IF c.stage \in Board!Terminal THEN None ELSE @,
                                       !.change = IF c.stage \in Board!Terminal THEN @ ELSE None]
            BY <1>3, <2>2 DEF Board!Closed
          <3> QED
            BY <1>1, <3>1 DEF BoardUiSound, BoardUi
        <2>3. CASE c.hook = "drawer"
          <3>1. Board!Closed(c) = [ui EXCEPT !.outcome = IF c.stage \in Board!Terminal THEN None ELSE @,
                                             !.notes = IF c.stage \in Board!Terminal THEN None ELSE @]
                  BY <1>3, <2>3 DEF Board!Closed
                <3> QED
                  BY <1>1, <3>1 DEF BoardUiSound, BoardUi
              <2>4. CASE c.hook = "form"
                <3>1. Board!Closed(c) = [ui EXCEPT !.form = None]
                  BY <1>3, <2>4 DEF Board!Closed
                <3> QED
                  BY <1>1, <3>1 DEF BoardUiSound, BoardUi
              <2>5. CASE c.hook = "delete"
                <3>1. Board!Closed(c) = [ui EXCEPT !.erase = None]
                  BY <1>3, <2>5 DEF Board!Closed
                <3> QED
                  BY <1>1, <3>1 DEF BoardUiSound, BoardUi
              <2> QED
                BY <2>1, <2>2, <2>3, <2>4, <2>5 DEF Board!Hooks
<1> QED
  BY <1>2, <1>3

-----------------------------------------------------------------------------
(* The steps keep the invariant *)

\* The calls that there were are there, and do what they did.
BoardCallsStay ==
    \A s \in Slots : calls[s] # None =>
        /\ calls'[s] # None /\ calls'[s].op = calls[s].op /\ calls'[s].card = calls[s].card
        /\ calls'[s].st = calls[s].st /\ calls'[s].was = calls[s].was

\* One call has become another, and the table changed in one place at most.
LEMMA KnownStays ==
    ASSUME CardsKnown, NEW s \in Slots, budget.used \subseteq budget'.used,
           \A p \in Cards \ budget'.used : row'[p] = row[p] /\ detail'[p] = detail[p],
           \A r \in Slots : r # s => calls'[r] = calls[r],
           calls'[s] # None /\ calls'[s].op = "move" /\ (calls'[s].st = "ok" \/ calls'[s].was.detail # None)
               => calls'[s].card \in budget'.used
    PROVE  CardsKnown'
BY DEF CardsKnown

LEMMA MovingStays ==
    ASSUME BoardCallsStay, NEW p \in Cards, NEW ops
    PROVE  (Moving(p) => Moving(p)') /\ (BoardWritten(p, ops) => BoardWritten(p, ops)')
BY DEF BoardCallsStay, Moving, BoardWritten

LEMMA EditedInv == ASSUME BoardInv, Edited PROVE BoardInv'
<1>1. UNCHANGED <<row, list, detail, calls, latest, told>> /\ BoardUiSound(ui')
  BY DEF Edited, Board!Same
<1>2. BudgetSound(budget') /\ budget'.used = budget.used
  BY Spent DEF Edited, BoardInv, BoardTyped
<1> QED
  BY <1>1, <1>2 DEF BoardInv, BoardTyped, BoardServerTyped, BoardCallsTyped, CardsKnown, ListOk, DetailOk, Moving,
     BoardWritten

LEMMA AskedInv == ASSUME BoardInv, Asked PROVE BoardInv'
<1>1. PICK c \in Board!CallRecord : BoardCallSound(c) /\ c.op # "move" /\ c.st = "sent" /\ c.hook \in Board!Hooks
                                    /\ Board!SendAs(c) /\ UNCHANGED <<row, list, detail, ui, told>>
        BY DEF Asked
<1>2. BoardCallsTyped' /\ BudgetSound(budget') /\ budget'.used = budget.used
  BY <1>1, BoardSent DEF BoardInv
<1>3. PICK s \in Slots : calls[s] = None /\ calls'[s] = c /\ \A r \in Slots : r # s => calls'[r] = calls[r]
  BY <1>1, BoardSent DEF BoardInv
<1>4. BoardCallsStay
  BY <1>3 DEF BoardCallsStay
<1>5. BoardTyped'
  BY <1>1, <1>2 DEF BoardInv, BoardTyped, BoardServerTyped
<1>6. CardsKnown'
  BY <1>1, <1>2, <1>3 DEF BoardInv, CardsKnown
<1>7. ASSUME NEW p \in Cards PROVE ListOk(p)' /\ DetailOk(p)'
  BY <1>1, <1>4, MovingStays DEF BoardInv, ListOk, DetailOk
<1> QED
  BY <1>5, <1>6, <1>7 DEF BoardInv

LEMMA MovedInv == ASSUME BoardInv, Moved PROVE BoardInv'
<1>0. BoardServerTyped
  BY DEF BoardInv, BoardTyped
<1>1. PICK p \in Cards, t \in Board!Stages, h \in {"board", "drawer"}, n \in Cards \cup {None} :
         n \in {None, p} /\ Board!SendMove(p, t, h, n)
  BY DEF Moved
<1> DEFINE c == [Board!Call("move", p, t, h, n) EXCEPT !.was = [list |-> list.val, detail |-> detail[p].val]]
           new == [list.val EXCEPT ![p] = IF @ = None THEN None ELSE t]
<1>2. /\ Board!SendAs(c) /\ list' = Board!Patched(Board!Cancelled(list), new)
      /\ detail' = IF detail[p].val = None THEN detail ELSE [detail EXCEPT ![p] = Board!Patched(@, t)]
      /\ told' = IF Board!Idle(list) THEN told ELSE told \cup Board!Views("list")
      /\ UNCHANGED row /\ BoardUiSound(ui')
  BY <1>1, Zenon DEF Board!SendMove, Moved
<1>3. detail[p].val \in Board!Stages \cup {None} /\ list.val \in Board!Board
  BY <1>0 DEF BoardServerTyped, BoardEntrySound, Board!Entry
<1>4. /\ c \in Board!CallRecord /\ c.op = "move" /\ c.card = p /\ c.stage = t /\ c.hook = h /\ c.notes = n
         /\ c.st = "sent"
      /\ c.was \in [list: Board!Board, detail: Board!Stages \cup {None}] /\ c.was.detail = detail[p].val
  BY <1>3 DEF Board!Call, Board!CallRecord, Board!FormRecord, Board!NoForm, Board!Stages, Board!Hooks
<1>5. new \in Board!Board /\ (\A q \in Cards : q # p => new[q] = list.val[q])
      /\ (list.val[p] = None <=> new[p] = None)
  BY <1>3, BoardNone DEF Board!Board
<1> HIDE DEF c, new
<1>6. BoardCallSound(c) /\ c.hook \in Board!Hooks
  BY <1>1, <1>4 DEF BoardCallSound, Board!Hooks
<1>7. BoardCallsTyped' /\ BudgetSound(budget') /\ budget'.used = budget.used
  BY <1>2, <1>6, BoardSent DEF BoardInv
<1>8. PICK s \in Slots : calls[s] = None /\ calls'[s] = c /\ c # None
      /\ \A r \in Slots : r # s => calls'[r] = calls[r]
  BY <1>2, <1>6, BoardSent DEF BoardInv
<1>9. BoardCallsStay /\ Moving(p)'
  BY <1>4, <1>8 DEF BoardCallsStay, Moving
<1>10. BoardEntrySound(list', Board!Board) /\ list'.val = new /\ list'.fetch = "idle"
  <2>1. BoardEntrySound(Board!Cancelled(list), Board!Board) /\ Board!Cancelled(list).fetch = "idle"
    BY <1>0, BoardEntryCancelled DEF BoardServerTyped
  <2> QED
    BY <1>2, <1>5, <2>1, EntryPatched
<1>11. /\ detail' \in [Cards -> Board!Entry(Board!Stages)] /\ (\A q \in Cards : q # p => detail'[q] = detail[q])
       /\ BoardEntrySound(detail'[p], Board!Stages) /\ detail'[p].fetch = detail[p].fetch
       /\ detail'[p].val \in {t, None} /\ (detail[p].val = None => detail'[p].val = None)
  <2>1. BoardEntrySound(Board!Patched(detail[p], t), Board!Stages) /\ Board!Patched(detail[p], t).val = t
        /\ Board!Patched(detail[p], t).fetch = detail[p].fetch
    BY <1>0, EntryPatched DEF BoardServerTyped
  <2> QED
    BY <1>0, <1>2, <2>1 DEF BoardServerTyped, BoardEntrySound
<1>12. BoardTyped'
  BY <1>0, <1>2, <1>5, <1>7, <1>10, <1>11 DEF BoardTyped, BoardServerTyped
<1>13. CardsKnown'
  BY <1>2, <1>4, <1>7, <1>8, <1>11 DEF BoardInv, CardsKnown
<1>14. ASSUME NEW q \in Cards PROVE ListOk(q)' /\ DetailOk(q)'
  <2>1. ListOk(q) /\ DetailOk(q) /\ (Moving(q) => Moving(q)')
        /\ \A ops : BoardWritten(q, ops) => BoardWritten(q, ops)'
    BY <1>9, MovingStays DEF BoardInv
  <2>2. ListOk(q)'
    <3>1. CASE Board!Idle(list)
      BY <1>2, <1>5, <1>9, <1>10, <2>1, <3>1 DEF ListOk, Board!Idle
    <3>2. CASE ~Board!Idle(list)
      BY <1>2, <3>2 DEF ListOk, Board!Views
    <3> QED
      BY <3>1, <3>2
  <2>3. DetailOk(q)'
    BY <1>2, <1>9, <1>11, <2>1 DEF DetailOk
  <2> QED
    BY <2>2, <2>3
<1> QED
  BY <1>12, <1>13, <1>14 DEF BoardInv

\* Fetches of the board, and of a drawer.
LEMMA ListReadInv ==
    ASSUME BoardInv, UNCHANGED <<row, detail, calls, latest, ui>>,
           BudgetSound(budget'), budget'.used = budget.used,
           \/ Board!ServeList \/ Board!StoreList
           \/ list.fetch = "asked" /\ list' = Board!Cancelled(list) /\ told' = told \cup Board!Views("list")
    PROVE  BoardInv'
<1>0. BoardServerTyped /\ BoardEntrySound(list, Board!Board) /\ row \in Board!Board
  BY DEF BoardInv, BoardTyped, BoardServerTyped
<1>1. /\ BoardEntrySound(list', Board!Board) /\ list'.val \in Board!Board
         /\ told' \subseteq Board!Views("list") \cup Board!Views("detail")
      /\ \A p \in Cards : Board!View("list", p) \in told' \/ list'.fetch # "idle" \/ list'.val[p] = row[p]
      /\ \A p \in Cards : Board!View("detail", p) \in told => Board!View("detail", p) \in told'
  <2>1. CASE Board!ServeList
    <3>1. list' = Board!Answered(list, row) /\ told' = told
      BY <2>1 DEF Board!ServeList
    <3>2. BoardEntrySound(list', Board!Board) /\ list'.val = list.val /\ list'.fetch = "answered"
      BY <1>0, <3>1, BoardEntryAnswered
    <3> QED
      BY <1>0, <3>1, <3>2 DEF BoardServerTyped
  <2>2. CASE Board!StoreList
    <3>1. list' = Board!Stored(list) /\ told' = (told \ Board!Views("list")) \cup Board!Outdated("list", list.got)
          /\ list.fetch = "answered"
      BY <2>2 DEF Board!StoreList
    <3>2. BoardEntrySound(list', Board!Board) /\ list'.val = list.got /\ list.got \in Board!Board
      BY <1>0, <3>1, BoardEntryStored
    <3>3. told' \subseteq Board!Views("list") \cup Board!Views("detail")
      BY <1>0, <3>1 DEF BoardServerTyped, Board!Views, Board!Outdated
    <3>4. \A p \in Cards : Board!View("list", p) \in told' \/ list'.val[p] = row[p]
      BY <3>1, <3>2 DEF Board!Outdated
    <3>5. \A p \in Cards : Board!View("detail", p) \in told => Board!View("detail", p) \in told'
      BY <3>1 DEF Board!Views, Board!View
    <3> QED
      BY <3>2, <3>3, <3>4, <3>5
  <2>3. CASE list.fetch = "asked" /\ list' = Board!Cancelled(list) /\ told' = told \cup Board!Views("list")
    <3>2. BoardEntrySound(list', Board!Board) /\ list'.val = list.val
      BY <1>0, <2>3, BoardEntryCancelled
    <3> QED
      BY <1>0, <2>3, <3>2 DEF BoardServerTyped, Board!Views
  <2> QED
    BY <2>1, <2>2, <2>3
<1>2. BoardTyped'
  BY <1>0, <1>1 DEF BoardInv, BoardTyped, BoardServerTyped, BoardCallsTyped
<1>3. CardsKnown'
  BY DEF BoardInv, CardsKnown
<1>4. ASSUME NEW p \in Cards PROVE ListOk(p)' /\ DetailOk(p)'
  BY <1>1 DEF BoardInv, ListOk, DetailOk, Moving, BoardWritten
<1> QED
  BY <1>2, <1>3, <1>4 DEF BoardInv

LEMMA DetailReadInv ==
    ASSUME BoardInv, NEW p \in Cards, UNCHANGED <<row, list, calls, latest>>,
           BoardUiSound(ui'), BudgetSound(budget'), budget'.used = budget.used,
           \/ Board!ServeDetail(p) \/ Board!StoreDetail(p)
           \/ /\ detail[p].fetch = "asked" /\ detail' = [detail EXCEPT ![p] = Board!Cancelled(@)]
              /\ told' = told \cup {Board!View("detail", p)}
           \/ (\E e \in Board!Mounted(detail[p]) : detail' = [detail EXCEPT ![p] = e]) /\ UNCHANGED told
    PROVE  BoardInv'
<1>0. BoardServerTyped /\ BoardEntrySound(detail[p], Board!Stages) /\ row \in Board!Board
  BY DEF BoardInv, BoardTyped, BoardServerTyped
<1>1. /\ detail' \in [Cards -> Board!Entry(Board!Stages)] /\ BoardEntrySound(detail'[p], Board!Stages)
      /\ \A q \in Cards : q # p => detail'[q] = detail[q]
      /\ told' \subseteq Board!Views("list") \cup Board!Views("detail")
      /\ \A q \in Cards, v \in {"list", "detail"} :
            Board!View(v, q) \in told /\ (v = "list" \/ q # p) => Board!View(v, q) \in told'
      /\ detail'[p].val # None \/ detail'[p].fetch = "answered" =>
            detail[p].val # None \/ detail[p].fetch = "answered" \/ row[p] # None
      /\ \/ Board!View("detail", p) \in told' \/ detail'[p].fetch # "idle" \/ detail'[p].val = row[p]
         \/ detail'[p] = detail[p] /\ told' = told
  <2> DEFINE Set(e) == detail' = [detail EXCEPT ![p] = e]
  <2>1. ASSUME NEW e, BoardEntrySound(e, Board!Stages), Set(e)
        PROVE  detail' \in [Cards -> Board!Entry(Board!Stages)] /\ detail'[p] = e
               /\ \A q \in Cards : q # p => detail'[q] = detail[q]
    BY <1>0, <2>1 DEF BoardServerTyped, BoardEntrySound
  <2>2. CASE Board!ServeDetail(p)
    <3>1. Set(Board!Answered(detail[p], row[p])) /\ told' = told /\ row[p] \in Board!Stages
      BY <1>0, <2>2 DEF Board!ServeDetail, BoardServerTyped, Board!Board
    <3>2. BoardEntrySound(Board!Answered(detail[p], row[p]), Board!Stages)
          /\ Board!Answered(detail[p], row[p]).fetch = "answered"
      BY <1>0, <3>1, BoardEntryAnswered
    <3> QED
      BY <1>0, <2>1, <2>2, <3>1, <3>2, BoardNone DEF BoardServerTyped
  <2>3. CASE Board!StoreDetail(p)
    <3>1. /\ Set(Board!Stored(detail[p])) /\ detail[p].fetch = "answered"
          /\ told' = IF detail[p].got = row[p] THEN told \ {Board!View("detail", p)} ELSE told \cup {Board!View("detail", p)}
      BY <1>0, <2>3 DEF Board!StoreDetail, BoardServerTyped
    <3>2. BoardEntrySound(Board!Stored(detail[p]), Board!Stages) /\ Board!Stored(detail[p]).val = detail[p].got
      BY <1>0, <3>1, BoardEntryStored
    <3>3. told' \subseteq Board!Views("list") \cup Board!Views("detail")
          /\ \A q \in Cards, v \in {"list", "detail"} :
                Board!View(v, q) \in told /\ (v = "list" \/ q # p) => Board!View(v, q) \in told'
      BY <1>0, <3>1 DEF BoardServerTyped, Board!Views, Board!View
    <3> QED
      BY <2>1, <3>1, <3>2, <3>3
  <2>4. CASE /\ detail[p].fetch = "asked" /\ detail' = [detail EXCEPT ![p] = Board!Cancelled(@)]
             /\ told' = told \cup {Board!View("detail", p)}
    <3>1. Set(Board!Cancelled(detail[p]))
      BY <1>0, <2>4 DEF BoardServerTyped
    <3>2. /\ BoardEntrySound(Board!Cancelled(detail[p]), Board!Stages)
             /\ Board!Cancelled(detail[p]).val = detail[p].val
          /\ Board!Cancelled(detail[p]).fetch = "idle"
      BY <1>0, BoardEntryCancelled
    <3>3. told' \subseteq Board!Views("list") \cup Board!Views("detail")
      BY <1>0, <2>4 DEF BoardServerTyped, Board!Views
    <3> QED
      BY <2>1, <2>4, <3>1, <3>2, <3>3
  <2>5. CASE (\E e \in Board!Mounted(detail[p]) : detail' = [detail EXCEPT ![p] = e]) /\ UNCHANGED told
    <3>1. PICK e \in Board!Mounted(detail[p]) : Set(e) /\ UNCHANGED told
      BY <2>5
    <3>2. BoardEntrySound(e, Board!Stages) /\ e.val = detail[p].val
          /\ (e.fetch = "answered" => detail[p].fetch = "answered")
      BY <1>0, BoardEntryOpened
    <3>3. e = detail[p] \/ e.fetch # "idle"
      BY <1>0, BoardEntryRefetched DEF Board!Mounted, Board!Opened
    <3> QED
      BY <1>0, <2>1, <3>1, <3>2, <3>3 DEF BoardServerTyped
  <2> QED
    BY <2>2, <2>3, <2>4, <2>5
<1>2. BoardTyped'
  BY <1>0, <1>1 DEF BoardInv, BoardTyped, BoardServerTyped, BoardCallsTyped
<1>3. CardsKnown'
  BY <1>1 DEF BoardInv, CardsKnown
<1>4. ASSUME NEW q \in Cards PROVE ListOk(q)' /\ DetailOk(q)'
  BY <1>1 DEF BoardInv, ListOk, DetailOk, Moving, BoardWritten
<1> QED
  BY <1>2, <1>3, <1>4 DEF BoardInv

\* A call changes the table; a call, or its answer, is lost.
LEMMA CarryInv == ASSUME BoardInv, NEW s \in Slots, Board!Carry(s) PROVE BoardInv'
<1>0. BoardTyped /\ BoardServerTyped /\ calls[s] # None
  BY DEF BoardInv, BoardTyped, Board!Carry
<1>1. PICK c \in Board!CallRecord : c = calls[s] /\ BoardCallSound(c)
  BY <1>0 DEF BoardTyped, BoardCallsTyped, BoardCallSound
<1>2. UNCHANGED <<list, detail, latest, ui, told>> /\ c.st = "sent"
  BY <1>1, Zenon DEF Board!Carry
<1>3. ASSUME c.op # "create", calls' = [calls EXCEPT ![s].st = "failed"], UNCHANGED <<row, budget>>
      PROVE  BoardInv'
  <2> DEFINE d == [c EXCEPT !.st = "failed"]
  <2>1. calls' = [calls EXCEPT ![s] = d]
    BY <1>0, <1>1, <1>3 DEF BoardTyped, BoardCallsTyped
  <2>2. /\ d \in Board!CallRecord /\ d.op = c.op /\ d.card = c.card /\ d.hook = c.hook /\ d.was = c.was
           /\ d.st = "failed"
        /\ d.stage = c.stage /\ d.notes = c.notes /\ d.form = c.form
    BY DEF Board!CallRecord
  <2> HIDE DEF d
  <2>3. BoardCallSound(d)
    BY <1>1, <1>3, <2>2 DEF BoardCallSound
  <2>4. BoardCallsTyped' /\ calls'[s] = d /\ d # None /\ \A r \in Slots : r # s => calls'[r] = calls[r]
    BY <1>0, <1>1, <1>2, <2>1, <2>2, <2>3, BoardTurned
  <2>5. \A p \in Cards : (Moving(p) => Moving(p)') /\ \A ops : BoardWritten(p, ops) => BoardWritten(p, ops)'
    BY <1>1, <1>2, <2>2, <2>4 DEF Moving, BoardWritten
  <2>6. BoardTyped'
    BY <1>0, <1>2, <1>3, <2>4 DEF BoardTyped, BoardServerTyped
  <2>7. CardsKnown'
    <3>1. c.op = "move" /\ c.was.detail # None => c.card \in budget.used
      BY <1>0, <1>1 DEF BoardInv, CardsKnown
    <3> QED
      BY <1>2, <1>3, <2>2, <2>4, <3>1, KnownStays DEF BoardInv
  <2>8. ASSUME NEW p \in Cards PROVE ListOk(p)' /\ DetailOk(p)'
    BY <1>2, <1>3, <2>5 DEF BoardInv, ListOk, DetailOk
  <2> QED
    BY <2>6, <2>7, <2>8 DEF BoardInv
<1>4. ASSUME NEW p \in Cards,
             IF c.op = "create" THEN Board!Fresh(p) /\ budget' = [budget EXCEPT !.used = @ \cup {p}]
                                ELSE p = c.card /\ row[p] # None /\ UNCHANGED budget,
             row' = Board!Effect(c, p), calls' = [calls EXCEPT ![s].st = "ok", ![s].card = p, ![s].got = row'[p]]
      PROVE  BoardInv'
  <2> DEFINE d == [c EXCEPT !.st = "ok", !.card = p, !.got = row'[p]]
  <2>1. calls' = [calls EXCEPT ![s] = d]
    BY <1>0, <1>1, <1>4 DEF BoardTyped, BoardCallsTyped
  <2>2. /\ row' \in Board!Board /\ row'[p] \in Board!Stages \cup {None}
           /\ (\A q \in Cards : q # p => row'[q] = row[q])
        /\ c.op = "move" => row'[p] \in Board!Stages
        /\ c.op = "delete" => row'[p] = None
    BY <1>0, <1>1, <1>4 DEF Board!Effect, BoardCallSound, Board!CallRecord, BoardServerTyped, Board!Board
  <2>3. /\ d \in Board!CallRecord /\ d.op = c.op /\ d.card = p /\ d.hook = c.hook /\ d.was = c.was /\ d.st = "ok"
        /\ d.stage = c.stage /\ d.notes = c.notes /\ d.form = c.form /\ d.got = row'[p]
    BY <2>2 DEF Board!CallRecord
  <2> HIDE DEF d
  <2>4. c.notes \in {None, p}
    BY <1>1, <1>4, Zenon DEF BoardCallSound
  <2>5. BoardCallSound(d)
    BY <1>1, <1>4, <2>2, <2>3, <2>4 DEF BoardCallSound
  <2>6. BoardCallsTyped' /\ calls'[s] = d /\ d # None /\ \A r \in Slots : r # s => calls'[r] = calls[r]
    BY <1>0, <1>1, <1>2, <2>1, <2>3, <2>5, BoardTurned
  <2>7. /\ BudgetSound(budget') /\ budget.used \subseteq budget'.used /\ (c.op = "create" => p \in budget'.used)
        /\ c.op # "create" => budget'.used = budget.used
    BY <1>0, <1>4 DEF BoardTyped, BudgetSound
  <2>8. /\ c.op = "create" => p \notin budget.used
        /\ c.op # "create" => p \in budget.used /\ p = c.card
    BY <1>4 DEF Board!Fresh, BoardInv, CardsKnown
  <2>9. BoardTyped'
    <3>1. BoardServerTyped' /\ BoardUiSound(ui')
      BY <1>0, <1>2, <2>2 DEF BoardTyped, BoardServerTyped
    <3> QED
      BY <2>6, <2>7, <3>1 DEF BoardTyped
  <2>10. CardsKnown'
    <3>1. \A q \in Cards \ budget'.used : row'[q] = row[q] /\ detail'[q] = detail[q]
      BY <1>2, <2>2, <2>7, <2>8
    <3>2. d.op = "move" => d.card \in budget'.used
      BY <2>3, <2>7, <2>8
    <3> QED
      BY <2>6, <2>7, <3>1, <3>2, KnownStays DEF BoardInv
  <2>11. \A q \in Cards : (Moving(q) => Moving(q)') /\ \A ops : BoardWritten(q, ops) => BoardWritten(q, ops)'
    <3>1. c.op = "create" \/ c.card = p
      BY <2>8
    <3>2. \A q \in Cards : Moving(q) => Moving(q)'
      BY <1>1, <2>3, <2>6, <3>1 DEF Moving
    <3>3. \A q \in Cards : \A ops : BoardWritten(q, ops) => BoardWritten(q, ops)'
      BY <1>1, <1>2, <2>6 DEF BoardWritten
    <3> QED
      BY <3>2, <3>3
  <2>12. c.op = "move" => Moving(p) /\ Moving(p)'
    BY <1>0, <1>1, <2>3, <2>6, <2>8 DEF Moving
  <2>13. \A ops : c.op \in ops => BoardWritten(p, ops)'
    BY <2>3, <2>6 DEF BoardWritten
  <2>14. ASSUME NEW q \in Cards PROVE ListOk(q)'
    <3>1. ListOk(q)
      BY DEF BoardInv
    <3>2. CASE q # p
      BY <1>2, <2>2, <2>11, <3>1, <3>2 DEF ListOk
    <3>3. CASE q = p /\ c.op # "move"
      <4>1. c.op \in {"create", "save", "delete"}
        BY <3>3 DEF Board!CallRecord
      <4> QED
        BY <2>13, <3>3, <4>1 DEF ListOk
    <3>4. CASE q = p /\ c.op = "move"
      <4>1. row[p] # None
        BY <1>4, <3>4
      <4> QED
        BY <1>2, <2>11, <2>12, <3>1, <3>4, <4>1 DEF ListOk
    <3> QED
      BY <3>2, <3>3, <3>4
  <2>15. ASSUME NEW q \in Cards PROVE DetailOk(q)'
    <3>1. DetailOk(q)
      BY DEF BoardInv
    <3>2. CASE q # p
      BY <1>2, <2>2, <2>11, <3>1, <3>2 DEF DetailOk
    <3>3. CASE q = p /\ c.op = "create"
      <4>1. detail[p].val = None
        BY <2>8, <3>3 DEF BoardInv, CardsKnown
      <4> QED
        BY <1>2, <3>3, <4>1 DEF DetailOk
    <3>4. CASE q = p /\ c.op = "delete"
      BY <2>2, <3>4 DEF DetailOk
    <3>5. CASE q = p /\ c.op = "save"
      BY <2>13, <3>5 DEF DetailOk
    <3>6. CASE q = p /\ c.op = "move"
      BY <2>12, <3>6 DEF DetailOk
    <3> QED
      BY <3>2, <3>3, <3>4, <3>5, <3>6 DEF Board!CallRecord
  <2> QED
    BY <2>9, <2>10, <2>14, <2>15 DEF BoardInv
<1>5. \/ c.op # "create" /\ calls' = [calls EXCEPT ![s].st = "failed"] /\ UNCHANGED <<row, budget>>
      \/ \E p \in Cards :
            /\ IF c.op = "create" THEN Board!Fresh(p) /\ budget' = [budget EXCEPT !.used = @ \cup {p}]
                                  ELSE p = c.card /\ row[p] # None /\ UNCHANGED budget
            /\ row' = Board!Effect(c, p)
            /\ calls' = [calls EXCEPT ![s].st = "ok", ![s].card = p, ![s].got = row'[p]]
  BY <1>1, Zenon DEF Board!Carry
<1> QED
  BY <1>3, <1>4, <1>5

LEMMA LoseInv == ASSUME BoardInv, NEW s \in Slots, Board!LoseCall(s) PROVE BoardInv'
<1>0. BoardTyped /\ BoardServerTyped /\ calls[s] # None
  BY DEF BoardInv, BoardTyped, Board!LoseCall
<1>1. PICK c \in Board!CallRecord : c = calls[s] /\ BoardCallSound(c)
  BY <1>0 DEF BoardTyped, BoardCallsTyped, BoardCallSound
<1> DEFINE d == [c EXCEPT !.st = "failed"]
<1>2. UNCHANGED <<row, list, detail, latest, ui>> /\ c.st \in {"sent", "ok"} /\ Board!Fault
      /\ calls' = [calls EXCEPT ![s] = d]
      /\ told' = IF c.st = "sent" \/ c.op = "move" THEN told
                 ELSE told \cup {Board!View("list", c.card), Board!View("detail", c.card)}
  BY <1>0, <1>1 DEF Board!LoseCall, BoardTyped, BoardCallsTyped
<1>3. /\ d \in Board!CallRecord /\ d.op = c.op /\ d.card = c.card /\ d.hook = c.hook /\ d.was = c.was
         /\ d.st = "failed"
      /\ d.stage = c.stage /\ d.notes = c.notes /\ d.form = c.form
  BY DEF Board!CallRecord
<1> HIDE DEF d
<1>4. BoardCallSound(d)
  BY <1>1, <1>3 DEF BoardCallSound
<1>5. BoardCallsTyped' /\ calls'[s] = d /\ d # None /\ \A r \in Slots : r # s => calls'[r] = calls[r]
  BY <1>0, <1>1, <1>2, <1>3, <1>4, BoardTurned
<1>6. BudgetSound(budget') /\ budget'.used = budget.used
  BY <1>0, <1>2, Spent DEF BoardTyped
<1>7. told' \subseteq Board!Views("list") \cup Board!Views("detail") /\ told \subseteq told'
  BY <1>0, <1>1, <1>2 DEF BoardServerTyped, BoardCallSound, Board!Views
<1>8. BoardTyped'
  BY <1>0, <1>2, <1>5, <1>6, <1>7 DEF BoardTyped, BoardServerTyped
<1>9. CardsKnown'
  <2>1. c.op = "move" /\ c.was.detail # None => c.card \in budget.used
    BY <1>0, <1>1 DEF BoardInv, CardsKnown
  <2> QED
    BY <1>2, <1>3, <1>5, <1>6, <2>1, KnownStays DEF BoardInv
<1>10. ASSUME NEW p \in Cards PROVE ListOk(p)' /\ DetailOk(p)'
  <2>1. Moving(p) => Moving(p)'
    BY <1>1, <1>3, <1>5 DEF Moving
  <2>2. ASSUME NEW ops, "move" \notin ops, BoardWritten(p, ops)
        PROVE  BoardWritten(p, ops)' \/ {Board!View("list", p), Board!View("detail", p)} \subseteq told'
    BY <1>1, <1>2, <1>5, <2>2 DEF BoardWritten
  <2> QED
    BY <1>2, <1>7, <2>1, <2>2 DEF BoardInv, ListOk, DetailOk
<1> QED
  BY <1>8, <1>9, <1>10 DEF BoardInv

LEMMA BoardElsewhereInv == ASSUME BoardInv, NEW p \in Cards, NEW t \in Board!Stages, Board!Elsewhere(p, t)
      PROVE BoardInv'
<1>0. BoardTyped /\ BoardServerTyped
  BY DEF BoardInv, BoardTyped
<1>1. /\ row' = [row EXCEPT ![p] = t] /\ row[p] # None
         /\ told' = told \cup {Board!View("list", p), Board!View("detail", p)}
      /\ UNCHANGED <<list, detail, calls, latest, ui>>
  BY DEF Board!Elsewhere
<1>2. BudgetSound(budget') /\ budget'.used = budget.used
  BY <1>0, Spent DEF BoardTyped, Board!Elsewhere
<1>3. row' \in Board!Board /\ (\A q \in Cards : q # p => row'[q] = row[q]) /\ p \in budget.used
  BY <1>0, <1>1 DEF BoardServerTyped, Board!Board, BoardInv, CardsKnown
<1>4. BoardTyped'
  BY <1>0, <1>1, <1>2, <1>3 DEF BoardTyped, BoardServerTyped, BoardCallsTyped, Board!Views
<1>5. CardsKnown'
  BY <1>1, <1>2, <1>3 DEF BoardInv, CardsKnown
<1>6. ASSUME NEW q \in Cards PROVE ListOk(q)' /\ DetailOk(q)'
  BY <1>1, <1>3 DEF BoardInv, ListOk, DetailOk, Moving, BoardWritten
<1> QED
  BY <1>4, <1>5, <1>6 DEF BoardInv

\* A call is over: what the other calls do is still under way.
LEMMA BoardOver ==
    ASSUME BoardInv, NEW s \in Slots, Board!Done(s), calls[s] # None
    PROVE  /\ BoardCallsTyped' /\ BoardCallSound(calls[s]) /\ calls[s] \in Board!CallRecord
           /\ \A p \in Cards : Moving(p) /\ (calls[s].op # "move" \/ calls[s].card # p) => Moving(p)'
           /\ \A p \in Cards, ops \in SUBSET {"create", "save", "delete"} :
                 BoardWritten(p, ops)
                 /\ (calls[s].op \notin ops \/ calls[s].card # p \/ calls[s].st # "ok") => BoardWritten(p, ops)'
           /\ \A r \in Slots : calls'[r] # None /\ calls'[r].op = "move" /\ (calls'[r].st = "ok" \/ calls'[r].was.detail # None)
                 => calls'[r].card \in budget.used
<1>1. BoardCallsTyped' /\ calls'[s] = None /\ \A r \in Slots : r # s => calls'[r] = calls[r]
  BY BoardDone DEF BoardInv
<1>2. BoardCallSound(calls[s]) /\ calls[s] \in Board!CallRecord
  BY DEF BoardInv, BoardTyped, BoardCallsTyped, BoardCallSound
<1>3. \A p \in Cards : Moving(p) /\ (calls[s].op # "move" \/ calls[s].card # p) => Moving(p)'
  BY <1>1 DEF Moving
<1>4. \A p \in Cards, ops \in SUBSET {"create", "save", "delete"} :
         BoardWritten(p, ops)
         /\ (calls[s].op \notin ops \/ calls[s].card # p \/ calls[s].st # "ok") => BoardWritten(p, ops)'
  BY <1>1 DEF BoardWritten
<1>5. \A r \in Slots : calls'[r] # None /\ calls'[r].op = "move"
                       /\ (calls'[r].st = "ok" \/ calls'[r].was.detail # None)
         => calls'[r].card \in budget.used
  BY <1>1 DEF BoardInv, CardsKnown
<1> QED
  BY <1>1, <1>2, <1>3, <1>4, <1>5

LEMMA MovedBackInv == ASSUME BoardInv, NEW s \in Slots, Board!OnMoved(s) PROVE BoardInv'
<1> DEFINE c == calls[s]
           p == c.card
           new == [list.val EXCEPT ![p] = IF @ = None THEN None ELSE c.got]
<1>0. BoardTyped /\ BoardServerTyped /\ BoardUiSound(ui) /\ CardsKnown /\ list.val \in Board!Board /\ list.val # None
  BY BoardNone DEF BoardInv, BoardTyped, BoardServerTyped
<1>1. /\ c # None /\ c.st = "ok" /\ c.op = "move" /\ ui' = Board!Closed(c) /\ Board!Done(s)
      /\ list' = IF list.val = None THEN list ELSE Board!Patched(list, new)
      /\ detail' = [detail EXCEPT ![p] = Board!Patched(@, c.got)]
      /\ told' = told \cup (IF c.got # row[p] THEN {Board!View("list", p), Board!View("detail", p)} ELSE {})
                      \cup (IF list.stale /\ list.fetch = "idle" THEN Board!Views("list") ELSE {})
      /\ UNCHANGED <<row, budget>>
  BY DEF Board!OnMoved
<1>2. p \in Cards /\ c.got \in Board!Stages /\ p \in budget.used /\ c \in Board!CallRecord
  BY <1>0, <1>1, BoardOver DEF BoardCallSound, CardsKnown
<1>3. /\ new \in Board!Board /\ (\A q \in Cards : q # p => new[q] = list.val[q])
      /\ (list.val[p] = None => new[p] = None) /\ (list.val[p] # None => new[p] = c.got)
  BY <1>0, <1>2, BoardNone DEF Board!Board
<1> HIDE DEF new
<1>4. BoardEntrySound(list', Board!Board) /\ list'.val = new /\ list'.fetch = list.fetch
  BY <1>0, <1>1, <1>3, EntryPatched DEF BoardServerTyped
<1>5. /\ detail' \in [Cards -> Board!Entry(Board!Stages)] /\ (\A q \in Cards : q # p => detail'[q] = detail[q])
      /\ BoardEntrySound(detail'[p], Board!Stages) /\ detail'[p].val = c.got /\ detail'[p].fetch = detail[p].fetch
  <2>1. BoardEntrySound(Board!Patched(detail[p], c.got), Board!Stages) /\ Board!Patched(detail[p], c.got).val = c.got
        /\ Board!Patched(detail[p], c.got).fetch = detail[p].fetch
    BY <1>0, <1>2, EntryPatched DEF BoardServerTyped
  <2> QED
    BY <1>0, <1>1, <1>2, <2>1 DEF BoardServerTyped, BoardEntrySound
<1>6. told \subseteq told' /\ told' \subseteq Board!Views("list") \cup Board!Views("detail")
  BY <1>0, <1>1, <1>2 DEF BoardServerTyped, Board!Views
<1>7. BoardTyped'
  <2>1. BoardUiSound(ui')
    BY <1>0, <1>1, <1>2, BoardClosed
  <2>2. BoardCallsTyped'
    BY <1>1, BoardOver
  <2> QED
    BY <1>0, <1>1, <1>3, <1>4, <1>5, <1>6, <2>1, <2>2 DEF BoardTyped, BoardServerTyped
<1>8. CardsKnown'
  BY <1>0, <1>1, <1>2, <1>5, BoardOver DEF CardsKnown
<1>9. ASSUME NEW q \in Cards PROVE ListOk(q)'
  <2>1. ListOk(q)
    BY DEF BoardInv
  <2>2. CASE list.stale \/ list.fetch # "idle" \/ Board!View("list", q) \in told
    BY <1>1, <1>4, <1>6, <2>2 DEF ListOk, Board!Views
  <2>3. CASE list.val[q] = row[q] /\ q # p
    BY <1>1, <1>3, <1>4, <2>3 DEF ListOk
  <2>4. CASE q = p /\ list.val[p] # None
    BY <1>1, <1>3, <1>4, <2>4 DEF ListOk
  <2>5. CASE Moving(q) /\ list.val[q] # None /\ q # p
    BY <1>1, <1>3, <1>4, <2>5, BoardOver DEF ListOk
  <2>6. CASE BoardWritten(q, {"create", "save", "delete"})
    <3>1. BoardWritten(q, {"create", "save", "delete"})'
      BY <1>1, <2>6, BoardOver
    <3> QED
      BY <3>1 DEF ListOk
  <2>7. CASE list.val[q] = row[q] /\ q = p /\ list.val[p] = None
    BY <1>1, <1>3, <1>4, <2>7 DEF ListOk
  <2> QED
    BY <2>1, <2>2, <2>3, <2>4, <2>5, <2>6, <2>7 DEF ListOk
<1>10. ASSUME NEW q \in Cards PROVE DetailOk(q)'
  <2>1. DetailOk(q)
    BY DEF BoardInv
  <2>2. CASE q = p
    BY <1>1, <1>5, <2>2 DEF DetailOk
  <2>3. CASE q # p
    <3>1. Moving(q) => Moving(q)'
      BY <1>1, <2>3, BoardOver
    <3>2. BoardWritten(q, {"save"}) => BoardWritten(q, {"save"})'
      BY <1>1, <2>3, BoardOver
    <3> QED
      BY <1>1, <1>5, <1>6, <2>1, <2>3, <3>1, <3>2 DEF DetailOk
  <2> QED
    BY <2>2, <2>3
<1> QED
  BY <1>7, <1>8, <1>9, <1>10 DEF BoardInv

\* What fetches the board again: a move that failed, a row that is saved or deleted.
LEMMA FetchedInv ==
    ASSUME BoardInv, NEW s \in Slots, Board!Done(s), calls[s] # None, ui' = Board!Closed(calls[s]), UNCHANGED <<row, budget, told>>,
           BoardEntrySound(list', Board!Board), list'.val \in Board!Board, list'.stale,
           detail' \in [Cards -> Board!Entry(Board!Stages)],
           \A p \in Cards : \/ detail'[p] = detail[p] /\ calls[s].op \notin {"move", "save"}
                            \/ detail'[p] = detail[p] /\ calls[s].card # p
                            \/ /\ BoardEntrySound(detail'[p], Board!Stages) /\ detail'[p].stale
                               /\ detail'[p].val # None => detail[p].val # None \/ p \in budget.used
                               /\ detail'[p].fetch = "answered" => detail[p].fetch = "answered"
    PROVE  BoardInv'
<1>0. BoardTyped /\ BoardServerTyped /\ BoardUiSound(ui) /\ CardsKnown
  BY DEF BoardInv, BoardTyped
<1>1. /\ BoardCallsTyped' /\ BoardCallSound(calls[s]) /\ calls[s] \in Board!CallRecord
      /\ \A p \in Cards : Moving(p) /\ (calls[s].op # "move" \/ calls[s].card # p) => Moving(p)'
      /\ \A p \in Cards : BoardWritten(p, {"save"})
         /\ (calls[s].op # "save" \/ calls[s].card # p) => BoardWritten(p, {"save"})'
  BY BoardOver
<1>2. BoardTyped'
  <2>1. BoardUiSound(ui')
    BY <1>0, <1>1, BoardClosed
  <2> QED
    BY <1>0, <1>1, <2>1 DEF BoardTyped, BoardServerTyped
<1>3. CardsKnown'
  <2>1. \A p \in Cards \ budget'.used : row'[p] = None /\ detail'[p].val = None /\ detail'[p].fetch # "answered"
    BY <1>0 DEF CardsKnown
  <2> QED
    BY <2>1, BoardOver DEF CardsKnown
<1>4. ASSUME NEW p \in Cards PROVE ListOk(p)' /\ DetailOk(p)'
  <2>1. DetailOk(p)
    BY DEF BoardInv
  <2>2. ListOk(p)'
    BY DEF ListOk
  <2>3. CASE detail'[p].stale
    BY <2>2, <2>3 DEF DetailOk
  <2>4. CASE detail'[p] = detail[p] /\ (calls[s].op \notin {"move", "save"} \/ calls[s].card # p)
    BY <1>1, <2>1, <2>2, <2>4 DEF DetailOk
  <2> QED
    BY <2>3, <2>4
<1> QED
  BY <1>2, <1>3, <1>4 DEF BoardInv

LEMMA MoveFailedInv == ASSUME BoardInv, NEW s \in Slots, Board!OnMoveFailed(s) PROVE BoardInv'
<1> DEFINE c == calls[s]
           p == c.card
           back == IF c.was.detail = None THEN detail ELSE [detail EXCEPT ![p] = Board!Patched(@, c.was.detail)]
<1>0. BoardTyped /\ BoardServerTyped /\ CardsKnown
  BY DEF BoardInv, BoardTyped
<1>1. /\ c # None /\ c.st = "failed" /\ c.op = "move" /\ ui' = Board!Closed(c) /\ Board!Done(s)
      /\ list' = Board!Invalidated(Board!Patched(list, c.was.list), ~ui.away)
      /\ detail' = Board!DetailInvalidated(back, p)
      /\ UNCHANGED <<row, budget, told>>
  BY DEF Board!OnMoveFailed
<1>2. /\ p \in Cards /\ c.was.list \in Board!Board /\ c.was.detail \in Board!Stages \cup {None}
      /\ c.was.detail # None => p \in budget.used
  BY <1>0, <1>1, BoardOver DEF BoardCallSound, CardsKnown
<1>3. BoardEntrySound(list', Board!Board) /\ list'.val \in Board!Board /\ list'.stale
  <2>1. BoardEntrySound(Board!Patched(list, c.was.list), Board!Board)
        /\ Board!Patched(list, c.was.list).val = c.was.list
    BY <1>0, <1>2, EntryPatched DEF BoardServerTyped
  <2> QED
    BY <1>1, <1>2, <2>1, BoardEntryMarked
<1>4. /\ back \in [Cards -> Board!Entry(Board!Stages)] /\ (\A q \in Cards : q # p => back[q] = detail[q])
      /\ BoardEntrySound(back[p], Board!Stages) /\ back[p].fetch = detail[p].fetch
      /\ back[p].val # None => detail[p].val # None \/ p \in budget.used
  <2>1. CASE c.was.detail = None
    BY <1>0, <1>2, <2>1 DEF BoardServerTyped
  <2>2. CASE c.was.detail # None
    <3> DEFINE e == Board!Patched(detail[p], c.was.detail)
    <3>1. BoardEntrySound(e, Board!Stages) /\ e.fetch = detail[p].fetch
      BY <1>0, <1>2, <2>2, EntryPatched DEF BoardServerTyped
    <3>2. back = [detail EXCEPT ![p] = e]
      BY <2>2
    <3> HIDE DEF e, back
    <3> QED
      BY <1>0, <1>2, <2>2, <3>1, <3>2 DEF BoardServerTyped, BoardEntrySound
  <2> QED
    BY <2>1, <2>2
<1> HIDE DEF back
<1>5. /\ detail' \in [Cards -> Board!Entry(Board!Stages)] /\ (\A q \in Cards : q # p => detail'[q] = detail[q])
      /\ BoardEntrySound(detail'[p], Board!Stages) /\ detail'[p].stale
      /\ detail'[p].val # None => detail[p].val # None \/ p \in budget.used
      /\ detail'[p].fetch = "answered" => detail[p].fetch = "answered"
  <2> DEFINE e == Board!Invalidated(back[p], ui.open = p)
  <2>1. BoardEntrySound(e, Board!Stages) /\ e.val = back[p].val /\ e.stale
        /\ (e.fetch = "answered" => back[p].fetch = "answered")
    BY <1>4, BoardEntryMarked
  <2>2. detail' = [back EXCEPT ![p] = e]
    BY <1>1 DEF Board!DetailInvalidated
  <2> HIDE DEF e
  <2> QED
    BY <1>2, <1>4, <2>1, <2>2 DEF BoardEntrySound
<1> QED
  BY <1>1, <1>3, <1>5, FetchedInv

LEMMA SavedInv == ASSUME BoardInv, NEW s \in Slots, Board!OnSaved(s) \/ Board!OnDeleted(s) PROVE BoardInv'
<1> DEFINE c == calls[s]
           p == c.card
<1>0. BoardTyped /\ BoardServerTyped
  BY DEF BoardInv, BoardTyped
<1>1. /\ c # None /\ c.st = "ok" /\ c.op \in {"create", "save", "delete"} /\ ui' = Board!Closed(c) /\ Board!Done(s)
      /\ list' = Board!Invalidated(list, ~ui.away)
      /\ detail' = IF c.op = "save" THEN Board!DetailInvalidated(detail, p) ELSE detail
      /\ UNCHANGED <<row, budget, told>>
  BY DEF Board!OnSaved, Board!OnDeleted, Board!AfterDelete, Board!ListInvalidated
<1>2. p \in Cards
  BY <1>1, BoardOver DEF BoardCallSound
<1>3. BoardEntrySound(list', Board!Board) /\ list'.val \in Board!Board /\ list'.stale
  BY <1>0, <1>1, BoardEntryMarked DEF BoardServerTyped
<1>4. CASE c.op # "save"
  BY <1>0, <1>1, <1>3, <1>4, FetchedInv DEF BoardServerTyped
<1>5. CASE c.op = "save"
  <2> DEFINE e == Board!Invalidated(detail[p], ui.open = p)
  <2>1. BoardEntrySound(e, Board!Stages) /\ e.val = detail[p].val /\ e.stale
        /\ (e.fetch = "answered" => detail[p].fetch = "answered")
    BY <1>0, <1>2, BoardEntryMarked DEF BoardServerTyped
  <2>2. detail' = [detail EXCEPT ![p] = e]
    BY <1>1, <1>5 DEF Board!DetailInvalidated
  <2> HIDE DEF e
  <2>3. detail' \in [Cards -> Board!Entry(Board!Stages)] /\ detail'[p] = e
        /\ \A q \in Cards : q # p => detail'[q] = detail[q]
    BY <1>0, <1>2, <2>1, <2>2 DEF BoardServerTyped, BoardEntrySound
  <2> QED
    BY <1>1, <1>3, <2>1, <2>3, FetchedInv
<1> QED
  BY <1>4, <1>5

LEMMA FailedInv == ASSUME BoardInv, NEW s \in Slots, Board!OnFailed(s) PROVE BoardInv'
<1>0. BoardTyped /\ BoardServerTyped /\ CardsKnown /\ BoardUiSound(ui) /\ BudgetSound(budget)
  BY DEF BoardInv, BoardTyped
<1>1. /\ calls[s] # None /\ calls[s].st = "failed" /\ calls[s].op # "move" /\ Board!Done(s)
      /\ ui' \in {ui, Board!Closed(calls[s])}
      /\ UNCHANGED <<row, list, detail, budget, told>>
  BY DEF Board!OnFailed
<1>2. BoardUiSound(ui') /\ BoardCallsTyped'
  BY <1>0, <1>1, BoardClosed, BoardOver
<1>3. BoardTyped'
  BY <1>0, <1>1, <1>2 DEF BoardTyped, BoardServerTyped
<1>4. CardsKnown'
  BY <1>0, <1>1, BoardOver DEF CardsKnown
<1>5. ASSUME NEW p \in Cards PROVE ListOk(p)' /\ DetailOk(p)'
  <2>1. /\ Moving(p) => Moving(p)'
        /\ BoardWritten(p, {"create", "save", "delete"}) => BoardWritten(p, {"create", "save", "delete"})'
        /\ BoardWritten(p, {"save"}) => BoardWritten(p, {"save"})'
    BY <1>1, BoardOver
  <2> QED
    BY <1>1, <2>1 DEF BoardInv, ListOk, DetailOk
<1> QED
  BY <1>3, <1>4, <1>5 DEF BoardInv

LEMMA LeaveInv == ASSUME BoardInv, Board!Leave PROVE BoardInv'
<1>0. BoardTyped /\ BoardServerTyped /\ CardsKnown /\ BudgetSound(budget) /\ BoardCallsTyped
  BY DEF BoardInv, BoardTyped
<1>1. /\ ui' = [Board!NoUi EXCEPT !.away = TRUE] /\ Board!Open /\ UNCHANGED <<row, list, detail, told>>
      /\ calls' = [s \in Slots |-> IF calls[s] = None THEN None ELSE [calls[s] EXCEPT !.hook = "gone"]]
      /\ latest' = [h \in Board!Hooks |-> None]
  BY DEF Board!Leave
<1>2. \A c \in Board!CallRecord : LET d == [c EXCEPT !.hook = "gone"] IN
        /\ d \in Board!CallRecord /\ d.op = c.op /\ d.card = c.card /\ d.st = c.st /\ d.was = c.was
        /\ BoardCallSound(c) => BoardCallSound(d)
  BY DEF Board!CallRecord, BoardCallSound
<1>3. BoardCallsTyped' /\ BoardCallsStay
  <2>1. \A s \in Slots : IF calls[s] = None THEN calls'[s] = None ELSE calls'[s] = [calls[s] EXCEPT !.hook = "gone"]
    BY <1>1
  <2>2. \A s \in Slots : calls[s] # None => calls[s] \in Board!CallRecord /\ BoardCallSound(calls[s])
    BY <1>0 DEF BoardCallsTyped
  <2>3. calls' \in [Slots -> Board!CallRecord \cup {None}]
    BY <1>1, <1>2, <2>2
  <2>4. \A s \in Slots : calls'[s] # None => BoardCallSound(calls'[s])
    BY <1>2, <2>1, <2>2
  <2>5. BoardCallsStay
    <3> SUFFICES ASSUME NEW s \in Slots, calls[s] # None
                 PROVE  /\ calls'[s] # None /\ calls'[s].op = calls[s].op /\ calls'[s].card = calls[s].card
                        /\ calls'[s].st = calls[s].st /\ calls'[s].was = calls[s].was
      BY DEF BoardCallsStay
    <3>1. calls'[s] = [calls[s] EXCEPT !.hook = "gone"] /\ calls[s] \in Board!CallRecord
      BY <2>1, <2>2
    <3> QED
      BY <1>2, <3>1, BoardNone
  <2> QED
    BY <1>1, <2>3, <2>4, <2>5 DEF BoardCallsTyped
<1>4. BoardUiSound(ui')
  BY <1>1 DEF BoardUiSound, BoardUi, Board!NoUi
<1>5. BudgetSound(budget') /\ budget'.used = budget.used
  BY <1>0, <1>1, Spent
<1>6. BoardTyped'
  BY <1>0, <1>1, <1>3, <1>4, <1>5 DEF BoardTyped, BoardServerTyped
<1>7. CardsKnown'
  <2>1. \A s \in Slots : calls'[s] # None => calls[s] # None
    BY <1>1
  <2>2. \A s \in Slots : calls[s] # None =>
          /\ calls'[s].op = calls[s].op /\ calls'[s].card = calls[s].card
          /\ calls'[s].st = calls[s].st /\ calls'[s].was = calls[s].was
    BY <1>3 DEF BoardCallsStay
  <2> QED
    BY <1>0, <1>1, <1>5, <2>1, <2>2 DEF CardsKnown
<1>8. ASSUME NEW p \in Cards PROVE ListOk(p)' /\ DetailOk(p)'
  BY <1>1, <1>3, MovingStays DEF BoardInv, ListOk, DetailOk
<1> QED
  BY <1>6, <1>7, <1>8 DEF BoardInv

LEMMA ReturnInv == ASSUME BoardInv, Board!Return PROVE BoardInv'
<1>0. BoardTyped /\ BoardServerTyped /\ CardsKnown
  BY DEF BoardInv, BoardTyped
<1>1. ui' = Board!NoUi /\ list' \in Board!Mounted(list) /\ UNCHANGED <<row, detail, calls, latest, budget, told>>
  BY DEF Board!Return
<1>2. /\ BoardEntrySound(list', Board!Board) /\ list'.val = list.val /\ (list.stale => list'.stale)
      /\ list.fetch # "idle" => list'.fetch # "idle"
  BY <1>0, <1>1, BoardEntryOpened DEF BoardServerTyped
<1>3. BoardUiSound(ui')
  BY <1>1 DEF BoardUiSound, BoardUi, Board!NoUi
<1>4. BoardTyped'
  BY <1>0, <1>1, <1>2, <1>3 DEF BoardTyped, BoardServerTyped, BoardCallsTyped
<1>5. CardsKnown'
  BY <1>0, <1>1 DEF CardsKnown
<1>6. ASSUME NEW p \in Cards PROVE ListOk(p)' /\ DetailOk(p)'
  BY <1>1, <1>2 DEF BoardInv, ListOk, DetailOk, Moving, BoardWritten
<1> QED
  BY <1>4, <1>5, <1>6 DEF BoardInv

LEMMA ReadsInv ==
    ASSUME BoardInv, \/ Board!ServeList \/ Board!StoreList \/ Board!LoadFails
                     \/ \E p \in Cards : Board!ServeDetail(p) \/ Board!StoreDetail(p) \/ Board!OpenDetail(p)
    PROVE  BoardInv'
<1>0. BoardUiSound(ui) /\ ui \in BoardUi /\ BudgetSound(budget)
  BY DEF BoardInv, BoardTyped, BoardUiSound
<1>1. CASE Board!ServeList \/ Board!StoreList
  <2>1. UNCHANGED <<row, detail, calls, latest, ui, budget>>
    BY <1>1 DEF Board!ServeList, Board!StoreList
  <2> QED
    BY <1>0, <1>1, <2>1, ListReadInv
<1>2. ASSUME NEW p \in Cards, Board!ServeDetail(p) \/ Board!StoreDetail(p) PROVE BoardInv'
  <2>1. UNCHANGED <<row, list, calls, latest, ui, budget>>
    BY <1>2 DEF Board!ServeDetail, Board!StoreDetail
  <2> QED
    BY <1>0, <1>2, <2>1, DetailReadInv
<1>3. ASSUME NEW p \in Cards, Board!OpenDetail(p) PROVE BoardInv'
  <2>1. Board!Usable /\ ui' = [ui EXCEPT !.open = p] /\ Board!Open /\ UNCHANGED <<row, list, calls, latest, told>>
    BY <1>3, Zenon DEF Board!OpenDetail
  <2>2. \E e \in Board!Mounted(detail[p]) : detail' = [detail EXCEPT ![p] = e]
    BY <1>3, Zenon DEF Board!OpenDetail
  <2>3. BoardUiSound(ui')
    BY <1>0, <2>1, UsableIs DEF BoardUiSound, BoardUi
  <2>4. BudgetSound(budget') /\ budget'.used = budget.used
    BY <1>0, <2>1, Spent
  <2> QED
    BY <2>1, <2>2, <2>3, <2>4, DetailReadInv
<1>4. CASE Board!LoadFails
  <2>1. CASE list.fetch = "asked" /\ Board!Fault /\ list' = Board!Cancelled(list)
        /\ told' = told \cup Board!Views("list") /\ UNCHANGED detail
    <3>1. UNCHANGED <<row, calls, latest, ui>>
      BY <1>4 DEF Board!LoadFails
    <3>2. BudgetSound(budget') /\ budget'.used = budget.used
      BY <1>0, <2>1, Spent
    <3> QED
      BY <2>1, <3>1, <3>2, ListReadInv
  <2>2. ASSUME NEW p \in Cards, detail[p].fetch = "asked", Board!Fault \/ (row[p] = None /\ UNCHANGED budget),
               detail' = [detail EXCEPT ![p] = Board!Cancelled(@)], told' = told \cup {Board!View("detail", p)}, UNCHANGED list
        PROVE  BoardInv'
    <3>1. UNCHANGED <<row, calls, latest, ui>>
      BY <1>4 DEF Board!LoadFails
    <3>2. BudgetSound(budget') /\ budget'.used = budget.used
      BY <1>0, <2>2, Spent
    <3> QED
      BY <1>0, <2>2, <3>1, <3>2, DetailReadInv
  <2> QED
    BY <1>4, <2>1, <2>2 DEF Board!LoadFails
<1> QED
  BY <1>1, <1>2, <1>3, <1>4

LEMMA BoardInit == ASSUME Board!Init PROVE BoardInv
<1>1. PICK b \in BoardBounds :
         /\ budget = [calls |-> b.calls, opens |-> b.opens, faults |-> b.faults, others |-> b.others, used |-> b.cards]
         /\ row = [p \in Cards |-> IF p \in b.cards THEN "NEW" ELSE None]
  BY DEF Board!Init
<1>2. /\ list = Board!Loaded(row) /\ detail = [p \in Cards |-> Board!NoEntry]
      /\ calls = [s \in Slots |-> None] /\ latest = [h \in Board!Hooks |-> None] /\ ui = Board!NoUi /\ told = {}
  BY DEF Board!Init
<1>3. b.cards \subseteq Cards /\ {b.calls, b.opens, b.others} \subseteq Nat /\ b.faults \in Nat
  <2>1. b.faults \in 0 .. MaxFaults
    BY BoardsAssumption DEF Board!BoardAssumption
  <2> QED
    BY <2>1, BoardsAssumption DEF Board!BoardAssumption
<1>4. BudgetSound(budget) /\ budget.used = b.cards
  BY <1>1, <1>3 DEF BudgetSound
<1>5. row \in Board!Board /\ \A p \in Cards : p \notin b.cards => row[p] = None
  BY <1>1 DEF Board!Board, Board!Stages
<1>6. BoardEntrySound(list, Board!Board) /\ list.val = row
  BY <1>2, <1>5 DEF Board!Loaded, Board!NoEntry, BoardEntrySound, Board!Entry
<1>7. Board!NoEntry \in Board!Entry(Board!Stages) /\ BoardEntrySound(Board!NoEntry, Board!Stages)
      /\ Board!NoEntry.val = None /\ Board!NoEntry.fetch = "idle"
  BY DEF Board!NoEntry, BoardEntrySound, Board!Entry
<1>8. BoardUiSound(ui)
  BY <1>2 DEF BoardUiSound, BoardUi, Board!NoUi
<1>9. BoardTyped
  BY <1>2, <1>4, <1>5, <1>6, <1>7, <1>8 DEF BoardTyped, BoardServerTyped, BoardCallsTyped
<1>10. CardsKnown
  BY <1>2, <1>4, <1>5, <1>7 DEF CardsKnown
<1>11. ASSUME NEW p \in Cards PROVE ListOk(p) /\ DetailOk(p)
  BY <1>2, <1>6, <1>7 DEF ListOk, DetailOk
<1> QED
  BY <1>9, <1>10, <1>11 DEF BoardInv

LEMMA BoardNext == ASSUME BoardInv, Board!Next PROVE BoardInv'
<1>1. BoardTyped
  BY DEF BoardInv
<1> QED
  BY <1>1, BoardSteps, EditedInv, MovedInv, AskedInv, ReadsInv, LeaveInv, ReturnInv, BoardElsewhereInv, CarryInv,
     LoseInv,
     MovedBackInv, MoveFailedInv, SavedInv, FailedInv, Zenon

LEMMA BoardHolds == ASSUME BoardInv PROVE Board!TypeOK /\ Board!BoardIsCurrent /\ Board!NotesBelong
<1>0. BoardTyped /\ BoardServerTyped /\ BoardCallsTyped /\ ui \in BoardUi
  BY DEF BoardInv, BoardTyped, BoardUiSound
<1>1. Board!TypeOK
  BY <1>0 DEF Board!TypeOK, BoardServerTyped, BoardCallsTyped, BoardEntrySound, BoardUi
<1>2. Board!NotesBelong
  BY <1>0 DEF Board!NotesBelong, BoardCallsTyped, BoardCallSound
<1>3. ASSUME NEW p \in Cards, Board!AtRest(p)
      PROVE  /\ list.val # None /\ Board!View("list", p) \notin told => list.val[p] = row[p]
             /\ ui.open = p /\ None \notin {detail[p].val, row[p]} /\ Board!View("detail", p) \notin told
                   => detail[p].val = row[p]
  BY <1>3 DEF BoardInv, ListOk, DetailOk, Board!AtRest, Board!Resting, Board!Idle, Moving, BoardWritten
<1> QED
  BY <1>1, <1>2, <1>3 DEF Board!BoardIsCurrent

\* The one step that writes an edit to the table.
LEMMA SaveKeeps == ASSUME BoardInv, Board!Next PROVE Board!SavesKeepStage
<1> SUFFICES ASSUME NEW s \in Slots, calls[s] # None, calls[s].op = "save", calls[s].st = "sent", ~calls[s].form.picked,
                    calls'[s] # None, calls'[s].st = "ok",
                    calls[s].form.seen = calls[s].form.was, row[calls[s].card] = calls[s].form.was
             PROVE  row'[calls[s].card] = row[calls[s].card]
  BY DEF Board!SavesKeepStage
<1> DEFINE c == calls[s]
<1>0. BoardTyped /\ BoardCallSound(c) /\ c \in Board!CallRecord /\ c.card \in Cards /\ c.stage = c.form.seen
      /\ row \in Board!Board
  BY DEF BoardInv, BoardTyped, BoardServerTyped, BoardCallsTyped, BoardCallSound
<1>1. CASE UNCHANGED row
  BY <1>1
<1>2. ASSUME NEW r \in Slots, Board!Carry(r) PROVE row'[c.card] = row[c.card]
  <2>1. CASE r # s
    <3>1. calls'[s] = calls[s]
      BY <1>0, <1>2, <2>1 DEF Board!Carry, BoardTyped, BoardCallsTyped
    <3> QED
      BY <3>1
  <2>2. CASE r = s
    <3>1. UNCHANGED row \/ row' = [row EXCEPT ![c.card] = c.stage]
      BY <1>2, <2>2 DEF Board!Carry, Board!Effect
    <3> QED
      BY <1>0, <3>1 DEF Board!Board
  <2> QED
    BY <2>1, <2>2
<1>3. ASSUME NEW p \in Cards, NEW t \in Board!Stages, Board!Elsewhere(p, t) PROVE row'[c.card] = row[c.card]
  BY <1>3 DEF Board!Elsewhere
<1>4. Edited \/ Moved \/ Asked => UNCHANGED row
  BY DEF Edited, Moved, Asked, Board!Same, Board!SendMove
<1>5. Board!ServeList \/ Board!StoreList \/ Board!LoadFails \/ Board!Leave \/ Board!Return => UNCHANGED row
  BY DEF Board!ServeList, Board!StoreList, Board!LoadFails, Board!Leave, Board!Return
<1>6. \A p \in Cards : Board!ServeDetail(p) \/ Board!StoreDetail(p) \/ Board!OpenDetail(p) => UNCHANGED row
  BY DEF Board!ServeDetail, Board!StoreDetail, Board!OpenDetail
<1>7. \A r \in Slots : Board!LoseCall(r) \/ Board!OnMoved(r) \/ Board!OnMoveFailed(r) \/ Board!OnSaved(r)
                       \/ Board!OnDeleted(r) \/ Board!OnFailed(r) => UNCHANGED row
  BY DEF Board!LoseCall, Board!OnMoved, Board!OnMoveFailed, Board!OnSaved, Board!OnDeleted, Board!OnFailed
<1> QED
  BY <1>0, <1>1, <1>2, <1>3, <1>4, <1>5, <1>6, <1>7, BoardSteps

-----------------------------------------------------------------------------
(* The pages of the events *)

RunRecord ==
    [event: Events, st: {"new", "out", "over"}, data: [att: SUBSET Event!Files, guest: BOOLEAN, held: BOOLEAN]]
WriteRecord == [kind: {"success", "failed"}, run: 1 .. MaxRuns, event: Events, copy: Event!Event]
LoadRecord ==
    [into: {"form", "page"}, event: Events \cup {None}, value: SUBSET Event!Files, with: SUBSET Event!Files, free: BOOLEAN,
     alive: BOOLEAN]
UiRecord ==
    [page: Event!Pages, open: Events \cup {None}, form: Event!FormRecord \cup {None}, erase: Events \cup {None},
     remove: [file: Event!Files, free: BOOLEAN] \cup {None}, draft: BOOLEAN \cup {None}]
BudgetRecord ==
    [calls: Nat, opens: Nat, edits: Nat, faults: Nat, runs: Nat, others: Nat, files: SUBSET Event!Files, used: SUBSET Events]
Table == [Events -> Event!Event \cup {None}]

\* What an entry of the cache may hold.
Kept(k) == IF k = "list" THEN Table ELSE Event!Event
EventEntrySound(e, V) == e \in Event!Entry(V) /\ (e.fetch = "answered" => e.got \in V)

\* The user has taken off what its sender knew of and the list leaves out.
Dropped(e, seen, att, gone) == \A f \in seen \ att : <<e, f>> \in gone

\* What a call has, by what it is for and by how far it has come.
EventCallSound(c, gone, used) ==
    /\ c \in Event!CallRecord
    /\ c.op # "create" \/ c.st = "ok" => c.event \in Events
    /\ c.op = "create" => c.guest \in BOOLEAN /\ c.held \in BOOLEAN
    /\ c.op \in {"create", "save", "files"} => c.att \in SUBSET Event!Files
    /\ c.op \in {"save", "files", "people"} => c.free
    /\ c.op \in {"save", "files"} => Dropped(c.event, c.seen, c.att, gone)
    /\ c.op \in {"people", "analyze"} => c.att = None
    /\ c.st = "read" => /\ c.op \notin {"create", "delete"} /\ c.event \in used /\ c.copy \in Event!Event
                        /\ c.op = "analyze" => ~Event!Locking(c.copy)
                        /\ c.att = None => c.seen = c.copy.att

\* What an upload has, and what a page keeps.
LoadSound(l, form, gone) ==
    /\ l.free
    /\ l.into = "form" => form # None /\ l.event = form.event /\ Dropped(l.event, form.seen, l.value, gone)
    /\ l.into = "page" => l.event \in Events
LoadsSound(ls, form, gone) ==
    ls \in [Event!Files -> LoadRecord \cup {None}]
    /\ \A f \in Event!Files : ls[f] # None => LoadSound(ls[f], form, gone)
EventUiSound(u, gone, used) ==
    /\ u \in UiRecord /\ (u.page = "detail" => u.open \in used)
    /\ u.form # None => u.form.free /\ Dropped(u.form.event, u.form.seen, u.form.att, gone)
    /\ u.remove # None => u.remove.free

EventServerTyped ==
    /\ row \in Table /\ runs \in Seq(RunRecord) /\ Len(runs) <= MaxRuns /\ writes \subseteq WriteRecord
    /\ holes \subseteq Events /\ astray \subseteq Events
CacheTyped ==
    /\ cache \in [Event!Keys -> Event!Entry(Table \cup Event!Event)]
       /\ \A k \in Event!Keys : EventEntrySound(cache[k], Kept(k))
    /\ told \subseteq Event!Keys
EventCallsTyped ==
    /\ calls \in [Slots -> Event!CallRecord \cup {None}]
    /\ \A s \in Slots : calls[s] # None => EventCallSound(calls[s], removed, budget.used)
    /\ latest \in [Event!Ops -> Slots \cup {None}]
    /\ \A op \in Event!Ops : latest[op] # None => calls[latest[op]] # None /\ calls[latest[op]].op = op
PageSound ==
    /\ EventUiSound(ui, removed, budget.used) /\ LoadsSound(loads, ui.form, removed)
    /\ ui.remove # None => Event!Here # None
    /\ removed \subseteq (Events \cup {None}) \X Event!Files

\* Of an event that has not been there, nothing is known.
Known(k, e, used) ==
    IF k = "list" THEN \A x \in Events \ used : /\ e.val # None => e.val[x] = None
                                                /\ e.fetch = "answered" => e.got[x] = None
    ELSE k \notin used => e.val = None /\ e.fetch # "answered"
UsedOnly ==
    /\ \A e \in Events \ budget.used : row[e] = None
    /\ \A k \in Event!Keys : Known(k, cache[k], budget.used)
    /\ \A w \in writes : w.event \in budget.used

\* An event that is analysed says so, unless it has gone astray.
Marked == \A i \in DOMAIN runs : Event!Active(i) /\ runs[i].event \notin astray => Event!Locking(row[runs[i].event])

\* What a page shows is right, or will be put right.
EventWritten(k) == \E s \in Slots : calls[s] # None /\ calls[s].st = "ok" /\ k \in Event!Invalidates(calls[s])
Right(k) ==
    \/ k \in told \/ cache[k].stale \/ cache[k].fetch # "idle" \/ cache[k].val = Event!Truth(k)
       \/ Event!Truth(k) = None
    \/ (k \in Events /\ (Event!Locking(cache[k].val) \/ (cache[k].val = None /\ ~Event!Watched(k))))
    \/ EventWritten(k)

EventTyped == EventServerTyped /\ CacheTyped /\ EventCallsTyped /\ PageSound /\ budget \in BudgetRecord
EventInv ==
    EventTyped /\ UsedOnly /\ Marked /\ Event!OneAnalysis /\ Event!LockHolds /\ \A k \in Event!Keys : Right(k)

-----------------------------------------------------------------------------
(* What users do *)

LEMMA EventNone ==
    /\ None \notin Events /\ "list" \notin Events /\ None \notin SUBSET Event!Files /\ None \notin Event!Event
       /\ None \notin Event!CallRecord /\ None \notin Event!FormRecord
    /\ Slots \subseteq Nat /\ MaxFiles \in Nat /\ MaxRuns \in Nat
BY BoardsAssumption DEF Event!EventAssumption

LEMMA HereIs ==
    ASSUME EventTyped
    PROVE  /\ \A e \in Events : e \in Event!Keys /\ EventEntrySound(cache[e], Event!Event)
              /\ cache[e].val \in Event!Event \cup {None}
           /\ "list" \in Event!Keys /\ EventEntrySound(cache["list"], Table)
              /\ cache["list"].val \in Table \cup {None}
           /\ Event!Here \in Event!Event \cup {None}
           /\ Event!Here # None => ui.page = "detail" /\ ui.open \in Events /\ ui.open \in budget.used
              /\ Event!Here = cache[ui.open].val
<1>1. \A e \in Events : e \in Event!Keys /\ EventEntrySound(cache[e], Event!Event)
                        /\ cache[e].val \in Event!Event \cup {None}
  <2> SUFFICES ASSUME NEW e \in Events
               PROVE  e \in Event!Keys /\ EventEntrySound(cache[e], Event!Event)
                      /\ cache[e].val \in Event!Event \cup {None}
    OBVIOUS
  <2>1. e \in Event!Keys /\ Kept(e) = Event!Event
    BY EventNone DEF Event!Keys, Kept
  <2>2. EventEntrySound(cache[e], Event!Event)
    BY <2>1 DEF EventTyped, CacheTyped
  <2> QED
    BY <2>1, <2>2 DEF EventEntrySound, Event!Entry
<1>2. "list" \in Event!Keys /\ EventEntrySound(cache["list"], Table) /\ cache["list"].val \in Table \cup {None}
  BY DEF EventTyped, CacheTyped, Kept, Event!Keys, EventEntrySound, Event!Entry
<1>3. ui.page = "detail" => ui.open \in Events /\ ui.open \in budget.used
  BY DEF EventTyped, PageSound, EventUiSound, BudgetRecord
<1> QED
  BY <1>1, <1>2, <1>3 DEF Event!Here, Event!Shown

\* What users do on a page: of the server, and of what it has told, nothing changes.
EventCallsStay ==
    \A s \in Slots : calls[s] # None =>
        /\ calls'[s] # None /\ calls'[s].op = calls[s].op /\ calls'[s].event = calls[s].event
        /\ calls'[s].st = calls[s].st
Used ==
    /\ UNCHANGED <<row, runs, writes, holes, astray, cache, told>> /\ EventCallsTyped' /\ EventCallsStay /\ PageSound'
    /\ budget' \in BudgetRecord /\ budget'.used = budget.used /\ ui'.page = ui.page /\ ui'.open = ui.open

LEMMA EventSpent ==
    ASSUME budget \in BudgetRecord,
           UNCHANGED budget \/ \E f \in {"calls", "opens", "edits", "faults", "runs", "others"} : Event!Spend(f)
    PROVE  budget' \in BudgetRecord /\ budget'.used = budget.used
BY DEF BudgetRecord, Event!Spend

LEMMA SoundStays ==
    ASSUME NEW gone, NEW more, gone \subseteq more, NEW used, NEW other, used \subseteq other
    PROVE  /\ \A c : EventCallSound(c, gone, used) => EventCallSound(c, more, other)
           /\ \A l, form : LoadSound(l, form, gone) => LoadSound(l, form, more)
BY DEF EventCallSound, LoadSound, Dropped

LEMMA CallsKept ==
    ASSUME EventCallsTyped, UNCHANGED calls, removed \subseteq removed', budget.used \subseteq budget'.used,
           latest' = latest \/ latest' = [latest EXCEPT !["create"] = None, !["save"] = None]
    PROVE  EventCallsTyped' /\ EventCallsStay
<1>1. \A s \in Slots : calls'[s] # None => EventCallSound(calls'[s], removed', budget'.used)
  BY SoundStays DEF EventCallsTyped
<1>2. latest' \in [Event!Ops -> Slots \cup {None}]
      /\ \A op \in Event!Ops : latest'[op] # None => latest'[op] = latest[op]
  BY DEF EventCallsTyped
<1> QED
  BY <1>1, <1>2 DEF EventCallsTyped, EventCallsStay

LEMMA CallPosted ==
    ASSUME EventCallsTyped, NEW c, EventCallSound(c, removed', budget'.used), Event!Post(c),
           removed \subseteq removed', budget.used \subseteq budget'.used
    PROVE  EventCallsTyped' /\ EventCallsStay
<1>1. PICK s \in Slots : /\ calls[s] = None /\ calls' = [calls EXCEPT ![s] = c]
                         /\ latest' = IF c.alive THEN [latest EXCEPT ![c.op] = s] ELSE latest
  BY DEF Event!Post
<1>2. c \in Event!CallRecord /\ c # None /\ c.op \in Event!Ops
  BY EventNone DEF EventCallSound, Event!CallRecord
<1>3. calls' \in [Slots -> Event!CallRecord \cup {None}] /\ calls'[s] = c
      /\ \A r \in Slots : r # s => calls'[r] = calls[r]
  BY <1>1, <1>2 DEF EventCallsTyped
<1>4. \A r \in Slots : calls'[r] # None => EventCallSound(calls'[r], removed', budget'.used)
  BY <1>3, SoundStays DEF EventCallsTyped
<1>5. latest' \in [Event!Ops -> Slots \cup {None}]
      /\ \A op \in Event!Ops : latest'[op] = latest[op] \/ (op = c.op /\ latest'[op] = s)
  BY <1>1, <1>2 DEF EventCallsTyped
<1>6. ASSUME NEW op \in Event!Ops, latest'[op] # None PROVE calls'[latest'[op]] # None /\ calls'[latest'[op]].op = op
  BY <1>1, <1>2, <1>3, <1>5, <1>6 DEF EventCallsTyped
<1>7. EventCallsStay
  BY <1>1, <1>3 DEF EventCallsStay
<1> QED
  BY <1>3, <1>4, <1>5, <1>6, <1>7 DEF EventCallsTyped

\* The state of the page changes, and a form that is open stays that of its event.
LEMMA PageUsed ==
    ASSUME EventTyped, UNCHANGED <<row, runs, writes, holes, astray, cache, calls, latest, loads, told, removed>>,
           UNCHANGED budget \/ Event!Spend("opens") \/ Event!Spend("edits"),
           EventUiSound(ui', removed, budget.used), ui'.page = ui.page, ui'.open = ui.open,
           ui.form # None => ui'.form # None /\ ui'.form.event = ui.form.event /\ ui'.form.seen = ui.form.seen,
           ui'.remove # None => Event!Here # None
    PROVE  Used
<1>1. budget' \in BudgetRecord /\ budget'.used = budget.used
  BY EventSpent DEF EventTyped
<1>2. EventCallsTyped' /\ EventCallsStay
  BY <1>1, CallsKept DEF EventTyped
<1>3. LoadsSound(loads', ui'.form, removed')
  BY DEF EventTyped, PageSound, LoadsSound, LoadSound
<1>4. Event!Here' = Event!Here
  BY DEF Event!Here, Event!Shown
<1>5. PageSound'
  BY <1>1, <1>3, <1>4 DEF EventTyped, PageSound
<1> QED
  BY <1>1, <1>2, <1>5 DEF Used

LEMMA CallAsked ==
    ASSUME EventTyped, NEW c, EventCallSound(c, removed, budget.used), Event!Send(c), UNCHANGED <<loads, ui>>,
           Event!Spend("calls") \/ Event!Spend("runs")
    PROVE  Used
<1>1. budget' \in BudgetRecord /\ budget'.used = budget.used
  BY EventSpent DEF EventTyped
<1>2. Event!Post(c) /\ UNCHANGED <<row, runs, writes, holes, astray, cache, told, removed>>
  BY DEF Event!Send, Event!server, Event!history
<1>3. EventCallsTyped' /\ EventCallsStay
  BY <1>1, <1>2, CallPosted DEF EventTyped
<1>4. PageSound'
  BY <1>1, <1>2 DEF EventTyped, PageSound, Event!Here, Event!Shown
<1> QED
  BY <1>1, <1>2, <1>3, <1>4 DEF Used

LEMMA FilesPicked ==
    ASSUME EventTyped, NEW into, NEW e, NEW value, NEW free, Event!Pick(into, e, value, free),
           \A fs \in SUBSET Event!Files : LET l == Event!Load(into, e, value, fs, free) IN
              l \in LoadRecord /\ LoadSound(l, ui.form, removed)
    PROVE  Used
<1>1. PICK fs \in SUBSET budget.files :
         /\ loads' = [f \in Event!Files |-> IF f \in fs THEN Event!Load(into, e, value, fs, free) ELSE loads[f]]
         /\ budget' = [budget EXCEPT !.files = @ \ fs]
  BY DEF Event!Pick
<1>2. UNCHANGED <<row, runs, writes, holes, astray, cache, calls, latest, ui, told, removed>>
  BY DEF Event!Pick, Event!server, Event!history
<1>3. budget' \in BudgetRecord /\ budget'.used = budget.used /\ fs \in SUBSET Event!Files
  BY <1>1 DEF EventTyped, BudgetRecord
<1>4. EventCallsTyped' /\ EventCallsStay
  BY <1>2, <1>3, CallsKept DEF EventTyped
<1>5. LoadsSound(loads', ui.form, removed)
  <2> DEFINE l == Event!Load(into, e, value, fs, free)
  <2>1. l \in LoadRecord /\ LoadSound(l, ui.form, removed)
    BY <1>3
  <2>2. loads' = [f \in Event!Files |-> IF f \in fs THEN l ELSE loads[f]]
    BY <1>1
  <2> HIDE DEF l
  <2> QED
    BY <2>1, <2>2 DEF EventTyped, PageSound, LoadsSound
<1>6. PageSound'
  BY <1>2, <1>3, <1>5 DEF EventTyped, PageSound, Event!Here, Event!Shown
<1> QED
  BY <1>2, <1>3, <1>4, <1>6 DEF Used

LEMMA FormTyped ==
    ASSUME EventTyped, ui.form # None
    PROVE  /\ ui \in UiRecord /\ ui.form \in Event!FormRecord /\ ui.form.free
           /\ Dropped(ui.form.event, ui.form.seen, ui.form.att, removed)
BY DEF EventTyped, PageSound, EventUiSound, UiRecord

LEMMA EventFormUsed ==
    ASSUME EventTyped, Event!UseForm
    PROVE  Used
<1>0. EventUiSound(ui, removed, budget.used) /\ ui \in UiRecord /\ (ui.remove # None => Event!Here # None)
  BY DEF EventTyped, PageSound, EventUiSound
<1>1. ASSUME Event!Invite \/ Event!Hold PROVE Used
  <2>1. ui.form # None /\ Event!Spend("edits")
        /\ UNCHANGED <<row, runs, writes, holes, astray, cache, calls, latest, loads, told, removed>>
        /\ (ui' = [ui EXCEPT !.form.guest = ~@] \/ ui' = [ui EXCEPT !.form.held = ~@])
    BY <1>1 DEF Event!Invite, Event!Hold, Event!Typing, Event!server, Event!browser, Event!history
  <2>2. ui.form \in Event!FormRecord
    BY <2>1, FormTyped
  <2>3. /\ ui' \in UiRecord /\ ui'.page = ui.page /\ ui'.open = ui.open /\ ui'.remove = ui.remove
        /\ ui'.form \in Event!FormRecord /\ ui'.form.event = ui.form.event /\ ui'.form.seen = ui.form.seen
        /\ ui'.form.att = ui.form.att /\ ui'.form.free = ui.form.free
    <3>1. \A b \in BOOLEAN : (~b) \in BOOLEAN
      OBVIOUS
    <3>2. PICK b \in BOOLEAN : ui' = [ui EXCEPT !.form.guest = b] \/ ui' = [ui EXCEPT !.form.held = b]
      BY <2>1, <2>2, <3>1 DEF Event!FormRecord
    <3> QED
      BY <1>0, <2>2, <3>2 DEF UiRecord, Event!FormRecord
  <2>4. EventUiSound(ui', removed, budget.used)
    BY <1>0, <2>1, <2>3 DEF EventUiSound
  <2> QED
    BY <1>0, <2>1, <2>3, <2>4, EventNone, PageUsed
<1>2. ASSUME NEW f \in Event!Files, Event!DropFromForm(f) PROVE Used
  <2>1. /\ ui.form # None /\ ui' = [ui EXCEPT !.form.att = @ \ {f}]
        /\ removed' = removed \cup {<<ui.form.event, f>>}
        /\ UNCHANGED <<row, runs, writes, holes, astray, cache, calls, latest, loads, budget, told>>
    BY <1>2 DEF Event!DropFromForm, Event!server, Event!browser
  <2>2. ui.form \in Event!FormRecord /\ Dropped(ui.form.event, ui.form.seen, ui.form.att, removed)
    BY <2>1, FormTyped
  <2>3. /\ ui' \in UiRecord /\ ui'.page = ui.page /\ ui'.open = ui.open /\ ui'.remove = ui.remove
        /\ ui'.form \in Event!FormRecord /\ ui'.form.event = ui.form.event /\ ui'.form.seen = ui.form.seen
        /\ ui'.form.att = ui.form.att \ {f} /\ ui'.form.free = ui.form.free
    BY <1>0, <2>1, <2>2 DEF UiRecord, Event!FormRecord
  <2>4. EventUiSound(ui', removed', budget.used)
    BY <1>0, <2>1, <2>2, <2>3 DEF EventUiSound, Dropped
  <2>5. removed' \subseteq (Events \cup {None}) \X Event!Files
    BY <2>1, <2>2 DEF EventTyped, PageSound, Event!FormRecord
  <2>6. LoadsSound(loads', ui'.form, removed')
    <3>1. ui'.form # None
      BY <2>3, EventNone
    <3> QED
      BY <2>1, <2>3, <3>1 DEF EventTyped, PageSound, LoadsSound, LoadSound, Dropped
  <2>7. PageSound'
    BY <1>0, <2>1, <2>3, <2>4, <2>5, <2>6 DEF PageSound, Event!Here, Event!Shown
  <2>8. EventCallsTyped' /\ EventCallsStay
    BY <2>1, CallsKept DEF EventTyped
  <2> QED
    BY <2>1, <2>3, <2>7, <2>8 DEF Used, EventTyped
<1>3. CASE Event!PickInForm
  <2>1. ui.form # None /\ Event!Pick("form", ui.form.event, ui.form.att, ui.form.free)
    BY <1>3, Zenon DEF Event!PickInForm
  <2>2. /\ ui.form \in Event!FormRecord /\ ui.form.free
        /\ Dropped(ui.form.event, ui.form.seen, ui.form.att, removed)
    BY <2>1, FormTyped
  <2>3. ASSUME NEW fs \in SUBSET Event!Files
        PROVE  LET l == Event!Load("form", ui.form.event, ui.form.att, fs, ui.form.free) IN
               l \in LoadRecord /\ LoadSound(l, ui.form, removed)
    BY <2>1, <2>2 DEF Event!Load, LoadRecord, LoadSound, Event!FormRecord
  <2> QED
    BY <2>1, <2>3, FilesPicked
<1>4. CASE Event!Submit
  <2> DEFINE f == ui.form
             op == IF f.event = None THEN "create" ELSE "save"
             c == [Event!Call(op, f.event) EXCEPT !.att = f.att, !.guest = f.guest, !.held = f.held,
                                                  !.seen = f.seen, !.free = f.free]
        <2>1. f # None /\ Event!Ask(c) /\ UNCHANGED ui
          BY <1>4, Zenon DEF Event!Submit
        <2>2. f \in Event!FormRecord /\ f.free /\ Dropped(f.event, f.seen, f.att, removed)
          BY <2>1, FormTyped
        <2>3. /\ c \in Event!CallRecord /\ c.op = op /\ c.event = f.event /\ c.att = f.att /\ c.guest = f.guest
                 /\ c.held = f.held
              /\ c.seen = f.seen /\ c.free = f.free /\ c.st = "sent"
          BY <2>2 DEF Event!Call, Event!CallRecord, Event!FormRecord, Event!Ops
        <2> HIDE DEF c
        <2>4. EventCallSound(c, removed, budget.used)
          BY <2>2, <2>3 DEF EventCallSound, Event!FormRecord
        <2> QED
          BY <2>1, <2>4, CallAsked DEF Event!Ask
<1>5. CASE Event!CloseForm
  <2>1. /\ ui.form # None /\ ui' = [ui EXCEPT !.form = None]
        /\ latest' = [latest EXCEPT !["create"] = None, !["save"] = None]
        /\ loads' = [f \in Event!Files |-> IF loads[f] # None /\ loads[f].into = "form" THEN None ELSE loads[f]]
        /\ UNCHANGED <<row, runs, writes, holes, astray, cache, calls, budget, told, removed>>
    <3>1. /\ ui.form # None /\ Event!Unmount([ui EXCEPT !.form = None])
          /\ UNCHANGED <<row, runs, writes, holes, astray, cache, calls, budget, told, removed>>
      BY <1>5 DEF Event!CloseForm, Event!server, Event!history
    <3>2. [ui EXCEPT !.form = None].form = None
      BY <1>0 DEF UiRecord
    <3> QED
      BY <3>1, <3>2 DEF Event!Unmount
  <2>2. EventUiSound(ui', removed, budget.used) /\ ui'.page = ui.page /\ ui'.open = ui.open /\ ui'.remove = ui.remove
    BY <1>0, <2>1 DEF EventUiSound, UiRecord
  <2>3. LoadsSound(loads', ui'.form, removed')
    BY <2>1 DEF EventTyped, PageSound, LoadsSound, LoadSound
  <2>4. PageSound'
    BY <1>0, <2>1, <2>2, <2>3 DEF EventTyped, PageSound, Event!Here, Event!Shown
  <2>5. EventCallsTyped' /\ EventCallsStay
    BY <2>1, CallsKept DEF EventTyped
  <2> QED
    BY <2>1, <2>2, <2>4, <2>5 DEF Used, EventTyped
<1> QED
  BY <1>1, <1>2, <1>3, <1>4, <1>5 DEF Event!UseForm

LEMMA EventListUsed ==
    ASSUME EventTyped, Event!UseList
    PROVE  Used
<1>0. EventUiSound(ui, removed, budget.used) /\ ui \in UiRecord /\ (ui.remove # None => Event!Here # None)
  BY DEF EventTyped, PageSound, EventUiSound
<1>1. CASE Event!OpenCreate
  <2>1. /\ ui.form = None /\ ui' = [ui EXCEPT !.form = Event!NewForm] /\ Event!Spend("opens")
        /\ UNCHANGED <<row, runs, writes, holes, astray, cache, calls, latest, loads, told, removed>>
    BY <1>1 DEF Event!OpenCreate, Event!Opening, Event!Covered, Event!server, Event!browser, Event!history
  <2>2. Event!NewForm \in Event!FormRecord /\ Event!NewForm.free /\ Event!NewForm.seen = {}
    BY DEF Event!NewForm, Event!FormRecord
  <2>3. EventUiSound(ui', removed, budget.used) /\ ui'.page = ui.page /\ ui'.open = ui.open /\ ui'.remove = ui.remove
    BY <1>0, <2>1, <2>2 DEF EventUiSound, UiRecord, Dropped
  <2> QED
    BY <1>0, <2>1, <2>3, PageUsed
<1>2. ASSUME NEW e \in Events, Event!OpenEdit(e) PROVE Used
  <2> DEFINE f == Event!FormOf(e, Event!Shown("list")[e], TRUE)
  <2>1. /\ Event!InList(e) /\ ui' = [ui EXCEPT !.form = f] /\ Event!Spend("opens")
        /\ UNCHANGED <<row, runs, writes, holes, astray, cache, calls, latest, loads, told, removed>>
    BY <1>2, Zenon DEF Event!OpenEdit, Event!Opening, Event!server, Event!browser, Event!history
  <2>2. Event!Shown("list")[e] \in Event!Event /\ ui.form = None
    BY <2>1, HereIs DEF Event!InList, Event!Shown, Table, Event!Covered
  <2>3. f \in Event!FormRecord /\ f.free /\ f.seen = f.att
    BY <2>2 DEF Event!FormOf, Event!FormRecord, Event!Event
  <2> HIDE DEF f
  <2>4. EventUiSound(ui', removed, budget.used) /\ ui'.page = ui.page /\ ui'.open = ui.open /\ ui'.remove = ui.remove
    BY <1>0, <2>1, <2>3 DEF EventUiSound, UiRecord, Dropped
  <2> QED
    BY <1>0, <2>1, <2>2, <2>4, PageUsed
<1>3. ASSUME NEW e \in Events, Event!AskDelete(e) PROVE Used
  <2>1. /\ ui' = [ui EXCEPT !.erase = e] /\ Event!Spend("opens")
        /\ UNCHANGED <<row, runs, writes, holes, astray, cache, calls, latest, loads, told, removed>>
    BY <1>3, Zenon DEF Event!AskDelete, Event!Opening, Event!server, Event!browser, Event!history
  <2>2. EventUiSound(ui', removed, budget.used) /\ ui'.page = ui.page /\ ui'.open = ui.open /\ ui'.remove = ui.remove
        /\ ui'.form = ui.form
    BY <1>0, <2>1 DEF EventUiSound, UiRecord
  <2> QED
    BY <1>0, <2>1, <2>2, PageUsed
<1>4. CASE Event!ConfirmDelete
  <2> DEFINE c == Event!Call("delete", ui.erase)
  <2>1. ui.erase # None /\ Event!Ask(c) /\ UNCHANGED ui
    BY <1>4, Zenon DEF Event!ConfirmDelete
  <2>2. ui.erase \in Events
    BY <1>0, <2>1 DEF UiRecord
  <2>3. EventCallSound(c, removed, budget.used)
    BY <2>2 DEF Event!Call, EventCallSound, Event!CallRecord, Event!Ops
  <2> HIDE DEF c
  <2> QED
    BY <2>1, <2>3, CallAsked DEF Event!Ask
<1> QED
  BY <1>1, <1>2, <1>3, <1>4 DEF Event!UseList

LEMMA DetailUsed ==
    ASSUME EventTyped, Event!UseDetail \/ Event!UseDialogs
    PROVE  Used
<1>0. /\ EventUiSound(ui, removed, budget.used) /\ ui \in UiRecord /\ (ui.remove # None => Event!Here # None)
      /\ Event!Here # None => Event!Here \in Event!Event /\ ui.page = "detail" /\ ui.open \in Events
      /\ removed \subseteq (Events \cup {None}) \X Event!Files
  BY HereIs DEF EventTyped, PageSound, EventUiSound
<1>1. Event!Unlocked => Event!Here # None /\ ui.form = None /\ ui.remove = None /\ ~Event!Locked
  BY DEF Event!Unlocked, Event!Detail, Event!Covered
<1>2. CASE Event!EditEvent
  <2> DEFINE f == Event!FormOf(ui.open, Event!Here, ~Event!Locked)
  <2>1. /\ Event!Unlocked /\ ui' = [ui EXCEPT !.form = f] /\ Event!Spend("opens")
        /\ UNCHANGED <<row, runs, writes, holes, astray, cache, calls, latest, loads, told, removed>>
    BY <1>2, Zenon DEF Event!EditEvent, Event!Opening, Event!server, Event!browser, Event!history
  <2>2. f \in Event!FormRecord /\ f.free /\ f.seen = f.att
    BY <1>0, <1>1, <2>1 DEF Event!FormOf, Event!FormRecord, Event!Event
  <2> HIDE DEF f
  <2>3. EventUiSound(ui', removed, budget.used) /\ ui'.page = ui.page /\ ui'.open = ui.open /\ ui'.remove = ui.remove
    BY <1>0, <2>1, <2>2 DEF EventUiSound, UiRecord, Dropped
  <2> QED
    BY <1>0, <1>1, <2>1, <2>3, PageUsed
<1>3. CASE Event!PickHere
  <2>1. Event!Unlocked /\ Event!Pick("page", ui.open, Event!Here.att, ~Event!Locked)
    BY <1>3, Zenon DEF Event!PickHere
  <2>2. ASSUME NEW fs \in SUBSET Event!Files
        PROVE  LET l == Event!Load("page", ui.open, Event!Here.att, fs, ~Event!Locked) IN
               l \in LoadRecord /\ LoadSound(l, ui.form, removed)
    BY <1>0, <1>1, <2>1 DEF Event!Load, LoadRecord, LoadSound, Event!Event
  <2> QED
    BY <2>1, <2>2, FilesPicked
<1>4. CASE Event!ConfirmRemove
  <2> DEFINE f == ui.remove.file
             c == [Event!Call("files", ui.open) EXCEPT !.att = Event!Here.att \ {f}, !.seen = Event!Here.att, !.free = ui.remove.free]
  <2>1. /\ ui.remove # None /\ ui' = [ui EXCEPT !.remove = None] /\ Event!Post(c)
           /\ removed' = removed \cup {<<ui.open, f>>}
        /\ Event!Spend("calls") /\ UNCHANGED <<row, runs, writes, holes, astray, cache, loads, told>>
    BY <1>4, Zenon DEF Event!ConfirmRemove, Event!server
  <2>2. f \in Event!Files /\ ui.remove \in [file: Event!Files, free: BOOLEAN] /\ Event!Here \in Event!Event
        /\ ui.open \in Events
    BY <1>0, <2>1 DEF UiRecord
  <2>3. budget' \in BudgetRecord /\ budget'.used = budget.used
    BY <2>1, EventSpent DEF EventTyped
  <2>4. /\ c \in Event!CallRecord /\ c.op = "files" /\ c.event = ui.open /\ c.att = Event!Here.att \ {f}
           /\ c.seen = Event!Here.att
        /\ c.free = ui.remove.free /\ c.st = "sent"
    BY <2>2 DEF Event!Call, Event!CallRecord, Event!Ops, Event!Event
  <2> HIDE DEF c
  <2>5. ui.remove.free
    BY <1>0, <2>1 DEF EventUiSound
  <2>6. EventCallSound(c, removed', budget'.used)
    <3>1. c.att \in SUBSET Event!Files /\ Dropped(c.event, c.seen, c.att, removed')
      BY <2>1, <2>2, <2>4 DEF Dropped, Event!Event
    <3> QED
      BY <2>2, <2>4, <2>5, <3>1 DEF EventCallSound
  <2>7. EventCallsTyped' /\ EventCallsStay
    BY <2>1, <2>3, <2>6, CallPosted DEF EventTyped
  <2>8. /\ EventUiSound(ui', removed', budget'.used) /\ ui'.page = ui.page /\ ui'.open = ui.open /\ ui'.form = ui.form
        /\ ui'.remove = None
    BY <1>0, <2>1, <2>3 DEF EventUiSound, UiRecord, Dropped
  <2>9. LoadsSound(loads', ui'.form, removed')
    BY <2>1, <2>8 DEF EventTyped, PageSound, LoadsSound, LoadSound, Dropped
  <2>10. PageSound'
    BY <1>0, <2>1, <2>2, <2>8, <2>9 DEF PageSound
  <2> QED
    BY <2>1, <2>3, <2>7, <2>8, <2>10 DEF Used
<1>5. ASSUME Event!EditPeople \/ Event!TypePeople PROVE Used
  <2>1. /\ Event!Unlocked /\ (Event!Spend("opens") \/ Event!Spend("edits"))
        /\ UNCHANGED <<row, runs, writes, holes, astray, cache, calls, latest, loads, told, removed>>
        /\ \/ ui' = [ui EXCEPT !.draft = IF @ = None THEN Event!Here.guest ELSE None]
           \/ ui.draft # None /\ ui' = [ui EXCEPT !.draft = ~@]
    BY <1>5 DEF Event!EditPeople, Event!TypePeople, Event!Opening, Event!Typing, Event!server, Event!browser,
       Event!history
  <2>2. Event!Here.guest \in BOOLEAN
    BY <1>0, <1>1, <2>1 DEF Event!Event
  <2>3. EventUiSound(ui', removed, budget.used) /\ ui'.page = ui.page /\ ui'.open = ui.open /\ ui'.remove = ui.remove
        /\ ui'.form = ui.form
    BY <1>0, <2>1, <2>2 DEF EventUiSound, UiRecord
  <2> QED
    BY <1>0, <2>1, <2>3, PageUsed
<1>6. CASE Event!SavePeople
  <2> DEFINE c == [Event!Call("people", ui.open) EXCEPT !.guest = ui.draft, !.free = ~Event!Locked]
  <2>1. Event!Unlocked /\ ui.draft # None /\ Event!Ask(c) /\ UNCHANGED ui
    BY <1>6, Zenon DEF Event!SavePeople
  <2>2. c \in Event!CallRecord /\ c.op = "people" /\ c.event = ui.open /\ c.att = None /\ c.free /\ c.st = "sent"
    BY <1>0, <1>1, <2>1 DEF Event!Call, Event!CallRecord, Event!Ops, UiRecord
  <2> HIDE DEF c
  <2>3. EventCallSound(c, removed, budget.used)
    BY <1>0, <1>1, <2>1, <2>2 DEF EventCallSound
  <2> QED
    BY <2>1, <2>3, CallAsked DEF Event!Ask
<1>7. CASE Event!Analyze
  <2> DEFINE c == Event!Call("analyze", ui.open)
  <2>1. Event!Unlocked /\ Event!Send(c) /\ Event!Spend("runs") /\ UNCHANGED <<loads, ui>>
    BY <1>7, Zenon DEF Event!Analyze
  <2>2. EventCallSound(c, removed, budget.used)
    BY <1>0, <1>1, <2>1 DEF Event!Call, EventCallSound, Event!CallRecord, Event!Ops
  <2> HIDE DEF c
  <2> QED
    BY <2>1, <2>2, CallAsked
<1>8. ASSUME NEW f \in Event!Files, Event!AskRemove(f) PROVE Used
  <2> DEFINE r == [file |-> f, free |-> ~Event!Locked]
  <2>1. /\ Event!Unlocked /\ ui' = [ui EXCEPT !.remove = r] /\ Event!Spend("opens")
        /\ UNCHANGED <<row, runs, writes, holes, astray, cache, calls, latest, loads, told, removed>>
    BY <1>8, Zenon DEF Event!AskRemove, Event!Opening, Event!server, Event!browser, Event!history
  <2>r. r \in [file: Event!Files, free: BOOLEAN] /\ r.free
    BY <1>1, <2>1
  <2> HIDE DEF r
  <2>2. EventUiSound(ui', removed, budget.used) /\ ui'.page = ui.page /\ ui'.open = ui.open /\ ui'.form = ui.form
    BY <1>0, <2>1, <2>r DEF EventUiSound, UiRecord
  <2> QED
    BY <1>1, <2>1, <2>2, PageUsed
<1>9. ASSUME NEW d \in {"erase", "remove"}, Event!Dismiss(d) PROVE Used
  <2>1. /\ ui' = [ui EXCEPT ![d] = None]
        /\ UNCHANGED <<row, runs, writes, holes, astray, cache, calls, latest, loads, budget, told, removed>>
    BY <1>9, Zenon DEF Event!Dismiss, Event!server, Event!browser, Event!history
  <2>2. CASE d = "erase"
    <3>1. EventUiSound(ui', removed, budget.used) /\ ui'.page = ui.page /\ ui'.open = ui.open /\ ui'.form = ui.form
          /\ ui'.remove = ui.remove
      BY <1>0, <2>1, <2>2 DEF EventUiSound, UiRecord
    <3> QED
      BY <1>0, <2>1, <3>1, PageUsed
  <2>3. CASE d = "remove"
    <3>1. EventUiSound(ui', removed, budget.used) /\ ui'.page = ui.page /\ ui'.open = ui.open /\ ui'.form = ui.form
          /\ ui'.remove = None
      BY <1>0, <2>1, <2>3 DEF EventUiSound, UiRecord
    <3> QED
      BY <1>0, <2>1, <3>1, PageUsed
  <2> QED
    BY <2>2, <2>3
<1> QED
  BY <1>2, <1>3, <1>4, <1>5, <1>6, <1>7, <1>8, <1>9 DEF Event!UseDetail, Event!UseDialogs

LEMMA UploadUsed ==
    ASSUME EventTyped, NEW f \in Event!Files, Event!Upload(f)
    PROVE  Used
<1> DEFINE l == loads[f]
<1>0. /\ EventUiSound(ui, removed, budget.used) /\ ui \in UiRecord /\ (ui.remove # None => Event!Here # None)
      /\ LoadsSound(loads, ui.form, removed)
  BY DEF EventTyped, PageSound, EventUiSound
<1>1. /\ l # None /\ loads' = [loads EXCEPT ![f] = None] /\ l \in LoadRecord /\ LoadSound(l, ui.form, removed)
      /\ UNCHANGED <<row, runs, writes, holes, astray, cache, told, removed>>
  <2>1. /\ l # None /\ loads' = [loads EXCEPT ![f] = None]
        /\ UNCHANGED <<row, runs, writes, holes, astray, cache, told, removed>>
    BY DEF Event!Upload, Event!Uploaded, Event!UploadFails, Event!Send, Event!server, Event!history
  <2> QED
    BY <1>0, <2>1 DEF LoadsSound
<1>2. LoadsSound(loads', ui.form, removed)
  BY <1>0, <1>1 DEF LoadsSound
<1>3. CASE Event!UploadFails(f)
  <2>1. Event!Spend("faults") /\ UNCHANGED <<calls, latest, ui>>
    BY <1>3 DEF Event!UploadFails
  <2>2. budget' \in BudgetRecord /\ budget'.used = budget.used
    BY <2>1, EventSpent DEF EventTyped
  <2>3. EventCallsTyped' /\ EventCallsStay
    BY <1>1, <2>1, <2>2, CallsKept DEF EventTyped
  <2>4. PageSound'
    BY <1>1, <1>2, <2>1, <2>2 DEF EventTyped, PageSound, Event!Here, Event!Shown
  <2> QED
    BY <1>1, <2>1, <2>2, <2>3, <2>4 DEF Used
<1>4. CASE l.into = "form" /\ ui' = [ui EXCEPT !.form.att = Event!Listed(l, f)] /\ UNCHANGED <<calls, latest, budget>>
  <2>1. ui.form # None /\ l.event = ui.form.event /\ Dropped(l.event, ui.form.seen, l.value, removed)
    BY <1>1, <1>4 DEF LoadSound
  <2>2. ui.form \in Event!FormRecord /\ ui.form.free /\ Event!Listed(l, f) \in SUBSET Event!Files
    BY <1>1, <2>1, FormTyped DEF Event!Listed, LoadRecord
  <2>3. /\ ui' \in UiRecord /\ ui'.page = ui.page /\ ui'.open = ui.open /\ ui'.remove = ui.remove
        /\ ui'.form \in Event!FormRecord /\ ui'.form.event = ui.form.event /\ ui'.form.seen = ui.form.seen
        /\ ui'.form.att = Event!Listed(l, f) /\ ui'.form.free = ui.form.free
    BY <1>0, <1>4, <2>2 DEF UiRecord, Event!FormRecord
  <2>4. EventUiSound(ui', removed, budget.used)
    BY <1>0, <2>1, <2>2, <2>3 DEF EventUiSound, Dropped, Event!Listed
  <2>5. LoadsSound(loads', ui'.form, removed)
    <3>1. ui'.form # None
      BY <2>3, EventNone
    <3> QED
      BY <1>2, <2>3, <3>1 DEF LoadsSound, LoadSound
  <2>6. PageSound'
    BY <1>0, <1>1, <1>4, <2>3, <2>4, <2>5 DEF EventTyped, PageSound, Event!Here, Event!Shown
  <2>7. EventCallsTyped' /\ EventCallsStay
    BY <1>1, <1>4, CallsKept DEF EventTyped
  <2> QED
    BY <1>1, <1>4, <2>3, <2>6, <2>7 DEF Used, EventTyped
<1> DEFINE c == [Event!Call("files", l.event) EXCEPT !.att = Event!Listed(l, f), !.file = f, !.free = l.free,
                                                     !.seen = l.value, !.alive = l.alive]
<1>5. CASE l.into = "page" /\ Event!Send(c) /\ UNCHANGED <<ui, budget>>
  <2>1. l.event \in Events /\ l.free /\ Event!Listed(l, f) \in SUBSET Event!Files
    BY <1>1, <1>5 DEF LoadSound, Event!Listed, LoadRecord
  <2>2. /\ c \in Event!CallRecord /\ c.op = "files" /\ c.event = l.event /\ c.att = Event!Listed(l, f)
           /\ c.free = l.free
        /\ c.seen = l.value /\ c.st = "sent"
    BY <1>1, <2>1 DEF Event!Call, Event!CallRecord, Event!Ops, LoadRecord
  <2> HIDE DEF c
  <2>3. EventCallSound(c, removed', budget'.used)
    BY <2>1, <2>2 DEF EventCallSound, Dropped, Event!Listed
  <2>4. Event!Post(c)
    BY <1>5 DEF Event!Send
  <2>5. EventCallsTyped' /\ EventCallsStay
    BY <1>1, <1>5, <2>3, <2>4, CallPosted DEF EventTyped
  <2>6. PageSound'
    BY <1>1, <1>2, <1>5 DEF EventTyped, PageSound, Event!Here, Event!Shown
  <2> QED
    BY <1>1, <1>5, <2>5, <2>6 DEF Used, EventTyped
<1>6. Event!UploadFails(f)
      \/ (l.into = "form" /\ ui' = [ui EXCEPT !.form.att = Event!Listed(l, f)] /\ UNCHANGED <<calls, latest, budget>>)
      \/ (l.into = "page" /\ Event!Send(c) /\ UNCHANGED <<ui, budget>>)
  BY DEF Event!Upload, Event!Uploaded
<1> QED
  BY <1>3, <1>4, <1>5, <1>6

\* What else there is: the cache, the server, and the pages that are opened and answered.
CacheSteps == Event!Poll \/ \E k \in Event!Keys : Event!Serve(k) \/ Event!Store(k) \/ Event!LoadFails(k)
RunSteps == \E i \in 1 .. MaxRuns : Event!Dispatch(i) \/ Event!DispatchFails(i) \/ Event!Report(i)
    \/ Event!LoseReport(i) \/ Event!Reap(i)
CallSteps == \E s \in Slots : Event!Insert(s) \/ Event!Read(s) \/ Event!Write(s) \/ Event!Start(s)
    \/ Event!Delete(s) \/ Event!LoseCall(s) \/ Event!Deliver(s)
OtherSteps == (\E w \in writes : Event!Settle(w)) \/ Event!Restart \/ Event!Elsewhere
Goes == (\E p \in Event!Pages : Event!OpenPage(p)) \/ \E e \in Events : Event!OpenEvent(e)

LEMMA EventSteps ==
    ASSUME EventTyped, Event!Next
    PROVE  Used \/ CacheSteps \/ RunSteps \/ CallSteps \/ OtherSteps \/ Goes
<1>1. Event!UseForm \/ Event!UseList \/ Event!UseDetail \/ Event!UseDialogs => Used
  BY EventFormUsed, EventListUsed, DetailUsed
<1>2. \A f \in Event!Files : Event!Upload(f) => Used
  BY UploadUsed
<1> QED
  BY <1>1, <1>2, Zenon DEF Event!Next, Event!Query, Event!Handle, Event!Bridge, Event!Navigate, CacheSteps, RunSteps,
     CallSteps, OtherSteps, Goes

-----------------------------------------------------------------------------
(* What the steps do to the parts of a state *)

LEMMA EventEntryIs ==
    ASSUME NEW V, NEW e, EventEntrySound(e, V)
    PROVE  /\ e = [val |-> e.val, stale |-> e.stale, fetch |-> e.fetch, got |-> e.got]
           /\ e.val \in V \cup {None} /\ e.stale \in BOOLEAN /\ e.got \in V \cup {None}
           /\ e.fetch \in {"idle", "asked", "answered"} /\ (e.fetch = "answered" => e.got \in V)
BY DEF EventEntrySound, Event!Entry

LEMMA EventEntryRefetched ==
    ASSUME NEW V, NEW e, EventEntrySound(e, V)
    PROVE  /\ EventEntrySound(Event!Refetched(e), V) /\ Event!Refetched(e).val = e.val
              /\ Event!Refetched(e).stale = e.stale
           /\ Event!Refetched(e).fetch # "idle"
           /\ Event!Refetched(e).fetch = "answered" => e.fetch = "answered" /\ Event!Refetched(e).got = e.got
BY EventEntryIs DEF Event!Refetched, EventEntrySound, Event!Entry

LEMMA EventEntryOpened ==
    ASSUME NEW V, NEW e, EventEntrySound(e, V), NEW old
    PROVE  /\ EventEntrySound(Event!Opened(e, old), V) /\ Event!Opened(e, old).val = e.val
              /\ Event!Opened(e, old).stale = e.stale
           /\ e.fetch # "idle" \/ e.val = None => Event!Opened(e, old).fetch # "idle"
           /\ Event!Opened(e, old).fetch = "answered" => e.fetch = "answered" /\ Event!Opened(e, old).got = e.got
BY EventEntryRefetched DEF Event!Opened

LEMMA EventEntryMarked ==
    ASSUME NEW V, NEW e, EventEntrySound(e, V), NEW watched
    PROVE  /\ EventEntrySound(Event!Invalidated(e, watched), V) /\ Event!Invalidated(e, watched).val = e.val
           /\ Event!Invalidated(e, watched).stale
           /\ Event!Invalidated(e, watched).fetch = "answered" => e.fetch = "answered"
              /\ Event!Invalidated(e, watched).got = e.got
<1> DEFINE x == IF watched THEN Event!Refetched(e) ELSE e
<1>1. /\ EventEntrySound(x, V) /\ x.val = e.val
      /\ x.fetch = "answered" => e.fetch = "answered" /\ x.got = e.got
  BY EventEntryRefetched
<1>2. Event!Invalidated(e, watched) = [x EXCEPT !.stale = TRUE]
  BY DEF Event!Invalidated
<1> HIDE DEF x
<1> QED
  BY <1>1, <1>2, EventEntryIs DEF EventEntrySound, Event!Entry

LEMMA EventEntryCancelled ==
    ASSUME NEW V, NEW e, EventEntrySound(e, V)
    PROVE  EventEntrySound(Event!Cancelled(e), V) /\ Event!Cancelled(e).val = e.val
           /\ Event!Cancelled(e).fetch = "idle"
BY EventEntryIs DEF Event!Cancelled, EventEntrySound, Event!Entry

LEMMA EventEntryAnswered ==
    ASSUME NEW V, NEW e, EventEntrySound(e, V), NEW v \in V
    PROVE  /\ EventEntrySound(Event!Answered(e, v), V) /\ Event!Answered(e, v).val = e.val
              /\ Event!Answered(e, v).fetch = "answered"
           /\ Event!Answered(e, v).got = v
BY EventEntryIs DEF Event!Answered, EventEntrySound, Event!Entry

LEMMA EventEntryStored ==
    ASSUME NEW V, NEW e, EventEntrySound(e, V), e.fetch = "answered"
    PROVE  EventEntrySound(Event!Stored(e), V) /\ Event!Stored(e).val = e.got /\ Event!Stored(e).fetch = "idle"
           /\ e.got \in V
BY EventEntryIs DEF Event!Stored, Event!Loaded, Event!NoEntry, EventEntrySound, Event!Entry

\* An entry that is fetched, marked or stored knows no more than it did.
LEMMA KnownKept ==
    ASSUME NEW k, NEW e, NEW x, NEW used, NEW other, used \subseteq other, Known(k, e, used),
           \/ /\ x.val = e.val
              /\ x.fetch = "answered" => e.fetch = "answered" /\ x.got = e.got
           \/ e.fetch = "answered" /\ x.val = e.got /\ x.fetch # "answered"
    PROVE  Known(k, x, other)
BY DEF Known

LEMMA KeysAre == \A k \in Event!Keys : k = "list" \/ k \in Events
BY DEF Event!Keys

LEMMA EntryOf ==
    ASSUME CacheTyped, NEW k \in Event!Keys
    PROVE  EventEntrySound(cache[k], Kept(k))
           /\ \A e : EventEntrySound(e, Kept(k)) => e \in Event!Entry(Table \cup Event!Event)
BY DEF CacheTyped, Kept, EventEntrySound, Event!Entry

\* The server changes: the pages stay as they are.
LEMMA PagesStay ==
    ASSUME EventTyped, UNCHANGED <<cache, loads, ui, removed>>, told' \subseteq Event!Keys,
           budget' \in BudgetRecord, budget.used \subseteq budget'.used
    PROVE  CacheTyped' /\ PageSound'
<1>1. Event!Here' = Event!Here
  BY DEF Event!Here, Event!Shown
<1>2. EventUiSound(ui, removed, budget'.used)
  BY DEF EventTyped, PageSound, EventUiSound
<1> QED
  BY <1>1, <1>2 DEF EventTyped, CacheTyped, PageSound

\* A call has come further.
LEMMA CallTurned ==
    ASSUME EventCallsTyped, NEW s \in Slots,
           NEW d, calls[s] # None, calls' = [calls EXCEPT ![s] = d], UNCHANGED latest,
           EventCallSound(d, removed', budget'.used), d.op = calls[s].op,
           removed \subseteq removed', budget.used \subseteq budget'.used
    PROVE  EventCallsTyped' /\ calls'[s] = d /\ d # None /\ \A r \in Slots : r # s => calls'[r] = calls[r]
<1>1. d \in Event!CallRecord /\ d # None
  BY EventNone DEF EventCallSound
<1>2. calls' \in [Slots -> Event!CallRecord \cup {None}] /\ calls'[s] = d
      /\ \A r \in Slots : r # s => calls'[r] = calls[r]
  BY <1>1 DEF EventCallsTyped
<1>3. \A r \in Slots : calls'[r] # None => EventCallSound(calls'[r], removed', budget'.used)
  BY <1>2, SoundStays DEF EventCallsTyped
<1>4. ASSUME NEW op \in Event!Ops, latest[op] # None PROVE calls'[latest[op]] # None /\ calls'[latest[op]].op = op
  BY <1>1, <1>2, <1>4 DEF EventCallsTyped
<1> QED
  BY <1>1, <1>2, <1>3, <1>4 DEF EventCallsTyped

\* What was written is still to be fetched, by every call but one.
LEMMA WrittenStays ==
    ASSUME NEW s \in Slots, \A r \in Slots : r # s => calls'[r] = calls[r],
           calls[s] # None /\ calls[s].st = "ok" =>
              calls'[s] # None /\ calls'[s].st = "ok" /\ calls'[s].op = calls[s].op
              /\ calls'[s].event = calls[s].event
    PROVE  \A k : EventWritten(k) => EventWritten(k)'
BY DEF EventWritten, Event!Invalidates

-----------------------------------------------------------------------------
(* The locks *)

LockInv == Marked /\ Event!OneAnalysis /\ Event!LockHolds

LEMMA RunIs ==
    ASSUME EventServerTyped, NEW i \in DOMAIN runs
    PROVE  runs[i] \in RunRecord /\ i \in 1 .. Len(runs) /\ i \in 1 .. MaxRuns /\ Len(runs) \in Nat
<1>1. Len(runs) \in Nat /\ DOMAIN runs = 1 .. Len(runs) /\ MaxRuns \in Nat
  BY EventNone DEF EventServerTyped
<1> QED
  BY <1>1 DEF EventServerTyped

\* A row is saved whole.
LEMMA LocksSaved ==
    ASSUME EventServerTyped, LockInv, UNCHANGED runs, NEW e \in Events,
           NEW r, Event!Save(e, r), holes \subseteq holes',
           Event!Locking(r) /\ Event!Locking(row[e]) => e \in holes' \/ Event!Data(r) = Event!Data(row[e])
    PROVE  LockInv'
<1>1. /\ row'[e] = r /\ (\A x \in Events : x # e => row'[x] = row[x]) /\ astray \subseteq astray'
      /\ Event!Analysed(e) /\ ~Event!Locking(r) => e \in astray'
  BY DEF Event!Save, EventServerTyped, Table
<1>2. \A i \in DOMAIN runs : runs[i].event \in Events
  BY RunIs DEF RunRecord
<1>3. Marked'
  BY <1>1, <1>2 DEF LockInv, Marked, Event!Active, Event!Analysed
<1>4. Event!OneAnalysis'
  BY <1>1 DEF LockInv, Event!OneAnalysis, Event!Active
<1>5. Event!LockHolds'
  BY <1>1, <1>2 DEF LockInv, Marked, Event!LockHolds, Event!Active
<1> QED
  BY <1>3, <1>4, <1>5 DEF LockInv

\* Runs come to their end.
LEMMA LocksEnded ==
    ASSUME LockInv, UNCHANGED <<row, holes, astray>>, DOMAIN runs' = DOMAIN runs,
           \A i \in DOMAIN runs : /\ runs'[i].event = runs[i].event /\ runs'[i].data = runs[i].data
                                  /\ runs'[i].st \in {"new", "out"} => Event!Active(i)
    PROVE  LockInv'
<1>1. \A i \in DOMAIN runs : Event!Active(i)' => Event!Active(i)
  BY DEF Event!Active
<1> QED
  BY <1>1 DEF LockInv, Marked, Event!OneAnalysis, Event!LockHolds

\* The table changes in one row.
LEMMA RightSaved ==
    ASSUME EventInv, UNCHANGED <<cache, ui>>, told \subseteq told', NEW e \in Events,
           row' \in Table, \A x \in Events : x # e => row'[x] = row[x],
           \A k : EventWritten(k) => EventWritten(k)',
           row' = row \/ (Right("list")' /\ Right(e)')
    PROVE  \A k \in Event!Keys : Right(k)'
<1>1. ASSUME NEW k \in Event!Keys, UNCHANGED row \/ k \notin {"list", e} PROVE Right(k)'
  <2>1. Event!Truth(k)' = Event!Truth(k) /\ (Event!Watched(k) <=> Event!Watched(k)')
    BY <1>1, KeysAre DEF Event!Truth, Event!Watched
  <2>2. Right(k)
    BY DEF EventInv
  <2> QED
    BY <2>1, <2>2 DEF Right
<1> QED
  BY <1>1

-----------------------------------------------------------------------------
(* The steps keep the invariant *)

LEMMA UsedInv == ASSUME EventInv, Used PROVE EventInv'
<1>1. EventTyped'
  BY DEF EventInv, EventTyped, Used, EventServerTyped, CacheTyped
<1>2. UsedOnly' /\ Marked' /\ Event!OneAnalysis' /\ Event!LockHolds'
  BY DEF EventInv, Used, UsedOnly, Marked, Event!OneAnalysis, Event!LockHolds, Event!Active
<1>3. ASSUME NEW k \in Event!Keys PROVE Right(k)'
  <2>1. Event!Truth(k)' = Event!Truth(k) /\ (Event!Watched(k) <=> Event!Watched(k)')
    BY DEF Used, Event!Truth, Event!Watched
  <2>2. EventWritten(k) => EventWritten(k)'
    BY DEF Used, EventCallsStay, EventWritten, Event!Invalidates
  <2> QED
    BY <2>1, <2>2 DEF EventInv, Used, Right
<1> QED
  BY <1>1, <1>2, <1>3 DEF EventInv

\* One entry of the cache is fetched or stored.
LEMMA EntryInv ==
    ASSUME EventInv, NEW k \in Event!Keys, NEW e,
           UNCHANGED <<row, runs, writes, holes, astray, calls, latest, loads, ui, removed>>,
           UNCHANGED budget \/ Event!Spend("faults"),
           cache' = [cache EXCEPT ![k] = e], EventEntrySound(e, Kept(k)), e.val = cache[k].val \/ e.val \in Kept(k),
           Known(k, e, budget.used),
           told' \subseteq Event!Keys, \A j \in Event!Keys : j # k /\ j \in told => j \in told',
           k \in told' \/ e.fetch # "idle" \/ e.val = Event!Truth(k)
    PROVE  EventInv'
<1>0. EventTyped
  BY DEF EventInv
<1>1. budget' \in BudgetRecord /\ budget'.used = budget.used
  BY <1>0, EventSpent DEF EventTyped
<1>2. /\ cache' \in [Event!Keys -> Event!Entry(Table \cup Event!Event)] /\ cache'[k] = e
      /\ \A j \in Event!Keys : j # k => cache'[j] = cache[j]
  BY <1>0, EntryOf DEF EventTyped, CacheTyped
<1>3. CacheTyped'
  BY <1>0, <1>2 DEF EventTyped, CacheTyped
<1>4. PageSound'
  <2>1. Event!Here # None => Event!Here' # None
    <3>1. CASE ui.page # "detail" \/ ui.open # k
      BY <1>0, <1>2, <3>1, HereIs DEF Event!Here, Event!Shown
    <3>2. CASE ui.page = "detail" /\ ui.open = k
      <4>1. k \in Events => Kept(k) = Event!Event
        BY EventNone DEF Kept
      <4>2. ui.open \in Events
        BY <1>0, <3>2 DEF EventTyped, PageSound, EventUiSound, BudgetRecord
      <4> QED
        BY <1>2, <3>2, <4>1, <4>2, EventNone DEF Event!Here, Event!Shown
    <3> QED
      BY <3>1, <3>2
  <2> QED
    BY <1>0, <1>1, <2>1 DEF EventTyped, PageSound
<1>5. EventServerTyped' /\ EventCallsTyped'
  BY <1>0, <1>1 DEF EventTyped, EventServerTyped, EventCallsTyped
<1>6. UsedOnly'
  BY <1>1, <1>2 DEF EventInv, UsedOnly
<1>7. Marked' /\ Event!OneAnalysis' /\ Event!LockHolds'
  BY DEF EventInv, Marked, Event!OneAnalysis, Event!LockHolds, Event!Active
<1>8. ASSUME NEW j \in Event!Keys PROVE Right(j)'
  <2>1. Event!Truth(j)' = Event!Truth(j) /\ (Event!Watched(j) <=> Event!Watched(j)')
    BY DEF Event!Truth, Event!Watched
  <2>2. CASE j = k
    BY <1>2, <2>1, <2>2 DEF Right
  <2>3. CASE j # k
    <3>1. Right(j) /\ cache'[j] = cache[j] /\ (EventWritten(j) => EventWritten(j)')
      BY <1>2, <2>3 DEF EventInv, EventWritten
    <3> QED
      BY <2>1, <2>3, <3>1 DEF Right
  <2> QED
    BY <2>2, <2>3
<1> QED
  BY <1>1, <1>3, <1>4, <1>5, <1>6, <1>7, <1>8 DEF EventInv, EventTyped

LEMMA CacheInv == ASSUME EventInv, CacheSteps PROVE EventInv'
<1>0. EventTyped /\ CacheTyped /\ told \subseteq Event!Keys
  BY DEF EventInv, EventTyped, CacheTyped
<1>1. \A k \in Event!Keys : Known(k, cache[k], budget.used) /\ EventEntrySound(cache[k], Kept(k))
  BY <1>0, EntryOf DEF EventInv, UsedOnly
<1>2. CASE Event!Poll
  <2>1. /\ Event!Here # None /\ cache' = [cache EXCEPT ![ui.open] = Event!Refetched(cache[ui.open])]
        /\ UNCHANGED <<row, runs, writes, holes, astray, calls, latest, loads, ui, budget, told, removed>>
    BY <1>2 DEF Event!Poll, Event!Polls, Event!Locked, Event!Locking, Event!server, Event!history
  <2>2. PICK k \in Event!Keys : k = ui.open
    BY <1>0, <2>1, HereIs
  <2> DEFINE e == Event!Refetched(cache[k])
  <2>3. /\ EventEntrySound(e, Kept(k)) /\ e.val = cache[k].val /\ e.fetch # "idle"
        /\ e.fetch = "answered" => cache[k].fetch = "answered" /\ e.got = cache[k].got
    BY <1>1, EventEntryRefetched
  <2>4. Known(k, e, budget.used)
    BY <1>1, <2>3, KnownKept
  <2>5. cache' = [cache EXCEPT ![k] = e]
    BY <2>1, <2>2
  <2> HIDE DEF e
  <2> QED
    BY <1>0, <2>1, <2>3, <2>4, <2>5, EntryInv
<1>3. ASSUME NEW k \in Event!Keys, Event!Serve(k) PROVE EventInv'
  <2> DEFINE e == Event!Answered(cache[k], Event!Truth(k))
  <2>1. /\ Event!Truth(k) # None /\ cache' = [cache EXCEPT ![k] = e]
        /\ UNCHANGED <<row, runs, writes, holes, astray, calls, latest, loads, ui, budget, told, removed>>
    BY <1>3 DEF Event!Serve, Event!server, Event!history
  <2>2. Event!Truth(k) \in Kept(k)
    BY <1>0, <2>1, KeysAre DEF Event!Truth, Kept, EventTyped, EventServerTyped, Table
  <2>3. EventEntrySound(e, Kept(k)) /\ e.val = cache[k].val /\ e.fetch = "answered" /\ e.got = Event!Truth(k)
    BY <1>1, <2>2, EventEntryAnswered
  <2>4. Known(k, e, budget.used)
    <3>1. k \in Events => k \in budget.used
      BY <2>1, EventNone DEF Event!Truth, EventInv, UsedOnly
    <3>2. CASE k = "list"
      BY <1>1, <2>3, <3>2 DEF Known, Event!Truth, EventInv, UsedOnly
    <3> QED
      BY <3>1, <3>2, KeysAre DEF Known
  <2> HIDE DEF e
  <2> QED
    BY <1>0, <2>1, <2>3, <2>4, EntryInv
<1>4. ASSUME NEW k \in Event!Keys, Event!Store(k) PROVE EventInv'
  <2> DEFINE e == Event!Stored(cache[k])
  <2>1. /\ cache[k].fetch = "answered" /\ cache' = [cache EXCEPT ![k] = e]
        /\ told' = IF cache[k].got = Event!Truth(k) THEN told \ {k} ELSE told \cup {k}
        /\ UNCHANGED <<row, runs, writes, holes, astray, calls, latest, loads, ui, budget, removed>>
    BY <1>4 DEF Event!Store, Event!server
  <2>2. EventEntrySound(e, Kept(k)) /\ e.val = cache[k].got /\ e.fetch = "idle" /\ e.val \in Kept(k)
    BY <1>1, <2>1, EventEntryStored
  <2>3. Known(k, e, budget.used)
    BY <1>1, <2>1, <2>2, KnownKept
  <2> HIDE DEF e
  <2> QED
    BY <1>0, <2>1, <2>2, <2>3, EntryInv
<1>5. ASSUME NEW k \in Event!Keys, Event!LoadFails(k) PROVE EventInv'
  <2> DEFINE e == Event!Cancelled(cache[k])
  <2>1. /\ cache' = [cache EXCEPT ![k] = e] /\ told' = told \cup {k} /\ (UNCHANGED budget \/ Event!Spend("faults"))
        /\ UNCHANGED <<row, runs, writes, holes, astray, calls, latest, loads, ui, removed>>
    BY <1>5 DEF Event!LoadFails, Event!server
  <2>2. EventEntrySound(e, Kept(k)) /\ e.val = cache[k].val /\ e.fetch = "idle"
    BY <1>1, EventEntryCancelled
  <2>3. Known(k, e, budget.used)
    BY <1>1, <2>2, KnownKept
  <2> HIDE DEF e
  <2> QED
    BY <1>0, <2>1, <2>2, <2>3, EntryInv
<1> QED
  BY <1>2, <1>3, <1>4, <1>5 DEF CacheSteps

\* A page is left for another.
LEMMA GoInv ==
    ASSUME EventInv, NEW p \in Event!Pages, NEW x, x \in Events \cup {None}, p = "detail" => x \in Events
           /\ x \in budget.used, Event!Go(p, x)
    PROVE  EventInv'
<1>0. EventTyped /\ CacheTyped /\ EventCallsTyped /\ ui \in UiRecord
  BY DEF EventInv, EventTyped, PageSound, EventUiSound
<1>1. PICK old \in BOOLEAN :
         cache' = [k \in Event!Keys |-> IF k \in Event!Uses(p, x) THEN Event!Opened(cache[k], old) ELSE cache[k]]
  BY Zenon DEF Event!Go
<1>2. /\ ui.form = None /\ Event!Spend("opens") /\ ui' = [Event!NoUi EXCEPT !.page = p, !.open = x]
      /\ calls' = [s \in Slots |-> IF calls[s] = None THEN None ELSE [calls[s] EXCEPT !.alive = FALSE]]
      /\ latest' = [op \in Event!Ops |-> None]
      /\ loads' = [f \in Event!Files |-> IF loads[f] = None THEN None ELSE [loads[f] EXCEPT !.alive = FALSE]]
      /\ UNCHANGED <<row, runs, writes, holes, astray, told, removed>>
  BY DEF Event!Go, Event!Covered, Event!server, Event!history
<1>3. budget' \in BudgetRecord /\ budget'.used = budget.used
  BY <1>0, <1>2, EventSpent DEF EventTyped
<1>4. \A k \in Event!Keys : /\ EventEntrySound(cache'[k], Kept(k)) /\ cache'[k].val = cache[k].val
                               /\ cache'[k].stale = cache[k].stale
                            /\ cache[k].fetch # "idle"
                               \/ (k \in Event!Uses(p, x) /\ cache[k].val = None) => cache'[k].fetch # "idle"
                            /\ cache'[k].fetch = "answered" => cache[k].fetch = "answered"
                               /\ cache'[k].got = cache[k].got
        BY <1>0, <1>1, EntryOf, EventEntryOpened
<1>5. CacheTyped'
  <2>1. \A k \in Event!Keys : cache'[k] \in Event!Entry(Table \cup Event!Event)
    BY <1>0, <1>4, EntryOf
  <2>2. cache' = [k \in Event!Keys |-> cache'[k]]
    BY <1>1
  <2>3. cache' \in [Event!Keys -> Event!Entry(Table \cup Event!Event)]
    BY <2>1, <2>2
  <2> QED
    BY <1>0, <1>2, <1>4, <2>3 DEF CacheTyped
<1>6. EventCallsTyped'
  <2>1. \A c \in Event!CallRecord : LET d == [c EXCEPT !.alive = FALSE] IN
          d \in Event!CallRecord
          /\ (EventCallSound(c, removed, budget.used) => EventCallSound(d, removed, budget.used))
    <3> SUFFICES ASSUME NEW c \in Event!CallRecord
                 PROVE  LET d == [c EXCEPT !.alive = FALSE] IN
                        d \in Event!CallRecord
                        /\ (EventCallSound(c, removed, budget.used) => EventCallSound(d, removed, budget.used))
      OBVIOUS
    <3> DEFINE d == [c EXCEPT !.alive = FALSE]
    <3>1. /\ d \in Event!CallRecord /\ d.op = c.op /\ d.event = c.event /\ d.att = c.att /\ d.guest = c.guest
             /\ d.held = c.held
          /\ d.free = c.free /\ d.seen = c.seen /\ d.copy = c.copy /\ d.st = c.st
      BY DEF Event!CallRecord
    <3> HIDE DEF d
    <3>2. EventCallSound(c, removed, budget.used) => EventCallSound(d, removed, budget.used)
      BY <3>1 DEF EventCallSound
    <3> QED
      BY <3>1, <3>2 DEF d
  <2>2. \A s \in Slots : calls[s] # None => calls[s] \in Event!CallRecord
                         /\ EventCallSound(calls[s], removed, budget.used)
    BY <1>0 DEF EventCallsTyped
  <2>3. \A s \in Slots : calls'[s] = IF calls[s] = None THEN None ELSE [calls[s] EXCEPT !.alive = FALSE]
    BY <1>2
  <2>4. calls' \in [Slots -> Event!CallRecord \cup {None}]
    BY <1>2, <2>1, <2>2
  <2>5. \A s \in Slots : calls'[s] # None => EventCallSound(calls'[s], removed, budget.used)
    BY <2>1, <2>2, <2>3
  <2> QED
    BY <1>2, <1>3, <2>4, <2>5 DEF EventCallsTyped
<1>7. PageSound'
  <2>1. ui' \in UiRecord /\ ui'.page = p /\ ui'.open = x /\ ui'.form = None /\ ui'.remove = None
    BY <1>2 DEF UiRecord, Event!NoUi
  <2>2. \A l \in LoadRecord : LET m == [l EXCEPT !.alive = FALSE] IN
          m \in LoadRecord /\ (LoadSound(l, None, removed) => LoadSound(m, None, removed))
    BY DEF LoadRecord, LoadSound
  <2>3. \A f \in Event!Files : loads[f] # None => loads[f] \in LoadRecord /\ LoadSound(loads[f], None, removed)
    BY <1>0, <1>2 DEF EventTyped, PageSound, LoadsSound
  <2>4. loads' \in [Event!Files -> LoadRecord \cup {None}]
    BY <1>2, <2>2, <2>3
  <2>5. \A f \in Event!Files : loads'[f] = IF loads[f] = None THEN None ELSE [loads[f] EXCEPT !.alive = FALSE]
    BY <1>2
  <2>6. \A f \in Event!Files : loads'[f] # None => LoadSound(loads'[f], None, removed)
    BY <2>2, <2>3, <2>5
  <2> QED
    BY <1>0, <1>2, <1>3, <2>1, <2>4, <2>6 DEF EventTyped, PageSound, EventUiSound, LoadsSound
<1>8. EventServerTyped' /\ Marked' /\ Event!OneAnalysis' /\ Event!LockHolds'
  BY <1>0, <1>2 DEF EventInv, EventTyped, EventServerTyped, Marked, Event!OneAnalysis, Event!LockHolds, Event!Active
<1>9. UsedOnly'
  <2>1. \A k \in Event!Keys : Known(k, cache'[k], budget.used)
    BY <1>4, KnownKept DEF EventInv, UsedOnly
  <2> QED
    BY <1>2, <1>3, <2>1 DEF EventInv, UsedOnly
<1>10. ASSUME NEW k \in Event!Keys PROVE Right(k)'
  <2>1. ui'.page = p /\ ui'.open = x
    BY <1>2 DEF Event!NoUi
  <2>2. Event!Watched(k)' <=> k \in Event!Uses(p, x)
    BY <2>1 DEF Event!Watched
  <2>3. Event!Truth(k)' = Event!Truth(k)
    BY <1>2 DEF Event!Truth
  <2>4. EventWritten(k) => EventWritten(k)'
    <3>1. ASSUME NEW s \in Slots, calls[s] # None, calls[s].st = "ok", k \in Event!Invalidates(calls[s])
          PROVE EventWritten(k)'
      <4>1. calls'[s] = [calls[s] EXCEPT !.alive = FALSE] /\ calls[s] \in Event!CallRecord
        BY <1>0, <1>2, <3>1 DEF EventCallsTyped
      <4>2. calls'[s] \in Event!CallRecord /\ calls'[s].op = calls[s].op /\ calls'[s].st = "ok"
            /\ calls'[s].event = calls[s].event
        BY <3>1, <4>1 DEF Event!CallRecord
      <4> QED
        BY <3>1, <4>2, EventNone DEF EventWritten, Event!Invalidates
    <3> QED
      BY <3>1 DEF EventWritten
  <2> QED
    BY <1>2, <1>4, <2>2, <2>3, <2>4 DEF EventInv, Right
<1> QED
  BY <1>3, <1>5, <1>6, <1>7, <1>8, <1>9, <1>10 DEF EventInv, EventTyped

LEMMA GoesInv == ASSUME EventInv, Goes PROVE EventInv'
<1>1. ASSUME NEW p \in Event!Pages, Event!OpenPage(p) PROVE EventInv'
  BY <1>1, GoInv DEF Event!OpenPage
<1>2. ASSUME NEW e \in Events, Event!OpenEvent(e) PROVE EventInv'
  <2>1. Event!InList(e) /\ Event!Go("detail", e)
    BY <1>2 DEF Event!OpenEvent
  <2>2. e \in budget.used
    BY <2>1 DEF Event!InList, Event!Shown, EventInv, UsedOnly, Known, Event!Keys
  <2> QED
    BY <2>1, <2>2, GoInv DEF Event!Pages
<1> QED
  BY <1>1, <1>2 DEF Goes

\* An answer is handled.
LEMMA DeliverInv == ASSUME EventInv, NEW s \in Slots, Event!Deliver(s) PROVE EventInv'
<1> DEFINE c == calls[s]
           shut == ui.form # None /\ ui'.form = None
           ls == IF shut THEN [latest EXCEPT !["create"] = None, !["save"] = None] ELSE latest
<1>0. /\ EventTyped /\ CacheTyped /\ EventCallsTyped /\ ui \in UiRecord /\ EventUiSound(ui, removed, budget.used)
      /\ LoadsSound(loads, ui.form, removed) /\ (ui.remove # None => Event!Here # None)
  BY DEF EventInv, EventTyped, PageSound, EventUiSound
<1>1. /\ c # None /\ c.st \in {"ok", "failed"} /\ ui' = Event!Closed(c)
      /\ cache' = IF c.st = "ok" THEN Event!Invalidate(Event!Invalidates(c)) ELSE cache
      /\ calls' = [calls EXCEPT ![s] = None]
      /\ latest' = Event!Freed(s, ls)
      /\ loads' = [f \in Event!Files |-> IF shut /\ loads[f] # None /\ loads[f].into = "form" THEN None ELSE loads[f]]
      /\ UNCHANGED <<row, runs, writes, holes, astray, budget, told, removed>>
  BY DEF Event!Deliver, Event!server
<1>2. /\ calls' \in [Slots -> Event!CallRecord \cup {None}] /\ calls'[s] = None
      /\ \A r \in Slots : r # s => calls'[r] = calls[r]
  BY <1>0, <1>1 DEF EventCallsTyped
<1>3. EventCallsTyped'
  <2>1. ls \in [Event!Ops -> Slots \cup {None}] /\ \A op \in Event!Ops : ls[op] \in {latest[op], None}
    BY <1>0 DEF EventCallsTyped
  <2>2. /\ latest' \in [Event!Ops -> Slots \cup {None}]
        /\ \A op \in Event!Ops : latest'[op] # None => latest'[op] = latest[op] /\ latest[op] # s
    BY <1>1, <2>1 DEF Event!Freed
  <2>3. ASSUME NEW op \in Event!Ops, latest'[op] # None
        PROVE calls'[latest'[op]] # None /\ calls'[latest'[op]].op = op
    BY <1>0, <1>2, <2>2, <2>3 DEF EventCallsTyped
  <2>4. \A r \in Slots : calls'[r] # None => EventCallSound(calls'[r], removed', budget'.used)
    BY <1>0, <1>1, <1>2 DEF EventCallsTyped
  <2> QED
    BY <1>2, <2>2, <2>3, <2>4 DEF EventCallsTyped
<1>4. /\ EventUiSound(ui', removed, budget.used) /\ ui'.page = ui.page /\ ui'.open = ui.open /\ ui'.remove = ui.remove
      /\ ui'.form \in {ui.form, None}
  <2>1. ui' \in {ui, [ui EXCEPT !.form = None], [ui EXCEPT !.draft = None], [ui EXCEPT !.erase = None]}
    BY <1>1 DEF Event!Closed
  <2> QED
    BY <1>0, <2>1 DEF EventUiSound, UiRecord
<1>5. LoadsSound(loads', ui'.form, removed)
  BY <1>0, <1>1, <1>4 DEF LoadsSound, LoadSound
<1>6. \A k \in Event!Keys :
        /\ EventEntrySound(cache'[k], Kept(k)) /\ cache'[k].val = cache[k].val
        /\ cache'[k].stale \/ cache'[k] = cache[k]
        /\ c.st = "ok" /\ k \in Event!Invalidates(c) => cache'[k].stale
        /\ cache'[k].fetch = "answered" => cache[k].fetch = "answered" /\ cache'[k].got = cache[k].got
  <2> SUFFICES ASSUME NEW k \in Event!Keys
               PROVE  /\ EventEntrySound(cache'[k], Kept(k)) /\ cache'[k].val = cache[k].val
                      /\ cache'[k].stale \/ cache'[k] = cache[k]
                      /\ c.st = "ok" /\ k \in Event!Invalidates(c) => cache'[k].stale
                      /\ cache'[k].fetch = "answered" => cache[k].fetch = "answered" /\ cache'[k].got = cache[k].got
    OBVIOUS
  <2>1. EventEntrySound(cache[k], Kept(k))
    BY <1>0, EntryOf
  <2>2. CASE c.st = "ok" /\ k \in Event!Invalidates(c)
    <3>1. cache'[k] = Event!Invalidated(cache[k], Event!Watched(k))
      BY <1>1, <2>2 DEF Event!Invalidate
    <3> QED
      BY <2>1, <3>1, EventEntryMarked
  <2>3. CASE ~(c.st = "ok" /\ k \in Event!Invalidates(c))
    <3>1. cache'[k] = cache[k]
      BY <1>1, <2>3 DEF Event!Invalidate
    <3> QED
      BY <2>1, <2>3, <3>1
  <2> QED
    BY <2>2, <2>3
<1>7. CacheTyped'
  <2>1. \A k \in Event!Keys : cache'[k] \in Event!Entry(Table \cup Event!Event)
    BY <1>0, <1>6, EntryOf
  <2>2. cache' = [k \in Event!Keys |-> cache'[k]]
    BY <1>0, <1>1 DEF Event!Invalidate, CacheTyped
  <2>3. cache' \in [Event!Keys -> Event!Entry(Table \cup Event!Event)]
    BY <2>1, <2>2
  <2> QED
    BY <1>0, <1>1, <1>6, <2>3 DEF CacheTyped
<1>8. PageSound'
  <2>1. Event!Here' = Event!Here
    <3>1. ui.page = "detail" => ui.open \in Event!Keys
      BY <1>0 DEF EventUiSound, EventTyped, BudgetRecord, Event!Keys
    <3> QED
      BY <1>4, <1>6, <3>1 DEF Event!Here, Event!Shown
  <2> QED
    BY <1>0, <1>1, <1>4, <1>5, <2>1 DEF EventTyped, PageSound
<1>9. EventServerTyped' /\ Marked' /\ Event!OneAnalysis' /\ Event!LockHolds'
  BY <1>0, <1>1 DEF EventInv, EventTyped, EventServerTyped, Marked, Event!OneAnalysis, Event!LockHolds, Event!Active
<1>10. UsedOnly'
  <2>1. \A k \in Event!Keys : Known(k, cache'[k], budget.used)
    BY <1>6, KnownKept DEF EventInv, UsedOnly
  <2> QED
    BY <1>1, <2>1 DEF EventInv, UsedOnly
<1>11. ASSUME NEW k \in Event!Keys PROVE Right(k)'
  <2>1. Event!Truth(k)' = Event!Truth(k) /\ (Event!Watched(k) <=> Event!Watched(k)')
    BY <1>1, <1>4 DEF Event!Truth, Event!Watched
  <2>2. CASE cache'[k].stale
    BY <2>2 DEF Right
  <2>3. CASE ~cache'[k].stale
    <3>1. cache'[k] = cache[k] /\ ~(c.st = "ok" /\ k \in Event!Invalidates(c))
      BY <1>6, <2>3
    <3>2. EventWritten(k) => EventWritten(k)'
      BY <1>2, <3>1 DEF EventWritten
    <3> QED
      BY <1>1, <2>1, <3>1, <3>2 DEF EventInv, Right
  <2> QED
    BY <2>2, <2>3
<1> QED
  BY <1>0, <1>1, <1>3, <1>7, <1>8, <1>9, <1>10, <1>11 DEF EventInv, EventTyped

-----------------------------------------------------------------------------
(* The server *)

LEMMA RowIs ==
    ASSUME EventInv, NEW e \in Events
    PROVE  /\ row \in Table /\ row[e] \in Event!Event \cup {None}
              /\ (row[e] # None => row[e] \in Event!Event /\ e \in budget.used)
           /\ e \in Event!Keys /\ Event!Truth(e) = row[e] /\ Event!Truth("list") = row
BY EventNone DEF EventInv, EventTyped, EventServerTyped, Table, UsedOnly, Event!Keys, Event!Truth

\* Nothing becomes known of an event that is not there.
LEMMA UsedStays ==
    ASSUME EventInv, UNCHANGED cache, budget.used \subseteq budget'.used,
           \A e \in Events \ budget'.used : row'[e] = row[e],
           \A w \in writes' : w \in writes \/ w.event \in budget'.used
    PROVE  UsedOnly'
<1>1. \A k \in Event!Keys : Known(k, cache[k], budget'.used)
  BY KnownKept DEF EventInv, UsedOnly
<1> QED
  BY <1>1 DEF EventInv, UsedOnly

LEMMA InsertInv == ASSUME EventInv, NEW s \in Slots, Event!Insert(s) PROVE EventInv'
<1>0. EventTyped /\ EventServerTyped /\ EventCallsTyped
  BY DEF EventInv, EventTyped
<1>1. PICK c \in Event!CallRecord : c = calls[s] /\ EventCallSound(c, removed, budget.used) /\ c # None
  BY <1>0 DEF Event!Insert, EventCallsTyped
<1>2. c.st = "sent" /\ c.op = "create" /\ UNCHANGED <<runs, writes, holes, cache, latest, loads, ui, told, removed>>
  BY <1>1 DEF Event!Insert, Event!history
<1>3. PICK e \in Events \ budget.used :
         /\ Event!Save(e, [att |-> c.att, guest |-> c.guest, held |-> c.held, an |-> "idle", by |-> 0])
         /\ budget' = [budget EXCEPT !.used = @ \cup {e}]
         /\ calls' = [calls EXCEPT ![s].st = "ok", ![s].event = e]
  BY <1>1 DEF Event!Insert
<1> DEFINE d == [c EXCEPT !.st = "ok", !.event = e]
           r == [att |-> c.att, guest |-> c.guest, held |-> c.held, an |-> "idle", by |-> 0]
<1>4. calls' = [calls EXCEPT ![s] = d]
  BY <1>0, <1>1, <1>3 DEF EventCallsTyped
<1>5. r \in Event!Event /\ ~Event!Locking(r)
  BY <1>1, <1>2, EventNone DEF EventCallSound, Event!Event, Event!Analysis, Event!Locking
<1>6. budget' \in BudgetRecord /\ budget'.used = budget.used \cup {e}
  BY <1>0, <1>3 DEF EventTyped, BudgetRecord
<1>7. d \in Event!CallRecord /\ d.op = "create" /\ d.st = "ok" /\ d.event = e /\ d.att = c.att /\ d.guest = c.guest
      /\ d.held = c.held
  BY <1>2, <1>3 DEF Event!CallRecord
<1> HIDE DEF d, r
<1>8. EventCallSound(d, removed', budget'.used)
  BY <1>1, <1>2, <1>3, <1>7 DEF EventCallSound
<1>9. EventCallsTyped' /\ calls'[s] = d /\ d # None /\ \A q \in Slots : q # s => calls'[q] = calls[q]
  BY <1>0, <1>1, <1>2, <1>4, <1>6, <1>7, <1>8, CallTurned
<1>10. Event!Save(e, r) /\ row' = [row EXCEPT ![e] = r] /\ astray' \subseteq astray \cup {e}
  BY <1>3 DEF r, Event!Save
<1>11. row' \in Table /\ row'[e] = r /\ (\A x \in Events : x # e => row'[x] = row[x]) /\ EventServerTyped'
  BY <1>0, <1>2, <1>3, <1>5, <1>10 DEF EventServerTyped, Table
<1>12. CacheTyped' /\ PageSound'
  BY <1>0, <1>2, <1>6, PagesStay DEF EventTyped, CacheTyped
<1>13. UsedOnly'
  BY <1>2, <1>6, <1>11, UsedStays
<1>14. LockInv'
  BY <1>0, <1>2, <1>3, <1>5, <1>10, LocksSaved DEF EventInv, LockInv
<1>15. \A k : EventWritten(k) => EventWritten(k)'
  BY <1>1, <1>2, <1>9, WrittenStays
<1>16. Right("list")'
  BY <1>7, <1>9 DEF Right, EventWritten, Event!Invalidates
<1>17. Right(e)'
  <2>1. cache[e].val = None /\ e # "list" /\ e \in Event!Keys
    BY <1>3, EventNone DEF EventInv, UsedOnly, Known, Event!Keys
  <2>2. ~Event!Watched(e)'
    BY <1>0, <1>2, <1>3, <2>1 DEF Event!Watched, Event!Uses, EventTyped, PageSound, EventUiSound, UiRecord,
       Event!Pages
  <2> QED
    BY <1>2, <1>3, <2>1, <2>2 DEF Right
<1>18. \A k \in Event!Keys : Right(k)'
  BY <1>2, <1>3, <1>11, <1>15, <1>16, <1>17, RightSaved
<1> QED
  BY <1>6, <1>9, <1>11, <1>12, <1>13, <1>14, <1>18 DEF EventInv, EventTyped, LockInv

LEMMA UpdatedIs ==
    ASSUME NEW c \in Event!CallRecord, c.copy \in Event!Event
    PROVE  /\ Event!Updated(c) \in Event!Event /\ Event!Updated(c).an = c.copy.an
           /\ Event!Updated(c).att = IF c.att = None THEN c.copy.att ELSE c.att
<1>1. /\ Event!Sent(c.att, c.copy.att) \in SUBSET Event!Files /\ Event!Sent(c.guest, c.copy.guest) \in BOOLEAN
      /\ Event!Sent(c.held, c.copy.held) \in BOOLEAN
  BY DEF Event!Sent, Event!CallRecord, Event!Event
<1>3. Event!Updated(c) = [c.copy EXCEPT !.att = Event!Sent(c.att, c.copy.att), !.guest = Event!Sent(c.guest, c.copy.guest),
                                        !.held = Event!Sent(c.held, c.copy.held)]
        BY DEF Event!Updated
<1>4. Event!Sent(c.att, c.copy.att) = IF c.att = None THEN c.copy.att ELSE c.att
  BY DEF Event!Sent
<1>5. PICK a \in SUBSET Event!Files, g \in BOOLEAN, h \in BOOLEAN :
         /\ a = Event!Sent(c.att, c.copy.att) /\ g = Event!Sent(c.guest, c.copy.guest)
            /\ h = Event!Sent(c.held, c.copy.held)
  BY <1>1
<1> DEFINE r == [c.copy EXCEPT !.att = a, !.guest = g, !.held = h]
<1>6. Event!Updated(c) = r
  BY <1>3, <1>5
<1>7. r \in Event!Event /\ r.an = c.copy.an /\ r.att = a
  BY DEF Event!Event
<1> HIDE DEF r
<1> QED
  BY <1>4, <1>5, <1>6, <1>7

\* A handler has read the row, or refuses.
LEMMA ReadInv == ASSUME EventInv, NEW s \in Slots, Event!Read(s) PROVE EventInv'
<1>0. EventTyped /\ EventServerTyped /\ EventCallsTyped
  BY DEF EventInv, EventTyped
<1>1. PICK c \in Event!CallRecord : c = calls[s] /\ EventCallSound(c, removed, budget.used) /\ c # None
  BY <1>0 DEF Event!Read, EventCallsTyped
<1> DEFINE r == row[c.event]
           d == IF Event!Refuses(c, r) THEN [c EXCEPT !.st = "failed"]
                ELSE [c EXCEPT !.st = "read", !.copy = r, !.seen = IF c.att = None THEN r.att ELSE @]
<1>2. /\ c.st = "sent" /\ c.op \notin {"create", "delete"} /\ calls' = [calls EXCEPT ![s] = d]
      /\ UNCHANGED <<row, runs, writes, holes, astray, cache, latest, loads, ui, budget, told, removed>>
  BY <1>1 DEF Event!Read, Event!server, Event!history
<1>3. c.event \in Events /\ r \in Event!Event \cup {None}
      /\ (r # None => r \in Event!Event /\ c.event \in budget.used)
  BY <1>1, <1>2, RowIs DEF EventCallSound
<1>4. EventCallSound(d, removed, budget.used) /\ d.op = c.op
  <2>1. CASE Event!Refuses(c, r)
    <3>1. d = [c EXCEPT !.st = "failed"]
      BY <2>1
    <3>2. /\ d \in Event!CallRecord /\ d.op = c.op /\ d.event = c.event /\ d.att = c.att /\ d.free = c.free
             /\ d.seen = c.seen
          /\ d.st = "failed"
      BY <3>1 DEF Event!CallRecord
    <3> HIDE DEF d
    <3> QED
      BY <1>1, <1>2, <3>2 DEF EventCallSound
  <2>2. CASE ~Event!Refuses(c, r)
    <3>1. r \in Event!Event /\ r.att \in SUBSET Event!Files /\ c.event \in budget.used
          /\ (c.op = "analyze" => ~Event!Locking(r))
      BY <1>3, <2>2 DEF Event!Refuses, Event!Event
    <3> DEFINE seen == IF c.att = None THEN r.att ELSE c.seen
    <3>2. d = [c EXCEPT !.st = "read", !.copy = r, !.seen = seen]
      BY <2>2
    <3>3. seen \in SUBSET Event!Files /\ (c.att = None => seen = r.att) /\ (c.att # None => seen = c.seen)
      BY <3>1 DEF Event!CallRecord
    <3> HIDE DEF seen, d
    <3>4. /\ d \in Event!CallRecord /\ d.op = c.op /\ d.event = c.event /\ d.att = c.att /\ d.free = c.free
             /\ d.seen = seen
          /\ d.st = "read" /\ d.copy = r
      BY <3>1, <3>2, <3>3 DEF Event!CallRecord
    <3>5. d.op \in {"save", "files"} => Dropped(d.event, d.seen, d.att, removed)
      BY <1>1, <3>3, <3>4, EventNone DEF EventCallSound
    <3> QED
      <4>1. /\ d.op # "create" \/ d.st = "ok" => d.event \in Events
            /\ d.op # "create" /\ d.op # "delete"
            /\ d.op \in {"people", "analyze"} => d.att = None
            /\ d.op \in {"save", "files"} => d.att \in SUBSET Event!Files
        BY <1>1, <1>2, <3>4 DEF EventCallSound
      <4>2. d.op \in {"save", "files", "people"} => d.free
        BY <1>1, <3>4 DEF EventCallSound
      <4>3. d.event \in budget.used /\ d.copy \in Event!Event /\ (d.op = "analyze" => ~Event!Locking(d.copy))
            /\ (d.att = None => d.seen = d.copy.att)
        BY <3>1, <3>3, <3>4
      <4> QED
        BY <3>4, <3>5, <4>1, <4>2, <4>3 DEF EventCallSound
  <2> QED
    BY <2>1, <2>2
<1> HIDE DEF d
<1>5. EventCallsTyped' /\ \A q \in Slots : q # s => calls'[q] = calls[q]
  BY <1>0, <1>1, <1>2, <1>4, CallTurned
<1>6. CacheTyped' /\ PageSound'
  BY <1>0, <1>2, PagesStay DEF EventTyped, CacheTyped
<1>7. \A k : EventWritten(k) => EventWritten(k)'
  BY <1>1, <1>2, <1>5, WrittenStays
<1>8. \A k \in Event!Keys : Right(k)'
  BY <1>2, <1>3, <1>7, RightSaved, <1>0 DEF EventServerTyped
<1>9. EventServerTyped' /\ UsedOnly' /\ Marked' /\ Event!OneAnalysis' /\ Event!LockHolds'
  BY <1>0, <1>2 DEF EventInv, EventServerTyped, UsedOnly, Marked, Event!OneAnalysis, Event!LockHolds, Event!Active
<1> QED
  BY <1>0, <1>2, <1>5, <1>6, <1>8, <1>9 DEF EventInv, EventTyped

\* The server's side of a step that leaves the table as it is.
LEMMA RightStays ==
    ASSUME EventInv, UNCHANGED <<row, cache, ui>>, told \subseteq told', \A k : EventWritten(k) => EventWritten(k)'
    PROVE  \A k \in Event!Keys : Right(k)'
<1>1. ASSUME NEW k \in Event!Keys PROVE Right(k)'
  <2>1. Event!Truth(k)' = Event!Truth(k) /\ (Event!Watched(k) <=> Event!Watched(k)')
    BY DEF Event!Truth, Event!Watched
  <2> QED
    BY <2>1 DEF EventInv, Right
<1> QED
  BY <1>1

\* A handler saves what it has read.
LEMMA WriteInv == ASSUME EventInv, NEW s \in Slots, Event!Write(s) PROVE EventInv'
<1>0. EventTyped /\ EventServerTyped /\ EventCallsTyped
  BY DEF EventInv, EventTyped
<1>1. PICK c \in Event!CallRecord : c = calls[s] /\ EventCallSound(c, removed, budget.used) /\ c # None
  BY <1>0 DEF Event!Write, EventCallsTyped
<1> DEFINE d == [c EXCEPT !.st = "ok"]
           r == Event!Updated(c)
<1>2. /\ c.st = "read" /\ c.op # "analyze" /\ Event!Save(c.event, r)
      /\ holes' = (IF c.free THEN holes \cup Event!Disturbed(c.event) ELSE holes)
      /\ calls' = [calls EXCEPT ![s].st = "ok"]
      /\ UNCHANGED <<runs, writes, cache, latest, loads, ui, budget, told, removed>>
  BY <1>1 DEF Event!Write, Event!history
<1>3. /\ c.op \in {"save", "files", "people"} /\ c.free /\ c.event \in Events /\ c.event \in budget.used
      /\ c.copy \in Event!Event
  BY <1>1, <1>2 DEF EventCallSound, Event!CallRecord, Event!Ops
<1>4. PICK e \in Events : e = c.event
  BY <1>3
<1>5. r \in Event!Event
  BY <1>3, UpdatedIs
<1>6. calls' = [calls EXCEPT ![s] = d]
  BY <1>0, <1>1, <1>2 DEF EventCallsTyped
<1>7. /\ d \in Event!CallRecord /\ d.op = c.op /\ d.st = "ok" /\ d.event = e /\ d.att = c.att /\ d.free = c.free
      /\ d.seen = c.seen
  BY <1>4 DEF Event!CallRecord
<1> HIDE DEF d, r
<1>8. EventCallSound(d, removed', budget'.used)
  BY <1>1, <1>2, <1>3, <1>4, <1>7 DEF EventCallSound
<1>9. EventCallsTyped' /\ calls'[s] = d /\ d # None /\ \A q \in Slots : q # s => calls'[q] = calls[q]
  BY <1>0, <1>1, <1>2, <1>6, <1>7, <1>8, CallTurned
<1>10. /\ row' \in Table /\ (\A x \in Events : x # e => row'[x] = row[x]) /\ EventServerTyped'
  BY <1>0, <1>2, <1>3, <1>4, <1>5 DEF EventServerTyped, Table, Event!Save, Event!Disturbed
<1>11. CacheTyped' /\ PageSound'
  BY <1>0, <1>2, PagesStay DEF EventTyped, CacheTyped
<1>12. UsedOnly'
  BY <1>2, <1>3, <1>4, <1>10, UsedStays
<1>13. LockInv'
  BY <1>0, <1>2, <1>3, <1>4, LocksSaved DEF EventInv, LockInv, Event!Disturbed
<1>14. \A k : EventWritten(k) => EventWritten(k)'
  BY <1>1, <1>2, <1>9, WrittenStays
<1>15. Right("list")' /\ Right(e)'
  BY <1>3, <1>7, <1>9 DEF Right, EventWritten, Event!Invalidates
<1>16. \A k \in Event!Keys : Right(k)'
  BY <1>2, <1>10, <1>14, <1>15, RightSaved
<1> QED
  BY <1>0, <1>2, <1>9, <1>10, <1>11, <1>12, <1>13, <1>16 DEF EventInv, EventTyped, LockInv

LEMMA DeleteInv == ASSUME EventInv, NEW s \in Slots, Event!Delete(s) PROVE EventInv'
<1>0. EventTyped /\ EventServerTyped /\ EventCallsTyped
  BY DEF EventInv, EventTyped
<1>1. PICK c \in Event!CallRecord : c = calls[s] /\ EventCallSound(c, removed, budget.used) /\ c # None
  BY <1>0 DEF Event!Delete, EventCallsTyped
<1> DEFINE st == IF row[c.event] = None THEN "failed" ELSE "ok"
           d == [c EXCEPT !.st = st]
<1>2. /\ c.st = "sent" /\ c.op = "delete" /\ Event!Save(c.event, None) /\ calls' = [calls EXCEPT ![s].st = st]
      /\ UNCHANGED <<runs, writes, holes, cache, latest, loads, ui, budget, told, removed>>
  BY <1>1 DEF Event!Delete, Event!history
<1>3. PICK e \in Events : e = c.event
  BY <1>1, <1>2 DEF EventCallSound
<1>4. calls' = [calls EXCEPT ![s] = d]
  BY <1>0, <1>1, <1>2 DEF EventCallsTyped
<1>5. d \in Event!CallRecord /\ d.op = "delete" /\ d.st = st /\ d.event = e /\ d.att = c.att /\ d.free = c.free
      /\ d.seen = c.seen
  BY <1>2, <1>3 DEF Event!CallRecord
<1>6. st \in {"failed", "ok"} /\ (st = "failed" => row[e] = None)
  BY <1>3
<1> HIDE DEF d, st
<1>7. EventCallSound(d, removed', budget'.used)
  BY <1>1, <1>2, <1>3, <1>5, <1>6 DEF EventCallSound
<1>8. EventCallsTyped' /\ calls'[s] = d /\ d # None /\ \A q \in Slots : q # s => calls'[q] = calls[q]
  <2>1. calls[s] # None /\ d.op = calls[s].op /\ UNCHANGED <<latest, removed, budget>>
    BY <1>1, <1>2, <1>5
  <2> QED
    BY <1>0, <1>4, <1>7, <2>1, CallTurned
<1>9. /\ row' \in Table /\ row'[e] = None /\ (\A x \in Events : x # e => row'[x] = row[x]) /\ EventServerTyped'
      /\ (row[e] = None => row' = row)
  BY <1>0, <1>2, <1>3 DEF EventServerTyped, Table, Event!Save
<1>10. CacheTyped' /\ PageSound'
  BY <1>0, <1>2, PagesStay DEF EventTyped, CacheTyped
<1>11. UsedOnly'
  <2>1. \A x \in Events \ budget.used : row'[x] = row[x]
    BY <1>9 DEF EventInv, UsedOnly
  <2> QED
    BY <1>2, <2>1, UsedStays
<1>12. LockInv'
  BY <1>0, <1>2, <1>3, LocksSaved DEF EventInv, LockInv, Event!Locking
<1>13. \A k : EventWritten(k) => EventWritten(k)'
  BY <1>1, <1>2, <1>8, WrittenStays
<1>14. row' = row \/ (Right("list")' /\ Right(e)')
  <2>1. CASE row[e] = None
    BY <1>9, <2>1
  <2>2. CASE row[e] # None
    <3>1. d.st = "ok"
      BY <1>5, <1>6, <2>2
    <3>2. Right("list")'
      BY <1>5, <1>8, <3>1 DEF Right, EventWritten, Event!Invalidates
    <3>3. Event!Truth(e)' = None
      BY <1>9, EventNone DEF Event!Truth
    <3>4. Right(e)'
      BY <3>3 DEF Right
    <3> QED
      BY <3>2, <3>4
  <2> QED
    BY <2>1, <2>2
<1>15. \A k \in Event!Keys : Right(k)'
  BY <1>2, <1>9, <1>13, <1>14, RightSaved
<1> QED
  BY <1>0, <1>2, <1>8, <1>9, <1>10, <1>11, <1>12, <1>15 DEF EventInv, EventTyped, LockInv

LEMMA LoseCallInv == ASSUME EventInv, NEW s \in Slots, Event!LoseCall(s) PROVE EventInv'
<1>0. EventTyped /\ EventServerTyped /\ EventCallsTyped
  BY DEF EventInv, EventTyped
<1>1. PICK c \in Event!CallRecord : c = calls[s] /\ EventCallSound(c, removed, budget.used) /\ c # None
  BY <1>0 DEF Event!LoseCall, EventCallsTyped
<1> DEFINE d == [c EXCEPT !.st = "failed"]
<1>2. /\ c.st \in {"sent", "ok"} /\ Event!Spend("faults") /\ calls' = [calls EXCEPT ![s].st = "failed"]
      /\ told' = (IF c.st = "ok" THEN told \cup {"list"} \cup ({c.event} \ {None}) ELSE told)
      /\ UNCHANGED <<row, runs, writes, holes, astray, cache, latest, loads, ui, removed>>
  BY <1>1 DEF Event!LoseCall, Event!server
<1>3. budget' \in BudgetRecord /\ budget'.used = budget.used
  BY <1>0, <1>2, EventSpent DEF EventTyped
<1>4. calls' = [calls EXCEPT ![s] = d]
  BY <1>0, <1>1, <1>2 DEF EventCallsTyped
<1>5. /\ d \in Event!CallRecord /\ d.op = c.op /\ d.st = "failed" /\ d.event = c.event /\ d.att = c.att
         /\ d.free = c.free
      /\ d.seen = c.seen /\ d.guest = c.guest /\ d.held = c.held
  BY DEF Event!CallRecord
<1> HIDE DEF d
<1>6. EventCallSound(d, removed', budget'.used)
  BY <1>1, <1>2, <1>3, <1>5 DEF EventCallSound
<1>7. EventCallsTyped' /\ calls'[s] = d /\ d # None /\ \A q \in Slots : q # s => calls'[q] = calls[q]
  BY <1>0, <1>1, <1>2, <1>3, <1>4, <1>5, <1>6, CallTurned
<1>8. c.st = "ok" => c.event \in Events
  BY <1>1 DEF EventCallSound
<1>9. CacheTyped' /\ PageSound'
  <2>1. told' \subseteq Event!Keys
    BY <1>0, <1>2, <1>8 DEF EventTyped, CacheTyped, Event!Keys
  <2> QED
    BY <1>0, <1>2, <1>3, <2>1, PagesStay
<1>10. UsedOnly'
  BY <1>2, <1>3, UsedStays
<1>11. EventServerTyped' /\ Marked' /\ Event!OneAnalysis' /\ Event!LockHolds'
  BY <1>0, <1>2 DEF EventInv, EventServerTyped, Marked, Event!OneAnalysis, Event!LockHolds, Event!Active
<1>12. ASSUME NEW k \in Event!Keys PROVE Right(k)'
  <2>1. Event!Truth(k)' = Event!Truth(k) /\ (Event!Watched(k) <=> Event!Watched(k)')
    BY <1>2 DEF Event!Truth, Event!Watched
  <2>2. EventWritten(k) => EventWritten(k)' \/ k \in told'
    <3>1. ASSUME NEW q \in Slots, calls[q] # None, calls[q].st = "ok", k \in Event!Invalidates(calls[q])
          PROVE  EventWritten(k)' \/ k \in told'
      <4>1. CASE q = s
        BY <1>1, <1>2, <1>8, <3>1, <4>1, EventNone DEF Event!Invalidates
      <4>2. CASE q # s
        BY <1>7, <3>1, <4>2 DEF EventWritten
      <4> QED
        BY <4>1, <4>2
    <3> QED
      BY <3>1 DEF EventWritten
  <2>3. told \subseteq told'
    BY <1>2
  <2> QED
    BY <1>2, <2>1, <2>2, <2>3 DEF EventInv, Right
<1> QED
  BY <1>3, <1>7, <1>9, <1>10, <1>11, <1>12 DEF EventInv, EventTyped

\* An analysis starts: the event is locked, and the run reads what the handler has read.
LEMMA LocksStarted ==
    ASSUME EventServerTyped, LockInv, NEW e \in Events, NEW copy \in Event!Event, ~Event!Locking(copy),
           row' = [row EXCEPT ![e] = [copy EXCEPT !.an = "running"]],
           runs' = Append(runs, [event |-> e, st |-> "new", data |-> Event!Data(copy)]),
           astray' = IF row[e] = copy THEN astray ELSE astray \cup {e}, holes' = holes \ {e}
    PROVE  LockInv'
<1> DEFINE r == [copy EXCEPT !.an = "running"]
           run == [event |-> e, st |-> "new", data |-> Event!Data(copy)]
           n == Len(runs) + 1
<1>1. r \in Event!Event /\ r.an = "running" /\ Event!Data(r) = Event!Data(copy)
  BY DEF Event!Event, Event!Analysis, Event!Data
<1>2. Event!Locking(r)
  BY <1>1, EventNone DEF Event!Locking
<1>3. row'[e] = r /\ \A x \in Events : x # e => row'[x] = row[x]
  BY DEF EventServerTyped, Table
<1>4. run.event = e /\ run.data = Event!Data(copy)
  OBVIOUS
<1> HIDE DEF r, run
<1>5. /\ \A i \in DOMAIN runs' : i \in DOMAIN runs \/ i = n
      /\ \A i \in DOMAIN runs : runs'[i] = runs[i]
      /\ runs'[n] = run
  BY DEF EventServerTyped, run
<1>6. \A i \in DOMAIN runs : runs[i].event \in Events
  BY RunIs DEF RunRecord
<1>7. astray \subseteq astray' /\ (e \notin astray' => e \notin astray /\ row[e] = copy)
  OBVIOUS
\* No analysis that the event stands for is under way.
<1>8. ASSUME NEW i \in DOMAIN runs, Event!Active(i), runs[i].event = e, e \notin astray' PROVE FALSE
  <2>1. Event!Locking(row[e])
    BY <1>7, <1>8 DEF LockInv, Marked
  <2> QED
    BY <1>7, <1>8, <2>1
<1>9. \A i \in DOMAIN runs : Event!Active(i)' <=> Event!Active(i)
  BY <1>5 DEF Event!Active
<1>10. Marked'
  <2> SUFFICES ASSUME NEW i \in DOMAIN runs', Event!Active(i)', runs'[i].event \notin astray'
        PROVE Event!Locking(row'[runs'[i].event])
    BY DEF Marked, Event!Locking
  <2>1. CASE runs'[i].event = e
    BY <1>2, <1>3, <2>1
  <2>2. CASE runs'[i].event # e
    <3>1. i \in DOMAIN runs /\ runs'[i] = runs[i] /\ Event!Active(i)
      BY <1>4, <1>5, <1>9, <2>2
    <3>2. Event!Locking(row[runs[i].event]) /\ row'[runs[i].event] = row[runs[i].event]
      BY <1>3, <1>6, <1>7, <2>2, <3>1 DEF LockInv, Marked
    <3> QED
      BY <3>1, <3>2
  <2> QED
    BY <2>1, <2>2
<1>11. Event!OneAnalysis'
  <2> SUFFICES ASSUME NEW i \in DOMAIN runs', NEW j \in DOMAIN runs', Event!Active(i)', Event!Active(j)',
                      runs'[i].event = runs'[j].event, runs'[i].event \notin astray'
               PROVE  i = j
    BY DEF Event!OneAnalysis
  <2>1. CASE i \in DOMAIN runs /\ j \in DOMAIN runs
    BY <1>5, <1>7, <1>9, <2>1 DEF LockInv, Event!OneAnalysis
  <2>2. CASE i \notin DOMAIN runs
    <3>1. i = n /\ runs'[i].event = e
      BY <1>4, <1>5, <2>2
    <3>2. j \in DOMAIN runs => runs[j].event = e /\ Event!Active(j)
      BY <1>5, <1>9, <3>1
    <3> QED
      BY <1>5, <1>8, <3>1, <3>2
  <2>3. CASE j \notin DOMAIN runs
    <3>1. j = n /\ runs'[i].event = e
      BY <1>4, <1>5, <2>3
    <3>2. i \in DOMAIN runs => runs[i].event = e /\ Event!Active(i)
      BY <1>5, <1>9, <3>1
    <3> QED
      BY <1>5, <1>8, <3>1, <3>2
  <2> QED
    BY <2>1, <2>2, <2>3
<1>12. Event!LockHolds'
  <2> SUFFICES ASSUME NEW i \in DOMAIN runs', Event!Active(i)', Event!Locking(row'[runs'[i].event]),
                      runs'[i].event \notin holes' \cup astray'
               PROVE  Event!Data(row'[runs'[i].event]) = runs'[i].data
    BY DEF Event!LockHolds, Event!Locking, Event!Data
  <2>1. CASE i \in DOMAIN runs
    <3>1. runs'[i] = runs[i] /\ Event!Active(i) /\ runs[i].event \in Events
      BY <1>5, <1>6, <1>9, <2>1
    <3>2. runs[i].event # e
      BY <1>8, <2>1, <3>1
    <3>3. row'[runs[i].event] = row[runs[i].event] /\ runs[i].event \notin holes \cup astray
      BY <1>3, <1>7, <3>1, <3>2
    <3> QED
      BY <2>1, <3>1, <3>3 DEF LockInv, Event!LockHolds
  <2>2. CASE i \notin DOMAIN runs
    <3>1. runs'[i] = run
      BY <1>5, <2>2
    <3> QED
      BY <1>1, <1>3, <1>4, <3>1
  <2> QED
    BY <2>1, <2>2
<1> QED
  BY <1>10, <1>11, <1>12 DEF LockInv

LEMMA StartInv == ASSUME EventInv, NEW s \in Slots, Event!Start(s) PROVE EventInv'
<1>0. EventTyped /\ EventServerTyped /\ EventCallsTyped
  BY DEF EventInv, EventTyped
<1>1. PICK c \in Event!CallRecord : c = calls[s] /\ EventCallSound(c, removed, budget.used) /\ c # None
  BY <1>0 DEF Event!Start, EventCallsTyped
<1> DEFINE d == [c EXCEPT !.st = "ok"]
           r == [c.copy EXCEPT !.an = "running"]
           run == [event |-> c.event, st |-> "new", data |-> Event!Data(c.copy)]
<1>2. /\ c.st = "read" /\ c.op = "analyze" /\ Len(runs) < MaxRuns
      /\ row' = [row EXCEPT ![c.event] = r] /\ runs' = Append(runs, run)
      /\ astray' = (IF row[c.event] = c.copy THEN astray ELSE astray \cup {c.event})
      /\ holes' = holes \ {c.event} /\ calls' = [calls EXCEPT ![s].st = "ok"]
      /\ UNCHANGED <<writes, cache, latest, loads, ui, budget, told, removed>>
  BY <1>1 DEF Event!Start, Event!history
<1>3. c.event \in Events /\ c.event \in budget.used /\ c.copy \in Event!Event /\ ~Event!Locking(c.copy)
  BY <1>1, <1>2 DEF EventCallSound
<1>4. PICK e \in Events : e = c.event
  BY <1>3
<1>5. LockInv'
  BY <1>0, <1>2, <1>3, <1>4, LocksStarted DEF EventInv, LockInv
<1>6. r \in Event!Event
  BY <1>3 DEF Event!Event, Event!Analysis
<1>7. run \in RunRecord
  BY <1>3 DEF RunRecord, Event!Data, Event!Event
<1>8. calls' = [calls EXCEPT ![s] = d]
  BY <1>0, <1>1, <1>2 DEF EventCallsTyped
<1>9. /\ d \in Event!CallRecord /\ d.op = c.op /\ d.st = "ok" /\ d.event = e /\ d.att = c.att /\ d.free = c.free
      /\ d.seen = c.seen
  BY <1>4 DEF Event!CallRecord
<1> HIDE DEF d, r, run
<1>10. EventCallSound(d, removed', budget'.used)
  BY <1>1, <1>2, <1>3, <1>4, <1>9 DEF EventCallSound
<1>11. EventCallsTyped' /\ calls'[s] = d /\ d # None /\ \A q \in Slots : q # s => calls'[q] = calls[q]
  <2>1. calls[s] # None /\ d.op = calls[s].op /\ UNCHANGED <<latest, removed, budget>>
    BY <1>1, <1>2, <1>9
  <2> QED
    BY <1>0, <1>8, <1>10, <2>1, CallTurned
<1>12. row' \in Table /\ \A x \in Events : x # e => row'[x] = row[x]
  BY <1>0, <1>2, <1>4, <1>6 DEF EventServerTyped, Table
<1>13. runs' \in Seq(RunRecord) /\ Len(runs') <= MaxRuns
  BY <1>0, <1>2, <1>7, EventNone DEF EventServerTyped
<1>14. EventServerTyped'
  BY <1>0, <1>2, <1>4, <1>12, <1>13 DEF EventServerTyped
<1>15. CacheTyped' /\ PageSound'
  BY <1>0, <1>2, PagesStay DEF EventTyped, CacheTyped
<1>16. UsedOnly'
  BY <1>2, <1>3, <1>4, <1>12, UsedStays
<1>17. \A k : EventWritten(k) => EventWritten(k)'
  BY <1>1, <1>2, <1>11, WrittenStays
<1>18. Right("list")' /\ Right(e)'
  <2>1. calls'[s] # None /\ calls'[s].st = "ok" /\ calls'[s].op = "analyze" /\ calls'[s].event = e
    BY <1>2, <1>9, <1>11
  <2>2. EventWritten("list")' /\ EventWritten(e)'
    BY <2>1 DEF EventWritten, Event!Invalidates
  <2> QED
    BY <2>2 DEF Right
<1>19. \A k \in Event!Keys : Right(k)'
  BY <1>2, <1>12, <1>17, <1>18, RightSaved
<1> QED
  BY <1>0, <1>2, <1>5, <1>11, <1>14, <1>15, <1>16, <1>19 DEF EventInv, EventTyped, LockInv

-----------------------------------------------------------------------------
(* The bridge, the reaper, and what comes from elsewhere *)

\* A run goes on, and its event is read.
LEMMA RunInv ==
    ASSUME EventInv, NEW i \in DOMAIN runs,
           UNCHANGED <<row, holes, astray, cache, calls, latest, loads, ui, told, removed>>,
           UNCHANGED budget \/ Event!Spend("faults"),
           UNCHANGED runs \/ (Event!Active(i) /\ \E st \in {"out", "over"} : Event!Turns(i, st)),
           \/ UNCHANGED writes
           \/ row[runs[i].event] # None /\ \E kind \in {"success", "failed"} : Event!Later(Event!Task(kind, i))
    PROVE  EventInv'
<1>0. EventTyped /\ EventServerTyped /\ EventCallsTyped
  BY DEF EventInv, EventTyped
<1>1. budget' \in BudgetRecord /\ budget'.used = budget.used
  BY <1>0, EventSpent DEF EventTyped
<1>2. runs[i] \in RunRecord /\ i \in 1 .. MaxRuns
  BY <1>0, RunIs
<1>3. PICK e \in Events : e = runs[i].event
  BY <1>2 DEF RunRecord
<1>4. \A w \in writes' : w \in writes \/ (w \in WriteRecord /\ w.event \in budget.used)
  <2>1. ASSUME row[e] # None, NEW kind \in {"success", "failed"}, Event!Later(Event!Task(kind, i))
        PROVE  \A w \in writes' : w \in writes \/ (w \in WriteRecord /\ w.event \in budget.used)
    <3>1. row[e] \in Event!Event /\ e \in budget.used
      BY <2>1, RowIs
    <3>2. Event!Task(kind, i) = [kind |-> kind, run |-> i, event |-> e, copy |-> row[e]]
      BY <1>3 DEF Event!Task
    <3>3. Event!Task(kind, i) \in WriteRecord /\ Event!Task(kind, i).event = e
      BY <1>2, <3>1, <3>2 DEF WriteRecord
    <3> QED
      BY <2>1, <3>1, <3>3 DEF Event!Later
  <2> QED
    BY <1>3, <2>1
<1>5. /\ runs' \in Seq(RunRecord) /\ Len(runs') = Len(runs) /\ DOMAIN runs' = DOMAIN runs
      /\ \A j \in DOMAIN runs : /\ runs'[j].event = runs[j].event /\ runs'[j].data = runs[j].data
                                /\ runs'[j].st \in {"new", "out"} => Event!Active(j)
  <2>1. CASE UNCHANGED runs
    BY <1>0, <2>1 DEF EventServerTyped, Event!Active
  <2>2. ASSUME Event!Active(i), NEW st \in {"out", "over"}, Event!Turns(i, st)
        PROVE  /\ runs' \in Seq(RunRecord) /\ Len(runs') = Len(runs) /\ DOMAIN runs' = DOMAIN runs
               /\ \A j \in DOMAIN runs : /\ runs'[j].event = runs[j].event /\ runs'[j].data = runs[j].data
                                         /\ runs'[j].st \in {"new", "out"} => Event!Active(j)
    <3> DEFINE t == [runs[i] EXCEPT !.st = st]
    <3>1. t \in RunRecord /\ t.event = runs[i].event /\ t.data = runs[i].data /\ t.st = st
      BY <1>2, <2>2 DEF RunRecord
    <3>2. runs' = [runs EXCEPT ![i] = t]
      BY <2>2 DEF Event!Turns
    <3> HIDE DEF t
    <3>3. runs' \in Seq(RunRecord) /\ Len(runs') = Len(runs) /\ DOMAIN runs' = DOMAIN runs
      BY <1>0, <3>1, <3>2 DEF EventServerTyped
    <3>4. \A j \in DOMAIN runs : runs'[j] = IF j = i THEN t ELSE runs[j]
      BY <1>0, <3>2 DEF EventServerTyped
    <3> QED
      BY <2>2, <3>1, <3>3, <3>4 DEF Event!Active
  <2> QED
    BY <2>1, <2>2
<1>6. EventServerTyped'
  BY <1>0, <1>4, <1>5 DEF EventServerTyped
<1>7. CacheTyped' /\ PageSound'
  BY <1>0, <1>1, PagesStay DEF EventTyped, CacheTyped
<1>8. EventCallsTyped'
  BY <1>0, <1>1, CallsKept
<1>9. UsedOnly'
  BY <1>1, <1>4, UsedStays
<1>10. LockInv'
  BY <1>5, LocksEnded DEF EventInv, LockInv
<1>11. \A k \in Event!Keys : Right(k)'
  <2>1. \A k : EventWritten(k) => EventWritten(k)'
    BY DEF EventWritten
  <2> QED
    BY <2>1, RightStays
<1> QED
  BY <1>1, <1>6, <1>7, <1>8, <1>9, <1>10, <1>11 DEF EventInv, EventTyped, LockInv

LEMMA RunsInv == ASSUME EventInv, RunSteps PROVE EventInv'
<1> SUFFICES ASSUME NEW i \in 1 .. MaxRuns, Event!Dispatch(i) \/ Event!DispatchFails(i) \/ Event!Report(i)
             \/ Event!LoseReport(i) \/ Event!Reap(i)
             PROVE  EventInv'
  BY DEF RunSteps
<1>1. i \in DOMAIN runs /\ UNCHANGED <<row, holes, astray, cache, calls, latest, loads, ui, told, removed>>
  BY DEF Event!Dispatch, Event!DispatchFails, Event!Report, Event!LoseReport, Event!Reap, Event!browser, Event!history
<1>2. CASE Event!Dispatch(i)
  BY <1>1, <1>2, RunInv DEF Event!Dispatch, Event!Active
<1>3. CASE Event!DispatchFails(i)
  <2>1. /\ Event!Active(i) /\ Event!Spend("faults") /\ \E st \in {"out", "over"} : Event!Turns(i, st)
        /\ (Event!Locking(row[runs[i].event]) /\ Event!Later(Event!Task("failed", i))) \/ UNCHANGED writes
    BY <1>3 DEF Event!DispatchFails, Event!Active
  <2> QED
    BY <1>1, <2>1, RunInv DEF Event!Locking
<1>4. CASE Event!Report(i)
  BY <1>1, <1>4, RunInv DEF Event!Report, Event!Active
<1>5. CASE Event!LoseReport(i)
  BY <1>1, <1>5, RunInv DEF Event!LoseReport, Event!Active
<1>6. CASE Event!Reap(i)
  BY <1>1, <1>6, RunInv DEF Event!Reap, Event!Locking
<1> QED
  BY <1>2, <1>3, <1>4, <1>5, <1>6

\* What was read of an event is saved with the end of its analysis.
LEMMA SettleInv == ASSUME EventInv, NEW w \in writes, Event!Settle(w) PROVE EventInv'
<1>0. EventTyped /\ EventServerTyped /\ EventCallsTyped
  BY DEF EventInv, EventTyped
<1>1. w \in WriteRecord /\ w.event \in budget.used
  BY <1>0 DEF EventServerTyped, EventInv, UsedOnly
<1>2. PICK e \in Events : e = w.event
  BY <1>1 DEF WriteRecord
<1> DEFINE r == Event!Settled(w)
<1>3. /\ Event!Save(e, r) /\ writes' = writes \ {w} /\ told' = told \cup Event!Unheard(e)
      /\ UNCHANGED <<runs, holes, cache, calls, latest, loads, ui, budget, removed>>
  BY <1>2 DEF Event!Settle, Event!browser
<1>4. r \in Event!Event /\ r.an = w.kind /\ w.kind \in {"success", "failed"}
  <2>1. /\ w.copy \in Event!Event /\ w.kind \in {"success", "failed"} /\ w.kind \in Event!Analysis
        /\ w.run \in 0 .. MaxRuns /\ w.copy.by \in 0 .. MaxRuns
    BY <1>1, EventNone DEF WriteRecord, Event!Event, Event!Analysis
  <2>2. PICK by \in 0 .. MaxRuns : r = [w.copy EXCEPT !.an = w.kind, !.by = by]
    BY <2>1 DEF Event!Settled
  <2> QED
    BY <2>1, <2>2 DEF Event!Event
<1>5. ~Event!Locking(r)
  BY <1>4 DEF Event!Locking
<1> HIDE DEF r
<1>6. row' \in Table /\ (\A x \in Events : x # e => row'[x] = row[x]) /\ EventServerTyped'
  BY <1>0, <1>3, <1>4 DEF EventServerTyped, Table, Event!Save
<1>7. told' \subseteq Event!Keys /\ "list" \in told' /\ (Event!Locking(Event!Shown(e)) \/ e \in told')
  BY <1>0, <1>3 DEF EventTyped, CacheTyped, Event!Unheard, Event!Keys
<1>8. CacheTyped' /\ PageSound'
  BY <1>0, <1>3, <1>7, PagesStay DEF EventTyped
<1>9. EventCallsTyped'
  BY <1>0, <1>3, CallsKept
<1>10. UsedOnly'
  BY <1>1, <1>2, <1>3, <1>6, UsedStays
<1>11. LockInv'
  BY <1>0, <1>3, <1>5, LocksSaved DEF EventInv, LockInv
<1>12. Right("list")' /\ Right(e)'
  BY <1>3, <1>7 DEF Right, Event!Shown
<1>13. \A k \in Event!Keys : Right(k)'
  <2>1. \A k : EventWritten(k) => EventWritten(k)'
    BY <1>3 DEF EventWritten
  <2>2. told \subseteq told'
    BY <1>3
  <2> QED
    BY <1>3, <1>6, <1>12, <2>1, <2>2, RightSaved
<1> QED
  BY <1>0, <1>3, <1>6, <1>8, <1>9, <1>10, <1>11, <1>13 DEF EventInv, EventTyped, LockInv

LEMMA EventElsewhereInv == ASSUME EventInv, Event!Elsewhere PROVE EventInv'
<1>0. EventTyped /\ EventServerTyped /\ EventCallsTyped
  BY DEF EventInv, EventTyped
<1>1. PICK e \in Events :
         /\ row[e] # None
         /\ Event!Save(e, [row[e] EXCEPT !.guest = ~@]) \/ Event!Save(e, None)
         /\ told' = told \cup {e, "list"} /\ holes' = holes \cup Event!Disturbed(e)
  BY Zenon DEF Event!Elsewhere
<1>2. row[e] # None /\ Event!Spend("others") /\ UNCHANGED <<runs, writes, cache, calls, latest, loads, ui, removed>>
  BY <1>1 DEF Event!Elsewhere, Event!browser
<1>3. budget' \in BudgetRecord /\ budget'.used = budget.used
  BY <1>0, <1>2, EventSpent DEF EventTyped
<1>4. row[e] \in Event!Event /\ e \in budget.used
  BY <1>2, RowIs
<1>5. PICK r \in Event!Event \cup {None} : Event!Save(e, r)
  BY <1>1, <1>4 DEF Event!Event
<1>6. row' \in Table /\ (\A x \in Events : x # e => row'[x] = row[x]) /\ EventServerTyped'
  BY <1>0, <1>1, <1>2, <1>5 DEF EventServerTyped, Table, Event!Save, Event!Disturbed
<1>7. told' \subseteq Event!Keys /\ "list" \in told' /\ e \in told'
  BY <1>0, <1>1 DEF EventTyped, CacheTyped, Event!Keys
<1>8. CacheTyped' /\ PageSound'
  BY <1>0, <1>2, <1>3, <1>7, PagesStay DEF EventTyped
<1>9. EventCallsTyped'
  BY <1>0, <1>2, <1>3, CallsKept
<1>10. UsedOnly'
  BY <1>2, <1>3, <1>4, <1>6, UsedStays
<1>11. LockInv'
  BY <1>0, <1>1, <1>2, <1>5, LocksSaved DEF EventInv, LockInv, Event!Disturbed
<1>12. Right("list")' /\ Right(e)'
  BY <1>7 DEF Right
<1>13. \A k \in Event!Keys : Right(k)'
  <2>1. \A k : EventWritten(k) => EventWritten(k)'
    BY <1>2 DEF EventWritten
  <2>2. told \subseteq told'
    BY <1>1
  <2> QED
    BY <1>2, <1>6, <1>12, <2>1, <2>2, RightSaved
<1> QED
  BY <1>3, <1>6, <1>8, <1>9, <1>10, <1>11, <1>13 DEF EventInv, EventTyped, LockInv

\* The API restarts.
LEMMA RestartInv == ASSUME EventInv, Event!Restart PROVE EventInv'
<1>0. EventTyped /\ EventServerTyped /\ EventCallsTyped
  BY DEF EventInv, EventTyped
<1>1. /\ Event!Spend("faults") /\ writes' = {}
      /\ runs' = [i \in DOMAIN runs |-> IF runs[i].st = "new" THEN [runs[i] EXCEPT !.st = "over"] ELSE runs[i]]
      /\ calls' = [s \in Slots |-> IF calls[s] # None /\ calls[s].st \in {"sent", "read"}
                                   THEN [calls[s] EXCEPT !.st = "failed"] ELSE calls[s]]
      /\ UNCHANGED <<row, holes, astray, cache, latest, loads, ui, told, removed>>
  BY DEF Event!Restart, Event!history
<1>2. budget' \in BudgetRecord /\ budget'.used = budget.used
  BY <1>0, <1>1, EventSpent DEF EventTyped
<1>3. \A i \in DOMAIN runs : /\ runs'[i] \in RunRecord /\ runs'[i].event = runs[i].event
                                /\ runs'[i].data = runs[i].data
                             /\ runs'[i].st \in {"new", "out"} => Event!Active(i)
  <2> SUFFICES ASSUME NEW i \in DOMAIN runs
               PROVE  /\ runs'[i] \in RunRecord /\ runs'[i].event = runs[i].event /\ runs'[i].data = runs[i].data
                      /\ runs'[i].st \in {"new", "out"} => Event!Active(i)
    OBVIOUS
  <2>1. runs[i] \in RunRecord
    BY <1>0, RunIs
  <2>2. runs'[i] = IF runs[i].st = "new" THEN [runs[i] EXCEPT !.st = "over"] ELSE runs[i]
    BY <1>1
  <2> QED
    BY <2>1, <2>2 DEF RunRecord, Event!Active
<1>4. DOMAIN runs' = DOMAIN runs /\ runs' \in Seq(RunRecord) /\ Len(runs') = Len(runs)
  <2>1. Len(runs) \in Nat /\ DOMAIN runs = 1 .. Len(runs) /\ DOMAIN runs' = DOMAIN runs
    BY <1>0, <1>1 DEF EventServerTyped
  <2>2. runs' = [i \in 1 .. Len(runs) |-> runs'[i]]
    BY <1>1, <2>1
  <2>3. runs' \in [1 .. Len(runs) -> RunRecord]
    BY <1>3, <2>1, <2>2
  <2> QED
    BY <2>1, <2>3
<1>5. EventServerTyped' /\ UsedOnly'
  BY <1>0, <1>1, <1>2, <1>4, UsedStays DEF EventServerTyped
<1>6. LockInv'
  BY <1>1, <1>3, <1>4, LocksEnded DEF EventInv, LockInv
<1>7. CacheTyped' /\ PageSound'
  BY <1>0, <1>1, <1>2, PagesStay DEF EventTyped, CacheTyped
<1>8. \A s \in Slots : /\ calls[s] = None <=> calls'[s] = None
                       /\ calls[s] # None => /\ calls'[s] \in Event!CallRecord /\ calls'[s].op = calls[s].op
                                             /\ EventCallSound(calls'[s], removed, budget.used)
                                             /\ calls[s].st = "ok" => calls'[s] = calls[s]
  <2> SUFFICES ASSUME NEW s \in Slots, calls[s] # None
               PROVE  /\ calls'[s] \in Event!CallRecord /\ calls'[s].op = calls[s].op
                      /\ EventCallSound(calls'[s], removed, budget.used)
                      /\ calls[s].st = "ok" => calls'[s] = calls[s]
    BY <1>1, EventNone
  <2>1. PICK c \in Event!CallRecord : c = calls[s] /\ EventCallSound(c, removed, budget.used)
    BY <1>0 DEF EventCallsTyped
  <2>2. CASE c.st \in {"sent", "read"}
    <3> DEFINE d == [c EXCEPT !.st = "failed"]
    <3>1. /\ d \in Event!CallRecord /\ d.op = c.op /\ d.st = "failed" /\ d.event = c.event /\ d.att = c.att
             /\ d.free = c.free
          /\ d.seen = c.seen /\ d.guest = c.guest /\ d.held = c.held
      BY DEF Event!CallRecord
    <3>2. calls'[s] = d
      BY <1>1, <2>1, <2>2
    <3> HIDE DEF d
    <3>3. EventCallSound(d, removed, budget.used)
      BY <2>1, <2>2, <3>1 DEF EventCallSound
    <3> QED
      BY <2>1, <2>2, <3>1, <3>2, <3>3
  <2>3. CASE c.st \notin {"sent", "read"}
    <3>1. calls'[s] = c
      BY <1>1, <2>1, <2>3
    <3> QED
      BY <2>1, <3>1
  <2> QED
    BY <2>2, <2>3
<1>9. EventCallsTyped'
  <2>1. calls' = [s \in Slots |-> calls'[s]]
    BY <1>1
  <2>2. calls' \in [Slots -> Event!CallRecord \cup {None}]
    BY <1>8, <2>1
  <2>3. \A s \in Slots : calls'[s] # None => EventCallSound(calls'[s], removed', budget'.used)
    BY <1>1, <1>2, <1>8
  <2>4. latest' \in [Event!Ops -> Slots \cup {None}] /\ latest' = latest
    BY <1>0, <1>1 DEF EventCallsTyped
  <2>5. ASSUME NEW op \in Event!Ops, latest'[op] # None
        PROVE calls'[latest'[op]] # None /\ calls'[latest'[op]].op = op
    BY <1>0, <1>8, <2>4, <2>5 DEF EventCallsTyped
  <2> QED
    BY <2>2, <2>3, <2>4, <2>5 DEF EventCallsTyped
<1>10. \A k \in Event!Keys : Right(k)'
  <2>1. \A k : EventWritten(k) => EventWritten(k)'
    BY <1>8 DEF EventWritten
  <2> QED
    BY <1>1, <2>1, RightStays
<1> QED
  BY <1>2, <1>5, <1>6, <1>7, <1>9, <1>10 DEF EventInv, EventTyped, LockInv

-----------------------------------------------------------------------------
(* The invariant holds *)

LEMMA EventInit == Event!Init => EventInv
<1> SUFFICES ASSUME Event!Init PROVE EventInv
  OBVIOUS
<1>1. PICK b \in EventBounds :
         /\ budget = [calls |-> b.calls, opens |-> b.opens, edits |-> b.edits, faults |-> b.faults, runs |-> b.runs,
                      others |-> b.others, files |-> b.files \ b.att, used |-> b.events]
         /\ row = [e \in Events |-> IF e \in b.events
                                    THEN [att |-> b.att, guest |-> FALSE, held |-> TRUE, an |-> "idle", by |-> 0]
                                    ELSE None]
         /\ ui = [Event!NoUi EXCEPT !.page = b.page, !.open = b.open]
  BY Zenon DEF Event!Init
<1>2. /\ runs = <<>> /\ writes = {}
      /\ cache = [k \in Event!Keys |-> IF Event!Truth(k) # None THEN Event!Loaded(Event!Truth(k)) ELSE Event!NoEntry]
      /\ calls = [s \in Slots |-> None] /\ latest = [op \in Event!Ops |-> None]
      /\ loads = [f \in Event!Files |-> None]
      /\ told = {} /\ removed = {} /\ holes = {} /\ astray = {}
  BY DEF Event!Init
<1>3. /\ b.events \subseteq Events /\ b.att \subseteq Event!Files /\ b.files \subseteq Event!Files
      /\ (b.page = "detail" /\ b.open \in b.events) \/ (b.page \in {"list", "other"} /\ b.open = None)
      /\ {b.calls, b.runs, b.opens, b.edits, b.faults, b.others} \subseteq Nat
  BY BoardsAssumption DEF Event!EventAssumption
<1>4. budget \in BudgetRecord /\ budget.used = b.events
  BY <1>1, <1>3 DEF BudgetRecord
<1> DEFINE r == [att |-> b.att, guest |-> FALSE, held |-> TRUE, an |-> "idle", by |-> 0]
<1>5. r \in Event!Event
  BY <1>3, EventNone DEF Event!Event, Event!Analysis
<1>6. row = [e \in Events |-> IF e \in b.events THEN r ELSE None]
  BY <1>1
<1> HIDE DEF r
<1>7. row \in Table /\ \A e \in Events : row[e] = IF e \in b.events THEN r ELSE None
  BY <1>3, <1>5, <1>6 DEF Table
<1>8. EventServerTyped
  BY <1>2, <1>7, EventNone DEF EventServerTyped
<1>9. \A k \in Event!Keys : Event!Truth(k) \in Kept(k) \cup {None}
  BY <1>7, KeysAre DEF Event!Truth, Kept, Table
<1>10. \A k \in Event!Keys : /\ EventEntrySound(cache[k], Kept(k)) /\ cache[k].fetch = "idle"
                                /\ cache[k].val = Event!Truth(k)
  <2> SUFFICES ASSUME NEW k \in Event!Keys
               PROVE  EventEntrySound(cache[k], Kept(k)) /\ cache[k].fetch = "idle" /\ cache[k].val = Event!Truth(k)
    OBVIOUS
  <2>1. cache[k] = IF Event!Truth(k) # None THEN Event!Loaded(Event!Truth(k)) ELSE Event!NoEntry
    BY <1>2
  <2>2. PICK v \in Kept(k) \cup {None} : v = Event!Truth(k)
    BY <1>9
  <2>3. cache[k] = [val |-> v, stale |-> FALSE, fetch |-> "idle", got |-> None]
    BY <2>1, <2>2 DEF Event!Loaded, Event!NoEntry
  <2> QED
    BY <2>2, <2>3 DEF EventEntrySound, Event!Entry
<1>11. CacheTyped
  <2>1. \A k \in Event!Keys : cache[k] \in Event!Entry(Table \cup Event!Event)
    BY <1>10 DEF EventEntrySound, Event!Entry, Kept
  <2>2. cache = [k \in Event!Keys |-> cache[k]]
    BY <1>2
  <2>3. cache \in [Event!Keys -> Event!Entry(Table \cup Event!Event)]
    BY <2>1, <2>2
  <2> QED
    BY <1>2, <1>10, <2>3 DEF CacheTyped
<1>12. EventCallsTyped
  BY <1>2 DEF EventCallsTyped
<1>13. PageSound
  <2>1. /\ ui \in UiRecord /\ ui.page = b.page /\ ui.open = b.open /\ ui.form = None /\ ui.remove = None
    BY <1>1, <1>3 DEF Event!NoUi, UiRecord, Event!Pages
  <2>2. loads \in [Event!Files -> LoadRecord \cup {None}] /\ \A f \in Event!Files : loads[f] = None
    BY <1>2
  <2> QED
    BY <1>2, <1>3, <1>4, <2>1, <2>2 DEF PageSound, EventUiSound, LoadsSound
<1>14. UsedOnly
  <2>1. \A k \in Event!Keys : Known(k, cache[k], budget.used)
    BY <1>4, <1>7, <1>10, KeysAre, EventNone DEF Known, Event!Truth
  <2> QED
    BY <1>2, <1>4, <1>7, <2>1 DEF UsedOnly
<1>15. Marked /\ Event!OneAnalysis /\ Event!LockHolds
  BY <1>2 DEF Marked, Event!OneAnalysis, Event!LockHolds
<1> QED
  BY <1>4, <1>8, <1>10, <1>11, <1>12, <1>13, <1>14, <1>15 DEF EventInv, EventTyped, Right

LEMMA EventNext == ASSUME EventInv, Event!Next PROVE EventInv'
<1>1. EventTyped
  BY DEF EventInv
<1>2. CASE Used
  BY <1>2, UsedInv
<1>3. CASE CacheSteps
  BY <1>3, CacheInv
<1>4. CASE RunSteps
  BY <1>4, RunsInv
<1>5. CASE CallSteps
  BY <1>5, InsertInv, ReadInv, WriteInv, StartInv, DeleteInv, LoseCallInv, DeliverInv, Zenon DEF CallSteps
<1>6. CASE OtherSteps
  BY <1>6, SettleInv, RestartInv, EventElsewhereInv, Zenon DEF OtherSteps
<1>7. CASE Goes
  BY <1>7, GoesInv
<1> QED
  BY <1>1, <1>2, <1>3, <1>4, <1>5, <1>6, <1>7, EventSteps

\* What the invariant says of the events.
LEMMA EventHolds ==
    ASSUME EventInv
    PROVE  Event!TypeOK /\ Event!EventIsCurrent /\ Event!OneAnalysis /\ Event!LockHolds
<1>0. EventTyped /\ EventServerTyped /\ CacheTyped /\ EventCallsTyped /\ PageSound
  BY DEF EventInv, EventTyped
<1>1. Event!TypeOK
  <2>1. row \in [Events -> Event!Event \cup {None}]
    BY <1>0 DEF EventServerTyped, Table
  <2>2. \A i \in DOMAIN runs : runs[i].event \in Events /\ runs[i].st \in {"new", "out", "over"}
    BY <1>0, RunIs DEF RunRecord
  <2>3. \A w \in writes : w.copy \in Event!Event /\ w.event \in Events
    BY <1>0 DEF EventServerTyped, WriteRecord
  <2>4. \A e \in Events : Event!Shown(e) \in Event!Event \cup {None}
    BY <1>0, HereIs DEF Event!Shown
  <2>5. \A f \in Event!Files : loads[f] # None /\ loads[f].into = "form" => ui.form # None
    BY <1>0 DEF PageSound, LoadsSound, LoadSound
  <2>6. told \subseteq Event!Keys /\ removed \subseteq (Events \cup {None}) \X Event!Files
        /\ holes \cup astray \subseteq Events
    BY <1>0 DEF CacheTyped, PageSound, EventServerTyped
  <2>7. calls \in [Slots -> Event!CallRecord \cup {None}]
        /\ \A op \in Event!Ops : Event!Pending(op) => calls[latest[op]] # None /\ calls[latest[op]].op = op
    BY <1>0 DEF EventCallsTyped, Event!Pending
  <2> QED
    BY <2>1, <2>2, <2>3, <2>4, <2>5, <2>6, <2>7 DEF Event!TypeOK
<1>2. Event!EventIsCurrent
  <2> SUFFICES ASSUME Event!AtRest, ~Event!Locked,
               NEW k \in Event!Keys, Event!Watched(k), k \notin told, Event!Truth(k) # None
               PROVE  Event!Shown(k) = Event!Truth(k)
    BY DEF Event!EventIsCurrent
  <2>1. Right(k) /\ ~EventWritten(k) /\ ~cache[k].stale /\ cache[k].fetch = "idle"
    BY DEF EventInv, Event!AtRest, Event!Idle, EventWritten
  <2>2. k \in Events => Event!Here = cache[k].val
    BY KeysAre, EventNone DEF Event!Watched, Event!Uses, Event!Here, Event!Shown, EventInv, EventTyped, PageSound,
       EventUiSound, UiRecord, Event!Pages
  <2>3. k \in Events => ~Event!Locking(cache[k].val)
    BY <2>2 DEF Event!Locked
  <2> QED
    BY <2>1, <2>3 DEF Right, Event!Shown
<1> QED
  BY <1>1, <1>2 DEF EventInv

\* A step that loses no file.
LEMMA DropsKept == ASSUME EventInv, Event!Next PROVE Event!DropsNoOther
<1>0. EventTyped /\ EventServerTyped /\ EventCallsTyped
  BY DEF EventInv, EventTyped
<1>1. CASE UNCHANGED row
  BY <1>1 DEF Event!DropsNoOther
<1>2. ASSUME NEW s \in Slots, Event!Insert(s) PROVE Event!DropsNoOther
  <2>1. PICK e \in Events \ budget.used : \E r : row' = [row EXCEPT ![e] = r]
    BY <1>2 DEF Event!Insert, Event!Save
  <2>2. row[e] = None /\ \A x \in Events : x # e => row'[x] = row[x]
    BY <1>0, <2>1 DEF EventInv, UsedOnly, EventServerTyped, Table
  <2> QED
    BY <2>2 DEF Event!DropsNoOther
<1>3. ASSUME NEW s \in Slots, Event!Write(s) \/ Event!Start(s) PROVE Event!DropsNoOther
  <2>1. PICK c \in Event!CallRecord : c = calls[s] /\ EventCallSound(c, removed, budget.used) /\ c # None
    BY <1>0, <1>3 DEF Event!Write, Event!Start, EventCallsTyped
  <2>2. c.st = "read" /\ c.op \in {"save", "files", "people", "analyze"}
    BY <1>3, <2>1 DEF Event!Write, Event!Start, EventCallSound, Event!CallRecord, Event!Ops
  <2>3. PICK e \in Events : e = c.event
    BY <2>1, <2>2 DEF EventCallSound
  <2>4. /\ c.copy \in Event!Event /\ (c.att = None => c.seen = c.copy.att)
        /\ c.op \in {"save", "files"} => \A f \in c.seen \ c.att : <<e, f>> \in removed
        /\ c.op \in {"people", "analyze"} => c.att = None
    BY <2>1, <2>2, <2>3 DEF EventCallSound, Dropped
  <2>5. PICK r \in Event!Event : /\ row' = [row EXCEPT ![e] = r]
                                 /\ r.att = IF c.att = None THEN c.copy.att ELSE c.att
          <3>1. CASE Event!Write(s)
            BY <2>1, <2>3, <2>4, <3>1, UpdatedIs DEF Event!Write, Event!Save
          <3>2. CASE Event!Start(s)
            <4> DEFINE r == [c.copy EXCEPT !.an = "running"]
            <4>1. row' = [row EXCEPT ![e] = r] /\ c.op = "analyze"
              BY <2>1, <2>3, <3>2 DEF Event!Start
            <4>2. r \in Event!Event /\ r.att = c.copy.att
              BY <2>4 DEF Event!Event, Event!Analysis
            <4> HIDE DEF r
            <4> QED
              BY <2>4, <4>1, <4>2
          <3> QED
            BY <1>3, <3>1, <3>2
        <2>6. row'[e] = r /\ \A x \in Events : x # e => row'[x] = row[x]
          BY <1>0, <2>5 DEF EventServerTyped, Table
        <2>7. ASSUME NEW f \in row[e].att \ r.att PROVE <<e, f>> \in removed \/ f \notin c.seen
          BY <2>2, <2>4, <2>5, <2>7
        <2>8. calls[s] # None /\ calls[s].event = e /\ calls[s].st = "read" /\ calls[s].seen = c.seen
          BY <2>1, <2>2, <2>3
        <2> QED
          BY <2>6, <2>7, <2>8 DEF Event!DropsNoOther
<1>4. ASSUME NEW s \in Slots, Event!Delete(s) PROVE Event!DropsNoOther
  <2>1. row' = [row EXCEPT ![calls[s].event] = None]
    BY <1>4 DEF Event!Delete, Event!Save
  <2>2. \A x \in Events : row'[x] = None \/ row'[x] = row[x]
    BY <1>0, <2>1 DEF EventServerTyped, Table
  <2> QED
    BY <2>2 DEF Event!DropsNoOther
<1>5. ASSUME NEW w \in writes, Event!Settle(w) PROVE Event!DropsNoOther
  <2>1. w \in WriteRecord
    BY <1>0 DEF EventServerTyped
  <2>2. row' = [row EXCEPT ![w.event] = Event!Settled(w)] /\ Event!Settled(w).att = w.copy.att
    BY <1>5, <2>1 DEF Event!Settle, Event!Save, Event!Settled, WriteRecord, Event!Event
  <2>3. w.event \in Events /\ row'[w.event] = Event!Settled(w) /\ \A x \in Events : x # w.event => row'[x] = row[x]
    BY <1>0, <2>1, <2>2 DEF EventServerTyped, Table, WriteRecord
  <2> QED
    BY <2>2, <2>3 DEF Event!DropsNoOther
<1>6. CASE Event!Elsewhere
  <2>1. PICK e \in Events : /\ row[e] # None
                            /\ Event!Save(e, [row[e] EXCEPT !.guest = ~@]) \/ Event!Save(e, None)
    BY <1>6, Zenon DEF Event!Elsewhere
  <2>2. row[e] \in Event!Event
    BY <2>1, RowIs
  <2>3. PICK r \in Event!Event \cup {None} : row' = [row EXCEPT ![e] = r] /\ (r # None => r.att = row[e].att)
    <3>1. CASE Event!Save(e, None)
      BY <3>1 DEF Event!Save
    <3>2. CASE Event!Save(e, [row[e] EXCEPT !.guest = ~@])
      <4>1. PICK g \in BOOLEAN : g = ~row[e].guest
        OBVIOUS
      <4> DEFINE r == [row[e] EXCEPT !.guest = g]
      <4>2. r \in Event!Event /\ r.att = row[e].att
        BY <2>2 DEF Event!Event
      <4>3. row' = [row EXCEPT ![e] = r]
        BY <3>2, <4>1 DEF Event!Save
      <4> HIDE DEF r
      <4> QED
        BY <4>2, <4>3
    <3> QED
      BY <2>1, <3>1, <3>2
  <2>4. row'[e] = r /\ \A x \in Events : x # e => row'[x] = row[x]
    BY <1>0, <2>3 DEF EventServerTyped, Table
  <2> QED
    BY <2>3, <2>4 DEF Event!DropsNoOther
<1>7. Used \/ CacheSteps \/ RunSteps \/ CallSteps \/ OtherSteps \/ Goes
  BY <1>0, EventSteps
<1>8. Used \/ CacheSteps \/ RunSteps \/ Goes \/ Event!Restart => UNCHANGED row
  BY DEF Used, CacheSteps, Event!Poll, Event!Serve, Event!Store, Event!LoadFails, RunSteps, Event!Dispatch,
     Event!DispatchFails, Event!Report, Event!LoseReport, Event!Reap,
         Goes, Event!OpenPage, Event!OpenEvent, Event!Go, Event!Restart, Event!server
<1>9. CallSteps => Event!DropsNoOther
  <2>1. \A s \in Slots : Event!Read(s) \/ Event!LoseCall(s) \/ Event!Deliver(s) => UNCHANGED row
    BY DEF Event!Read, Event!LoseCall, Event!Deliver, Event!server
  <2> QED
    BY <1>1, <1>2, <1>3, <1>4, <2>1 DEF CallSteps
<1> QED
  BY <1>1, <1>5, <1>6, <1>7, <1>8, <1>9 DEF OtherSteps

-----------------------------------------------------------------------------
(* The scenes *)

BoardsInv == (scene = "board" => BoardInv) /\ (scene = "event" => EventInv)

LEMMA SceneSteps ==
    ASSUME [Next]_vars
    PROVE  /\ scene' = scene
           /\ scene = "board" => Board!Next \/ UNCHANGED Board!vars
           /\ scene = "event" => Event!Next \/ UNCHANGED Event!vars
<1>1. CASE OnBoard(Board!Next)
  BY <1>1, Zenon DEF OnBoard, In
<1>2. CASE OnEvents(Event!Next)
  BY <1>2, Zenon DEF OnEvents, In
<1>3. CASE UNCHANGED vars
  BY <1>3 DEF vars, boardVars, eventVars, Board!vars, Event!vars, Event!server, Event!browser, Event!history
<1> QED
  BY <1>1, <1>2, <1>3 DEF Next

LEMMA BoardStays == ASSUME BoardInv, UNCHANGED Board!vars PROVE BoardInv'
<1>1. BoardUiSound(ui') /\ Board!Same /\ UNCHANGED budget
  BY DEF BoardInv, BoardTyped, Board!vars, Board!Same
<1> QED
  BY <1>1, EditedInv DEF Edited

LEMMA EventStays == ASSUME EventInv, UNCHANGED Event!vars PROVE EventInv'
<1>1. UNCHANGED <<row, runs, writes, holes, astray, cache, calls, latest, loads, ui, budget, told, removed>>
  BY DEF Event!vars
<1>2. EventTyped /\ EventCallsTyped /\ PageSound
  BY DEF EventInv, EventTyped
<1>3. EventCallsTyped' /\ EventCallsStay
  BY <1>1, <1>2, CallsKept
<1>4. PageSound'
  BY <1>1, <1>2 DEF PageSound, Event!Here, Event!Shown
<1> QED
  BY <1>1, <1>2, <1>3, <1>4, UsedInv DEF Used, EventTyped

LEMMA BoardsInit == Init => BoardsInv
BY BoardInit, EventInit DEF Init, BoardsInv

LEMMA BoardsNext == ASSUME BoardsInv, [Next]_vars PROVE BoardsInv'
<1>1. ASSUME scene = "board" PROVE BoardInv'
  BY <1>1, SceneSteps, BoardNext, BoardStays DEF BoardsInv
<1>2. ASSUME scene = "event" PROVE EventInv'
  BY <1>2, SceneSteps, EventNext, EventStays DEF BoardsInv
<1> QED
  BY <1>1, <1>2, SceneSteps DEF BoardsInv

LEMMA BoardsInvariance == Spec => []BoardsInv
BY BoardsInit, BoardsNext, PTL DEF Spec

\* Once nothing is under way, the board and the drawer show the stage a prospect has,
\* and the list and the page of an event show the event, but for what `told' lists;
\* notes go with the outcome they were typed for: for every number of cards, events,
\* files, calls and analyses, however moves, forms, sections, uploads and refetches
\* overlap.
THEOREM PagesAreRight == Spec => []PagesHold
<1>1. ASSUME BoardsInv PROVE PagesHold
  BY <1>1, BoardHolds, EventHolds DEF BoardsInv, PagesHold
<1> QED
  BY <1>1, BoardsInvariance, PTL

\* Whatever saves back a row that it has read, no event has two analyses under way
\* that it knows of, and none is changed during one from where the lock was shown.
THEOREM AnalysesAreAlone == Spec => []AnalysisIsAlone
<1>1. ASSUME BoardsInv PROVE AnalysisIsAlone
  BY <1>1, EventHolds DEF BoardsInv, AnalysisIsAlone
<1> QED
  BY <1>1, BoardsInvariance, PTL

\* No form takes back a stage that it does not change, and no handler, form or
\* analysis that saves a whole event drops a file its sender knew of.
THEOREM WritesLeaveTheRest == Spec => WritesKeepTheRest
<1> DEFINE A == /\ scene = "board" => Board!SavesKeepStage
                /\ scene = "event" => Event!DropsNoOther
<1>1. ASSUME BoardsInv, Next PROVE A
  <2>1. scene = "board" => Board!SavesKeepStage
    <3>1. scene = "board" => Board!Next
      BY <1>1, Zenon DEF Next, OnBoard, OnEvents, In
    <3> QED
      BY <1>1, <3>1, SaveKeeps DEF BoardsInv
  <2>2. scene = "event" => Event!DropsNoOther
    <3>1. scene = "event" => Event!Next
      BY <1>1, Zenon DEF Next, OnBoard, OnEvents, In
    <3> QED
      BY <1>1, <3>1, DropsKept DEF BoardsInv
  <2> QED
    BY <2>1, <2>2
<1>2. BoardsInv /\ [Next]_vars => [A]_vars
  BY <1>1
<1>3. Spec => [][A]_vars
  <2> HIDE DEF A
  <2> QED
    BY <1>2, BoardsInvariance, PTL DEF Spec
<1> QED
  BY <1>3 DEF WritesKeepTheRest
===============================================================================
