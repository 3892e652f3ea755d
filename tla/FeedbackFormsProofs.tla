------------------------- MODULE FeedbackFormsProofs -------------------------
(* Proofs about FeedbackForms. *)
EXTENDS FeedbackForms, FiniteSetTheorems, TLAPS

(***************************************************************************)
(* One form per visit.  A call that may make a form for visit v is its     *)
(* maker: as long as only one is sent, either it has not been carried out  *)
(* and there is no form, or it has and the form is its own; and once it is *)
(* gone the page knows the form it made, so that the next save updates it. *)
(***************************************************************************)
Ops == {"none", "create", "update", "publish", "suggest", "clarify", "clear", "delete"}
Nexts == {"none", "new", "newPublish", "save", "publish", "stay", "open"}
CallStates == {"free", "sent", "read", "ok", "failed"}

\* A call, whatever its questions and the copy it carries.
IsCall(c) ==
    c \in [op: Ops, form: Forms \cup {None}, qs: {c.qs}, visit: 0 .. MaxVisits,
           then: Nexts, st: CallStates, copy: {c.copy}]
IsUi(u) ==
    u \in [form: Forms \cup {None}, panel: Forms \cup {None}, qs: {u.qs}, sel: {u.sel},
           shown: {u.shown}, titled: BOOLEAN, refining: {u.refining}, bare: BOOLEAN]
IsPage(p) == p \in [at: {"list", "detail", "loading", "builder"}, form: Forms \cup {None}]

Maker(s, v) == Creates(calls[s]) /\ calls[s].visit = v

\* What is sent without a form makes one, for a visit or as a duplicate; what
\* is answered has a form.
Aimed(c) ==
    /\ c.st \in {"read", "ok"} \/ c.op = "delete" => c.form # None
    /\ c.st = "sent" /\ c.form = None /\ c.op \in {"create", "suggest"} => Creates(c) \/ c.visit = 0
    /\ c.op = "suggest" => c.then # "newPublish"

CallsTyped ==
    calls = [s \in Slots |-> calls[s]] /\ \A s \in Slots : IsCall(calls[s]) /\ Aimed(calls[s])
PageTyped == visit \in 0 .. MaxVisits /\ IsUi(ui) /\ IsPage(page)
RowsTyped ==
    /\ row = [f \in Forms |-> row[f]] /\ born = [v \in 0 .. MaxVisits |-> born[v]]
    /\ asks \in 0 .. MaxAsks /\ budget \in Budget
Typed == CallsTyped /\ PageTyped /\ RowsTyped

\* No form is made for a visit that has not begun.
Future == \A v \in visit + 1 .. MaxVisits : born[v] = {} /\ \A s \in Slots : ~Maker(s, v)

OneMaker(v) == \A s, t \in Slots : Maker(s, v) /\ Maker(t, v) => s = t

\* What a maker has made is all there is.
Makes(c, v) ==
    \/ c.st \in {"sent", "failed"} /\ c.form = None /\ born[v] = {}
    \/ c.st = "ok" /\ born[v] = {c.form}
Made(v) == \A s \in Slots : Maker(s, v) => Makes(calls[s], v)

AtMostOne(v) == born[v] = {} \/ \E f \in Forms : born[v] = {f}

\* The editor knows the form of its visit once its maker is gone.
Known(v) ==
    Editing /\ v = visit /\ born[v] # {} /\ (\A s \in Slots : ~Maker(s, v))
        => ui.form # None /\ ui.panel # None

Visit(v) == OneMaker(v) /\ Made(v) /\ AtMostOne(v) /\ Known(v)
VisitsInv == Future /\ \A v \in (1 .. MaxVisits) \ twice : Visit(v)

(***************************************************************************)
(* Results.  While a form waits for a suggestion, only the run it was asked *)
(* of last may report; `mixed' forms apart, which were asked again next to  *)
(* an older run, or saved from an outdated copy.                            *)
(***************************************************************************)
IsRow(r) == r \in [st: Status, qs: {r.qs}, job: Job \cup {None}]
Born == UNION {born[v] : v \in 0 .. MaxVisits}

\* The facts about one row.
Sound(r) ==
    /\ IsRow(r)
    /\ r.job # None => r.job.by \in {0, r.job.ask}
    /\ r.st = "processing_ai" => r.job # None

RowHolds(f) == row[f] # None => f \in Born /\ Sound(row[f])

\* Its run, and any other of the form that is still under way.
RunHolds(f) ==
    \A t \in tasks : t.form = f =>
        /\ f \in Born
        /\ t.ask # 0 /\ Running(f) => t.ask = row[f].job.ask

IsTask(t) ==
    /\ t \in [form: {t.form}, ask: 0 .. MaxAsks, st: {"new", "running", "failing", "reporting", "reaping"},
              copy: {t.copy}, out: Outcomes \cup {None}]
    /\ t.st \in {"failing", "reporting", "reaping"} => t.copy # None
    /\ t.st = "reporting" => t.copy.st = "processing_ai" /\ t.out \in Outcomes
    /\ t.st # "reaping" => t.ask # 0

Carries(c) == c.st = "read" => c.copy # None /\ (c.op = "clarify" => c.copy.job # None)

ResultsInv ==
    /\ \A t \in tasks : IsTask(t)
    /\ \A s \in Slots : Carries(calls[s])
    /\ \A f \in Forms \ mixed : RowHolds(f) /\ RunHolds(f)

(***************************************************************************)
(* The page.  A cached form that is not the row is out of date for a reason *)
(* that will be seen to: it says the AI is at work, it is marked, it is     *)
(* being fetched, or the answer of the call that wrote the row is to come.  *)
(***************************************************************************)
IsFetch(q) == q \in [st: {"idle", "asked", "answered"}, val: {q.val}, late: BOOLEAN]

CacheTyped ==
    /\ cache = [f \in Forms |-> cache[f]]
    /\ fetch = [f \in Forms |-> fetch[f]] /\ \A f \in Forms : IsFetch(fetch[f])

\* A call that has written the form, and whose answer marks or replaces the entry.
Covers(c, f) ==
    c.st = "ok" /\ c.form = f /\ c.op \in {"update", "publish", "suggest", "clarify", "clear"}
Covered(f) == \E s \in Slots : Covers(calls[s], f)

\* An answer that nothing has overtaken is the row.
AnswerIsRow(f) ==
    fetch[f].st = "answered" /\ ~fetch[f].late /\ row[f] # None =>
        fetch[f].val = row[f] \/ fetch[f].val.st = "processing_ai" \/ Covered(f)

EntryIsRow(f) ==
    f \notin misled /\ cache[f] # None /\ row[f] # None =>
        \/ cache[f] = row[f] \/ cache[f].st = "processing_ai"
        \/ f \in stale \/ fetch[f].st # "idle" \/ Covered(f)

Shown(f) == AnswerIsRow(f) /\ EntryIsRow(f)

\* What is known of a form, somewhere, is of a form that was made.
Unmade(f) == row[f] = None /\ cache[f] = None /\ fetch[f].st # "answered"
CallTraces(c) ==
    /\ c.st \in {"read", "ok"} /\ c.op # "delete" => c.form \in Born
    /\ c.then = "open" => c.op = "create"
CallsTraced == \A s \in Slots : CallTraces(calls[s])
TasksTraced == \A t \in tasks : t.form \in Born
Traces == TasksTraced /\ CallsTraced /\ \A f \in Forms \ Born : Unmade(f)

\* The panel selects among the questions it shows, and shows none without a form.
SelectedIn(u, c) ==
    /\ u.sel \subseteq 1 .. u.shown
    /\ u.panel = None => u.shown = 0
    /\ u.panel # None => u.panel \in Forms /\ (c[u.panel] = None => u.shown = 0)
Selected == SelectedIn(ui, cache)

ScreenInv == CacheTyped /\ Traces /\ Selected /\ \A f \in Forms : Shown(f)

-----------------------------------------------------------------------------
(* The parts of a state *)

LEMMA NoCallTyped == IsCall(NoCall) /\ Aimed(NoCall) /\ ~Creates(NoCall) /\ Carries(NoCall)
BY LimitsAssumption DEF IsCall, Aimed, NoCall, Creates, Carries, Ops, Nexts, CallStates

\* One slot of the calls is written.
LEMMA PutCall ==
    ASSUME CallsTyped, NEW s \in Slots, NEW c, IsCall(c), Aimed(c), calls' = [calls EXCEPT ![s] = c]
    PROVE  CallsTyped' /\ calls'[s] = c /\ \A t \in Slots \ {s} : calls'[t] = calls[t]
BY DEF CallsTyped

LEMMA RenderedKeeps ==
    ASSUME NEW u, NEW c, IsUi(u)
    PROVE  IsUi(Rendered(u, c)) /\ Rendered(u, c).form = u.form /\ Rendered(u, c).panel = u.panel
<1> DEFINE job == IF u.panel = None \/ c[u.panel] = None THEN None ELSE c[u.panel].job
           n == IF job = None THEN 0 ELSE job.pending
<1>1. Rendered(u, c) = IF n = u.shown THEN u ELSE [u EXCEPT !.shown = n, !.sel = 1 .. n]
  BY DEF Rendered
<1> HIDE DEF n
<1>2. CASE n = u.shown
  BY <1>1, <1>2
<1>3. CASE n # u.shown
  BY <1>1, <1>3 DEF IsUi
<1> QED
  BY <1>2, <1>3

LEMMA NoUiTyped == IsUi(NoUi) /\ NoUi.form = None /\ NoUi.panel = None
BY DEF IsUi, NoUi

LEMMA MountedTyped ==
    ASSUME NEW f \in Forms \cup {None}, NEW r
    PROVE  IsUi(Mounted(f, r)) /\ Mounted(f, r).form = f /\ Mounted(f, r).panel = f
<1> DEFINE titled == (r # None)
           bare == (f # None /\ r = None)
           qs == IF r = None THEN <<>> ELSE r.qs
           u == [NoUi EXCEPT !.form = f, !.panel = f, !.titled = titled, !.qs = qs, !.bare = bare]
<1>1. titled \in BOOLEAN /\ bare \in BOOLEAN
  OBVIOUS
<1>2. Mounted(f, r) = Rendered(u, [cache EXCEPT ![f] = r])
  BY DEF Mounted
<1> HIDE DEF titled, bare, qs
<1>3. IsUi(u) /\ u.form = f /\ u.panel = f
  BY <1>1 DEF IsUi, NoUi
<1> HIDE DEF u
<1> QED
  BY <1>2, <1>3, RenderedKeeps

\* What a budget loses.
LEMMA BudgetKept ==
    ASSUME budget \in Budget, Fault \/ Spend \/ Go \/ Change
    PROVE  budget' \in Budget
<1>1. CASE Fault
  BY <1>1, LimitsAssumption DEF Fault, Budget
<1>2. CASE Spend
  BY <1>2 DEF Spend, Budget
<1>3. CASE Go
  BY <1>3 DEF Go, Budget
<1>4. CASE Change
  BY <1>4 DEF Change, Budget
<1> QED
  BY <1>1, <1>2, <1>3, <1>4

-----------------------------------------------------------------------------
(* Every step keeps the parts of a state well-formed *)

LEMMA LaunchKept ==
    ASSUME asks \in 0 .. MaxAsks, budget \in Budget, NEW f, Launch(f)
    PROVE  asks + 1 \in 1 .. MaxAsks /\ asks' = asks + 1
BY LimitsAssumption DEF Launch, Budget

LEMMA InsertTyped ==
    ASSUME Typed, NEW s \in Slots, NEW f \in Forms, Insert(s, f)
    PROVE  Typed'
<1> DEFINE c == calls[s]
<1>1. PICK r : /\ row' = [row EXCEPT ![f] = r]
               /\ calls' = [calls EXCEPT ![s] = [c EXCEPT !.st = "ok", !.form = f, !.copy = r]]
               /\ asks' = asks \/ Launch(f)
  BY Zenon DEF Insert, NoLaunch
<1>2. CallsTyped'
  <2> DEFINE d == [c EXCEPT !.st = "ok", !.form = f, !.copy = r]
  <2>1. IsCall(c) /\ Aimed(c) /\ c.st = "sent"
    BY DEF Typed, CallsTyped, Insert
  <2>2. IsCall(d) /\ Aimed(d)
    BY <2>1, FormsAssumption DEF IsCall, Aimed, CallStates
  <2> QED
    BY <1>1, <2>2, PutCall DEF Typed
<1>3. RowsTyped'
  <2>1. asks' \in 0 .. MaxAsks
    BY <1>1, LaunchKept DEF Typed, RowsTyped
  <2> QED
    BY <1>1, <2>1 DEF Typed, RowsTyped, Insert
<1>4. PageTyped'
  BY DEF Insert, Typed, PageTyped, local, IsUi, IsPage
<1> QED
  BY <1>2, <1>3, <1>4 DEF Typed

LEMMA WriteTyped ==
    ASSUME Typed, NEW s \in Slots, Write(s)
    PROVE  Typed'
<1> DEFINE c == calls[s]
<1>1. PICK r : /\ row' = [row EXCEPT ![c.form] = r]
               /\ calls' = [calls EXCEPT ![s] = [c EXCEPT !.st = "ok", !.copy = r]]
               /\ asks' = asks \/ Launch(c.form)
  BY Zenon DEF Write, NoLaunch
<1>2. CallsTyped'
  <2> DEFINE d == [c EXCEPT !.st = "ok", !.copy = r]
  <2>1. IsCall(c) /\ Aimed(c) /\ c.st = "read"
    BY DEF Typed, CallsTyped, Write
  <2>2. IsCall(d) /\ Aimed(d)
    BY <2>1, FormsAssumption DEF IsCall, Aimed, CallStates
  <2> QED
    BY <1>1, <2>2, PutCall DEF Typed
<1>3. RowsTyped'
  <2>1. asks' \in 0 .. MaxAsks
    BY <1>1, LaunchKept DEF Typed, RowsTyped
  <2> QED
    BY <1>1, <2>1 DEF Typed, RowsTyped, Write, history
<1>4. PageTyped'
  BY DEF Write, Typed, PageTyped, local, IsUi, IsPage
<1> QED
  BY <1>2, <1>3, <1>4 DEF Typed

\* A call fails, is answered, is read or lost; and is forgotten, or published.
LEMMA CallTyped ==
    ASSUME Typed, NEW s \in Slots
    PROVE  /\ Read(s) \/ Delete(s) \/ LoseCall(s) => CallsTyped'
           /\ Done(s) => CallsTyped'
           /\ \A next \in BOOLEAN : calls[s].st = "ok" /\ Then(s, next) => CallsTyped'
<1> DEFINE c == calls[s]
<1>0. IsCall(c) /\ Aimed(c)
  BY DEF Typed, CallsTyped
<1>1. ASSUME Read(s) PROVE CallsTyped'
  <2> DEFINE d == IF Refuses(c, row[c.form]) THEN [c EXCEPT !.st = "failed"]
                  ELSE [c EXCEPT !.st = "read", !.copy = row[c.form]]
  <2>1. IsCall([c EXCEPT !.st = "failed"]) /\ Aimed([c EXCEPT !.st = "failed"])
    BY <1>0 DEF IsCall, Aimed, CallStates
  <2>2. IsCall([c EXCEPT !.st = "read", !.copy = row[c.form]])
        /\ Aimed([c EXCEPT !.st = "read", !.copy = row[c.form]])
    BY <1>0, <1>1 DEF IsCall, Aimed, CallStates, Read
  <2>3. IsCall(d) /\ Aimed(d)
    BY <2>1, <2>2
  <2>4. calls' = [calls EXCEPT ![s] = d]
    BY <1>1 DEF Read
  <2> QED
    BY <2>3, <2>4, PutCall DEF Typed
<1>2. ASSUME Delete(s) PROVE CallsTyped'
  <2> DEFINE d == [c EXCEPT !.st = "ok"]
  <2>1. c.st = "sent" /\ c.op = "delete"
    BY <1>2 DEF Delete
  <2>2. IsCall(d)
    BY <1>0 DEF IsCall, CallStates
  <2>3. Aimed(d)
    BY <1>0, <2>1 DEF IsCall, Aimed
  <2>4. calls' = [calls EXCEPT ![s] = d]
    BY <1>2 DEF Delete
  <2> QED
    BY <2>2, <2>3, <2>4, PutCall DEF Typed
<1>3. ASSUME LoseCall(s) PROVE CallsTyped'
  <2> DEFINE d == [c EXCEPT !.st = "failed"]
  <2>1. IsCall(d) /\ Aimed(d)
    BY <1>0 DEF IsCall, Aimed, CallStates
  <2>2. calls' = [calls EXCEPT ![s] = d]
    BY <1>3 DEF LoseCall
  <2> QED
    BY <2>1, <2>2, PutCall DEF Typed
<1>4. ASSUME Done(s) PROVE CallsTyped'
  BY <1>4, NoCallTyped, PutCall DEF Done, Typed
<1>5. ASSUME NEW next \in BOOLEAN, c.st = "ok", Then(s, next) PROVE CallsTyped'
  <2> DEFINE d == [c EXCEPT !.op = "publish", !.then = "publish", !.st = "sent", !.copy = None]
  <2>1. IsCall(d) /\ Aimed(d)
    BY <1>0 DEF IsCall, Aimed, CallStates, Ops, Nexts
  <2>2. calls' = [calls EXCEPT ![s] = d] \/ calls' = [calls EXCEPT ![s] = NoCall]
    BY <1>5 DEF Then
  <2> QED
    BY <2>1, <2>2, NoCallTyped, PutCall DEF Typed
<1> QED
  BY <1>1, <1>2, <1>3, <1>4, <1>5

LEMMA SendTyped ==
    ASSUME Typed, NEW c, IsCall(c), Aimed(c), Send(c)
    PROVE  CallsTyped' /\ budget' \in Budget
<1>1. PICK s \in Slots : calls' = [calls EXCEPT ![s] = c]
  BY DEF Send, Typed, RowsTyped, Budget
<1> QED
  BY <1>1, PutCall, BudgetKept DEF Send, Typed, RowsTyped

LEMMA TaskStepTyped ==
    ASSUME Typed,
           \/ \E t \in tasks : Work(t) \/ Bridge(t)
           \/ (\E f \in Forms : Poll(f) \/ Serve(f) \/ Reap(f)) \/ Restart
    PROVE  Typed'
<1>1. PageTyped'
  BY DEF Typed, PageTyped, Work, Bridge, Dispatch, Settle, DispatchFails, LoseReport, Report,
         Poll, Serve, Reap, Restart, local, IsUi, IsPage
<1>2. budget' \in Budget
  BY BudgetKept DEF Typed, RowsTyped, Work, Bridge, Dispatch, Settle, DispatchFails, LoseReport, Report,
                    Poll, Serve, Reap, Restart
<1>3. row' = [f \in Forms |-> row'[f]]
  BY DEF Typed, RowsTyped, Work, Bridge, Dispatch, Settle, DispatchFails, LoseReport, Report,
         Poll, Serve, Reap, Restart, server
<1>4. born' = born /\ asks' = asks
  BY DEF Work, Bridge, Dispatch, Settle, DispatchFails, LoseReport, Report,
         Poll, Serve, Reap, Restart, server, history
<1>5. CASE Restart
  <2> DEFINE d(s) == IF calls[s].st \in {"sent", "read"}
                     THEN [calls[s] EXCEPT !.st = "failed"] ELSE calls[s]
  <2>1. ASSUME NEW s \in Slots PROVE IsCall(d(s)) /\ Aimed(d(s))
    <3>1. IsCall(calls[s]) /\ Aimed(calls[s])
      BY DEF Typed, CallsTyped
    <3>2. IsCall([calls[s] EXCEPT !.st = "failed"]) /\ Aimed([calls[s] EXCEPT !.st = "failed"])
      BY <3>1 DEF IsCall, Aimed, CallStates
    <3> QED
      BY <3>1, <3>2
  <2>2. calls' = [s \in Slots |-> d(s)]
    BY <1>5 DEF Restart
  <2> HIDE DEF d
  <2>3. CallsTyped'
    BY <2>1, <2>2 DEF CallsTyped
  <2> QED
    BY <1>1, <1>2, <1>3, <1>4, <2>3 DEF Typed, RowsTyped
<1>6. CASE ~Restart
  <2>1. calls' = calls
    BY <1>6 DEF Work, Bridge, Dispatch, Settle, DispatchFails, LoseReport, Report, Poll, Serve, Reap
  <2>2. CallsTyped'
    BY <2>1 DEF Typed, CallsTyped
  <2> QED
    BY <1>1, <1>2, <1>3, <1>4, <2>2 DEF Typed, RowsTyped
<1> QED
  BY <1>5, <1>6

LEMMA StoreTyped ==
    ASSUME Typed, NEW f \in Forms, Store(f) \/ LoadFails(f)
    PROVE  Typed'
<1>1. PageTyped'
  <2>1. /\ \/ page' = At("builder", f) /\ \E r : ui' = Mounted(f, r)
           \/ page' = page /\ (ui' = ui \/ ui' = Rendered(ui, cache'))
        /\ visit' = visit
    BY Zenon DEF Store, LoadFails, WithoutData
  <2>2. IsPage(At("builder", f))
    BY DEF IsPage, At
  <2>3. IsUi(ui')
    BY <2>1, MountedTyped, RenderedKeeps DEF Typed, PageTyped
  <2> QED
    BY <2>1, <2>2, <2>3 DEF Typed, PageTyped
<1>2. RowsTyped'
  BY BudgetKept DEF Typed, RowsTyped, Store, LoadFails, server, history
<1>3. CallsTyped'
  BY DEF Typed, CallsTyped, Store, LoadFails
<1> QED
  BY <1>1, <1>2, <1>3 DEF Typed

LEMMA EnterTyped ==
    ASSUME Typed, NEW f \in Forms, Enter(f)
    PROVE  PageTyped'
<1>1. IsPage(At("loading", f)) /\ IsPage(At("builder", f))
  BY DEF IsPage, At
<1>2. visit' \in 0 .. MaxVisits
  BY LimitsAssumption DEF Enter, Typed, PageTyped
<1> QED
  BY <1>1, <1>2, MountedTyped, NoUiTyped DEF Enter, PageTyped

LEMMA NavigateTyped ==
    ASSUME Typed, Navigate
    PROVE  Typed'
<1>1. PageTyped'
  <2>1. IsPage(At("list", None)) /\ IsPage(At("builder", None))
    BY DEF IsPage, At
  <2>2. ASSUME NEW f \in Forms PROVE IsPage(At("detail", f))
    BY DEF IsPage, At
  <2>3. CASE OpenList
    BY <2>1, <2>3, NoUiTyped DEF OpenList, Leave, Typed, PageTyped
  <2>4. CASE OpenNew
    <3>1. visit' \in 0 .. MaxVisits
      BY <2>4, LimitsAssumption DEF OpenNew, Typed, PageTyped
    <3> QED
      BY <2>1, <2>4, <3>1, MountedTyped DEF OpenNew, PageTyped
  <2>5. CASE \E f \in Forms : OpenDetail(f)
    BY <2>2, <2>5, NoUiTyped DEF OpenDetail, Leave, Typed, PageTyped
  <2>6. CASE \E f \in Forms : OpenBuilder(f)
    BY <2>6, EnterTyped DEF OpenBuilder
  <2> QED
    BY <2>3, <2>4, <2>5, <2>6 DEF Navigate
<1>2. RowsTyped'
  BY BudgetKept DEF Typed, RowsTyped, Navigate, OpenList, OpenNew, OpenDetail, OpenBuilder, server, history
<1>3. CallsTyped'
  BY DEF Typed, CallsTyped, Navigate, OpenList, OpenNew, OpenDetail, OpenBuilder
<1> QED
  BY <1>1, <1>2, <1>3 DEF Typed

\* What the user edits leaves the form of the editor alone.
LEMMA EditsTyped ==
    ASSUME Typed, NEW u, Edits(u), IsUi(u)
    PROVE  Typed'
BY BudgetKept DEF Edits, Typed, PageTyped, RowsTyped, CallsTyped, server, history, IsPage

\* An edit changes one part of the local state, and selects what is shown.
LEMMA EditWrites ==
    ASSUME Typed, Edit \/ \E i \in 1 .. MaxItems : Toggle(i)
    PROVE  \E u : /\ Edits(u)
                  /\ \/ u = [ui EXCEPT !.titled = TRUE]
                     \/ \E x : u = [ui EXCEPT !.qs = x]
                     \/ \E x : u = [ui EXCEPT !.sel = x] /\ x \subseteq ui.sel \cup 1 .. ui.shown
                     \/ \E x : u = [ui EXCEPT !.refining = x]
                     \/ \E x, y : u = [ui EXCEPT !.refining = x, !.qs = y]
<1>1. CASE TypeTitle
  BY <1>1, Zenon DEF TypeTitle
<1>2. CASE AddQuestion
  BY <1>2, Zenon DEF AddQuestion
<1>3. CASE RefineAnswered
  BY <1>3, Zenon DEF RefineAnswered
<1>4. ASSUME NEW i \in 1 .. MaxItems, TypeLabel(i) PROVE \E u : Edits(u) /\ \E x : u = [ui EXCEPT !.qs = x]
  <2>1. [ui EXCEPT !.qs[i].label = "typed"]
          = [ui EXCEPT !.qs = [ui.qs EXCEPT ![i] = [ui.qs[i] EXCEPT !.label = "typed"]]]
    BY DEF Typed, PageTyped, IsUi
  <2> QED
    BY <1>4, <2>1 DEF TypeLabel
<1>5. CASE \E i \in 1 .. MaxItems : RemoveQuestion(i) \/ Move(i) \/ Refine(i)
  BY <1>5, Zenon DEF RemoveQuestion, Move, Refine
<1>6. ASSUME NEW i \in 1 .. MaxItems, Toggle(i)
      PROVE  \E u : Edits(u) /\ \E x : u = [ui EXCEPT !.sel = x] /\ x \subseteq ui.sel \cup 1 .. ui.shown
  <2> DEFINE x == IF i \in ui.sel THEN ui.sel \ {i} ELSE ui.sel \cup {i}
  <2>1. Edits([ui EXCEPT !.sel = x]) /\ i \in 1 .. ui.shown
    BY <1>6 DEF Toggle
  <2>2. x \subseteq ui.sel \cup 1 .. ui.shown
    BY <2>1
  <2> HIDE DEF x
  <2> QED
    BY <2>1, <2>2, Zenon
<1> QED
  BY <1>1, <1>2, <1>3, <1>4, <1>5, <1>6 DEF Edit

LEMMA EditKeeps ==
    ASSUME Typed, Edit \/ \E i \in 1 .. MaxItems : Toggle(i)
    PROVE  Typed' /\ ui'.form = ui.form /\ ui'.panel = ui.panel /\ Editing
           /\ UNCHANGED <<server, calls, page, visit, history>>
<1>1. PICK u : /\ Edits(u)
               /\ \/ u = [ui EXCEPT !.titled = TRUE]
                  \/ \E x : u = [ui EXCEPT !.qs = x]
                  \/ \E x : u = [ui EXCEPT !.sel = x]
                  \/ \E x : u = [ui EXCEPT !.refining = x]
                  \/ \E x, y : u = [ui EXCEPT !.refining = x, !.qs = y]
  BY EditWrites, Zenon
<1>2. IsUi(u) /\ u.form = ui.form /\ u.panel = ui.panel
  BY <1>1 DEF Typed, PageTyped, IsUi
<1>3. Typed'
  BY <1>1, <1>2, EditsTyped
<1> QED
  BY <1>1, <1>2, <1>3 DEF Edits

\* What the pages send: a call that may make a form comes from an editor that
\* knows of none.
Sending(c) ==
    /\ IsCall(c) /\ Aimed(c) /\ Send(c) /\ c.st = "sent"
    /\ Creates(c) => /\ Editing /\ (ui.form = None \/ ui.panel = None)
                     /\ c.visit = visit /\ c.form = None
    /\ Noted(c)
    /\ IsUi(ui') /\ ui'.form = ui.form /\ ui'.panel = ui.panel
    /\ ui'.shown = ui.shown /\ ui'.sel \subseteq ui.sel
    /\ c.then = "open" => c.op = "create"
    /\ UNCHANGED <<server, browser, page, visit, born, misled>>

LEMMA CallIsTyped ==
    ASSUME Typed, NEW op \in Ops, NEW f \in Forms \cup {None}, NEW qs, NEW then \in Nexts
    PROVE  /\ IsCall(Call(op, f, qs, then))
           /\ op \notin {"create", "suggest"} /\ (op = "delete" => f # None) => Aimed(Call(op, f, qs, then))
BY DEF Typed, PageTyped, IsCall, Call, CallStates, Aimed, Creates

LEMMA PanelHasForm == Panel \in {"clarifying", "pending", "processing"} => ui.panel # None
BY DEF Panel

LEMMA AskSends ==
    ASSUME Typed, RunSuggest \/ SubmitAnswers \/ CancelJob \/ AddSelected
    PROVE  \E c : Sending(c)
<1>0. /\ ui.panel \in Forms \cup {None} /\ IsUi(ui)
      /\ "suggest" \in Ops /\ "clarify" \in Ops /\ "clear" \in Ops /\ "new" \in Nexts /\ "save" \in Nexts
  BY DEF Typed, PageTyped, IsUi, Ops, Nexts
<1>1. CASE RunSuggest
  <2> DEFINE c == Call("suggest", ui.panel, <<>>, IF ui.panel = None THEN "new" ELSE "save")
  <2>1. c = [op |-> "suggest", form |-> ui.panel, qs |-> <<>>, visit |-> visit, st |-> "sent", copy |-> None,
             then |-> IF ui.panel = None THEN "new" ELSE "save"]
    BY DEF Call
  <2>2. IsCall(c)
    BY <1>0, CallIsTyped
  <2>3. /\ Aimed(c) /\ c.st = "sent" /\ c.visit = visit
        /\ Creates(c) => ui.panel = None /\ c.form = None
        /\ c.then # "open"
    BY <2>1 DEF Aimed, Creates
  <2>4. Editing /\ Send(c) /\ Noted(c) /\ UNCHANGED <<server, browser, ui, page, visit, born, misled>>
    BY <1>1 DEF RunSuggest, local
  <2> QED
    BY <1>0, <2>2, <2>3, <2>4 DEF Sending
<1>2. CASE SubmitAnswers \/ CancelJob \/ AddSelected
  <2>1. PICK op \in {"clarify", "clear"} : Send(Call(op, ui.panel, <<>>, "save"))
    BY <1>2 DEF SubmitAnswers, CancelJob, AddSelected
  <2> DEFINE c == Call(op, ui.panel, <<>>, "save")
  <2>2. ui.panel # None
    BY <1>2, PanelHasForm DEF SubmitAnswers, CancelJob, AddSelected
  <2>3. IsCall(c) /\ Aimed(c)
    BY <1>0, <2>2, CallIsTyped
  <2>4. c.st = "sent" /\ ~Creates(c) /\ c.then # "open"
    BY DEF Call, Creates
  <2>5. UNCHANGED <<server, browser, page, visit, born, twice, misled>>
    BY <1>2 DEF SubmitAnswers, CancelJob, AddSelected, local, history
  <2>6. \/ ui' = ui
        \/ \E x : ui' = [ui EXCEPT !.sel = {}, !.qs = x]
    BY <1>2, Zenon DEF SubmitAnswers, CancelJob, AddSelected, local
  <2>7. IsUi(ui') /\ ui'.form = ui.form /\ ui'.panel = ui.panel /\ ui'.shown = ui.shown /\ ui'.sel \subseteq ui.sel
    BY <1>0, <2>6 DEF IsUi
  <2> QED
    BY <2>1, <2>3, <2>4, <2>5, <2>7 DEF Sending, Noted
<1> QED
  BY <1>1, <1>2

LEMMA CommandSends ==
    ASSUME Typed, Command
    PROVE  \E c : Sending(c)
<1>0. /\ ui.form \in Forms \cup {None} /\ IsUi(ui) /\ page.form \in Forms \cup {None}
      /\ {"create", "update", "publish", "delete"} \subseteq Ops /\ Nexts = Nexts \cup {"new", "newPublish", "save", "publish", "stay", "open"}
  BY DEF Typed, PageTyped, IsUi, IsPage, Ops, Nexts
<1>1. ASSUME NEW publish \in BOOLEAN, Persist(publish) PROVE \E c : Sending(c)
  <2> DEFINE new == IF publish THEN "newPublish" ELSE "new"
             old == IF publish THEN "publish" ELSE "save"
             c == IF ui.form # None THEN Call("update", ui.form, ui.qs, old) ELSE Call("create", None, ui.qs, new)
  <2>1. new \in {"new", "newPublish"} /\ new \in Nexts /\ old \in Nexts /\ old # "open"
    BY DEF Nexts
  <2> HIDE DEF new, old
  <2>2. IsCall(c)
    BY <1>0, <2>1, CallIsTyped
  <2>3. /\ Aimed(c) /\ c.st = "sent" /\ c.visit = visit
        /\ Creates(c) => ui.form = None /\ c.form = None
        /\ c.then # "open"
    BY <1>0, <2>1 DEF Call, Aimed, Creates
  <2>4. Editing /\ Send(c) /\ Noted(c) /\ UNCHANGED <<server, browser, ui, page, visit, born, misled>>
    BY <1>1 DEF Persist, local, new, old
  <2> QED
    BY <1>0, <2>2, <2>3, <2>4 DEF Sending
<1>2. CASE PublishFromDetail \/ \E f \in Forms : DeleteForm(f)
  <2>1. PICK op \in {"publish", "delete"}, f \in Forms \cup {None}, then \in {"stay", "save"} :
          Send(Call(op, f, <<>>, then)) /\ (op = "delete" => f # None)
    BY <1>0, <1>2, FormsAssumption DEF PublishFromDetail, DeleteForm
  <2> DEFINE c == Call(op, f, <<>>, then)
  <2>2. IsCall(c)
    BY <1>0, CallIsTyped
  <2>3. Aimed(c) /\ c.st = "sent" /\ ~Creates(c) /\ c.then # "open"
    BY <2>1 DEF Call, Creates, Aimed
  <2>4. UNCHANGED <<server, browser, misled, ui, page, visit, born, twice>>
    BY <1>2 DEF PublishFromDetail, DeleteForm, local, history
  <2> QED
    BY <1>0, <2>1, <2>2, <2>3, <2>4 DEF Sending, Noted
<1>3. ASSUME NEW f \in Forms, Duplicate(f) PROVE \E c : Sending(c)
  <2> DEFINE d == Call("create", None, row[f].qs, "open")
             c == [d EXCEPT !.visit = 0]
  <2>1. IsCall(d)
    BY <1>0, CallIsTyped
  <2>2. IsCall(c)
    BY <2>1, LimitsAssumption DEF IsCall
  <2>3. Aimed(c) /\ c.st = "sent" /\ ~Creates(c) /\ c.op = "create"
    BY DEF Call, Creates, Aimed
  <2>4. Send(c) /\ UNCHANGED <<server, browser, ui, page, visit, born, twice, misled>>
    BY <1>3 DEF Duplicate, local, history
  <2> QED
    BY <1>0, <2>2, <2>3, <2>4 DEF Sending, Noted
<1> QED
  BY <1>1, <1>2, <1>3 DEF Command

LEMMA SendingTyped ==
    ASSUME Typed, NEW c, Sending(c)
    PROVE  Typed'
<1>1. CallsTyped' /\ budget' \in Budget
  BY SendTyped DEF Sending
<1> QED
  BY <1>1 DEF Sending, Typed, PageTyped, RowsTyped, server, IsPage

LEMMA DeliverTyped ==
    ASSUME Typed, NEW s \in Slots, Deliver(s) \/ Read(s) \/ Delete(s) \/ LoseCall(s)
    PROVE  Typed'
<1>0. calls[s].form \in Forms \cup {None} /\ (calls[s].st = "ok" => calls[s].form \in Forms) /\ IsUi(ui)
  BY DEF Typed, CallsTyped, IsCall, Aimed, PageTyped
<1>1. RowsTyped'
  BY BudgetKept DEF Typed, RowsTyped, Deliver, Read, Delete, LoseCall, OnCreated, OnDuplicated, OnUpdated,
                    OnPublished, OnForm, OnDeleted, OnFailed, server, history, NoLaunch
<1>2. CallsTyped'
  BY Zenon, CallTyped DEF Deliver, OnCreated, OnDuplicated, OnUpdated,
                   OnPublished, OnForm, OnDeleted, OnFailed
<1>3. PageTyped'
  <2>1. CASE OnCreated(s)
    <3>1. IsUi([ui EXCEPT !.form = calls[s].form, !.panel = calls[s].form])
      BY <1>0 DEF IsUi
    <3>2. IsUi(Adopted(calls[s].form))
      BY <3>1, RenderedKeeps DEF Adopted
    <3> QED
      BY <2>1, <3>2 DEF OnCreated, Typed, PageTyped
  <2>2. CASE OnDuplicated(s)
    <3>1. calls[s].form \in Forms
      BY <1>0, <2>2 DEF OnDuplicated
    <3> QED
      BY <2>2, <3>1, EnterTyped DEF OnDuplicated
  <2>3. CASE OnPublished(s)
    <3>1. IsPage(At("detail", calls[s].form))
      BY <1>0, <2>3 DEF OnPublished, IsPage, At
    <3> QED
      BY <2>3, <3>1, NoUiTyped DEF OnPublished, Leave, local, Typed, PageTyped
  <2>4. CASE OnForm(s)
    <3> DEFINE c == calls[s]
               u == IF ~Alive(c) \/ c.op # "suggest" THEN ui
                    ELSE [ui EXCEPT !.panel = c.form, !.titled = @ \/ c.then = "new",
                                    !.form = IF c.then = "new" THEN c.form ELSE @]
    <3>1. IsUi(u)
      <4> DEFINE t == (ui.titled \/ c.then = "new")
                 f == IF c.then = "new" THEN c.form ELSE ui.form
      <4>1. t \in BOOLEAN /\ f \in Forms \cup {None}
        BY <1>0 DEF IsUi
      <4>2. u = ui \/ u = [ui EXCEPT !.panel = c.form, !.titled = t, !.form = f]
        BY Zenon
      <4> HIDE DEF t, f, u
      <4> QED
        BY <1>0, <4>1, <4>2 DEF IsUi
    <3>2. ui' = Rendered(u, cache') /\ UNCHANGED <<page, visit>>
      BY <2>4 DEF OnForm
    <3> HIDE DEF u
    <3> QED
      BY <3>1, <3>2, RenderedKeeps DEF Typed, PageTyped, IsPage
  <2>5. CASE UNCHANGED local
    BY <2>5 DEF local, Typed, PageTyped, IsUi, IsPage
  <2> QED
    BY <2>1, <2>2, <2>3, <2>4, <2>5 DEF Deliver, Read, Delete, LoseCall, OnUpdated, OnDeleted, OnFailed
<1> QED
  BY <1>1, <1>2, <1>3 DEF Typed

LEMMA TypedInit == Init => Typed
<1> SUFFICES ASSUME Init PROVE Typed
  OBVIOUS
<1>1. CallsTyped
  BY NoCallTyped DEF Init, CallsTyped
<1>2. PageTyped
  BY NoUiTyped, LimitsAssumption DEF Init, PageTyped, IsPage, At
<1>3. RowsTyped
  BY BoundsAssumption, LimitsAssumption DEF Init, RowsTyped, Budget
<1> QED
  BY <1>1, <1>2, <1>3 DEF Typed

LEMMA TypedNext ==
    ASSUME Typed, [Next]_vars
    PROVE  Typed'
<1>1. ASSUME NEW s \in Slots, Handle(s) \/ Deliver(s) \/ LoseCall(s) PROVE Typed'
  BY <1>1, InsertTyped, WriteTyped, DeliverTyped DEF Handle
<1>2. CASE \E t \in tasks : Work(t) \/ Bridge(t)
  BY <1>2, TaskStepTyped
<1>3. ASSUME NEW f \in Forms, Query(f) \/ Reap(f) PROVE Typed'
  BY <1>3, TaskStepTyped, StoreTyped DEF Query
<1>4. CASE Restart
  BY <1>4, TaskStepTyped
<1>5. CASE Navigate
  BY <1>5, NavigateTyped
<1>6. CASE Edit \/ \E i \in 1 .. MaxItems : Toggle(i)
  BY <1>6, EditKeeps
<1>7. CASE RunSuggest \/ SubmitAnswers \/ CancelJob \/ AddSelected
  BY <1>7, AskSends, SendingTyped
<1>8. CASE Command
  BY <1>8, CommandSends, SendingTyped
<1>9. CASE UNCHANGED vars
  BY <1>9 DEF vars, server, local, history, Typed, CallsTyped, PageTyped, RowsTyped, IsUi, IsPage
<1> QED
  BY <1>1, <1>2, <1>3, <1>4, <1>5, <1>6, <1>7, <1>8, <1>9 DEF Next, Ask

-----------------------------------------------------------------------------
(* One form per visit *)

\* The page leaves the editor, stays as it is, or knows its form.
PageFollows ==
    \/ /\ page' = page
       /\ ui'.form = ui.form \/ ui'.form # None
       /\ ui'.panel = ui.panel \/ ui'.panel # None
    \/ page'.at # "builder"
    \/ ui'.form # None /\ ui'.panel # None

\* The calls go on, and may end.
LEMMA CallsGoOn ==
    ASSUME Typed, VisitsInv, PageFollows, visit' = visit, born' = born, twice \subseteq twice',
           \A t \in Slots : /\ calls'[t].op = calls[t].op /\ calls'[t].then = calls[t].then
                            /\ calls'[t].visit = calls[t].visit,
           \A t \in Slots, v \in (1 .. MaxVisits) \ twice' :
               Maker(t, v) /\ Makes(calls[t], v) => Makes(calls'[t], v)
    PROVE  VisitsInv'
<1>1. \A t \in Slots, v \in 0 .. MaxVisits : Maker(t, v)' <=> Maker(t, v)
  BY DEF Maker, Creates
<1>2. Future'
  BY <1>1 DEF Future, VisitsInv, Typed, PageTyped
<1>3. ASSUME NEW v \in (1 .. MaxVisits) \ twice' PROVE Visit(v)'
  <2>1. Visit(v)
    BY DEF VisitsInv
  <2>2. OneMaker(v)' /\ AtMostOne(v)'
    BY <1>1, <2>1 DEF Visit, OneMaker, AtMostOne
  <2>3. Made(v)'
    BY <1>1, <2>1 DEF Visit, Made, Makes
  <2>4. Known(v)'
    BY <1>1, <2>1 DEF Visit, Known, PageFollows, Editing
  <2> QED
    BY <2>2, <2>3, <2>4 DEF Visit
<1> QED
  BY <1>2, <1>3 DEF VisitsInv

\* A call is over, or publishes what it has saved.
LEMMA CallIsOver ==
    ASSUME Typed, VisitsInv, PageFollows, visit' = visit, born' = born, twice' = twice,
           NEW s \in Slots, \A t \in Slots \ {s} : calls'[t] = calls[t], ~Creates(calls'[s]),
           Creates(calls[s]) /\ calls[s].st = "ok" /\ calls[s].visit = visit
               => page'.at # "builder" \/ (ui'.form # None /\ ui'.panel # None)
    PROVE  VisitsInv'
<1>1. \A t \in Slots, v \in 0 .. MaxVisits : Maker(t, v)' <=> Maker(t, v) /\ t # s
  BY DEF Maker
<1>2. Future'
  BY <1>1 DEF Future, VisitsInv, Typed, PageTyped
<1>3. ASSUME NEW v \in (1 .. MaxVisits) \ twice' PROVE Visit(v)'
  <2>1. Visit(v)
    BY DEF VisitsInv
  <2>2. OneMaker(v)' /\ AtMostOne(v)'
    BY <1>1, <2>1 DEF Visit, OneMaker, AtMostOne
  <2>3. Made(v)'
    BY <1>1, <2>1 DEF Visit, Made, Makes
  <2>4. Known(v)'
    <3>1. SUFFICES ASSUME page'.at = "builder", v = visit, born[v] # {}, \A t \in Slots : ~Maker(t, v)'
                   PROVE  ui'.form # None /\ ui'.panel # None
      BY DEF Known, Editing
    <3>2. CASE Maker(s, v)
      <4>1. calls[s].st = "ok"
        BY <2>1, <3>1, <3>2 DEF Visit, Made, Makes
      <4> QED
        BY <3>1, <3>2, <4>1 DEF Maker
    <3>3. CASE ~Maker(s, v)
      <4>1. \A t \in Slots : ~Maker(t, v)
        BY <1>1, <3>1, <3>3
      <4> QED
        BY <2>1, <3>1, <4>1 DEF Visit, Known, PageFollows, Editing
    <3> QED
      BY <3>2, <3>3
  <2> QED
    BY <2>2, <2>3, <2>4 DEF Visit
<1> QED
  BY <1>2, <1>3 DEF VisitsInv

\* The editor is opened.
LEMMA VisitBegins ==
    ASSUME Typed, VisitsInv, visit < MaxVisits, visit' = visit + 1, born' = born, twice' = twice,
           \A t \in Slots : calls'[t] = calls[t] \/ (~Creates(calls[t]) /\ ~Creates(calls'[t]))
    PROVE  VisitsInv'
<1>0. visit \in 0 .. MaxVisits /\ MaxVisits \in Nat
  BY LimitsAssumption DEF Typed, PageTyped
<1>1. \A t \in Slots, v \in 0 .. MaxVisits : Maker(t, v)' <=> Maker(t, v)
  BY DEF Maker
<1>2. Future'
  <2> SUFFICES ASSUME NEW v \in visit' + 1 .. MaxVisits
               PROVE  born'[v] = {} /\ \A t \in Slots : ~Maker(t, v)'
    BY DEF Future
  <2>1. v \in visit + 1 .. MaxVisits /\ v \in 0 .. MaxVisits
    BY <1>0
  <2> QED
    BY <1>1, <2>1 DEF Future, VisitsInv
<1>3. ASSUME NEW v \in (1 .. MaxVisits) \ twice' PROVE Visit(v)'
  <2>1. Visit(v)
    BY DEF VisitsInv
  <2>2. OneMaker(v)' /\ AtMostOne(v)'
    BY <1>1, <2>1 DEF Visit, OneMaker, AtMostOne
  <2>3. Made(v)'
    BY <1>1, <2>1 DEF Visit, Made, Makes, Maker
  <2>4. v = visit' => born'[v] = {}
    BY <1>0 DEF VisitsInv, Future
  <2>5. Known(v)'
    BY <2>4 DEF Known
  <2> QED
    BY <2>2, <2>3, <2>5 DEF Visit
<1> QED
  BY <1>2, <1>3 DEF VisitsInv

LEMMA InsertVisits ==
    ASSUME Typed, VisitsInv, NEW s \in Slots, NEW f \in Forms, Insert(s, f)
    PROVE  VisitsInv'
<1> DEFINE c == calls[s]
<1>1. PICK r : calls' = [calls EXCEPT ![s] = [c EXCEPT !.st = "ok", !.form = f, !.copy = r]]
  BY Zenon DEF Insert
<1>2. /\ IsCall(c) /\ c.st = "sent" /\ c.form = None /\ (Creates(c) \/ c.visit = 0)
      /\ born' = [born EXCEPT ![c.visit] = @ \cup {f}]
      /\ UNCHANGED <<page, ui, visit, twice>>
  BY DEF Insert, Typed, CallsTyped, Aimed, local
<1>3. /\ calls'[s] = [c EXCEPT !.st = "ok", !.form = f, !.copy = r]
      /\ \A t \in Slots \ {s} : calls'[t] = calls[t]
  BY <1>1 DEF Typed, CallsTyped
<1>4. calls'[s].st = "ok" /\ calls'[s].form = f /\ calls'[s].op = c.op /\ calls'[s].then = c.then
      /\ calls'[s].visit = c.visit
  BY <1>2, <1>3 DEF IsCall
<1>5. \A t \in Slots, v \in 0 .. MaxVisits : Maker(t, v)' <=> Maker(t, v)
  BY <1>3, <1>4 DEF Maker, Creates
<1>6. \A v \in 1 .. MaxVisits : born'[v] = born[v] \/ (Maker(s, v) /\ born'[v] = born[v] \cup {f})
  BY <1>2 DEF Typed, RowsTyped, Maker
<1>7. Future'
  <2> SUFFICES ASSUME NEW v \in visit + 1 .. MaxVisits
               PROVE  born'[v] = {} /\ \A t \in Slots : ~Maker(t, v)'
    BY <1>2 DEF Future
  <2>1. v \in 1 .. MaxVisits /\ v \in 0 .. MaxVisits
    BY LimitsAssumption DEF Typed, PageTyped
  <2> QED
    BY <1>5, <1>6, <2>1 DEF Future, VisitsInv
<1>8. ASSUME NEW v \in (1 .. MaxVisits) \ twice' PROVE Visit(v)'
  <2>1. Visit(v)
    BY <1>2 DEF VisitsInv
  <2>2. OneMaker(v)'
    BY <1>5, <2>1 DEF Visit, OneMaker
  <2>3. CASE Maker(s, v)
    <3>1. born'[v] = {f}
      <4>1. c.visit = v /\ born'[v] = born[v] \cup {f}
        BY <1>2, <2>3 DEF Typed, RowsTyped, Maker
      <4>2. born[v] = {}
        BY <1>2, <2>1, <2>3 DEF Visit, Made, Makes
      <4> QED
        BY <4>1, <4>2
    <3>2. \A t \in Slots : Maker(t, v)' => t = s
      BY <1>5, <2>1, <2>3 DEF Visit, OneMaker
    <3>3. Made(v)' /\ AtMostOne(v)'
      BY <1>4, <3>1, <3>2 DEF Made, Makes, AtMostOne
    <3>4. Known(v)'
      BY <1>5, <2>3 DEF Known
    <3> QED
      BY <2>2, <3>3, <3>4 DEF Visit
  <2>4. CASE ~Maker(s, v)
    <3>1. born'[v] = born[v]
      BY <1>6, <2>4
    <3>2. Made(v)' /\ AtMostOne(v)' /\ Known(v)'
      BY <1>2, <1>3, <1>5, <2>1, <2>4, <3>1 DEF Visit, Made, Makes, AtMostOne, Known, Editing
    <3> QED
      BY <2>2, <3>2 DEF Visit
  <2> QED
    BY <2>3, <2>4
<1> QED
  BY <1>7, <1>8 DEF VisitsInv

LEMMA SendingVisits ==
    ASSUME Typed, VisitsInv, NEW c, Sending(c)
    PROVE  VisitsInv'
<1>1. PICK s \in Slots : calls[s] = NoCall /\ calls' = [calls EXCEPT ![s] = c]
  BY DEF Sending, Send, Typed, RowsTyped, Budget
<1>2. calls'[s] = c /\ ~Creates(calls[s]) /\ \A t \in Slots \ {s} : calls'[t] = calls[t]
  BY <1>1, NoCallTyped DEF Typed, CallsTyped
<1>3. /\ \A t \in Slots, v \in 0 .. MaxVisits : Maker(t, v) => t # s /\ Maker(t, v)'
      /\ \A t \in Slots, v \in 0 .. MaxVisits : Maker(t, v)' => Maker(t, v) \/ (t = s /\ Creates(c) /\ v = visit)
  BY <1>2 DEF Maker, Sending
<1>4. /\ UNCHANGED <<page, visit, born>> /\ ui'.form = ui.form /\ ui'.panel = ui.panel
      /\ visit \in 0 .. MaxVisits
      /\ twice' = IF Creates(c) /\ Creating THEN twice \cup {visit} ELSE twice
  BY DEF Sending, Noted, Typed, PageTyped
<1>5. Future'
  <2> SUFFICES ASSUME NEW v \in visit + 1 .. MaxVisits
               PROVE  born'[v] = {} /\ \A t \in Slots : ~Maker(t, v)'
    BY <1>4 DEF Future
  <2>1. v \in 0 .. MaxVisits /\ v # visit
    BY <1>4, LimitsAssumption
  <2> QED
    BY <1>3, <1>4, <2>1 DEF Future, VisitsInv
<1>6. ASSUME NEW v \in (1 .. MaxVisits) \ twice' PROVE Visit(v)'
  <2>1. Visit(v)
    BY <1>4 DEF VisitsInv
  <2>2. CASE Creates(c) /\ v = visit
    <3>1. \A t \in Slots : ~Maker(t, v)
      BY <1>4, <2>2 DEF Creating, Maker
    <3>2. c.st = "sent" /\ c.form = None /\ born'[v] = {}
      BY <1>4, <2>1, <2>2, <3>1 DEF Sending, Visit, Known
    <3>3. \A t \in Slots : Maker(t, v)' => t = s
      BY <1>3, <3>1
    <3> QED
      BY <1>2, <3>2, <3>3 DEF Visit, OneMaker, Made, Makes, AtMostOne, Known
  <2>3. CASE ~(Creates(c) /\ v = visit)
    <3>1. \A t \in Slots : Maker(t, v)' <=> Maker(t, v) /\ t # s
      BY <1>3, <2>3
    <3>2. \A t \in Slots : Maker(t, v) => t # s
      BY <1>3
    <3> QED
      BY <1>2, <1>4, <2>1, <3>1, <3>2 DEF Visit, OneMaker, Made, Makes, AtMostOne, Known, Editing
  <2> QED
    BY <2>2, <2>3
<1> QED
  BY <1>5, <1>6 DEF VisitsInv

\* The handlers of the server, and what the network loses.
LEMMA HandlingVisits ==
    ASSUME Typed, VisitsInv,
           Restart \/ \E s \in Slots : Read(s) \/ Write(s) \/ Delete(s) \/ LoseCall(s)
    PROVE  VisitsInv'
<1>1. /\ PageFollows /\ visit' = visit /\ born' = born /\ twice \subseteq twice'
  BY DEF PageFollows, Read, Write, Delete, LoseCall, Restart, local, history
<1>2. CASE Restart
  <2>1. \A t \in Slots : /\ calls'[t].op = calls[t].op /\ calls'[t].then = calls[t].then
                         /\ calls'[t].visit = calls[t].visit /\ calls'[t].form = calls[t].form
                         /\ calls'[t].st = calls[t].st \/ (calls[t].st \in {"sent", "read"} /\ calls'[t].st = "failed")
    BY <1>2 DEF Typed, CallsTyped, IsCall, Restart
  <2>2. \A t \in Slots, v \in (1 .. MaxVisits) \ twice' : Maker(t, v) /\ Makes(calls[t], v) => Makes(calls'[t], v)
    BY <2>1 DEF Makes
  <2> QED
    BY <1>1, <2>1, <2>2, CallsGoOn
<1>3. ASSUME NEW s \in Slots, Read(s) \/ Write(s) \/ Delete(s) \/ LoseCall(s) PROVE VisitsInv'
  <2>1. PICK d : /\ calls' = [calls EXCEPT ![s] = d] /\ d.op = calls[s].op /\ d.then = calls[s].then
                 /\ d.visit = calls[s].visit /\ d.form = calls[s].form
                 /\ \A v \in (1 .. MaxVisits) \ twice' :
                       Creates(calls[s]) /\ calls[s].visit = v /\ Makes(calls[s], v) => Makes(d, v)
    <3> DEFINE c == calls[s]
    <3>0. IsCall(c)
      BY DEF Typed, CallsTyped
    <3>1. CASE Read(s) /\ Refuses(c, row[c.form])
      <4> DEFINE d == [c EXCEPT !.st = "failed"]
      <4>1. /\ d.op = c.op /\ d.then = c.then /\ d.visit = c.visit /\ d.form = c.form
        BY <3>0 DEF IsCall
      <4>2. calls' = [calls EXCEPT ![s] = d] /\ c.form # None /\ c.st = "sent"
        BY <3>1 DEF Read
      <4> QED
        BY <4>1, <4>2 DEF Makes
    <3>2. CASE Read(s) /\ ~Refuses(c, row[c.form])
      <4> DEFINE d == [c EXCEPT !.st = "read", !.copy = row[c.form]]
      <4>1. /\ d.op = c.op /\ d.then = c.then /\ d.visit = c.visit /\ d.form = c.form
        BY <3>0 DEF IsCall
      <4>2. calls' = [calls EXCEPT ![s] = d] /\ c.form # None /\ c.st = "sent"
        BY <3>2 DEF Read
      <4> QED
        BY <4>1, <4>2 DEF Makes
    <3>3. CASE Write(s)
      <4>1. PICK r : calls' = [calls EXCEPT ![s] = [c EXCEPT !.st = "ok", !.copy = r]]
        BY <3>3, Zenon DEF Write
      <4> DEFINE d == [c EXCEPT !.st = "ok", !.copy = r]
      <4>2. /\ d.op = c.op /\ d.then = c.then /\ d.visit = c.visit /\ d.form = c.form
        BY <3>0 DEF IsCall
      <4>3. c.st = "read"
        BY <3>3 DEF Write
      <4> QED
        BY <4>1, <4>2, <4>3 DEF Makes
    <3>4. CASE Delete(s)
      <4> DEFINE d == [c EXCEPT !.st = "ok"]
      <4>1. /\ d.op = c.op /\ d.then = c.then /\ d.visit = c.visit /\ d.form = c.form
        BY <3>0 DEF IsCall
      <4>2. calls' = [calls EXCEPT ![s] = d] /\ c.op = "delete"
        BY <3>4 DEF Delete
      <4> QED
        BY <4>1, <4>2 DEF Creates
    <3>5. CASE LoseCall(s)
      <4> DEFINE d == [c EXCEPT !.st = "failed"]
      <4>1. /\ d.op = c.op /\ d.then = c.then /\ d.visit = c.visit /\ d.form = c.form /\ d.st = "failed"
        BY <3>0 DEF IsCall
      <4>2. /\ calls' = [calls EXCEPT ![s] = d] /\ c.st \in {"sent", "ok"}
            /\ c.st = "ok" /\ Creates(c) => c.visit \in twice'
        BY <3>5 DEF LoseCall
      <4> QED
        BY <4>1, <4>2 DEF Makes
    <3> QED
      BY <1>3, <3>1, <3>2, <3>3, <3>4, <3>5
  <2>2. calls'[s] = d /\ \A t \in Slots \ {s} : calls'[t] = calls[t]
    BY <2>1 DEF Typed, CallsTyped
  <2>3. \A t \in Slots : /\ calls'[t].op = calls[t].op /\ calls'[t].then = calls[t].then
                         /\ calls'[t].visit = calls[t].visit
    BY <2>1, <2>2
  <2>4. \A t \in Slots, v \in (1 .. MaxVisits) \ twice' : Maker(t, v) /\ Makes(calls[t], v) => Makes(calls'[t], v)
    BY <2>1, <2>2 DEF Maker
  <2> QED
    BY <1>1, <2>3, <2>4, CallsGoOn
<1> QED
  BY <1>2, <1>3

\* A call that is answered is over, or goes on to publish.
LEMMA DeliverVisits ==
    ASSUME Typed, VisitsInv, NEW s \in Slots, Deliver(s)
    PROVE  VisitsInv'
<1> DEFINE c == calls[s]
<1>0. IsCall(c) /\ Aimed(c) /\ IsUi(ui)
  BY DEF Typed, CallsTyped, PageTyped
<1>1. /\ \A t \in Slots \ {s} : calls'[t] = calls[t]
      /\ ~Creates(calls'[s])
      /\ born' = born /\ twice' = twice
  <2>1. PICK d : calls' = [calls EXCEPT ![s] = d]
                 /\ (d = NoCall \/ d = [c EXCEPT !.op = "publish", !.then = "publish", !.st = "sent", !.copy = None])
    BY Zenon DEF Deliver, OnCreated, OnDuplicated, OnUpdated, OnPublished, OnForm, OnDeleted, OnFailed, Done, Then
  <2>2. ~Creates(d)
    BY <1>0, <2>1, NoCallTyped DEF IsCall, Creates
  <2> QED
    BY <2>1, <2>2 DEF Typed, CallsTyped, Deliver, OnCreated, OnDuplicated, OnUpdated, OnPublished,
                      OnForm, OnDeleted, OnFailed, history
<1>2. CASE OnCreated(s)
  <2>1. c.form # None /\ c.form \in Forms /\ visit' = visit /\ page' = page
    BY <1>0, <1>2 DEF OnCreated, Aimed, IsCall
  <2>2. CASE Alive(c)
    <3> DEFINE u == [ui EXCEPT !.form = c.form, !.panel = c.form]
    <3>1. IsUi(u) /\ u.form = c.form /\ u.panel = c.form
      BY <1>0, <2>1 DEF IsUi
    <3>2. ui'.form = c.form /\ ui'.panel = c.form
      <4>1. ui' = Rendered(u, cache)
        BY <1>2, <2>2 DEF OnCreated, Adopted
      <4> HIDE DEF u
      <4> QED
        BY <3>1, <4>1, RenderedKeeps
    <3> QED
      BY <1>1, <2>1, <3>2, CallIsOver DEF PageFollows
  <2>3. CASE ~Alive(c)
    <3>1. ui' = ui
      BY <1>2, <2>3 DEF OnCreated
    <3> QED
      BY <1>1, <2>1, <2>3, <3>1, CallIsOver DEF PageFollows, Alive, Editing
  <2> QED
    BY <2>2, <2>3
<1>3. CASE OnDuplicated(s)
  <2>1. ~Creates(c) /\ visit < MaxVisits /\ visit' = visit + 1
    BY <1>3 DEF OnDuplicated, Enter, Creates
  <2> QED
    BY <1>1, <2>1, VisitBegins
<1>4. CASE OnForm(s)
  <2> DEFINE u == IF ~Alive(c) \/ c.op # "suggest" THEN ui
                  ELSE [ui EXCEPT !.panel = c.form, !.titled = @ \/ c.then = "new",
                                  !.form = IF c.then = "new" THEN c.form ELSE @]
  <2>1. /\ c.form # None /\ c.form \in Forms /\ visit' = visit /\ page' = page
        /\ ui' = Rendered(u, cache')
    BY <1>0, <1>4 DEF OnForm, Aimed, IsCall
  <2>2. CASE Alive(c) /\ c.op = "suggest"
    <3> DEFINE t == (ui.titled \/ c.then = "new")
               f == IF c.then = "new" THEN c.form ELSE ui.form
    <3>1. t \in BOOLEAN /\ f \in Forms \cup {None}
      BY <1>0, <2>1 DEF IsUi
    <3>2. u = [ui EXCEPT !.panel = c.form, !.titled = t, !.form = f]
      BY <2>2, Zenon
    <3>3. (Creates(c) => f = c.form) /\ (f = c.form \/ f = ui.form)
      BY <1>0, <2>2 DEF Creates, Aimed
    <3> HIDE DEF t, f, u
    <3>4. IsUi(u) /\ u.form = f /\ u.panel = c.form
      BY <1>0, <2>1, <3>1, <3>2 DEF IsUi
    <3>5. ui'.form = f /\ ui'.panel = c.form
      BY <2>1, <3>4, RenderedKeeps
    <3>6. CASE f = c.form
      BY <1>1, <2>1, <3>5, <3>6, CallIsOver DEF PageFollows
    <3>7. CASE f # c.form
      <4>1. ui'.form = ui.form /\ ~Creates(c)
        BY <3>3, <3>5, <3>7
      <4> QED
        BY <1>1, <2>1, <3>5, <4>1, CallIsOver DEF PageFollows
    <3> QED
      BY <3>6, <3>7
  <2>3. CASE ~(Alive(c) /\ c.op = "suggest")
    <3>1. u = ui
      BY <2>3
    <3> HIDE DEF u
    <3>2. ui'.form = ui.form /\ ui'.panel = ui.panel
      BY <1>0, <2>1, <3>1, RenderedKeeps
    <3>3. Creates(c) => c.op = "suggest"
      BY <1>4 DEF OnForm, Creates
    <3> QED
      BY <1>1, <2>1, <2>3, <3>2, <3>3, CallIsOver DEF PageFollows, Alive, Editing
  <2> QED
    BY <2>2, <2>3
<1>5. CASE OnUpdated(s) \/ OnDeleted(s) \/ OnFailed(s)
  <2>1. (Creates(c) => c.st # "ok") /\ UNCHANGED <<page, ui, visit>>
    BY <1>5 DEF OnUpdated, OnDeleted, OnFailed, Creates, local
  <2> QED
    BY <1>1, <2>1, CallIsOver DEF PageFollows
<1>6. CASE OnPublished(s)
  <2>1. ~Creates(c) /\ visit' = visit /\ (page'.at # "builder" \/ UNCHANGED <<page, ui>>)
    BY <1>6 DEF OnPublished, Creates, local, Leave, At
  <2> QED
    BY <1>1, <2>1, CallIsOver DEF PageFollows
<1> QED
  BY <1>2, <1>3, <1>4, <1>5, <1>6 DEF Deliver

LEMMA VisitsInit == Init => VisitsInv
<1> SUFFICES ASSUME Init PROVE VisitsInv
  OBVIOUS
<1>1. \A s \in Slots, v \in 0 .. MaxVisits : ~Maker(s, v)
  BY NoCallTyped DEF Init, Maker
<1>2. \A v \in 1 .. MaxVisits : born[v] = {}
  BY DEF Init
<1> QED
  BY <1>1, <1>2, LimitsAssumption
     DEF VisitsInv, Future, Visit, OneMaker, Made, AtMostOne, Known, Init

LEMMA VisitsNext ==
    ASSUME Typed, VisitsInv, [Next]_vars
    PROVE  VisitsInv'
<1>1. ASSUME NEW s \in Slots, Handle(s) \/ Deliver(s) \/ LoseCall(s) PROVE VisitsInv'
  BY <1>1, InsertVisits, HandlingVisits, DeliverVisits DEF Handle
<1>2. ASSUME PageFollows, visit' = visit, born' = born, twice' = twice, calls' = calls PROVE VisitsInv'
  BY <1>2, CallsGoOn
<1>3. CASE \E t \in tasks : Work(t) \/ Bridge(t)
  BY <1>2, <1>3 DEF Work, Bridge, Dispatch, Settle, DispatchFails, LoseReport, Report, local, history, PageFollows
<1>4. ASSUME NEW f \in Forms, Query(f) \/ Reap(f) PROVE VisitsInv'
  <2>1. CASE Poll(f) \/ Serve(f) \/ Reap(f)
    BY <1>2, <2>1 DEF Poll, Serve, Reap, local, history, PageFollows
  <2>2. CASE Store(f) \/ LoadFails(f)
    <3>1. \/ page' = page /\ (ui' = ui \/ ui' = Rendered(ui, cache'))
          \/ \E r : ui' = Mounted(f, r)
      BY <2>2, Zenon DEF Store, LoadFails, WithoutData
    <3>2. PageFollows
      BY <3>1, MountedTyped, RenderedKeeps, FormsAssumption DEF PageFollows, Typed, PageTyped
    <3> QED
      BY <1>2, <2>2, <3>2 DEF Store, LoadFails, history
  <2> QED
    BY <1>4, <2>1, <2>2 DEF Query
<1>5. CASE Restart
  BY <1>5, HandlingVisits
<1>6. CASE Navigate
  <2>1. CASE OpenList \/ \E f \in Forms : OpenDetail(f)
    BY <1>2, <2>1 DEF OpenList, OpenDetail, Leave, At, history, PageFollows
  <2>2. CASE OpenNew \/ \E f \in Forms : OpenBuilder(f)
    BY <2>2, VisitBegins DEF OpenNew, OpenBuilder, Enter, history
  <2> QED
    BY <1>6, <2>1, <2>2 DEF Navigate
<1>7. CASE Edit \/ \E i \in 1 .. MaxItems : Toggle(i)
  BY <1>2, <1>7, EditKeeps DEF PageFollows, history
<1>8. CASE RunSuggest \/ SubmitAnswers \/ CancelJob \/ AddSelected
  BY <1>8, AskSends, SendingVisits
<1>9. CASE Command
  BY <1>9, CommandSends, SendingVisits
<1>10. CASE UNCHANGED vars
  BY <1>2, <1>10 DEF vars, local, history, PageFollows
<1> QED
  BY <1>1, <1>3, <1>4, <1>5, <1>6, <1>7, <1>8, <1>9, <1>10 DEF Next, Ask

\* A visit to the builder makes at most one form (FeedbackFormBuilder), unless
\* a creation is sent before the last is known to have succeeded.
THEOREM VisitsMakeOneForm == Spec => []OneFormPerVisit
<1>1. Init => Typed /\ VisitsInv
  BY TypedInit, VisitsInit
<1>2. Typed /\ VisitsInv /\ [Next]_vars => (Typed /\ VisitsInv)'
  BY TypedNext, VisitsNext
<1>3. VisitsInv => OneFormPerVisit
  <2> SUFFICES ASSUME VisitsInv, NEW v \in (1 .. MaxVisits) \ twice PROVE Cardinality(born[v]) <= 1
    BY DEF OneFormPerVisit
  <2>1. AtMostOne(v)
    BY DEF VisitsInv, Visit
  <2>2. \A f \in Forms : Cardinality({f}) = 1
    BY FS_Singleton
  <2>3. Cardinality({}) = 0
    BY FS_EmptySet
  <2> QED
    BY <2>1, <2>2, <2>3 DEF AtMostOne
<1> QED
  BY <1>1, <1>2, <1>3, PTL DEF Spec

-----------------------------------------------------------------------------
(* Results *)

\* A row as each handler saves it, which is what the properties of rows rest on.
LEMMA NewJobTyped ==
    ASSUME NEW k \in 0 .. MaxAsks, NEW vague \in BOOLEAN
    PROVE  NewJob(k, vague) \in Job /\ NewJob(k, vague).ask = k /\ NewJob(k, vague).by = 0
BY LimitsAssumption DEF NewJob, Job, Sizes

LEMMA OutcomeTyped == \A out \in Outcomes : out[2] \in Sizes
BY DEF Outcomes, Clarify, Failure, Sizes

LEMMA FailedSound ==
    ASSUME NEW r, Sound(r)
    PROVE  /\ Sound(Failed(r)) /\ Failed(r).st = "draft" /\ Failed(r).job \in Job
           /\ Failed(r).job.ask = IF r.job = None THEN 0 ELSE r.job.ask
<1> DEFINE old == IF r.job = None THEN NewJob(0, FALSE) ELSE r.job
           job == [old EXCEPT !.err = TRUE, !.clarify = FALSE, !.pending = 0]
<1>1. old \in Job /\ old.by \in {0, old.ask} /\ old.ask = IF r.job = None THEN 0 ELSE r.job.ask
  <2>1. NewJob(0, FALSE) \in Job /\ NewJob(0, FALSE).ask = 0 /\ NewJob(0, FALSE).by = 0
    <3>1. 0 \in 0 .. MaxAsks
      BY LimitsAssumption
    <3> QED
      BY <3>1, NewJobTyped, Zenon
  <2>2. r.job # None => r.job \in Job /\ r.job.by \in {0, r.job.ask}
    BY DEF Sound, IsRow
  <2> QED
    BY <2>1, <2>2
<1> HIDE DEF old
<1>2. job \in Job /\ job.by = old.by /\ job.ask = old.ask
  BY <1>1 DEF Job, Sizes
<1>3. Failed(r) = [r EXCEPT !.st = "draft", !.job = job]
  BY DEF Failed, old
<1> HIDE DEF job
<1> QED
  BY <1>1, <1>2, <1>3 DEF Sound, IsRow, Status

\* A report for the request a row waits for keeps the row sound.
LEMMA CompletedSound ==
    ASSUME NEW r, Sound(r), r.st = "processing_ai", NEW out \in Outcomes
    PROVE  Sound(Completed(r, r.job.ask, out)) /\ Completed(r, r.job.ask, out).st # "processing_ai"
<1> DEFINE k == r.job.ask
<1>1. r.job \in Job /\ r.job # None /\ k \in 0 .. MaxAsks
  BY DEF Sound, IsRow, Job
<1>2. CASE out = Failure
  <2>1. Completed(r, k, out) = [Failed(r) EXCEPT !.job.by = k]
    BY <1>2 DEF Completed
  <2> DEFINE job == [Failed(r).job EXCEPT !.by = k]
  <2>2. Sound(Failed(r)) /\ Failed(r).st = "draft" /\ Failed(r).job \in Job /\ Failed(r).job.ask = k
    BY <1>1, FailedSound
  <2>3. job \in Job /\ job.by = k /\ job.ask = k
    BY <1>1, <2>2 DEF Job
  <2>4. Completed(r, k, out) = [Failed(r) EXCEPT !.job = job]
    BY <2>1
  <2> HIDE DEF job
  <2> QED
    BY <2>2, <2>3, <2>4 DEF Sound, IsRow, Status
<1>3. CASE out # Failure
  <2> DEFINE st == IF out = Clarify THEN "need_clarification" ELSE "draft"
             asksBack == (out = Clarify)
             job == [r.job EXCEPT !.by = k, !.err = FALSE, !.clarify = asksBack, !.pending = out[2]]
  <2>1. Completed(r, k, out) = [r EXCEPT !.st = st, !.job = job]
    BY <1>1, <1>3 DEF Completed
  <2>2. asksBack \in BOOLEAN
    OBVIOUS
  <2>3. st \in Status /\ st # "processing_ai"
    BY DEF Status
  <2> HIDE DEF asksBack, st
  <2>4. job \in Job /\ job.by = k /\ job.ask = k
    BY <1>1, <2>2, OutcomeTyped DEF Job
  <2> HIDE DEF job
  <2> QED
    BY <2>1, <2>3, <2>4 DEF Sound, IsRow
<1> QED
  BY <1>2, <1>3

\* What the handlers save, of a sound row.
LEMMA SavedSound ==
    ASSUME NEW r, Sound(r), NEW qs
    PROVE  /\ Sound(Updated(r, qs)) /\ Updated(r, qs).job = r.job
           /\ Updated(r, qs).st = "processing_ai" => r.st = "processing_ai"
           /\ Sound([r EXCEPT !.st = "published"]) /\ [r EXCEPT !.st = "published"].st # "processing_ai"
           /\ Sound(Cleared(r)) /\ Cleared(r).st # "processing_ai"
<1>1. IsRow(r)
  BY DEF Sound
<1>2. Sound(Updated(r, qs)) /\ Updated(r, qs).job = r.job
      /\ (Updated(r, qs).st = "processing_ai" => r.st = "processing_ai")
  BY <1>1 DEF Updated, Sound, IsRow, Status, Busy
<1>3. Sound([r EXCEPT !.st = "published"]) /\ [r EXCEPT !.st = "published"].st # "processing_ai"
  BY <1>1 DEF Sound, IsRow, Status
<1>4. Sound(Cleared(r)) /\ Cleared(r).st # "processing_ai"
  BY <1>1 DEF Sound, IsRow, Status, Cleared, Busy
<1> QED
  BY <1>2, <1>3, <1>4

LEMMA SuggestedSound ==
    ASSUME NEW r, IsRow(r), NEW k \in 0 .. MaxAsks, NEW vague \in BOOLEAN
    PROVE  /\ Sound(Suggested(r, k, vague)) /\ Suggested(r, k, vague).job.ask = k
           /\ vague => Suggested(r, k, vague).st # "processing_ai"
<1>1. NewJob(k, vague) \in Job /\ NewJob(k, vague).ask = k /\ NewJob(k, vague).by = 0
      /\ NewJob(k, vague) # None
  BY NewJobTyped, JobAssumption
<1> QED
  BY <1>1 DEF Suggested, Sound, IsRow, Status

LEMMA ClarifiedSound ==
    ASSUME NEW r, Sound(r), r.job # None, NEW k \in 0 .. MaxAsks
    PROVE  Sound(Clarified(r, k)) /\ Clarified(r, k).job.ask = k
<1> DEFINE job == [r.job EXCEPT !.ask = k, !.by = 0, !.clarify = FALSE, !.err = FALSE]
<1>1. job \in Job /\ job.ask = k /\ job.by = 0 /\ job # None
  <2>1. r.job \in Job
    BY DEF Sound, IsRow
  <2>2. job \in Job /\ job.ask = k /\ job.by = 0
    <3>1. 0 \in 0 .. MaxAsks
      BY LimitsAssumption
    <3> QED
      BY <2>1, <3>1 DEF Job
  <2> QED
    BY <2>2, JobAssumption
<1>2. Clarified(r, k) = [r EXCEPT !.st = "processing_ai", !.job = job]
  BY DEF Clarified, Sound, IsRow
<1> HIDE DEF job
<1> QED
  BY <1>1, <1>2 DEF Sound, IsRow, Status

\* The rows stay as they are, and no run is new but one of the reaper.
LEMMA RunsGoOn ==
    ASSUME ResultsInv, row' = row, mixed' = mixed, born' = born,
           \A s \in Slots : Carries(calls'[s]),
           \A u \in tasks' : /\ IsTask(u)
                             /\ \/ \E t \in tasks : t.form = u.form /\ t.ask = u.ask
                                \/ u.form \in Forms /\ row[u.form] # None /\ u.ask = 0
    PROVE  ResultsInv'
<1>1. ASSUME NEW f \in Forms \ mixed PROVE RowHolds(f)' /\ RunHolds(f)'
  <2>1. RowHolds(f) /\ RunHolds(f)
    BY DEF ResultsInv
  <2>2. RowHolds(f)'
    BY <2>1 DEF RowHolds, Born
  <2>3. RunHolds(f)'
    BY <2>1 DEF RunHolds, RowHolds, Born, Running
  <2> QED
    BY <2>2, <2>3
<1> QED
  BY <1>1 DEF ResultsInv

\* The tasks of the bridge go on.
LEMMA TasksResults ==
    ASSUME Typed, ResultsInv, NEW t \in tasks, Dispatch(t) \/ Bridge(t)
    PROVE  ResultsInv'
<1>0. /\ IsTask(t) /\ UNCHANGED <<row, mixed, born>> /\ \A s \in Slots : Carries(calls'[s])
  BY DEF ResultsInv, Dispatch, Bridge, DispatchFails, LoseReport, Report, history
<1>1. ASSUME NEW st \in {"running", "failing", "reporting"}, NEW copy, NEW out \in Outcomes \cup {None},
             t.st # "reaping",
             st = "failing" => copy # None,
             st = "reporting" => copy # None /\ copy.st = "processing_ai" /\ out \in Outcomes
      PROVE  LET u == Task(t.form, t.ask, st, copy, out)
             IN  IsTask(u) /\ u.form = t.form /\ u.ask = t.ask
  BY <1>0, <1>1 DEF IsTask, Task
<1>2. ASSUME NEW u \in tasks', u \notin tasks PROVE IsTask(u) /\ u.form = t.form /\ u.ask = t.ask
  <2>0. t.st \in {"new", "running"}
    BY DEF Dispatch, Bridge, DispatchFails, LoseReport, Report
  <2>1. CASE u = Task(t.form, t.ask, "running", None, None)
    BY <1>1, <2>0, <2>1
  <2>2. CASE Running(t.form) /\ u = Task(t.form, t.ask, "failing", row[t.form], Failure)
    <3>1. row[t.form] # None /\ Failure \in Outcomes
      BY <2>2 DEF Running, Outcomes
    <3> QED
      BY <1>1, <2>0, <2>2, <3>1
  <2>3. ASSUME NEW out \in Outcomes, Running(t.form), u = Task(t.form, t.ask, "reporting", row[t.form], out)
        PROVE  IsTask(u) /\ u.form = t.form /\ u.ask = t.ask
    <3>1. row[t.form] # None /\ row[t.form].st = "processing_ai"
      BY <2>3 DEF Running
    <3> QED
      BY <1>1, <2>0, <2>3, <3>1
  <2>4. \/ u = Task(t.form, t.ask, "running", None, None)
        \/ Running(t.form) /\ u = Task(t.form, t.ask, "failing", row[t.form], Failure)
        \/ \E out \in Outcomes : Running(t.form) /\ u = Task(t.form, t.ask, "reporting", row[t.form], out)
    BY <1>2 DEF Dispatch, Bridge, DispatchFails, LoseReport, Report, Becomes, Accepts
  <2> QED
    BY <2>1, <2>2, <2>3, <2>4
<1>3. \A u \in tasks' : IsTask(u) /\ \E x \in tasks : x.form = u.form /\ x.ask = u.ask
  BY <1>2 DEF ResultsInv
<1> QED
  BY <1>0, <1>3, RunsGoOn

LEMMA ReapResults ==
    ASSUME Typed, ResultsInv, NEW f \in Forms, Reap(f)
    PROVE  ResultsInv'
<1> DEFINE u == Task(f, 0, "reaping", row[f], Failure)
<1>1. tasks' = tasks \cup {u} /\ UNCHANGED <<row, mixed, born, calls>> /\ row[f] # None
  BY DEF Reap, Running, history
<1>2. IsTask(u) /\ u.form = f /\ u.ask = 0
  BY <1>1, LimitsAssumption DEF IsTask, Task, Outcomes
<1> HIDE DEF u
<1>3. \A s \in Slots : Carries(calls'[s])
  BY <1>1 DEF ResultsInv
<1>4. \A x \in tasks' : /\ IsTask(x)
                        /\ \/ \E t \in tasks : t.form = x.form /\ t.ask = x.ask
                           \/ x.form \in Forms /\ row[x.form] # None /\ x.ask = 0
  BY <1>1, <1>2 DEF ResultsInv
<1> QED
  BY <1>1, <1>3, <1>4, RunsGoOn

\* The calls come and go; what a handler carries is what it has read.
LEMMA CallsResults ==
    ASSUME Typed, ResultsInv, UNCHANGED <<row, tasks, mixed, born>>,
           NEW s \in Slots, NEW c, calls' = [calls EXCEPT ![s] = c], Carries(c)
    PROVE  ResultsInv'
<1>1. \A t \in Slots : Carries(calls'[t])
  BY DEF ResultsInv, Typed, CallsTyped
<1> QED
  BY <1>1, RunsGoOn DEF ResultsInv

LEMMA DeliverResults ==
    ASSUME Typed, ResultsInv, NEW s \in Slots, Deliver(s) \/ Read(s) \/ LoseCall(s)
    PROVE  ResultsInv'
<1>1. UNCHANGED <<row, tasks, mixed, born>>
  BY DEF Deliver, Read, LoseCall, OnCreated, OnDuplicated, OnUpdated, OnPublished, OnForm, OnDeleted,
         OnFailed, server, history
<1>2. IsCall(calls[s])
  BY DEF Typed, CallsTyped
<1>3. CASE Deliver(s)
  <2>1. PICK d : calls' = [calls EXCEPT ![s] = d]
                 /\ (d = NoCall \/ d = [calls[s] EXCEPT !.op = "publish", !.then = "publish", !.st = "sent",
                                                        !.copy = None])
    BY <1>3, Zenon DEF Deliver, OnCreated, OnDuplicated, OnUpdated, OnPublished, OnForm, OnDeleted, OnFailed,
                       Done, Then
  <2>2. Carries(d)
    BY <1>2, <2>1, NoCallTyped DEF IsCall, Carries
  <2> QED
    BY <1>1, <2>1, <2>2, CallsResults
<1>4. CASE LoseCall(s)
  <2>1. Carries([calls[s] EXCEPT !.st = "failed"])
    BY <1>2 DEF IsCall, Carries
  <2> QED
    BY <1>1, <1>4, <2>1, CallsResults DEF LoseCall
<1>5. CASE Read(s) /\ Refuses(calls[s], row[calls[s].form])
  <2>1. Carries([calls[s] EXCEPT !.st = "failed"])
    BY <1>2 DEF IsCall, Carries
  <2> QED
    BY <1>1, <1>5, <2>1, CallsResults DEF Read
<1>6. CASE Read(s) /\ ~Refuses(calls[s], row[calls[s].form])
  <2> DEFINE d == [calls[s] EXCEPT !.st = "read", !.copy = row[calls[s].form]]
  <2>1. Carries(d)
    BY <1>2, <1>6 DEF IsCall, Carries, Refuses
  <2>2. calls' = [calls EXCEPT ![s] = d]
    BY <1>6 DEF Read
  <2> QED
    BY <1>1, <2>1, <2>2, CallsResults
<1> QED
  BY <1>3, <1>4, <1>5, <1>6

\* The row of one form is written.
LEMMA RowWritten ==
    ASSUME Typed, ResultsInv, NEW f \in Forms, NEW r, row' = [row EXCEPT ![f] = r],
           mixed \subseteq mixed', Born \subseteq Born',
           \A s \in Slots : Carries(calls'[s]),
           \A u \in tasks' : /\ IsTask(u)
                             /\ \/ \E t \in tasks : t.form = u.form /\ t.ask = u.ask
                                \/ u.form = f /\ f \in mixed' \cup Born',
           f \notin mixed' =>
               \/ r = None
               \/ /\ f \in Born' /\ Sound(r)
                  /\ \A u \in tasks' : u.form = f /\ u.ask # 0 /\ r.st = "processing_ai" => u.ask = r.job.ask
    PROVE  ResultsInv'
<1>1. ASSUME NEW g \in Forms \ mixed' PROVE RowHolds(g)' /\ RunHolds(g)'
  <2>1. RowHolds(g) /\ RunHolds(g)
    BY DEF ResultsInv
  <2>2. row'[g] = IF g = f THEN r ELSE row[g]
    BY DEF Typed, RowsTyped
  <2>3. RowHolds(g)'
    BY <2>1, <2>2 DEF RowHolds
  <2>4. RunHolds(g)'
    <3> SUFFICES ASSUME NEW u \in tasks', u.form = g
                 PROVE  g \in Born' /\ (u.ask # 0 /\ Running(g)' => u.ask = row'[g].job.ask)
      BY DEF RunHolds
    <3>1. g \in Born'
      BY <2>1 DEF RunHolds
    <3>2. CASE g = f
      BY <2>2, <3>1, <3>2 DEF Running
    <3>3. CASE g # f
      <4>1. PICK t \in tasks : t.form = g /\ t.ask = u.ask
        BY <3>3
      <4> QED
        BY <2>1, <2>2, <3>1, <3>3, <4>1 DEF RunHolds, Running
    <3> QED
      BY <3>2, <3>3
  <2> QED
    BY <2>3, <2>4
<1> QED
  BY <1>1 DEF ResultsInv

\* One call is answered.
LEMMA AnsweredCarries ==
    ASSUME Typed, ResultsInv, NEW s \in Slots, NEW d, calls' = [calls EXCEPT ![s] = d], d.st = "ok"
    PROVE  \A t \in Slots : Carries(calls'[t])
BY DEF Typed, CallsTyped, ResultsInv, Carries

\* A run is handed over for form f.
LEMMA LaunchedTasks ==
    ASSUME Typed, ResultsInv, NEW f, Launch(f)
    PROVE  \A u \in tasks' : IsTask(u) /\ (u \in tasks \/ (u.form = f /\ u.ask = asks + 1))
<1>1. asks + 1 \in 1 .. MaxAsks
  BY LaunchKept DEF Typed, RowsTyped
<1>2. IsTask(Task(f, asks + 1, "new", None, None))
  BY <1>1 DEF IsTask, Task
<1>3. tasks' = tasks \cup {Task(f, asks + 1, "new", None, None)}
  BY DEF Launch
<1> QED
  BY <1>2, <1>3 DEF ResultsInv, Task

LEMMA InsertResults ==
    ASSUME Typed, ResultsInv, NEW s \in Slots, NEW f \in Forms, Insert(s, f)
    PROVE  ResultsInv'
<1> DEFINE c == calls[s]
           empty == [st |-> "draft", qs |-> c.qs, job |-> None]
<1>1. PICK r : /\ row' = [row EXCEPT ![f] = r]
               /\ calls' = [calls EXCEPT ![s] = [c EXCEPT !.st = "ok", !.form = f, !.copy = r]]
               /\ \/ r = empty /\ NoLaunch
                  \/ r = Suggested(empty, 0, TRUE) /\ NoLaunch
                  \/ r = Suggested(empty, asks + 1, FALSE) /\ Launch(f)
  BY Zenon DEF Insert
<1>2. IsCall(c) /\ mixed' = mixed /\ Fresh(f) /\ born' = [born EXCEPT ![c.visit] = @ \cup {f}]
  BY DEF Insert, Typed, CallsTyped
<1>3. Born \subseteq Born' /\ f \in Born'
  <2>1. c.visit \in 0 .. MaxVisits
    BY <1>2 DEF IsCall
  <2>2. \A v \in 0 .. MaxVisits : born[v] \subseteq born'[v]
    BY <1>2 DEF Typed, RowsTyped
  <2>3. f \in born'[c.visit]
    BY <1>2, <2>1 DEF Typed, RowsTyped
  <2> QED
    BY <2>1, <2>2, <2>3 DEF Born
<1>4. f \notin mixed => \A t \in tasks : t.form # f
  BY <1>2 DEF ResultsInv, RunHolds, Born, Fresh
<1>5. \A t \in Slots : Carries(calls'[t])
  BY <1>1, <1>2, AnsweredCarries DEF IsCall
<1>6. IsRow(empty) /\ Sound(empty)
  BY DEF IsRow, Sound, Status
<1> HIDE DEF empty
<1>7. CASE NoLaunch
  <2>1. Sound(r)
    <3>1. 0 \in 0 .. MaxAsks /\ TRUE \in BOOLEAN /\ FALSE \in BOOLEAN /\ asks \in 0 .. MaxAsks
      BY LimitsAssumption DEF Typed, RowsTyped
    <3>2. Sound(Suggested(empty, 0, TRUE))
      BY <1>6, <3>1, SuggestedSound, Zenon
    <3>3. ~Launch(f)
      BY <1>7, <3>1 DEF NoLaunch, Launch
    <3> QED
      BY <1>1, <1>6, <3>2, <3>3
  <2>2. tasks' = tasks
    BY <1>7 DEF NoLaunch
  <2>3. \A u \in tasks' : IsTask(u)
    BY <2>2 DEF ResultsInv
  <2> QED
    BY <1>1, <1>2, <1>3, <1>4, <1>5, <2>1, <2>2, <2>3, RowWritten
<1>8. CASE Launch(f)
  <2>1. asks + 1 \in 0 .. MaxAsks /\ asks' # asks /\ FALSE \in BOOLEAN
    BY <1>8, LaunchKept DEF Typed, RowsTyped
  <2>2. r = Suggested(empty, asks + 1, FALSE)
    BY <1>1, <2>1 DEF NoLaunch
  <2>3. Sound(r) /\ r.job.ask = asks + 1
    BY <1>6, <2>1, <2>2, SuggestedSound, Zenon
  <2>4. \A u \in tasks' : IsTask(u) /\ (u \in tasks \/ (u.form = f /\ u.ask = asks + 1))
    BY <1>8, LaunchedTasks
  <2> QED
    BY <1>1, <1>2, <1>3, <1>4, <1>5, <2>3, <2>4, RowWritten
<1> QED
  BY <1>1, <1>7, <1>8

LEMMA WriteResults ==
    ASSUME Typed, ResultsInv, NEW s \in Slots, Write(s)
    PROVE  ResultsInv'
<1> DEFINE c == calls[s]
           f == c.form
<1>1. PICK r : /\ row' = [row EXCEPT ![f] = r]
               /\ calls' = [calls EXCEPT ![s] = [c EXCEPT !.st = "ok", !.copy = r]]
               /\ \/ NoLaunch /\ (\/ r = Updated(c.copy, c.qs)
                                  \/ r = [c.copy EXCEPT !.st = "published"]
                                  \/ r = Cleared(c.copy)
                                  \/ r = Suggested(c.copy, 0, TRUE))
                  \/ Launch(f) /\ (\/ r = Suggested(c.copy, asks + 1, FALSE)
                                   \/ c.op = "clarify" /\ r = Clarified(c.copy, asks + 1))
  BY Zenon DEF Write
<1>2. /\ IsCall(c) /\ c.st = "read" /\ f \in Forms /\ Carries(c) /\ UNCHANGED born
      /\ mixed' = mixed \cup Outdated(f, c.copy) \cup (IF asks' = asks THEN {} ELSE Underway(f))
  BY DEF Write, Typed, CallsTyped, IsCall, Aimed, ResultsInv, history
<1>3. \A t \in Slots : Carries(calls'[t])
  BY <1>1, <1>2, AnsweredCarries DEF IsCall
<1>4. mixed \subseteq mixed' /\ Born \subseteq Born'
  BY <1>2 DEF Born
<1>5. f \notin mixed' => /\ row[f] = c.copy /\ row[f] # None /\ RowHolds(f) /\ RunHolds(f)
                         /\ f \in Born' /\ Sound(c.copy)
  BY <1>2 DEF Outdated, Carries, ResultsInv, RowHolds, Born
<1>6. CASE NoLaunch
  <2>1. tasks' = tasks /\ \A u \in tasks' : IsTask(u)
    BY <1>6 DEF NoLaunch, ResultsInv
  <2>2. ~Launch(f)
    BY <1>6 DEF NoLaunch, Launch, Typed, RowsTyped
  <2>3. f \notin mixed' => /\ Sound(r)
                           /\ r.st = "processing_ai" => c.copy.st = "processing_ai" /\ r.job = c.copy.job
    <3> SUFFICES ASSUME Sound(c.copy)
                 PROVE  /\ Sound(r)
                        /\ r.st = "processing_ai" => c.copy.st = "processing_ai" /\ r.job = c.copy.job
      BY <1>5
    <3>1. 0 \in 0 .. MaxAsks /\ TRUE \in BOOLEAN /\ IsRow(c.copy)
      BY LimitsAssumption DEF Sound
    <3>2. Sound(Suggested(c.copy, 0, TRUE)) /\ Suggested(c.copy, 0, TRUE).st # "processing_ai"
      BY <3>1, SuggestedSound, Zenon
    <3>3. /\ Sound(Updated(c.copy, c.qs)) /\ Updated(c.copy, c.qs).job = c.copy.job
          /\ Updated(c.copy, c.qs).st = "processing_ai" => c.copy.st = "processing_ai"
          /\ Sound([c.copy EXCEPT !.st = "published"])
          /\ [c.copy EXCEPT !.st = "published"].st # "processing_ai"
          /\ Sound(Cleared(c.copy)) /\ Cleared(c.copy).st # "processing_ai"
      BY SavedSound, Zenon
    <3>4. CASE r = Updated(c.copy, c.qs)
      BY <3>3, <3>4, Zenon
    <3>5. CASE r # Updated(c.copy, c.qs)
      BY <1>1, <2>2, <3>2, <3>3, <3>5, Zenon
    <3> QED
      BY <3>4, <3>5
  <2>4. f \notin mixed' => \A u \in tasks' : u.form = f /\ u.ask # 0 /\ r.st = "processing_ai" => u.ask = r.job.ask
    BY <1>5, <2>1, <2>3 DEF RunHolds, Running
  <2> QED
    BY <1>1, <1>2, <1>3, <1>4, <1>5, <2>1, <2>3, <2>4, RowWritten
<1>7. CASE Launch(f)
  <2>1. asks + 1 \in 0 .. MaxAsks /\ asks' # asks /\ FALSE \in BOOLEAN
    BY <1>7, LaunchKept DEF Typed, RowsTyped
  <2>2. \/ r = Suggested(c.copy, asks + 1, FALSE)
        \/ c.op = "clarify" /\ r = Clarified(c.copy, asks + 1)
    BY <1>1, <2>1 DEF NoLaunch
  <2>3. f \notin mixed' => Sound(r) /\ r.job.ask = asks + 1
    <3> SUFFICES ASSUME Sound(c.copy) PROVE Sound(r) /\ r.job.ask = asks + 1
      BY <1>5
    <3>1. Sound(Suggested(c.copy, asks + 1, FALSE)) /\ Suggested(c.copy, asks + 1, FALSE).job.ask = asks + 1
      BY <2>1, SuggestedSound, Zenon DEF Sound
    <3>2. c.op = "clarify" => Sound(Clarified(c.copy, asks + 1)) /\ Clarified(c.copy, asks + 1).job.ask = asks + 1
      BY <1>2, <2>1, ClarifiedSound DEF Carries
    <3> QED
      BY <2>2, <3>1, <3>2
  <2>4. \A u \in tasks' : IsTask(u) /\ (u \in tasks \/ (u.form = f /\ u.ask = asks + 1))
    BY <1>7, LaunchedTasks
  <2>5. f \notin mixed' => \A t \in tasks : ~(t.form = f /\ t.ask # 0)
    BY <1>2, <2>1 DEF Underway
  <2>6. f \notin mixed' => \A u \in tasks' : u.form = f /\ u.ask # 0 => u.ask = r.job.ask
    BY <2>3, <2>4, <2>5
  <2>7. \A u \in tasks' : (\E t \in tasks : t.form = u.form /\ t.ask = u.ask) \/ u.form = f
    BY <2>4
  <2> QED
    BY <1>1, <1>2, <1>3, <1>4, <1>5, <2>3, <2>4, <2>6, <2>7, RowWritten
<1> QED
  BY <1>1, <1>6, <1>7

LEMMA SettleResults ==
    ASSUME Typed, ResultsInv, NEW t \in tasks, Settle(t)
    PROVE  ResultsInv'
<1> DEFINE f == t.form
           r == IF t.st = "reporting" THEN Completed(t.copy, t.ask, t.out) ELSE Failed(t.copy)
<1>1. /\ row' = [row EXCEPT ![f] = r] /\ tasks' = tasks \ {t} /\ UNCHANGED <<calls, born>>
      /\ mixed' = mixed \cup Outdated(f, t.copy) /\ t.st \in {"failing", "reporting", "reaping"}
      /\ IsTask(t)
  BY DEF Settle, history, ResultsInv
<1>2. (\A s \in Slots : Carries(calls'[s])) /\ mixed \subseteq mixed' /\ Born \subseteq Born'
  BY <1>1 DEF ResultsInv, Born
<1>3. \A u \in tasks' : IsTask(u) /\ \E x \in tasks : x.form = u.form /\ x.ask = u.ask
  BY <1>1 DEF ResultsInv
<1>4. CASE f \in Forms
  <2>1. ASSUME f \notin mixed' PROVE f \in Born' /\ Sound(r) /\ r.st # "processing_ai"
    <3>1. row[f] = t.copy /\ row[f] # None /\ f \in Forms \ mixed
      BY <1>1, <1>4, <2>1 DEF Outdated, IsTask
    <3>2. RowHolds(f) /\ RunHolds(f)
      BY <3>1 DEF ResultsInv
    <3>3. f \in Born' /\ Sound(t.copy)
      BY <1>1, <3>1, <3>2 DEF RowHolds, Born
    <3>4. CASE t.st = "reporting"
      <4>1. t.copy.st = "processing_ai" /\ t.out \in Outcomes /\ t.ask # 0
        BY <1>1, <3>4 DEF IsTask
      <4>2. t.ask = t.copy.job.ask
        BY <3>1, <3>2, <4>1 DEF RunHolds, Running
      <4>3. Sound(Completed(t.copy, t.copy.job.ask, t.out))
            /\ Completed(t.copy, t.copy.job.ask, t.out).st # "processing_ai"
        BY <3>3, <4>1, CompletedSound, Zenon
      <4>4. r = Completed(t.copy, t.copy.job.ask, t.out)
        BY <3>4, <4>2
      <4> HIDE DEF r
      <4> QED
        BY <3>3, <4>3, <4>4
    <3>5. CASE t.st # "reporting"
      <4>1. Sound(Failed(t.copy)) /\ Failed(t.copy).st = "draft"
        BY <3>3, FailedSound, Zenon
      <4> QED
        BY <3>3, <3>5, <4>1
    <3> QED
      BY <3>4, <3>5
  <2> HIDE DEF r
  <2> QED
    BY <1>1, <1>2, <1>3, <1>4, <2>1, RowWritten
<1>5. CASE f \notin Forms
  <2>1. row' = row
    BY <1>1, <1>5 DEF Typed, RowsTyped
  <2>2. ASSUME NEW g \in Forms \ mixed' PROVE RowHolds(g)' /\ RunHolds(g)'
    <3>1. RowHolds(g) /\ RunHolds(g)
      BY <1>2, <2>2 DEF ResultsInv
    <3> QED
      BY <1>1, <2>1, <3>1 DEF RowHolds, RunHolds, Born, Running
  <2> QED
    BY <1>2, <1>3, <2>2 DEF ResultsInv
<1> QED
  BY <1>4, <1>5

LEMMA DeleteResults ==
    ASSUME Typed, ResultsInv, NEW s \in Slots, Delete(s)
    PROVE  ResultsInv'
<1>1. IsCall(calls[s]) /\ Aimed(calls[s]) /\ calls[s].op = "delete"
  BY DEF Delete, Typed, CallsTyped
<1>2. /\ row' = [row EXCEPT ![calls[s].form] = None] /\ calls' = [calls EXCEPT ![s] = [calls[s] EXCEPT !.st = "ok"]]
      /\ UNCHANGED <<tasks, mixed, born>> /\ calls[s].form \in Forms
  BY <1>1 DEF Delete, NoLaunch, history, IsCall, Aimed
<1>3. \A t \in Slots : Carries(calls'[t])
  BY <1>1, <1>2, AnsweredCarries DEF IsCall
<1>4. (\A u \in tasks' : IsTask(u)) /\ Born = Born'
  BY <1>2 DEF ResultsInv, Born
<1> QED
  BY <1>2, <1>3, <1>4, RowWritten

LEMMA RestartResults ==
    ASSUME Typed, ResultsInv, Restart
    PROVE  ResultsInv'
<1>1. tasks' \subseteq tasks /\ UNCHANGED <<mixed, born>>
  BY DEF Restart, history
<1>2. ASSUME NEW s \in Slots PROVE Carries(calls'[s])
  BY DEF Restart, Carries, ResultsInv, Typed, CallsTyped, IsCall
<1>3. ASSUME NEW f \in Forms \ mixed' PROVE RowHolds(f)' /\ RunHolds(f)'
  <2>1. RowHolds(f) /\ RunHolds(f)
    BY <1>1 DEF ResultsInv
  <2>2. row'[f] = IF Running(f) THEN Failed(row[f]) ELSE row[f]
    BY DEF Restart
  <2>3. CASE Running(f)
    <3>1. Sound(row[f]) /\ f \in Born
      BY <2>1, <2>3 DEF RowHolds, Running
    <3>2. Sound(Failed(row[f])) /\ Failed(row[f]).st = "draft"
      BY <3>1, FailedSound, Zenon
    <3> QED
      BY <1>1, <2>1, <2>2, <2>3, <3>1, <3>2 DEF RowHolds, RunHolds, Running, Born
  <2>4. CASE ~Running(f)
    BY <1>1, <2>1, <2>2, <2>4 DEF RowHolds, RunHolds, Running, Born
  <2> QED
    BY <2>3, <2>4
<1> QED
  BY <1>1, <1>2, <1>3 DEF ResultsInv

LEMMA ResultsInit == Init => ResultsInv
<1> SUFFICES ASSUME Init PROVE ResultsInv
  OBVIOUS
<1>1. \A s \in Slots : Carries(calls[s])
  BY NoCallTyped DEF Init
<1>2. ASSUME NEW f \in Forms, row[f] # None PROVE f \in Born /\ Sound(row[f])
  <2>1. f \in born[0] /\ row[f] = Saved
    <3>1. row[f] = IF f \in budget.forms THEN Saved ELSE None
      BY DEF Init
    <3>2. born[0] = budget.forms
      BY LimitsAssumption DEF Init
    <3> QED
      BY <1>2, <3>1, <3>2
  <2>2. Sound(Saved)
    BY DEF Saved, Sound, IsRow, Status
  <2> QED
    BY <2>1, <2>2, LimitsAssumption DEF Born
<1> QED
  BY <1>1, <1>2 DEF Init, ResultsInv, RowHolds, RunHolds

LEMMA ResultsNext ==
    ASSUME Typed, ResultsInv, [Next]_vars
    PROVE  ResultsInv'
<1>1. ASSUME NEW s \in Slots, Handle(s) \/ Deliver(s) \/ LoseCall(s) PROVE ResultsInv'
  BY <1>1, InsertResults, WriteResults, DeleteResults, DeliverResults DEF Handle
<1>2. ASSUME NEW t \in tasks, Work(t) \/ Bridge(t) PROVE ResultsInv'
  BY <1>2, TasksResults, SettleResults DEF Work
<1>3. CASE Restart
  BY <1>3, RestartResults
<1>4. ASSUME NEW f \in Forms, Reap(f) PROVE ResultsInv'
  BY <1>4, ReapResults
<1>5. ASSUME UNCHANGED <<row, tasks, mixed, born, calls>> PROVE ResultsInv'
  BY <1>5, RunsGoOn DEF ResultsInv
<1>6. CASE Navigate \/ \E f \in Forms : Query(f)
  BY <1>5, <1>6 DEF Navigate, OpenList, OpenNew, OpenDetail, OpenBuilder, Query, Poll, Serve, Store, LoadFails,
                    server, history
<1>7. CASE Edit \/ \E i \in 1 .. MaxItems : Toggle(i)
  BY <1>5, <1>7, EditKeeps DEF server, history
<1>8. ASSUME NEW c, Sending(c) PROVE ResultsInv'
  <2>1. UNCHANGED <<row, tasks, mixed, born>>
    BY <1>8 DEF Sending, server
  <2>2. PICK s \in Slots : calls' = [calls EXCEPT ![s] = c]
    BY <1>8 DEF Sending, Send, Typed, RowsTyped, Budget
  <2>3. Carries(c)
    BY <1>8 DEF Sending, Carries
  <2> QED
    BY <2>1, <2>2, <2>3, CallsResults
<1>9. CASE RunSuggest \/ SubmitAnswers \/ CancelJob \/ AddSelected \/ Command
  BY <1>8, <1>9, AskSends, CommandSends
<1>10. CASE UNCHANGED vars
  BY <1>5, <1>10 DEF vars, server, history
<1> QED
  BY <1>1, <1>2, <1>3, <1>4, <1>6, <1>7, <1>9, <1>10 DEF Next, Ask

\* A form that waits for a suggestion has no run under way but the one it was
\* asked for last, so that no other can report to it.
WaitsForItsOwn(f) ==
    \A t \in tasks : t.form = f /\ t.ask # 0 /\ Running(f) => t.ask = row[f].job.ask

\* CompleteAISuggest is not told the request a report is for.  The outcome of a
\* form outside `mixed' is nevertheless that of its last request, and while it
\* waits no other run can report to it, whatever handlers, restarts, the reaper
\* and failing dispatches do in between.  This does not cover the forms that
\* were asked again while an older run was still under way, whose late report
\* the code takes for the new one's, nor those saved from an outdated copy.
THEOREM ResultsAreOwn ==
    Spec => [](ResultIsOwn /\ \A f \in Forms \ mixed : WaitsForItsOwn(f))
<1>1. Init => Typed /\ ResultsInv
  BY TypedInit, ResultsInit
<1>2. Typed /\ ResultsInv /\ [Next]_vars => (Typed /\ ResultsInv)'
  BY TypedNext, ResultsNext
<1>3. ResultsInv => ResultIsOwn
  BY DEF ResultsInv, RowHolds, Sound, ResultIsOwn
<1>4. ResultsInv => \A f \in Forms \ mixed : WaitsForItsOwn(f)
  BY DEF ResultsInv, RunHolds, WaitsForItsOwn
<1> QED
  BY <1>1, <1>2, <1>3, <1>4, PTL DEF Spec

-----------------------------------------------------------------------------
(* The page *)

LEMMA FetchTyped ==
    /\ IsFetch(NoFetch) /\ IsFetch(Asked) /\ Asked.st = "asked" /\ NoFetch.st = "idle"
    /\ \A f \in Forms : IsFetch(fetch[f]) =>
          /\ IsFetch(Overtaken(f)) /\ Overtaken(f).st = fetch[f].st
          /\ fetch[f].st = "answered" => Overtaken(f).late
<1>1. IsFetch(NoFetch) /\ IsFetch(Asked) /\ Asked.st = "asked" /\ NoFetch.st = "idle"
  BY DEF IsFetch, NoFetch, Asked
<1>2. ASSUME NEW f \in Forms, IsFetch(fetch[f])
      PROVE  /\ IsFetch(Overtaken(f)) /\ Overtaken(f).st = fetch[f].st
             /\ fetch[f].st = "answered" => Overtaken(f).late
  <2> DEFINE late == (fetch[f].st = "answered")
  <2>1. late \in BOOLEAN /\ Overtaken(f) = [fetch[f] EXCEPT !.late = late]
    BY DEF Overtaken
  <2>2. fetch[f].st = "answered" => late
    OBVIOUS
  <2> HIDE DEF late
  <2> QED
    BY <1>2, <2>1, <2>2 DEF IsFetch
<1> QED
  BY <1>1, <1>2

\* A query is started again, overtaken, or left alone.
Refetched(f, q) == q = fetch[f] \/ q = Asked \/ q = Overtaken(f)

LEMMA FetchWritten ==
    ASSUME CacheTyped, NEW f \in Forms, NEW q, Refetched(f, q), fetch' = [fetch EXCEPT ![f] = q]
    PROVE  /\ fetch' = [g \in Forms |-> fetch'[g]]
           /\ \A g \in Forms : IsFetch(fetch'[g]) /\ Refetched(g, fetch'[g])
BY FetchTyped DEF CacheTyped, Refetched

\* What a form shows stays true as long as nothing it rests on goes away.
LEMMA ShownKept ==
    ASSUME CacheTyped, NEW f \in Forms, Shown(f), row'[f] = row[f], cache'[f] = cache[f],
           f \in stale => f \in stale', f \in misled => f \in misled', Covered(f) => Covered(f)',
           Refetched(f, fetch'[f])
    PROVE  Shown(f)'
<1>1. IsFetch(fetch[f])
  BY DEF CacheTyped
<1>2. CASE fetch'[f] = fetch[f]
  BY <1>2 DEF Shown, AnswerIsRow, EntryIsRow
<1>3. CASE fetch'[f] = Asked
  BY <1>3, FetchTyped DEF Shown, AnswerIsRow, EntryIsRow
<1>4. CASE fetch'[f] = Overtaken(f)
  BY <1>1, <1>4, FetchTyped DEF Shown, AnswerIsRow, EntryIsRow
<1> QED
  BY <1>2, <1>3, <1>4 DEF Refetched

LEMMA UnmadeKept ==
    ASSUME CacheTyped, NEW f \in Forms, Unmade(f), row'[f] = row[f], cache'[f] = cache[f], Refetched(f, fetch'[f])
    PROVE  Unmade(f)'
<1>1. IsFetch(fetch[f])
  BY DEF CacheTyped
<1>2. fetch'[f].st # "answered"
  BY <1>1, FetchTyped DEF Unmade, Refetched
<1> QED
  BY <1>2 DEF Unmade

\* Rows and cache stay; queries are started again or overtaken, calls go on.
LEMMA ScreenKept ==
    ASSUME ScreenInv, UNCHANGED <<row, cache, born>>, fetch' = [f \in Forms |-> fetch'[f]],
           \A f \in Forms : Refetched(f, fetch'[f]),
           \A t \in tasks' : t.form \in Born, \A s \in Slots : CallTraces(calls'[s]),
           stale \subseteq stale', misled \subseteq misled', Selected',
           \A f \in Forms : Covered(f) => Covered(f)' \/ Shown(f)'
    PROVE  ScreenInv'
<1>1. Born' = Born
  BY DEF Born
<1>2. CacheTyped'
  BY FetchTyped DEF ScreenInv, CacheTyped, Refetched
<1>3. ASSUME NEW f \in Forms PROVE Shown(f)' /\ (f \notin Born => Unmade(f)')
  BY ShownKept, UnmadeKept DEF ScreenInv, Traces, CallsTraced, TasksTraced
<1>4. Traces'
  BY <1>1, <1>3 DEF Traces, TasksTraced, CallsTraced, CallTraces
<1> QED
  BY <1>2, <1>3, <1>4 DEF ScreenInv

LEMMA RenderedSelects ==
    ASSUME NEW u, NEW c, IsUi(u), u.sel \subseteq 1 .. u.shown
    PROVE  SelectedIn(Rendered(u, c), c)
<1> DEFINE job == IF u.panel = None \/ c[u.panel] = None THEN None ELSE c[u.panel].job
           n == IF job = None THEN 0 ELSE job.pending
           v == Rendered(u, c)
<1>1. v = IF n = u.shown THEN u ELSE [u EXCEPT !.shown = n, !.sel = 1 .. n]
  BY DEF Rendered
<1>2. u.panel = None \/ c[u.panel] = None => n = 0
  OBVIOUS
<1> HIDE DEF n
<1>3. v.sel \subseteq 1 .. v.shown /\ v.shown = n
  BY <1>1 DEF IsUi
<1>4. v.panel = u.panel /\ u.panel \in Forms \cup {None}
  BY RenderedKeeps DEF IsUi
<1> HIDE DEF v
<1> QED
  BY <1>2, <1>3, <1>4 DEF SelectedIn, v

\* The editor is mounted on what the cache holds, or on nothing.
LEMMA MountedSelects ==
    ASSUME CacheTyped, NEW f \in Forms \cup {None}, NEW r, NEW c, r = None \/ c = [cache EXCEPT ![f] = r]
    PROVE  SelectedIn(Mounted(f, r), c)
<1> DEFINE titled == (r # None)
           bare == (f # None /\ r = None)
           qs == IF r = None THEN <<>> ELSE r.qs
           u == [NoUi EXCEPT !.form = f, !.panel = f, !.titled = titled, !.qs = qs, !.bare = bare]
           d == [cache EXCEPT ![f] = r]
<1>1. titled \in BOOLEAN /\ bare \in BOOLEAN
  OBVIOUS
<1>2. Mounted(f, r) = Rendered(u, d)
  BY DEF Mounted
<1> HIDE DEF titled, bare, qs
<1>3. IsUi(u) /\ u.panel = f /\ u.sel = {} /\ u.shown = 0
  BY <1>1 DEF IsUi, NoUi
<1> HIDE DEF u
<1>4. SelectedIn(Mounted(f, r), d)
  BY <1>2, <1>3, RenderedSelects
<1>5. CASE r = None
  <2>1. Mounted(f, r).shown = 0 /\ Mounted(f, r).sel \subseteq 1 .. 0 /\ Mounted(f, r).panel = f
    <3>1. f # None => d[f] = None
      BY <1>5 DEF CacheTyped
    <3>2. Rendered(u, d).panel = f
      BY <1>3, RenderedKeeps
    <3> QED
      BY <1>2, <1>4, <3>1, <3>2 DEF SelectedIn
  <2> QED
    BY <2>1 DEF SelectedIn
<1> QED
  BY <1>4, <1>5

\* The server.
LEMMA TasksScreen ==
    ASSUME Typed, ScreenInv,
           (\E t \in tasks : Dispatch(t) \/ Bridge(t)) \/ \E f \in Forms : Reap(f)
    PROVE  ScreenInv'
<1>1. UNCHANGED <<row, cache, fetch, stale, misled, born, calls, ui>>
  BY DEF Dispatch, Bridge, DispatchFails, LoseReport, Report, Reap, browser, history, local
<1>2. \A u \in tasks' : (\E t \in tasks : t.form = u.form) \/ (u.form \in Forms /\ row[u.form] # None)
  BY DEF Dispatch, Bridge, DispatchFails, LoseReport, Report, Reap, Becomes, Task, Running
<1>3. \A u \in tasks' : u.form \in Born
  BY <1>2 DEF ScreenInv, Traces, TasksTraced, Unmade
<1>4. Selected' /\ \A f \in Forms : Covered(f) => Covered(f)'
  BY <1>1 DEF ScreenInv, Selected, SelectedIn, Covered
<1>5. fetch' = [f \in Forms |-> fetch'[f]] /\ \A f \in Forms : Refetched(f, fetch'[f])
  BY <1>1 DEF ScreenInv, CacheTyped, Refetched
<1>6. \A s \in Slots : CallTraces(calls'[s])
  BY <1>1 DEF ScreenInv, Traces, CallsTraced, TasksTraced
<1> QED
  BY <1>1, <1>3, <1>4, <1>5, <1>6, ScreenKept

LEMMA ReadScreen ==
    ASSUME Typed, ScreenInv, NEW s \in Slots, Read(s)
    PROVE  ScreenInv'
<1>1. UNCHANGED <<row, cache, fetch, stale, misled, born, tasks, ui>>
  BY DEF Read, server, browser, history, local
<1>2. PICK d : /\ calls' = [calls EXCEPT ![s] = d] /\ calls[s].st = "sent" /\ d.then = calls[s].then
               /\ d.op = calls[s].op /\ d.form = calls[s].form
               /\ d.st = "read" => row[d.form] # None /\ d.form \in Forms
               /\ d.st # "ok"
  <2> DEFINE c == calls[s]
             d1 == [c EXCEPT !.st = "failed"]
             d2 == [c EXCEPT !.st = "read", !.copy = row[c.form]]
  <2>1. IsCall(c) /\ c.form # None /\ c.st = "sent"
    BY DEF Typed, CallsTyped, Read
  <2>2. c.form \in Forms
    BY <2>1 DEF IsCall
  <2>3. /\ d1.then = c.then /\ d1.op = c.op /\ d1.form = c.form /\ d1.st = "failed"
        /\ d2.then = c.then /\ d2.op = c.op /\ d2.form = c.form /\ d2.st = "read"
    BY <2>1 DEF IsCall
  <2>4. calls' = [calls EXCEPT ![s] = IF Refuses(c, row[c.form]) THEN d1 ELSE d2]
    BY DEF Read
  <2>5. ~Refuses(c, row[c.form]) => row[c.form] # None
    BY DEF Refuses
  <2> HIDE DEF d1, d2
  <2> QED
    BY <2>1, <2>2, <2>3, <2>4, <2>5
<1>3. calls'[s] = d /\ \A t \in Slots \ {s} : calls'[t] = calls[t]
  BY <1>2 DEF Typed, CallsTyped
<1>4. CallTraces(d)
  BY <1>2 DEF ScreenInv, Traces, CallsTraced, CallTraces, Unmade
<1>5. \A t \in Slots : CallTraces(calls'[t])
  BY <1>3, <1>4 DEF ScreenInv, Traces, CallsTraced, TasksTraced
<1>6. Selected' /\ \A f \in Forms : Covered(f) => Covered(f)'
  BY <1>1, <1>2, <1>3 DEF ScreenInv, Selected, SelectedIn, Covered, Covers
<1>7. fetch' = [f \in Forms |-> fetch'[f]] /\ \A f \in Forms : Refetched(f, fetch'[f])
  BY <1>1 DEF ScreenInv, CacheTyped, Refetched
<1> QED
  BY <1>1, <1>5, <1>6, <1>7, ScreenKept DEF ScreenInv, Traces, CallsTraced, TasksTraced

\* One row is written, and the browser knows nothing of it yet.
LEMMA RowScreen ==
    ASSUME Typed, ScreenInv, NEW f \in Forms, NEW r, row' = [row EXCEPT ![f] = r],
           UNCHANGED <<cache, stale, ui>>, misled \subseteq misled',
           fetch' = [g \in Forms |-> fetch'[g]], \A g \in Forms : Refetched(g, fetch'[g]),
           Born \subseteq Born', r # None => f \in Born',
           TasksTraced', CallsTraced',
           \A g \in Forms \ {f} : Covered(g) => Covered(g)',
           Shown(f)'
    PROVE  ScreenInv'
<1>1. \A g \in Forms : row'[g] = IF g = f THEN r ELSE row[g]
  BY DEF Typed, RowsTyped
<1>2. CacheTyped'
  BY FetchTyped DEF ScreenInv, CacheTyped, Refetched
<1>3. Selected'
  BY DEF ScreenInv, Selected, SelectedIn
<1>4. \A g \in Forms : Shown(g)'
  BY <1>1, ShownKept DEF ScreenInv
<1>5. ASSUME NEW g \in Forms, g \notin Born' PROVE Unmade(g)'
  <2>1. Unmade(g)
    BY <1>5 DEF ScreenInv, Traces, CallsTraced, TasksTraced
  <2>2. CASE g = f
    <3>1. row'[g] = None /\ cache'[g] = None
      BY <1>1, <1>5, <2>1, <2>2 DEF Unmade
    <3>2. fetch'[g].st # "answered"
      BY <2>1, FetchTyped DEF ScreenInv, CacheTyped, Refetched, Unmade
    <3> QED
      BY <3>1, <3>2 DEF Unmade
  <2>3. CASE g # f
    BY <1>1, <2>1, <2>3, UnmadeKept DEF ScreenInv
  <2> QED
    BY <2>2, <2>3
<1>6. Traces'
  BY <1>5 DEF Traces, CallsTraced, CallTraces
<1> QED
  BY <1>2, <1>3, <1>4, <1>6 DEF ScreenInv

LEMMA FormsMade == ScreenInv => \A f \in Forms : row[f] # None => f \in Born
BY DEF ScreenInv, Traces, Unmade

\* A call has written row f, which its answer is still to tell.
LEMMA AnsweredTraces ==
    ASSUME Typed, ScreenInv, NEW s \in Slots, NEW c, calls' = [calls EXCEPT ![s] = c], c.st = "ok",
           c.op # "delete" => c.form \in Born', c.then = calls[s].then, c.op = calls[s].op,
           calls[s].st # "ok", Born \subseteq Born'
    PROVE  /\ CallsTraced'
           /\ \A g \in Forms : Covered(g) => Covered(g)'
           /\ c.op \in {"update", "publish", "suggest", "clarify", "clear"} => Covered(c.form)'
<1>1. calls'[s] = c /\ \A t \in Slots \ {s} : calls'[t] = calls[t]
  BY DEF Typed, CallsTyped
<1>2. \A t \in Slots : CallTraces(calls[t])
  BY DEF ScreenInv, Traces, CallsTraced, TasksTraced
<1>3. CallsTraced'
  <2> SUFFICES ASSUME NEW t \in Slots PROVE CallTraces(calls[t])'
    BY DEF CallsTraced
  <2>1. CASE t = s
    BY <1>1, <1>2, <2>1 DEF CallTraces
  <2>2. CASE t # s
    <3>1. calls'[t] = calls[t] /\ CallTraces(calls[t])
      BY <1>1, <1>2, <2>2
    <3> QED
      BY <3>1 DEF CallTraces
  <2> QED
    BY <2>1, <2>2
<1>4. \A g \in Forms : Covered(g) => Covered(g)'
  BY <1>1 DEF Covered, Covers
<1>5. c.op \in {"update", "publish", "suggest", "clarify", "clear"} => Covered(c.form)'
  BY <1>1 DEF Covered, Covers
<1> QED
  BY <1>3, <1>4, <1>5

LEMMA CoveredShown == \A f \in Forms : Covered(f) => Shown(f)
BY DEF Shown, AnswerIsRow, EntryIsRow

LEMMA InsertScreen ==
    ASSUME Typed, ScreenInv, NEW s \in Slots, NEW f \in Forms, Insert(s, f)
    PROVE  ScreenInv'
<1> DEFINE c == calls[s]
<1>1. PICK r : /\ row' = [row EXCEPT ![f] = r]
               /\ calls' = [calls EXCEPT ![s] = [c EXCEPT !.st = "ok", !.form = f, !.copy = r]]
  BY Zenon DEF Insert
<1>2. /\ IsCall(c) /\ c.st = "sent" /\ Fresh(f) /\ born' = [born EXCEPT ![c.visit] = @ \cup {f}]
      /\ UNCHANGED <<cache, stale, fetch, misled, ui>>
  BY DEF Insert, Typed, CallsTyped, browser, local
<1>3. Born \subseteq Born' /\ f \in Born'
  <2>1. c.visit \in 0 .. MaxVisits
    BY <1>2 DEF IsCall
  <2>2. \A v \in 0 .. MaxVisits : born[v] \subseteq born'[v]
    BY <1>2 DEF Typed, RowsTyped
  <2>3. f \in born'[c.visit]
    BY <1>2, <2>1 DEF Typed, RowsTyped
  <2> QED
    BY <2>1, <2>2, <2>3 DEF Born
<1>4. Unmade(f)
  BY <1>2 DEF ScreenInv, Traces, Born, Fresh
<1>5. Shown(f)'
  BY <1>2, <1>4 DEF Unmade, Shown, AnswerIsRow, EntryIsRow
<1>6. TasksTraced'
  <2>1. NoLaunch \/ Launch(f)
    BY Zenon DEF Insert
  <2>2. \A u \in tasks' : u \in tasks \/ u.form = f
    BY <2>1 DEF NoLaunch, Launch, Task
  <2> QED
    BY <1>3, <2>2 DEF ScreenInv, Traces, TasksTraced
<1>7. PICK d : /\ calls' = [calls EXCEPT ![s] = d]
               /\ d.st = "ok" /\ d.form = f /\ d.op = c.op /\ d.then = c.then
  <2> DEFINE e == [c EXCEPT !.st = "ok", !.form = f, !.copy = r]
  <2>1. e.st = "ok" /\ e.form = f /\ e.op = c.op /\ e.then = c.then
    BY <1>2 DEF IsCall
  <2> QED
    BY <1>1, <2>1, Zenon
<1>9. CallsTraced' /\ \A g \in Forms : Covered(g) => Covered(g)'
  BY <1>2, <1>3, <1>7, AnsweredTraces
<1>10. fetch' = [g \in Forms |-> fetch'[g]] /\ \A g \in Forms : Refetched(g, fetch'[g])
  BY <1>2 DEF ScreenInv, CacheTyped, Refetched
<1> QED
  BY <1>1, <1>2, <1>3, <1>5, <1>6, <1>9, <1>10, RowScreen

LEMMA WriteScreen ==
    ASSUME Typed, ScreenInv, NEW s \in Slots, Write(s)
    PROVE  ScreenInv'
<1> DEFINE c == calls[s]
<1>0. PICK f \in Forms : f = c.form
  BY DEF Write, Typed, CallsTyped, IsCall, Aimed
<1>1. PICK r : /\ row' = [row EXCEPT ![c.form] = r]
               /\ calls' = [calls EXCEPT ![s] = [c EXCEPT !.st = "ok", !.copy = r]]
               /\ NoLaunch \/ Launch(c.form)
               /\ c.op \in {"update", "publish", "suggest", "clarify", "clear"}
  BY Zenon DEF Write
<1>2. /\ IsCall(c) /\ c.st = "read" /\ UNCHANGED <<cache, stale, fetch, misled, ui, born>>
  BY DEF Write, Typed, CallsTyped, browser, local, history
<1>3. Born' = Born /\ f \in Born
  BY <1>0, <1>1, <1>2 DEF Born, ScreenInv, Traces, CallsTraced, CallTraces
<1>4. PICK d : /\ calls' = [calls EXCEPT ![s] = d]
               /\ d.st = "ok" /\ d.form = f /\ d.op = c.op /\ d.then = c.then
  <2> DEFINE e == [c EXCEPT !.st = "ok", !.copy = r]
  <2>1. e.st = "ok" /\ e.form = f /\ e.op = c.op /\ e.then = c.then
    BY <1>0, <1>2 DEF IsCall
  <2> QED
    BY <1>1, <2>1, Zenon
<1>6. /\ CallsTraced'
      /\ \A g \in Forms : Covered(g) => Covered(g)'
      /\ Covered(f)'
  BY <1>1, <1>2, <1>3, <1>4, AnsweredTraces
<1>7. Shown(f)'
  BY <1>2, <1>6 DEF Shown, AnswerIsRow, EntryIsRow
<1>8. TasksTraced'
  BY <1>0, <1>1, <1>3 DEF NoLaunch, Launch, Task, ScreenInv, Traces, TasksTraced
<1>9. fetch' = [g \in Forms |-> fetch'[g]] /\ \A g \in Forms : Refetched(g, fetch'[g])
  BY <1>2 DEF ScreenInv, CacheTyped, Refetched
<1> QED
  BY <1>0, <1>1, <1>2, <1>3, <1>6, <1>7, <1>8, <1>9, RowScreen

LEMMA DeleteScreen ==
    ASSUME Typed, ScreenInv, NEW s \in Slots, Delete(s)
    PROVE  ScreenInv'
<1> DEFINE c == calls[s]
<1>1. /\ IsCall(c) /\ c.st = "sent" /\ c.op = "delete" /\ c.form \in Forms
      /\ row' = [row EXCEPT ![c.form] = None] /\ calls' = [calls EXCEPT ![s] = [c EXCEPT !.st = "ok"]]
      /\ UNCHANGED <<cache, stale, fetch, misled, ui, born, tasks>>
  BY DEF Delete, Typed, CallsTyped, IsCall, Aimed, browser, local, history, NoLaunch
<1>2. PICK d : calls' = [calls EXCEPT ![s] = d] /\ d.st = "ok" /\ d.op = "delete" /\ d.then = c.then
  <2> DEFINE e == [c EXCEPT !.st = "ok"]
  <2>1. e.st = "ok" /\ e.op = "delete" /\ e.then = c.then
    BY <1>1 DEF IsCall
  <2> QED
    BY <1>1, <2>1, Zenon
<1>3. Born' = Born
  BY <1>1 DEF Born
<1>4. CallsTraced' /\ \A g \in Forms : Covered(g) => Covered(g)'
  BY <1>1, <1>2, <1>3, AnsweredTraces
<1>5. PICK f \in Forms : row' = [row EXCEPT ![f] = None]
  BY <1>1
<1>6. Shown(f)'
  BY <1>5 DEF Shown, AnswerIsRow, EntryIsRow, Typed, RowsTyped
<1>7. fetch' = [g \in Forms |-> fetch'[g]] /\ \A g \in Forms : Refetched(g, fetch'[g])
  BY <1>1 DEF ScreenInv, CacheTyped, Refetched
<1>8. TasksTraced'
  BY <1>1, <1>3 DEF ScreenInv, Traces, CallsTraced, TasksTraced
<1> QED
  BY <1>1, <1>3, <1>4, <1>5, <1>6, <1>7, <1>8, RowScreen

LEMMA SettleScreen ==
    ASSUME Typed, ScreenInv, NEW t \in tasks, Settle(t)
    PROVE  ScreenInv'
<1> DEFINE f == t.form
<1>1. PICK r : row' = [row EXCEPT ![f] = r]
  BY Zenon DEF Settle
<1>2. /\ UNCHANGED <<cache, stale, ui, born, calls>> /\ tasks' \subseteq tasks
      /\ IF Running(f) THEN misled' = misled /\ fetch' = fetch
         ELSE misled' = misled \cup {f} /\ fetch' = [fetch EXCEPT ![f] = Overtaken(f)]
  BY DEF Settle, history, local
<1>3. Born' = Born /\ f \in Born /\ \A g \in Forms : Covered(g) => Covered(g)'
  BY <1>2 DEF Born, ScreenInv, Traces, TasksTraced, Covered
<1>4. CallsTraced' /\ TasksTraced'
  BY <1>2, <1>3 DEF ScreenInv, Traces, TasksTraced, CallsTraced, CallTraces
<1>5. CASE f \in Forms /\ Running(f)
  <2>1. Shown(f) /\ row[f] # None /\ row[f].st = "processing_ai"
    BY <1>5 DEF ScreenInv, Running
  <2>2. Shown(f)'
    BY <1>2, <1>3, <1>5, <2>1 DEF Shown, AnswerIsRow, EntryIsRow
  <2>3. fetch' = [g \in Forms |-> fetch'[g]] /\ \A g \in Forms : Refetched(g, fetch'[g])
    BY <1>2, <1>5 DEF ScreenInv, CacheTyped, Refetched
  <2> QED
    BY <1>1, <1>2, <1>3, <1>4, <1>5, <2>2, <2>3, RowScreen
<1>6. CASE f \in Forms /\ ~Running(f)
  <2>1. /\ fetch' = [g \in Forms |-> fetch'[g]] /\ \A g \in Forms : Refetched(g, fetch'[g])
    BY <1>2, <1>6, FetchWritten DEF ScreenInv, Refetched
  <2>2. fetch'[f] = Overtaken(f) /\ IsFetch(fetch[f])
    BY <1>2, <1>6 DEF ScreenInv, CacheTyped
  <2>3. Shown(f)'
    BY <1>2, <1>6, <2>2, FetchTyped DEF Shown, AnswerIsRow, EntryIsRow
  <2> QED
    BY <1>1, <1>2, <1>3, <1>4, <1>6, <2>1, <2>3, RowScreen
<1>7. CASE f \notin Forms
  <2>1. row' = row /\ fetch' = fetch
    BY <1>1, <1>2, <1>7 DEF Typed, RowsTyped, ScreenInv, CacheTyped
  <2>2. Selected'
    BY <1>2 DEF ScreenInv, Selected, SelectedIn
  <2>3. \A g \in Forms : Refetched(g, fetch'[g])
    BY <2>1 DEF Refetched
  <2>4. (\A u \in tasks' : u.form \in Born) /\ \A s \in Slots : CallTraces(calls'[s])
    BY <1>2 DEF ScreenInv, Traces, CallsTraced, TasksTraced
  <2>5. fetch' = [g \in Forms |-> fetch'[g]] /\ misled \subseteq misled'
    BY <1>2, <2>1 DEF ScreenInv, CacheTyped
  <2> QED
    BY <1>2, <1>3, <2>1, <2>2, <2>3, <2>4, <2>5, ScreenKept
<1> QED
  BY <1>5, <1>6, <1>7

LEMMA RestartScreen ==
    ASSUME Typed, ScreenInv, Restart
    PROVE  ScreenInv'
<1>1. UNCHANGED <<cache, fetch, stale, misled, born, ui>> /\ tasks' \subseteq tasks
  BY DEF Restart, browser, history, local
<1>2. Born' = Born
  BY <1>1 DEF Born
<1>3. ASSUME NEW s \in Slots
      PROVE  /\ calls'[s].then = calls[s].then /\ calls'[s].op = calls[s].op /\ calls'[s].form = calls[s].form
             /\ calls'[s].st = IF calls[s].st \in {"sent", "read"} THEN "failed" ELSE calls[s].st
  <2>1. IsCall(calls[s])
    BY DEF Typed, CallsTyped
  <2>2. calls'[s] = IF calls[s].st \in {"sent", "read"} THEN [calls[s] EXCEPT !.st = "failed"] ELSE calls[s]
    BY DEF Restart
  <2> QED
    BY <2>1, <2>2 DEF IsCall
<1>4. CallsTraced' /\ TasksTraced'
  BY <1>1, <1>2, <1>3 DEF ScreenInv, Traces, TasksTraced, CallsTraced, CallTraces
<1>5. ASSUME NEW f \in Forms PROVE Shown(f)' /\ (f \notin Born => Unmade(f)')
  <2>1. Shown(f) /\ (f \notin Born => Unmade(f))
    BY DEF ScreenInv, Traces
  <2>2. Covered(f) => Covered(f)'
    BY <1>3 DEF Covered, Covers
  <2>3. row'[f] = IF Running(f) THEN Failed(row[f]) ELSE row[f]
    BY DEF Restart
  <2>4. CASE Running(f)
    BY <1>1, <2>1, <2>2, <2>4 DEF Shown, AnswerIsRow, EntryIsRow, Unmade, Running
  <2>5. CASE ~Running(f)
    BY <1>1, <2>1, <2>2, <2>3, <2>5 DEF Shown, AnswerIsRow, EntryIsRow, Unmade
  <2> QED
    BY <2>4, <2>5
<1>6. CacheTyped' /\ Selected'
  BY <1>1 DEF ScreenInv, CacheTyped, Selected, SelectedIn
<1> QED
  BY <1>2, <1>4, <1>5, <1>6 DEF ScreenInv, Traces

\* The entry of one form is written, and its query.
LEMMA EntryScreen ==
    ASSUME Typed, ScreenInv, NEW f \in Forms, NEW v, NEW q, IsFetch(q),
           cache' = [cache EXCEPT ![f] = v], fetch' = [fetch EXCEPT ![f] = q],
           UNCHANGED <<row, born, tasks>>, stale \ {f} \subseteq stale', misled \ {f} \subseteq misled',
           f \notin Born => v = None /\ q.st # "answered",
           CallsTraced', Selected', \A g \in Forms \ {f} : Covered(g) => Covered(g)', Shown(f)'
    PROVE  ScreenInv'
<1>1. /\ cache'[f] = v /\ fetch'[f] = q
      /\ \A g \in Forms \ {f} : cache'[g] = cache[g] /\ fetch'[g] = fetch[g]
  BY DEF ScreenInv, CacheTyped
<1>2. CacheTyped'
  BY <1>1 DEF ScreenInv, CacheTyped
<1>3. \A g \in Forms : Shown(g)'
  BY <1>1, ShownKept DEF ScreenInv, Refetched
<1>4. Born' = Born
  BY DEF Born
<1>5. ASSUME NEW g \in Forms \ Born PROVE Unmade(g)'
  BY <1>1 DEF ScreenInv, Traces, Unmade
<1>6. TasksTraced'
  BY <1>4 DEF ScreenInv, Traces, TasksTraced
<1> QED
  BY <1>2, <1>3, <1>4, <1>5, <1>6 DEF ScreenInv, Traces

LEMMA CallsStay == ScreenInv /\ UNCHANGED <<calls, born>> => CallsTraced' /\ \A f \in Forms : Covered(f) => Covered(f)'
BY DEF ScreenInv, Traces, CallsTraced, CallTraces, Born, Covered

LEMMA NoUiSelects == \A c : SelectedIn(NoUi, c)
BY DEF SelectedIn, NoUi

LEMMA PollScreen ==
    ASSUME Typed, ScreenInv, NEW f \in Forms, Poll(f)
    PROVE  ScreenInv'
<1>1. UNCHANGED <<row, tasks, calls, cache, stale, misled, born, ui>> /\ fetch' = [fetch EXCEPT ![f] = Asked]
  BY DEF Poll, server, history, local
<1>2. fetch' = [g \in Forms |-> fetch'[g]] /\ \A g \in Forms : Refetched(g, fetch'[g])
  BY <1>1, FetchWritten DEF ScreenInv, Refetched
<1>3. Selected' /\ \A t \in tasks' : t.form \in Born
  BY <1>1 DEF ScreenInv, Traces, TasksTraced, Selected, SelectedIn
<1>4. (\A s \in Slots : CallTraces(calls'[s])) /\ \A g \in Forms : Covered(g) => Covered(g)'
  BY <1>1, CallsStay DEF ScreenInv, Traces, CallsTraced
<1> QED
  BY <1>1, <1>2, <1>3, <1>4, ScreenKept

LEMMA ServeScreen ==
    ASSUME Typed, ScreenInv, NEW f \in Forms, Serve(f)
    PROVE  ScreenInv'
<1> DEFINE q == [fetch[f] EXCEPT !.st = "answered", !.val = row[f]]
<1>1. /\ UNCHANGED <<row, tasks, calls, cache, stale, misled, born, ui>> /\ row[f] # None
      /\ IsFetch(fetch[f]) /\ cache = [cache EXCEPT ![f] = cache[f]]
  BY DEF Serve, server, history, local, ScreenInv, CacheTyped
<1>2. fetch' = [fetch EXCEPT ![f] = q]
  BY DEF Serve, ScreenInv, CacheTyped
<1>3. IsFetch(q) /\ q.st = "answered" /\ q.val = row[f]
  BY <1>1 DEF IsFetch
<1> HIDE DEF q
<1>4. fetch'[f] = q
  BY <1>2 DEF ScreenInv, CacheTyped
<1>5. Shown(f)'
  BY <1>1, <1>3, <1>4 DEF Shown, AnswerIsRow, EntryIsRow
<1>6. f \in Born
  BY <1>1, FormsMade
<1>7. CallsTraced' /\ \A g \in Forms : Covered(g) => Covered(g)'
  BY <1>1, CallsStay
<1>8. Selected'
  BY <1>1 DEF ScreenInv, Selected, SelectedIn
<1>9. cache' = [cache EXCEPT ![f] = cache[f]]
  BY <1>1
<1> QED
  BY <1>1, <1>2, <1>3, <1>5, <1>6, <1>7, <1>8, <1>9, EntryScreen

\* A query is over: the editor that waited for it is mounted.
LEMMA StoreScreen ==
    ASSUME Typed, ScreenInv, NEW f \in Forms, Store(f)
    PROVE  ScreenInv'
<1> DEFINE v == fetch[f].val
<1>1. /\ UNCHANGED <<row, tasks, calls, born>> /\ fetch[f].st = "answered" /\ stale' = stale \ {f}
      /\ cache' = [cache EXCEPT ![f] = v] /\ fetch' = [fetch EXCEPT ![f] = NoFetch]
      /\ misled' = IF fetch[f].late THEN misled \cup {f} ELSE misled \ {f}
      /\ ui' = Mounted(f, v) \/ ui' = Rendered(ui, cache')
  BY DEF Store, server, history
<1>2. f \in Born
  BY <1>1 DEF ScreenInv, Traces, Unmade
<1>3. cache'[f] = v /\ fetch'[f] = NoFetch
  BY <1>1 DEF ScreenInv, CacheTyped
<1>4. CallsTraced' /\ \A g \in Forms : Covered(g) => Covered(g)'
  BY <1>1, CallsStay
<1>5. Shown(f)'
  BY <1>1, <1>3, <1>4, FetchTyped DEF ScreenInv, Shown, AnswerIsRow, EntryIsRow
<1>6. SelectedIn(ui', cache')
  <2>1. CASE ui' = Mounted(f, v)
    BY <1>1, <2>1, MountedSelects DEF ScreenInv
  <2>2. CASE ui' = Rendered(ui, cache')
    BY <2>2, RenderedSelects DEF ScreenInv, Selected, SelectedIn, Typed, PageTyped
  <2> QED
    BY <1>1, <2>1, <2>2
<1>7. Selected'
  BY <1>6 DEF Selected
<1>8. misled \ {f} \subseteq misled' /\ IsFetch(NoFetch)
  BY <1>1, FetchTyped
<1> QED
  BY <1>1, <1>2, <1>4, <1>5, <1>7, <1>8, EntryScreen

LEMMA LoadFailsScreen ==
    ASSUME Typed, ScreenInv, NEW f \in Forms, LoadFails(f)
    PROVE  ScreenInv'
<1>1. /\ UNCHANGED <<row, tasks, calls, cache, stale, born>> /\ misled' = misled \cup {f}
      /\ fetch' = [fetch EXCEPT ![f] = NoFetch] /\ cache = [cache EXCEPT ![f] = cache[f]]
      /\ ui' = Mounted(f, None) \/ ui' = ui
  BY DEF LoadFails, WithoutData, server, history, ScreenInv, CacheTyped
<1>2. f \notin Born => cache[f] = None
  BY DEF ScreenInv, Traces, Unmade
<1>3. fetch'[f] = NoFetch
  BY <1>1 DEF ScreenInv, CacheTyped
<1>4. CallsTraced' /\ \A g \in Forms : Covered(g) => Covered(g)'
  BY <1>1, CallsStay
<1>5. Shown(f)'
  BY <1>1, <1>3, FetchTyped DEF Shown, AnswerIsRow, EntryIsRow
<1>6. SelectedIn(ui', cache)
  BY <1>1, MountedSelects DEF ScreenInv, Selected
<1>7. Selected' /\ cache' = [cache EXCEPT ![f] = cache[f]]
  BY <1>1, <1>6 DEF Selected
<1>8. IsFetch(NoFetch) /\ NoFetch.st = "idle"
  BY FetchTyped
<1> QED
  BY <1>1, <1>2, <1>4, <1>5, <1>7, <1>8, EntryScreen

LEMMA EnterSelects ==
    ASSUME ScreenInv, NEW f \in Forms, Enter(f), UNCHANGED cache
    PROVE  Selected'
<1>1. ui' = NoUi \/ ui' = Mounted(f, cache[f])
  BY DEF Enter
<1>2. cache = [cache EXCEPT ![f] = cache[f]]
  BY DEF ScreenInv, CacheTyped
<1>3. SelectedIn(ui', cache)
  BY <1>1, <1>2, NoUiSelects, MountedSelects DEF ScreenInv
<1> QED
  BY <1>3 DEF Selected

LEMMA SubscribedRefetches ==
    ASSUME ScreenInv, NEW f \in Forms, Subscribed(f, Asked)
    PROVE  stale' = stale /\ fetch' = [g \in Forms |-> fetch'[g]] /\ \A g \in Forms : Refetched(g, fetch'[g])
BY FetchWritten DEF ScreenInv, Subscribed, CacheTyped, Refetched

LEMMA NavigateScreen ==
    ASSUME Typed, ScreenInv, Navigate
    PROVE  ScreenInv'
<1>1. UNCHANGED <<row, tasks, calls, cache, born, misled>>
  BY DEF Navigate, OpenList, OpenDetail, OpenNew, OpenBuilder, server, browser, history
<1>2. stale' = stale /\ fetch' = [g \in Forms |-> fetch'[g]] /\ \A g \in Forms : Refetched(g, fetch'[g])
  <2>1. CASE OpenList \/ OpenNew
    BY <2>1 DEF OpenList, OpenNew, browser, ScreenInv, CacheTyped, Refetched
  <2>2. CASE \E f \in Forms : OpenDetail(f) \/ OpenBuilder(f)
    BY <2>2, SubscribedRefetches DEF OpenDetail, OpenBuilder
  <2> QED
    BY <2>1, <2>2 DEF Navigate
<1>3. Selected'
  <2>1. CASE OpenList \/ \E f \in Forms : OpenDetail(f)
    BY <2>1, NoUiSelects DEF OpenList, OpenDetail, Leave, Selected
  <2>2. CASE OpenNew
    <3>1. SelectedIn(Mounted(None, None), cache')
      BY MountedSelects DEF ScreenInv
    <3> QED
      BY <2>2, <3>1 DEF OpenNew, Selected
  <2>3. CASE \E f \in Forms : OpenBuilder(f)
    BY <1>1, <2>3, EnterSelects DEF OpenBuilder
  <2> QED
    BY <2>1, <2>2, <2>3 DEF Navigate
<1>4. \A t \in tasks' : t.form \in Born
  BY <1>1 DEF ScreenInv, Traces, TasksTraced
<1>5. (\A s \in Slots : CallTraces(calls'[s])) /\ \A g \in Forms : Covered(g) => Covered(g)'
  BY <1>1, CallsStay DEF ScreenInv, Traces, CallsTraced
<1> QED
  BY <1>1, <1>2, <1>3, <1>4, <1>5, ScreenKept

LEMMA EditScreen ==
    ASSUME Typed, ScreenInv, Edit \/ \E i \in 1 .. MaxItems : Toggle(i)
    PROVE  ScreenInv'
<1>1. PICK u : /\ Edits(u)
               /\ \/ u = [ui EXCEPT !.titled = TRUE]
                  \/ \E x : u = [ui EXCEPT !.qs = x]
                  \/ \E x : u = [ui EXCEPT !.sel = x] /\ x \subseteq ui.sel \cup 1 .. ui.shown
                  \/ \E x : u = [ui EXCEPT !.refining = x]
                  \/ \E x, y : u = [ui EXCEPT !.refining = x, !.qs = y]
  BY EditWrites, Zenon
<1>2. u.panel = ui.panel /\ u.shown = ui.shown /\ u.sel \subseteq 1 .. ui.shown
  BY <1>1 DEF Typed, PageTyped, IsUi, ScreenInv, Selected, SelectedIn
<1>3. UNCHANGED <<row, tasks, calls, cache, fetch, stale, misled, born>> /\ ui' = u
  BY <1>1 DEF Edits, server, browser, history
<1>4. Selected'
  BY <1>2, <1>3 DEF ScreenInv, Selected, SelectedIn
<1>5. fetch' = [f \in Forms |-> fetch'[f]] /\ \A f \in Forms : Refetched(f, fetch'[f])
  BY <1>3 DEF ScreenInv, CacheTyped, Refetched
<1>6. \A t \in tasks' : t.form \in Born
  BY <1>3 DEF ScreenInv, Traces, TasksTraced
<1>7. (\A s \in Slots : CallTraces(calls'[s])) /\ \A g \in Forms : Covered(g) => Covered(g)'
  BY <1>3, CallsStay DEF ScreenInv, Traces, CallsTraced
<1> QED
  BY <1>3, <1>4, <1>5, <1>6, <1>7, ScreenKept

LEMMA SendingScreen ==
    ASSUME Typed, ScreenInv, NEW c, Sending(c)
    PROVE  ScreenInv'
<1>1. /\ UNCHANGED <<row, tasks, cache, fetch, stale, misled, born>> /\ c.st = "sent"
      /\ ui'.panel = ui.panel /\ ui'.shown = ui.shown /\ ui'.sel \subseteq ui.sel
      /\ c.then = "open" => c.op = "create"
  BY DEF Sending, server, browser
<1>2. PICK s \in Slots : calls[s] = NoCall /\ calls' = [calls EXCEPT ![s] = c]
  BY DEF Sending, Send, Typed, RowsTyped, Budget
<1>3. calls'[s] = c /\ \A t \in Slots \ {s} : calls'[t] = calls[t]
  BY <1>2 DEF Typed, CallsTyped
<1>4. \A t \in Slots : CallTraces(calls'[t])
  BY <1>1, <1>3 DEF ScreenInv, Traces, CallsTraced, CallTraces
<1>5. \A g \in Forms : Covered(g) => Covered(g)'
  BY <1>2, <1>3 DEF Covered, Covers, NoCall
<1>6. Selected'
  BY <1>1 DEF ScreenInv, Selected, SelectedIn
<1>7. fetch' = [f \in Forms |-> fetch'[f]] /\ \A f \in Forms : Refetched(f, fetch'[f])
  BY <1>1 DEF ScreenInv, CacheTyped, Refetched
<1>8. \A t \in tasks' : t.form \in Born
  BY <1>1 DEF ScreenInv, Traces, TasksTraced
<1> QED
  BY <1>1, <1>4, <1>5, <1>6, <1>7, <1>8, ScreenKept

\* The answer of call s arrives, or is lost: what the call has written is
\* marked, replaced, or known to be missed.
LEMMA CallEnds ==
    ASSUME Typed, ScreenInv, NEW s \in Slots, NEW d, calls' = [calls EXCEPT ![s] = d],
           d.st \in {"free", "sent", "failed"}, d.then = "open" => d.op = "create", born' = born
    PROVE  /\ CallsTraced' /\ \A t \in Slots : CallTraces(calls'[t])
           /\ \A f \in Forms : Covered(f) => Covered(f)' \/ Covers(calls[s], f)
<1>1. calls'[s] = d /\ \A t \in Slots \ {s} : calls'[t] = calls[t]
  BY DEF Typed, CallsTyped
<1>2. \A t \in Slots : CallTraces(calls'[t])
  BY <1>1 DEF ScreenInv, Traces, CallsTraced, CallTraces
<1>3. CallsTraced'
  BY <1>2 DEF CallsTraced, CallTraces, Born
<1>4. \A f \in Forms : Covered(f) => Covered(f)' \/ Covers(calls[s], f)
  BY <1>1 DEF Covered
<1> QED
  BY <1>2, <1>3, <1>4

\* An entry that is marked or known to be missed, and whose query is not to be
\* trusted, shows nothing wrong.
LEMMA Warned ==
    ASSUME ScreenInv, NEW f \in Forms, f \in stale' \/ f \in misled', fetch'[f] = Asked \/ fetch'[f] = Overtaken(f)
    PROVE  Shown(f)'
<1>1. IsFetch(fetch[f])
  BY DEF ScreenInv, CacheTyped
<1>2. fetch'[f].st # "answered" \/ fetch'[f].late
  BY <1>1, FetchTyped
<1> QED
  BY <1>2 DEF Shown, AnswerIsRow, EntryIsRow

LEMMA AnswerScreen ==
    ASSUME Typed, ScreenInv, NEW s \in Slots, NEW f \in Forms, f = calls[s].form,
           UNCHANGED <<row, tasks, cache, born>>, stale \subseteq stale', misled \subseteq misled', Selected',
           f \in stale' \/ f \in misled',
           NEW q, q = Asked \/ q = Overtaken(f), fetch' = [fetch EXCEPT ![f] = q],
           NEW d, calls' = [calls EXCEPT ![s] = d],
           d.st \in {"free", "sent", "failed"}, d.then = "open" => d.op = "create"
    PROVE  ScreenInv'
<1>1. fetch'[f] = q
  BY DEF ScreenInv, CacheTyped
<1>2. Shown(f)'
  BY <1>1, Warned
<1>3. fetch' = [g \in Forms |-> fetch'[g]] /\ \A g \in Forms : Refetched(g, fetch'[g])
  BY FetchWritten DEF ScreenInv, Refetched
<1>4. /\ \A t \in Slots : CallTraces(calls'[t])
      /\ \A g \in Forms : Covered(g) => Covered(g)' \/ Covers(calls[s], g)
  BY CallEnds
<1>5. \A g \in Forms : Covered(g) => Covered(g)' \/ Shown(g)'
  BY <1>2, <1>4 DEF Covers
<1>6. \A t \in tasks' : t.form \in Born
  BY DEF ScreenInv, Traces, TasksTraced
<1> QED
  BY <1>3, <1>4, <1>5, <1>6, ScreenKept

LEMMA NoFreeCall == NoCall.st = "free" /\ NoCall.then # "open"
BY DEF NoCall

\* What becomes of a call that is answered.
LEMMA CallIsAnswered ==
    ASSUME Typed, NEW s \in Slots, Deliver(s)
    PROVE  \E d : calls' = [calls EXCEPT ![s] = d] /\ d.st \in {"free", "sent"} /\ d.then # "open"
<1> DEFINE e == [calls[s] EXCEPT !.op = "publish", !.then = "publish", !.st = "sent", !.copy = None]
<1>1. calls' = [calls EXCEPT ![s] = NoCall] \/ calls' = [calls EXCEPT ![s] = e]
  BY Zenon DEF Deliver, OnCreated, OnDuplicated, OnUpdated, OnPublished, OnForm, OnDeleted, OnFailed, Done, Then
<1>2. e.st = "sent" /\ e.then # "open"
  BY DEF Typed, CallsTyped, IsCall
<1> HIDE DEF e
<1> QED
  BY <1>1, <1>2, NoFreeCall, Zenon

\* The answer of a call that covers nothing.
LEMMA QuietScreen ==
    ASSUME Typed, ScreenInv, NEW s \in Slots,
           UNCHANGED <<row, tasks, cache, born, misled, stale>>, Selected',
           \A g \in Forms : ~Covers(calls[s], g),
           fetch' = [f \in Forms |-> fetch'[f]], \A f \in Forms : Refetched(f, fetch'[f]),
           NEW d, calls' = [calls EXCEPT ![s] = d],
           d.st \in {"free", "sent", "failed"}, d.then = "open" => d.op = "create"
    PROVE  ScreenInv'
<1>1. /\ \A t \in Slots : CallTraces(calls'[t])
      /\ \A g \in Forms : Covered(g) => Covered(g)' \/ Covers(calls[s], g)
  BY CallEnds
<1>2. \A t \in tasks' : t.form \in Born
  BY DEF ScreenInv, Traces, TasksTraced
<1> QED
  BY <1>1, <1>2, ScreenKept

LEMMA OnFormScreen ==
    ASSUME Typed, ScreenInv, NEW s \in Slots, OnForm(s)
    PROVE  ScreenInv'
<1> DEFINE c == calls[s]
<1>1. /\ UNCHANGED <<row, tasks, born>> /\ c.st = "ok" /\ c.op \in {"suggest", "clarify", "clear"}
      /\ SetData(c.form, c.copy) /\ IsCall(c) /\ Aimed(c)
  BY DEF OnForm, server, history, Typed, CallsTyped
<1>2. PICK f \in Forms : f = c.form
  BY <1>1 DEF Aimed, IsCall
<1> DEFINE q == Overtaken(f)
<1>3. /\ cache' = [cache EXCEPT ![f] = c.copy] /\ fetch' = [fetch EXCEPT ![f] = q]
      /\ stale' = stale \ {f}
      /\ misled' = IF c.copy = row[f] \/ c.copy.st = "processing_ai" THEN misled \ {f} ELSE misled \cup {f}
  BY <1>1, <1>2 DEF SetData
<1>4. IsFetch(q) /\ (q.st # "answered" \/ q.late)
  BY FetchTyped DEF ScreenInv, CacheTyped
<1>5. f \in Born
  BY <1>1, <1>2 DEF ScreenInv, Traces, CallsTraced, CallTraces
<1> HIDE DEF q
<1>6. cache'[f] = c.copy /\ fetch'[f] = q
  BY <1>3 DEF ScreenInv, CacheTyped
<1>7. Shown(f)'
  BY <1>1, <1>3, <1>4, <1>6 DEF Shown, AnswerIsRow, EntryIsRow
<1>8. PICK d : calls' = [calls EXCEPT ![s] = d] /\ d.st \in {"free", "sent"} /\ d.then # "open"
  BY CallIsAnswered DEF Deliver
<1>9. CallsTraced' /\ \A g \in Forms : Covered(g) => Covered(g)' \/ Covers(c, g)
  BY <1>1, <1>8, CallEnds
<1>10. \A g \in Forms \ {f} : Covered(g) => Covered(g)'
  BY <1>2, <1>9 DEF Covers
<1>11. Selected'
  <2> DEFINE titled == (ui.titled \/ c.then = "new")
             form == IF c.then = "new" THEN c.form ELSE ui.form
             v == [ui EXCEPT !.panel = c.form, !.titled = titled, !.form = form]
             u == IF ~Alive(c) \/ c.op # "suggest" THEN ui ELSE v
  <2>1. ui' = Rendered(u, cache')
    BY DEF OnForm
  <2>2. titled \in BOOLEAN /\ form \in Forms \cup {None} /\ IsUi(ui)
    BY <1>2 DEF Typed, PageTyped, IsUi
  <2> HIDE DEF titled, form
  <2>3. IsUi(v) /\ v.sel = ui.sel /\ v.shown = ui.shown
    BY <1>2, <2>2 DEF IsUi
  <2> HIDE DEF v
  <2>4. IsUi(u) /\ u.sel \subseteq 1 .. u.shown
    BY <2>2, <2>3 DEF ScreenInv, Selected, SelectedIn
  <2> HIDE DEF u
  <2>5. SelectedIn(ui', cache')
    BY <2>1, <2>4, RenderedSelects
  <2> QED
    BY <2>5 DEF Selected
<1>12. stale \ {f} \subseteq stale' /\ misled \ {f} \subseteq misled'
  BY <1>3
<1> QED
  BY <1>1, <1>3, <1>4, <1>5, <1>7, <1>9, <1>10, <1>11, <1>12, EntryScreen

LEMMA DeliverScreen ==
    ASSUME Typed, ScreenInv, NEW s \in Slots, Deliver(s)
    PROVE  ScreenInv'
<1> DEFINE c == calls[s]
<1>0. IsCall(c) /\ Aimed(c) /\ CallTraces(c) /\ (c.st = "ok" => c.form \in Forms)
  BY DEF Typed, CallsTyped, ScreenInv, Traces, CallsTraced, Aimed, IsCall
<1>1. PICK d : calls' = [calls EXCEPT ![s] = d] /\ d.st \in {"free", "sent"} /\ d.then # "open"
  BY CallIsAnswered
<1>2. UNCHANGED <<row, tasks, born>> /\ (~OnForm(s) => UNCHANGED <<cache, misled>>)
  BY DEF Deliver, OnCreated, OnDuplicated, OnUpdated, OnPublished, OnForm, OnDeleted, OnFailed,
         server, browser, history
<1>3. CASE OnForm(s)
  BY <1>3, OnFormScreen
<1>4. CASE OnDeleted(s) \/ OnFailed(s)
  <2>1. UNCHANGED <<row, tasks, cache, born, misled, stale, fetch, ui>> /\ \A g \in Forms : ~Covers(c, g)
    BY <1>4 DEF OnDeleted, OnFailed, server, browser, local, history, Covers
  <2>2. Selected' /\ fetch' = [f \in Forms |-> fetch'[f]] /\ \A f \in Forms : Refetched(f, fetch'[f])
    BY <2>1 DEF ScreenInv, CacheTyped, Selected, SelectedIn, Refetched
  <2> QED
    BY <1>1, <2>1, <2>2, QuietScreen
<1>5. CASE OnDuplicated(s)
  <2>1. /\ c.st = "ok" /\ c.then = "open" /\ Enter(c.form) /\ Subscribed(c.form, Asked)
        /\ UNCHANGED <<row, tasks, cache, born, misled>>
    BY <1>2, <1>5 DEF OnDuplicated, history
  <2>2. PICK f \in Forms : f = c.form
    BY <1>0, <2>1
  <2>3. stale' = stale /\ fetch' = [g \in Forms |-> fetch'[g]] /\ \A g \in Forms : Refetched(g, fetch'[g])
    BY <2>1, <2>2, SubscribedRefetches
  <2>4. Selected'
    BY <2>1, <2>2, EnterSelects
  <2>5. \A g \in Forms : ~Covers(c, g)
    BY <1>0, <2>1 DEF CallTraces, Covers
  <2> QED
    BY <1>1, <2>1, <2>3, <2>4, <2>5, QuietScreen
<1>6. CASE OnCreated(s)
  <2>1. c.st = "ok" /\ c.op = "create" /\ UNCHANGED <<row, tasks, cache, born, misled>>
    BY <1>2, <1>6 DEF OnCreated, server, history
  <2>2. PICK f \in Forms : f = c.form
    BY <1>0, <2>1
  <2>3. stale' = stale /\ fetch' = [g \in Forms |-> fetch'[g]] /\ \A g \in Forms : Refetched(g, fetch'[g])
    <3>1. CASE Subscribed(f, Asked)
      BY <3>1, SubscribedRefetches
    <3>2. CASE UNCHANGED <<fetch, stale>>
      BY <3>2 DEF ScreenInv, CacheTyped, Refetched
    <3> QED
      BY <1>6, <2>2, <3>1, <3>2 DEF OnCreated
  <2>4. Selected'
    <3> DEFINE u == [ui EXCEPT !.form = f, !.panel = f]
    <3>1. IsUi(u) /\ u.sel = ui.sel /\ u.shown = ui.shown
      BY DEF Typed, PageTyped, IsUi
    <3>2. ui' = Rendered(u, cache) \/ ui' = ui
      BY <1>6, <2>2 DEF OnCreated, Adopted
    <3> HIDE DEF u
    <3>3. u.sel \subseteq 1 .. u.shown
      BY <3>1 DEF ScreenInv, Selected, SelectedIn
    <3>4. SelectedIn(ui', cache)
      BY <3>1, <3>2, <3>3, RenderedSelects DEF ScreenInv, Selected
    <3> QED
      BY <2>1, <3>4 DEF Selected
  <2>5. \A g \in Forms : ~Covers(c, g)
    BY <2>1 DEF Covers
  <2> QED
    BY <1>1, <2>1, <2>3, <2>4, <2>5, QuietScreen
<1>7. CASE OnUpdated(s) \/ OnPublished(s)
  <2>1. c.st = "ok" /\ UNCHANGED <<row, tasks, cache, born, misled>>
    BY <1>2, <1>7 DEF OnUpdated, OnPublished, server, history
  <2>2. PICK f \in Forms : f = c.form
    BY <1>0, <2>1
  <2>3. stale' = stale \cup {f} /\ \E q : (q = Asked \/ q = Overtaken(f)) /\ fetch' = [fetch EXCEPT ![f] = q]
    <3>1. CASE Invalidated(f)
      BY <3>1, Zenon DEF Invalidated
    <3>2. CASE ~Invalidated(f)
      BY <1>7, <2>2, <3>2, Zenon DEF OnUpdated, OnPublished
    <3> QED
      BY <3>1, <3>2
  <2>4. Selected'
    <3>1. SelectedIn(ui', cache)
      BY <1>7, NoUiSelects DEF OnUpdated, OnPublished, Leave, local, ScreenInv, Selected
    <3> QED
      BY <2>1, <3>1 DEF Selected
  <2> QED
    BY <1>1, <2>1, <2>2, <2>3, <2>4, AnswerScreen
<1> QED
  BY <1>3, <1>4, <1>5, <1>6, <1>7 DEF Deliver

LEMMA LoseCallScreen ==
    ASSUME Typed, ScreenInv, NEW s \in Slots, LoseCall(s)
    PROVE  ScreenInv'
<1> DEFINE c == calls[s]
           d == [c EXCEPT !.st = "failed"]
<1>0. IsCall(c) /\ Aimed(c) /\ CallTraces(c) /\ (c.st = "ok" => c.form \in Forms)
  BY DEF Typed, CallsTyped, ScreenInv, Traces, CallsTraced, Aimed, IsCall
<1>1. calls' = [calls EXCEPT ![s] = d] /\ d.st = "failed" /\ d.then = c.then /\ d.op = c.op
  BY <1>0 DEF LoseCall, IsCall
<1> HIDE DEF d
<1>2. UNCHANGED <<row, tasks, cache, stale, born, ui>>
  BY DEF LoseCall, server, local
<1>3. Selected' /\ (d.then = "open" => d.op = "create")
  BY <1>0, <1>1, <1>2 DEF ScreenInv, Selected, SelectedIn, CallTraces
<1>4. CASE c.st = "ok"
  <2>1. PICK f \in Forms : f = c.form
    BY <1>0, <1>4
  <2>2. misled' = misled \cup {f} /\ fetch' = [fetch EXCEPT ![f] = Overtaken(f)]
    BY <1>4, <2>1 DEF LoseCall
  <2>3. stale \subseteq stale' /\ misled \subseteq misled' /\ f \in misled'
    BY <1>2, <2>2
  <2> QED
    BY <1>1, <1>2, <1>3, <2>1, <2>2, <2>3, AnswerScreen
<1>5. CASE c.st # "ok"
  <2>1. UNCHANGED <<misled, fetch>> /\ \A g \in Forms : ~Covers(c, g)
    BY <1>5 DEF LoseCall, Covers
  <2>2. fetch' = [f \in Forms |-> fetch'[f]] /\ \A f \in Forms : Refetched(f, fetch'[f])
    BY <2>1 DEF ScreenInv, CacheTyped, Refetched
  <2> QED
    BY <1>1, <1>2, <1>3, <2>1, <2>2, QuietScreen
<1> QED
  BY <1>4, <1>5

LEMMA ScreenInit == Init => ScreenInv
<1> SUFFICES ASSUME Init PROVE ScreenInv
  OBVIOUS
<1>1. \A f \in Forms : cache[f] = None /\ fetch[f] = NoFetch
  BY DEF Init
<1>2. CacheTyped
  BY <1>1, FetchTyped DEF Init, CacheTyped
<1>3. CallsTraced
  BY NoFreeCall DEF Init, CallsTraced, CallTraces
<1>4. ASSUME NEW f \in Forms \ Born PROVE Unmade(f)
  <2>1. f \notin born[0]
    BY LimitsAssumption DEF Born
  <2>2. row[f] = None
    BY <2>1, LimitsAssumption DEF Init
  <2> QED
    BY <1>1, <2>2, FetchTyped DEF Unmade
<1>5. Selected
  BY NoUiSelects DEF Init, Selected
<1>6. \A f \in Forms : Shown(f)
  BY <1>1, FetchTyped DEF Shown, AnswerIsRow, EntryIsRow
<1> QED
  BY <1>2, <1>3, <1>4, <1>5, <1>6 DEF ScreenInv, Traces, TasksTraced, Init

LEMMA ScreenNext ==
    ASSUME Typed, ScreenInv, [Next]_vars
    PROVE  ScreenInv'
<1>1. ASSUME NEW s \in Slots, Handle(s) \/ Deliver(s) \/ LoseCall(s) PROVE ScreenInv'
  BY <1>1, ReadScreen, WriteScreen, DeleteScreen, InsertScreen, DeliverScreen, LoseCallScreen DEF Handle
<1>2. ASSUME NEW t \in tasks, Work(t) \/ Bridge(t) PROVE ScreenInv'
  BY <1>2, TasksScreen, SettleScreen DEF Work
<1>3. ASSUME NEW f \in Forms, Query(f) \/ Reap(f) PROVE ScreenInv'
  BY <1>3, PollScreen, ServeScreen, StoreScreen, LoadFailsScreen, TasksScreen DEF Query
<1>4. CASE Restart
  BY <1>4, RestartScreen
<1>5. CASE Navigate
  BY <1>5, NavigateScreen
<1>6. CASE Edit \/ \E i \in 1 .. MaxItems : Toggle(i)
  BY <1>6, EditScreen
<1>7. CASE RunSuggest \/ SubmitAnswers \/ CancelJob \/ AddSelected \/ Command
  BY <1>7, AskSends, CommandSends, SendingScreen
<1>8. CASE UNCHANGED vars
  <2>1. UNCHANGED <<row, tasks, calls, cache, fetch, stale, misled, born, ui>>
    BY <1>8 DEF vars, server, browser, local, history
  <2>2. CacheTyped' /\ Selected'
    BY <2>1 DEF ScreenInv, CacheTyped, Selected, SelectedIn
  <2>3. fetch' = [f \in Forms |-> fetch'[f]] /\ \A f \in Forms : Refetched(f, fetch'[f])
    BY <2>1 DEF ScreenInv, CacheTyped, Refetched
  <2>4. \A t \in tasks' : t.form \in Born
    BY <2>1 DEF ScreenInv, Traces, TasksTraced
  <2>5. (\A s \in Slots : CallTraces(calls'[s])) /\ \A g \in Forms : Covered(g) => Covered(g)'
    BY <2>1, CallsStay DEF ScreenInv, Traces, CallsTraced
  <2> QED
    BY <2>1, <2>2, <2>3, <2>4, <2>5, ScreenKept
<1> QED
  BY <1>1, <1>2, <1>3, <1>4, <1>5, <1>6, <1>7, <1>8 DEF Next, Ask

\* When nothing is under way for the form on screen the page shows it as it is
\* or polls (useFeedbackForm, the mutations' onSuccess), and the AI panel
\* selects among the questions it shows (FeedbackFormAIPanel).
THEOREM PageShowsTheForm == Spec => []PageHolds
<1>1. Init => Typed /\ ScreenInv
  BY TypedInit, ScreenInit
<1>2. Typed /\ ScreenInv /\ [Next]_vars => (Typed /\ ScreenInv)'
  BY TypedNext, ScreenNext
<1>3. ScreenInv => PageHolds
  <2> SUFFICES ASSUME ScreenInv PROVE PageHolds
    OBVIOUS
  <2>1. \A f \in Forms : Covered(f) => \E s \in Slots : calls[s].form = f
    BY DEF Covered, Covers
  <2>2. ScreenIsCurrent
    BY <2>1 DEF ScreenInv, Shown, EntryIsRow, ScreenIsCurrent
  <2>3. Panel = "prompt" => ui.shown = 0
    BY DEF Panel, ScreenInv, Selected, SelectedIn
  <2>4. SelectionIsShown
    BY <2>3 DEF ScreenInv, Selected, SelectedIn, SelectionIsShown
  <2> QED
    BY <2>2, <2>4 DEF PageHolds
<1> QED
  BY <1>1, <1>2, <1>3, PTL DEF Spec

=============================================================================
