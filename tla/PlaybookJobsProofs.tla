------------------------- MODULE PlaybookJobsProofs -------------------------
(***************************************************************************)
(* Proofs about PlaybookJobs for every set of jobs, events and runs, any   *)
(* number of overlapping handlers and any number of restarts.              *)
(***************************************************************************)
EXTENDS PlaybookJobs, TLAPS

(* How the operators on rows behave. *)

LEMMA NewRowFacts ==
    ASSUME NEW e \in Events \cup {None}
    PROVE  /\ NewRow(e) \in Row /\ RowConsistent(NewRow(e))
           /\ NewRow(e).content = None /\ NewRow(e).revisions = {}
    BY DEF NewRow, Row, RowConsistent, Status

LEMMA FailedFacts ==
    ASSUME NEW r \in Row
    PROVE  /\ Failed(r) \in Row /\ RowConsistent(Failed(r))
           /\ Failed(r).content = r.content /\ Failed(r).revisions = r.revisions
    BY DEF Failed, Row, RowConsistent, Status

LEMMA ReportedFacts ==
    ASSUME NEW r \in Row, NEW t \in Tasks, NEW ok \in BOOLEAN
    PROVE  /\ Reported(r, t, ok) \in Row /\ RowConsistent(Reported(r, t, ok))
           /\ Reported(r, t, ok).content \in {t, r.content}
           /\ Reported(r, t, ok).revisions = r.revisions
    BY FailedFacts, NoneAssumption DEF Reported, Row, RowConsistent, Status

\* Clearing the flag that Save clears, or the link, keeps the rest of a row.
LEMMA StampFacts ==
    ASSUME NEW r \in Row, NEW b \in BOOLEAN
    PROVE  LET s == [r EXCEPT !.stale = b] IN
           /\ s \in Row
           /\ RowConsistent(r) => RowConsistent(s)
           /\ s.content = r.content /\ s.revisions = r.revisions
           /\ s.event = r.event
    BY DEF Row, RowConsistent

LEMMA UnlinkFacts ==
    ASSUME NEW r \in Row
    PROVE  LET s == [r EXCEPT !.event = None] IN
           /\ s \in Row
           /\ RowConsistent(r) => RowConsistent(s)
           /\ s.content = r.content /\ s.revisions = r.revisions
           /\ s.event = None
    BY DEF Row, RowConsistent

LEMMA WriteFacts ==
    ASSUME NEW op \in Op, NEW j \in Jobs \cup {None}, NEW r \in Row,
           NEW t \in Tasks \cup {None}
    PROVE  LET h == Write(op, j, r, t) IN
           /\ h \in Handler
           /\ h.op = op /\ h.job = j /\ h.row = r /\ h.task = t
    BY DEF Write, Handler

-----------------------------------------------------------------------------
(* The inductive step, once for all actions. *)

\* A run that has been dispatched keeps its job and never goes back.
RunsAdvance ==
    \A t \in Tasks :
        stage[t] \notin {"free", "claimed"} =>
            /\ owner'[t] = owner[t]
            /\ stage'[t] \notin {"free", "claimed"}
            /\ stage[t] = "over" => stage'[t] = "over"

\* RowOwned in the next state, of a row given as a value.
OwnedAfter(j, r) ==
    /\ r.content # None => owner'[r.content] = j /\ stage'[r.content] = "over"
    /\ \A t \in r.revisions : owner'[t] = j /\ stage'[t] \notin {"free", "claimed"}

\* What is required of a row that a step writes.
RowSoundAfter(j, r) == RowConsistent(r) /\ OwnedAfter(j, r) /\ j \in used'

LEMMA OwnedKept ==
    ASSUME RunsAdvance
    PROVE  \A j \in Jobs : \A r \in Row : RowOwned(j, r) => OwnedAfter(j, r)
    BY NoneAssumption DEF RunsAdvance, Row, RowOwned, OwnedAfter

LEMMA StepLemma ==
    ASSUME IInv, TypeOK', RunsAdvance, used \subseteq used',
           \A j \in Jobs : \/ row'[j] \in {row[j], None}
                           \/ RowSoundAfter(j, row'[j]),
           \A h \in inflight' :
               \/ h \in inflight /\ (Starts(h) => stage'[h.task] = "claimed")
               \/ HandlerSound(h)',
           ClaimsDistinct', RunsOwned'
    PROVE  IInv'
<1>1. \A j \in Jobs : Exists(j)' => RowSoundAfter(j, row'[j])
  <2> SUFFICES ASSUME NEW j \in Jobs, row'[j] = row[j], row[j] # None
               PROVE  RowSoundAfter(j, row[j])
    BY DEF Exists
  <2>1. row[j] \in Row /\ RowConsistent(row[j]) /\ RowOwned(j, row[j]) /\ j \in used
    BY DEF IInv, TypeOK, RowsConsistent, Provenance, RowsUsed, Exists
  <2>2. OwnedAfter(j, row[j])
    BY <2>1, OwnedKept
  <2> QED
    BY <2>1, <2>2 DEF RowSoundAfter
<1>2. HandlersSound'
  <2> SUFFICES ASSUME NEW h \in inflight,
                      Starts(h) => stage'[h.task] = "claimed"
               PROVE  HandlerSound(h)'
    BY DEF HandlersSound
  <2>1. HandlerSound(h) /\ h.row \in Row /\ h.job \in Jobs \cup {None} /\ h \in Handler
    BY DEF IInv, TypeOK, Handler, HandlersSound
  <2>2. CASE h.op \in {"create", "replace"}
    BY <2>1, <2>2 DEF HandlerSound
  <2>3. CASE h.op \notin {"create", "replace"}
    <3> DEFINE r == IF h.op = "refine" THEN [h.row EXCEPT !.revisions = @ \ {h.task}]
                                       ELSE h.row
    <3>1. r \in Row
      BY <2>1 DEF Row
    <3>2. h.job \in used /\ RowOwned(h.job, r)
      BY <2>1, <2>3 DEF HandlerSound
    <3>3. h.job \in Jobs
      BY <3>2 DEF IInv, TypeOK
    <3>4. OwnedAfter(h.job, r)
      BY <3>1, <3>2, <3>3, OwnedKept
    <3>5. RowOwned(h.job, r)'
      BY <3>4 DEF RowOwned, OwnedAfter
    <3> QED
      BY <2>1, <2>3, <3>2, <3>5 DEF HandlerSound
  <2> QED
    BY <2>2, <2>3
<1> QED
  BY <1>1, <1>2 DEF IInv, RowsConsistent, Provenance, RowOwned, OwnedAfter,
                    RowSoundAfter, RowsUsed, Exists

-----------------------------------------------------------------------------
(* Requests *)

LEMMA LaunchFacts ==
    ASSUME TypeOK, NEW j \in Jobs, NEW t \in Tasks, Launch(j, t),
           stage[t] \in {"free", "claimed"}, RunsOwned
    PROVE  /\ RunsAdvance /\ RunsOwned'
           /\ \A u \in Tasks \ {t} : stage'[u] = stage[u]
           /\ stage' \in [Tasks -> {"free", "claimed", "queued", "running", "over"}]
           /\ owner' \in [Tasks -> Jobs \cup {None}]
           /\ waiting' \subseteq Tasks
    BY DEF TypeOK, Launch, RunsAdvance, RunsOwned

LEMMA CreateCustomStep ==
    ASSUME IInv, NEW j \in Jobs, NEW t \in Tasks, CreateCustom(j, t)
    PROVE  IInv'
<1> USE DEF CreateCustom
<1>1. TypeOK /\ RunsOwned
  BY DEF IInv
<1>2. RunsAdvance /\ RunsOwned' /\ \A u \in Tasks \ {t} : stage'[u] = stage[u]
  BY <1>1, LaunchFacts
<1>3. TypeOK'
  BY <1>1, LaunchFacts, NewRowFacts DEF TypeOK
<1>4. \A k \in Jobs : row'[k] = row[k] \/ RowSoundAfter(k, row'[k])
  BY <1>1, NewRowFacts DEF TypeOK, RowSoundAfter, OwnedAfter
<1>5. \A h \in inflight : Starts(h) => stage'[h.task] = "claimed"
  BY <1>2 DEF IInv, HandlersSound, HandlerSound
<1>6. ClaimsDistinct'
  BY DEF IInv, ClaimsDistinct, Starts
<1> QED
  BY <1>2, <1>3, <1>4, <1>5, <1>6, StepLemma

\* A step that reads a row of a job and sets run t aside for the new handler.
LEMMA ClaimStep ==
    ASSUME IInv, NEW t \in Tasks, NEW n \in Handler, stage[t] = "free",
           stage' = [stage EXCEPT ![t] = "claimed"], inflight' = inflight \cup {n},
           Starts(n), n.task = t, HandlerSound(n)',
           UNCHANGED <<row, used, events, owner, waiting, up, crashes>>
    PROVE  IInv'
<1>1. TypeOK /\ RunsOwned
  BY DEF IInv
<1>2. RunsAdvance /\ RunsOwned' /\ TypeOK'
  BY <1>1 DEF TypeOK, RunsAdvance, RunsOwned
<1>3. \A h \in inflight : Starts(h) => h.task # t /\ stage'[h.task] = "claimed"
  BY <1>1 DEF IInv, TypeOK, HandlersSound, HandlerSound
<1>4. ClaimsDistinct'
  BY <1>3 DEF IInv, ClaimsDistinct
<1> QED
  BY <1>2, <1>3, <1>4, StepLemma

LEMMA GenerateForEventStep ==
    ASSUME IInv, NEW e \in Events, NEW t \in Tasks, GenerateForEvent(e, t)
    PROVE  IInv'
<1> USE DEF GenerateForEvent
<1>1. TypeOK
  BY DEF IInv
<1>2. CASE \E j \in Jobs :
             /\ Exists(j) /\ row[j].event = e
             /\ inflight' = inflight \cup
                  {[Write("unlink", j, [row[j] EXCEPT !.event = None], t)
                      EXCEPT !.for = e]}
  <2>1. PICK j \in Jobs :
             /\ Exists(j) /\ row[j].event = e
             /\ inflight' = inflight \cup
                  {[Write("unlink", j, [row[j] EXCEPT !.event = None], t)
                      EXCEPT !.for = e]}
    BY <1>2
  <2>r. PICK r : r = [row[j] EXCEPT !.event = None]
    OBVIOUS
  <2>n. PICK n : n = [Write("unlink", j, r, t) EXCEPT !.for = e]
    OBVIOUS
  <2>2. row[j] \in Row /\ RowConsistent(row[j]) /\ RowOwned(j, row[j]) /\ j \in used
    BY <1>1, <2>1 DEF IInv, TypeOK, RowsConsistent, Provenance, RowsUsed, Exists
  <2>3. r \in Row /\ RowConsistent(r) /\ r.content = row[j].content
        /\ r.revisions = row[j].revisions
    BY <2>2, <2>r, UnlinkFacts
  <2>4. n \in Handler /\ n.op = "unlink" /\ n.job = j /\ n.row = r /\ n.task = t
    BY <2>3, <2>n DEF Write, Handler, Op
  <2>5. stage' = [stage EXCEPT ![t] = "claimed"] /\ stage[t] = "free"
        /\ owner' = owner /\ used' = used
    OBVIOUS
  <2>6. RowOwned(j, r)'
    BY <1>1, <2>2, <2>3, <2>5 DEF RowOwned, TypeOK, Row
  <2>7. HandlerSound(n)'
    BY <1>1, <2>2, <2>3, <2>4, <2>5, <2>6 DEF HandlerSound, Starts, TypeOK
  <2> QED
    BY <2>1, <2>r, <2>n, <2>4, <2>7, ClaimStep DEF Starts
<1>3. CASE inflight' = inflight \cup
             {[Write("create", None, NewRow(e), t) EXCEPT !.for = e]}
  <2>n. PICK n : n = [Write("create", None, NewRow(e), t) EXCEPT !.for = e]
    OBVIOUS
  <2>1. n \in Handler /\ n.op = "create" /\ n.row = NewRow(e) /\ n.task = t
    BY <2>n, NewRowFacts DEF Write, Handler, Op
  <2>2. HandlerSound(n)'
    BY <1>1, <2>1, NewRowFacts DEF HandlerSound, TypeOK
  <2> QED
    BY <1>3, <2>n, <2>1, <2>2, ClaimStep DEF Starts
<1> QED
  BY <1>2, <1>3

LEMMA RetryStep ==
    ASSUME IInv, NEW j \in Jobs, NEW t \in Tasks, Retry(j, t)
    PROVE  IInv'
<1> USE DEF Retry
<1>r. PICK r : r = [row[j] EXCEPT !.status = "in_progress", !.err = FALSE]
  OBVIOUS
<1>n. PICK n : n = Write("retry", j, r, t)
  OBVIOUS
<1>1. /\ TypeOK /\ row[j] \in Row /\ RowConsistent(row[j]) /\ RowOwned(j, row[j])
      /\ j \in used
  BY DEF IInv, TypeOK, RowsConsistent, Provenance, RowsUsed, Exists
<1>2. /\ r \in Row /\ RowConsistent(r)
      /\ r.content = row[j].content /\ r.revisions = row[j].revisions
  BY <1>r, <1>1 DEF Row, RowConsistent, Status
<1>3. n \in Handler /\ n.op = "retry" /\ n.job = j /\ n.row = r /\ n.task = t
  BY <1>n, <1>2, WriteFacts DEF Op
<1>4. RowOwned(j, r)'
  BY <1>1, <1>2 DEF RowOwned, TypeOK, Row
<1>5. HandlerSound(n)'
  BY <1>1, <1>2, <1>3, <1>4 DEF HandlerSound, TypeOK
<1> QED
  BY <1>r, <1>n, <1>3, <1>5, ClaimStep DEF Starts

LEMMA RefineStep ==
    ASSUME IInv, NEW j \in Jobs, NEW t \in Tasks, Refine(j, t)
    PROVE  IInv'
<1> USE DEF Refine
<1>r. PICK r : r = [row[j] EXCEPT !.status = "updating", !.revisions = @ \cup {t}]
  OBVIOUS
<1>n. PICK n : n = Write("refine", j, r, t)
  OBVIOUS
<1>1. /\ TypeOK /\ row[j] \in Row /\ RowConsistent(row[j]) /\ RowOwned(j, row[j])
      /\ j \in used
  BY DEF IInv, TypeOK, RowsConsistent, Provenance, RowsUsed, Exists
<1>2. /\ r \in Row /\ RowConsistent(r)
      /\ r.content = row[j].content /\ r.revisions = row[j].revisions \cup {t}
  BY <1>r, <1>1 DEF Row, RowConsistent, Status
<1>3. n \in Handler /\ n.op = "refine" /\ n.job = j /\ n.row = r /\ n.task = t
  BY <1>n, <1>2, WriteFacts DEF Op
<1>4. RowOwned(j, [r EXCEPT !.revisions = @ \ {t}])'
  <2>1. PICK s : s = [r EXCEPT !.revisions = @ \ {t}]
    OBVIOUS
  <2>2. s \in Row /\ s.content = r.content /\ s.revisions = r.revisions \ {t}
    BY <2>1, <1>2 DEF Row
  <2>3. RowOwned(j, s)'
    BY <1>1, <1>2, <2>2 DEF RowOwned, TypeOK, Row
  <2> QED
    BY <2>1, <2>3
<1>5. HandlerSound(n)'
  BY <1>1, <1>2, <1>3, <1>4 DEF HandlerSound, TypeOK
<1> QED
  BY <1>r, <1>n, <1>3, <1>5, ClaimStep DEF Starts

LEMMA DeleteStep ==
    ASSUME IInv, NEW j \in Jobs, Delete(j)
    PROVE  IInv'
<1> USE DEF Delete
<1>1. RunsAdvance /\ TypeOK'
  BY DEF IInv, TypeOK, RunsAdvance
<1>2. \A k \in Jobs : row'[k] \in {row[k], None}
  BY DEF IInv, TypeOK
<1>3. \A h \in inflight : Starts(h) => stage'[h.task] = "claimed"
  BY DEF IInv, HandlersSound, HandlerSound
<1>4. ClaimsDistinct' /\ RunsOwned'
  BY DEF IInv, ClaimsDistinct, RunsOwned
<1> QED
  BY <1>1, <1>2, <1>3, <1>4, StepLemma

LEMMA DeleteEventStep ==
    ASSUME IInv, NEW e \in Events, DeleteEvent(e)
    PROVE  IInv'
<1> USE DEF DeleteEvent
<1>1. TypeOK /\ RunsAdvance
  BY DEF IInv, RunsAdvance
<1>2. \A j \in Jobs : \/ row'[j] = row[j]
                      \/ row'[j] \in Row /\ RowSoundAfter(j, row'[j])
  <2> SUFFICES ASSUME NEW j \in Jobs, Exists(j),
                      row'[j] = [row[j] EXCEPT !.event = None]
               PROVE  row'[j] \in Row /\ RowSoundAfter(j, row'[j])
    OBVIOUS
  <2>1. /\ row[j] \in Row /\ RowConsistent(row[j]) /\ RowOwned(j, row[j])
        /\ j \in used
    BY DEF IInv, TypeOK, RowsConsistent, Provenance, RowsUsed, Exists
  <2> QED
    BY <2>1, UnlinkFacts DEF RowSoundAfter, RowOwned, OwnedAfter
<1>3. TypeOK'
  BY <1>1, <1>2 DEF TypeOK
<1>4. \A h \in inflight : Starts(h) => stage'[h.task] = "claimed"
  BY DEF IInv, HandlersSound, HandlerSound
<1>5. ClaimsDistinct' /\ RunsOwned'
  BY DEF IInv, ClaimsDistinct, RunsOwned
<1> QED
  BY <1>1, <1>2, <1>3, <1>4, <1>5, StepLemma

-----------------------------------------------------------------------------
(* Handlers that write *)

LEMMA SaveFacts ==
    ASSUME TypeOK, NEW j \in Jobs, NEW r \in Row, RowConsistent(r), Save(j, r)
    PROVE  /\ row' \in [Jobs -> Row \cup {None}]
           /\ \A k \in Jobs : k # j => row'[k] = row[k]
           /\ RowConsistent(row'[j])
           /\ OwnedAfter(j, r) => OwnedAfter(j, row'[j])
<1>1. PICK s : s = [r EXCEPT !.stale = FALSE]
  OBVIOUS
<1>2. /\ s \in Row /\ RowConsistent(s)
      /\ s.content = r.content /\ s.revisions = r.revisions
  BY <1>1, StampFacts
<1>3. row' = [row EXCEPT ![j] = s]
  BY <1>1 DEF Save
<1> QED
  BY <1>2, <1>3 DEF TypeOK, OwnedAfter

\* The runs that other handlers have set aside are not the one of h.
LEMMA OthersKeepTheirClaims ==
    ASSUME IInv, NEW h \in inflight, Starts(h)
    PROVE  \A g \in inflight : g # h /\ Starts(g) => g.task # h.task
    BY DEF IInv, ClaimsDistinct

LEMMA HandlerType ==
    ASSUME IInv, NEW h \in inflight
    PROVE  /\ h.op \in Op /\ h.job \in Jobs \cup {None} /\ h.row \in Row
           /\ h.task \in Tasks \cup {None} /\ h.for \in Events \cup {None}
           /\ HandlerSound(h)
    BY DEF IInv, TypeOK, Handler, HandlersSound

LEMMA SaveUnlinkStep ==
    ASSUME IInv, NEW h \in inflight, SaveUnlink(h)
    PROVE  IInv'
<1> USE DEF SaveUnlink
<1>n. PICK n : n = [Write("replace", None, NewRow(h.for), h.task) EXCEPT !.for = h.for]
  OBVIOUS
<1>1. TypeOK /\ RunsAdvance
  BY DEF IInv, RunsAdvance
<1>2. /\ h.job \in used /\ h.job \in Jobs /\ h.task \in Tasks
      /\ stage[h.task] = "claimed" /\ Starts(h)
      /\ h.row \in Row /\ RowConsistent(h.row) /\ RowOwned(h.job, h.row)
  BY <1>1, HandlerType DEF HandlerSound, Starts, TypeOK
<1>3. n \in Handler /\ n.op = "replace" /\ n.row = NewRow(h.for) /\ n.task = h.task
  BY <1>n, HandlerType, NewRowFacts DEF Write, Handler, Op
<1>4. \A k \in Jobs : row'[k] = row[k] \/ RowSoundAfter(k, row'[k])
  BY <1>1, <1>2, SaveFacts, OwnedKept DEF RowSoundAfter
<1>5. TypeOK'
  BY <1>1, <1>n, <1>2, <1>3, SaveFacts DEF TypeOK
<1>6. inflight' = (inflight \ {h}) \cup {n}
  BY <1>n
<1>7. HandlerSound(n)'
  BY <1>1, <1>2, <1>3, HandlerType, NewRowFacts DEF HandlerSound
<1>8. \A g \in inflight : Starts(g) => stage'[g.task] = "claimed"
  BY DEF IInv, HandlersSound, HandlerSound
<1>9. ClaimsDistinct'
  BY <1>2, <1>3, <1>6, OthersKeepTheirClaims DEF IInv, ClaimsDistinct
<1>10. RunsOwned'
  BY DEF IInv, RunsOwned
<1> QED
  BY <1>1, <1>4, <1>5, <1>6, <1>7, <1>8, <1>9, <1>10, StepLemma

LEMMA InsertForEventStep ==
    ASSUME IInv, NEW h \in inflight, NEW j \in Jobs, InsertForEvent(h, j)
    PROVE  IInv'
<1> USE DEF InsertForEvent
<1>1. TypeOK /\ RunsOwned
  BY DEF IInv
<1>2. /\ h.task \in Tasks /\ stage[h.task] = "claimed" /\ Starts(h)
      /\ h.row \in Row /\ RowConsistent(h.row)
      /\ h.row.content = None /\ h.row.revisions = {}
  BY HandlerType DEF HandlerSound, Starts
<1>3. /\ RunsAdvance /\ RunsOwned'
      /\ \A u \in Tasks \ {h.task} : stage'[u] = stage[u]
  BY <1>1, <1>2, LaunchFacts
<1>4. TypeOK'
  BY <1>1, <1>2, LaunchFacts DEF TypeOK
<1>5. \A k \in Jobs : row'[k] = row[k] \/ RowSoundAfter(k, row'[k])
  BY <1>1, <1>2 DEF TypeOK, RowSoundAfter, OwnedAfter
<1>6. \A g \in inflight' : Starts(g) => stage'[g.task] = "claimed"
  BY <1>2, <1>3, OthersKeepTheirClaims, HandlerType DEF HandlerSound
<1>7. ClaimsDistinct'
  BY DEF IInv, ClaimsDistinct
<1> QED
  BY <1>3, <1>4, <1>5, <1>6, <1>7, StepLemma

LEMMA SaveAndLaunchStep ==
    ASSUME IInv, NEW h \in inflight, SaveAndLaunch(h)
    PROVE  IInv'
<1> USE DEF SaveAndLaunch
<1>1. TypeOK /\ RunsOwned
  BY DEF IInv
<1>2. /\ h.task \in Tasks /\ stage[h.task] = "claimed" /\ Starts(h)
      /\ h.job \in used /\ h.job \in Jobs
      /\ h.row \in Row /\ RowConsistent(h.row)
  BY <1>1, HandlerType DEF HandlerSound, Starts, TypeOK
<1>3. /\ RunsAdvance /\ RunsOwned'
      /\ \A u \in Tasks \ {h.task} : stage'[u] = stage[u]
  BY <1>1, <1>2, LaunchFacts
<1>4. owner'[h.task] = h.job /\ stage'[h.task] = "queued"
  BY <1>1, <1>2 DEF TypeOK, Launch
<1>5. OwnedAfter(h.job, h.row)
  <2>1. PICK r : r = IF h.op = "refine" THEN [h.row EXCEPT !.revisions = @ \ {h.task}]
                                        ELSE h.row
    OBVIOUS
  <2>2. r \in Row /\ r.content = h.row.content /\ h.row.revisions \ {h.task} \subseteq r.revisions
    BY <1>2, <2>1 DEF Row
  <2>3. RowOwned(h.job, r)
    BY <2>1, HandlerType DEF HandlerSound
  <2>4. OwnedAfter(h.job, r)
    BY <1>2, <1>3, <2>2, <2>3, OwnedKept
  <2> QED
    BY <1>4, <2>2, <2>4 DEF OwnedAfter
<1>6. TypeOK'
  BY <1>1, <1>2, LaunchFacts, SaveFacts DEF TypeOK
<1>7. \A k \in Jobs : row'[k] = row[k] \/ RowSoundAfter(k, row'[k])
  BY <1>1, <1>2, <1>5, SaveFacts DEF RowSoundAfter
<1>8. \A g \in inflight' : Starts(g) => stage'[g.task] = "claimed"
  BY <1>2, <1>3, OthersKeepTheirClaims, HandlerType DEF HandlerSound
<1>9. ClaimsDistinct'
  BY DEF IInv, ClaimsDistinct
<1> QED
  BY <1>3, <1>6, <1>7, <1>8, <1>9, StepLemma

LEMMA SaveOnlyStep ==
    ASSUME IInv, NEW h \in inflight, SaveOnly(h)
    PROVE  IInv'
<1> USE DEF SaveOnly
<1>1. TypeOK /\ RunsAdvance
  BY DEF IInv, RunsAdvance
<1>2. /\ h.job \in used /\ h.job \in Jobs
      /\ h.row \in Row /\ RowConsistent(h.row) /\ RowOwned(h.job, h.row)
  BY <1>1, HandlerType DEF HandlerSound, TypeOK
<1>3. TypeOK'
  BY <1>1, <1>2, SaveFacts DEF TypeOK
<1>4. \A k \in Jobs : row'[k] = row[k] \/ RowSoundAfter(k, row'[k])
  BY <1>1, <1>2, SaveFacts, OwnedKept DEF RowSoundAfter
<1>5. \A g \in inflight : Starts(g) => stage'[g.task] = "claimed"
  BY DEF IInv, HandlersSound, HandlerSound
<1>6. ClaimsDistinct' /\ RunsOwned'
  BY DEF IInv, ClaimsDistinct, RunsOwned
<1> QED
  BY <1>1, <1>3, <1>4, <1>5, <1>6, StepLemma

LEMMA HandlerFailsStep ==
    ASSUME IInv, NEW h \in inflight, HandlerFails(h)
    PROVE  IInv'
<1> USE DEF HandlerFails, GiveUp
<1>1. TypeOK
  BY DEF IInv
<1>2. Starts(h) => h.task \in Tasks /\ stage[h.task] = "claimed"
  BY HandlerType DEF HandlerSound
<1>3. TypeOK'
  BY <1>1, <1>2 DEF TypeOK
<1>4. RunsAdvance /\ RunsOwned'
  BY <1>1, <1>2 DEF TypeOK, IInv, RunsOwned, RunsAdvance
<1>5. \A g \in inflight' : Starts(g) => stage'[g.task] = "claimed"
  BY <1>1, <1>2, OthersKeepTheirClaims, HandlerType DEF HandlerSound, TypeOK
<1>6. ClaimsDistinct'
  BY DEF IInv, ClaimsDistinct
<1> QED
  BY <1>3, <1>4, <1>5, <1>6, StepLemma

-----------------------------------------------------------------------------
(* The bridge, the reaper and restarts *)

\* A step of dispatched runs that adds at most one handler, which starts none.
LEMMA RunStep ==
    ASSUME IInv, TypeOK', RunsAdvance, RunsOwned',
           UNCHANGED <<row, used, events, owner, up, crashes>>,
           \A u \in Tasks : stage[u] = "claimed" => stage'[u] = "claimed",
           \/ inflight' = inflight
           \/ \E n : /\ inflight' = inflight \cup {n}
                     /\ ~Starts(n) /\ HandlerSound(n)'
    PROVE  IInv'
<1>1. \A j \in Jobs : row'[j] = row[j]
  OBVIOUS
<1>2. \A h \in inflight : Starts(h) => stage'[h.task] = "claimed"
  BY DEF IInv, HandlersSound, HandlerSound
<1>3. ClaimsDistinct'
  BY DEF IInv, ClaimsDistinct
<1> QED
  BY <1>1, <1>2, <1>3, StepLemma

LEMMA BridgeAcceptsStep ==
    ASSUME IInv, NEW t \in Tasks, BridgeAccepts(t)
    PROVE  IInv'
<1>1. TypeOK' /\ RunsAdvance /\ RunsOwned'
  BY DEF BridgeAccepts, IInv, TypeOK, RunsAdvance, RunsOwned
<1> QED
  BY <1>1, RunStep DEF BridgeAccepts, IInv, TypeOK

LEMMA DispatchOKStep ==
    ASSUME IInv, NEW t \in Tasks, DispatchOK(t)
    PROVE  IInv'
<1>1. TypeOK' /\ RunsAdvance /\ RunsOwned'
  BY DEF DispatchOK, IInv, TypeOK, RunsAdvance, RunsOwned
<1> QED
  BY <1>1, RunStep DEF DispatchOK

LEMMA ReportLostStep ==
    ASSUME IInv, NEW t \in Tasks, ReportLost(t)
    PROVE  IInv'
<1>1. TypeOK' /\ RunsAdvance /\ RunsOwned'
  BY DEF ReportLost, IInv, TypeOK, RunsAdvance, RunsOwned
<1> QED
  BY <1>1, RunStep DEF ReportLost, IInv, TypeOK

LEMMA DispatchFailsStep ==
    ASSUME IInv, NEW t \in Tasks, DispatchFails(t)
    PROVE  IInv'
<1> USE DEF DispatchFails
<1>1. TypeOK /\ owner[t] \in Jobs
  BY DEF IInv, RunsOwned, TypeOK
<1>2. /\ stage' \in [Tasks -> {"free", "claimed", "queued", "running", "over"}]
      /\ RunsAdvance /\ RunsOwned'
      /\ \A u \in Tasks : stage[u] = "claimed" => stage'[u] = "claimed"
  BY <1>1 DEF TypeOK, IInv, RunsOwned, RunsAdvance
<1>3. CASE JobRunning(owner[t])
  <2>r. PICK r : r = Failed(row[owner[t]])
    OBVIOUS
  <2>n. PICK n : n = Write("markFailed", owner[t], r, t)
    OBVIOUS
  <2>1. /\ row[owner[t]] \in Row /\ RowOwned(owner[t], row[owner[t]])
        /\ owner[t] \in used
    BY <1>1, <1>3 DEF IInv, TypeOK, Provenance, RowsUsed, JobRunning, Exists
  <2>2. /\ r \in Row /\ RowConsistent(r) /\ r.content = row[owner[t]].content
        /\ r.revisions = row[owner[t]].revisions
    BY <2>r, <2>1, FailedFacts
  <2>3. n \in Handler /\ n.op = "markFailed" /\ n.job = owner[t] /\ n.row = r
    BY <1>1, <2>n, <2>2, WriteFacts DEF Op
  <2>4. OwnedAfter(owner[t], r)
    BY <1>1, <1>2, <2>1, <2>2, OwnedKept DEF OwnedAfter
  <2>5. HandlerSound(n)'
    BY <2>1, <2>2, <2>3, <2>4 DEF HandlerSound, RowOwned, OwnedAfter, Starts
  <2>6. inflight' = inflight \cup {n}
    BY <1>3, <2>r, <2>n
  <2>7. TypeOK'
    BY <1>1, <1>2, <2>3, <2>6 DEF TypeOK
  <2> QED
    BY <1>2, <2>3, <2>5, <2>6, <2>7, RunStep DEF Starts
<1>4. CASE ~JobRunning(owner[t])
  <2>1. TypeOK'
    BY <1>1, <1>2, <1>4 DEF TypeOK
  <2> QED
    BY <1>2, <1>4, <2>1, RunStep
<1> QED
  BY <1>3, <1>4

LEMMA BridgeReportsStep ==
    ASSUME IInv, NEW t \in Tasks, NEW ok \in BOOLEAN, BridgeReports(t, ok)
    PROVE  IInv'
<1> USE DEF BridgeReports
<1>1. TypeOK /\ owner[t] \in Jobs
  BY DEF IInv, RunsOwned, TypeOK
<1>2. /\ stage' \in [Tasks -> {"free", "claimed", "queued", "running", "over"}]
      /\ RunsAdvance /\ RunsOwned' /\ stage'[t] = "over"
      /\ \A u \in Tasks : stage[u] = "claimed" => stage'[u] = "claimed"
  BY <1>1 DEF TypeOK, IInv, RunsOwned, RunsAdvance
<1>3. CASE Exists(owner[t])
  <2>r. PICK r : r = Reported(row[owner[t]], t, ok)
    OBVIOUS
  <2>n. PICK n : n = Write("complete", owner[t], r, t)
    OBVIOUS
  <2>1. /\ row[owner[t]] \in Row /\ RowOwned(owner[t], row[owner[t]])
        /\ owner[t] \in used
    BY <1>1, <1>3 DEF IInv, TypeOK, Provenance, RowsUsed, Exists
  <2>2. /\ r \in Row /\ RowConsistent(r) /\ r.content \in {t, row[owner[t]].content}
        /\ r.revisions = row[owner[t]].revisions
    BY <2>r, <2>1, ReportedFacts
  <2>3. n \in Handler /\ n.op = "complete" /\ n.job = owner[t] /\ n.row = r
    BY <1>1, <2>n, <2>2, WriteFacts DEF Op
  <2>4. OwnedAfter(owner[t], r)
    BY <1>1, <1>2, <2>1, <2>2, OwnedKept DEF OwnedAfter
  <2>5. HandlerSound(n)'
    BY <2>1, <2>2, <2>3, <2>4 DEF HandlerSound, RowOwned, OwnedAfter, Starts
  <2>6. inflight' = inflight \cup {n}
    BY <1>3, <2>r, <2>n
  <2>7. TypeOK'
    BY <1>1, <1>2, <2>3, <2>6 DEF TypeOK
  <2> QED
    BY <1>2, <2>3, <2>5, <2>6, <2>7, RunStep DEF Starts
<1>4. CASE ~Exists(owner[t])
  <2>1. TypeOK'
    BY <1>1, <1>2, <1>4 DEF TypeOK
  <2> QED
    BY <1>2, <1>4, <2>1, RunStep
<1> QED
  BY <1>3, <1>4

LEMMA GrowStaleStep ==
    ASSUME IInv, NEW j \in Jobs, GrowStale(j)
    PROVE  IInv'
<1> USE DEF GrowStale
<1>r. PICK r : r = [row[j] EXCEPT !.stale = TRUE]
  OBVIOUS
<1>1. /\ TypeOK /\ RunsAdvance /\ row[j] \in Row /\ RowConsistent(row[j])
      /\ RowOwned(j, row[j]) /\ j \in used
  BY DEF IInv, TypeOK, RowsConsistent, Provenance, RowsUsed, Exists, JobRunning,
         RunsAdvance
<1>2. /\ r \in Row /\ RowConsistent(r)
      /\ r.content = row[j].content /\ r.revisions = row[j].revisions
  BY <1>r, <1>1, StampFacts
<1>3. row' = [row EXCEPT ![j] = r]
  BY <1>r, <1>1 DEF TypeOK
<1>4. TypeOK'
  BY <1>1, <1>2, <1>3 DEF TypeOK
<1>5. \A k \in Jobs : row'[k] = row[k] \/ RowSoundAfter(k, row'[k])
  BY <1>1, <1>2, <1>3 DEF RowSoundAfter, RowOwned, OwnedAfter, TypeOK
<1>6. \A h \in inflight : Starts(h) => stage'[h.task] = "claimed"
  BY DEF IInv, HandlersSound, HandlerSound
<1>7. ClaimsDistinct' /\ RunsOwned'
  BY DEF IInv, ClaimsDistinct, RunsOwned
<1> QED
  BY <1>1, <1>4, <1>5, <1>6, <1>7, StepLemma

LEMMA ReaperListsStep ==
    ASSUME IInv, ReaperLists
    PROVE  IInv'
<1> USE DEF ReaperLists
<1>1. TypeOK /\ RunsAdvance
  BY DEF IInv, RunsAdvance
<1>2. \A h \in inflight' \ inflight :
          h \in Handler /\ ~Starts(h) /\ HandlerSound(h)'
  <2> SUFFICES ASSUME NEW j \in StaleJobs, NEW h, h = Write("reap", j, Failed(row[j]), None)
               PROVE  h \in Handler /\ ~Starts(h) /\ HandlerSound(h)'
    OBVIOUS
  <2>1. /\ j \in Jobs /\ row[j] \in Row /\ RowOwned(j, row[j]) /\ j \in used
    BY <1>1 DEF StaleJobs, IInv, TypeOK, Provenance, RowsUsed, JobRunning, Exists
  <2>r. PICK r : r = Failed(row[j])
    OBVIOUS
  <2>2. /\ r \in Row /\ RowConsistent(r) /\ r.content = row[j].content
        /\ r.revisions = row[j].revisions
    BY <2>r, <2>1, FailedFacts
  <2>3. h \in Handler /\ h.op = "reap" /\ h.job = j /\ h.row = r
    BY <2>r, <2>1, <2>2, WriteFacts DEF Op
  <2> QED
    BY <2>1, <2>2, <2>3 DEF HandlerSound, RowOwned, Starts
<1>3. TypeOK'
  BY <1>1, <1>2 DEF TypeOK
<1>4. \A h \in inflight : Starts(h) => stage'[h.task] = "claimed"
  BY DEF IInv, HandlersSound, HandlerSound
<1>5. ClaimsDistinct'
  BY <1>2 DEF IInv, ClaimsDistinct
<1>6. RunsOwned'
  BY DEF IInv, RunsOwned
<1> QED
  BY <1>1, <1>2, <1>3, <1>4, <1>5, <1>6, StepLemma

LEMMA CrashStep ==
    ASSUME IInv, Crash
    PROVE  IInv'
<1> USE DEF Crash
<1>1. TypeOK /\ crashes' \in 0..MaxCrashes
  BY BoundsAssumption DEF IInv, TypeOK
<1>2. /\ stage' \in [Tasks -> {"free", "claimed", "queued", "running", "over"}]
      /\ \A t \in Tasks :
           /\ stage[t] \notin {"free", "claimed"} => stage'[t] \notin {"free", "claimed"}
           /\ stage[t] \in {"free", "claimed"} => stage'[t] = "free"
           /\ stage[t] = "over" => stage'[t] = "over"
  <2> DEFINE s(t) == CASE stage[t] = "claimed" -> "free"
                       [] stage[t] = "queued"  -> "over"
                       [] OTHER -> stage[t]
  <2>1. ASSUME NEW t \in Tasks
        PROVE  /\ s(t) \in {"free", "claimed", "queued", "running", "over"}
               /\ stage[t] \notin {"free", "claimed"} => s(t) \notin {"free", "claimed"}
               /\ stage[t] \in {"free", "claimed"} => s(t) = "free"
               /\ stage[t] = "over" => s(t) = "over"
    BY <1>1 DEF TypeOK
  <2>2. stage' = [t \in Tasks |-> s(t)]
    OBVIOUS
  <2> HIDE DEF s
  <2> QED
    BY <2>1, <2>2
<1>3. TypeOK'
  BY <1>1, <1>2 DEF TypeOK
<1>4. RunsAdvance /\ RunsOwned'
  BY <1>2 DEF IInv, RunsAdvance, RunsOwned
<1>5. ClaimsDistinct'
  BY DEF ClaimsDistinct
<1> QED
  BY <1>3, <1>4, <1>5, StepLemma

LEMMA BootStep ==
    ASSUME IInv, Boot
    PROVE  IInv'
<1> USE DEF Boot
<1>1. TypeOK /\ RunsAdvance
  BY DEF IInv, RunsAdvance
<1>2. \A j \in Jobs : \/ row'[j] = row[j]
                      \/ row'[j] \in Row /\ RowSoundAfter(j, row'[j])
  <2> SUFFICES ASSUME NEW j \in Jobs, JobRunning(j),
                      row'[j] = [Failed(row[j]) EXCEPT !.stale = FALSE]
               PROVE  row'[j] \in Row /\ RowSoundAfter(j, row'[j])
    OBVIOUS
  <2>1. row[j] \in Row /\ RowOwned(j, row[j]) /\ j \in used
    BY <1>1 DEF IInv, TypeOK, Provenance, RowsUsed, JobRunning, Exists
  <2>r. PICK r : r = Failed(row[j])
    OBVIOUS
  <2>2. /\ r \in Row /\ RowConsistent(r) /\ r.content = row[j].content
        /\ r.revisions = row[j].revisions
    BY <2>r, <2>1, FailedFacts
  <2> QED
    BY <2>1, <2>r, <2>2, StampFacts DEF RowSoundAfter, RowOwned, OwnedAfter
<1>3. TypeOK'
  BY <1>1, <1>2 DEF TypeOK
<1>4. \A h \in inflight : Starts(h) => stage'[h.task] = "claimed"
  BY DEF IInv, HandlersSound, HandlerSound
<1>5. ClaimsDistinct' /\ RunsOwned'
  BY DEF IInv, ClaimsDistinct, RunsOwned
<1> QED
  BY <1>1, <1>2, <1>3, <1>4, <1>5, StepLemma

-----------------------------------------------------------------------------
(* The inductive invariant *)

LEMMA InitIInv == Init => IInv
<1> SUFFICES ASSUME Init PROVE IInv
  OBVIOUS
<1>1. TypeOK
  BY BoundsAssumption DEF Init, TypeOK
<1> QED
  BY <1>1 DEF Init, IInv, RowsConsistent, Provenance, HandlersSound, ClaimsDistinct,
              RunsOwned, RowsUsed, Exists

LEMMA NextIInv == IInv /\ [Next]_vars => IInv'
<1> SUFFICES ASSUME IInv, [Next]_vars PROVE IInv'
  OBVIOUS
<1>1. CASE UserRequest
  <2>1. \A e \in events : e \in Events
    BY DEF IInv, TypeOK
  <2> QED
    BY <1>1, <2>1, CreateCustomStep, RetryStep, RefineStep, GenerateForEventStep,
       DeleteStep, DeleteEventStep DEF UserRequest
<1>2. CASE HandlerStep
  BY <1>2, SaveUnlinkStep, SaveAndLaunchStep, SaveOnlyStep, HandlerFailsStep,
     InsertForEventStep DEF HandlerStep
<1>3. CASE BridgeStep
  BY <1>3, BridgeAcceptsStep, DispatchOKStep, DispatchFailsStep, ReportLostStep,
     BridgeReportsStep DEF BridgeStep
<1>4. CASE \/ \E j \in Jobs : GrowStale(j)
           \/ ReaperLists \/ Crash \/ Boot
  BY <1>4, GrowStaleStep, ReaperListsStep, CrashStep, BootStep
<1>5. CASE UNCHANGED vars
  BY <1>5 DEF vars, IInv, TypeOK, RowsConsistent, Provenance, HandlersSound,
              HandlerSound, ClaimsDistinct, RunsOwned, RowsUsed, Exists, RowOwned
<1> QED
  BY <1>1, <1>2, <1>3, <1>4, <1>5 DEF Next

\* The invariant that the others follow from holds in every reachable state:
\* the rows carried by overlapping handlers are as sound as the stored ones
\* (every read-modify-write of playbook_job_service.go).
THEOREM Invariance == Spec => []IInv
  BY InitIInv, NextIInv, PTL DEF Spec

\* Every handler, callback, reaper tick and restart keeps the tables and the
\* bookkeeping of runs in their types.
THEOREM TypeCorrect == Spec => []TypeOK
<1>1. IInv => TypeOK
  BY DEF IInv
<1> QED
  BY <1>1, Invariance, PTL

\* No overlap of Retry, Refine, Complete, markFailed, the reaper and the boot
\* sweep leaves a row whose status contradicts its content or its error.
THEOREM RowsStayConsistent == Spec => []RowsConsistent
<1>1. IInv => RowsConsistent
  BY DEF IInv
<1> QED
  BY <1>1, Invariance, PTL

\* The content of a playbook was written by a run of that very playbook, and
\* each revision of its history was dispatched for it, however late the
\* callbacks of Complete arrive.
THEOREM ContentHasProvenance == Spec => []Provenance
<1>1. IInv => Provenance
  BY DEF IInv
<1> QED
  BY <1>1, Invariance, PTL

-----------------------------------------------------------------------------
(* One playbook per event *)

LinkKept(j) ==
    row'[j] = None \/ row'[j].event = None \/ (Exists(j) /\ row'[j].event = row[j].event)

LEMMA LinksKept ==
    ASSUME OnePlaybookPerEvent, \A j \in Jobs : LinkKept(j)
    PROVE  OnePlaybookPerEvent'
    BY DEF OnePlaybookPerEvent, LinkKept, Exists

LEMMA WriteAccepted ==
    ASSUME OnePlaybookPerEvent, TypeOK, NEW j \in Jobs, NEW r \in Row, Accepts(j, r),
           row'[j].event = r.event, \A k \in Jobs \ {j} : row'[k] = row[k]
    PROVE  OnePlaybookPerEvent'
    BY DEF OnePlaybookPerEvent, Accepts, Exists

LEMMA NextOnePlaybook ==
    OnePlaybookPerEvent /\ IInv /\ [Next]_vars => OnePlaybookPerEvent'
<1> SUFFICES ASSUME OnePlaybookPerEvent, IInv, [Next]_vars
             PROVE  OnePlaybookPerEvent'
  OBVIOUS
<1>1. TypeOK
  BY DEF IInv
<1>2. ASSUME NEW h \in inflight, NEW j \in Jobs, h.job = j, Accepts(j, h.row), Save(j, h.row)
      PROVE  OnePlaybookPerEvent'
  <2>1. PICK s : s = [h.row EXCEPT !.stale = FALSE]
    OBVIOUS
  <2>2. h.row \in Row /\ s \in Row /\ s.event = h.row.event
    BY <2>1, HandlerType, StampFacts
  <2>3. row' = [row EXCEPT ![j] = s]
    BY <1>2, <2>1 DEF Save
  <2> QED
    BY <1>1, <1>2, <2>2, <2>3, WriteAccepted DEF TypeOK
<1>3. ASSUME NEW h \in inflight, SaveUnlink(h) \/ SaveAndLaunch(h) \/ SaveOnly(h)
      PROVE  OnePlaybookPerEvent'
  <2>1. h.job \in Jobs
    BY <1>1, <1>3, HandlerType DEF SaveUnlink, SaveAndLaunch, SaveOnly, HandlerSound, TypeOK
  <2> QED
    BY <1>2, <1>3, <2>1 DEF SaveUnlink, SaveAndLaunch, SaveOnly
<1>4. ASSUME NEW h \in inflight, NEW j \in Jobs, InsertForEvent(h, j)
      PROVE  OnePlaybookPerEvent'
  BY <1>1, <1>4, HandlerType, WriteAccepted DEF InsertForEvent, TypeOK
<1>5. ASSUME NEW j \in Jobs, NEW t \in Tasks, CreateCustom(j, t)
      PROVE  OnePlaybookPerEvent'
  BY <1>1, <1>5, LinksKept DEF CreateCustom, NewRow, LinkKept, Exists, TypeOK
<1>6. ASSUME NEW j \in Jobs, Delete(j)
      PROVE  OnePlaybookPerEvent'
  BY <1>1, <1>6, LinksKept DEF Delete, LinkKept, Exists, TypeOK
<1>7. ASSUME NEW e \in Events, DeleteEvent(e)
      PROVE  OnePlaybookPerEvent'
  <2>1. ASSUME NEW j \in Jobs PROVE LinkKept(j)
    BY <1>1, <1>7, UnlinkFacts DEF DeleteEvent, LinkKept, Exists, TypeOK
  <2> QED
    BY <2>1, LinksKept
<1>8. ASSUME NEW j \in Jobs, GrowStale(j)
      PROVE  OnePlaybookPerEvent'
  <2>1. ASSUME NEW k \in Jobs PROVE LinkKept(k)
    BY <1>1, <1>8, StampFacts DEF GrowStale, JobRunning, LinkKept, Exists, TypeOK
  <2> QED
    BY <2>1, LinksKept
<1>9. ASSUME Boot
      PROVE  OnePlaybookPerEvent'
  <2>1. ASSUME NEW j \in Jobs, JobRunning(j)
        PROVE  [Failed(row[j]) EXCEPT !.stale = FALSE].event = row[j].event
    BY <1>1, <2>1 DEF JobRunning, Exists, TypeOK, Failed, Row
  <2>2. ASSUME NEW j \in Jobs PROVE LinkKept(j)
    BY <1>9, <2>1 DEF Boot, JobRunning, LinkKept, Exists
  <2> QED
    BY <2>2, LinksKept
<1>10. ASSUME row' = row
       PROVE  OnePlaybookPerEvent'
  BY <1>10 DEF OnePlaybookPerEvent, Exists
<1>11. CASE UserRequest
  BY <1>11, <1>1, <1>5, <1>6, <1>7, <1>10
     DEF UserRequest, Retry, Refine, GenerateForEvent, DeleteEvent, TypeOK
<1>12. CASE HandlerStep
  BY <1>12, <1>3, <1>4, <1>10 DEF HandlerStep, HandlerFails
<1>13. CASE BridgeStep
  BY <1>13, <1>10 DEF BridgeStep, BridgeAccepts, DispatchOK, DispatchFails, ReportLost,
                      BridgeReports
<1> QED
  BY <1>8, <1>9, <1>10, <1>11, <1>12, <1>13 DEF Next, ReaperLists, Crash, vars

\* "SATU event = SATU playbook", in every reachable state: with the order that
\* CreateForEvent chose (unlink, then insert) and the partial unique index, no
\* overlap of generations, stale write-backs and deletions links two
\* playbooks to one event.
THEOREM OnePerEvent == Spec => []OnePlaybookPerEvent
<1>1. Init => OnePlaybookPerEvent
  BY DEF Init, OnePlaybookPerEvent, Exists
<1> QED
  BY <1>1, NextOnePlaybook, Invariance, PTL DEF Spec
=============================================================================
