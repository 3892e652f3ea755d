---------------------------- MODULE PlaybookJobs ----------------------------
(***************************************************************************)
(* The "titip-tugas" (delegated task) life cycle of playbook_job rows:     *)
(* internal/service/playbook_job_service.go over                           *)
(* internal/repository/playbook_job_repo.go, the bridge's agent-task route *)
(* and the reaper and boot sweep wired in internal/http/router.go.         *)
(*                                                                         *)
(* The API stores a job row, hands an instruction to the bridge and        *)
(* returns; the bridge reports back later through a callback.  No handler  *)
(* uses a transaction: each reads a whole row, edits the copy in memory    *)
(* and writes the whole row back.  A handler between its read and its      *)
(* write is a record of `inflight' carrying the row it will write.         *)
(***************************************************************************)
EXTENDS Naturals, FiniteSets

CONSTANTS
    Jobs,         \* ids of playbook_job rows (fresh uuids, never reused)
    Events,       \* ids of event rows
    Tasks,        \* runs handed, or about to be handed, to the bridge
    None,         \* SQL NULL, a missing row, no id
    MaxInFlight,  \* bound: handlers between their read and their write
    MaxCrashes    \* bound: restarts of the API process

ASSUME NoneAssumption == None \notin Jobs \cup Events \cup Tasks
ASSUME BoundsAssumption == MaxInFlight \in Nat /\ MaxCrashes \in Nat

VARIABLES
    row,       \* the playbook_job table
    used,      \* the ids that have ever been inserted
    events,    \* the event rows that exist
    stage,     \* how far each run has come
    owner,     \* the job each run was started for
    waiting,   \* runs whose dispatch goroutine still awaits the bridge's reply
    inflight,  \* handlers holding a row they have read and will write back
    up,        \* is the API process serving?
    crashes    \* restarts so far

vars == <<row, used, events, stage, owner, waiting, inflight, up, crashes>>

-----------------------------------------------------------------------------
(* Rows *)

Status == {"in_progress", "updating", "success", "failed"}

\* content is abstracted to the run that wrote it, revisions to the runs they
\* asked for, error_message to its presence, updated_at to whether it is
\* older than the reaper's threshold.
Row == [status: Status, content: Tasks \cup {None}, err: BOOLEAN,
        event: Events \cup {None}, revisions: SUBSET Tasks, stale: BOOLEAN]

Exists(j) == row[j] # None
Running(r) == r.status \in {"in_progress", "updating"}
JobRunning(j) == Exists(j) /\ Running(row[j])

NewRow(e) == [status |-> "in_progress", content |-> None, err |-> FALSE,
              event |-> e, revisions |-> {}, stale |-> FALSE]

Failed(r) == [r EXCEPT !.status = "failed", !.err = TRUE]

\* Mutant: a late success does not clear the reason of an earlier failure.
ReportedKeepsReason(r, t, ok) ==
    IF ok THEN [r EXCEPT !.status = "success", !.content = t] ELSE Failed(r)

\* What Complete makes of the row it has read: a result, or a reason.
Reported(r, t, ok) ==
    IF ok THEN [r EXCEPT !.status = "success", !.content = t, !.err = FALSE]
          ELSE Failed(r)

\* One in-flight handler: what it will write, to which row, and for which
\* run; event is the event a generation is for.
Op == {"retry", "refine", "unlink", "create", "replace", "complete", "markFailed",
       "reap"}
Handler == [op: Op, job: Jobs \cup {None}, row: Row, task: Tasks \cup {None},
            for: Events \cup {None}]

Write(op, j, r, t) == [op |-> op, job |-> j, row |-> r, task |-> t, for |-> None]

\* The requests that will start a run once their write has committed.
Starts(h) == h.op \in {"retry", "refine", "unlink", "create", "replace"}

CanRead == up /\ Cardinality(inflight) < MaxInFlight

-----------------------------------------------------------------------------
(* The database: what GORM's Save and Create do to playbook_job. *)

\* Mutant: no unique index on event_id, the service alone keeps links apart.
AcceptsAnyLink(j, r) == r.event # None => r.event \in events

\* The foreign key of event_id and the partial unique index
\* uq_playbook_job_event accept r as the row of job j.
Accepts(j, r) ==
    r.event # None => /\ r.event \in events
                      /\ \A k \in Jobs \ {j} : Exists(k) => row[k].event # r.event

\* Save is an UPDATE of every column and, when no row was updated, an INSERT:
\* a row that was deleted in the meantime comes back.  updated_at is now.
Save(j, r) == row' = [row EXCEPT ![j] = [r EXCEPT !.stale = FALSE]]

\* The handler is done with nothing written; a run it had set aside is free.
GiveUp(h) ==
    /\ inflight' = inflight \ {h}
    /\ stage' = IF Starts(h) THEN [stage EXCEPT ![h.task] = "free"] ELSE stage

\* `go s.dispatch(...)': a goroutine that will hand run t of job j over.
Launch(j, t) ==
    /\ stage' = [stage EXCEPT ![t] = "queued"]
    /\ owner' = [owner EXCEPT ![t] = j]
    /\ waiting' = waiting \cup {t}

-----------------------------------------------------------------------------
(* Requests of users *)

\* CreateCustom: one INSERT, then the dispatch goroutine.
CreateCustom(j, t) ==
    /\ up
    /\ j \notin used /\ stage[t] = "free"
    /\ row' = [row EXCEPT ![j] = NewRow(None)]
    /\ used' = used \cup {j}
    /\ Launch(j, t)
    /\ UNCHANGED <<events, inflight, up, crashes>>

\* CreateForEvent reads the event and the playbook now linked to it, whose
\* link it must remove before it can insert the new one.
GenerateForEvent(e, t) ==
    /\ CanRead /\ e \in events /\ stage[t] = "free"
    /\ stage' = [stage EXCEPT ![t] = "claimed"]
    /\ \/ \E j \in Jobs :
            /\ Exists(j) /\ row[j].event = e
            /\ inflight' = inflight \cup
                 {[Write("unlink", j, [row[j] EXCEPT !.event = None], t)
                     EXCEPT !.for = e]}
       \/ /\ \A j \in Jobs : Exists(j) => row[j].event # e
          /\ inflight' = inflight \cup
               {[Write("create", None, NewRow(e), t) EXCEPT !.for = e]}
    /\ UNCHANGED <<row, used, events, owner, waiting, up, crashes>>

\* ... saves the old playbook without its link ...
SaveUnlink(h) ==
    /\ h.op = "unlink" /\ Accepts(h.job, h.row)
    /\ Save(h.job, h.row)
    /\ inflight' = (inflight \ {h}) \cup
         {[Write("replace", None, NewRow(h.for), h.task) EXCEPT !.for = h.for]}
    /\ UNCHANGED <<used, events, stage, owner, waiting, up, crashes>>

\* ... and inserts the new one.
InsertForEvent(h, j) ==
    /\ h.op \in {"create", "replace"} /\ j \notin used /\ Accepts(j, h.row)
    /\ row' = [row EXCEPT ![j] = h.row]
    /\ used' = used \cup {j}
    /\ inflight' = inflight \ {h}
    /\ Launch(j, h.task)
    /\ UNCHANGED <<events, up, crashes>>

\* Retry reads a failed job, to run it again.
Retry(j, t) ==
    /\ CanRead /\ stage[t] = "free"
    /\ Exists(j) /\ row[j].status = "failed"
    /\ stage' = [stage EXCEPT ![t] = "claimed"]
    /\ inflight' = inflight \cup
         {Write("retry", j,
                [row[j] EXCEPT !.status = "in_progress", !.err = FALSE], t)}
    /\ UNCHANGED <<row, used, events, owner, waiting, up, crashes>>

\* Refine reads a finished job, to add a revision and run it again.
Refine(j, t) ==
    /\ CanRead /\ stage[t] = "free"
    /\ Exists(j) /\ row[j].status = "success" /\ row[j].content # None
    /\ stage' = [stage EXCEPT ![t] = "claimed"]
    /\ inflight' = inflight \cup
         {Write("refine", j,
                [row[j] EXCEPT !.status = "updating",
                               !.revisions = @ \cup {t}], t)}
    /\ UNCHANGED <<row, used, events, owner, waiting, up, crashes>>

\* The write of Retry and Refine commits and the run is dispatched.
SaveAndLaunch(h) ==
    /\ h.op \in {"retry", "refine"} /\ Accepts(h.job, h.row)
    /\ Save(h.job, h.row)
    /\ inflight' = inflight \ {h}
    /\ Launch(h.job, h.task)
    /\ UNCHANGED <<used, events, up, crashes>>

Delete(j) ==
    /\ up /\ Exists(j)
    /\ row' = [row EXCEPT ![j] = None]
    /\ UNCHANGED <<used, events, stage, owner, waiting, inflight, up, crashes>>

\* Deleting an event clears the links to it (ON DELETE SET NULL).
DeleteEvent(e) ==
    /\ up /\ e \in events
    /\ events' = events \ {e}
    /\ row' = [j \in Jobs |-> IF Exists(j) /\ row[j].event = e
                              THEN [row[j] EXCEPT !.event = None] ELSE row[j]]
    /\ UNCHANGED <<used, stage, owner, waiting, inflight, up, crashes>>

\* Mutant: a request that fails has left its write behind.
HandlerFailsHalfway(h) ==
    /\ GiveUp(h)
    /\ IF h.op = "refine" /\ Accepts(h.job, h.row) THEN Save(h.job, h.row) ELSE UNCHANGED row
    /\ UNCHANGED <<used, events, owner, waiting, up, crashes>>

\* A write that the database refuses, and one that never happens because the
\* client went away, the context expired or the connection broke.  (A commit
\* whose acknowledgement is lost looks like a run that was launched and lost.)
HandlerFails(h) ==
    /\ GiveUp(h)
    /\ UNCHANGED <<row, used, events, owner, waiting, up, crashes>>

-----------------------------------------------------------------------------
(* The dispatch goroutine and the bridge *)

\* The bridge answers 202 and works on the run in its background.
BridgeAccepts(t) ==
    /\ t \in waiting /\ stage[t] = "queued"
    /\ stage' = [stage EXCEPT ![t] = "running"]
    /\ UNCHANGED <<row, used, events, owner, waiting, inflight, up, crashes>>

\* The acknowledgement of run t reaches the goroutine.
DispatchOK(t) ==
    /\ t \in waiting /\ stage[t] # "queued"
    /\ waiting' = waiting \ {t}
    /\ UNCHANGED <<row, used, events, stage, owner, inflight, up, crashes>>

\* RunAgentTask returns an error: no runner, no bridge, or 30 seconds without
\* an answer (the bridge may have accepted).  markFailed reads the row and
\* goes on only if the job still runs.
DispatchFails(t) ==
    /\ t \in waiting /\ CanRead
    /\ waiting' = waiting \ {t}
    /\ stage' = IF stage[t] = "queued" THEN [stage EXCEPT ![t] = "over"] ELSE stage
    /\ inflight' = IF JobRunning(owner[t])
                   THEN inflight \cup {Write("markFailed", owner[t],
                                             Failed(row[owner[t]]), t)}
                   ELSE inflight
    /\ UNCHANGED <<row, used, events, owner, up, crashes>>

\* The bridge posts the outcome of run t, once; Complete reads the row,
\* whatever its status.
BridgeReports(t, ok) ==
    /\ CanRead /\ stage[t] = "running"
    /\ stage' = [stage EXCEPT ![t] = "over"]
    /\ inflight' = IF Exists(owner[t])
                   THEN inflight \cup {Write("complete", owner[t],
                                             Reported(row[owner[t]], t, ok), t)}
                   ELSE inflight
    /\ UNCHANGED <<row, used, events, owner, waiting, up, crashes>>

\* The run dies with the bridge, or the single POST of its outcome is lost.
ReportLost(t) ==
    /\ stage[t] = "running"
    /\ stage' = [stage EXCEPT ![t] = "over"]
    /\ UNCHANGED <<row, used, events, owner, waiting, inflight, up, crashes>>

-----------------------------------------------------------------------------
(* The reaper *)

\* Forty minutes go by without a write to a running job.  A dispatch
\* goroutine lives for less than a minute.
GrowStale(j) ==
    /\ JobRunning(j) /\ ~row[j].stale
    /\ \A t \in waiting : owner[t] # j
    /\ row' = [row EXCEPT ![j].stale = TRUE]
    /\ UNCHANGED <<used, events, stage, owner, waiting, inflight, up, crashes>>

Reaping == {h \in inflight : h.op = "reap"}
\* Mutant: a reaper that forgets the second running status.
StaleNewJobs == {j \in Jobs : Exists(j) /\ row[j].status = "in_progress" /\ row[j].stale}
StaleJobs == {j \in Jobs : JobRunning(j) /\ row[j].stale}

\* A tick of ReapStale lists the table and walks the stale jobs of that list.
ReaperLists ==
    /\ up /\ Reaping = {} /\ StaleJobs # {}
    /\ inflight' = inflight \cup
         {Write("reap", j, Failed(row[j]), None) : j \in StaleJobs}
    /\ UNCHANGED <<row, used, events, stage, owner, waiting, up, crashes>>

\* The write of Complete, markFailed or the reaper commits.
SaveOnly(h) ==
    /\ h.op \in {"complete", "markFailed", "reap"} /\ Accepts(h.job, h.row)
    /\ Save(h.job, h.row)
    /\ inflight' = inflight \ {h}
    /\ UNCHANGED <<used, events, stage, owner, waiting, up, crashes>>

ReaperFails(j) == \E h \in Reaping : h.job = j /\ SaveOnly(h)

-----------------------------------------------------------------------------
(* Restarts of the API process; the bridge is another process. *)

Crash ==
    /\ up /\ crashes < MaxCrashes
    /\ up' = FALSE
    /\ crashes' = crashes + 1
    /\ inflight' = {}
    /\ waiting' = {}
    /\ stage' = [t \in Tasks |-> CASE stage[t] = "claimed" -> "free"
                                   [] stage[t] = "queued"  -> "over"
                                   [] OTHER -> stage[t]]
    /\ UNCHANGED <<row, used, events, owner>>

\* FailInterrupted runs before the server listens; if it fails, the server
\* starts all the same.
Boot ==
    /\ ~up
    /\ up' = TRUE
    /\ \/ row' = [j \in Jobs |-> IF JobRunning(j)
                                 THEN [Failed(row[j]) EXCEPT !.stale = FALSE]
                                 ELSE row[j]]
       \/ UNCHANGED row
    /\ UNCHANGED <<used, events, stage, owner, waiting, inflight, crashes>>

-----------------------------------------------------------------------------

Init ==
    /\ row = [j \in Jobs |-> None]
    /\ used = {}
    /\ events = Events
    /\ stage = [t \in Tasks |-> "free"]
    /\ owner = [t \in Tasks |-> None]
    /\ waiting = {}
    /\ inflight = {}
    /\ up = TRUE
    /\ crashes = 0

UserRequest ==
    \/ \E j \in Jobs, t \in Tasks :
         CreateCustom(j, t) \/ Retry(j, t) \/ Refine(j, t)
    \/ \E e \in Events, t \in Tasks : GenerateForEvent(e, t)
    \/ \E j \in Jobs : Delete(j)
    \/ \E e \in Events : DeleteEvent(e)

HandlerStep ==
    \E h \in inflight :
        \/ SaveUnlink(h) \/ SaveAndLaunch(h) \/ SaveOnly(h) \/ HandlerFails(h)
        \/ \E j \in Jobs : InsertForEvent(h, j)

BridgeStep ==
    \E t \in Tasks :
        \/ BridgeAccepts(t) \/ DispatchOK(t) \/ DispatchFails(t) \/ ReportLost(t)
        \/ \E ok \in BOOLEAN : BridgeReports(t, ok)

Next ==
    \/ UserRequest \/ HandlerStep \/ BridgeStep
    \/ \E j \in Jobs : GrowStale(j)
    \/ ReaperLists \/ Crash \/ Boot

Spec == Init /\ [][Next]_vars

\* A request, a callback or markFailed with run t comes to an end.
HandlerEnds(t) ==
    \E h \in inflight :
        /\ h.task = t
        /\ \/ SaveUnlink(h) \/ SaveAndLaunch(h) \/ SaveOnly(h) \/ HandlerFails(h)
           \/ \E j \in Jobs : InsertForEvent(h, j)

ReaperEnds(j) ==
    \E h \in Reaping : h.job = j /\ (SaveOnly(h) \/ HandlerFails(h))

\* Time passes, the reaper's ticker goes on and a write it keeps trying
\* succeeds in the end, no handler hangs, a dispatch goroutine comes back
\* within its timeout (strong fairness: MaxInFlight may hold it up), and a
\* stopped API is started again.  Users and the bridge owe nothing.
Fairness ==
    /\ \A j \in Jobs : /\ WF_vars(GrowStale(j))
                       /\ WF_vars(ReaperEnds(j)) /\ SF_vars(ReaperFails(j))
    /\ \A t \in Tasks : /\ WF_vars(HandlerEnds(t))
                        /\ SF_vars(DispatchOK(t) \/ DispatchFails(t))
    /\ SF_vars(ReaperLists)
    /\ WF_vars(Boot)

FairSpec == Spec /\ Fairness

-----------------------------------------------------------------------------
(* Properties *)

TypeOK ==
    /\ row \in [Jobs -> Row \cup {None}]
    /\ used \subseteq Jobs
    /\ events \subseteq Events
    /\ stage \in [Tasks -> {"free", "claimed", "queued", "running", "over"}]
    /\ owner \in [Tasks -> Jobs \cup {None}]
    /\ waiting \subseteq Tasks
    /\ inflight \subseteq Handler
    /\ up \in BOOLEAN
    /\ crashes \in 0..MaxCrashes

\* A row tells one story: a finished or a refined playbook has a content, and
\* the reason of a failure is there exactly when the job has failed.
RowConsistent(r) ==
    /\ r.status \in {"success", "updating"} => r.content # None
    /\ r.err <=> r.status = "failed"

\* Whatever handlers overlap, whichever of them wins and wherever a restart
\* falls, no row mixes the outcome of one with the status of another: the UI
\* never shows a finished playbook that is empty or an old error beside a
\* result (PlaybookJobService.Complete, Retry, Refine, FailInterrupted).
RowsConsistent == \A j \in Jobs : Exists(j) => RowConsistent(row[j])

\* "SATU event = SATU playbook" (CreateForEvent), kept although two
\* generations for one event may pass the read together, old rows are written
\* back with old links, and deleted rows come back.
OnePlaybookPerEvent ==
    \A j, k \in Jobs :
        /\ Exists(j) /\ Exists(k)
        /\ row[j].event # None /\ row[j].event = row[k].event
        => j = k

\* What a row may refer to: a content that a run of this very job has brought
\* to its end, and revisions whose runs were started for it.
RowOwned(j, r) ==
    /\ r.content # None => owner[r.content] = j /\ stage[r.content] = "over"
    /\ \A t \in r.revisions : owner[t] = j /\ stage[t] \notin {"free", "claimed"}

\* A playbook never shows the result of another job's run nor of a run that
\* has not ended, and every revision in its history is one whose request was
\* accepted and handed to a dispatch goroutine (Refine, Complete).
Provenance == \A j \in Jobs : Exists(j) => RowOwned(j, row[j])

\* What makes RowsConsistent and Provenance inductive.  The rows that handlers
\* carry are as good as the stored ones; a run that is set aside is in the
\* hands of one handler only, so freeing it takes nothing from another.
HandlerSound(h) ==
    /\ RowConsistent(h.row)
    /\ Starts(h) => h.task \in Tasks /\ stage[h.task] = "claimed"
    /\ IF h.op \in {"create", "replace"}
       THEN h.row.content = None /\ h.row.revisions = {}
       ELSE /\ h.job \in used
            /\ RowOwned(h.job, IF h.op = "refine"
                               THEN [h.row EXCEPT !.revisions = @ \ {h.task}]
                               ELSE h.row)

HandlersSound == \A h \in inflight : HandlerSound(h)

ClaimsDistinct ==
    \A g, h \in inflight : Starts(g) /\ Starts(h) /\ g.task = h.task => g = h

RunsOwned ==
    /\ \A t \in Tasks : stage[t] \notin {"free", "claimed"} => owner[t] \in Jobs
    /\ \A t \in waiting : stage[t] \notin {"free", "claimed"}

RowsUsed == \A j \in Jobs : Exists(j) => j \in used

IInv ==
    /\ TypeOK /\ RowsConsistent /\ Provenance
    /\ HandlersSound /\ ClaimsDistinct /\ RunsOwned /\ RowsUsed

\* A job never stays in progress for ever: the reaper is the safety net for
\* every report that is lost and every row that an old copy put back in
\* progress ("agar UI tidak Diproses selamanya", router.go).
JobSettles == \A j \in Jobs : JobRunning(j) ~> ~JobRunning(j)
=============================================================================
