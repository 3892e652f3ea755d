------------------------------- MODULE Tenders -------------------------------
(***************************************************************************)
(* Tenders on their way to a project: internal/service/tender_service.go,  *)
(* outcome.go and score_service.go over the tables tender, outcome_event,  *)
(* prospect_score and project.                                             *)
(*                                                                         *)
(* A request reads the whole tender row, edits its copy and writes it back *)
(* (GORM's Save), and RecordOutcome and ScoreTarget write rows of other    *)
(* tables before and after that, each in a statement of its own: nothing   *)
(* runs in a transaction.  A request can fail, or die with the process,    *)
(* between any two of its writes.                                          *)
(***************************************************************************)
EXTENDS Naturals, FiniteSets

CONSTANTS
    Tenders,   \* ids of tender rows (fresh uuids, never reused)
    Requests,  \* requests; each also names the rows that it inserts
    None       \* SQL NULL, a missing row, no request

Result == {"WON", "LOST"}
Outcome == [tender: Tenders, result: Result]

TendersAssumption == None \notin Tenders \cup Requests \cup Result \cup Outcome

VARIABLES
    row,       \* the tender table
    used,      \* the tender ids that have ever been inserted
    outcomes,  \* the outcome_event row each request has inserted
    scores,    \* the tender of the prospect_score row each request has inserted
    projects,  \* the source tender of the project each request has inserted
    req,       \* the requests under way
    disturbed  \* history: tenders that two requests held at the same time,
               \* or that a PUT took out of WON

tables == <<row, used, outcomes, scores, projects>>
vars == <<tables, req, disturbed>>

-----------------------------------------------------------------------------

Status == {"IDENTIFIED", "QUALIFYING", "BIDDING", "SUBMITTED"} \cup Result

\* The score of a row is the request that computed it.
Row == [status: Status, discovery: BOOLEAN, score: Requests \cup {None}]

\* The terminal statuses lead nowhere.
Transitions == [IDENTIFIED |-> {"QUALIFYING", "LOST"},
                QUALIFYING |-> {"BIDDING", "LOST"},
                BIDDING    |-> {"SUBMITTED", "WON", "LOST"},
                SUBMITTED  |-> {"WON", "LOST"},
                WON        |-> {},
                LOST       |-> {}]

\* Mutant: any tender may be bid for again.
CanReopen(from, to) == to \in Transitions[from] \cup {"BIDDING"}

CanTransition(from, to) == to \in Transitions[from]

Exists(t) == row[t] # None

\* Where a request stands: the write it does next, or for "denorm" the read.
Request == [at: {"outcome", "save", "project", "score", "denorm"},
            tender: Tenders, row: Row \cup {None}, result: Result \cup {None}]

\* Request q holds a copy of tender t that it will write back.
Holds(q, t) ==
    req[q] # None /\ req[q].tender = t /\ req[q].at \in {"outcome", "save"}

\* A request whose name no row bears.
Fresh(q) == req[q] = None /\ outcomes[q] = None /\ scores[q] = None

Moves(q, at) == req' = [req EXCEPT ![q].at = at]
Ends(q) == req' = [req EXCEPT ![q] = None]

\* Request q works on tender t, of which it holds the copy r.
WorksOn(q, t, r, at, result) ==
    req' = [req EXCEPT ![q] = [at |-> at, tender |-> t, row |-> r, result |-> result]]

Held(q, t) == \E p \in Requests \ {q} : Holds(p, t)
DisturbedIf(t, cond) == disturbed' = disturbed \cup {x \in {t} : cond}

\* Request q takes a copy of tender t, which it will write back as r.
TakesCopy(q, t, r, at, result) ==
    WorksOn(q, t, r, at, result) /\ DisturbedIf(t, Held(q, t))

-----------------------------------------------------------------------------
(* Tenders come and go *)

Insert(t, r) ==
    /\ t \notin used
    /\ row' = [row EXCEPT ![t] = r]
    /\ used' = used \cup {t}
    /\ UNCHANGED <<outcomes, scores, projects, req, disturbed>>

\* A user may enter a tender in any status.
Create(t) ==
    \E s \in Status : Insert(t, [status |-> s, discovery |-> FALSE, score |-> None])

\* What discovery finds (its deduplication is the subject of DiscoveryRuns).
CreateDiscovery(t) ==
    Insert(t, [status |-> "IDENTIFIED", discovery |-> TRUE, score |-> None])

Delete(t) ==
    /\ Exists(t)
    /\ row' = [row EXCEPT ![t] = None]
    /\ UNCHANGED <<used, outcomes, scores, projects, req, disturbed>>

\* Projects are deleted by users too.
DeleteProject(p) ==
    /\ projects[p] # None
    /\ projects' = [projects EXCEPT ![p] = None]
    /\ UNCHANGED <<row, used, outcomes, scores, req, disturbed>>

-----------------------------------------------------------------------------
(* Requests that edit a tender: the read and the checks *)

\* PUT takes any valid status, or none, which leaves it as it is.
Update(q, t, s) ==
    /\ Fresh(q) /\ Exists(t)
    /\ WorksOn(q, t, [row[t] EXCEPT !.status = s], "save", None)
    /\ DisturbedIf(t, Held(q, t) \/ (row[t].status = "WON" /\ s # "WON"))
    /\ UNCHANGED tables

UpdateStatus(q, t, s) ==
    /\ Fresh(q) /\ Exists(t) /\ CanTransition(row[t].status, s)
    /\ TakesCopy(q, t, [row[t] EXCEPT !.status = s], "save", None)
    /\ UNCHANGED tables

Promote(q, t) ==
    /\ Fresh(q) /\ Exists(t) /\ row[t].discovery /\ row[t].status = "IDENTIFIED"
    /\ TakesCopy(q, t, [row[t] EXCEPT !.status = "QUALIFYING"], "save", None)
    /\ UNCHANGED tables

\* Review sets reviewed_at only, but it too writes the whole row.
Review(q, t) ==
    /\ Fresh(q) /\ Exists(t) /\ row[t].discovery
    /\ TakesCopy(q, t, row[t], "save", None)
    /\ UNCHANGED tables

RecordOutcome(q, t, result) ==
    /\ Fresh(q) /\ Exists(t) /\ CanTransition(row[t].status, result)
    /\ TakesCopy(q, t, [row[t] EXCEPT !.status = result], "outcome", result)
    /\ UNCHANGED tables

\* ScoreTarget reads the tender and asks the AI, which may take minutes.
ScoreTarget(q, t) ==
    /\ Fresh(q) /\ Exists(t)
    /\ WorksOn(q, t, None, "score", None)
    /\ UNCHANGED <<tables, disturbed>>

-----------------------------------------------------------------------------
(* Requests that edit a tender: their writes, in this order *)

\* Mutant: an outcome that cannot be stored does not stop the request.
InsertOutcomeBestEffort(q) ==
    /\ req[q] # None /\ req[q].at = "outcome"
    /\ \/ outcomes' = [outcomes EXCEPT ![q] = [tender |-> req[q].tender,
                                               result |-> req[q].result]]
       \/ UNCHANGED outcomes
    /\ Moves(q, "save")
    /\ UNCHANGED <<row, used, scores, projects, disturbed>>

InsertOutcome(q) ==
    /\ req[q] # None /\ req[q].at = "outcome"
    /\ outcomes' = [outcomes EXCEPT ![q] = [tender |-> req[q].tender,
                                            result |-> req[q].result]]
    /\ Moves(q, "save")
    /\ UNCHANGED <<row, used, scores, projects, disturbed>>

\* Save updates the row, or inserts it again if it was deleted; a tender that
\* has just been won then gets its project.
Save(q) ==
    /\ req[q] # None /\ req[q].at = "save"
    /\ row' = [row EXCEPT ![req[q].tender] = req[q].row]
    /\ IF req[q].result = "WON" THEN Moves(q, "project") ELSE Ends(q)
    /\ UNCHANGED <<used, outcomes, scores, projects, disturbed>>

CreateProject(q) ==
    /\ req[q] # None /\ req[q].at = "project"
    /\ projects' = [projects EXCEPT ![q] = req[q].tender]
    /\ Ends(q)
    /\ UNCHANGED <<row, used, outcomes, scores, disturbed>>

\* Mutant: the history row is written, if at all, after the tender's.
InsertScoreOrNot(q) ==
    /\ req[q] # None /\ req[q].at = "score"
    /\ \/ scores' = [scores EXCEPT ![q] = req[q].tender]
       \/ UNCHANGED scores
    /\ Moves(q, "denorm")
    /\ UNCHANGED <<row, used, outcomes, projects, disturbed>>

InsertScore(q) ==
    /\ req[q] # None /\ req[q].at = "score"
    /\ scores' = [scores EXCEPT ![q] = req[q].tender]
    /\ Moves(q, "denorm")
    /\ UNCHANGED <<row, used, outcomes, projects, disturbed>>

\* SetScore reads the tender again, to put the score into it.
SetScore(q) ==
    /\ req[q] # None /\ req[q].at = "denorm" /\ Exists(req[q].tender)
    /\ TakesCopy(q, req[q].tender, [row[req[q].tender] EXCEPT !.score = q], "save", None)
    /\ UNCHANGED tables

\* A statement fails, the AI does, the tender is gone, the client or the
\* process: the request ends where it is and what it has written stays.
Fails(q) ==
    /\ req[q] # None
    /\ Ends(q)
    /\ UNCHANGED <<tables, disturbed>>

-----------------------------------------------------------------------------

Init ==
    /\ row = [t \in Tenders |-> None]
    /\ used = {}
    /\ outcomes = [q \in Requests |-> None]
    /\ scores = [q \in Requests |-> None]
    /\ projects = [q \in Requests |-> None]
    /\ req = [q \in Requests |-> None]
    /\ disturbed = {}

Starts(q, t) ==
    \/ \E s \in Status : Update(q, t, s) \/ UpdateStatus(q, t, s)
    \/ Promote(q, t) \/ Review(q, t)
    \/ \E result \in Result : RecordOutcome(q, t, result)
    \/ ScoreTarget(q, t)

Goes(q) ==
    InsertOutcome(q) \/ Save(q) \/ CreateProject(q) \/ InsertScore(q) \/ SetScore(q) \/ Fails(q)

Next ==
    \/ \E t \in Tenders : Create(t) \/ CreateDiscovery(t) \/ Delete(t)
    \/ \E q \in Requests : DeleteProject(q) \/ Goes(q)
    \/ \E q \in Requests, t \in Tenders : Starts(q, t)

Spec == Init /\ [][Next]_vars

-----------------------------------------------------------------------------
(* Properties *)

TypeOK ==
    /\ row \in [Tenders -> Row \cup {None}]
    /\ used \subseteq Tenders
    /\ outcomes \in [Requests -> Outcome \cup {None}]
    /\ scores \in [Requests -> Tenders \cup {None}]
    /\ projects \in [Requests -> Tenders \cup {None}]
    /\ req \in [Requests -> Request \cup {None}]
    /\ disturbed \subseteq Tenders

Won(t, q) == outcomes[q] = [tender |-> t, result |-> "WON"]

\* A project stands on a win: its request has recorded a WON outcome for the
\* very tender it comes from, wherever requests fail or overlap
\* (RecordOutcome writes outcome, status and project in this order).
ProjectsEarned ==
    \A q \in Requests : projects[q] # None => Won(projects[q], q)

\* The score shown on a tender can be found in its history, "the source of
\* truth" of ScoreTarget, whatever stale copies of the row are written back.
ScoresInHistory ==
    \A t \in Tenders : Exists(t) /\ row[t].score # None => scores[row[t].score] = t

\* RecordOutcome succeeds once for each tender and "tak ada risiko proyek
\* ganda", under the conditions that its comment leaves out: no two requests
\* hold a copy of the tender at the same time and no PUT takes it out of WON.
\* Failures, retries and deletions do no harm.
OneProjectUndisturbed ==
    \A p, q \in Requests :
        projects[p] # None /\ projects[p] = projects[q] /\ projects[p] \notin disturbed
            => p = q

\* A request that has recorded a win and has its project still to create.
Winning(r) == r.result = "WON" /\ r.at \in {"save", "project"}

\* What makes these inductive: a copy about to be saved is as good as a row,
\* and a request on its way to a project has recorded the win.
CopySound(q) ==
    req[q] # None =>
        /\ req[q].at \in {"outcome", "save"} =>
             /\ req[q].row \in Row
             /\ req[q].row.score # None => scores[req[q].row.score] = req[q].tender
             /\ req[q].result # None => req[q].row.status = req[q].result
        /\ req[q].at = "outcome" => req[q].result # None
        /\ req[q].at = "denorm" => scores[q] = req[q].tender
        /\ req[q].at \in {"score", "denorm"} => req[q].result = None
        /\ req[q].at = "project" => req[q].result = "WON"
        /\ Winning(req[q]) => Won(req[q].tender, q)

CopiesSound == \A q \in Requests : CopySound(q)

\* Tender t has its project, or its request is about to insert it.
Books(q, t) ==
    projects[q] = t \/ (req[q] # None /\ req[q].at = "project" /\ req[q].tender = t)

\* In an undisturbed tender one copy at most is held, one project at most is
\* booked, and a booked tender is WON in its row and in the copy of it.
BookedOnceFor(t) ==
    \A p, q \in Requests :
        /\ Holds(p, t) /\ Holds(q, t) => p = q
        /\ Books(p, t) /\ Books(q, t) => p = q
        /\ Books(p, t) /\ Exists(t) => row[t].status = "WON"
        /\ Books(p, t) /\ Holds(q, t) => /\ req[q].row.status = "WON"
                                         /\ req[q].result = None

BookedOnce == \A t \in Tenders \ disturbed : BookedOnceFor(t)

\* What refers to a tender refers to one that was inserted, and a request is
\* not fresh as long as a row bears its name.
TracesKept ==
    /\ \A t \in Tenders : Exists(t) => t \in used
    /\ \A q \in Requests :
         /\ projects[q] # None => req[q] = None /\ projects[q] \in used
         /\ req[q] # None => req[q].tender \in used
         /\ req[q] # None /\ req[q].at = "score" => scores[q] = None

IInv == TypeOK /\ ProjectsEarned /\ ScoresInHistory /\ CopiesSound /\ BookedOnce /\ TracesKept

\* "tak ada risiko proyek ganda" (RecordOutcome), as it stands.
OneProjectPerTender ==
    \A p, q \in Requests : projects[p] # None /\ projects[p] = projects[q] => p = q

=============================================================================
