------------------------------ MODULE Prospects ------------------------------
(***************************************************************************)
(* Prospects in the sales pipeline: internal/service/prospect_service.go,  *)
(* outcome.go and EventService.Convert over the tables prospect and        *)
(* outcome_event, reached through the REST handlers and through the MCP    *)
(* tool update_prospect_stage.                                             *)
(*                                                                         *)
(* A change of stage reads the whole row, records a WON or LOST outcome    *)
(* and writes the row back (GORM's Save), without a transaction.           *)
(***************************************************************************)
EXTENDS Naturals, FiniteSets

CONSTANTS
    Prospects,  \* ids of prospect rows (fresh uuids, never reused)
    Sources,    \* pairs of a source_type and a source_id
    Events,     \* those of them that name an event
    Requests,   \* requests; each also names the outcome that it records
    None        \* SQL NULL, a missing row, no request

Result == {"WON", "LOST"}
\* OPEN stands for NEW, QUALIFIED, ENGAGED and PROPOSAL, which the code treats alike.
Stage == {"OPEN"} \cup Result
Row == [stage: Stage, source: Sources \cup {None}]
Outcome == [prospect: Prospects, result: Result]

ProspectsAssumption ==
    /\ Events \subseteq Sources
    /\ None \notin Prospects \cup Sources \cup Requests \cup Stage \cup Row \cup Outcome

VARIABLES
    row,       \* the prospect table
    born,      \* history: the stage each prospect was entered in
    outcomes,  \* the outcome_event row each request has inserted
    events,    \* the events that exist
    req        \* the requests under way

vars == <<row, born, outcomes, events, req>>

-----------------------------------------------------------------------------

Exists(p) == row[p] # None

\* Where a request stands: the write it does next.
Request == [at: {"outcome", "save", "convert"}, prospect: Prospects \cup {None},
            row: Row, result: Result \cup {None}]

\* A request whose name no outcome bears.
Fresh(q) == req[q] = None /\ outcomes[q] = None

Ends(q) == req' = [req EXCEPT ![q] = None]

\* Mutant: every pair of a type and an id may be used again.
AcceptsAny(p, r) == TRUE

\* The unique index on (source_type, source_id) accepts r as row p.
Accepts(p, r) ==
    r.source # None => \A x \in Prospects \ {p} : Exists(x) => row[x].source # r.source

-----------------------------------------------------------------------------
(* Prospects and events come and go *)

Insert(p, r) ==
    /\ born[p] = None /\ Accepts(p, r)
    /\ row' = [row EXCEPT ![p] = r]
    /\ born' = [born EXCEPT ![p] = r.stage]

\* A user may enter a prospect in any stage and with any source.
Create(p, r) ==
    /\ Insert(p, r)
    /\ UNCHANGED <<outcomes, events, req>>

Delete(p) ==
    /\ Exists(p)
    /\ row' = [row EXCEPT ![p] = None]
    /\ UNCHANGED <<born, outcomes, events, req>>

\* No foreign key ties a prospect to its event.
DeleteEvent(e) ==
    /\ e \in events
    /\ events' = events \ {e}
    /\ UNCHANGED <<row, born, outcomes, req>>

\* Convert reads the event and looks for a prospect that stems from it ...
Convert(q, e) ==
    /\ Fresh(q) /\ e \in events
    /\ \A p \in Prospects : Exists(p) => row[p].source # e
    /\ req' = [req EXCEPT ![q] = [at |-> "convert", prospect |-> None,
                                  row |-> [stage |-> "OPEN", source |-> e],
                                  result |-> None]]
    /\ UNCHANGED <<row, born, outcomes, events>>

\* ... and inserts one.
InsertConverted(q, p) ==
    /\ req[q] # None /\ req[q].at = "convert"
    /\ Insert(p, req[q].row)
    /\ Ends(q)
    /\ UNCHANGED <<outcomes, events>>

-----------------------------------------------------------------------------
(* Changes of a prospect *)

\* applyStage: the outcome to record when a prospect goes from one stage to
\* another; asking again for the stage it is in records none.
OutcomeOf(from, to) == IF from # to /\ to \in Result THEN to ELSE None

\* Update (PUT) may change the stage, the source and more at once; no value of
\* a request takes the source away.
Update(q, p, r) ==
    /\ Fresh(q) /\ Exists(p) /\ (r.source = None => row[p].source = None)
    /\ LET result == OutcomeOf(row[p].stage, r.stage) IN
       req' = [req EXCEPT ![q] = [at |-> IF result = None THEN "save" ELSE "outcome",
                                  prospect |-> p, row |-> r, result |-> result]]
    /\ UNCHANGED <<row, born, outcomes, events>>

\* UpdateStage (PATCH and MCP) moves from any stage to any other.
UpdateStage(q, p, s) == Exists(p) /\ Update(q, p, [row[p] EXCEPT !.stage = s])

\* Mutant: an outcome that cannot be stored does not stop the request.
InsertOutcomeBestEffort(q) ==
    /\ req[q] # None /\ req[q].at = "outcome"
    /\ \/ outcomes' = [outcomes EXCEPT ![q] = [prospect |-> req[q].prospect,
                                               result |-> req[q].result]]
       \/ UNCHANGED outcomes
    /\ req' = [req EXCEPT ![q].at = "save"]
    /\ UNCHANGED <<row, born, events>>

InsertOutcome(q) ==
    /\ req[q] # None /\ req[q].at = "outcome"
    /\ outcomes' = [outcomes EXCEPT ![q] = [prospect |-> req[q].prospect,
                                            result |-> req[q].result]]
    /\ req' = [req EXCEPT ![q].at = "save"]
    /\ UNCHANGED <<row, born, events>>

\* Save updates the row, or inserts it again if it was deleted.
Save(q) ==
    /\ req[q] # None /\ req[q].at = "save"
    /\ Accepts(req[q].prospect, req[q].row)
    /\ row' = [row EXCEPT ![req[q].prospect] = req[q].row]
    /\ Ends(q)
    /\ UNCHANGED <<born, outcomes, events>>

\* A statement fails, the index refuses it, the client or the process is
\* gone: the request ends where it is, and an outcome it has recorded stays.
Fails(q) ==
    /\ req[q] # None
    /\ Ends(q)
    /\ UNCHANGED <<row, born, outcomes, events>>

-----------------------------------------------------------------------------

Init ==
    /\ row = [p \in Prospects |-> None]
    /\ born = [p \in Prospects |-> None]
    /\ outcomes = [q \in Requests |-> None]
    /\ events = Events
    /\ req = [q \in Requests |-> None]

Next ==
    \/ \E p \in Prospects : Delete(p) \/ \E r \in Row : Create(p, r)
    \/ \E e \in Events : DeleteEvent(e)
    \/ \E q \in Requests :
         \/ InsertOutcome(q) \/ Save(q) \/ Fails(q)
         \/ \E e \in Events : Convert(q, e)
         \/ \E p \in Prospects :
              \/ InsertConverted(q, p)
              \/ \E r \in Row : Update(q, p, r)
              \/ \E s \in Stage : UpdateStage(q, p, s)

Spec == Init /\ [][Next]_vars

-----------------------------------------------------------------------------
(* Properties *)

TypeOK ==
    /\ row \in [Prospects -> Row \cup {None}]
    /\ born \in [Prospects -> Stage \cup {None}]
    /\ outcomes \in [Requests -> Outcome \cup {None}]
    /\ events \subseteq Events
    /\ req \in [Requests -> Request \cup {None}]

\* An outcome has been recorded for prospect p in stage s, or none is due:
\* the stage is open, or the prospect was entered in it.
Recorded(p, s) ==
    \/ s \notin Result \/ born[p] = s
    \/ \E q \in Requests : outcomes[q] = [prospect |-> p, result |-> s]

\* "so a stage change always fires outcome recording regardless of entry
\* point" (applyStage): no won or lost prospect is missing from the outcomes
\* that the learning works on, whatever overlaps, fails or comes back.
ClosedIsRecorded == \A p \in Prospects : Exists(p) => Recorded(p, row[p].stage)

\* An event becomes one prospect at most (Convert), and so does any other
\* source, although conversions overlap, edits move prospects to other
\* sources, and stale copies bring deleted prospects and old sources back.
OneProspectPerSource ==
    \A p, x \in Prospects :
        Exists(p) /\ Exists(x) /\ row[p].source # None /\ row[p].source = row[x].source
            => p = x

\* "so repeat/duplicate calls don't emit duplicate outcome events" (applyStage):
\* of two calls under way that ask for the same, one at most records an outcome.
\* The code does not keep it: the guard looks at the copy that a call has read, and
\* a call that fails after its outcome leaves the stage as it was for a retry.
DuplicatesRecordOnce ==
    \A o, q \in Requests :
        req[o] # None /\ req[q] # None /\ outcomes[o] # None /\ outcomes[o] = outcomes[q]
            => o = q

\* What makes these inductive.  A copy about to be saved is as well recorded
\* as a row, and only what was inserted once is worked on.
CopySound(q) ==
    req[q] # None =>
        /\ req[q].at = "convert" => req[q].row.stage = "OPEN" /\ req[q].result = None
        /\ req[q].at # "convert" => /\ req[q].prospect \in Prospects
                                   /\ born[req[q].prospect] # None
        /\ req[q].at = "outcome" => /\ req[q].result = req[q].row.stage
                                   /\ outcomes[q] = None
        /\ req[q].at = "save" => Recorded(req[q].prospect, req[q].row.stage)

CopiesSound == \A q \in Requests : CopySound(q)

RowsBorn == \A p \in Prospects : Exists(p) => born[p] # None

IInv ==
    /\ TypeOK /\ ClosedIsRecorded /\ OneProspectPerSource /\ CopiesSound /\ RowsBorn

=============================================================================
