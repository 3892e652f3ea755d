-------------------------------- MODULE Boards --------------------------------
(***************************************************************************)
(* The pipeline board (ProspectBoard) and the pages of the events          *)
(* (EventDesk) share no state, and are looked at together: a behaviour is  *)
(* that of one scene, and the variables of the other module have no value  *)
(* in it.  Variables of one name stand for those of the scene.             *)
(***************************************************************************)
EXTENDS Naturals, FiniteSets

CONSTANTS
    Cards, MaxFaults, BoardBounds,           \* board
    Events, MaxFiles, MaxRuns, EventBounds,  \* event
    Slots, None                              \* both

VARIABLES
    scene,                                                  \* "board" or "event"
    list, detail,                                           \* board
    runs, writes, cache, loads, removed, holes, astray,     \* event
    row, calls, latest, ui, budget, told                    \* both

boardVars == <<list, detail>>
eventVars == <<runs, writes, cache, loads, removed, holes, astray>>
vars == <<scene, boardVars, eventVars, row, calls, latest, ui, budget, told>>

-----------------------------------------------------------------------------

Board == INSTANCE ProspectBoard WITH Bounds <- BoardBounds
Event == INSTANCE EventDesk WITH Bounds <- EventBounds

ASSUME BoardsAssumption == Board!BoardAssumption /\ Event!EventAssumption

-----------------------------------------------------------------------------
(* The scenes *)

NoBoard == list = None /\ detail = None
NoEvent ==
    /\ runs = None /\ writes = None /\ cache = None /\ loads = None /\ removed = None
    /\ holes = None /\ astray = None

Init ==
    \/ scene = "board" /\ Board!Init /\ NoEvent
    \/ scene = "event" /\ Event!Init /\ NoBoard

In(s, formula) == scene = s /\ formula
OnBoard(action) == In("board", action) /\ UNCHANGED <<scene, eventVars>>
OnEvents(action) == In("event", action) /\ UNCHANGED <<scene, boardVars>>

Next == OnBoard(Board!Next) \/ OnEvents(Event!Next)

Spec == Init /\ [][Next]_vars

\* The fairness of each module, in its scene: an action of one scene is never
\* enabled in the other, so one conjunct states it for both.
Carried(s) == OnBoard(Board!Carry(s)) \/ OnEvents(Event!Handle(s))
Delivered(s) == OnBoard(Board!Deliver(s)) \/ OnEvents(Event!Deliver(s))
Polled == OnBoard(Board!Query) \/ OnEvents(Event!Poll)
Fairness ==
    /\ WF_vars(Polled)
    /\ \A s \in Slots : WF_vars(Carried(s)) /\ WF_vars(Delivered(s))
    /\ \A k \in Event!Keys : WF_vars(OnEvents(Event!Query(k)))
    /\ \A i \in 1 .. MaxRuns : WF_vars(OnEvents(Event!Reap(i))) /\ WF_vars(OnEvents(Event!Dispatch(i)))
    /\ WF_vars(OnEvents(\E w \in writes : Event!Settle(w)))

FairSpec == Spec /\ Fairness

-----------------------------------------------------------------------------
(* The properties of the modules, in their scenes *)

\* What the pages show is well-formed and, when nothing is under way, what the
\* server has: the board and the drawer of a prospect, the list of the events and
\* the event on screen.  Notes are only sent with the outcome they were typed for.
PagesHold ==
    /\ scene = "board" => Board!TypeOK /\ Board!BoardIsCurrent /\ Board!NotesBelong
    /\ scene = "event" => Event!TypeOK /\ Event!EventIsCurrent

\* An event is analysed once at a time, and while it is it stays the event that the
\* analysis has read.
AnalysisIsAlone == scene = "event" => Event!OneAnalysis /\ Event!LockHolds

\* A write changes what it is about: an edit that leaves the stage of a prospect
\* alone leaves it alone on the server, and a file goes from an event because the
\* user has taken it off, or by a list that was made without knowing of it.
WritesKeepTheRest ==
    [][/\ scene = "board" => Board!SavesKeepStage
       /\ scene = "event" => Event!DropsNoOther]_vars

\* What the pages show ahead of the server is settled: a stage that is shown but not
\* had, one way or the other, and an event that is shown being analysed.
DropSettles == \A p \in Cards : In("board", Board!Unsettled(p)) ~> ~In("board", Board!Unsettled(p))
AnalysisEnds == In("event", Event!Awaits) ~> ~In("event", Event!Awaits)
PagesSettle == DropSettles /\ AnalysisEnds
=============================================================================
