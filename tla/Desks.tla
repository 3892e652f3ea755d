--------------------------------- MODULE Desks ---------------------------------
(***************************************************************************)
(* Four parts of the system, each with its pages and the server behind     *)
(* them, that share no state are looked at together: a behaviour is that   *)
(* of one scene, whose module it follows, and the variables of the other   *)
(* modules have no value in it.  Variables of one name (`calls', `ui',     *)
(* `row' ...) stand for those of the scene.                                *)
(*                                                                         *)
(*   form      the public questionnaire, PublicForms                       *)
(*   playbook  the pages of the playbook jobs, PlaybookDesk                *)
(*   project   the pages of the running projects, ProjectDesk              *)
(*   chat      the chat, ChatDesk                                          *)
(***************************************************************************)
EXTENDS Integers, FiniteSets, Sequences

CONSTANTS
    Clients, Questionnaires, Scores, Remarks, Options, MaxSends, FormBounds, \* form
    Jobs, PlaybookBounds,                                                   \* playbook
    Projects, Milestones, Notes, Changes, ProjectBounds,                    \* project
    Convs, MaxParts, ChatBounds,                                            \* chat
    Slots, MaxTexts, MaxFaults, None                                        \* several

VARIABLES
    scene,                                                               \* the scene
    form, copy, stored, page, versions, missed,                          \* form
    job, out, again, taken,                                              \* playbook
    row, cache, want, gone, revived,                                     \* project
    conv, task, detail, stream, degraded, heard, dropped, twice, shown,  \* chat
    crashed, crossed,
    calls, latest, ui, budget, told, lost, list                          \* several

formVars == <<form, copy, stored, page, versions, missed>>
playbookVars == <<job, out, again, taken>>
projectVars == <<row, cache, want, gone, revived>>
chatVars == <<conv, task, detail, stream, degraded, heard, dropped, twice, shown, crashed, crossed>>
vars == <<scene, formVars, playbookVars, projectVars, chatVars,
          calls, latest, ui, budget, told, lost, list>>

-----------------------------------------------------------------------------

Form == INSTANCE PublicForms WITH Bounds <- FormBounds, Texts <- Remarks
Playbook == INSTANCE PlaybookDesk WITH Bounds <- PlaybookBounds
Project == INSTANCE ProjectDesk WITH Bounds <- ProjectBounds, Inputs <- Changes
Chat == INSTANCE ChatDesk WITH Bounds <- ChatBounds

ASSUME ScenesAssumption ==
    /\ Form!QuestionAssumption /\ Form!BoundsAssumption
    /\ Playbook!PlaybookDeskAssumption /\ Project!ProjectDeskAssumption /\ Chat!ChatDeskAssumption

-----------------------------------------------------------------------------
(* The scenes *)

\* What the module of a scene does not name has no value in it.
NoForm ==
    /\ form = None /\ copy = None /\ stored = None /\ page = None /\ versions = None
    /\ missed = None
NoPlaybook ==
    /\ job = None /\ out = None /\ again = None /\ taken = None
NoProject ==
    /\ row = None /\ cache = None /\ want = None /\ gone = None /\ revived = None
NoChat ==
    /\ conv = None /\ task = None /\ detail = None /\ stream = None /\ degraded = None
    /\ heard = None /\ dropped = None /\ twice = None /\ shown = None /\ crashed = None
    /\ crossed = None

\* A behaviour has one scene.
Init ==
    \/ /\ scene = "form" /\ Form!Init
       /\ NoPlaybook /\ NoProject /\ NoChat
       /\ latest = None /\ ui = None /\ told = None /\ lost = None /\ list = None
    \/ /\ scene = "playbook" /\ Playbook!Init
       /\ NoForm /\ NoProject /\ NoChat
    \/ /\ scene = "project" /\ Project!Init
       /\ NoForm /\ NoPlaybook /\ NoChat /\ list = None
    \/ /\ scene = "chat" /\ Chat!Init
       /\ NoForm /\ NoPlaybook /\ NoProject /\ lost = None

Next ==
    /\ UNCHANGED scene
    /\ \/ /\ scene = "form" /\ Form!Next
          /\ UNCHANGED <<playbookVars, projectVars, chatVars, latest, ui, told, lost, list>>
       \/ /\ scene = "playbook" /\ Playbook!Next
          /\ UNCHANGED <<formVars, projectVars, chatVars>>
       \/ /\ scene = "project" /\ Project!Next
          /\ UNCHANGED <<formVars, playbookVars, chatVars, list>>
       \/ /\ scene = "chat" /\ Chat!Next
          /\ UNCHANGED <<formVars, playbookVars, projectVars, lost>>

Spec == Init /\ [][Next]_vars

\* The fairness of each module, in its scene.
In(s, formula) == scene = s /\ formula
Fairness ==
    /\ WF_(Playbook!vars)(In("playbook", Playbook!Served))
    /\ WF_(Playbook!vars)(In("playbook", Playbook!Refreshed))
    /\ WF_(Playbook!vars)(In("playbook", Playbook!Reaped))
    /\ WF_(Chat!vars)(In("chat", Chat!Served))
FairSpec == Spec /\ Fairness

-----------------------------------------------------------------------------
(* The properties of the modules, in their scenes *)

\* The state of a scene keeps its types.
TypeOK ==
    /\ scene = "form" => Form!TypeOK
    /\ scene = "playbook" => Playbook!TypeOK
    /\ scene = "project" => Project!TypeOK
    /\ scene = "chat" => Chat!TypeOK

\* What is shown is what there is.  When nothing is under way the screen shows the
\* playbooks, the projects and their summary, and the room, that the server has;
\* each module says what may come in between.  The results of a questionnaire stay
\* in range whatever scale or type the answers were given on.
ViewsAgree ==
    /\ scene = "playbook" => Playbook!JobsAreCurrent
    /\ scene = "project" => Project!DeskIsCurrent
    /\ scene = "chat" => Chat!RoomIsCurrent
    /\ scene = "form" => Form!ResultsInRange

\* What users have put in is kept, unless they gave it up or a write that did not
\* know of it came after: the instruction for a playbook; the change of a project,
\* its notes and its deletion; the message to the agent, and what they have seen of
\* the answer, which stands right after its question.
InputIsKept ==
    /\ scene = "playbook" => Playbook!InstructionKept
    /\ scene = "project" =>
         /\ Project!EditsKept /\ Project!NotesKept /\ Project!DeletedStaysGone
         /\ Project!RefusedForACause
    /\ scene = "chat" => Chat!NoMessageVanishes /\ Chat!NothingShownIsLost /\ Chat!AnswersFollow

\* What is asked for once is done once: a page stores one submission and an
\* instruction revises a playbook once.  Only a loss makes it twice, or a user who
\* sends an instruction by Enter that is already on its way.
DoneOnce ==
    /\ scene = "form" => Form!OncePerPage
    /\ scene = "playbook" => Playbook!RevisedOnce

\* However the questionnaire is edited, republished or deleted while clients write:
\* what is stored answers some version of it that was published, page and server
\* refuse the same, and every answer counts once until its question is redefined.
AnswersHold ==
    scene = "form" => Form!StoredFitsAVersion /\ Form!RefusedForACause /\ Form!EveryAnswerCounts

\* What is under way comes to an end: playbooks that are shown at work, unless the
\* page is left; an answer of the agent, whatever breaks, unless it ended without a
\* word or the agent never says another, which nothing in the code puts an end to.
PlaybooksAtWork == scene = "playbook" /\ \E j \in Jobs : Playbook!AtWork(j)
Awaited(c) == scene = "chat" /\ Chat!Awaited(c)
HungUp(c) == scene = "chat" /\ Chat!HungUp(c)
WorkEnds ==
    /\ PlaybooksAtWork ~> ~PlaybooksAtWork
    /\ \A c \in Convs : Awaited(c) ~> (~Awaited(c) \/ []HungUp(c))
=============================================================================
