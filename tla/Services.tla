------------------------------- MODULE Services -------------------------------
(***************************************************************************)
(* Seven parts of the system that share no state, six of the server with   *)
(* what the browser keeps of them and one of a page, are looked at         *)
(* together: a behaviour is that of one scene, whose module it follows,    *)
(* and the variables of the other modules have no value in it.  Variables  *)
(* of one name (`row', `req' ...) stand for those of the scene.            *)
(*                                                                         *)
(*   tenders    tenders on their way to a project, Tenders                 *)
(*   prospects  prospects in the sales pipeline, Prospects                 *)
(*   signin     who is signed in, SignIn                                   *)
(*   console    the console of the agent, HermesConsole                    *)
(*   settings   the configuration of the AI provider, AISettings           *)
(*   invites    the mailing of invitations, EventInvites                   *)
(*   deck       a playbook as slides, PlaybookDeck                         *)
(***************************************************************************)
EXTENDS Naturals, FiniteSets

CONSTANTS
    Scenes,                                          \* the scenes to look at
    Tenders, TenderRequests,                         \* tenders
    Prospects, Sources, Events, ProspectRequests,    \* prospects
    Users, Fetches, Gated, MaxTokens, SignInBounds,  \* signin
    Tickets, ConsoleBounds,                          \* console
    Updates,                                         \* settings
    Invitations, Limit, MaxTime,                     \* invites
    Contents,                                        \* deck
    MaxFaults, None                                  \* several

VARIABLES
    scene,                                                                        \* the scene
    used, scores, projects, disturbed,                                            \* tenders
    born, events,                                                                 \* prospects
    token, user, owner, old, dead, call, refresh, login, leaving, crossed,        \* signin
    view, frame, visit, cookie, life, audit, calls, ending, unended, conn,        \* console
    spoilt, left,
    bridge, update, mixed, apart,                                                 \* settings
    event, now, batch, when, outcome, cancels, mails, slips, clear,               \* invites
    content, idx,                                                                 \* deck
    row, outcomes, req, active, faults                                            \* several

tenderVars == <<used, scores, projects, disturbed>>
prospectVars == <<born, events>>
signinVars == <<token, user, owner, old, dead, call, refresh, login, leaving, crossed>>
consoleVars == <<view, frame, visit, cookie, life, audit, calls, ending, unended, conn, spoilt, left>>
settingsVars == <<bridge, update, mixed, apart>>
invitesVars == <<event, now, batch, when, outcome, cancels, mails, slips, clear>>
deckVars == <<content, idx>>
salesVars == <<tenderVars, prospectVars, outcomes, req>>
vars == <<scene, salesVars, signinVars, consoleVars, settingsVars, invitesVars, deckVars, row, active, faults>>

-----------------------------------------------------------------------------

Tender == INSTANCE Tenders WITH Requests <- TenderRequests
Prospect == INSTANCE Prospects WITH Requests <- ProspectRequests
Sign == INSTANCE SignIn WITH Bounds <- SignInBounds, Calls <- Fetches
Console == INSTANCE HermesConsole WITH Bounds <- ConsoleBounds
Settings == INSTANCE AISettings
Mailing == INSTANCE EventInvites WITH Invites <- Invitations
Deck == INSTANCE PlaybookDeck

ASSUME ServicesAssumption ==
    /\ Tender!TendersAssumption /\ Prospect!ProspectsAssumption
    /\ Sign!SignInAssumption /\ Console!ConsoleAssumption /\ Settings!SettingsAssumption
    /\ Mailing!InvitesAssumption /\ Deck!SlidesAssumption

-----------------------------------------------------------------------------
(* The scenes *)

\* What the module of a scene does not name has no value in it.
NoSales ==
    /\ used = None /\ scores = None /\ projects = None /\ born = None /\ events = None
    /\ outcomes = None /\ req = None /\ disturbed = None
NoSignIn ==
    /\ token = None /\ user = None /\ owner = None /\ old = None /\ dead = None
    /\ call = None /\ refresh = None /\ login = None /\ leaving = None /\ crossed = None
NoConsole ==
    /\ view = None /\ frame = None /\ visit = None /\ cookie = None /\ life = None
    /\ audit = None /\ calls = None /\ ending = None /\ unended = None /\ conn = None
    /\ spoilt = None /\ left = None
NoSettings == bridge = None /\ update = None /\ mixed = None /\ apart = None
NoInvites ==
    /\ event = None /\ now = None /\ batch = None /\ when = None /\ outcome = None
    /\ cancels = None /\ mails = None /\ slips = None /\ clear = None
NoDeck == content = None /\ idx = None

\* A behaviour has one scene.
Init ==
    /\ scene \in Scenes
    /\ \/ /\ scene = "tenders" /\ Tender!Init
          /\ born = None /\ events = None /\ active = None /\ faults = None
          /\ NoSignIn /\ NoConsole /\ NoSettings /\ NoInvites /\ NoDeck
       \/ /\ scene = "prospects" /\ Prospect!Init
          /\ used = None /\ scores = None /\ projects = None /\ disturbed = None
          /\ active = None /\ faults = None
          /\ NoSignIn /\ NoConsole /\ NoSettings /\ NoInvites /\ NoDeck
       \/ /\ scene = "signin" /\ Sign!Init
          /\ row = None /\ NoSales /\ NoConsole /\ NoSettings /\ NoInvites /\ NoDeck
       \/ /\ scene = "console" /\ Console!Init
          /\ row = None /\ active = None /\ faults = None
          /\ NoSales /\ NoSignIn /\ NoSettings /\ NoInvites /\ NoDeck
       \/ /\ scene = "settings" /\ Settings!Init
          /\ row = None /\ faults = None
          /\ NoSales /\ NoSignIn /\ NoConsole /\ NoInvites /\ NoDeck
       \/ /\ scene = "invites" /\ Mailing!Init
          /\ active = None /\ NoSales /\ NoSignIn /\ NoConsole /\ NoSettings /\ NoDeck
       \/ /\ scene = "deck" /\ Deck!Init
          /\ row = None /\ active = None /\ faults = None
          /\ NoSales /\ NoSignIn /\ NoConsole /\ NoSettings /\ NoInvites

Next ==
    /\ UNCHANGED scene
    /\ \/ /\ scene = "tenders" /\ Tender!Next
          /\ UNCHANGED <<prospectVars, signinVars, consoleVars, settingsVars, invitesVars, deckVars,
                         active, faults>>
       \/ /\ scene = "prospects" /\ Prospect!Next
          /\ UNCHANGED <<tenderVars, signinVars, consoleVars, settingsVars, invitesVars, deckVars,
                         active, faults>>
       \/ /\ scene = "signin" /\ Sign!Next
          /\ UNCHANGED <<salesVars, consoleVars, settingsVars, invitesVars, deckVars, row>>
       \/ /\ scene = "console" /\ Console!Next
          /\ UNCHANGED <<salesVars, signinVars, settingsVars, invitesVars, deckVars, row, active, faults>>
       \/ /\ scene = "settings" /\ Settings!Next
          /\ UNCHANGED <<salesVars, signinVars, consoleVars, invitesVars, deckVars, row, faults>>
       \/ /\ scene = "invites" /\ Mailing!Next
          /\ UNCHANGED <<salesVars, signinVars, consoleVars, settingsVars, deckVars, active>>
       \/ /\ scene = "deck" /\ Deck!Next
          /\ UNCHANGED <<salesVars, signinVars, consoleVars, settingsVars, invitesVars, row, active, faults>>

Spec == Init /\ [][Next]_vars

\* The fairness of each module, in its scene.  What each call, or each session, is
\* owed is stated for all at once: they are few, and each step is taken a bounded
\* number of times, so none is put off for ever.
In(s, formula) == scene = s /\ formula
Fairness ==
    /\ WF_(Sign!vars)(In("signin", \E c \in Fetches : Sign!Replied(c)))
    /\ WF_(Sign!vars)(In("signin", Sign!RefreshEnds))
    /\ WF_(Console!vars)(In("console", \E s \in Tickets : Console!GrowOld(s) \/ Console!Cut(s)))
    /\ WF_(Console!vars)(In("console", Console!Sweep))
    /\ WF_(Mailing!vars)(In("invites", Mailing!Dispatches))
FairSpec == Spec /\ Fairness

-----------------------------------------------------------------------------
(* The properties of the modules, in their scenes *)

\* The state of a scene keeps its types.
TypeOK ==
    /\ scene = "tenders" => Tender!TypeOK
    /\ scene = "prospects" => Prospect!TypeOK
    /\ scene = "signin" => Sign!TypeOK
    /\ scene = "console" => Console!TypeOK
    /\ scene = "settings" => Settings!TypeOK
    /\ scene = "invites" => Mailing!TypeOK

\* The outcomes that the learning works on, and the history of the scores, miss
\* nothing: a project, a score on a tender, a prospect that was won or lost each has
\* its record, whatever fails, overlaps or comes back.
RecordsComplete ==
    /\ scene = "tenders" => Tender!ProjectsEarned /\ Tender!ScoresInHistory
    /\ scene = "prospects" => Prospect!ClosedIsRecorded

\* One project for a tender, unless requests on it overlapped or a PUT took it out of
\* WON; one prospect for an event or another source, whatever overlaps.
OnePerSource ==
    /\ scene = "tenders" => Tender!OneProjectUndisturbed
    /\ scene = "prospects" => Prospect!OneProspectPerSource

\* What a service and its users hold of one thing agrees.  Token and user in the
\* store, and the calls made with them, are one person's; a console that is shown is
\* one that browser and server have, and the audit tells which sessions are over;
\* the bridge uses the active configuration; an invitation is mailed once for its
\* row.  Each module says what may come in between.
ServicesAgree ==
    /\ scene = "signin" => Sign!OneIdentity
    /\ scene = "console" => Console!ConsoleIsLive /\ Console!AuditTells
    /\ scene = "settings" => Settings!BridgeFollows
    /\ scene = "invites" => Mailing!MailedAgainForACause

\* Whatever the agent has delivered, and whatever became of the deck under the
\* viewer: a slide that was given anything to say says it, a deck begins with its
\* cover and ends with its closing slide, and the viewer shows a slide of the deck.
DecksHold ==
    scene = "deck" => Deck!NoSlideIsBlank /\ Deck!DeckIsFramed /\ Deck!ViewerShowsASlide

\* Besides, the slides of the catalogue, which stand in for the drawings of the agent
\* that fail the check, pass it themselves.
SlidesHold == DecksHold /\ (scene = "deck" => Deck!CataloguePassesTheCheck)

\* What users did not ask for has a cause.  They are sent back to /login for one of
\* four reasons; an update that brings no key, and is not overlapped, leaves the
\* key of the provider as it is; an invitation that is cancelled while no sweep
\* holds it is not mailed afterwards.
NothingUnasked ==
    [][/\ scene = "signin" => Sign!SignsOutForACause
       /\ scene = "settings" => Settings!KeyIsKept
       /\ scene = "invites" => Mailing!CancelStopsTheMail]_vars

\* What is under way comes to an end: calls that wait for a refresh, whatever becomes
\* of it; sessions of the console, whether or not anybody ends them, and what is
\* relayed for them; invitations whose time has come.  One thing may keep these: the
\* scheduler waits for the mail server, and it has no deadline for that.
UnderWay ==
    \/ scene = "signin" /\ \E c \in Fetches : Sign!Under(c)
    \/ scene = "console" /\ \E s \in Tickets : Console!Lives(s)
    \/ scene = "invites" /\ \E i \in Invitations : Mailing!Awaits(i)
HangsAtServer == [](scene = "invites" /\ Mailing!AtServer)
ServicesEnd == UnderWay ~> (~UnderWay \/ HangsAtServer)
=============================================================================
