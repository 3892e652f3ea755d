# Verification of SalesFlow

TLA+ models of the parts of SalesFlow (SalesPilot) that are hard to test, the
TLC runs that check them on small instances, and TLAPS proofs of their main
safety properties. Paths below are those of the repository.

## The system

SalesFlow is a sales workspace: a React application (`apps/web`), a Go API
(`apps/api`, `internal/`) over PostgreSQL (`db/migrations`), and two Python
services around the Hermes agent (`services/hermes-bridge`,
`services/hermes-tui`). The API is one process with many handlers at a time,
four tickers (reaper, discovery scheduler, invitations, TUI sweeper) and
detached goroutines. Except for the profile and the AI settings nothing uses a
transaction: a handler reads a row with GORM's `First`, edits the copy and writes
*all* of it back with `Save`, which even inserts the row again if it is gone.
Long AI work is delegated ("titip tugas"): the API stores a row, hands an
instruction to the bridge, and the bridge posts the outcome back, once.

| Component | State | Operations | What is hard | What makes it correct |
|---|---|---|---|---|
| Playbook jobs (`internal/service/playbook_job_service.go`) | `playbook_job` rows, runs at the bridge | create, generate for an event, retry, refine, delete; callback, dispatch failure, reaper, boot sweep | stale full-row writes, late and lost reports, restarts, generation in two statements | rows that tell one story, one playbook per event, contents traceable to a run of the job, no job in progress for ever |
| Company profile (`profile_service.go`, `profile_repo.go`) | `company_profile` versions | save | row locks under READ COMMITTED, a merge outside the transaction | one line of versions, no deadlock |
| Crawl automation (`crawl_automation.go`, `hermestui/cron.go`) | one cron job at the Hermes scheduler | upsert, pause | look up, then create; pushes out of order | one job, and it says what the profile says |
| Discovery (`discovery_service.go`, `ai/scheduler.go`, `ai/discovery.go`) | `discovery_run` rows, goroutines, tenders | trigger (user, ticker, cron job), pipeline | check-then-insert races, expired contexts, restarts, partial failure | no tender twice, one run per period, honest counts, runs that end |
| Tenders, projects (`tender_service.go`, `project_service.go`) | `tender`, `outcome_event`, `project` | CRUD, transitions, promote, review, outcome, score | three writes without a transaction, stale writes, reopening by PUT | one project per win, outcomes that match the status |
| Prospects (`prospect_service.go`) | `prospect`, `outcome_event` | CRUD, stage moves, conversion of events | a guard on a stale copy | no terminal stage without an outcome, one prospect per source |
| Scoring (`score_service.go`, `ai/recommend.go`) | `prospect_score` history, a copy on the tender | score | history first, best-effort copy | the copy is one of the history |
| Events and their analysis (`event_service.go`, `event_analysis_service.go`) | `event` rows | CRUD, convert, analyse, callback, reaper | the form, the attachments and the analysis write one row | one analysis at a time, an event that stays what the analysis has read, no file lost |
| Invitations (`event_invite_service.go`) | `event_invite` rows, mails | schedule, cancel, dispatch | crash between mail and status, cancel during a sweep | a mail is sent once but for a slip, none after a cancel |
| Feedback questionnaires (`feedback_form_service.go`, `feedback_ai_service.go`) | `feedback_form`, submissions | edit, publish, AI suggestion with clarification, callback, reaper, submit, statistics | old callbacks on newer suggestions, answers to older versions | a result belongs to the suggestion it is taken for; answers fit a version; statistics count them rightly |
| Chat (`chat_service.go`, `chat_handler.go`) | conversations and messages, streams | create, delete, ask and relay the answer | `done` before the answer is stored, browsers that leave | nothing that was shown is lost, answers follow their questions |
| AI settings (`ai_setting_service.go`) | active row, the bridge's memory | update, rehydrate | push before commit, rollback, restarts | database and bridge agree |
| TUI proxy (`internal/hermestui`, `hermes_tui_handler.go`) | tickets, sessions in memory, audit rows, a cookie | issue, enter, relay, end, sweep | sweep against use, ends that arrive late | the session shown is the one that lives, sessions end, the audit tells |
| Users, auth (`auth_service.go`, `user_service.go`, `auth/jwt.go`) | accounts; tokens without state | login, refresh, user CRUD | - | tokens of active accounts only |
| MCP tools (`internal/mcp`) | - | read tools; four write tools | one more writer of jobs and prospects | those of the rows they write |
| Feedback links (legacy), sources, keywords, reports, dashboard | rows of their own | CRUD, aggregation | - | not modelled |
| Per-target playbooks (`playbook_service.go`) | - | - | - | not wired into the router |

The web application (`apps/web/src`) talks to the API by `apiFetch` and keeps what it
is told in the query cache of react-query. Its parts share no state but the
cache's entries and the store of the tokens:

| Part | State | Operations | What is hard | What makes it correct |
|---|---|---|---|---|
| Query cache (`main.tsx`, `api/*.ts`) | entries by key | fetch, invalidate, set, cancel | answers older than what the entry holds | what is shown comes to be what the server has |
| Sign-in (`lib/api.ts`, `store/auth.ts`, `Login.tsx`) | tokens and user in local storage | call, refresh, sign in, sign out | one refresh for many calls, signing out under it | one person at a time; out only for a cause |
| Feedback builder (`pages/postproject/feedback`) | local edits, suggestion panel | save, publish, suggest, refine | first save, suggestion and publication at once; polling | one form per visit, panels that settle |
| Public questionnaire, results (`PublicFeedbackForm.tsx`, `FeedbackFormDetail.tsx`) | answers | load, answer, submit; statistics | a form edited while it is out | once per page, refused only for a cause |
| Prospect board (`pages/prospects`) | optimistic list, modals | drag, edit, notes, delete | drops that overlap, refusals | the board settles on what the server has |
| Radar Tender (`pages/tenders`, `DiscoveryRunWatcher.tsx`) | inbox, list, detail, form, draft | decide, edit, crawl, draft | runs that end unseen, late drafts | what is blocked comes free, the form follows the page, the draft of its tender |
| Event pages (`pages/events`, `components/events`) | lists of files, lock | edit, upload, analyse | uploads and edits beside an analysis | no file dropped unseen, the lock holds |
| Playbook pages (`pages/playbooks`, `EventPlaybookCard.tsx`) | modals, the box for instructions | create, revise, retry, delete | polling that must start and stop, late answers | each instruction once but for the user's own repetition, work seen to its end |
| Playbook slides (`lib/playbookDeck.ts`, `PlaybookSlideViewer.tsx`) | the deck, the index | lay out, page | data that do not fit | no blank or overlapping slide, a slide that exists |
| Project pages (`pages/ongoing`) | drawer, milestones, notes | edit, tick, note, delete | whole rows from a cache | edits and notes kept |
| Chat pages (`Chat.tsx`, `store/chat.ts`, `lib/sse.ts`) | streams by room | send, stop, leave | rooms made by their first message, cuts | no message vanishes, streams end when the agent does |
| AI console (`SettingsAiHermes.tsx`) | an iframe | open, tab, end | the cookie the pages share | the console shown is live |
| Other pages | - | show, send one form | - | not modelled |

## Plan

The order of work was the importance of the behaviour: the server's delegated tasks
(`PlaybookJobs`), its locks (`ProfileVersions`) and background runs
(`DiscoveryRuns`); the sales pipeline (`Tenders`, `Prospects`); then the pages, each with
its cache and the server behind it (`FeedbackForms`, `ProspectBoard`, `TenderRadar`,
`EventDesk`, `PublicForms`, `PlaybookDesk`, `PlaybookDeck`, `ProjectDesk`, `ChatDesk`); the
abstract `VersionHistory` that `ProfileVersions` implements; and the services around
them (`SignIn`, `HermesConsole`, `AISettings`, `EventInvites`). All of these are done.

What is left, in the order of its worth: a proof that the playbooks, the projects and the room on
the screen come to be what the server has (`ViewsAgree`), as it is done for the other pages; the
MCP tools `save_playbook_job` and `fail_playbook_job` as further
writers of `PlaybookJobs`, which takes the proofs of that module with it; `DiscoveryRuns`
composed with `Tenders`, so that users edit and delete what discovery finds.

## Modules

### PlaybookJobs

`row` is the table; a row keeps its status, the run that wrote its content, the
presence of an error, its event link, the runs of its revisions and whether
`updated_at` is older than the reaper's 40 minutes. A run (a member of `Tasks`)
goes `free -> claimed -> queued -> running -> over`: set aside by a request,
waiting for its dispatch goroutine, accepted by the bridge, reported or lost.
`inflight` holds the handlers between their read and their write, with the copy
they will write; `waiting` the dispatch goroutines.

| Actions | Code |
|---|---|
| `CreateCustom`, `GenerateForEvent`/`SaveUnlink`/`InsertForEvent`, `Retry`, `Refine`, `SaveAndLaunch`, `Delete` | the service methods; the read and each write is a step |
| `BridgeAccepts`, `DispatchOK`, `DispatchFails` | `dispatch`, `markFailed`, `services/hermes-bridge/app/routes/agent_task.py` |
| `BridgeReports`, `ReportLost`, `SaveOnly` | `Complete`, and the single POST of the bridge |
| `GrowStale`, `ReaperLists`, `SaveOnly` | the reaper of `internal/http/router.go` and `ReapStale` |
| `Crash`, `Boot` | a restart, and `FailInterrupted` |
| `HandlerFails`, `DeleteEvent` | a refused or lost write; the foreign key of `event_id` |

`Save` is GORM's (it inserts deleted rows again), `Accepts` the unique index and
the foreign key. Left out: prompts, attachments, titles, and the writes of the
MCP tools `save_playbook_job` and `fail_playbook_job`.

### ProfileVersions

A save goes through `merged` (read and merge, before the transaction),
`locked`/`blocked`/`missing` (the outcome of `SELECT ... FOR UPDATE`), `inserted`
(not yet committed) and, after the commit, the steps of `UpsertJob` or
`PauseJobByName`. Rows are named after the save that inserts them, and so are
the values of the two fields that are told apart: the crawl settings and all the
rest. `crossed` is a history variable: the saves that have talked to the scheduler at the same time. `Unblocks` and `InsertsFirst` are PostgreSQL's: a waiting `FOR UPDATE`
re-evaluates only the row it waited for, and an insert waits for an uncommitted
entry of the unique index. `Aborts` is any error in the transaction, `SyncFails`
an unreachable scheduler (logged only).

`VersionHistory` is what the profile promises: a history that is only added to at its
end, by one version per save. `ProfileVersions` implements it under the mapping
`Recorded`: position `n` holds the save and the content of the committed version `n`.
The run `profile_versions` checks the specification `OnlyAppends` as a property and
`ImplementsHistory` proves it: the commit of a save appends one entry, because the
inductive invariant gives the version number it has taken as the next one, and every other
step, aborted transactions included, leaves the history as it is.

### DiscoveryRuns

A call of `RunAsync` passes `Triggers` (single flight), `LooksUpKey` and
`Creates` (`StartRun`), or is `Refused`; its goroutine then `MarksRunning`,
`Collects` any set of candidates or `CollectFails`, and for each candidate
`LooksUpCandidate`, `Inserts` or `CandidateFails`, `Scores`, until it `Finishes`.
`Dies` is the expiry of the ten-minute context, which is also the context of the
final update; `Restart` one of the API. Correlation keys are the periods of the
scheduler, NULL, and the empty string, which the service and the index treat
differently. `found_count` is modelled by the set of tenders counted, so that it
can be compared with the tenders that exist. Tenders that users create, edit or
delete meanwhile are left out, and so is a change of the frequency, which
starts another series of keys.

### Tenders

`row`, `outcomes`, `scores` and `projects` are the four tables. A request inserts
one outcome, one score and one project at most, so the latter three are functions
of the request, and the score on a tender is named after the request that
computed it. `req` holds the requests between two statements, with the copy
of the row they are going to save:

| Actions | Code |
|---|---|
| `Create`, `CreateDiscovery`, `Delete`, `DeleteProject` | single statements of `TenderService` and `ProjectService` |
| `Update`, `UpdateStatus`, `Promote`, `Review`, then `Save` | the read with its checks, and the write-back |
| `RecordOutcome`, `InsertOutcome`, `Save`, `CreateProject` | `RecordOutcome` with `recordOutcome` and `createProjectFromTender`, one statement each |
| `ScoreTarget`, `InsertScore`, `SetScore`, `Save` | `ScoreService.ScoreTarget` and the copy of the score on the tender |
| `Fails` | an error, a cancelled context or a crash between any two of them |

`disturbed` is a history variable: the tenders that two requests held at once or
that a PUT took out of WON. Of a row the status, the origin and the score are
kept; `reviewed_at` is abstracted, since only the inbox filter reads it, but
`Review` writes its copy back like the others. What the learning hook does with
an outcome is left out.

### Prospects

`row` is the table with stage and source; `OPEN` stands for NEW, QUALIFIED, ENGAGED and
PROPOSAL, which the code never tells apart. `Convert` looks for a prospect of
the event and `InsertConverted` inserts one; `Update` (PUT) and `UpdateStage`
(PATCH and the MCP tool `update_prospect_stage`) compute the outcome from their
copy (`OutcomeOf` is the no-op guard of `applyStage`), then `InsertOutcome` and
`Save` are separate statements. `Accepts` is the unique index on source type and
source id. `born`, the stage a prospect was entered in, is a history variable. A score of a prospect only inserts into the history and is left out.

### The pages: QueryCache and what uses it

`QueryCache` models one entry of the cache: the value, whether it is invalidated, and the
fetch under way. `Ask` shares a fetch, an invalidation while somebody watches the entry starts
one (and drops the older one), an optimistic update cancels it. An answer is *taken* at the server
in one step and *stored* in another, so it may be older than what the entry holds. It
is external code, modelled from the calls under `apps/web/src/api`.

A module of a page has the server's rows, its cache entries, `calls` (the mutations under way,
each sent, answered or lost), `latest` (which call a `useMutation` observes, hence
`isPending` and which callbacks run), `ui` (the local state of the page, reset when it is
left) and `budget` (the bounds of the instance). A `Press`, `Handle...` or
`Open...` action is the handler of that name; `Deliver` is a mutation's `onSuccess` with the
continuation of the handler that awaits it; `LoseCall` is a request, or its answer, that
fails; `Elsewhere` is another browser. History variables (`told`, `lost`, `mixed`, ...)
say what may have broken a promise; each property names them as its exceptions, so
that it says when the code keeps the promise and when not.

| Module | Server | Pages |
|---|---|---|
| `FeedbackForms` | `FeedbackFormService`: read, edit, save whole rows; suggestions at the bridge with clarification rounds; reaper, restart | the list, the detail, and the builder with its panel |
| `PublicForms` | publication in two steps, `Submit` (check, then insert), `aggregate` | the public page, the results |
| `ProspectBoard` | one step per request (`Prospects` has its steps) | board and table, form, drawer, notes modal, dialogs |
| `TenderRadar` | one step per request (`Tenders`, `DiscoveryRuns` have theirs), but for the start of a run, which looks for one under way first and inserts later | inbox, table, detail, form, proposal drawer, watcher of the runs |
| `EventDesk` | read, then save whole rows; analysis with dispatch, callback, reaper, restart | list, form, detail with attachments, participants and analysis |
| `PlaybookDesk` | revision and retry check a copy and save it later; the other requests are one step (`PlaybookJobs` has theirs) | the list with its modals, the card of an event |
| `PlaybookDeck` | - | the choice of layouts, the boxes of each in pixels, the check of boxes, the viewer |
| `ProjectDesk` | read, then save whole rows, with the summary | the list with its drawer, the summary |
| `ChatDesk` | the handler that relays an answer, part by part, and stores it | rooms, the drawer, the store of the streams |

`PlaybookDeck` is pure but for the viewer: a text is the number of full lines it would
take, the boxes are those of `estimateBoxes`, and `AuditBoxes` is the check that
`playbookSvg.ts` applies to drawings of the agent, here applied to the catalogue's own.
`FeedbackForms` leaves out the wording of questions, of which it keeps the number.

### SignIn

A token is a number for an access and the refresh token issued with it. `WaitsForRefresh`,
`Refreshed`/`RefreshRefused`/`RefreshLost` and `Resend` are `ensureRefreshed`, which all calls
share; `SignOut` empties the store and navigates inside the application, so that calls and
refresh go on, while `Unauthorized` leaves the page (`leaving`, then `Reload`). `Gated` calls
may be answered 401 whatever the token, as the end of a console session is.
`crossed` remembers that the store was emptied under a call or a refresh.

### HermesConsole

`life` is the in-memory registry of tickets and sessions, `audit` the rows of
`hermes_tui_session`, `cookie` the one cookie of the browser, `calls` the requests for tickets,
entries and ends. `Leave` sends the end of *whatever session the cookie names*; `EndAgain` is
`apiFetch` taking the gate's 401 for an expired token. `Sweep` is the sweeper with its
idle limit and hard cap, `Gate`, `Dialled`, `Relay`, `Cut` a connection.

### AISettings

`active` is the active row and `bridge` what the bridge holds in memory; a request goes
`push -> store -> commit -> done`, or by `StoreFails` to `rollback`. A configuration is named
by the update that brought it, its key by the update that brought that. `PushUnanswered` is a
configuration the bridge takes although the request fails; `Boot` is `Rehydrate`.

### EventInvites

`row` is the table, `batch` what the sweep has listed (`Limit` is the code's 50), `outcome`
the mail whose row is to be saved. `Save` inserts a cancelled row again, as GORM does, unless
the event is gone (foreign key). `slips` counts the mails of which no row tells.

### Services, Desks and Boards

The parts share no state, so those that say the most beside each other share a module: a
behaviour has one `scene`, chosen in `Init`, whose module it follows, and what that does not name
is `None`. `Services` has the tenders, the prospects, the sign-in, the console, the AI settings,
the invitations and the slides; `Desks` the questionnaire, the playbooks, the projects and
the chat; `Boards` the pipeline board and the pages of the events. A property of a scene is that of
its module; a liveness property says that whatever of the scene waits comes to an end.
Each module is checked, and proved about, as it would be alone. `MCServices`, `MCDesks` and
`MCBoards` give the constants the bounds of the runs; the proofs are about `Services`, `Desks` and
`Boards` themselves.

## Runs

All runs say `CHECK_DEADLOCK FALSE`: an instance stops when its finite supply of
job ids, runs, saves, calls or presses is used up.

| Run | Checks | Instance |
|---|---|---|
| `playbook_jobs` | `RowsConsistent`, `OnePlaybookPerEvent`, `Provenance` | 2 jobs, 1 event, 3 runs, 2 handlers at a time, 1 restart; symmetry |
| `playbook_live` | `JobSettles` | 1 job, 2 runs, 2 handlers at a time, 1 restart, fairness |
| `profile_versions` | `HistoryLinear`, `SavesEnd`, `OnlyAppends` | 3 saves that may all overlap, fairness |
| `profile_cron` | `CronFollowsProfile` | 3 saves that may all overlap up to their calls of the scheduler, 2 frequencies; symmetry |
| `discovery_runs` | `NoDuplicateTenders`, `OneRunPerPeriod`, `ReportsHonest`, `RunEnds` | 2 calls, 2 candidates of one key, 2 periods, 1 fault, fairness |
| `tenders_projects` | `OneProjectPerTender`, violated | 1 tender, 2 requests |
| `prospect_outcomes` | `DuplicatesRecordOnce`, violated | 1 prospect, 2 requests; symmetry |
| `feedback_forms` | `TypeOK`, `OneFormPerVisit`, `ResultIsOwn`, `PageHolds` (`ScreenIsCurrent`, `SelectionIsShown`), `SuggestionSettles` (`SuggestionEnds`, `PanelSettles`) | 7 instances of 1 or 2 forms: two suggestions, a fault, two calls at once, edits, two pages, a new form without and with a fault |
| `tender_radar` | `PageHolds` (`TypeOK`, `RadarIsCurrent`, `DraftBelongs`), `NothingStaysBlocked`, `FormFollows`, `RunIsNoticed` | 9 instances of 1 or 2 tenders and up to 2 runs: decisions on one card and on two, runs from here and from elsewhere, a fault, a new tender, two proposals |
| `boards` | `PagesHold` (types, `BoardIsCurrent`, `NotesBelong`; `EventIsCurrent`), `AnalysisIsAlone` (`OneAnalysis`, `LockHolds`), `WritesKeepTheRest` (`SavesKeepStage`; `DropsNoOther`), `PagesSettle` (`DropSettles`; `AnalysisEnds`) | board: 5 instances (two cards and two calls; a fault; another browser, without a fault and with one; an empty board). Events: 11 instances of up to 2 events, 2 files, 2 analyses, 2 restarts or lost reports, another browser |
| `services` | `TypeOK`, `RecordsComplete`, `OnePerSource`, `ServicesAgree`, `SlidesHold`, `NothingUnasked`, `ServicesEnd` of the seven scenes of `Services` (below), grouped by what they promise | 1 tender with 3 requests, 2 prospects with 2 requests, 9 instances of the others, plus all decks of a catalogue; fairness |
| `desks` | `TypeOK`, `ViewsAgree`, `InputIsKept`, `DoneOnce`, `AnswersHold`, `WorkEnds` of the four scenes of `Desks` (below) | 25 instances; fairness |

The scenes of `desks` and of `services`:

| Scene | Properties of its module, and where they are checked | Instances |
|---|---|---|
| `tenders` | `ProjectsEarned`, `ScoresInHistory` (`RecordsComplete`), `OneProjectUndisturbed` (`OnePerSource`) | 1 tender, 3 requests that may all overlap |
| `prospects` | `ClosedIsRecorded` (`RecordsComplete`), `OneProspectPerSource` (`OnePerSource`) | 2 prospects, 1 event, 2 requests |
| `form` | `StoredFitsAVersion`, `RefusedForACause`, `EveryAnswerCounts` (`AnswersHold`), `ResultsInRange` (`ViewsAgree`), `OncePerPage` (`DoneOnce`) | a scale cut beside a new comment while a client answers, with a lost outcome; a rating that becomes an NPS; an optional one that becomes a text; a choice that becomes single; two sends; two clients |
| `playbook` | `JobsAreCurrent` (`ViewsAgree`), `InstructionKept` (`InputIsKept`), `RevisedOnce` (`DoneOnce`), work is seen to its end (`WorkEnds`) | 6: two calls on a playbook with or without a fault, two playbooks and one box, another browser, the card of an event |
| `project` | `DeskIsCurrent` (`ViewsAgree`), `EditsKept`, `NotesKept`, `DeletedStaysGone`, `RefusedForACause` (`InputIsKept`) | 5: the summary, a milestone and a note, two milestones, two projects, a fault and another browser |
| `chat` | `RoomIsCurrent` (`ViewsAgree`), `AnswersFollow`, `NothingShownIsLost`, `NoMessageVanishes` (`InputIsKept`), streams end unless the agent hangs (`WorkEnds`) | 8: two messages, a room left or deleted, two rooms, the drawer, a room that is made, files, a fault |
| `signin` | `OneIdentity` (`ServicesAgree`), `SignsOutForACause` (`NothingUnasked`), calls end (`ServicesEnd`) | 3: two calls that share a refresh, two accounts and a gated call, a lost refresh; 3 tokens |
| `console` | `ConsoleIsLive`, `AuditTells` (`ServicesAgree`), sessions end (`ServicesEnd`) | 4: two visits, two presses, a connection and a fault, a press and a fault; 2 tickets |
| `settings` | `BridgeFollows` (`ServicesAgree`), `KeyIsKept` (`NothingUnasked`) | 3 updates that may all overlap, restarts of both processes at any time |
| `invites` | `MailedAgainForACause` (`ServicesAgree`), `CancelStopsTheMail` (`NothingUnasked`), invitations are handled unless the mail server hangs (`ServicesEnd`) | 2 invitations, sweeps of one, 2 times, 1 crash or failed save |
| `deck` | `CataloguePassesTheCheck`, `NoSlideIsBlank`, `DeckIsFramed`, `ViewerShowsASlide` (`SlidesHold`; the last three are `DecksHold`) | every layout with 0 to 11 entries, texts of 1, 3 and 9 lines, with and without note; every layout with the wrong data; 144 flat contents; a revision under the viewer |

The bounds. Two handlers that overlap suffice for every lost update, three runs
for a late report of a first run after a second, two jobs for two playbooks of one event. Three saves give a waiter, the
one it waits for and one that commits in between. Two calls with two candidates
of one key give a duplicate in one batch and one across runs; one fault is enough
for a run that is cut off while another goes on. Tenders share nothing, so one suffices; three requests
give two wins and a third that disturbs them or reverts the row in between. Two
prospects and two requests give two conversions of one event and a conversion
against an edit. A single job suffices for
liveness because jobs share nothing but the reaper's list; two handlers at a time
let a stale save put a settled job back in progress, which the reaper must end
again. The pages are
checked on several small instances instead of a large one: each gives one kind of
disturbance all the room it needs (two mutations meet, one is lost, somebody
else changes the row, the user leaves and comes back), since a third mutation under way meets the
others in pairs. Three updates give one that overlaps two others and one that comes
after them; two invitations with sweeps of one are a queue longer than its limit.

Symmetry is used in the runs that check invariants only; the runs with liveness
properties use none.

Where a run does not list the types, they are proved (`TypeCorrect`). Every property, and nearly every
part of those that have several, is paired with a mutant of the code that breaks it: a dropped
index, a forgotten status, an error left in the row, a write that survives its
failed request, a cache that is not invalidated, a stale index, a scale off by one.

### Fairness

* `PlaybookJobs`: time passes, the ticker of `router.go:285` goes on, handlers
  come to an end (they run under request or 30-second contexts) and a reaper
  write that is tried again and again succeeds in the end. Users and the bridge
  owe nothing: a run may never report.
* `ProfileVersions`: a handler goes on unless the database makes it wait. No
  transaction is owed an error or a lock timeout, so `SavesEnd` is a statement about
  the order of locks.
* `Tenders`, `Prospects`: none; only safety is stated, since every request may
  fail at any point.
* `DiscoveryRuns`: a started goroutine goes on; crawl, scoring and queries end
  with a result or an error (they have timeouts). Nobody owes a trigger, and
  faults are never forced.
* The pages: a request is served or fails, its answer is handled, and a query that polls
  goes on polling, because the browser and the server do nothing else with
  them; the server's reapers come round, since tickers do. Users owe nothing, neither does the
  bridge, and a loss is never forced.
* `TenderRadar`: the browser polls, and the list of runs is answered; nothing else is needed for
  `RunIsNoticed`. That a discovery run *ends* is not assumed, because nothing sees to it: the reapers of
  `router.go:285-306` are for playbook jobs, event analyses and suggestions, the last update of a run
  may fail on the expired context, and a restart loses its goroutine.
* `ChatDesk`: the handler's own steps and the browser's go on, the agent's do not: the handler waits for it
  with the bare context of the request (`chat_handler.go:280`), its client has no timeout
  (`http_client.go:38`), nor has the server. So `WorkEnds` says of a room that it comes free, *or hangs
  at the agent for ever*.
* `SignIn`: calls and the refresh are answered or fail. `HermesConsole`: sessions grow old,
  the sweeper's ticker goes on, and the pump looks at its context; nobody owes a ticket, an end
  or a frame, and the dial to the agent (`hermes_tui_handler.go:262`) need never come about, having no
  timeout. `EventInvites`: the ticker comes round and the row of a mail is saved or fails to be. The
  mail itself is not assumed to come off: `mailer.go:93-151` dials and talks without a deadline, on the
  only goroutine of the scheduler. `ServicesEnd` says that an invitation is handled, *or the
  scheduler is at the mail server for ever*.

### What the code promises and does not keep

Two runs check one sentence of the repository each, and TLC finds the
counterexample.

| Run | Sentence | What happens |
|---|---|---|
| `tenders_projects` | "RecordOutcome hanya sukses sekali per tender → tak ada risiko proyek ganda" (`tender_service.go:453-455`) | two overlapping calls both pass `canTransition` on their copies, or a PUT takes the won tender back: two projects |
| `prospect_outcomes` | "a no-op guard, so repeat/duplicate calls don't emit duplicate outcome events" (`prospect_service.go:151-153`) | the guard looks at a copy: two overlapping moves to WON record two outcomes. (So do two that do not overlap, when the save of the first fails: its outcome stays and the stage does not move, so a retry passes the guard. The property leaves these out, since a prospect may be won, reopened and won again.) |

Further divergences, which the models contain; their properties name them as exceptions, or do not claim them:

* Playbook jobs. "generate ulang dari detail event selalu menghasilkan satu hasil yang aktif"
  (`playbook_job_service.go:397-398`): unlink and insert are two statements, and if the
  insert fails (`:467`) the event has no playbook. "reaper menandai job yang tak pernah
  dilaporkan sebagai gagal" (`:125-126`): the reaper's list is old by the time it writes, and a result that
  has arrived becomes a failure (`:597`). A deleted playbook comes back when a handler
  that has read it saves it; the boot sweep fails jobs whose run goes on at the bridge; of
  two overlapping requests the later write drops the revision of the first, although
  "Revisions menyimpan riwayat prompt revisi" (`domain/playbook_job.go:43`).
* Profile. "the second blocks here until the first commits, then re-reads the
  freshly-inserted current row" (`profile_repo.go:79-82`): READ COMMITTED re-checks the demoted row
  only, and the second save fails on the unique index. "a partial tweak never clobbers the rest"
  (`profile_service.go:268-269`): the request is merged over a version read before the transaction
  (`:196`), so what a save that commits in between has set is overwritten. Two saves that talk to
  the scheduler at once may create two jobs, or leave the older version's settings
  (`CronFollowsProfile` sets apart the saves that `crossed`).
* Discovery. "short enough that a stuck run doesn't leak forever" (`discovery_service.go:24-25`): the
  expired context is that of the final update (`:141`); the row stays active and blocks every
  later run. Two triggers can pass the single-flight check together; an empty correlation key is
  stored as a value that the unique index accepts once, although "A nil/empty
  correlationKey always starts a fresh run" (`:62`).
* Prospects. The form sends the stage it was opened with, so a
  prospect can be won through it without the notes of the modal (`api/prospects.ts:79-81`).
  The late `finally` of one dialog closes another card's.
* Tenders in the browser. A run that ends and is followed by another between two polls, or a cron
  run that starts while nothing polls, is not noticed (`DiscoveryRunWatcher.tsx:6-11`); the inbox
  is not told of edits and deletions; the detail offers outcomes that the server refuses. With two
  cards at once the single `pendingId` (`DiscoveryInboxPanel.tsx:125`) loses track: the first card is
  offered again while its decision is under way, so it may be promoted and rejected, or one of them twice. The
  form is filled again whenever its tender is fetched and has changed, whatever was typed
  meanwhile (`TenderFormDrawer.tsx:110`). A discovery run that nobody ends stays on the page, and blocks
  the next one.
* Events. The lock of an event under analysis is the page's only (`EventDetail.tsx:64-66`): forms
  opened before, the list and other browsers go on writing. Of two files picked together the
  second upload drops the first (`EventAttachmentsInput.tsx:65`, against
  `EventAttachmentsSection.tsx:65-66`). An event deleted elsewhere leaves the page "running".
* Questionnaires. A form that was asked again while an abandoned run is under way takes that run's
  report for the newer request's, although it is to be ignored (`feedback_form_service.go:373-377`): the
  forms in `mixed`, of which `ResultIsOwn` says nothing. The bound on clarification rounds is not
  enforced; a save and a suggestion on a new form create two (`FeedbackFormBuilder.tsx:682-692`);
  a failed load shows an empty editor whose save erases the form (`:93-108`). Taking an optional
  rating back sends rating 0, which the server refuses with the whole submission
  (`PublicFeedbackForm.tsx:66, 204`); an NPS of 0 is shown as "—" (`FeedbackFormDetail.tsx:164`); a
  submission sent again after a lost answer is stored twice. An optional question whose type was
  changed under the client is stored with an empty answer (`if ok || answered`,
  `feedback_form_service.go:652`), which nothing counts.
* Playbook pages. Enter is not held back by a pending instruction (`PlaybooksIndex.tsx:448-453`), and
  both requests may pass the check of the status on their copies before either saves
  (`playbook_job_service.go:518-538`, `:478-489` for another try): one playbook then has two tasks
  at the agent. A late success empties the box of another job. A slide whose only data are one metric, or
  whose people, risks or cards are missing without bullets, is blank although `playbookDeck.ts:781`
  sets out to avoid it; texts without breaks, a comparison of six three-line items with a
  note, and plans of more than about 454 days overlap.
* Projects. Notes and milestones are lost to overlapping writes of whole rows
  (`project_service.go:60-71` calls the notes append-only); such a write brings a deleted
  project back although the dialog says "permanen"; a fraction of a percent is refused with no
  reason shown.
* Chat. `done` is sent before the answer is stored (`chat_handler.go:330-347`), so a refetch may
  miss the answer; a stream that ends without it leaves the room streaming
  (`sse.ts:94-96`), and so does an agent that never answers; a failed first message is lost without a word, and so is one that is stopped after its
  refusal; two presses while a file is
  read send twice.
* Sign-in. Signing out leaves calls and refresh under way: the refresh's answer puts tokens without a
  user into the store, and a call may be sent again as the next user. Any failure of the
  network during a refresh signs the user out.
* Console. Leaving the page when its session is over sends an end that is refused,
  sent again with the cookie of *then*, and, refused again, signs the administrator out; an
  end's late answer deletes a newer session's cookie; after a tab was opened, "Tutup Sesi"
  ends the tab's session; the page says "connected" after a sweep; the audit row stays open when
  the write of its end fails.
* AI settings. A lost answer of the push leaves the bridge with a configuration that is not
  stored, although "a rejected config leaves the previous config (DB and bridge) completely
  untouched" (`ai_setting_service.go:74-75`); a restart of the bridge alone loses the
  configuration, which only the API's boot restores (`:214-218`); the rollback uses the
  request's own context; two updates that overlap leave bridge and database apart.
* Invitations. Cancelling deletes the row whatever it has become, and the save after a mail
  inserts it again; a crash or failed save between mail and row mails it again; a mail server that
  does not answer stops the scheduler.

## Proofs

The theorems hold for every value of the constants: any number of jobs, events,
runs, handlers, saves, calls, candidates, tenders, prospects, requests, forms, visits,
submissions, faults, updates, invitations, tokens, users, projects, milestones, notes, rooms,
messages, parts of an answer, files and contents of playbooks. They assume what the modules
`ASSUME`: `None` is not one of the ids, nor a record of the model; names of fields, milestones and notes
differ; questions are what `normalizeQuestions` leaves, the slides of a playbook have their types, the projects there are at first are ones the server has
accepted, and the bounds are natural numbers (TLC evaluates these assumptions in every run; those of
the scenes in `ServicesAssumption`, `ScenesAssumption` and `BoardsAssumption`).

| Module | Theorems |
|---|---|
| `PlaybookJobsProofs` | `TypeCorrect`, `RowsStayConsistent`, `ContentHasProvenance`, `OnePerEvent` |
| `ProfileVersionsProofs` | `TypeCorrect`, `VersionsLinear`, `ImplementsHistory`, `CronFollows` |
| `DiscoveryRunsProofs` | `TypeCorrect`, `TendersDistinct`, `RunPerPeriod`, `Honest` |
| `ServicesProofs` | `ServicesTyped`, `NothingIsLost`, `SourcesKeepOne`, `ServicesStayInStep`, `CausesHold`, `DecksAreWhole` |
| `FeedbackFormsProofs` | `VisitsMakeOneForm`, `ResultsAreOwn`, `PageShowsTheForm` |
| `TenderRadarProofs` | `BlockedOnlyByCalls`, `FormsFollowThePage`, `PagesShowTheServer` |
| `DesksProofs` | `AnswersStand`, `OneIsEnough`, `ScenesAreTyped`, `InputStays` |
| `BoardsProofs` | `PagesAreRight`, `AnalysesAreAlone`, `WritesLeaveTheRest` |

Each follows from an inductive invariant, `IInv` of its module (the first three, `Tenders` and
`Prospects`) or named parts in the module of the proofs, proved by one lemma per group of actions or one step
per action. TLC has checked each of these invariants on the instances of the runs before it was
proved.

* `PlaybookJobs!IInv` adds that the *copies* handlers carry are as good as the
  stored rows (`HandlersSound`), because any of them may be written next; that a
  run set aside is in the hands of one handler (`ClaimsDistinct`), because a
  handler that gives up frees it; and that a run that has left the requests has an owner
  (`RunsOwned`). `OnePlaybookPerEvent` needs nothing of it but the types and the
  index.
* `ProfileVersions!IInv` adds that a locked row is current and locked once and
  that a save inserts without a lock only into an empty table (`LocksSound`): this
  is what makes the versions a line although nothing in the schema makes them
  unique. `FieldsNamed` and `CronSound` are there for the types only.
* `ProfileVersions`, scheduler (`SyncInv`), with any number of saves that overlap: a save of the
  current version that nobody crosses is the only one that talks to the scheduler (`CurrentIsAlone`), so that what
  it has decided at each step (`Decided`) still holds at the next, whatever earlier saves have left half
  done; a second job comes of two that were looking for it at once (`JobsCrossed`, `CreatesCrossed`).
* `DiscoveryRuns!IInv` adds that the tally of a goroutine counts its own tenders,
  all but one whose insert lost its answer (`TalliesSound`).
* `Tenders!IInv` adds that a copy about to be saved is as good as a row and that a
  request on its way to a project has recorded the win (`CopiesSound`); that an
  undisturbed tender is held by one request at most and, once it has a project or a
  request about to insert one, is WON in its row and in the copy of it
  (`BookedOnce`), because `canTransition` is asked on a copy and the copy may be
  written after the row is won; and that references are to tenders once inserted
  (`TracesKept`), because a deleted tender may come back but not as another.
* `Prospects!IInv` adds that the stage of a copy about to be saved is recorded
  already (`CopiesSound`), which is what the order of `applyStage` and `Save` is good
  for; and that only what
  was entered once exists (`RowsBorn`). `OneProspectPerSource` rests on the index.
* `FeedbackForms`, visits (`VisitsInv`): among the calls of a visit that make a form there is one
  (`OneMaker`); either it has not been carried out and there is no form, or the form is its own
  (`Made`); and once it is gone the editor knows the form, so that the next save updates it
  (`Known`). Visits in which a creation was sent again before the last was known to have succeeded
  are set apart (`twice`).
* `FeedbackForms`, results (`ResultsInv`): a form that waits for a suggestion has no run under way
  but the one asked for last (`RunHolds`, which `ResultsAreOwn` states as `WaitsForItsOwn`), and a
  result or an error names its run (`RowHolds`).
  Forms asked again next to an older run, or saved from an outdated copy, are set apart (`mixed`): the
  theorem does not say that the code keeps a late report from the next request, which it does not.
* `FeedbackForms`, page (`ScreenInv`): a cached form that is not the row says the AI is at work, is
  marked, is being fetched, or the answer of the call that wrote the row is to come
  (`EntryIsRow`); the same for the answer of a fetch that nothing has overtaken (`AnswerIsRow`); what
  the panel has selected is among what it shows (`Selected`).
* `TenderRadar`, local state (`CardsInv`, `FormInv`): a card that is marked has a decision under way
  whose answer the page still hears, however many others were sent after it (`NothingStaysBlocked`);
  a form that is bound to the tender of the page has the status that the cache shows, because
  every answer that changes it passes the effect of the form (`FormFollows`).
* `TenderRadar`, pages (`DraftInv`, `RadarInv`): the proposal under way is that of the
  tender the drawer is open for; and what a page holds is right, or is marked, or is being
  fetched, or the call that changed the server is still to be answered, or the watcher is about to
  see a run end (`Current`). The last needs that the browser hears of the runs in order (`RunsHeard`), and
  that no query knows of a tender that has not existed (`Unknown`).
* `AISettings` (`SettingsInv`): a request that had the bridge to itself finds what was active when it
  began still active (`AloneFoundActive`), one that another has overlapped leaves `apart` set
  (`MixedIsApart`), and bridge and row differ, while nothing has come between them, only by what the
  request under way has pushed (`InStep`); what a request brings bears its own name or key
  (`BringsOwn`). A rollback to the snapshot is right for the first reason only.
* `EventInvites` (`MailingInv`): the outcome to be saved is that of an invitation taken off the batch
  (`OutcomeIsOwn`), and one that may still be mailed has had no mail but those of which no
  row tells (`NoneTold`); an invitation cancelled while no sweep held it has no row and is in no batch
  (`ClearIsGone`), and neither has one of a deleted event (`GoneWithEvent`).
* `SignIn` (`SignInv`): while nothing was emptied under a call or a refresh, the token of every call, of
  the refresh and of the store is one that was issued to the user in the store (`AllIsTheUsers`), and an
  empty store has nothing under way (`EmptyIsQuiet`). That signing out has a cause needs that a call
  tries again with another token than the first (`TriesAnew`).
* `HermesConsole` (`ConsoleInv`): a ticket travels once, and until it is taken neither a cookie nor
  another request names it (`IdsAreFresh`); the session of the frame is under way, or the cookie names it
  and only a request whose answer is to come can have ended it (`FrameHolds`); a session with a
  row is open or over, and an end is written of what is over (`RowsFollow`).
* `PlaybookDeck` (`DeckInv`): the steps of the viewer need only that the index is a number. The
  rest is about the operators: each concatenation of `LegacySpecs` and `ToSpecs` leaves the cover first
  and the last one puts the closing slide last (`SpecsAreFramed`); `ResolveLayout` never leaves a slide
  that has something to say with a layout that shows nothing of it (`SaysSomething`); and the
  numbers grow by one with each slide that is counted (`CountedInTurn`). Contents are assumed to have slides
  and flat fields of their types; a layout that is not in the catalogue is one value.
* `PublicForms` (`FormInv`): a page waits for one call at a time and numbers what it sends
  (`OneHeard`, `Numbered`), so the submissions that are stored, or may still be, without its waiting for
  them are counted by the outcomes it missed and the one it heard of (`Counted`); what a page that has
  seen one version holds and sends fits that version, and what is accepted may be stored under the
  version it was checked against (`Fitting`). That each answer counts is then a fact about the
  operators: on the version it was given for `IsAnswered`, `Counts` and `Cell` agree.
* `PlaybookDesk` (`PlaybookInv`): a copy that a request holds is of a playbook (`CallsNameThem`); while an instruction is in the box its one call is the one the page waits
  for, and once it is taken that call brings success, and success empties the box
  (`RevisesOnce`). Instructions sent again by Enter, or after a lost outcome, are set apart (`again`); of the tasks at the
  agent nothing is claimed, since two requests that overlap hand over two.
* `PlaybookDesk`, instructions (`InstructionInv`): an instruction is in the box until the server has
  taken it or the user gives it up (`Stands`); a revision that succeeded was
  taken, and while one is awaited the box holds its instruction or one that was given up
  (`Settled`). The second is what makes the emptying of the box after a success harmless.
* `ProspectBoard` (`BoardInv`): a call, and what the dialogs and the form hold, are what their handlers
  can send (`BoardTyped`), above all that a form in which no stage was picked still has the stage it was
  opened with; of a prospect that has not been there no entry knows (`CardsKnown`); and an entry of the
  list or of a drawer is right, is marked or being fetched, a move of its card is under way, whose
  end fetches it, or the answer of the call that wrote the row is to come (`ListOk`, `DetailOk`).
* `EventDesk` (`EventInv`): the same for the entries of list and page (`Right`), where an entry that
  says "running" polls; an analysis that is under way is marked in the row unless the event has
  gone astray (`Marked`), which makes it the only one and keeps what it reads; and a list of files
  that is going to be sent lacks none that its sender knew of, unless the user has taken it off
  (`Dropped`, for forms, uploads, calls and handlers).
* `ProjectDesk` (`ProjectInv`): the rows, and the copies of them in caches, forms and handlers, are
  ones the server has accepted (`SafeRow`), so that only the progress that was typed can be
  refused; a call carries the fields that it is not to change as its page saw them
  (`SentAsSeen`), hence what it undoes is what changed since, and that is recorded as lost; a
  project that was deleted has no handler left with its row, unless it has come back
  (`GoneStays`).
* `ChatDesk` (`ChatInv`): a handler that is not through is listened to, unless the browser is gone or the
  answer is being stored (`Heeded`); of two handlers in one conversation that is not crossed,
  one has not stored its question (`Orderly`), so that a question is the last message until its
  answer is stored (`AskedLast`): this is what makes answers follow their questions. What is
  seen of an answer has come to the only handler of that message (`Seen`), and a handler that is
  through has stored what came (`StoredWhole`). A message that waits, for its file or for its
  conversation, waits in one place and has not been sent (`WaitsOnce`); every message that was typed
  waits, is on its way, is stored, or its failure was shown or is about to be (`AllAccounted`).

The proofs of the last two changed the models. Beyond the bounds of the runs `NoMessageVanishes` was
false as it stood: a message goes with its conversation when that is deleted (`Delete` now counts it
among those that were `dropped`), and stopping a stream after it was refused takes away
the error that would have been shown (`Stop`). A file that is sent a second time (`SubmitFile`) set the
count of messages back. Fields of projects were not assumed to differ, and a bound could begin with
a row that the server would have refused.

Only model-checked:

* the liveness properties (`JobSettles`, `SavesEnd`, `RunEnds`, `SuggestionSettles`, `RunIsNoticed`,
  `PagesSettle`, `WorkEnds`, `ServicesEnd`), which need fairness and `ENABLED`;
* what rests on sums or on an enumeration, because both are recursive and induction over data is out
  of the prover's reach: `ViewsAgree` as far as the results of a questionnaire (`ResultsInRange`) and
  the summary of the projects are concerned, and `TypeOK` of `FeedbackForms`, whose questions have distinct ids
  through an enumeration of a set and `SelectSeq` (the proofs use `Typed`, which leaves the
  sequences of questions open);
* `CataloguePassesTheCheck`, the part of `SlidesHold` beyond `DecksHold`: arithmetic on the boxes of a
  finite catalogue, which TLC evaluates as a whole;
* the other parts of `ViewsAgree`, that the playbooks, the project list and the room come to be what the
  server has: their inductive invariants are not worked out.

## Not modelled

* The MCP tools `save_playbook_job` and `fail_playbook_job`, by which an agent writes a job outside
  a run; the other tools read, or insert one row.
* Feedback links (legacy), sources, keywords, reports, dashboard, user administration: single
  statements on rows that no other step relates to anything.
* Per-target playbooks and their panel in the browser: not wired.
* Discovery is not composed with what users do to tenders meanwhile; the profile is not
  composed with the scheduler that reads its frequency.
* The content of everything the agent writes, prompts, wording, layout other than that of the
  slides, and time other than its order.
* The remaining pages (dashboard, onboarding, profile form, users, reports, component gallery):
  they show what the server has and send one form.
