---------------------------- MODULE PublicForms ----------------------------
(***************************************************************************)
(* A published questionnaire, the public pages on which clients answer it  *)
(* (apps/web/src/pages/publicfeedback/PublicFeedbackForm.tsx), the service *)
(* that checks and stores the answers, and the results that are shown      *)
(* (internal/service/feedback_form_service.go, FeedbackFormDetail.tsx).    *)
(*                                                                         *)
(* The owner goes on editing the form while it is out, so the version a    *)
(* page shows, the one its answers are checked against and the one the     *)
(* results are computed with may be three.  Left out: the messages of the  *)
(* page, and the division, which is optional.                              *)
(***************************************************************************)
EXTENDS Integers, FiniteSets, FiniteSetsExt

CONSTANTS
    Clients,         \* those who answer the form, each on a page of its own
    Questionnaires,  \* the question lists the owner may save: functions from ids
    Scores, Texts, Options,  \* what can be entered
    None,            \* no value
    MaxSends,        \* bound: submissions of a page
    Bounds           \* the smaller bounds to explore, one record per instance

\* A question: type, required, scale (of a rating), options and multiple (of a
\* choice).  normalizeQuestions has seen to the scale and to the options.
QuestionAssumption ==
    /\ \A f \in Questionnaires : \A q \in DOMAIN f :
        /\ f[q].type \in {"rating", "nps", "text", "choice"}
        /\ f[q].type = "rating" => f[q].scale \in 2 .. 10
        /\ f[q].type = "choice" => f[q].options # {} /\ f[q].options \subseteq Options
    /\ Scores \subseteq 0 .. 10 /\ 0 \in Scores /\ "" \notin Texts /\ IsFiniteSet(Options)
    /\ None \notin 0 .. 10 /\ None \notin Texts /\ \A os \in SUBSET Options : os # None
    /\ None \notin Questionnaires /\ MaxSends \in Nat

\* lists: the question lists of this instance; clients: those who open the form; saves: edits and deletions by the owner;
\* sends: submissions of a page; faults: lost calls, reconnections, failures.
Instance == [lists : SUBSET Questionnaires, clients : SUBSET Clients, saves : Nat,
             sends : 0 .. MaxSends, faults : Nat]
BoundsAssumption == Bounds \subseteq Instance

VARIABLES
    form,      \* the row of the form; None once it is deleted
    copy,      \* the questions a publication has read and is about to save
    stored,    \* the submissions in the database
    page,      \* the page of each client
    calls,     \* the submissions under way
    budget,    \* the bounds of this behaviour
    versions,  \* history: the question lists that were published
    missed     \* history: how many outcomes the page of a client missed

vars == <<form, copy, stored, page, calls, budget, versions, missed>>
owner == <<form, copy, versions>>

-----------------------------------------------------------------------------
(* Answers *)

Answer == [rating : (0 .. 10) \cup {None}, text : Texts \cup {""}, choice : SUBSET Options]
Unanswered == [rating |-> None, text |-> "", choice |-> {}]

Rated(n) == [rating |-> n, text |-> "", choice |-> {}]
Written(t) == [rating |-> None, text |-> t, choice |-> {}]
Chosen(os) == [rating |-> None, text |-> "", choice |-> os]

\* A click on the number of a scale: a second one takes it back, to 0.
OnScale(q, a) == {Rated(IF a.rating = n THEN 0 ELSE n) : n \in 1 .. q.scale}
OnNps(a) == {Rated(IF a.rating = n THEN None ELSE n) : n \in Scores}
Toggled(q, a, o) ==
    IF o \in a.choice THEN (IF q.multiple THEN a.choice \ {o} ELSE {})
    ELSE (IF q.multiple THEN a.choice ELSE {}) \cup {o}

Inputs(q, a) ==
    CASE q.type = "rating" -> OnScale(q, a)
      [] q.type = "nps" -> OnNps(a)
      [] q.type = "text" -> {Written(t) : t \in Texts \cup {""}}
      [] q.type = "choice" -> {Chosen(Toggled(q, a, o)) : o \in q.options}

\* What a question of this type can have been answered with.
IsAnswered(q, a) ==
    CASE q.type = "text" -> a.text # ""
      [] q.type \in {"rating", "nps"} -> a.rating # None
      [] q.type = "choice" -> a.choice # {}

\* Only the field of the type is sent, and only that is read.
Cleaned(q, a) ==
    CASE q.type = "text" -> Written(a.text)
      [] q.type \in {"rating", "nps"} -> Rated(a.rating)
      [] q.type = "choice" -> Chosen(a.choice)

\* Mutant: the upper end of a scale is not checked.
InRangeBelow(q, a) ==
    CASE q.type \in {"rating", "nps"} -> a.rating # None => a.rating >= 0
      [] q.type = "choice" -> a.choice \subseteq q.options
      [] q.type = "text" -> TRUE

InRange(q, a) ==
    CASE q.type = "rating" -> a.rating # None => a.rating \in 1 .. q.scale
      [] q.type = "nps" -> a.rating # None => a.rating \in 0 .. 10
      [] q.type = "choice" -> a.choice \subseteq q.options /\ (q.multiple \/ Cardinality(a.choice) <= 1)
      [] q.type = "text" -> TRUE

\* validateAnswers, for the questions f and the answers given to some of them.
Valid(f, given) ==
    \A q \in DOMAIN f :
        IF q \in DOMAIN given
        THEN InRange(f[q], given[q]) /\ (f[q].required => IsAnswered(f[q], given[q]))
        ELSE ~f[q].required
Kept(f, given) == [q \in DOMAIN f \cap DOMAIN given |-> Cleaned(f[q], given[q])]

-----------------------------------------------------------------------------
(* Results *)

\* Mutant: the top of a scale is left out.
CountsBelowTop(q, a) ==
    CASE q.type \in {"rating", "nps"} -> a.rating # None /\ a.rating \in 1 .. q.scale - 1
      [] q.type = "choice" -> a.choice # {}
      [] q.type = "text" -> a.text # ""

\* Mutant: a number counts on whatever scale it was given.
CountsAnyNumber(q, a) ==
    CASE q.type \in {"rating", "nps"} -> a.rating # None
      [] q.type = "choice" -> a.choice # {}
      [] q.type = "text" -> a.text # ""

\* Whether a stored answer counts for the question as it is now.
Counts(q, a) ==
    CASE q.type = "rating" -> a.rating # None /\ a.rating \in 1 .. q.scale
      [] q.type = "nps" -> a.rating # None /\ a.rating \in 0 .. 10
      [] q.type = "choice" -> a.choice # {}
      [] q.type = "text" -> a.text # ""

Hits(f, q) == {s \in stored : q \in DOMAIN s.answers /\ Counts(f[q], s.answers[q])}
Total(hits, q) == MapThenSumSet(LAMBDA s : s.answers[q].rating, hits)

\* An average is kept to one decimal, in tenths here: round1.
Tenths(sum, n) == (20 * sum + n) \div (2 * n)

Stat(f, q) ==
    LET hits == Hits(f, q) IN
    [responses |-> Cardinality(hits),
     average |-> IF f[q].type \in {"rating", "nps"} /\ hits # {}
                 THEN Tenths(Total(hits, q), Cardinality(hits)) ELSE 0,
     distribution |-> [n \in (IF f[q].type = "rating" THEN 1 .. f[q].scale ELSE {}) |->
                          Cardinality({s \in hits : s.answers[q].rating = n})]]

Asked(f, t) == {q \in DOMAIN f : f[q].type = t}
Answers(f, t) == {a \in stored \X Asked(f, t) : a[1] \in Hits(f, a[2])}

\* All ratings, each on the scale of 5 (2520 is a multiple of every scale).
AvgRating(f) ==
    LET all == Answers(f, "rating")
        FivesOf(x) == (x[1].answers[x[2]].rating * 5 * 2520) \div f[x[2]].scale
    IN IF all = {} THEN 0 ELSE Tenths(MapThenSumSet(FivesOf, all), 2520 * Cardinality(all))

\* The division of Go cuts towards zero.
Quotient(a, b) == IF a >= 0 THEN a \div b ELSE -((-a) \div b)
Nps(f) ==
    LET all == Answers(f, "nps")
        With(S) == Cardinality({x \in all : x[1].answers[x[2]].rating \in S})
    IN IF all = {} THEN 0 ELSE Quotient(100 * With(9 .. 10) - 100 * With(0 .. 6), Cardinality(all))

\* The cell of a submission in the table of all answers; None is shown as a dash.
Cell(q, answers, id) ==
    IF id \notin DOMAIN answers THEN None
    ELSE LET a == answers[id] IN
         CASE q.type = "text" -> IF a.text = "" THEN None ELSE a.text
           [] q.type \in {"rating", "nps"} -> a.rating
           [] q.type = "choice" -> IF a.choice = {} THEN None ELSE a.choice

\* The card of a question: an average of 0 is shown as a dash, and a bar by its
\* share of the longest.
Card(stat) ==
    LET longest == Max({1} \cup {stat.distribution[n] : n \in DOMAIN stat.distribution}) IN
    [average |-> IF stat.average = 0 THEN None ELSE stat.average,
     bars |-> [n \in DOMAIN stat.distribution |-> (100 * stat.distribution[n]) \div longest]]

-----------------------------------------------------------------------------
(* The owner *)

Spend(b) == budget[b] > 0 /\ budget' = [budget EXCEPT ![b] = @ - 1]
Fault == Spend("faults")

Published == form # None /\ form.published

\* Saving puts the form back to draft: what changed is not served until it is
\* published again.
Save(f) ==
    /\ form # None /\ Spend("saves")
    /\ form' = [questions |-> f, published |-> FALSE]
    /\ UNCHANGED <<copy, stored, page, calls, versions, missed>>

PublishReads ==
    /\ form # None /\ copy = None
    /\ DOMAIN form.questions # {}
    /\ copy' = form.questions
    /\ UNCHANGED <<form, versions, stored, page, calls, budget, missed>>

PublishWrites ==
    /\ copy # None
    /\ form' = [questions |-> copy, published |-> TRUE]
    /\ copy' = None
    /\ versions' = versions \cup {copy}
    /\ UNCHANGED <<stored, page, calls, budget, missed>>

\* The submissions go with the form (ON DELETE CASCADE).
Delete ==
    /\ form # None /\ Spend("saves")
    /\ form' = None /\ stored' = {}
    /\ UNCHANGED <<copy, page, calls, versions, missed>>

-----------------------------------------------------------------------------
(* The page of a client *)

NoPage == [form |-> None, failed |-> FALSE, answers |-> [q \in {} |-> Unanswered], seen |-> {}, named |-> FALSE,
           sends |-> 0, waiting |-> FALSE, done |-> FALSE]

\* The form is loaded when the page opens, and anew when the connection is back.
Loaded(p) ==
    IF Published THEN [p EXCEPT !.form = form.questions, !.failed = FALSE, !.seen = @ \cup {form.questions}]
    ELSE [p EXCEPT !.failed = TRUE]

Open(c) ==
    /\ page[c] = NoPage /\ c \in budget.clients
    /\ page' = [page EXCEPT ![c] = Loaded(@)]
    /\ UNCHANGED <<owner, stored, calls, budget, missed>>

Reconnect(c) ==
    /\ page[c] # NoPage /\ Fault
    /\ page' = [page EXCEPT ![c] = Loaded(@)]
    /\ UNCHANGED <<owner, stored, calls, missed>>

LoadFails(c) ==
    /\ c \in budget.clients /\ Fault
    /\ page' = [page EXCEPT ![c].failed = TRUE]
    /\ UNCHANGED <<owner, stored, calls, missed>>

Fillable(p) == p.form # None /\ ~p.failed /\ ~p.done

Identify(c) ==
    /\ Fillable(page[c]) /\ ~page[c].named
    /\ page' = [page EXCEPT ![c].named = TRUE]
    /\ UNCHANGED <<owner, stored, calls, budget, missed>>

Given(p, q) == IF q \in DOMAIN p.answers THEN p.answers[q] ELSE Unanswered

SetAnswer(c) ==
    /\ Fillable(page[c])
    /\ \E q \in DOMAIN page[c].form : \E a \in Inputs(page[c].form[q], Given(page[c], q)) :
        page' = [page EXCEPT ![c].answers =
                    [x \in DOMAIN @ \cup {q} |-> IF x = q THEN a ELSE @[x]]]
    /\ UNCHANGED <<owner, stored, calls, budget, missed>>

\* Mutant: the page does not look at what is required.
AnyComplete(p) == TRUE

Complete(p) == \A q \in DOMAIN p.form : p.form[q].required => IsAnswered(p.form[q], Given(p, q))
Payload(p) ==
    LET sent == {q \in DOMAIN p.form : IsAnswered(p.form[q], Given(p, q))}
    IN [q \in sent |-> Cleaned(p.form[q], p.answers[q])]

\* Mutant: the button stays on while a submission is under way.
ReadyAgain(p) == Fillable(p) /\ p.sends < budget.sends

\* The button is off while a submission is under way.
Ready(p) == Fillable(p) /\ ~p.waiting /\ p.sends < budget.sends

HandleSubmit(c) ==
    /\ Ready(page[c])
    /\ page[c].named /\ Complete(page[c])
    /\ page' = [page EXCEPT ![c].sends = @ + 1, ![c].waiting = TRUE]
    /\ calls' = calls \cup {[by |-> c, nth |-> page[c].sends, phase |-> "sent", heard |-> TRUE,
                             answers |-> Payload(page[c]), checked |-> None]}
    /\ UNCHANGED <<owner, stored, budget, missed>>

-----------------------------------------------------------------------------
(* The server, and its answers *)

Becomes(x, y) == calls' = (calls \ {x}) \cup {y}

\* Submit reads the form and checks the answers against it; checked: what it read.
Receive(x) ==
    /\ x.phase = "sent"
    /\ IF Published /\ Valid(form.questions, x.answers)
       THEN Becomes(x, [x EXCEPT !.phase = "accepted", !.checked = form.questions,
                                 !.answers = Kept(form.questions, @)])
       ELSE Becomes(x, [x EXCEPT !.phase = "refused", !.checked = IF Published THEN form.questions ELSE None])
    /\ UNCHANGED <<owner, stored, page, budget, missed>>

\* A form that was deleted meanwhile has the foreign key refuse the row.
Insert(x) ==
    /\ x.phase = "accepted"
    /\ IF form # None
       THEN /\ stored' = stored \cup {[by |-> x.by, nth |-> x.nth, answers |-> x.answers]}
            /\ Becomes(x, [x EXCEPT !.phase = "stored"])
       ELSE /\ Becomes(x, [x EXCEPT !.phase = "failed"])
            /\ UNCHANGED stored
    /\ UNCHANGED <<owner, page, budget, missed>>

InsertFails(x) ==
    /\ x.phase = "accepted" /\ Fault
    /\ Becomes(x, [x EXCEPT !.phase = "failed"])
    /\ UNCHANGED <<owner, stored, page, missed>>

\* Mutant: only success ends the wait.
ToldOfSuccess(p, phase) == [p EXCEPT !.waiting = phase # "stored", !.done = phase = "stored"]

Told(p, phase) == [p EXCEPT !.waiting = FALSE, !.done = phase = "stored"]

Reply(x) ==
    /\ x.phase \in {"stored", "refused", "failed"}
    /\ calls' = calls \ {x}
    /\ page' = IF x.heard THEN [page EXCEPT ![x.by] = Told(@, x.phase)] ELSE page
    /\ UNCHANGED <<owner, stored, budget, missed>>

\* The connection breaks: the request may never arrive, or only its outcome is lost.
Lose(x) ==
    /\ x.heard /\ Fault
    /\ page' = [page EXCEPT ![x.by] = Told(@, "lost")]
    /\ missed' = [missed EXCEPT ![x.by] = @ + 1]
    /\ \/ x.phase = "sent" /\ calls' = calls \ {x}
       \/ Becomes(x, [x EXCEPT !.heard = FALSE])
    /\ UNCHANGED <<owner, stored>>

-----------------------------------------------------------------------------
Init ==
    /\ budget \in Bounds
    /\ \E f \in budget.lists : form = [questions |-> f, published |-> TRUE] /\ versions = {f}
    /\ copy = None /\ stored = {} /\ calls = {}
    /\ page = [c \in Clients |-> NoPage]
    /\ missed = [c \in Clients |-> 0]

Edit == (\E f \in budget.lists : Save(f)) \/ PublishReads \/ PublishWrites \/ Delete
Visit(c) == Open(c) \/ Reconnect(c) \/ LoadFails(c) \/ Identify(c) \/ SetAnswer(c) \/ HandleSubmit(c)
Serve(x) == Receive(x) \/ Insert(x) \/ Reply(x)

Next ==
    \/ Edit
    \/ \E c \in Clients : Visit(c)
    \/ \E x \in calls : Serve(x) \/ InsertFails(x) \/ Lose(x)

Spec == Init /\ [][Next]_vars

-----------------------------------------------------------------------------
(* Properties *)

Filled(as) == as \in [DOMAIN as -> Answer]
IsSubmission(s) == Filled(s.answers) /\ s \in [by : Clients, nth : 0 .. MaxSends - 1, answers : {s.answers}]
IsCall(x) ==
    /\ Filled(x.answers)
    /\ x \in [by : Clients, nth : 0 .. MaxSends - 1, answers : {x.answers}, heard : BOOLEAN,
              checked : Questionnaires \cup {None},
              phase : {"sent", "accepted", "refused", "stored", "failed"}]
IsPage(p) ==
    /\ Filled(p.answers)
    /\ p \in [form : Questionnaires \cup {None}, failed : BOOLEAN, answers : {p.answers},
              seen : SUBSET Questionnaires, named : BOOLEAN, sends : 0 .. MaxSends,
              waiting : BOOLEAN, done : BOOLEAN]

\* The state keeps its types, and a page waits exactly for a call it will hear of.
TypeOK ==
    /\ form = None \/ form \in [questions : Questionnaires, published : BOOLEAN]
    /\ copy \in Questionnaires \cup {None}
    /\ versions \subseteq Questionnaires
    /\ \A s \in stored : IsSubmission(s)
    /\ \A x \in calls : IsCall(x)
    /\ DOMAIN page = Clients /\ \A c \in Clients : IsPage(page[c])
    /\ budget \in Instance /\ missed \in [Clients -> Nat]
    /\ \A c \in Clients : page[c].waiting <=> \E x \in calls : x.by = c /\ x.heard

AnswersTo(q) ==
    CASE q.type = "rating" -> {Rated(n) : n \in 1 .. q.scale}
      [] q.type = "nps" -> {Rated(n) : n \in 0 .. 10}
      [] q.type = "text" -> {Written(t) : t \in Texts}
      [] q.type = "choice" -> {Chosen(os) : os \in {o \in SUBSET q.options : o # {} /\ (q.multiple \/ Cardinality(o) = 1)}}

\* Whatever is edited, republished or deleted while a client is writing, a
\* submission is stored only if it answers, within range and all that is required,
\* some version of the form that was published.  An answer may be empty where none
\* is required: a question that has changed its type finds nothing of its own.
StoredFitsAVersion ==
    \A s \in stored : \E f \in versions :
        /\ {q \in DOMAIN f : f[q].required} \subseteq DOMAIN s.answers
        /\ \A q \in DOMAIN s.answers :
               /\ q \in DOMAIN f
               /\ s.answers[q] \in AnswersTo(f[q]) \/ (~f[q].required /\ s.answers[q] = Unanswered)

\* The checks of the page are those of the server: who has seen one version
\* only, answers it and is checked against it is not refused, unless a rating
\* was taken back (the page sends 0 for it).
RefusedForACause ==
    \A x \in calls : x.phase = "refused" =>
        \/ page[x.by].seen # {x.checked}
        \/ \E q \in DOMAIN x.answers : x.checked[q].type = "rating" /\ x.answers[q].rating = 0

\* A page stores one submission, unless it missed the outcome of another.
OncePerPage ==
    \A c \in Clients : Cardinality({s \in stored : s.by = c}) <= 1 + missed[c]

Settled(q) == \A f \in versions : q \in DOMAIN f => f[q] = form.questions[q]

\* As long as a question has not been redefined every answer to it counts, once,
\* in its statistics, and stands in the table; nothing else counts.
EveryAnswerCounts ==
    form # None => \A q \in DOMAIN form.questions :
        LET def == form.questions[q]
            given == {s \in stored : q \in DOMAIN s.answers /\ IsAnswered(def, s.answers[q])}
        IN Settled(q) => /\ Stat(form.questions, q).responses = Cardinality(given)
                         /\ \A s \in stored : Cell(def, s.answers, q) # None <=> s \in given

\* Answers given on another scale, or to another type of question, never take an
\* average out of the scale it is shown on, and the bars of a card add up to the
\* responses it tells.  A dash on a card says that nobody answered, or that
\* everybody gave the lowest score, 0.
ResultsInRange ==
    form # None =>
        /\ AvgRating(form.questions) \in 0 .. 50 /\ Nps(form.questions) \in -100 .. 100
        /\ \A q \in Asked(form.questions, "rating") \cup Asked(form.questions, "nps") :
            LET stat == Stat(form.questions, q)
                card == Card(stat)
                rating == form.questions[q].type = "rating"
            IN
            /\ card.average # None =>
                   card.average \in IF rating THEN 10 .. 10 * form.questions[q].scale ELSE 1 .. 100
            /\ card.average = None <=>
                   \/ stat.responses = 0
                   \/ ~rating /\ \A s \in Hits(form.questions, q) : s.answers[q].rating = 0
            /\ \A n \in DOMAIN card.bars : card.bars[n] \in 0 .. 100
            /\ rating => stat.responses = MapThenSumSet(LAMBDA n : stat.distribution[n], DOMAIN stat.distribution)
=============================================================================
