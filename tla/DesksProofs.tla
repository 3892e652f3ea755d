------------------------------ MODULE DesksProofs ------------------------------
(***************************************************************************)
(* Proofs about Desks, for every value of its constants: its state keeps   *)
(* its types, what the clients of a questionnaire answer stands, what is   *)
(* asked for once is done once, and what users put in is kept.  Each part  *)
(* strengthens the properties of one module to an invariant of its steps,  *)
(* named for the instance (FormInv, PlaybookInv with InstructionInv,       *)
(* ProjectInv, ChatInv); the last part joins the scenes.                   *)
(***************************************************************************)
EXTENDS Desks, TLAPS, FiniteSetTheorems

-----------------------------------------------------------------------------
(* The questionnaire, its pages and its answers *)

\* What a question can have been answered with on the page.
Choices(q) == {os \in SUBSET q.options : q.multiple \/ os = {} \/ (\E o \in q.options : os = {o})}
Entered(q) ==
    CASE q.type = "rating" -> {Form!Rated(n) : n \in 0 .. q.scale}
      [] q.type = "nps" -> {Form!Rated(n) : n \in Scores \cup {None}}
      [] q.type = "text" -> {Form!Written(t) : t \in Remarks \cup {""}}
      [] q.type = "choice" -> {Form!Chosen(os) : os \in Choices(q)}

\* What a page sends that has seen no other version than f.
Sendable(f, as) ==
    /\ {q \in DOMAIN f : f[q].required} \subseteq DOMAIN as
    /\ \A q \in DOMAIN as : /\ q \in DOMAIN f
                            /\ \/ as[q] \in Form!AnswersTo(f[q])
                               \/ f[q].type = "rating" /\ as[q] = Form!Rated(0)

\* What the server stores.
Storable(f, as) ==
    /\ {q \in DOMAIN f : f[q].required} \subseteq DOMAIN as
    /\ \A q \in DOMAIN as :
           /\ q \in DOMAIN f
           /\ as[q] \in Form!AnswersTo(f[q]) \/ (~f[q].required /\ as[q] = Form!Unanswered)

\* What is served is a version.
Served == form # None /\ form.published => form.questions \in versions

\* A submission bears its number, and a page waits for one at a time.
OneHeard == \A x, y \in calls : x.by = y.by /\ x.heard /\ y.heard => x = y
Numbered ==
    /\ \A x \in calls : x.nth < page[x.by].sends
    /\ \A s \in stored : s.nth < page[s.by].sends
    /\ \A x, y \in calls : x.by = y.by /\ x.nth = y.nth => x = y
    /\ \A s, t \in stored : s.by = t.by /\ s.nth = t.nth => s = t
    /\ \A s \in stored : \A x \in calls : s.by = x.by /\ s.nth = x.nth => x.phase = "stored"

\* The submissions of a page that are stored, or may be, without its waiting for
\* them: each is one whose outcome it missed, or the one it has heard of.
Alive(c, n) ==
    \/ \E s \in stored : s.by = c /\ s.nth = n
    \/ \E x \in calls : x.by = c /\ x.nth = n /\ x.phase \in {"sent", "accepted"}
HeardOf(c, n) == \E x \in calls : x.by = c /\ x.nth = n /\ x.heard
Stray(c) == {n \in 0 .. MaxSends - 1 : Alive(c, n) /\ ~HeardOf(c, n)}
Allowed(c) == missed[c] + (IF page[c].done THEN 1 ELSE 0)
Counted == \A c \in Clients : (page[c].waiting => ~page[c].done) /\ Cardinality(Stray(c)) <= Allowed(c)

\* A page that has seen one version is filled in for it.
PageFits(p) ==
    /\ p.form = None => p.seen = {} /\ DOMAIN p.answers = {}
    /\ p.form # None => p.form \in p.seen
    /\ \A f \in Questionnaires : p.seen = {f} => \A q \in DOMAIN p.answers : q \in DOMAIN f /\ p.answers[q] \in Entered(f[q])
CallFits(x) ==
    /\ page[x.by].seen # {}
    /\ x.phase = "sent" => \A f \in Questionnaires : page[x.by].seen = {f} => Sendable(f, x.answers)
    /\ x.phase = "accepted" => x.checked \in versions /\ Storable(x.checked, x.answers)
Fitting == (\A c \in Clients : PageFits(page[c])) /\ (\A x \in calls : CallFits(x))

FormInv ==
    /\ Form!TypeOK /\ Served /\ OneHeard /\ Numbered /\ Counted /\ Fitting
    /\ Form!StoredFitsAVersion /\ Form!RefusedForACause

-----------------------------------------------------------------------------

LEMMA QuestionIs ==
    ASSUME Form!QuestionAssumption, NEW f \in Questionnaires, NEW q \in DOMAIN f
    PROVE  /\ f[q].type \in {"rating", "nps", "text", "choice"}
           /\ f[q].type = "rating" => f[q].scale \in 2 .. 10
           /\ f[q].type = "choice" => f[q].options # {} /\ f[q].options \subseteq Options
    BY DEF Form!QuestionAssumption

\* The sizes of sets are those of FiniteSets.
LEMMA SizesAre == ASSUME NEW S PROVE Form!IsFiniteSet(S) = IsFiniteSet(S) /\ Form!Cardinality(S) = Cardinality(S)
    BY DEF Form!IsFiniteSet, IsFiniteSet, Form!Cardinality, Cardinality

LEMMA ValuesAre ==
    ASSUME Form!QuestionAssumption
    PROVE  /\ Scores \subseteq 0 .. 10 /\ 0 \in Scores /\ "" \notin Remarks /\ IsFiniteSet(Options)
           /\ \A n \in 0 .. 10 : n # None
           /\ \A t \in Remarks : t # None
           /\ \A os \in SUBSET Options : os # None /\ IsFiniteSet(os)
           /\ None \notin Questionnaires /\ MaxSends \in Nat
<1>1. IsFiniteSet(Options)
    BY SizesAre DEF Form!QuestionAssumption
<1>2. \A os \in SUBSET Options : IsFiniteSet(os)
    BY <1>1, FS_Subset
<1>q. QED
    BY <1>1, <1>2 DEF Form!QuestionAssumption

\* What is entered, and what is sent of it, are answers.
LEMMA AnswersTyped ==
    ASSUME Form!QuestionAssumption
    PROVE  /\ Form!Unanswered \in Form!Answer
           /\ \A n \in (0 .. 10) \cup {None} : Form!Rated(n) \in Form!Answer
           /\ \A t \in Remarks \cup {""} : Form!Written(t) \in Form!Answer
           /\ \A os \in SUBSET Options : Form!Chosen(os) \in Form!Answer
    BY DEF Form!Unanswered, Form!Rated, Form!Written, Form!Chosen, Form!Answer

LEMMA CleanedTyped ==
    ASSUME Form!QuestionAssumption, NEW f \in Questionnaires, NEW q \in DOMAIN f, NEW a \in Form!Answer
    PROVE  Form!Cleaned(f[q], a) \in Form!Answer
<1>1. a.rating \in (0 .. 10) \cup {None} /\ a.text \in Remarks \cup {""} /\ a.choice \in SUBSET Options
    BY DEF Form!Answer
<1>q. QED
    BY <1>1, QuestionIs, AnswersTyped DEF Form!Cleaned

LEMMA InputsTyped ==
    ASSUME Form!QuestionAssumption, NEW f \in Questionnaires, NEW q \in DOMAIN f, NEW a \in Form!Answer,
           NEW b \in Form!Inputs(f[q], a)
    PROVE  b \in Form!Answer
<1>1. CASE f[q].type = "rating"
  <2>1. PICK n \in 1 .. f[q].scale : b = Form!Rated(n) \/ b = Form!Rated(0)
      BY <1>1 DEF Form!Inputs, Form!OnScale
  <2>2. n \in 0 .. 10 /\ 0 \in 0 .. 10
      BY <1>1, <2>1, QuestionIs
  <2>3. Form!Rated(n) \in Form!Answer /\ Form!Rated(0) \in Form!Answer
      BY <2>2, AnswersTyped
  <2>q. QED
      BY <2>1, <2>3
<1>2. CASE f[q].type = "nps"
    BY <1>2, QuestionIs, AnswersTyped DEF Form!Inputs, Form!OnNps, Form!QuestionAssumption
<1>3. CASE f[q].type = "text"
    BY <1>3, QuestionIs, AnswersTyped DEF Form!Inputs
<1>4. CASE f[q].type = "choice"
  <2>1. PICK o \in f[q].options : b = Form!Chosen(Form!Toggled(f[q], a, o))
      BY <1>4 DEF Form!Inputs
  <2>2. Form!Toggled(f[q], a, o) \subseteq Options
      BY <1>4, <2>1, QuestionIs DEF Form!Toggled, Form!Answer
  <2>q. QED
      BY <2>1, <2>2, AnswersTyped
<1>q. QED
    BY <1>1, <1>2, <1>3, <1>4, QuestionIs

\* On one version, what is entered stays enterable.
LEMMA InputsEntered ==
    ASSUME Form!QuestionAssumption, NEW f \in Questionnaires, NEW q \in DOMAIN f,
           NEW a, a \in Entered(f[q]) \/ a = Form!Unanswered, NEW b \in Form!Inputs(f[q], a)
    PROVE  b \in Entered(f[q])
<1>1. CASE f[q].type = "rating"
    BY <1>1, QuestionIs DEF Form!Inputs, Form!OnScale, Entered
<1>2. CASE f[q].type = "nps"
    BY <1>2, QuestionIs DEF Form!Inputs, Form!OnNps, Entered
<1>3. CASE f[q].type = "text"
    BY <1>3, QuestionIs DEF Form!Inputs, Entered
<1>4. CASE f[q].type = "choice"
  <2>1. PICK o \in f[q].options : b = Form!Chosen(Form!Toggled(f[q], a, o))
      BY <1>4 DEF Form!Inputs
  <2>2. a.choice \in Choices(f[q])
    <3>1. CASE a = Form!Unanswered
        BY <3>1 DEF Form!Unanswered, Choices
    <3>2. CASE a \in Entered(f[q])
      <4>1. PICK os \in Choices(f[q]) : a = Form!Chosen(os)
          BY <1>4, <3>2 DEF Entered
      <4>q. QED
          BY <4>1 DEF Form!Chosen
    <3>q. QED
        BY <3>1, <3>2
  <2>3. Form!Toggled(f[q], a, o) \in Choices(f[q])
      BY <2>1, <2>2 DEF Form!Toggled, Choices
  <2>q. QED
      BY <1>4, <2>1, <2>3 DEF Entered
<1>q. QED
    BY <1>1, <1>2, <1>3, <1>4, QuestionIs

\* The sizes of sets of choices.
LEMMA OneChoice ==
    ASSUME Form!QuestionAssumption, NEW os \in SUBSET Options
    PROVE  /\ Form!Cardinality(os) = 1 <=> \E o \in os : os = {o}
           /\ os # {} /\ Form!Cardinality(os) <= 1 => Form!Cardinality(os) = 1
<1>1. IsFiniteSet(os)
    BY ValuesAre
<1>2. Cardinality(os) = 1 <=> \E o : os = {o}
    BY <1>1, FS_Singleton
<1>3. Cardinality(os) \in Nat /\ (Cardinality(os) = 0 <=> os = {})
    BY <1>1, FS_CardinalityType, FS_EmptySet
<1>q. QED
    BY <1>2, <1>3, SizesAre

\* What a page sends of what was entered on one version is what that version asks
\* for, but for a rating that was taken back.
LEMMA SentOfEntered ==
    ASSUME Form!QuestionAssumption, NEW f \in Questionnaires, NEW q \in DOMAIN f,
           NEW a \in Entered(f[q]), Form!IsAnswered(f[q], a)
    PROVE  /\ Form!Cleaned(f[q], a) = a
           /\ a \in Form!AnswersTo(f[q]) \/ (f[q].type = "rating" /\ a = Form!Rated(0))
<1>1. CASE f[q].type = "rating"
  <2>1. PICK n \in 0 .. f[q].scale : a = Form!Rated(n)
      BY <1>1 DEF Entered
  <2>2. n = 0 \/ n \in 1 .. f[q].scale
      BY <1>1, <2>1, QuestionIs
  <2>q. QED
      BY <1>1, <2>1, <2>2 DEF Form!Cleaned, Form!AnswersTo, Form!Rated
<1>2. CASE f[q].type = "nps"
  <2>1. PICK n \in Scores \cup {None} : a = Form!Rated(n)
      BY <1>2 DEF Entered
  <2>2. n \in 0 .. 10
      BY <1>2, <2>1 DEF Form!IsAnswered, Form!Rated, Form!QuestionAssumption
  <2>q. QED
      BY <1>2, <2>1, <2>2 DEF Form!Cleaned, Form!AnswersTo, Form!Rated
<1>3. CASE f[q].type = "text"
  <2>1. PICK t \in Remarks \cup {""} : a = Form!Written(t)
      BY <1>3 DEF Entered
  <2>2. t \in Remarks
      BY <1>3, <2>1 DEF Form!IsAnswered, Form!Written
  <2>q. QED
      BY <1>3, <2>1, <2>2 DEF Form!Cleaned, Form!AnswersTo, Form!Written
<1>4. CASE f[q].type = "choice"
  <2>1. PICK os \in Choices(f[q]) : a = Form!Chosen(os)
      BY <1>4 DEF Entered
  <2>2. os # {} /\ os \in SUBSET f[q].options /\ os \in SUBSET Options
      BY <1>4, <2>1, QuestionIs DEF Form!IsAnswered, Form!Chosen, Choices
  <2>3. f[q].multiple \/ Form!Cardinality(os) = 1
      BY <2>1, <2>2, OneChoice DEF Choices
  <2>q. QED
      BY <1>4, <2>1, <2>2, <2>3 DEF Form!Cleaned, Form!AnswersTo, Form!Chosen
<1>q. QED
    BY <1>1, <1>2, <1>3, <1>4, QuestionIs

\* What answers a question is in range, and counts as an answer.
LEMMA AnswerIsValid ==
    ASSUME Form!QuestionAssumption, NEW f \in Questionnaires, NEW q \in DOMAIN f, NEW a \in Form!AnswersTo(f[q])
    PROVE  Form!InRange(f[q], a) /\ Form!IsAnswered(f[q], a) /\ Form!Counts(f[q], a)
<1>1. CASE f[q].type = "rating"
  <2>1. PICK n \in 1 .. f[q].scale : a = Form!Rated(n)
      BY <1>1 DEF Form!AnswersTo
  <2>2. n \in 0 .. 10
      BY <1>1, <2>1, QuestionIs
  <2>3. n # None
      BY <2>2, ValuesAre
  <2>q. QED
      BY <1>1, <2>1, <2>3 DEF Form!InRange, Form!IsAnswered, Form!Counts, Form!Rated
<1>2. CASE f[q].type = "nps"
  <2>1. PICK n \in 0 .. 10 : a = Form!Rated(n)
      BY <1>2 DEF Form!AnswersTo
  <2>2. n # None
      BY <2>1, ValuesAre
  <2>q. QED
      BY <1>2, <2>1, <2>2 DEF Form!InRange, Form!IsAnswered, Form!Counts, Form!Rated
<1>3. CASE f[q].type = "text"
  <2>1. PICK t \in Remarks : a = Form!Written(t)
      BY <1>3 DEF Form!AnswersTo
  <2>2. t # ""
      BY <2>1, ValuesAre
  <2>q. QED
      BY <1>3, <2>1, <2>2 DEF Form!InRange, Form!IsAnswered, Form!Counts, Form!Written
<1>4. CASE f[q].type = "choice"
  <2>1. PICK os \in SUBSET f[q].options : a = Form!Chosen(os) /\ os # {} /\ (f[q].multiple \/ Form!Cardinality(os) = 1)
      BY <1>4 DEF Form!AnswersTo
  <2>2. a.choice = os
      BY <2>1 DEF Form!Chosen
  <2>q. QED
      BY <1>4, <2>1, <2>2 DEF Form!InRange, Form!IsAnswered, Form!Counts
<1>q. QED
    BY <1>1, <1>2, <1>3, <1>4, QuestionIs

\* What is in range is stored as an answer, or as an empty one.
LEMMA KeptOfValid ==
    ASSUME Form!QuestionAssumption, NEW f \in Questionnaires, NEW q \in DOMAIN f, NEW a \in Form!Answer,
           Form!InRange(f[q], a)
    PROVE  /\ Form!IsAnswered(f[q], a) => Form!Cleaned(f[q], a) \in Form!AnswersTo(f[q])
           /\ ~Form!IsAnswered(f[q], a) => Form!Cleaned(f[q], a) = Form!Unanswered
<1>0. a.rating \in (0 .. 10) \cup {None} /\ a.text \in Remarks \cup {""} /\ a.choice \in SUBSET Options
    BY DEF Form!Answer
<1>1. CASE f[q].type \in {"rating", "nps"}
    BY <1>0, <1>1 DEF Form!InRange, Form!IsAnswered, Form!Cleaned, Form!AnswersTo, Form!Rated, Form!Unanswered
<1>2. CASE f[q].type = "text"
    BY <1>0, <1>2 DEF Form!InRange, Form!IsAnswered, Form!Cleaned, Form!AnswersTo, Form!Written, Form!Unanswered
<1>3. CASE f[q].type = "choice"
  <2>1. a.choice \subseteq f[q].options /\ (f[q].multiple \/ Form!Cardinality(a.choice) <= 1)
      BY <1>3 DEF Form!InRange
  <2>2. a.choice # {} => f[q].multiple \/ Form!Cardinality(a.choice) = 1
      BY <1>0, <2>1, OneChoice
  <2>3. Form!Cleaned(f[q], a) = Form!Chosen(a.choice) /\ (Form!IsAnswered(f[q], a) <=> a.choice # {})
      BY <1>3 DEF Form!Cleaned, Form!IsAnswered
  <2>4. a.choice # {} => Form!Chosen(a.choice) \in Form!AnswersTo(f[q])
      BY <1>3, <2>1, <2>2 DEF Form!AnswersTo
  <2>q. QED
      BY <2>3, <2>4 DEF Form!Chosen, Form!Unanswered
<1>q. QED
    BY <1>1, <1>2, <1>3, QuestionIs

-----------------------------------------------------------------------------
(* The sets of answers *)

LEMMA SetAnswerFits ==
    ASSUME Form!QuestionAssumption, NEW p, Form!IsPage(p), PageFits(p), p.form \in Questionnaires,
           NEW q \in DOMAIN p.form, NEW a \in Form!Inputs(p.form[q], Form!Given(p, q))
    PROVE  /\ a \in Form!Answer
           /\ \A f \in Questionnaires : p.seen = {f} => p.form = f /\ a \in Entered(f[q])
<1>1. Form!Given(p, q) \in Form!Answer
    BY AnswersTyped DEF Form!Given, Form!IsPage, Form!Filled
<1>2. a \in Form!Answer
    BY <1>1, InputsTyped
<1>3. ASSUME NEW f \in Questionnaires, p.seen = {f}
      PROVE  p.form = f /\ a \in Entered(f[q])
  <2>1. p.form = f
      BY <1>3, ValuesAre DEF PageFits
  <2>2. Form!Given(p, q) \in Entered(f[q]) \/ Form!Given(p, q) = Form!Unanswered
      BY <1>3 DEF PageFits, Form!Given
  <2>q. QED
      BY <2>1, <2>2, InputsEntered
<1>q. QED
    BY <1>2, <1>3

LEMMA PayloadFits ==
    ASSUME Form!QuestionAssumption, NEW p, Form!IsPage(p), PageFits(p), p.form \in Questionnaires
    PROVE  /\ Form!Filled(Form!Payload(p))
           /\ Form!Complete(p) => \A f \in Questionnaires : p.seen = {f} => Sendable(f, Form!Payload(p))
<1> DEFINE Sent == {q \in DOMAIN p.form : Form!IsAnswered(p.form[q], Form!Given(p, q))}
<1>1. Form!Payload(p) = [q \in Sent |-> Form!Cleaned(p.form[q], p.answers[q])]
    BY DEF Form!Payload
<1>2. \A q \in Sent : q \in DOMAIN p.form /\ q \in DOMAIN p.answers /\ Form!IsAnswered(p.form[q], p.answers[q])
  <2>1. SUFFICES ASSUME NEW q \in Sent PROVE q \in DOMAIN p.answers
      BY DEF Form!Given
  <2>2. ~Form!IsAnswered(p.form[q], Form!Unanswered)
      BY QuestionIs DEF Form!IsAnswered, Form!Unanswered
  <2>q. QED
      BY <2>2 DEF Form!Given
<1>3. Form!Filled(Form!Payload(p))
  <2>1. \A q \in Sent : Form!Cleaned(p.form[q], p.answers[q]) \in Form!Answer
      BY <1>2, CleanedTyped DEF Form!IsPage, Form!Filled
  <2>q. QED
      BY <1>1, <2>1 DEF Form!Filled
<1>4. ASSUME Form!Complete(p), NEW f \in Questionnaires, p.seen = {f}
      PROVE  Sendable(f, Form!Payload(p))
  <2>1. p.form = f
      BY <1>4, ValuesAre DEF PageFits
  <2>2. DOMAIN Form!Payload(p) = Sent
      BY <1>1
  <2>3. {q \in DOMAIN f : f[q].required} \subseteq Sent
      BY <1>4, <2>1 DEF Form!Complete
  <2>4. ASSUME NEW q \in Sent
        PROVE  /\ q \in DOMAIN f
               /\ \/ Form!Payload(p)[q] \in Form!AnswersTo(f[q])
                  \/ f[q].type = "rating" /\ Form!Payload(p)[q] = Form!Rated(0)
    <3>1. q \in DOMAIN f /\ p.answers[q] \in Entered(f[q]) /\ Form!IsAnswered(f[q], p.answers[q])
        BY <1>2, <1>4, <2>1 DEF PageFits
    <3>2. Form!Payload(p)[q] = Form!Cleaned(f[q], p.answers[q])
        BY <1>1, <2>1
    <3>q. QED
        BY <3>1, <3>2, SentOfEntered
  <2>q. QED
      BY <2>2, <2>3, <2>4 DEF Sendable
<1>q. QED
    BY <1>3, <1>4

LEMMA SendableIsValid ==
    ASSUME Form!QuestionAssumption, NEW f \in Questionnaires, NEW as, Sendable(f, as), ~Form!Valid(f, as)
    PROVE  \E q \in DOMAIN as : f[q].type = "rating" /\ as[q].rating = 0
<1>0. Form!Rated(0).rating = 0
    BY DEF Form!Rated
<1>1. ASSUME ~\E q \in DOMAIN as : f[q].type = "rating" /\ as[q].rating = 0 PROVE FALSE
  <2>1. \A q \in DOMAIN as : q \in DOMAIN f /\ as[q] \in Form!AnswersTo(f[q])
      BY <1>0, <1>1 DEF Sendable
  <2>2. \A q \in DOMAIN as : Form!InRange(f[q], as[q]) /\ Form!IsAnswered(f[q], as[q])
      BY <2>1, AnswerIsValid
  <2>q. QED
      BY <2>2 DEF Sendable, Form!Valid
<1>q. QED
    BY <1>1

LEMMA KeptIsStorable ==
    ASSUME Form!QuestionAssumption, NEW f \in Questionnaires, NEW as, Form!Filled(as), Form!Valid(f, as)
    PROVE  Form!Filled(Form!Kept(f, as)) /\ Storable(f, Form!Kept(f, as))
<1> DEFINE K == DOMAIN f \cap DOMAIN as
<1>1. Form!Kept(f, as) = [q \in K |-> Form!Cleaned(f[q], as[q])]
    BY DEF Form!Kept
<1>2. \A q \in K : as[q] \in Form!Answer
    BY DEF Form!Filled
<1>3. Form!Filled(Form!Kept(f, as))
    BY <1>1, <1>2, CleanedTyped DEF Form!Filled
<1>4. {q \in DOMAIN f : f[q].required} \subseteq K
    BY DEF Form!Valid
<1>5. ASSUME NEW q \in K
      PROVE  \/ Form!Kept(f, as)[q] \in Form!AnswersTo(f[q])
             \/ ~f[q].required /\ Form!Kept(f, as)[q] = Form!Unanswered
  <2>1. Form!InRange(f[q], as[q]) /\ (f[q].required => Form!IsAnswered(f[q], as[q]))
      BY DEF Form!Valid
  <2>2. Form!Kept(f, as)[q] = Form!Cleaned(f[q], as[q])
      BY <1>1
  <2>q. QED
      BY <1>2, <2>1, <2>2, KeptOfValid
<1>q. QED
    BY <1>1, <1>3, <1>4, <1>5 DEF Storable

-----------------------------------------------------------------------------
(* The steps *)

LEMMA StrayFinite ==
    ASSUME Form!QuestionAssumption, NEW S \in SUBSET (0 .. MaxSends - 1)
    PROVE  IsFiniteSet(S) /\ Cardinality(S) \in Nat
<1>1. MaxSends \in Nat
    BY ValuesAre
<1>2. IsFiniteSet(0 .. MaxSends - 1)
    BY <1>1, FS_Interval
<1>q. QED
    BY <1>2, FS_Subset, FS_CardinalityType

\* One more submission needs one more outcome that is missed, or heard of.
LEMMA CountStays ==
    ASSUME Form!QuestionAssumption, NEW c \in Clients, missed[c] \in Nat, missed'[c] \in Nat,
           Cardinality(Stray(c)) <= Allowed(c),
           \/ Stray(c)' \subseteq Stray(c) /\ missed'[c] = missed[c] /\ (page[c].done => page'[c].done)
           \/ \E n : /\ Stray(c)' \subseteq Stray(c) \cup {n} /\ ~page[c].done
                    /\ \/ missed'[c] = missed[c] + 1
                       \/ missed'[c] = missed[c] /\ page'[c].done
    PROVE  Cardinality(Stray(c)') <= Allowed(c)'
<1> DEFINE S == Stray(c)
           T == Stray(c)'
<1>1. S \in SUBSET (0 .. MaxSends - 1) /\ T \in SUBSET (0 .. MaxSends - 1)
    BY DEF Stray
<1>2. IsFiniteSet(S) /\ Cardinality(S) \in Nat /\ IsFiniteSet(T) /\ Cardinality(T) \in Nat
    BY <1>1, StrayFinite
<1>3. CASE T \subseteq S /\ missed'[c] = missed[c] /\ (page[c].done => page'[c].done)
  <2>1. Cardinality(T) <= Cardinality(S)
      BY <1>2, <1>3, FS_Subset
  <2>q. QED
      BY <1>2, <1>3, <2>1 DEF Allowed
<1>4. ASSUME NEW n, T \subseteq S \cup {n}, ~page[c].done,
             missed'[c] = missed[c] + 1 \/ (missed'[c] = missed[c] /\ page'[c].done)
      PROVE  Cardinality(T) <= Allowed(c)'
  <2>1. /\ IsFiniteSet(S \cup {n})
        /\ Cardinality(S \cup {n}) = IF n \in S THEN Cardinality(S) ELSE Cardinality(S) + 1
      BY <1>2, FS_AddElement
  <2>2. Cardinality(T) <= Cardinality(S \cup {n})
      BY <1>4, <2>1, FS_Subset
  <2>3. Cardinality(T) <= Cardinality(S) + 1
      BY <1>2, <2>1, <2>2
  <2>q. QED
      BY <1>2, <1>4, <2>3 DEF Allowed
<1>q. QED
    BY <1>3, <1>4

\* A step of the owner: submissions may go, versions may come.
LEMMA OwnerKeepsForm ==
    ASSUME FormInv, UNCHANGED <<page, calls, missed>>, stored' \subseteq stored,
           versions \subseteq versions', versions' \subseteq Questionnaires, budget' \in Form!Instance,
           form' = None \/ form' \in [questions : Questionnaires, published : BOOLEAN],
           copy' \in Questionnaires \cup {None}, Served', Form!QuestionAssumption
    PROVE  FormInv'
<1>1. Form!TypeOK'
    BY DEF FormInv, Form!TypeOK
<1>2. OneHeard' /\ Numbered'
    BY DEF FormInv, OneHeard, Numbered
<1>3. Fitting'
  <2>1. \A x \in calls : CallFits(x)'
      BY DEF FormInv, Fitting, CallFits
  <2>q. QED
      BY <2>1 DEF FormInv, Fitting, PageFits
<1>4. Form!StoredFitsAVersion' /\ Form!RefusedForACause'
  <2>1. Form!StoredFitsAVersion'
      BY DEF FormInv, Form!StoredFitsAVersion
  <2>q. QED
      BY <2>1 DEF FormInv, Form!RefusedForACause
<1>5. Counted'
  <2> SUFFICES ASSUME NEW c \in Clients
               PROVE  Cardinality(Stray(c)') <= Allowed(c)'
      BY DEF FormInv, Counted
  <2>1. Stray(c)' \subseteq Stray(c)
      BY DEF Stray, Alive, HeardOf
  <2>2. missed[c] \in Nat /\ Cardinality(Stray(c)) <= Allowed(c)
      BY DEF FormInv, Counted, Form!TypeOK
  <2>q. QED
      BY <2>1, <2>2, CountStays
<1>q. QED
    BY <1>1, <1>2, <1>3, <1>4, <1>5 DEF FormInv

\* A step of a page that sends nothing: it may see another version.
LEMMA PageKeepsForm ==
    ASSUME FormInv, UNCHANGED <<form, copy, versions, stored, calls, missed>>, budget' \in Form!Instance,
           NEW c \in Clients, NEW p, page' = [page EXCEPT ![c] = p], Form!IsPage(p), PageFits(p),
           p.sends = page[c].sends, p.waiting = page[c].waiting, p.done = page[c].done,
           page[c].seen \subseteq p.seen, Form!QuestionAssumption
    PROVE  FormInv'
<1>0. /\ DOMAIN page = Clients /\ DOMAIN page' = Clients
      /\ page'[c] = p /\ \A d \in Clients : d # c => page'[d] = page[d]
    BY DEF FormInv, Form!TypeOK
<1>1. \A d \in Clients : /\ page'[d].sends = page[d].sends /\ page'[d].waiting = page[d].waiting
                          /\ page'[d].done = page[d].done /\ page[d].seen \subseteq page'[d].seen
    BY <1>0
<1>2. \A x \in calls : x.by \in Clients
    BY DEF FormInv, Form!TypeOK, Form!IsCall
<1>3. Form!TypeOK'
    BY <1>0, <1>1 DEF FormInv, Form!TypeOK
<1>4. OneHeard' /\ Numbered' /\ Served'
  <2>1. \A s \in stored : s.by \in Clients
      BY DEF FormInv, Form!TypeOK, Form!IsSubmission
  <2>q. QED
      BY <1>1, <1>2, <2>1 DEF FormInv, OneHeard, Numbered, Served
<1>5. Fitting'
  <2>1. \A d \in Clients : PageFits(page'[d])
      BY <1>0 DEF FormInv, Fitting
  <2>2. ASSUME NEW x \in calls PROVE CallFits(x)'
    <3>1. page[x.by].seen # {} /\ page[x.by].seen \subseteq page'[x.by].seen
        BY <1>1, <1>2 DEF FormInv, Fitting, CallFits
    <3>2. \A f \in Questionnaires : page'[x.by].seen = {f} => page[x.by].seen = {f}
        BY <3>1
    <3>q. QED
        BY <3>1, <3>2 DEF FormInv, Fitting, CallFits
  <2>q. QED
      BY <2>1, <2>2 DEF Fitting
<1>6. Form!StoredFitsAVersion'
    BY DEF FormInv, Form!StoredFitsAVersion
<1>7. Form!RefusedForACause'
  <2> SUFFICES ASSUME NEW x \in calls, x.phase = "refused", page'[x.by].seen = {x.checked}
               PROVE  \E q \in DOMAIN x.answers : x.checked[q].type = "rating" /\ x.answers[q].rating = 0
      BY DEF Form!RefusedForACause
  <2>1. page[x.by].seen # {} /\ page[x.by].seen \subseteq page'[x.by].seen
      BY <1>1, <1>2 DEF FormInv, Fitting, CallFits
  <2>q. QED
      BY <2>1 DEF FormInv, Form!RefusedForACause
<1>8. Counted'
  <2> SUFFICES ASSUME NEW d \in Clients
               PROVE  Cardinality(Stray(d)') <= Allowed(d)'
      BY <1>1 DEF FormInv, Counted
  <2>1. Stray(d)' = Stray(d)
      BY DEF Stray, Alive, HeardOf
  <2>2. missed[d] \in Nat /\ Cardinality(Stray(d)) <= Allowed(d)
      BY DEF FormInv, Counted, Form!TypeOK
  <2>q. QED
      BY <1>1, <2>1, <2>2, CountStays
<1>q. QED
    BY <1>3, <1>4, <1>5, <1>6, <1>7, <1>8 DEF FormInv

\* A call moves on, or goes, and may leave a row.
Follows(x, y) ==
    /\ Form!IsCall(y) /\ CallFits(y)
    /\ y.by = x.by /\ y.nth = x.nth /\ (y.heard => x.heard)
    /\ y.phase \in {"sent", "accepted"} => x.phase \in {"sent", "accepted"}
    /\ x.phase = "stored" => y.phase = "stored"
    /\ y.phase = "refused" =>
         \/ page[x.by].seen # {y.checked}
         \/ \E q \in DOMAIN y.answers : y.checked[q].type = "rating" /\ y.answers[q].rating = 0
Leaves(x, s) ==
    /\ Form!IsSubmission(s) /\ s.by = x.by /\ s.nth = x.nth /\ x.phase = "accepted"
    /\ \E f \in versions : Storable(f, s.answers)
Moves(x, Y, S) ==
    /\ x \in calls /\ calls' = (calls \ {x}) \cup Y
    /\ stored' = stored \cup S
    /\ \A y \in Y : Follows(x, y) /\ (\A z \in Y : z = y)
    /\ \A s \in S : Leaves(x, s) /\ (\A t \in S : t = s) /\ (\A y \in Y : y.phase = "stored")
    /\ UNCHANGED <<form, copy, versions>> /\ budget' \in Form!Instance

\* The page waits on, or is told; then it heard of what was stored, or missed it.
PageUntold(x, Y) == UNCHANGED <<page, missed>> /\ (x.heard => \E y \in Y : y.heard)
PageTold(x, Y, phase) ==
    /\ x.heard /\ \A y \in Y : ~y.heard
    /\ page' = [page EXCEPT ![x.by] = Form!Told(@, phase)]
    /\ \/ missed' = [missed EXCEPT ![x.by] = @ + 1]
       \/ missed' = missed /\ Y = {} /\ phase = x.phase /\ x.phase \in {"stored", "refused", "failed"}

LEMMA PagesAfter ==
    ASSUME Form!TypeOK, NEW x \in calls, NEW Y, NEW phase, PageUntold(x, Y) \/ PageTold(x, Y, phase)
    PROVE  /\ DOMAIN page' = Clients
           /\ \A c \in Clients :
                  /\ Form!IsPage(page'[c])
                  /\ PageFits(page[c]) => PageFits(page'[c])
                  /\ page'[c].sends = page[c].sends /\ page'[c].seen = page[c].seen
                  /\ c # x.by => page'[c] = page[c] /\ missed'[c] = missed[c]
           /\ PageTold(x, Y, phase) => ~page'[x.by].waiting /\ (page'[x.by].done <=> phase = "stored")
           /\ missed' \in [Clients -> Nat]
<1>1. x.by \in Clients /\ DOMAIN page = Clients /\ missed \in [Clients -> Nat] /\ \A c \in Clients : Form!IsPage(page[c])
    BY DEF Form!TypeOK, Form!IsCall
<1>2. CASE PageUntold(x, Y)
    BY <1>1, <1>2 DEF PageUntold, PageTold
<1>3. CASE PageTold(x, Y, phase)
  <2> DEFINE p == page[x.by]
             r == Form!Told(p, phase)
  <2>1. page' = [page EXCEPT ![x.by] = r]
      BY <1>3 DEF PageTold
  <2>2. r = [p EXCEPT !.waiting = FALSE, !.done = phase = "stored"]
      BY DEF Form!Told
  <2>3. Form!IsPage(p)
      BY <1>1
  <2>4. /\ r.form = p.form /\ r.answers = p.answers /\ r.seen = p.seen /\ r.sends = p.sends
        /\ r.waiting = FALSE /\ r.done = (phase = "stored")
      BY <2>2, <2>3 DEF Form!IsPage
  <2>5. Form!IsPage(r)
      BY <2>2, <2>3 DEF Form!IsPage, Form!Filled
  <2>6. PageFits(p) => PageFits(r)
      BY <2>4 DEF PageFits
  <2>7. missed' \in [Clients -> Nat] /\ \A c \in Clients : c # x.by => missed'[c] = missed[c]
      BY <1>1, <1>3 DEF PageTold
  <2>8. /\ DOMAIN page' = Clients /\ page'[x.by] = r
        /\ \A c \in Clients : c # x.by => page'[c] = page[c]
      BY <1>1, <2>1
  <2>q. QED
      BY <1>1, <2>4, <2>5, <2>6, <2>7, <2>8
<1>q. QED
    BY <1>2, <1>3

LEMMA CallsAfter ==
    ASSUME FormInv, NEW x, NEW Y, NEW S, NEW phase, Moves(x, Y, S), PageUntold(x, Y) \/ PageTold(x, Y, phase)
    PROVE  OneHeard' /\ Numbered' /\ Form!TypeOK'
<1>1. x \in calls /\ x.by \in Clients /\ Form!TypeOK
    BY DEF FormInv, Form!TypeOK, Form!IsCall, Moves
<1>2. \A y \in Y : y.by = x.by /\ y.nth = x.nth /\ (y.heard => x.heard) /\ Form!IsCall(y)
    BY DEF Moves, Follows
<1>3. \A u \in calls : u.by \in Clients
    BY <1>1 DEF Form!TypeOK, Form!IsCall
<1>4. \A u \in calls' : (u \in calls /\ u # x) \/ u \in Y
    BY DEF Moves
<1>5. OneHeard'
  <2> SUFFICES ASSUME NEW u \in calls', NEW v \in calls', u.by = v.by, u.heard, v.heard
               PROVE  u = v
      BY DEF OneHeard
  <2>1. CASE u \in Y /\ v \in Y
      BY <2>1 DEF Moves
  <2>2. CASE u \notin Y \/ v \notin Y
      BY <1>1, <1>2, <1>4, <2>2 DEF FormInv, OneHeard
  <2>q. QED
      BY <2>1, <2>2
<1>6. Numbered'
  <2>1. \A c \in Clients : page'[c].sends = page[c].sends
      BY <1>1, PagesAfter
  <2>2. \A u \in calls' : u.nth < page'[u.by].sends
      BY <1>1, <1>2, <1>3, <1>4, <2>1 DEF FormInv, Numbered
  <2>3. \A s \in S : s.by = x.by /\ s.nth = x.nth /\ x.phase = "accepted"
      BY DEF Moves, Leaves
  <2>4. \A s \in stored : s.by \in Clients
      BY <1>1 DEF Form!TypeOK, Form!IsSubmission
  <2>5. \A s \in stored' : s.nth < page'[s.by].sends
      BY <1>1, <2>1, <2>3, <2>4 DEF FormInv, Numbered, Moves
  <2>6. ASSUME NEW u \in calls', NEW v \in calls', u.by = v.by, u.nth = v.nth
        PROVE  u = v
    <3>1. CASE u \in Y /\ v \in Y
        BY <3>1 DEF Moves
    <3>2. CASE u \notin Y \/ v \notin Y
        BY <1>1, <1>2, <1>4, <2>6, <3>2 DEF FormInv, Numbered
    <3>q. QED
        BY <3>1, <3>2
  <2>7. ASSUME NEW s \in stored', NEW t \in stored', s.by = t.by, s.nth = t.nth
        PROVE  s = t
    <3>1. CASE s \in S /\ t \in S
        BY <3>1 DEF Moves
    <3>2. CASE s \in stored /\ t \in stored
        BY <2>7, <3>2 DEF FormInv, Numbered
    <3>3. \A r \in stored : \A z \in S : ~(r.by = z.by /\ r.nth = z.nth)
        BY <1>1, <2>3 DEF FormInv, Numbered
    <3>q. QED
        BY <2>7, <3>1, <3>2, <3>3 DEF Moves
  <2>8. ASSUME NEW s \in stored', NEW u \in calls', s.by = u.by, s.nth = u.nth
        PROVE  u.phase = "stored"
    <3>1. CASE s \in S
      <4>1. u \in Y
          BY <1>1, <1>4, <2>3, <2>8, <3>1 DEF FormInv, Numbered
      <4>q. QED
          BY <3>1, <4>1 DEF Moves
    <3>2. CASE s \in stored /\ u \in Y
      <4>1. x.phase = "stored"
          BY <1>1, <1>2, <2>8, <3>2 DEF FormInv, Numbered
      <4>q. QED
          BY <3>2, <4>1 DEF Moves, Follows
    <3>3. CASE s \in stored /\ u \in calls
        BY <2>8, <3>3 DEF FormInv, Numbered
    <3>q. QED
        BY <1>4, <3>1, <3>2, <3>3 DEF Moves
  <2>q. QED
      BY <2>2, <2>5, <2>6, <2>7, <2>8 DEF Numbered
<1>7. Form!TypeOK'
  <2>1. \A s \in stored' : Form!IsSubmission(s)
      BY <1>1 DEF Form!TypeOK, Moves, Leaves
  <2>2. \A u \in calls' : Form!IsCall(u)
      BY <1>1, <1>2, <1>4 DEF Form!TypeOK
  <2>3. ASSUME NEW c \in Clients PROVE page'[c].waiting <=> \E u \in calls' : u.by = c /\ u.heard
    <3>1. CASE c # x.by
      <4>1. page'[c] = page[c]
          BY <1>1, <3>1, PagesAfter
      <4>2. \A u : u.by = c => (u \in calls' <=> u \in calls)
          BY <1>2, <3>1 DEF Moves
      <4>q. QED
          BY <1>1, <4>1, <4>2 DEF Form!TypeOK
    <3>2. CASE c = x.by /\ PageTold(x, Y, phase)
      <4>1. ~page'[c].waiting
          BY <1>1, <3>2, PagesAfter
      <4>2. \A u \in calls' : u.by = c => ~u.heard
          BY <1>1, <1>4, <3>2 DEF PageTold, FormInv, OneHeard
      <4>q. QED
          BY <4>1, <4>2
    <3>3. CASE c = x.by /\ PageUntold(x, Y)
      <4>1. page'[c].waiting <=> \E u \in calls : u.by = c /\ u.heard
          BY <1>1, <3>3 DEF Form!TypeOK, PageUntold
      <4>2. (\E u \in calls : u.by = c /\ u.heard) <=> (\E u \in calls' : u.by = c /\ u.heard)
          BY <1>1, <1>2, <1>4, <3>3 DEF PageUntold, Moves
      <4>q. QED
          BY <4>1, <4>2
    <3>q. QED
        BY <3>1, <3>2, <3>3
  <2>4. DOMAIN page' = Clients /\ (\A c \in Clients : Form!IsPage(page'[c])) /\ missed' \in [Clients -> Nat]
      BY <1>1, PagesAfter
  <2>q. QED
      BY <1>1, <2>1, <2>2, <2>3, <2>4 DEF Form!TypeOK, Moves
<1>q. QED
    BY <1>5, <1>6, <1>7

LEMMA CountAfter ==
    ASSUME FormInv, Form!QuestionAssumption, NEW x, NEW Y, NEW S, NEW phase, Moves(x, Y, S),
           PageUntold(x, Y) \/ PageTold(x, Y, phase)
    PROVE  Counted'
<1> SUFFICES ASSUME NEW c \in Clients
             PROVE  (page'[c].waiting => ~page'[c].done) /\ Cardinality(Stray(c)') <= Allowed(c)'
    BY DEF Counted
<1>1. x \in calls /\ x.by \in Clients /\ x.nth \in 0 .. MaxSends - 1 /\ Form!TypeOK
    BY DEF FormInv, Form!TypeOK, Form!IsCall, Moves
<1>2. \A y \in Y : y.by = x.by /\ y.nth = x.nth /\ (y.heard => x.heard)
                   /\ (y.phase \in {"sent", "accepted"} => x.phase \in {"sent", "accepted"})
    BY DEF Moves, Follows
<1>3. \A u \in calls' : (u \in calls /\ u # x) \/ u \in Y
    BY DEF Moves
<1>4. \A s \in S : s.by = x.by /\ s.nth = x.nth /\ x.phase = "accepted"
    BY DEF Moves, Leaves
<1>5. missed[c] \in Nat /\ missed'[c] \in Nat /\ Cardinality(Stray(c)) <= Allowed(c) /\ (page[c].waiting => ~page[c].done)
    BY <1>1, PagesAfter DEF FormInv, Counted, Form!TypeOK
<1>6. \A n : Alive(c, n)' => Alive(c, n)
  <2> SUFFICES ASSUME NEW n, Alive(c, n)' PROVE Alive(c, n)
      OBVIOUS
  <2>1. CASE \E s \in stored' : s.by = c /\ s.nth = n
    <3>1. PICK s \in stored' : s.by = c /\ s.nth = n
        BY <2>1
    <3>2. CASE s \in stored
        BY <3>1, <3>2 DEF Alive
    <3>3. CASE s \in S
        BY <1>1, <1>4, <3>1, <3>3 DEF Alive
    <3>q. QED
        BY <3>1, <3>2, <3>3 DEF Moves
  <2>2. CASE \E u \in calls' : u.by = c /\ u.nth = n /\ u.phase \in {"sent", "accepted"}
      BY <1>1, <1>2, <1>3, <2>2 DEF Alive
  <2>q. QED
      BY <2>1, <2>2 DEF Alive
<1>7. \A n : n # x.nth \/ c # x.by => (HeardOf(c, n) => HeardOf(c, n)')
    BY <1>1 DEF HeardOf, Moves
<1>8. Stray(c)' \subseteq Stray(c) \cup (IF c = x.by THEN {x.nth} ELSE {})
    BY <1>6, <1>7 DEF Stray
<1>9. CASE c # x.by
  <2>1. page'[c] = page[c] /\ missed'[c] = missed[c]
      BY <1>1, <1>9, PagesAfter
  <2>q. QED
      BY <1>5, <1>8, <1>9, <2>1, CountStays
<1>10. CASE c = x.by /\ PageUntold(x, Y)
  <2>1. HeardOf(c, x.nth) => x.heard
      BY <1>1, <1>10 DEF HeardOf, FormInv, Numbered
  <2>2. HeardOf(c, x.nth) => HeardOf(c, x.nth)'
      BY <1>2, <1>10, <2>1 DEF HeardOf, PageUntold, Moves
  <2>3. Stray(c)' \subseteq Stray(c)
      BY <1>6, <1>7, <2>2 DEF Stray
  <2>q. QED
      BY <1>5, <1>10, <2>3, CountStays DEF PageUntold
<1>11. CASE c = x.by /\ PageTold(x, Y, phase)
  <2>1. ~page'[c].waiting /\ (page'[c].done <=> phase = "stored") /\ ~page[c].done
    <3>1. page[c].waiting
        BY <1>1, <1>11 DEF Form!TypeOK, PageTold
    <3>2. ~page'[c].waiting /\ (page'[c].done <=> phase = "stored")
        BY <1>1, <1>11, PagesAfter
    <3>q. QED
        BY <1>5, <3>1, <3>2
  <2>2. CASE missed' = [missed EXCEPT ![x.by] = @ + 1]
    <3>1. missed'[c] = missed[c] + 1
        BY <1>1, <1>11, <2>2 DEF Form!TypeOK
    <3>q. QED
        BY <1>5, <1>8, <1>11, <2>1, <3>1, CountStays
  <2>3. CASE missed' = missed /\ x.phase = "stored" /\ phase = x.phase
      BY <1>5, <1>8, <1>11, <2>1, <2>3, CountStays
  <2>4. CASE missed' = missed /\ Y = {} /\ x.phase \in {"refused", "failed"}
    <3>1. S = {}
        BY <1>4, <2>4
    <3>2. ~Alive(c, x.nth)'
      <4>1. \A s \in stored : ~(s.by = c /\ s.nth = x.nth)
          BY <1>1, <1>11, <2>4 DEF FormInv, Numbered
      <4>2. \A u \in calls' : ~(u.by = c /\ u.nth = x.nth)
          BY <1>1, <1>3, <1>11, <2>4 DEF FormInv, Numbered
      <4>q. QED
          BY <3>1, <4>1, <4>2 DEF Alive, Moves
    <3>3. Stray(c)' \subseteq Stray(c)
        BY <1>8, <3>2 DEF Stray
    <3>q. QED
        BY <1>5, <2>1, <2>4, <3>3, CountStays
  <2>q. QED
      BY <1>11, <2>2, <2>3, <2>4 DEF PageTold
<1>q. QED
    BY <1>9, <1>10, <1>11

LEMMA CallKeepsForm ==
    ASSUME FormInv, Form!QuestionAssumption, NEW x, NEW Y, NEW S, NEW phase, Moves(x, Y, S),
           PageUntold(x, Y) \/ PageTold(x, Y, phase)
    PROVE  FormInv'
<1>1. x \in calls /\ x.by \in Clients /\ Form!TypeOK
    BY DEF FormInv, Form!TypeOK, Form!IsCall, Moves
<1>2. \A u \in calls' : u \in calls \/ (u \in Y /\ Follows(x, u))
    BY DEF Moves
<1>3. \A u \in calls : u.by \in Clients
    BY <1>1 DEF Form!TypeOK, Form!IsCall
<1>4. \A c \in Clients : page'[c].seen = page[c].seen /\ (PageFits(page[c]) => PageFits(page'[c]))
    BY <1>1, PagesAfter
<1>5. Served'
    BY DEF FormInv, Served, Moves
<1>6. Fitting'
  <2>1. \A c \in Clients : PageFits(page'[c])
      BY <1>4 DEF FormInv, Fitting
  <2>2. ASSUME NEW u \in calls' PROVE CallFits(u)'
    <3>1. CallFits(u) /\ u.by \in Clients
        BY <1>1, <1>2, <1>3 DEF FormInv, Fitting, Follows
    <3>q. QED
        BY <1>4, <3>1 DEF CallFits, Moves
  <2>q. QED
      BY <2>1, <2>2 DEF Fitting
<1>7. Form!StoredFitsAVersion'
  <2> SUFFICES ASSUME NEW s \in stored' PROVE \E f \in versions : Storable(f, s.answers)
      BY DEF Form!StoredFitsAVersion, Storable, Moves
  <2>1. CASE s \in stored
      BY <2>1 DEF FormInv, Form!StoredFitsAVersion, Storable
  <2>2. CASE s \in S
      BY <2>2 DEF Moves, Leaves
  <2>q. QED
      BY <2>1, <2>2 DEF Moves
<1>8. Form!RefusedForACause'
  <2> SUFFICES ASSUME NEW u \in calls', u.phase = "refused"
               PROVE  \/ page'[u.by].seen # {u.checked}
                      \/ \E q \in DOMAIN u.answers : u.checked[q].type = "rating" /\ u.answers[q].rating = 0
      BY DEF Form!RefusedForACause
  <2>1. CASE u \in calls
      BY <1>3, <1>4, <2>1 DEF FormInv, Form!RefusedForACause
  <2>2. CASE u \in Y /\ Follows(x, u)
      BY <1>1, <1>4, <2>2 DEF Follows
  <2>q. QED
      BY <1>2, <2>1, <2>2
<1>q. QED
    BY <1>5, <1>6, <1>7, <1>8, CallsAfter, CountAfter DEF FormInv

\* What the service makes of a submission.
LEMMA ServesForm ==
    ASSUME FormInv, Form!QuestionAssumption, NEW x \in calls
    PROVE  /\ Form!Receive(x) => FormInv'
           /\ Form!Insert(x) => FormInv'
           /\ Form!InsertFails(x) => FormInv'
           /\ Form!Reply(x) => FormInv'
           /\ Form!Lose(x) => FormInv'
<1>1. /\ Form!TypeOK /\ Form!IsCall(x) /\ CallFits(x) /\ x.by \in Clients /\ budget \in Form!Instance
      /\ page[x.by].seen \subseteq Questionnaires
  <2>1. Form!TypeOK /\ Form!IsCall(x) /\ CallFits(x)
      BY DEF FormInv, Fitting, Form!TypeOK
  <2>2. x.by \in Clients
      BY <2>1 DEF Form!IsCall
  <2>3. Form!IsPage(page[x.by])
      BY <2>1, <2>2 DEF Form!TypeOK
  <2>q. QED
      BY <2>1, <2>2, <2>3 DEF Form!IsPage, Form!TypeOK
<1>2. \A b : Form!Spend(b) /\ b = "faults" => budget' \in Form!Instance
    BY <1>1 DEF Form!Spend, Form!Instance
<1>3. ASSUME Form!Receive(x) PROVE FormInv'
  <2> DEFINE f == form.questions
  <2>0. x.phase = "sent" /\ UNCHANGED <<form, copy, versions, stored, page, budget, missed>>
      BY <1>3 DEF Form!Receive, Form!owner
  <2>1. CASE Form!Published /\ Form!Valid(f, x.answers)
    <3> DEFINE y == [x EXCEPT !.phase = "accepted", !.checked = f, !.answers = Form!Kept(f, @)]
    <3>1. calls' = (calls \ {x}) \cup {y}
        BY <1>3, <2>1 DEF Form!Receive, Form!Becomes
    <3>2. f \in Questionnaires /\ f \in versions
        BY <1>1, <2>1 DEF FormInv, Served, Form!Published, Form!TypeOK
    <3>3. Form!Filled(Form!Kept(f, x.answers)) /\ Storable(f, Form!Kept(f, x.answers))
        BY <1>1, <2>1, <3>2, KeptIsStorable DEF Form!IsCall
    <3>4. /\ Form!IsCall(y) /\ y.by = x.by /\ y.nth = x.nth /\ y.heard = x.heard
          /\ y.phase = "accepted" /\ y.checked = f /\ y.answers = Form!Kept(f, x.answers)
        BY <1>1, <3>2, <3>3 DEF Form!IsCall
    <3>5. Follows(x, y)
        BY <1>1, <2>0, <3>2, <3>3, <3>4 DEF Follows, CallFits
    <3>6. Moves(x, {y}, {}) /\ PageUntold(x, {y})
        BY <1>1, <2>0, <3>1, <3>4, <3>5 DEF Moves, PageUntold
    <3>q. QED
        BY <3>6, CallKeepsForm
  <2>2. CASE ~(Form!Published /\ Form!Valid(f, x.answers))
    <3> DEFINE y == [x EXCEPT !.phase = "refused", !.checked = IF Form!Published THEN f ELSE None]
    <3>1. calls' = (calls \ {x}) \cup {y}
        BY <1>3, <2>2 DEF Form!Receive, Form!Becomes
    <3>2. Form!Published => f \in Questionnaires
        BY <1>1 DEF Form!Published, Form!TypeOK
    <3>3. /\ Form!IsCall(y) /\ y.by = x.by /\ y.nth = x.nth /\ y.heard = x.heard
          /\ y.phase = "refused" /\ y.answers = x.answers
          /\ y.checked = IF Form!Published THEN f ELSE None
        BY <1>1, <3>2 DEF Form!IsCall
    <3>4. \/ page[x.by].seen # {y.checked}
          \/ \E q \in DOMAIN y.answers : y.checked[q].type = "rating" /\ y.answers[q].rating = 0
      <4>1. CASE Form!Published /\ page[x.by].seen = {f}
        <5>1. f \in Questionnaires /\ ~Form!Valid(f, x.answers) /\ Sendable(f, x.answers)
            BY <1>1, <2>0, <2>2, <3>2, <4>1 DEF CallFits
        <5>q. QED
            BY <3>3, <4>1, <5>1, SendableIsValid
      <4>2. CASE ~Form!Published
        <5>1. None \notin Questionnaires
            BY ValuesAre
        <5>q. QED
            BY <1>1, <3>3, <4>2, <5>1
      <4>q. QED
          BY <3>3, <4>1, <4>2
    <3>5. Follows(x, y)
        BY <1>1, <2>0, <3>3, <3>4 DEF Follows, CallFits
    <3>6. Moves(x, {y}, {}) /\ PageUntold(x, {y})
        BY <1>1, <2>0, <3>1, <3>3, <3>5 DEF Moves, PageUntold
    <3>q. QED
        BY <3>6, CallKeepsForm
  <2>q. QED
      BY <2>1, <2>2
<1>4. ASSUME NEW ph \in {"stored", "failed"}, NEW S, x.phase = "accepted",
             calls' = (calls \ {x}) \cup {[x EXCEPT !.phase = ph]}, stored' = stored \cup S,
             UNCHANGED <<form, copy, versions, page, missed>>, budget' \in Form!Instance,
             \/ S = {}
             \/ ph = "stored" /\ S = {[by |-> x.by, nth |-> x.nth, answers |-> x.answers]}
      PROVE  FormInv'
  <2> DEFINE y == [x EXCEPT !.phase = ph]
             s == [by |-> x.by, nth |-> x.nth, answers |-> x.answers]
  <2>1. /\ Form!IsCall(y) /\ y.by = x.by /\ y.nth = x.nth /\ y.heard = x.heard /\ y.phase = ph
      BY <1>1 DEF Form!IsCall
  <2>2. Follows(x, y)
      BY <1>1, <1>4, <2>1 DEF Follows, CallFits
  <2>3. Leaves(x, s)
    <3>1. Form!IsSubmission(s)
        BY <1>1 DEF Form!IsSubmission, Form!IsCall
    <3>2. x.checked \in versions /\ Storable(x.checked, x.answers)
        BY <1>1, <1>4 DEF CallFits
    <3>q. QED
        BY <1>4, <3>1, <3>2 DEF Leaves
  <2>4. Moves(x, {y}, S) /\ PageUntold(x, {y})
    <3>1. calls' = (calls \ {x}) \cup {y}
        BY <1>4
    <3>2. S = {} \/ (ph = "stored" /\ S = {s})
        BY <1>4
    <3> HIDE DEF y, s
    <3>q. QED
        BY <1>4, <2>1, <2>2, <2>3, <3>1, <3>2 DEF Moves, PageUntold
  <2>q. QED
      BY <2>4, CallKeepsForm
<1>5. ASSUME Form!Insert(x) PROVE FormInv'
  <2>0. x.phase = "accepted" /\ UNCHANGED <<form, copy, versions, page, budget, missed>> /\ budget' \in Form!Instance
      BY <1>1, <1>5 DEF Form!Insert, Form!owner
  <2>1. CASE form # None
    <3>1. /\ stored' = stored \cup {[by |-> x.by, nth |-> x.nth, answers |-> x.answers]}
          /\ calls' = (calls \ {x}) \cup {[x EXCEPT !.phase = "stored"]}
        BY <1>5, <2>1 DEF Form!Insert, Form!Becomes
    <3>q. QED
        BY <1>4, <2>0, <3>1
  <2>2. CASE form = None
    <3>1. stored' = stored \cup {} /\ calls' = (calls \ {x}) \cup {[x EXCEPT !.phase = "failed"]}
        BY <1>5, <2>2 DEF Form!Insert, Form!Becomes
    <3>q. QED
        BY <1>4, <2>0, <3>1
  <2>q. QED
      BY <2>1, <2>2
<1>6. ASSUME Form!InsertFails(x) PROVE FormInv'
  <2>1. /\ x.phase = "accepted" /\ UNCHANGED <<form, copy, versions, page, missed>> /\ budget' \in Form!Instance
        /\ stored' = stored \cup {} /\ calls' = (calls \ {x}) \cup {[x EXCEPT !.phase = "failed"]}
      BY <1>2, <1>6 DEF Form!InsertFails, Form!owner, Form!Becomes, Form!Fault
  <2>q. QED
      BY <1>4, <2>1
<1>7. ASSUME Form!Reply(x) PROVE FormInv'
  <2>1. /\ x.phase \in {"stored", "refused", "failed"} /\ calls' = (calls \ {x}) \cup {} /\ stored' = stored \cup {}
        /\ UNCHANGED <<form, copy, versions, budget, missed>>
        /\ page' = IF x.heard THEN [page EXCEPT ![x.by] = Form!Told(@, x.phase)] ELSE page
      BY <1>7 DEF Form!Reply, Form!owner
  <2>2. Moves(x, {}, {}) /\ (PageUntold(x, {}) \/ PageTold(x, {}, x.phase))
      BY <1>1, <2>1 DEF Moves, PageUntold, PageTold
  <2>q. QED
      BY <2>2, CallKeepsForm
<1>8. ASSUME Form!Lose(x) PROVE FormInv'
  <2>1. /\ x.heard /\ stored' = stored \cup {} /\ UNCHANGED <<form, copy, versions>> /\ budget' \in Form!Instance
        /\ page' = [page EXCEPT ![x.by] = Form!Told(@, "lost")]
        /\ missed' = [missed EXCEPT ![x.by] = @ + 1]
      BY <1>2, <1>8 DEF Form!Lose, Form!owner, Form!Fault
  <2>2. CASE calls' = calls \ {x}
    <3>1. Moves(x, {}, {}) /\ PageTold(x, {}, "lost")
        BY <2>1, <2>2 DEF Moves, PageTold
    <3>q. QED
        BY <3>1, CallKeepsForm
  <2>3. CASE calls' = (calls \ {x}) \cup {[x EXCEPT !.heard = FALSE]}
    <3> DEFINE y == [x EXCEPT !.heard = FALSE]
    <3>1. /\ Form!IsCall(y) /\ y.by = x.by /\ y.nth = x.nth /\ y.heard = FALSE /\ y.phase = x.phase
          /\ y.answers = x.answers /\ y.checked = x.checked
        BY <1>1 DEF Form!IsCall
    <3>2. Follows(x, y)
        BY <1>1, <3>1 DEF Follows, CallFits, FormInv, Form!RefusedForACause
    <3>3. Moves(x, {y}, {}) /\ PageTold(x, {y}, "lost")
      <4> HIDE DEF y
      <4>1. calls' = (calls \ {x}) \cup {y}
          BY <2>3 DEF y
      <4>q. QED
          BY <2>1, <3>1, <3>2, <4>1 DEF Moves, PageTold
    <3>q. QED
        BY <3>3, CallKeepsForm
  <2>q. QED
      BY <1>8, <2>2, <2>3 DEF Form!Lose, Form!Becomes
<1>q. QED
    BY <1>3, <1>5, <1>6, <1>7, <1>8

\* The page loads the form, and has one version more in view.
LEMMA LoadedFits ==
    ASSUME Form!QuestionAssumption, Form!TypeOK, NEW p, Form!IsPage(p), PageFits(p)
    PROVE  LET r == Form!Loaded(p) IN
           /\ Form!IsPage(r) /\ PageFits(r) /\ p.seen \subseteq r.seen
           /\ r.sends = p.sends /\ r.waiting = p.waiting /\ r.done = p.done
<1> DEFINE r == Form!Loaded(p)
<1>1. CASE Form!Published
  <2> DEFINE f == form.questions
  <2>1. f \in Questionnaires /\ f # None
      BY <1>1, ValuesAre DEF Form!TypeOK, Form!Published
  <2>2. /\ r.form = f /\ r.answers = p.answers /\ r.seen = p.seen \cup {f}
        /\ r.sends = p.sends /\ r.waiting = p.waiting /\ r.done = p.done
      BY <1>1 DEF Form!Loaded, Form!IsPage
  <2>3. Form!IsPage(r)
      BY <1>1, <2>1 DEF Form!Loaded, Form!IsPage, Form!Filled
  <2>4. ASSUME NEW g \in Questionnaires, r.seen = {g}, NEW q \in DOMAIN r.answers
        PROVE  q \in DOMAIN g /\ r.answers[q] \in Entered(g[q])
    <3>1. p.seen = {} \/ p.seen = {g}
        BY <2>2, <2>4
    <3>2. p.seen # {}
        BY <2>2, <2>4 DEF PageFits
    <3>q. QED
        BY <2>2, <2>4, <3>1, <3>2 DEF PageFits
  <2>q. QED
      BY <2>1, <2>2, <2>3, <2>4 DEF PageFits
<1>2. CASE ~Form!Published
  <2>1. r = [p EXCEPT !.failed = TRUE]
      BY <1>2 DEF Form!Loaded
  <2>2. /\ r.form = p.form /\ r.answers = p.answers /\ r.seen = p.seen
        /\ r.sends = p.sends /\ r.waiting = p.waiting /\ r.done = p.done
      BY <2>1 DEF Form!IsPage
  <2>3. Form!IsPage(r)
      BY <2>1 DEF Form!IsPage, Form!Filled
  <2>q. QED
      BY <2>2, <2>3 DEF PageFits
<1>q. QED
    BY <1>1, <1>2

LEMMA SubmitKeepsForm ==
    ASSUME FormInv, Form!QuestionAssumption, NEW c \in Clients, Form!HandleSubmit(c)
    PROVE  FormInv'
<1>0. SUFFICES ASSUME NEW p, p = page[c],
                      NEW x, x = [by |-> c, nth |-> p.sends, phase |-> "sent", heard |-> TRUE,
                                  answers |-> Form!Payload(p), checked |-> None],
                      NEW r, r = [p EXCEPT !.sends = @ + 1, !.waiting = TRUE]
               PROVE  FormInv'
    OBVIOUS
<1>1. /\ Form!TypeOK /\ Form!IsPage(p) /\ PageFits(p) /\ budget \in Form!Instance /\ MaxSends \in Nat
      /\ DOMAIN page = Clients
    BY <1>0, ValuesAre DEF FormInv, Fitting, Form!TypeOK
<1>2. /\ p.form \in Questionnaires /\ ~p.done /\ ~p.waiting /\ p.sends < budget.sends /\ Form!Complete(p)
      /\ calls' = calls \cup {x} /\ UNCHANGED <<form, copy, versions, stored, budget, missed>>
  <2>1. p.form # None
      BY <1>0 DEF Form!HandleSubmit, Form!Ready, Form!Fillable
  <2>q. QED
      BY <1>0, <1>1, <2>1 DEF Form!HandleSubmit, Form!Ready, Form!Fillable, Form!owner, Form!IsPage
<1>3. p.sends \in 0 .. MaxSends - 1 /\ p.sends + 1 \in 0 .. MaxSends
    BY <1>1, <1>2 DEF Form!IsPage, Form!Instance
<1>4. page' = [page EXCEPT ![c] = r]
    BY <1>0 DEF Form!HandleSubmit
<1>5. /\ Form!IsPage(r) /\ r.form = p.form /\ r.answers = p.answers /\ r.seen = p.seen
      /\ r.sends = p.sends + 1 /\ r.waiting = TRUE /\ r.done = p.done
    BY <1>0, <1>1, <1>3 DEF Form!IsPage, Form!Filled
<1>6. DOMAIN page' = Clients /\ page'[c] = r /\ \A d \in Clients : d # c => page'[d] = page[d]
    BY <1>1, <1>4
<1>7. /\ x.by = c /\ x.nth = p.sends /\ x.heard /\ x.phase = "sent" /\ x.answers = Form!Payload(p)
      /\ Form!IsCall(x)
  <2>1. Form!Filled(Form!Payload(p))
      BY <1>1, <1>2, PayloadFits
  <2>q. QED
      BY <1>0, <1>3, <2>1 DEF Form!IsCall
<1>8. \A u \in calls : u.by \in Clients /\ Form!IsCall(u) /\ (u.by = c => ~u.heard /\ u.nth < p.sends /\ u.nth \in Int)
    BY <1>0, <1>1, <1>2 DEF Form!TypeOK, Form!IsCall, FormInv, Numbered
<1>9. \A s \in stored : s.by \in Clients /\ (s.by = c => s.nth < p.sends /\ s.nth \in Int)
    BY <1>0, <1>1 DEF Form!TypeOK, Form!IsSubmission, FormInv, Numbered
<1>10. p = page[c]
    BY <1>0
<1>11. p.seen # {} /\ \A f \in Questionnaires : p.seen = {f} => Sendable(f, x.answers)
  <2>1. p.form # None
      BY <1>2, ValuesAre
  <2>q. QED
      BY <1>1, <1>2, <1>7, <2>1, PayloadFits DEF PageFits
<1>12. Form!TypeOK'
  <2>1. \A u \in calls' : Form!IsCall(u)
      BY <1>2, <1>7, <1>8
  <2>2. \A d \in Clients : Form!IsPage(page'[d])
      BY <1>1, <1>5, <1>6 DEF Form!TypeOK
  <2>3. ASSUME NEW d \in Clients PROVE page'[d].waiting <=> \E u \in calls' : u.by = d /\ u.heard
    <3>1. CASE d = c
        BY <1>2, <1>5, <1>6, <1>7, <3>1
    <3>2. CASE d # c
        BY <1>1, <1>2, <1>6, <1>7, <3>2 DEF Form!TypeOK
    <3>q. QED
        BY <3>1, <3>2
  <2>q. QED
      BY <1>1, <1>2, <1>6, <2>1, <2>2, <2>3 DEF Form!TypeOK
<1>13. OneHeard'
    BY <1>2, <1>7, <1>8 DEF FormInv, OneHeard
<1>14. Numbered'
  <2>1. \A d \in Clients : page[d].sends \in Int /\ page'[d].sends \in Int /\ page[d].sends <= page'[d].sends
      BY <1>1, <1>3, <1>5, <1>6, <1>10 DEF Form!TypeOK, Form!IsPage
  <2>2. \A u \in calls' : u.nth < page'[u.by].sends
    <3>1. \A u \in calls : u.nth < page[u.by].sends /\ u.nth \in Int
        BY <1>8 DEF FormInv, Numbered, Form!IsCall
    <3>2. x.nth < page'[x.by].sends
        BY <1>3, <1>5, <1>6, <1>7
    <3>3. ASSUME NEW u \in calls PROVE u.nth < page'[u.by].sends
      <4>1. page[u.by].sends \in Int /\ page[u.by].sends <= page'[u.by].sends /\ page'[u.by].sends \in Int
          BY <1>8, <2>1
      <4>q. QED
          BY <3>1, <4>1
    <3>q. QED
        BY <1>2, <3>2, <3>3
  <2>3. \A s \in stored' : s.nth < page'[s.by].sends
    <3>1. \A s \in stored : s.nth < page[s.by].sends /\ s.nth \in Int
        BY <1>1 DEF FormInv, Numbered, Form!TypeOK, Form!IsSubmission
    <3>2. ASSUME NEW s \in stored PROVE s.nth < page'[s.by].sends
      <4>1. page[s.by].sends \in Int /\ page[s.by].sends <= page'[s.by].sends /\ page'[s.by].sends \in Int
          BY <1>9, <2>1
      <4>q. QED
          BY <3>1, <4>1
    <3>q. QED
        BY <1>2, <3>2
  <2>4. \A u \in calls : u.by = c => u.nth # x.nth
      BY <1>3, <1>7, <1>8
  <2>5. \A s \in stored : s.by = c => s.nth # x.nth
      BY <1>3, <1>7, <1>9
  <2>q. QED
      BY <1>2, <1>7, <2>2, <2>3, <2>4, <2>5 DEF FormInv, Numbered
<1>15. Counted'
  <2> SUFFICES ASSUME NEW d \in Clients
               PROVE  (page'[d].waiting => ~page'[d].done) /\ Cardinality(Stray(d)') <= Allowed(d)'
      BY DEF Counted
  <2>1. (page'[d].waiting => ~page'[d].done) /\ page'[d].done = page[d].done
      BY <1>2, <1>5, <1>6, <1>10 DEF FormInv, Counted
  <2>2. Stray(d)' \subseteq Stray(d)
    <3>1. \A n : HeardOf(d, n) => HeardOf(d, n)'
        BY <1>2 DEF HeardOf
    <3>2. \A n : Alive(d, n)' => Alive(d, n) \/ HeardOf(d, n)'
        BY <1>2, <1>7 DEF Alive, HeardOf
    <3>q. QED
        BY <3>1, <3>2 DEF Stray
  <2>3. missed[d] \in Nat /\ Cardinality(Stray(d)) <= Allowed(d)
      BY DEF FormInv, Counted, Form!TypeOK
  <2>q. QED
      BY <1>2, <2>1, <2>2, <2>3, CountStays
<1>16. Fitting'
  <2>1. \A d \in Clients : page'[d].seen = page[d].seen /\ PageFits(page'[d])
    <3>1. PageFits(r)
        BY <1>1, <1>5 DEF PageFits
    <3>q. QED
        BY <1>5, <1>6, <1>10, <3>1 DEF FormInv, Fitting
  <2>2. ASSUME NEW u \in calls PROVE CallFits(u)'
    <3>1. CallFits(u) /\ page'[u.by].seen = page[u.by].seen /\ versions' = versions
        BY <1>2, <1>8, <2>1 DEF FormInv, Fitting
    <3>q. QED
        BY <3>1 DEF CallFits
  <2>3. CallFits(x)'
      BY <1>7, <1>10, <1>11, <2>1 DEF CallFits
  <2>q. QED
      BY <1>2, <2>1, <2>2, <2>3 DEF Fitting
<1>17. Form!StoredFitsAVersion' /\ Served'
    BY <1>2 DEF FormInv, Form!StoredFitsAVersion, Served
<1>18. Form!RefusedForACause'
  <2>1. \A d \in Clients : page'[d].seen = page[d].seen
      BY <1>5, <1>6, <1>10
  <2>q. QED
      BY <1>2, <1>7, <1>8, <2>1 DEF FormInv, Form!RefusedForACause
<1>q. QED
    BY <1>12, <1>13, <1>14, <1>15, <1>16, <1>17, <1>18 DEF FormInv

LEMMA FormInit ==
    ASSUME Form!QuestionAssumption, Form!BoundsAssumption, Form!Init
    PROVE  FormInv
<1>1. budget \in Form!Instance
    BY DEF Form!Init, Form!BoundsAssumption
<1>2. PICK f \in budget.lists : form = [questions |-> f, published |-> TRUE] /\ versions = {f}
    BY DEF Form!Init
<1>3. f \in Questionnaires /\ MaxSends \in Nat
    BY <1>1, <1>2, ValuesAre DEF Form!Instance
<1>4. copy = None /\ stored = {} /\ calls = {} /\ page = [c \in Clients |-> Form!NoPage] /\ missed = [c \in Clients |-> 0]
    BY DEF Form!Init
<1>5. Form!IsPage(Form!NoPage)
    BY <1>3 DEF Form!NoPage, Form!IsPage, Form!Filled
<1>6. Form!TypeOK
  <2>1. \A c \in Clients : ~page[c].waiting
      BY <1>4 DEF Form!NoPage
  <2>q. QED
      BY <1>1, <1>2, <1>3, <1>4, <1>5, <2>1 DEF Form!TypeOK
<1>7. Served /\ OneHeard /\ Numbered
    BY <1>2, <1>4 DEF Served, OneHeard, Numbered
<1>8. Counted
  <2> SUFFICES ASSUME NEW c \in Clients
               PROVE  (page[c].waiting => ~page[c].done) /\ Cardinality(Stray(c)) <= Allowed(c)
      BY DEF Counted
  <2>1. Stray(c) = {}
      BY <1>4 DEF Stray, Alive
  <2>q. QED
      BY <1>4, <2>1, FS_EmptySet DEF Allowed, Form!NoPage
<1>9. Fitting
    BY <1>4 DEF Fitting, PageFits, Form!NoPage
<1>10. Form!StoredFitsAVersion /\ Form!RefusedForACause
    BY <1>4 DEF Form!StoredFitsAVersion, Form!RefusedForACause
<1>q. QED
    BY <1>6, <1>7, <1>8, <1>9, <1>10 DEF FormInv

LEMMA FormNext ==
    ASSUME Form!QuestionAssumption, FormInv, [Form!Next]_(Form!vars)
    PROVE  FormInv'
<1>1. CASE UNCHANGED Form!vars
  <2>1. UNCHANGED <<form, copy, stored, page, calls, budget, versions, missed>>
      BY <1>1 DEF Form!vars
  <2>2. form = None \/ form \in [questions : Questionnaires, published : BOOLEAN]
      BY DEF FormInv, Form!TypeOK
  <2>3. copy \in Questionnaires \cup {None} /\ versions \subseteq Questionnaires /\ budget \in Form!Instance /\ Served
      BY DEF FormInv, Form!TypeOK
  <2>4. Served'
      BY <2>1, <2>3 DEF Served
  <2>q. QED
      BY <2>1, <2>2, <2>3, <2>4, OwnerKeepsForm
<1>2. /\ Form!TypeOK /\ Served /\ budget \in Form!Instance
      /\ form = None \/ form \in [questions : Questionnaires, published : BOOLEAN]
      /\ copy \in Questionnaires \cup {None} /\ versions \subseteq Questionnaires
    BY DEF FormInv, Form!TypeOK
<1>3. \A b \in {"saves", "faults"} : Form!Spend(b) => budget' \in Form!Instance
    BY <1>2 DEF Form!Spend, Form!Instance
<1>4. ASSUME NEW f \in budget.lists, Form!Save(f) PROVE FormInv'
  <2>1. /\ form' = [questions |-> f, published |-> FALSE] /\ UNCHANGED <<copy, stored, page, calls, versions, missed>>
        /\ budget' \in Form!Instance
      BY <1>3, <1>4 DEF Form!Save
  <2>2. f \in Questionnaires
      BY <1>2 DEF Form!Instance
  <2>3. Served'
      BY <2>1 DEF Served
  <2>q. QED
      BY <1>2, <2>1, <2>2, <2>3, OwnerKeepsForm
<1>5. ASSUME Form!PublishReads PROVE FormInv'
  <2>1. /\ UNCHANGED <<form, versions, stored, page, calls, budget, missed>>
        /\ copy' = form.questions /\ form # None
      BY <1>5 DEF Form!PublishReads
  <2>2. copy' \in Questionnaires
      BY <1>2, <2>1
  <2>3. Served'
      BY <1>2, <2>1 DEF Served
  <2>q. QED
      BY <1>2, <2>1, <2>2, <2>3, OwnerKeepsForm
<1>6. ASSUME Form!PublishWrites PROVE FormInv'
  <2>1. /\ UNCHANGED <<stored, page, calls, budget, missed>> /\ copy # None /\ copy' = None
        /\ form' = [questions |-> copy, published |-> TRUE] /\ versions' = versions \cup {copy}
      BY <1>6 DEF Form!PublishWrites
  <2>2. Served'
      BY <2>1 DEF Served
  <2>q. QED
      BY <1>2, <2>1, <2>2, OwnerKeepsForm
<1>7. ASSUME Form!Delete PROVE FormInv'
  <2>1. /\ form' = None /\ stored' = {} /\ UNCHANGED <<copy, page, calls, versions, missed>>
        /\ budget' \in Form!Instance
      BY <1>3, <1>7 DEF Form!Delete
  <2>2. Served'
      BY <2>1 DEF Served
  <2>q. QED
      BY <1>2, <2>1, <2>2, OwnerKeepsForm
<1>8. ASSUME NEW c \in Clients, Form!Visit(c) PROVE FormInv'
  <2>1. Form!IsPage(page[c]) /\ PageFits(page[c]) /\ DOMAIN page = Clients
      BY DEF FormInv, Fitting, Form!TypeOK
  <2>2. CASE Form!Open(c) \/ Form!Reconnect(c)
    <3>1. /\ page' = [page EXCEPT ![c] = Form!Loaded(page[c])]
          /\ UNCHANGED <<form, copy, versions, stored, calls, missed>> /\ budget' \in Form!Instance
        BY <1>2, <1>3, <2>2 DEF Form!Open, Form!Reconnect, Form!owner, Form!Fault
    <3>q. QED
        BY <1>2, <2>1, <3>1, LoadedFits, PageKeepsForm
  <2>3. CASE Form!LoadFails(c)
    <3>0. SUFFICES ASSUME NEW r, r = [page[c] EXCEPT !.failed = TRUE] PROVE FormInv'
        OBVIOUS
    <3>1. /\ page' = [page EXCEPT ![c] = r]
          /\ UNCHANGED <<form, copy, versions, stored, calls, missed>> /\ budget' \in Form!Instance
        BY <1>3, <2>3, <3>0 DEF Form!LoadFails, Form!owner, Form!Fault
    <3>2. /\ r.form = page[c].form /\ r.answers = page[c].answers /\ r.seen = page[c].seen
          /\ r.sends = page[c].sends /\ r.waiting = page[c].waiting /\ r.done = page[c].done
        BY <2>1, <3>0 DEF Form!IsPage
    <3>3. Form!IsPage(r)
        BY <2>1, <3>0 DEF Form!IsPage, Form!Filled
    <3>4. PageFits(r)
        BY <2>1, <3>2 DEF PageFits
    <3>q. QED
        BY <3>1, <3>2, <3>3, <3>4, PageKeepsForm
  <2>4. CASE Form!Identify(c)
    <3>0. SUFFICES ASSUME NEW r, r = [page[c] EXCEPT !.named = TRUE] PROVE FormInv'
        OBVIOUS
    <3>1. /\ page' = [page EXCEPT ![c] = r]
          /\ UNCHANGED <<form, copy, versions, stored, calls, missed>> /\ budget' \in Form!Instance
        BY <1>2, <2>4, <3>0 DEF Form!Identify, Form!owner
    <3>2. /\ r.form = page[c].form /\ r.answers = page[c].answers /\ r.seen = page[c].seen
          /\ r.sends = page[c].sends /\ r.waiting = page[c].waiting /\ r.done = page[c].done
        BY <2>1, <3>0 DEF Form!IsPage
    <3>3. Form!IsPage(r)
        BY <2>1, <3>0 DEF Form!IsPage, Form!Filled
    <3>4. PageFits(r)
        BY <2>1, <3>2 DEF PageFits
    <3>q. QED
        BY <3>1, <3>2, <3>3, <3>4, PageKeepsForm
  <2>5. CASE Form!SetAnswer(c)
    <3> DEFINE p == page[c]
    <3>1. /\ p.form \in Questionnaires /\ UNCHANGED <<form, copy, versions, stored, calls, missed>>
          /\ budget' \in Form!Instance
      <4>1. p.form # None
          BY <2>5 DEF Form!SetAnswer, Form!Fillable
      <4>q. QED
          BY <1>2, <2>1, <2>5, <4>1 DEF Form!SetAnswer, Form!owner, Form!IsPage
    <3>2. PICK q \in DOMAIN p.form : \E a \in Form!Inputs(p.form[q], Form!Given(p, q)) :
              page' = [page EXCEPT ![c].answers = [x \in DOMAIN @ \cup {q} |-> IF x = q THEN a ELSE @[x]]]
        BY <2>5 DEF Form!SetAnswer
    <3>3. PICK a \in Form!Inputs(p.form[q], Form!Given(p, q)) :
              page' = [page EXCEPT ![c].answers = [x \in DOMAIN @ \cup {q} |-> IF x = q THEN a ELSE @[x]]]
        BY <3>2
    <3>4. SUFFICES ASSUME NEW as, as = [x \in DOMAIN p.answers \cup {q} |-> IF x = q THEN a ELSE p.answers[x]],
                          NEW r, r = [p EXCEPT !.answers = as]
                   PROVE  FormInv'
        OBVIOUS
    <3>5. page' = [page EXCEPT ![c] = r]
        BY <2>1, <3>3, <3>4
    <3>6. /\ Form!Filled(as)
          /\ \A f \in Questionnaires : p.seen = {f} => \A x \in DOMAIN as : x \in DOMAIN f /\ as[x] \in Entered(f[x])
      <4>1. a \in Form!Answer /\ \A f \in Questionnaires : p.seen = {f} => p.form = f /\ a \in Entered(f[q])
          BY <2>1, <3>1, SetAnswerFits
      <4>2. Form!Filled(as)
          BY <2>1, <3>4, <4>1 DEF Form!Filled, Form!IsPage
      <4>q. QED
          BY <2>1, <3>4, <4>1, <4>2 DEF PageFits
    <3>7. /\ r.form = p.form /\ r.answers = as /\ r.seen = p.seen
          /\ r.sends = p.sends /\ r.waiting = p.waiting /\ r.done = p.done
        BY <2>1, <3>4 DEF Form!IsPage
    <3>8. Form!IsPage(r)
        BY <2>1, <3>4, <3>6 DEF Form!IsPage, Form!Filled
    <3>9. PageFits(r)
      <4>1. p.form # None /\ p.form \in p.seen
          BY <2>1, <3>1, ValuesAre DEF PageFits
      <4>q. QED
          BY <3>6, <3>7, <4>1 DEF PageFits
    <3>q. QED
        BY <3>1, <3>5, <3>7, <3>8, <3>9, PageKeepsForm
  <2>6. CASE Form!HandleSubmit(c)
      BY <2>6, SubmitKeepsForm
  <2>q. QED
      BY <1>8, <2>2, <2>3, <2>4, <2>5, <2>6 DEF Form!Visit
<1>9. ASSUME NEW x \in calls, Form!Serve(x) \/ Form!InsertFails(x) \/ Form!Lose(x) PROVE FormInv'
    BY <1>9, ServesForm DEF Form!Serve
<1>q. QED
    BY <1>1, <1>4, <1>5, <1>6, <1>7, <1>8, <1>9 DEF Form!Next, Form!Edit

\* A page's stored submissions are told apart by their numbers.
LEMMA StoredOnce == ASSUME FormInv, Form!QuestionAssumption PROVE Form!OncePerPage
<1> SUFFICES ASSUME NEW c \in Clients
             PROVE  Form!Cardinality({s \in stored : s.by = c}) <= 1 + missed[c]
    BY DEF Form!OncePerPage
<1> DEFINE T == {s \in stored : s.by = c}
           H == {n \in 0 .. MaxSends - 1 : Alive(c, n)}
           nth == [s \in T |-> s.nth]
<1>1. /\ missed[c] \in Nat /\ (page[c].waiting => ~page[c].done) /\ Cardinality(Stray(c)) <= Allowed(c)
      /\ Form!TypeOK
    BY DEF FormInv, Form!TypeOK, Counted
<1>2. nth \in Injection(T, H)
  <2>1. \A s \in T : s.nth \in H
      BY <1>1 DEF Form!TypeOK, Form!IsSubmission, Alive
  <2>2. \A s, t \in T : s.nth = t.nth => s = t
      BY DEF FormInv, Numbered
  <2>q. QED
      BY <2>1, <2>2 DEF Injection, IsInjective
<1>3. IsFiniteSet(Stray(c)) /\ Cardinality(Stray(c)) \in Nat /\ IsFiniteSet(H) /\ Cardinality(H) \in Nat
    BY StrayFinite DEF Stray
<1>4. Cardinality(T) \in Nat /\ Cardinality(T) <= Cardinality(H)
  <2>1. IsFiniteSet(T) /\ Cardinality(T) <= Cardinality(H)
      BY <1>2, <1>3, FS_Injection
  <2>q. QED
      BY <2>1, FS_CardinalityType
<1>5. Cardinality(H) <= 1 + missed[c]
  <2>1. CASE ~\E x \in calls : x.by = c /\ x.heard
    <3>1. H \subseteq Stray(c)
        BY <2>1 DEF Stray, HeardOf
    <3>2. Cardinality(H) <= Cardinality(Stray(c))
        BY <1>3, <3>1, FS_Subset
    <3>q. QED
        BY <1>1, <1>3, <3>2 DEF Allowed
  <2>2. ASSUME NEW x \in calls, x.by = c, x.heard PROVE Cardinality(H) <= 1 + missed[c]
    <3>1. ~page[c].done
        BY <1>1, <2>2 DEF Form!TypeOK
    <3>2. H \subseteq Stray(c) \cup {x.nth}
        BY <2>2 DEF Stray, HeardOf, FormInv, OneHeard
    <3>3. /\ IsFiniteSet(Stray(c) \cup {x.nth})
          /\ Cardinality(Stray(c) \cup {x.nth}) = IF x.nth \in Stray(c) THEN Cardinality(Stray(c)) ELSE Cardinality(Stray(c)) + 1
        BY <1>3, FS_AddElement
    <3>4. Cardinality(H) <= Cardinality(Stray(c) \cup {x.nth})
        BY <3>2, <3>3, FS_Subset
    <3>q. QED
        BY <1>1, <1>3, <3>1, <3>3, <3>4 DEF Allowed
  <2>q. QED
      BY <2>1, <2>2
<1>6. Cardinality(T) <= 1 + missed[c]
    BY <1>1, <1>3, <1>4, <1>5
<1>q. QED
    BY <1>6, SizesAre

\* What answers a version answers the question as it still is.
LEMMA AnswersCount == ASSUME FormInv, Form!QuestionAssumption PROVE Form!EveryAnswerCounts
<1> SUFFICES ASSUME form # None, NEW q \in DOMAIN form.questions, Form!Settled(q)
             PROVE  LET def == form.questions[q]
                        G == {s \in stored : q \in DOMAIN s.answers /\ Form!IsAnswered(def, s.answers[q])}
                    IN /\ Form!Stat(form.questions, q).responses = Form!Cardinality(G)
                       /\ \A s \in stored : Form!Cell(def, s.answers, q) # None <=> s \in G
    BY DEF Form!EveryAnswerCounts
<1> DEFINE def == form.questions[q]
           G == {s \in stored : q \in DOMAIN s.answers /\ Form!IsAnswered(def, s.answers[q])}
<1>1. form.questions \in Questionnaires
    BY DEF FormInv, Form!TypeOK
<1>2. /\ def.type \in {"rating", "nps", "text", "choice"}
      /\ def.type = "choice" => def.options \subseteq Options
      /\ def.type = "rating" => def.scale \in 2 .. 10
    BY <1>1, QuestionIs
<1>3. ASSUME NEW s \in stored, q \in DOMAIN s.answers
      PROVE  s.answers[q] \in Form!AnswersTo(def) \/ s.answers[q] = Form!Unanswered
  <2>1. PICK f \in versions : /\ q \in DOMAIN f
                              /\ s.answers[q] \in Form!AnswersTo(f[q]) \/ s.answers[q] = Form!Unanswered
      BY <1>3 DEF FormInv, Form!StoredFitsAVersion
  <2>2. f[q] = def
      BY <2>1 DEF Form!Settled
  <2>q. QED
      BY <2>1, <2>2
<1>4. ASSUME NEW s \in stored, q \in DOMAIN s.answers
      PROVE  /\ Form!Counts(def, s.answers[q]) <=> Form!IsAnswered(def, s.answers[q])
             /\ Form!Cell(def, s.answers, q) # None <=> Form!IsAnswered(def, s.answers[q])
  <2> DEFINE a == s.answers[q]
  <2>1. CASE a \in Form!AnswersTo(def)
    <3>1. Form!Counts(def, a) /\ Form!IsAnswered(def, a)
        BY <1>1, <2>1, AnswerIsValid
    <3>2. a \in Form!Answer
        BY <1>4 DEF FormInv, Form!TypeOK, Form!IsSubmission, Form!Filled
    <3>3. a.text \in Remarks \cup {""} /\ a.choice \in SUBSET Options
        BY <3>2 DEF Form!Answer
    <3>4. (a.text # "" => a.text # None) /\ a.choice # None
        BY <3>3, ValuesAre
    <3>5. Form!Cell(def, s.answers, q) # None
        BY <1>2, <1>4, <3>1, <3>4 DEF Form!Cell, Form!IsAnswered
    <3>q. QED
        BY <3>1, <3>5
  <2>2. CASE a = Form!Unanswered
    <3>1. a.rating = None /\ a.text = "" /\ a.choice = {}
      <4>1. Form!Unanswered.rating = None /\ Form!Unanswered.text = "" /\ Form!Unanswered.choice = {}
          BY DEF Form!Unanswered
      <4>q. QED
          BY <2>2, <4>1
    <3>2. ~Form!Counts(def, a) /\ ~Form!IsAnswered(def, a)
        BY <1>2, <3>1 DEF Form!Counts, Form!IsAnswered
    <3>3. Form!Cell(def, s.answers, q) = None
        BY <1>2, <1>4, <3>1 DEF Form!Cell
    <3>q. QED
        BY <3>2, <3>3
  <2>q. QED
      BY <1>3, <1>4, <2>1, <2>2
<1>5. Form!Hits(form.questions, q) = G
    BY <1>4 DEF Form!Hits
<1>6. Form!Stat(form.questions, q).responses = Form!Cardinality(Form!Hits(form.questions, q))
    BY DEF Form!Stat
<1>7. \A s \in stored : Form!Cell(def, s.answers, q) # None <=> s \in G
  <2>1. \A s \in stored : q \notin DOMAIN s.answers => Form!Cell(def, s.answers, q) = None
      BY DEF Form!Cell
  <2>q. QED
      BY <1>4, <2>1
<1>q. QED
    BY <1>5, <1>6, <1>7

-----------------------------------------------------------------------------
(* The pages of the playbook jobs *)

\* The calls that are about a playbook name it, those with an instruction revise one,
\* and those that have passed their check hold a copy of the row.
Names(c) ==
    /\ c.op \in {"refine", "retry", "delete"} => c.job \in Jobs
    /\ c.op = "refine" <=> c.text # None
    /\ c.st = "held" => c.op \in {"refine", "retry"} /\ c.copy \in Playbook!JobRow
CallsNameThem ==
    /\ \A s \in Slots : calls[s] # None => Names(calls[s])
    /\ budget.typed <= budget.texts

\* While an instruction is in the box its one call is the one the page waits for;
\* once it is taken that call brings success, and success empties the box.
Sends(t, s) == calls[s] # None /\ calls[s].text = t
Revises(t) ==
    /\ \A r, s \in Slots : Sends(t, r) /\ Sends(t, s) => r = s
    /\ ui.text = t => \A s \in Slots : Sends(t, s) => calls[s].alive /\ latest["refine"] = s
    /\ taken[t] <= 1
    /\ taken[t] = 1 => /\ \A s \in Slots : Sends(t, s) => calls[s].st = "ok"
                       /\ ui.text = t => \E s \in Slots : Sends(t, s)
    /\ t > budget.typed => taken[t] = 0 /\ ui.text # t /\ \A s \in Slots : ~Sends(t, s)
RevisesOnce == \A t \in Playbook!Texts \ again : Revises(t)

PlaybookInv == Playbook!TypeOK /\ CallsNameThem /\ RevisesOnce

-----------------------------------------------------------------------------

LEMMA EntriesTyped ==
    ASSUME NEW V, NEW e \in Playbook!Entry(V), NEW v \in V \cup {None}
    PROVE  /\ Playbook!Loaded(v) \in Playbook!Entry(V) /\ Playbook!Refetched(e) \in Playbook!Entry(V)
           /\ Playbook!Cancelled(e) \in Playbook!Entry(V) /\ Playbook!Answered(e, v) \in Playbook!Entry(V)
           /\ Playbook!Stored(e) \in Playbook!Entry(V)
           /\ \A w : Playbook!Invalidated(e, w) \in Playbook!Entry(V)
           /\ Playbook!Mounted(e) \subseteq Playbook!Entry(V)
<1>1. \A x \in V \cup {None} : Playbook!Loaded(x) \in Playbook!Entry(V)
    BY DEF Playbook!Entry, Playbook!Loaded, Playbook!NoEntry
<1>2. Playbook!Refetched(e) \in Playbook!Entry(V)
    BY DEF Playbook!Entry, Playbook!Refetched
<1>3. Playbook!Cancelled(e) \in Playbook!Entry(V) /\ Playbook!Answered(e, v) \in Playbook!Entry(V)
    BY DEF Playbook!Entry, Playbook!Cancelled, Playbook!Answered
<1>4. e.got \in V \cup {None}
    BY DEF Playbook!Entry
<1>5. Playbook!Stored(e) \in Playbook!Entry(V)
    BY <1>1, <1>4 DEF Playbook!Stored
<1>6. \A x \in Playbook!Entry(V) : [x EXCEPT !.stale = TRUE] \in Playbook!Entry(V)
    BY DEF Playbook!Entry
<1>7. \A w : Playbook!Invalidated(e, w) \in Playbook!Entry(V)
    BY <1>2, <1>6 DEF Playbook!Invalidated
<1>8. Playbook!Mounted(e) \subseteq Playbook!Entry(V)
    BY <1>2 DEF Playbook!Mounted, Playbook!Opened
<1>q. QED
    BY <1>1, <1>2, <1>3, <1>5, <1>7, <1>8

\* The card, and the playbook on screen, are playbooks.
LEMMA CurrentIsJob ==
    ASSUME Playbook!TypeOK
    PROVE  Playbook!Card \in Jobs \cup {None} /\ Playbook!Current \in Jobs \cup {None}
<1>1. Playbook!Card \in Jobs \cup {None}
    BY DEF Playbook!Card
<1>2. ui.open \in Jobs \cup {None}
    BY DEF Playbook!TypeOK
<1>q. QED
    BY <1>1, <1>2 DEF Playbook!Current

\* What is left alone keeps its type.
PlaybookTypes ==
    /\ job \in [Jobs -> Playbook!JobRow \cup {None}] /\ out \in [Jobs -> Nat]
    /\ list \in Playbook!Entry([Jobs -> Playbook!JobRow \cup {None}])
    /\ told \in BOOLEAN /\ lost \cup again \subseteq Playbook!Texts
    /\ taken \in [Playbook!Texts -> Nat]
UiTypes ==
    ui \in [page : Playbook!Pages, create : {"closed", "open"}, open : Jobs \cup {None}, view : BOOLEAN,
            text : Playbook!Texts \cup {None}, erase : Jobs \cup {None}]
BudgetTypes ==
    /\ budget \in [calls : Nat, opens : Nat, faults : Nat, others : Nat,
                   texts : 0 .. MaxTexts, typed : 0 .. MaxTexts, used : SUBSET Jobs]
    /\ budget.typed <= budget.texts
CallTypes ==
    /\ calls \in [Slots -> Playbook!CallRecord \cup {None}] /\ latest \in [Playbook!Ops -> Slots \cup {None}]
    /\ \A op \in Playbook!Ops : Playbook!Pending(op) => calls[latest[op]] # None /\ calls[latest[op]].op = op
    /\ \A s \in Slots : calls[s] # None => Names(calls[s])

LEMMA TypesAre == Playbook!TypeOK /\ CallsNameThem <=> PlaybookTypes /\ UiTypes /\ BudgetTypes /\ CallTypes
    BY DEF Playbook!TypeOK, CallsNameThem, PlaybookTypes, UiTypes, BudgetTypes, CallTypes

LEMMA TypesAfter == PlaybookTypes' /\ UiTypes' /\ BudgetTypes' /\ CallTypes' => Playbook!TypeOK' /\ CallsNameThem'
    BY DEF Playbook!TypeOK, CallsNameThem, PlaybookTypes, UiTypes, BudgetTypes, CallTypes

LEMMA SpendTypes ==
    ASSUME BudgetTypes, NEW b \in {"calls", "opens", "faults", "others"}, Playbook!Spend(b)
    PROVE  BudgetTypes' /\ budget'.typed = budget.typed /\ budget'.texts = budget.texts /\ budget'.used = budget.used
    BY DEF BudgetTypes, Playbook!Spend

\* What neither the table nor the calls nor the box see changes nothing.
LEMMA QuietKeeps ==
    ASSUME PlaybookInv, UNCHANGED <<job, out, taken, calls, latest, again>>, ui'.text = ui.text,
           budget'.typed = budget.typed, budget'.texts = budget.texts, budget'.used = budget.used,
           PlaybookTypes', UiTypes', BudgetTypes'
    PROVE  PlaybookInv'
<1>1. CallTypes'
    BY TypesAre DEF PlaybookInv, CallTypes, Playbook!Pending
<1>2. RevisesOnce'
    BY DEF PlaybookInv, RevisesOnce, Revises, Sends
<1>3. Playbook!TypeOK' /\ CallsNameThem'
    BY <1>1, TypesAre DEF Playbook!TypeOK, CallsNameThem, PlaybookTypes, UiTypes, BudgetTypes, CallTypes
<1>q. QED
    BY <1>2, <1>3 DEF PlaybookInv

\* A dialog opens, or closes: the box stays as it is.
Dialogs(u) == Playbook!Opening(u) \/ Playbook!Closing(u)

LEMMA DialogSteps ==
    ASSUME UiTypes,
           \/ Playbook!OpenCreate \/ Playbook!OpenGenerate \/ Playbook!OpenCard \/ Playbook!Dismiss
           \/ \E j \in Jobs : Playbook!AskDelete(j) \/ \E v \in BOOLEAN : Playbook!OpenDetail(j, v)
    PROVE  /\ UiTypes' /\ ui'.text = ui.text
           /\ UNCHANGED <<job, out, taken, list, calls, latest, told, lost, again>>
           /\ Playbook!Spend("opens") \/ budget' = budget
<1>1. \/ Dialogs([ui EXCEPT !.create = "open"]) \/ Dialogs([ui EXCEPT !.view = TRUE])
      \/ Dialogs([ui EXCEPT !.create = "closed"]) \/ Dialogs([ui EXCEPT !.open = None, !.view = FALSE])
      \/ Dialogs([ui EXCEPT !.erase = None])
      \/ \E j \in Jobs : \/ Dialogs([ui EXCEPT !.erase = j])
                         \/ \E v \in BOOLEAN : Dialogs([ui EXCEPT !.open = j, !.view = v])
    BY Zenon DEF Playbook!OpenCreate, Playbook!OpenGenerate, Playbook!OpenCard, Playbook!Dismiss, Playbook!AskDelete,
                 Playbook!OpenDetail, Dialogs
<1> DEFINE Same(u) ==
              /\ u.text = ui.text
              /\ u \in [page : Playbook!Pages, create : {"closed", "open"}, open : Jobs \cup {None}, view : BOOLEAN,
                        text : Playbook!Texts \cup {None}, erase : Jobs \cup {None}]
<1>2. PICK u : Dialogs(u) /\ Same(u)
  <2>1. /\ Same([ui EXCEPT !.create = "open"]) /\ Same([ui EXCEPT !.create = "closed"])
        /\ Same([ui EXCEPT !.view = TRUE])
      BY DEF UiTypes
  <2>2. Same([ui EXCEPT !.open = None, !.view = FALSE]) /\ Same([ui EXCEPT !.erase = None])
      BY DEF UiTypes
  <2>3. \A j \in Jobs : Same([ui EXCEPT !.erase = j])
      BY DEF UiTypes
  <2>4. \A j \in Jobs, v \in BOOLEAN : Same([ui EXCEPT !.open = j, !.view = v])
      BY DEF UiTypes
  <2> HIDE DEF Same
  <2>q. QED
      BY <1>1, <2>1, <2>2, <2>3, <2>4, Zenon
<1>3. ui' = u /\ UNCHANGED <<job, out, taken, list, calls, latest, told, lost, again>>
    BY <1>2 DEF Dialogs, Playbook!Opening, Playbook!Closing, Playbook!server, Playbook!browser, Playbook!history
<1>4. Playbook!Spend("opens") \/ budget' = budget
    BY <1>2 DEF Dialogs, Playbook!Opening, Playbook!Closing
<1>q. QED
    BY <1>2, <1>3, <1>4 DEF UiTypes

LEMMA OpenSteps ==
    ASSUME PlaybookInv,
           \/ Playbook!OpenCreate \/ Playbook!OpenGenerate \/ Playbook!OpenCard \/ Playbook!Dismiss
           \/ \E j \in Jobs : Playbook!AskDelete(j) \/ \E v \in BOOLEAN : Playbook!OpenDetail(j, v)
    PROVE  PlaybookInv'
<1>1. PlaybookTypes /\ UiTypes /\ BudgetTypes
    BY TypesAre DEF PlaybookInv
<1>2. UiTypes' /\ ui'.text = ui.text
    BY <1>1, DialogSteps
<1>3. /\ UNCHANGED <<job, out, taken, list, calls, latest, told, lost, again>>
      /\ Playbook!Spend("opens") \/ budget' = budget
    BY <1>1, DialogSteps
<1>4. BudgetTypes' /\ budget'.typed = budget.typed /\ budget'.texts = budget.texts /\ budget'.used = budget.used
    BY <1>1, <1>3, SpendTypes DEF BudgetTypes
<1>5. PlaybookTypes'
    BY <1>1, <1>3 DEF PlaybookTypes
<1>q. QED
    BY <1>2, <1>3, <1>4, <1>5, QuietKeeps

LEMMA ListSteps ==
    ASSUME PlaybookInv, Playbook!Poll \/ Playbook!Query \/ Playbook!LoadFails
    PROVE  PlaybookInv'
<1>1. PlaybookTypes /\ UiTypes /\ BudgetTypes
    BY TypesAre DEF PlaybookInv
<1>2. /\ UNCHANGED <<job, out, taken, calls, latest, ui, lost, again>>
      /\ Playbook!Spend("faults") \/ budget' = budget
    BY DEF Playbook!Poll, Playbook!Query, Playbook!Serve, Playbook!Store, Playbook!LoadFails,
           Playbook!server, Playbook!history
<1>3. list' \in Playbook!Entry([Jobs -> Playbook!JobRow \cup {None}])
  <2>1. job \in [Jobs -> Playbook!JobRow \cup {None}] \cup {None}
      BY <1>1 DEF PlaybookTypes
  <2>2. list' \in {Playbook!Refetched(list), Playbook!Answered(list, job), Playbook!Stored(list), Playbook!Cancelled(list)}
      BY DEF Playbook!Poll, Playbook!Query, Playbook!Serve, Playbook!Store, Playbook!LoadFails
  <2>q. QED
      BY <1>1, <2>1, <2>2, EntriesTyped DEF PlaybookTypes
<1>4. told' \in BOOLEAN
    BY <1>1 DEF Playbook!Poll, Playbook!Query, Playbook!Serve, Playbook!Store, Playbook!LoadFails, Playbook!history, PlaybookTypes
<1>5. BudgetTypes' /\ budget'.typed = budget.typed /\ budget'.texts = budget.texts /\ budget'.used = budget.used
    BY <1>1, <1>2, SpendTypes DEF BudgetTypes
<1>6. PlaybookTypes' /\ UiTypes'
    BY <1>1, <1>2, <1>3, <1>4 DEF PlaybookTypes, UiTypes
<1>q. QED
    BY <1>2, <1>5, <1>6, QuietKeeps

\* Tasks end, or are given up, and playbooks go: the calls do not see it.
LEMMA TaskSteps ==
    ASSUME Playbook!PlaybookDeskAssumption, PlaybookInv,
           \/ \E j \in Jobs : Playbook!Report(j) \/ Playbook!LoseReport(j) \/ Playbook!GiveUp(j)
           \/ Playbook!Elsewhere
    PROVE  PlaybookInv'
<1>1. PlaybookTypes /\ UiTypes /\ BudgetTypes /\ CallTypes
    BY TypesAre DEF PlaybookInv
<1>2. /\ UNCHANGED <<taken, list, calls, latest, ui, lost, again>>
      /\ Playbook!Spend("faults") \/ Playbook!Spend("others") \/ budget' = budget
    BY DEF Playbook!Report, Playbook!LoseReport, Playbook!GiveUp, Playbook!Elsewhere, Playbook!browser, Playbook!history
<1>3. BudgetTypes' /\ budget'.typed = budget.typed /\ budget'.texts = budget.texts /\ budget'.used = budget.used
    BY <1>1, <1>2, SpendTypes DEF BudgetTypes
<1>4. PlaybookTypes'
  <2>1. \A j \in Jobs, st \in {"success", "failed"} : job[j] # None =>
             [job[j] EXCEPT !.st = st] \in Playbook!JobRow
      BY <1>1 DEF PlaybookTypes, Playbook!JobRow, Playbook!Status
  <2>2. ASSUME NEW j \in Jobs, NEW st \in {"success", "failed"}, Playbook!Ended(j, st), job[j] # None
        PROVE  job' \in [Jobs -> Playbook!JobRow \cup {None}] /\ told' \in BOOLEAN
    <3>1. job' = [job EXCEPT ![j] = [job[j] EXCEPT !.st = st]]
        BY <2>2 DEF Playbook!Ended
    <3>2. told' \in BOOLEAN
        BY <1>1, <2>2 DEF Playbook!Ended, PlaybookTypes
    <3>q. QED
        BY <1>1, <2>1, <2>2, <3>1, <3>2 DEF PlaybookTypes
  <2>3. ASSUME NEW j \in Jobs, Playbook!Report(j) PROVE PlaybookTypes'
    <3>1. out[j] > 0 /\ out' = [out EXCEPT ![j] = out[j] - 1]
        BY <2>3 DEF Playbook!Report
    <3>2. out' \in [Jobs -> Nat]
        BY <1>1, <3>1 DEF PlaybookTypes
    <3>3. job' \in [Jobs -> Playbook!JobRow \cup {None}] /\ told' \in BOOLEAN
      <4>1. CASE job[j] = None
          BY <1>1, <2>3, <4>1 DEF Playbook!Report, PlaybookTypes
      <4>2. CASE job[j] # None
        <5>1. PICK st \in {"success", "failed"} : Playbook!Ended(j, st)
            BY <2>3, <4>2 DEF Playbook!Report
        <5>q. QED
            BY <2>2, <4>2, <5>1
      <4>q. QED
          BY <4>1, <4>2
    <3>q. QED
        BY <1>1, <1>2, <3>2, <3>3 DEF PlaybookTypes
  <2>4. ASSUME NEW j \in Jobs, Playbook!LoseReport(j) PROVE PlaybookTypes'
    <3>1. out[j] > 0 /\ out' = [out EXCEPT ![j] = out[j] - 1] /\ UNCHANGED <<job, told>>
        BY <2>4 DEF Playbook!LoseReport, Playbook!history
    <3>2. out' \in [Jobs -> Nat]
        BY <1>1, <3>1 DEF PlaybookTypes
    <3>q. QED
        BY <1>1, <1>2, <3>1, <3>2 DEF PlaybookTypes
  <2>5. ASSUME NEW j \in Jobs, Playbook!GiveUp(j) PROVE PlaybookTypes'
    <3>1. job[j] # None /\ Playbook!Ended(j, "failed") /\ out' = out
        BY <2>5 DEF Playbook!GiveUp, Playbook!Active
    <3>q. QED
        BY <1>1, <1>2, <2>2, <3>1 DEF PlaybookTypes
  <2>6. ASSUME Playbook!Elsewhere PROVE PlaybookTypes'
    <3>1. PICK j \in Jobs : job[j] # None /\ job' = [job EXCEPT ![j] = None]
        BY <2>6 DEF Playbook!Elsewhere
    <3>2. out' = out /\ told' = TRUE
        BY <2>6 DEF Playbook!Elsewhere
    <3>q. QED
        BY <1>1, <1>2, <3>1, <3>2 DEF PlaybookTypes
  <2>q. QED
      BY <2>3, <2>4, <2>5, <2>6
<1>5. CallTypes' /\ UiTypes'
    BY <1>1, <1>2 DEF CallTypes, Playbook!Pending, UiTypes
<1>6. RevisesOnce'
    BY <1>2, <1>3 DEF PlaybookInv, RevisesOnce, Revises, Sends
<1>7. Playbook!TypeOK' /\ CallsNameThem'
    BY <1>3, <1>4, <1>5 DEF Playbook!TypeOK, CallsNameThem, PlaybookTypes, UiTypes, BudgetTypes, CallTypes
<1>q. QED
    BY <1>6, <1>7 DEF PlaybookInv

\* A call is handled, or answered, or its answer is lost.
Goes(s, st, cp) == calls' = [calls EXCEPT ![s].st = st, ![s].copy = cp] /\ latest' = latest

LEMMA ReplyTypes ==
    ASSUME Playbook!PlaybookDeskAssumption, CallTypes, NEW s \in Slots, calls[s] # None,
           NEW st \in {"held", "ok", "failed"}, NEW cp \in Playbook!JobRow \cup {None}, Goes(s, st, cp),
           st = "held" => calls[s].op \in {"refine", "retry"} /\ cp \in Playbook!JobRow
    PROVE  /\ CallTypes' /\ calls'[s] # None /\ calls'[s].st = st
           /\ calls'[s].text = calls[s].text /\ calls'[s].alive = calls[s].alive
           /\ \A r \in Slots : r # s => calls'[r] = calls[r]
<1> DEFINE y == [calls[s] EXCEPT !.st = st, !.copy = cp]
<1>1. calls[s] \in Playbook!CallRecord /\ None \notin Playbook!CallRecord /\ Names(calls[s])
  <2>1. calls \in [Slots -> Playbook!CallRecord \cup {None}]
      BY DEF CallTypes
  <2>2. None \notin Playbook!CallRecord
      BY DEF Playbook!PlaybookDeskAssumption
  <2>q. QED
      BY <2>1, <2>2 DEF CallTypes
<1>2. /\ y \in Playbook!CallRecord /\ y # None /\ y.st = st /\ y.text = calls[s].text /\ y.alive = calls[s].alive
      /\ y.op = calls[s].op /\ y.job = calls[s].job /\ y.copy = cp
    BY <1>1 DEF Playbook!CallRecord
<1>3. calls' = [calls EXCEPT ![s] = y]
    BY DEF Goes, CallTypes
<1>4. Names(y)
    BY <1>1, <1>2 DEF Names
<1> HIDE DEF y
<1>5. /\ calls' \in [Slots -> Playbook!CallRecord \cup {None}] /\ calls'[s] = y
      /\ \A r \in Slots : r # s => calls'[r] = calls[r]
    BY <1>2, <1>3 DEF CallTypes
<1>6. \A op \in Playbook!Ops : Playbook!Pending(op)' => calls'[latest'[op]] # None /\ calls'[latest'[op]].op = op
  <2> SUFFICES ASSUME NEW op \in Playbook!Ops, latest[op] # None
               PROVE  calls'[latest[op]] # None /\ calls'[latest[op]].op = op
      BY DEF Playbook!Pending, Goes
  <2>1. latest[op] \in Slots /\ calls[latest[op]] # None /\ calls[latest[op]].op = op
      BY DEF CallTypes, Playbook!Pending
  <2>q. QED
      BY <1>2, <1>5, <2>1
<1>7. \A r \in Slots : calls'[r] # None => Names(calls'[r])
    BY <1>4, <1>5 DEF CallTypes
<1>q. QED
    BY <1>2, <1>5, <1>6, <1>7 DEF CallTypes, Goes

\* A call that has not succeeded yet goes on, or its instruction may be sent again.
LEMMA ReplyRevises ==
    ASSUME Playbook!PlaybookDeskAssumption, PlaybookInv, CallTypes, NEW s \in Slots, calls[s] # None,
           NEW st \in {"held", "ok", "failed"}, NEW cp \in Playbook!JobRow \cup {None}, Goes(s, st, cp),
           st = "held" => calls[s].op \in {"refine", "retry"} /\ cp \in Playbook!JobRow,
           UNCHANGED <<taken, ui>>, again \subseteq again', budget'.typed = budget.typed,
           calls[s].st # "ok" \/ calls[s].text \in again' \cup {None}
    PROVE  RevisesOnce'
<1> SUFFICES ASSUME NEW t \in Playbook!Texts, t \notin again' PROVE Revises(t)'
    BY DEF RevisesOnce, Playbook!Texts
<1>1. Revises(t) /\ t # None /\ latest' = latest
    BY DEF PlaybookInv, RevisesOnce, Playbook!PlaybookDeskAssumption, Goes
<1>2. /\ calls'[s] # None /\ calls'[s].text = calls[s].text /\ calls'[s].alive = calls[s].alive
      /\ \A r \in Slots : r # s => calls'[r] = calls[r]
    BY ReplyTypes
<1>3. \A r \in Slots : Sends(t, r)' <=> Sends(t, r)
    BY <1>2 DEF Sends
<1>4. taken[t] = 1 => ~Sends(t, s)
    BY <1>1 DEF Revises, Sends
<1>5. taken[t] = 1 => \A r \in Slots : Sends(t, r)' => calls'[r].st = "ok"
    BY <1>1, <1>2, <1>3, <1>4 DEF Revises
<1>6. ui.text = t => \A r \in Slots : Sends(t, r)' => calls'[r].alive /\ latest["refine"] = r
    BY <1>1, <1>2, <1>3 DEF Revises
<1>q. QED
    BY <1>1, <1>3, <1>5, <1>6 DEF Revises

\* What each step of a handler does to its call.
LEMMA HandleGoes ==
    ASSUME PlaybookInv, NEW s \in Slots, Playbook!Handle(s) \/ Playbook!LoseCall(s)
    PROVE  /\ calls[s] # None /\ UNCHANGED <<list, ui, lost>>
           /\ \E st \in {"held", "ok", "failed"}, cp \in Playbook!JobRow \cup {None} :
                  /\ Goes(s, st, cp)
                  /\ st = "held" => calls[s].op \in {"refine", "retry"} /\ cp \in Playbook!JobRow
                  /\ st = "ok" => \/ Playbook!Create(s) \/ Playbook!Refine(s)
                                  \/ Playbook!Retry(s) \/ Playbook!Delete(s)
<1>1. PlaybookTypes /\ CallTypes
    BY TypesAre DEF PlaybookInv
<1>2. CASE Playbook!Check(s)
  <2>1. /\ calls[s] # None /\ calls[s].op \in {"refine", "retry"} /\ ~Playbook!Refuses(calls[s])
        /\ Goes(s, "held", job[calls[s].job]) /\ UNCHANGED <<list, ui, lost>>
      BY <1>2 DEF Playbook!Check, Playbook!Sent, Playbook!history, Goes
  <2>2. calls[s].job \in Jobs /\ job[calls[s].job] # None
      BY <1>1, <2>1 DEF CallTypes, Names, Playbook!Refuses
  <2>3. job[calls[s].job] \in Playbook!JobRow
      BY <1>1, <2>2 DEF PlaybookTypes
  <2>q. QED
      BY <2>1, <2>3
<1>3. CASE ~Playbook!Check(s)
  <2>1. /\ calls[s] # None /\ UNCHANGED <<list, latest, ui, lost>>
        /\ \/ Playbook!Reply(s, "failed")
           \/ /\ Playbook!Reply(s, "ok")
              /\ Playbook!Create(s) \/ Playbook!Refine(s) \/ Playbook!Retry(s) \/ Playbook!Delete(s)
      BY <1>3 DEF Playbook!Handle, Playbook!Create, Playbook!Refuse, Playbook!Collide, Playbook!Refine, Playbook!Retry,
                  Playbook!Delete, Playbook!LoseCall, Playbook!Sent, Playbook!Holds, Playbook!history
  <2>2. \A st \in {"ok", "failed"} : Playbook!Reply(s, st) => Goes(s, st, None)
      BY <2>1 DEF Playbook!Reply, Goes
  <2>q. QED
      BY <2>1, <2>2
<1>q. QED
    BY <1>2, <1>3

LEMMA HandleSteps ==
    ASSUME Playbook!PlaybookDeskAssumption, PlaybookInv, NEW s \in Slots, Playbook!Handle(s) \/ Playbook!LoseCall(s)
    PROVE  PlaybookInv'
<1>1. PlaybookTypes /\ UiTypes /\ BudgetTypes /\ CallTypes
    BY TypesAre DEF PlaybookInv
<1>2. None \notin Playbook!JobRow
    BY DEF Playbook!PlaybookDeskAssumption
<1>3. calls[s] # None /\ UNCHANGED <<list, ui, lost>>
    BY HandleGoes
<1>4. PICK st \in {"held", "ok", "failed"}, cp \in Playbook!JobRow \cup {None} :
          /\ Goes(s, st, cp)
          /\ st = "held" => calls[s].op \in {"refine", "retry"} /\ cp \in Playbook!JobRow
          /\ st = "ok" => \/ Playbook!Create(s) \/ Playbook!Refine(s)
                          \/ Playbook!Retry(s) \/ Playbook!Delete(s)
    BY HandleGoes
<1>5. CallTypes' /\ UiTypes'
    BY <1>1, <1>3, <1>4, ReplyTypes DEF UiTypes
<1>6. calls[s] \in Playbook!CallRecord /\ Names(calls[s])
    BY <1>1, <1>3 DEF CallTypes
<1>7. ASSUME UNCHANGED <<taken, ui>>, again \subseteq again', budget'.typed = budget.typed,
             calls[s].st # "ok" \/ calls[s].text \in again' \cup {None}
      PROVE  RevisesOnce'
    BY <1>1, <1>3, <1>4, <1>7, ReplyRevises
\* The copy is saved with its new status, and a task handed over.
<1>8. ASSUME calls[s].st = "held", NEW x \in {"updating", "in_progress"},
             Playbook!Save(calls[s], x), Playbook!Hand(calls[s].job), UNCHANGED <<told, again, budget>>,
             taken' \in [Playbook!Texts -> Nat]
      PROVE  PlaybookTypes' /\ BudgetTypes'
  <2>1. PICK j \in Jobs, y \in Playbook!JobRow : j = calls[s].job /\ y = [calls[s].copy EXCEPT !.st = x]
      BY <1>6, <1>8 DEF Names, Playbook!JobRow, Playbook!Status
  <2>2. job' = [job EXCEPT ![j] = y] /\ out' = [out EXCEPT ![j] = out[j] + 1]
      BY <1>8, <2>1 DEF Playbook!Save, Playbook!Hand
  <2>q. QED
      BY <1>1, <1>3, <1>8, <2>2 DEF PlaybookTypes, BudgetTypes
<1>9. ASSUME Playbook!Create(s) PROVE PlaybookInv'
  <2>1. PICK j \in Jobs \ budget.used :
          /\ job' = [i \in Jobs |->
                IF i = j THEN [st |-> "in_progress", ev |-> calls[s].op = "event"]
                ELSE IF calls[s].op = "event" /\ job[i] # None THEN [job[i] EXCEPT !.ev = FALSE] ELSE job[i]]
          /\ Playbook!Hand(j) /\ budget' = [budget EXCEPT !.used = @ \cup {j}]
      BY <1>9 DEF Playbook!Create
  <2>2. UNCHANGED <<taken, told, again>> /\ calls[s].st = "sent"
      BY <1>9 DEF Playbook!Create, Playbook!Sent, Playbook!history
  <2>3. out' \in [Jobs -> Nat]
      BY <1>1, <2>1 DEF Playbook!Hand, PlaybookTypes
  <2>4. \A i \in Jobs : job[i] # None => [job[i] EXCEPT !.ev = FALSE] \in Playbook!JobRow
      BY <1>1 DEF PlaybookTypes, Playbook!JobRow
  <2>5. [st |-> "in_progress", ev |-> calls[s].op = "event"] \in Playbook!JobRow
      BY DEF Playbook!JobRow, Playbook!Status
  <2>6. job' \in [Jobs -> Playbook!JobRow \cup {None}]
      BY <1>1, <2>1, <2>4, <2>5 DEF PlaybookTypes
  <2>7. BudgetTypes' /\ budget'.typed = budget.typed
      BY <1>1, <2>1 DEF BudgetTypes
  <2>8. PlaybookTypes'
      BY <1>1, <1>3, <2>2, <2>3, <2>6 DEF PlaybookTypes
  <2>9. RevisesOnce'
      BY <1>3, <1>7, <2>2, <2>7
  <2>q. QED
      BY <1>5, <2>7, <2>8, <2>9, TypesAfter DEF PlaybookInv
<1>10. ASSUME Playbook!Refuse(s) \/ Playbook!Check(s) \/ Playbook!Collide(s) PROVE PlaybookInv'
  <2>1. UNCHANGED <<job, out, taken, told, again, budget>> /\ calls[s].st # "ok"
      BY <1>10 DEF Playbook!Refuse, Playbook!Check, Playbook!Collide, Playbook!Sent, Playbook!Holds,
                   Playbook!server, Playbook!history
  <2>2. PlaybookTypes' /\ BudgetTypes'
      BY <1>1, <1>3, <2>1 DEF PlaybookTypes, BudgetTypes
  <2>3. RevisesOnce'
      BY <1>3, <1>7, <2>1
  <2>q. QED
      BY <1>5, <2>2, <2>3, TypesAfter DEF PlaybookInv
<1>11. ASSUME Playbook!Retry(s) PROVE PlaybookInv'
  <2>1. /\ UNCHANGED <<taken, told, again, budget>> /\ calls[s].st = "held"
        /\ Playbook!Save(calls[s], "in_progress") /\ Playbook!Hand(calls[s].job)
      BY <1>11 DEF Playbook!Retry, Playbook!Holds, Playbook!history
  <2>2. PlaybookTypes' /\ BudgetTypes'
      BY <1>1, <1>8, <2>1 DEF PlaybookTypes
  <2>3. RevisesOnce'
      BY <1>3, <1>7, <2>1
  <2>q. QED
      BY <1>5, <2>2, <2>3, TypesAfter DEF PlaybookInv
<1>12. ASSUME Playbook!Delete(s) PROVE PlaybookInv'
  <2>1. /\ UNCHANGED <<out, taken, told, again, budget>> /\ calls[s].st = "sent" /\ calls[s].op = "delete"
        /\ job' = [job EXCEPT ![calls[s].job] = None]
      BY <1>12 DEF Playbook!Delete, Playbook!Sent, Playbook!history
  <2>2. PlaybookTypes' /\ BudgetTypes'
      BY <1>1, <1>3, <2>1 DEF PlaybookTypes, BudgetTypes
  <2>3. RevisesOnce'
      BY <1>3, <1>7, <2>1
  <2>q. QED
      BY <1>5, <2>2, <2>3, TypesAfter DEF PlaybookInv
<1>13. ASSUME Playbook!Refine(s) PROVE PlaybookInv'
  <2> DEFINE u == calls[s].text
  <2>1. /\ UNCHANGED <<told, again, budget>> /\ calls[s].st = "held" /\ calls[s].op = "refine"
        /\ Playbook!Save(calls[s], "updating") /\ Playbook!Hand(calls[s].job) /\ Goes(s, "ok", None)
        /\ taken' = [taken EXCEPT ![u] = @ + 1]
      BY <1>13 DEF Playbook!Refine, Playbook!Holds, Playbook!history, Playbook!Reply, Goes
  <2>2. u \in Playbook!Texts
      BY <1>6, <2>1 DEF Names, Playbook!CallRecord
  <2>3. /\ taken' \in [Playbook!Texts -> Nat] /\ taken'[u] = taken[u] + 1 /\ taken[u] \in Nat
        /\ \A t \in Playbook!Texts : t # u => taken'[t] = taken[t]
      BY <1>1, <2>1, <2>2 DEF PlaybookTypes
  <2>4. PlaybookTypes' /\ BudgetTypes'
      BY <1>8, <2>1, <2>3
  <2>5. /\ calls'[s] # None /\ calls'[s].text = u /\ calls'[s].alive = calls[s].alive /\ calls'[s].st = "ok"
        /\ \A r \in Slots : r # s => calls'[r] = calls[r]
      BY <1>1, <1>3, <2>1, ReplyTypes
  <2>6. ASSUME NEW t \in Playbook!Texts, t \notin again PROVE Revises(t)'
    <3>1. Revises(t) /\ latest' = latest
        BY <2>1, <2>6 DEF PlaybookInv, RevisesOnce, Goes
    <3>2. \A r \in Slots : Sends(t, r)' <=> Sends(t, r)
        BY <1>3, <2>5 DEF Sends
    <3>3. ui.text = t => \A r \in Slots : Sends(t, r)' => calls'[r].alive /\ latest["refine"] = r
        BY <2>5, <3>1, <3>2 DEF Revises
    <3>4. CASE t = u
      <4>1. Sends(t, s)
          BY <1>3, <3>4 DEF Sends
      <4>2. taken[t] = 0
          BY <2>1, <2>3, <3>1, <3>4, <4>1 DEF Revises
      <4>3. \A r \in Slots : Sends(t, r)' => calls'[r].st = "ok"
          BY <2>5, <3>1, <3>2, <4>1 DEF Revises
      <4>4. ~(t > budget.typed)
          BY <3>1, <4>1 DEF Revises
      <4>5. taken'[t] = 1
          BY <2>3, <3>4, <4>2
      <4>q. QED
          BY <1>3, <2>1, <3>1, <3>2, <3>3, <4>1, <4>3, <4>4, <4>5 DEF Revises
    <3>5. CASE t # u
      <4>1. ~Sends(t, s) /\ taken'[t] = taken[t]
          BY <2>3, <3>5 DEF Sends
      <4>2. taken[t] = 1 => \A r \in Slots : Sends(t, r)' => calls'[r].st = "ok"
          BY <2>5, <3>1, <3>2, <4>1 DEF Revises
      <4>q. QED
          BY <1>3, <2>1, <3>1, <3>2, <3>3, <4>1, <4>2 DEF Revises
    <3>q. QED
        BY <3>4, <3>5
  <2>7. RevisesOnce'
      BY <2>1, <2>6 DEF RevisesOnce, Playbook!Texts
  <2>q. QED
      BY <1>5, <2>4, <2>7, TypesAfter DEF PlaybookInv
<1>14. ASSUME Playbook!LoseCall(s) PROVE PlaybookInv'
  <2>1. /\ UNCHANGED <<job, out, taken>> /\ Playbook!Spend("faults") /\ told' = (told \/ calls[s].st = "ok")
        /\ again' = IF calls[s].st = "ok" THEN again \cup ({calls[s].text} \ {None}) ELSE again
      BY <1>14 DEF Playbook!LoseCall, Playbook!server
  <2>2. BudgetTypes' /\ budget'.typed = budget.typed
      BY <1>1, <2>1, SpendTypes
  <2>3. PlaybookTypes'
      BY <1>1, <1>3, <1>6, <2>1 DEF PlaybookTypes, Playbook!CallRecord
  <2>4. RevisesOnce'
      BY <1>3, <1>7, <2>1, <2>2
  <2>q. QED
      BY <1>5, <2>2, <2>3, <2>4, TypesAfter DEF PlaybookInv
<1>q. QED
    BY <1>9, <1>10, <1>11, <1>12, <1>13, <1>14 DEF Playbook!Handle

\* A call ends: the handlers that wait for it see to what is open.
LEMMA DeliverSteps ==
    ASSUME Playbook!PlaybookDeskAssumption, PlaybookInv, NEW s \in Slots, Playbook!Deliver(s)
    PROVE  PlaybookInv'
<1>1. PlaybookTypes /\ UiTypes /\ BudgetTypes /\ CallTypes
    BY TypesAre DEF PlaybookInv
<1>2. /\ calls[s] # None /\ UNCHANGED <<job, out, taken, budget, told, lost, again>>
      /\ calls' = [calls EXCEPT ![s] = None]
      /\ latest' = [op \in Playbook!Ops |-> IF latest[op] = s THEN None ELSE latest[op]]
      /\ ui' = Playbook!Closed(calls[s])
      /\ list' \in {list, Playbook!Invalidated(list, Playbook!Watched)}
      /\ calls[s].st \in {"ok", "failed"}
    BY DEF Playbook!Deliver, Playbook!server, Playbook!history, Playbook!Freed
<1>3. /\ UiTypes' /\ ui'.text \in {ui.text, None}
      /\ ui'.text = ui.text => ui.text = None \/ ~(calls[s].alive /\ calls[s].op = "refine" /\ calls[s].st = "ok")
  <2>1. calls[s].alive \in BOOLEAN
    <3>1. calls[s] \in Playbook!CallRecord
        BY <1>1, <1>2 DEF CallTypes
    <3>q. QED
        BY <3>1 DEF Playbook!CallRecord
  <2>2. /\ ui' \in {ui, [ui EXCEPT !.create = "closed"], [ui EXCEPT !.text = None], [ui EXCEPT !.erase = None]}
        /\ calls[s].alive /\ calls[s].op = "refine" /\ calls[s].st = "ok" => ui' = [ui EXCEPT !.text = None]
      BY <1>2, <2>1 DEF Playbook!Closed, Playbook!Emptied
  <2>q. QED
      BY <1>1, <2>2 DEF UiTypes
<1>4. list' \in Playbook!Entry([Jobs -> Playbook!JobRow \cup {None}])
  <2>1. job \in [Jobs -> Playbook!JobRow \cup {None}] \cup {None}
      BY <1>1 DEF PlaybookTypes
  <2>q. QED
      BY <1>1, <1>2, <2>1, EntriesTyped DEF PlaybookTypes
<1>5. PlaybookTypes' /\ BudgetTypes'
    BY <1>1, <1>2, <1>4 DEF PlaybookTypes, BudgetTypes
<1>6. /\ calls'[s] = None /\ \A r \in Slots : r # s => calls'[r] = calls[r]
      /\ \A op \in Playbook!Ops : latest'[op] = IF latest[op] = s THEN None ELSE latest[op]
    BY <1>1, <1>2 DEF CallTypes
<1>7. CallTypes'
  <2>1. calls' \in [Slots -> Playbook!CallRecord \cup {None}] /\ latest' \in [Playbook!Ops -> Slots \cup {None}]
      BY <1>1, <1>2 DEF CallTypes
  <2>2. ASSUME NEW op \in Playbook!Ops, latest'[op] # None
        PROVE  calls'[latest'[op]] # None /\ calls'[latest'[op]].op = op
    <3>1. latest'[op] = latest[op] /\ latest[op] # s /\ latest[op] \in Slots
        BY <1>1, <1>6, <2>2 DEF CallTypes
    <3>q. QED
        BY <1>1, <1>6, <2>2, <3>1 DEF CallTypes, Playbook!Pending
  <2>3. \A r \in Slots : calls'[r] # None => Names(calls'[r])
      BY <1>1, <1>6 DEF CallTypes
  <2>q. QED
      BY <2>1, <2>2, <2>3 DEF CallTypes, Playbook!Pending
<1>8. ASSUME NEW t \in Playbook!Texts, t \notin again PROVE Revises(t)'
  <2>1. Revises(t) /\ t # None
      BY <1>8 DEF PlaybookInv, RevisesOnce, Playbook!PlaybookDeskAssumption
  <2>2. \A r \in Slots : Sends(t, r)' <=> r # s /\ Sends(t, r)
      BY <1>6 DEF Sends
  <2>3. ui'.text = t => ui.text = t
      BY <1>3, <2>1
  <2>4. ui'.text = t => \A r \in Slots : Sends(t, r)' => calls'[r].alive /\ latest'["refine"] = r
      BY <1>6, <2>1, <2>2, <2>3 DEF Revises, Playbook!Ops
  <2>5. taken[t] = 1 => /\ \A r \in Slots : Sends(t, r)' => calls'[r].st = "ok"
                        /\ ui'.text = t => \E r \in Slots : Sends(t, r)'
    <3>1. ASSUME taken[t] = 1, ui'.text = t PROVE ~Sends(t, s)
      <4>1. SUFFICES ASSUME Sends(t, s) PROVE FALSE
          OBVIOUS
      <4>2. calls[s].alive /\ calls[s].st = "ok" /\ calls[s].op = "refine"
          BY <1>1, <1>2, <2>1, <2>3, <3>1, <4>1 DEF Revises, Sends, CallTypes, Names
      <4>q. QED
          BY <1>3, <2>1, <2>3, <3>1, <4>2
    <3>2. taken[t] = 1 /\ ui'.text = t => \E r \in Slots : r # s /\ Sends(t, r)
        BY <2>1, <2>3, <3>1 DEF Revises
    <3>q. QED
        BY <1>6, <2>1, <2>2, <3>2 DEF Revises
  <2>6. t > budget.typed => taken[t] = 0 /\ ui'.text # t /\ \A r \in Slots : ~Sends(t, r)'
      BY <2>1, <2>2, <2>3 DEF Revises
  <2>q. QED
      BY <1>2, <2>1, <2>2, <2>4, <2>5, <2>6 DEF Revises
<1>9. RevisesOnce'
    BY <1>2, <1>8 DEF RevisesOnce, Playbook!Texts
<1>q. QED
    BY <1>3, <1>5, <1>7, <1>9, TypesAfter DEF PlaybookInv

\* A call goes out: its hook waits for it from now on.
LEMMA AskSteps ==
    ASSUME Playbook!PlaybookDeskAssumption, PlaybookInv, NEW c \in Playbook!CallRecord, Playbook!Ask(c),
           c.st = "sent", c.alive = TRUE, UNCHANGED ui, again \subseteq again', again' \subseteq Playbook!Texts,
           c.op \in {"refine", "retry", "delete"} => c.job \in Jobs,
           c.op = "refine" <=> c.text # None,
           c.op = "refine" => c.text = ui.text /\ (Playbook!Pending("refine") => c.text \in again')
    PROVE  PlaybookInv'
<1>1. PlaybookTypes /\ UiTypes /\ BudgetTypes /\ CallTypes
    BY TypesAre DEF PlaybookInv
<1>2. PICK s \in Slots : calls[s] = None /\ calls' = [calls EXCEPT ![s] = c] /\ latest' = [latest EXCEPT ![c.op] = s]
    BY DEF Playbook!Ask, Playbook!Post
<1>3. UNCHANGED <<job, out, taken, list, told, lost, ui>> /\ Playbook!Spend("calls")
    BY DEF Playbook!Ask, Playbook!server
<1>4. c # None /\ None \notin Slots /\ c.op \in Playbook!Ops
    BY DEF Playbook!PlaybookDeskAssumption, Playbook!CallRecord
<1>5. BudgetTypes' /\ budget'.typed = budget.typed /\ budget'.used = budget.used
    BY <1>1, <1>3, SpendTypes
<1>6. PlaybookTypes' /\ UiTypes'
    BY <1>1, <1>3, <1>5 DEF PlaybookTypes, UiTypes
<1>7. /\ calls'[s] = c /\ \A r \in Slots : r # s => calls'[r] = calls[r]
      /\ latest'[c.op] = s /\ \A op \in Playbook!Ops : op # c.op => latest'[op] = latest[op]
    BY <1>1, <1>2, <1>4 DEF CallTypes
<1>8. CallTypes'
  <2>1. calls' \in [Slots -> Playbook!CallRecord \cup {None}] /\ latest' \in [Playbook!Ops -> Slots \cup {None}]
      BY <1>1, <1>2, <1>4 DEF CallTypes
  <2>2. ASSUME NEW op \in Playbook!Ops, latest'[op] # None
        PROVE  calls'[latest'[op]] # None /\ calls'[latest'[op]].op = op
    <3>1. CASE op = c.op
        BY <1>4, <1>7, <3>1
    <3>2. CASE op # c.op
      <4>1. latest'[op] = latest[op] /\ latest[op] \in Slots /\ latest[op] # s
          BY <1>1, <1>2, <1>7, <2>2, <3>2 DEF CallTypes, Playbook!Pending
      <4>q. QED
          BY <1>1, <1>7, <2>2, <4>1 DEF CallTypes, Playbook!Pending
    <3>q. QED
        BY <3>1, <3>2
  <2>3. \A r \in Slots : calls'[r] # None => Names(calls'[r])
      BY <1>1, <1>7 DEF CallTypes, Names
  <2>q. QED
      BY <2>1, <2>2, <2>3 DEF CallTypes, Playbook!Pending
<1>9. ASSUME NEW t \in Playbook!Texts, t \notin again' PROVE Revises(t)'
  <2>1. Revises(t) /\ t # None
      BY <1>9 DEF PlaybookInv, RevisesOnce, Playbook!PlaybookDeskAssumption
  <2>2. ~Sends(t, s)
      BY <1>2 DEF Sends
  <2>3. \A r \in Slots : r # s => (Sends(t, r)' <=> Sends(t, r))
      BY <1>7 DEF Sends
  <2>4. CASE c.text = t
    <3>1. c.op = "refine" /\ ui.text = t /\ latest["refine"] = None
        BY <1>9, <2>1, <2>4 DEF Playbook!Pending
    <3>2. \A r \in Slots : ~Sends(t, r)
        BY <1>4, <2>1, <3>1 DEF Revises
    <3>3. Sends(t, s)' /\ (\A r \in Slots : Sends(t, r)' => r = s)
        BY <1>4, <1>7, <2>3, <2>4, <3>2 DEF Sends
    <3>4. taken[t] # 1 /\ ~(t > budget.typed)
        BY <2>1, <3>1, <3>2 DEF Revises
    <3>5. calls'[s].alive /\ latest'["refine"] = s
        BY <1>7, <3>1
    <3>q. QED
        BY <1>3, <1>5, <2>1, <3>3, <3>4, <3>5 DEF Revises
  <2>5. CASE c.text # t
    <3>1. \A r \in Slots : Sends(t, r)' <=> Sends(t, r)
        BY <1>7, <2>2, <2>3, <2>5 DEF Sends
    <3>2. \A r \in Slots : Sends(t, r) => calls'[r] = calls[r]
        BY <1>7, <2>2
    <3>3. ui.text = t => latest'["refine"] = latest["refine"]
        BY <1>7, <2>5 DEF Playbook!Ops
    <3>q. QED
        BY <1>3, <1>5, <2>1, <3>1, <3>2, <3>3 DEF Revises
  <2>q. QED
      BY <2>4, <2>5
<1>10. RevisesOnce'
    BY <1>9 DEF RevisesOnce, Playbook!Texts
<1>q. QED
    BY <1>5, <1>6, <1>8, <1>10, TypesAfter DEF PlaybookInv

\* A fresh instruction is in the box, and nowhere else.
LEMMA TypeSteps ==
    ASSUME Playbook!PlaybookDeskAssumption, PlaybookInv, Playbook!Type
    PROVE  PlaybookInv'
<1>1. PlaybookTypes /\ UiTypes /\ BudgetTypes /\ CallTypes
    BY TypesAre DEF PlaybookInv
<1> DEFINE u == budget.typed + 1
<1>2. /\ budget.typed < budget.texts /\ ui' = [ui EXCEPT !.text = u] /\ budget' = [budget EXCEPT !.typed = u]
      /\ UNCHANGED <<job, out, taken, list, calls, latest, told, again>>
      /\ lost' \subseteq lost \cup ({ui.text} \ {None}) \cup {u}
    BY DEF Playbook!Type, Playbook!server, Playbook!browser
<1>3. u \in Playbook!Texts /\ u > budget.typed /\ MaxTexts \in Nat /\ budget.typed \in Nat
    BY <1>1, <1>2 DEF Playbook!Texts, Playbook!PlaybookDeskAssumption, BudgetTypes
<1>4. BudgetTypes' /\ budget'.typed = u /\ budget'.used = budget.used
    BY <1>1, <1>2, <1>3 DEF BudgetTypes, Playbook!Texts
<1>5. UiTypes' /\ ui'.text = u
    BY <1>1, <1>2, <1>3 DEF UiTypes
<1>6. PlaybookTypes'
    BY <1>1, <1>2, <1>3 DEF PlaybookTypes, UiTypes
<1>7. CallTypes'
    BY <1>1, <1>2, <1>4 DEF CallTypes, Playbook!Pending
<1>8. ASSUME NEW t \in Playbook!Texts, t \notin again PROVE Revises(t)'
  <2>1. Revises(t) /\ t \in Nat
      BY <1>8 DEF PlaybookInv, RevisesOnce, Playbook!Texts
  <2>2. \A r \in Slots : Sends(t, r)' <=> Sends(t, r)
      BY <1>2 DEF Sends
  <2>3. CASE t = u
    <3>1. taken[t] = 0 /\ \A r \in Slots : ~Sends(t, r)
        BY <1>3, <2>1, <2>3 DEF Revises
    <3>2. ~(t > u)
        BY <1>3, <2>1, <2>3
    <3>q. QED
        BY <1>2, <1>4, <2>2, <3>1, <3>2 DEF Revises
  <2>4. CASE t # u
    <3>1. t > u => t > budget.typed
        BY <1>3, <2>1
    <3>q. QED
        BY <1>2, <1>4, <1>5, <2>1, <2>2, <2>4, <3>1 DEF Revises
  <2>q. QED
      BY <2>3, <2>4
<1>9. RevisesOnce'
    BY <1>2, <1>8 DEF RevisesOnce, Playbook!Texts
<1>q. QED
    BY <1>4, <1>5, <1>6, <1>7, <1>9, TypesAfter DEF PlaybookInv

\* A page is left: the box goes, and nobody waits for the calls any more.
LEMMA GoSteps ==
    ASSUME Playbook!PlaybookDeskAssumption, PlaybookInv, NEW p \in Playbook!Pages, Playbook!Go(p)
    PROVE  PlaybookInv'
<1>1. PlaybookTypes /\ UiTypes /\ BudgetTypes /\ CallTypes
    BY TypesAre DEF PlaybookInv
<1>2. /\ ui' = [Playbook!NoUi EXCEPT !.page = p] /\ Playbook!Spend("opens")
      /\ lost' \subseteq lost \cup Playbook!Texts
      /\ list' \in {list} \cup Playbook!Mounted(list)
      /\ calls' = [s \in Slots |-> IF calls[s] = None THEN None ELSE [calls[s] EXCEPT !.alive = FALSE]]
      /\ latest' = [op \in Playbook!Ops |-> None]
      /\ UNCHANGED <<job, out, taken, told, again>>
    BY DEF Playbook!Go, Playbook!server
<1>3. None \notin Playbook!CallRecord /\ None \notin Playbook!Texts
    BY DEF Playbook!PlaybookDeskAssumption
<1>4. UiTypes' /\ ui'.text = None
    BY <1>2 DEF UiTypes, Playbook!NoUi
<1>5. BudgetTypes' /\ budget'.typed = budget.typed /\ budget'.used = budget.used
    BY <1>1, <1>2, SpendTypes
<1>6. list' \in Playbook!Entry([Jobs -> Playbook!JobRow \cup {None}])
  <2>1. job \in [Jobs -> Playbook!JobRow \cup {None}] \cup {None}
      BY <1>1 DEF PlaybookTypes
  <2>q. QED
      BY <1>1, <1>2, <2>1, EntriesTyped DEF PlaybookTypes
<1>7. PlaybookTypes'
    BY <1>1, <1>2, <1>5, <1>6 DEF PlaybookTypes
<1>8. ASSUME NEW s \in Slots
      PROVE  /\ calls'[s] \in Playbook!CallRecord \cup {None} /\ (calls'[s] = None <=> calls[s] = None)
             /\ calls[s] # None => /\ calls'[s].text = calls[s].text /\ calls'[s].st = calls[s].st
                                   /\ calls'[s].op = calls[s].op /\ calls'[s].job = calls[s].job
                                   /\ calls'[s].copy = calls[s].copy
  <2>1. calls'[s] = IF calls[s] = None THEN None ELSE [calls[s] EXCEPT !.alive = FALSE]
      BY <1>2
  <2>2. calls[s] # None => calls[s] \in Playbook!CallRecord
      BY <1>1 DEF CallTypes
  <2>3. calls[s] # None => [calls[s] EXCEPT !.alive = FALSE] \in Playbook!CallRecord
      BY <2>2 DEF Playbook!CallRecord
  <2>q. QED
      BY <1>3, <2>1, <2>2, <2>3 DEF Playbook!CallRecord
<1>9. CallTypes'
  <2>1. calls' \in [Slots -> Playbook!CallRecord \cup {None}] /\ latest' \in [Playbook!Ops -> Slots \cup {None}]
    <3>1. DOMAIN calls' = Slots /\ calls' = [s \in Slots |-> calls'[s]]
        BY <1>2
    <3>q. QED
        BY <1>2, <1>8, <3>1
  <2>2. \A op \in Playbook!Ops : latest'[op] = None
      BY <1>2
  <2>3. \A s \in Slots : calls'[s] # None => Names(calls'[s])
      BY <1>1, <1>8 DEF CallTypes, Names
  <2>q. QED
      BY <2>1, <2>2, <2>3 DEF CallTypes, Playbook!Pending
<1>10. ASSUME NEW t \in Playbook!Texts, t \notin again PROVE Revises(t)'
  <2>1. Revises(t) /\ t # None
      BY <1>3, <1>10 DEF PlaybookInv, RevisesOnce
  <2>2. \A r \in Slots : Sends(t, r)' <=> Sends(t, r)
      BY <1>8 DEF Sends
  <2>3. \A r \in Slots : Sends(t, r) => calls'[r].st = calls[r].st
      BY <1>8 DEF Sends
  <2>q. QED
      BY <1>2, <1>4, <1>5, <2>1, <2>2, <2>3 DEF Revises
<1>11. RevisesOnce'
    BY <1>2, <1>10 DEF RevisesOnce, Playbook!Texts
<1>q. QED
    BY <1>4, <1>5, <1>7, <1>9, <1>11, TypesAfter DEF PlaybookInv

\* The calls that the pages make.
LEMMA CallSteps ==
    ASSUME Playbook!PlaybookDeskAssumption, PlaybookInv,
           \/ Playbook!HandleCreate \/ Playbook!HandleGenerate \/ Playbook!HandleDelete
           \/ \E j \in Jobs : Playbook!HandleRetry(j)
           \/ Playbook!Press \/ Playbook!Enter
    PROVE  PlaybookInv'
<1>1. Playbook!TypeOK /\ PlaybookTypes /\ UiTypes
    BY TypesAre DEF PlaybookInv
<1>2. ASSUME NEW op \in Playbook!Ops \ {"refine"}, NEW j \in Jobs \cup {None}, op \in {"retry", "delete"} => j \in Jobs,
             Playbook!Ask(Playbook!Call(op, j)), UNCHANGED <<ui, again>>
      PROVE  PlaybookInv'
  <2>1. SUFFICES ASSUME NEW c, c = Playbook!Call(op, j) PROVE PlaybookInv'
      OBVIOUS
  <2>2. /\ c \in Playbook!CallRecord /\ c.st = "sent" /\ c.alive = TRUE /\ c.op = op /\ c.job = j /\ c.text = None
      BY <2>1 DEF Playbook!Call, Playbook!CallRecord
  <2>3. again \subseteq Playbook!Texts /\ c.op # "refine"
      BY <1>1, <2>2 DEF PlaybookTypes
  <2>q. QED
      BY <1>2, <2>1, <2>2, <2>3, AskSteps
<1>3. CASE Playbook!HandleCreate
    BY <1>2, <1>3 DEF Playbook!HandleCreate, Playbook!Ops
<1>4. CASE Playbook!HandleGenerate
    BY <1>2, <1>4 DEF Playbook!HandleGenerate, Playbook!Ops
<1>5. CASE Playbook!HandleDelete
  <2>1. ui.erase \in Jobs
      BY <1>1, <1>5 DEF Playbook!HandleDelete, UiTypes
  <2>q. QED
      BY <1>2, <1>5, <2>1 DEF Playbook!HandleDelete, Playbook!Ops
<1>6. CASE \E j \in Jobs : Playbook!HandleRetry(j)
    BY <1>2, <1>6 DEF Playbook!HandleRetry, Playbook!Ops
<1>7. CASE Playbook!Press \/ Playbook!Enter
  <2>1. SUFFICES ASSUME NEW c, c = [Playbook!Call("refine", Playbook!Current) EXCEPT !.text = ui.text] PROVE PlaybookInv'
      OBVIOUS
  <2>2. Playbook!HandleRefine
      BY <1>7 DEF Playbook!Press, Playbook!Enter
  <2>3. Playbook!Ask(c) /\ UNCHANGED ui /\ ui.text # None /\ Playbook!Current \in Jobs
      BY <1>1, <2>1, <2>2, CurrentIsJob DEF Playbook!HandleRefine, Playbook!Box
  <2>4. ui.text \in Playbook!Texts
      BY <1>1, <2>3 DEF UiTypes
  <2>5. /\ c \in Playbook!CallRecord /\ c.st = "sent" /\ c.alive = TRUE /\ c.op = "refine"
        /\ c.job = Playbook!Current /\ c.text = ui.text
      BY <2>1, <2>3, <2>4 DEF Playbook!Call, Playbook!CallRecord, Playbook!Ops
  <2>6. /\ again \subseteq again' /\ again' \subseteq Playbook!Texts
        /\ Playbook!Pending("refine") => ui.text \in again'
      BY <1>1, <1>7, <2>4 DEF Playbook!Press, Playbook!Enter, PlaybookTypes
  <2>q. QED
      BY <2>3, <2>5, <2>6, AskSteps
<1>q. QED
    BY <1>3, <1>4, <1>5, <1>6, <1>7

LEMMA PlaybookInit ==
    ASSUME Playbook!PlaybookDeskAssumption, Playbook!Init
    PROVE  PlaybookInv
<1>1. PICK b \in PlaybookBounds :
          /\ budget = [calls |-> b.calls, opens |-> b.opens, faults |-> b.faults, others |-> b.others,
                       texts |-> b.texts, typed |-> 0, used |-> b.jobs]
          /\ job = [j \in Jobs |-> IF j \in b.jobs THEN [st |-> "success", ev |-> j \in b.linked] ELSE None]
          /\ ui = [Playbook!NoUi EXCEPT !.page = b.page]
    BY DEF Playbook!Init
<1>2. /\ out = [j \in Jobs |-> 0] /\ list = Playbook!Loaded(job)
      /\ calls = [s \in Slots |-> None] /\ latest = [op \in Playbook!Ops |-> None]
      /\ told = FALSE /\ lost = {} /\ again = {} /\ taken = [t \in Playbook!Texts |-> 0]
    BY DEF Playbook!Init
<1>3. /\ b.jobs \subseteq Jobs /\ b.page \in Playbook!Pages /\ b.texts \in 0 .. MaxTexts /\ MaxTexts \in Nat
      /\ b.calls \in Nat /\ b.opens \in Nat /\ b.faults \in Nat /\ b.others \in Nat
      /\ None \notin Playbook!JobRow /\ None \notin Playbook!Texts
    BY <1>1 DEF Playbook!PlaybookDeskAssumption
<1>4. job \in [Jobs -> Playbook!JobRow \cup {None}]
    BY <1>1 DEF Playbook!JobRow, Playbook!Status
<1>5. list \in Playbook!Entry([Jobs -> Playbook!JobRow \cup {None}])
    BY <1>2, <1>4 DEF Playbook!Loaded, Playbook!NoEntry, Playbook!Entry
<1>6. PlaybookTypes
    BY <1>2, <1>4, <1>5 DEF PlaybookTypes
<1>7. UiTypes /\ ui.text = None
    BY <1>1, <1>3 DEF UiTypes, Playbook!NoUi
<1>8. BudgetTypes /\ budget.typed = 0 /\ budget.used = b.jobs
    BY <1>1, <1>3 DEF BudgetTypes
<1>9. CallTypes
    BY <1>2 DEF CallTypes, Playbook!Pending
<1>10. RevisesOnce
  <2>1. \A t \in Playbook!Texts : taken[t] = 0 /\ ui.text # t /\ \A s \in Slots : ~Sends(t, s)
      BY <1>2, <1>3, <1>7 DEF Sends
  <2>q. QED
      BY <2>1 DEF RevisesOnce, Revises
<1>11. Playbook!TypeOK /\ CallsNameThem
    BY <1>6, <1>7, <1>8, <1>9, TypesAre
<1>q. QED
    BY <1>10, <1>11 DEF PlaybookInv

LEMMA PlaybookNext ==
    ASSUME Playbook!PlaybookDeskAssumption, PlaybookInv, [Playbook!Next]_(Playbook!vars)
    PROVE  PlaybookInv'
<1>1. CASE UNCHANGED Playbook!vars
  <2>1. UNCHANGED <<job, out, list, calls, latest, ui, budget, told, lost, again, taken>>
      BY <1>1 DEF Playbook!vars
  <2>2. PlaybookTypes' /\ UiTypes' /\ BudgetTypes'
      BY <2>1, TypesAre DEF PlaybookInv, PlaybookTypes, UiTypes, BudgetTypes
  <2>q. QED
      BY <2>1, <2>2, QuietKeeps
<1>2. CASE Playbook!Poll \/ Playbook!Query \/ Playbook!LoadFails
    BY <1>2, ListSteps
<1>3. CASE \E s \in Slots : Playbook!Handle(s) \/ Playbook!LoseCall(s) \/ Playbook!Deliver(s)
    BY <1>3, HandleSteps, DeliverSteps
<1>4. CASE (\E j \in Jobs : Playbook!Report(j) \/ Playbook!LoseReport(j) \/ Playbook!GiveUp(j)) \/ Playbook!Elsewhere
    BY <1>4, TaskSteps
<1>5. CASE Playbook!UseList
    BY <1>5, OpenSteps, CallSteps DEF Playbook!UseList
<1>6. CASE Playbook!UseCard
    BY <1>6, OpenSteps, CallSteps DEF Playbook!UseCard
<1>7. CASE Playbook!UseBox
    BY <1>7, TypeSteps, CallSteps DEF Playbook!UseBox
<1>8. CASE Playbook!Dismiss
    BY <1>8, OpenSteps
<1>9. CASE \E p \in Playbook!Pages : Playbook!Go(p)
    BY <1>9, GoSteps
<1>q. QED
    BY <1>1, <1>2, <1>3, <1>4, <1>5, <1>6, <1>7, <1>8, <1>9 DEF Playbook!Next

LEMMA OneOfEach == ASSUME PlaybookInv PROVE Playbook!RevisedOnce
<1>1. taken \in [Playbook!Texts -> Nat]
    BY TypesAre DEF PlaybookInv, PlaybookTypes
<1>q. QED
    BY <1>1 DEF PlaybookInv, RevisesOnce, Revises, Playbook!RevisedOnce

-----------------------------------------------------------------------------
(* The instructions for a playbook *)

\* An instruction stays in the box until the server has taken it; what the box
\* holds while a revision is awaited is that revision's, or given up.
Stands(t) == t \in lost \/ ui.text = t \/ taken[t] > 0
Settled(s) ==
    /\ calls[s].st = "ok" => taken[calls[s].text] > 0
    /\ calls[s].alive => ui.text \in {None, calls[s].text} \cup lost
InstructionInv ==
    /\ \A t \in 1 .. budget.typed : Stands(t)
    /\ \A s \in Slots : calls[s] # None /\ calls[s].op = "refine" => Settled(s)

-----------------------------------------------------------------------------

\* What is typed is an instruction, and so is what a revision is asked with.
LEMMA InstructionsTyped ==
    ASSUME PlaybookInv, Playbook!PlaybookDeskAssumption
    PROVE  /\ 1 .. budget.typed \subseteq Playbook!Texts /\ budget.typed \in Nat
           /\ \A s \in Slots : calls[s] # None => /\ calls[s] \in Playbook!CallRecord
                                                  /\ calls[s].op = "refine" => calls[s].text \in Playbook!Texts
<1>1. PlaybookTypes /\ UiTypes /\ BudgetTypes /\ CallTypes
    BY TypesAre DEF PlaybookInv
<1>2. budget.typed \in 0 .. MaxTexts /\ MaxTexts \in Nat
    BY <1>1 DEF BudgetTypes, Playbook!PlaybookDeskAssumption
<1>3. 1 .. budget.typed \subseteq Playbook!Texts /\ budget.typed \in Nat
    BY <1>2 DEF Playbook!Texts
<1>4. ASSUME NEW s \in Slots, calls[s] # None
      PROVE  /\ calls[s] \in Playbook!CallRecord
             /\ calls[s].op = "refine" => calls[s].text \in Playbook!Texts
  <2>1. calls[s] \in Playbook!CallRecord
      BY <1>1, <1>4 DEF CallTypes
  <2>2. calls[s].text \in Playbook!Texts \cup {None}
      BY <2>1 DEF Playbook!CallRecord
  <2>q. QED
      BY <1>1, <1>4, <2>1, <2>2 DEF CallTypes, Names
<1>q. QED
    BY <1>3, <1>4

\* The box and the calls stay, and what is given up or taken grows.
LEMMA InstructionsStay ==
    ASSUME InstructionInv, UNCHANGED calls, ui'.text = ui.text, budget'.typed = budget.typed,
           lost' = lost, taken' = taken
    PROVE  InstructionInv'
<1>1. \A t \in 1 .. budget'.typed : Stands(t)'
    BY DEF InstructionInv, Stands
<1>2. \A s \in Slots : calls'[s] # None /\ calls'[s].op = "refine" => Settled(s)'
    BY DEF InstructionInv, Settled
<1>q. QED
    BY <1>1, <1>2 DEF InstructionInv

\* A call comes, or one goes on; the server takes the instruction of one that succeeds.
LEMMA InstructionsMove ==
    ASSUME PlaybookInv, Playbook!PlaybookDeskAssumption, InstructionInv, NEW s \in Slots,
           NEW c \in Playbook!CallRecord \cup {None}, calls' = [calls EXCEPT ![s] = c],
           UNCHANGED <<ui, lost>>, budget'.typed = budget.typed,
           \A t \in Playbook!Texts : taken[t] > 0 => taken'[t] > 0,
           c # None /\ c.op = "refine" =>
               /\ c.st = "ok" => taken'[c.text] > 0
               /\ c.alive => ui.text \in {None, c.text} \cup lost
    PROVE  InstructionInv'
<1>1. \A t \in 1 .. budget'.typed : Stands(t)'
    BY InstructionsTyped DEF InstructionInv, Stands
<1>2. ASSUME NEW r \in Slots, calls'[r] # None, calls'[r].op = "refine"
      PROVE  Settled(r)'
  <2>0. calls'[r] = IF r = s THEN c ELSE calls[r]
    <3>1. DOMAIN calls = Slots
        BY TypesAre DEF PlaybookInv, CallTypes
    <3>q. QED
        BY <3>1
  <2>1. CASE r = s
      BY <1>2, <2>0, <2>1 DEF Settled
  <2>2. CASE r # s
    <3>1. Settled(r) /\ calls'[r] = calls[r] /\ calls[r].text \in Playbook!Texts
        BY <1>2, <2>0, <2>2, InstructionsTyped DEF InstructionInv
    <3>q. QED
        BY <3>1 DEF Settled
  <2>q. QED
      BY <2>1, <2>2
<1>q. QED
    BY <1>1, <1>2 DEF InstructionInv

\* The steps of the lists, of the tasks and of the dialogs leave the instructions alone.
LEMMA ElsewhereStays ==
    ASSUME PlaybookInv, Playbook!PlaybookDeskAssumption, InstructionInv,
           \/ Playbook!Poll \/ Playbook!Query \/ Playbook!LoadFails \/ Playbook!Elsewhere
           \/ \E j \in Jobs : Playbook!Report(j) \/ Playbook!LoseReport(j) \/ Playbook!GiveUp(j)
           \/ Playbook!OpenCreate \/ Playbook!OpenGenerate \/ Playbook!OpenCard \/ Playbook!Dismiss
           \/ \E j \in Jobs : Playbook!AskDelete(j) \/ \E v \in BOOLEAN : Playbook!OpenDetail(j, v)
    PROVE  InstructionInv'
<1>1. UiTypes /\ BudgetTypes
    BY TypesAre DEF PlaybookInv
<1> USE DEF Playbook!server, Playbook!browser, Playbook!history
<1>2. CASE Playbook!Poll \/ Playbook!Query
  <2>1. UNCHANGED <<calls, ui, budget, lost, taken>>
      BY <1>2 DEF Playbook!Poll, Playbook!Query, Playbook!Serve, Playbook!Store
  <2>q. QED
      BY <2>1, InstructionsStay
<1>3. CASE Playbook!LoadFails \/ Playbook!Elsewhere
  <2>1. UNCHANGED <<calls, ui, lost, taken>> /\ \E b \in {"faults", "others"} : Playbook!Spend(b)
      BY <1>3 DEF Playbook!LoadFails, Playbook!Elsewhere
  <2>2. budget'.typed = budget.typed
      BY <1>1, <2>1, SpendTypes
  <2>q. QED
      BY <2>1, <2>2, InstructionsStay
<1>4. CASE \E j \in Jobs : Playbook!Report(j) \/ Playbook!LoseReport(j) \/ Playbook!GiveUp(j)
  <2>1. UNCHANGED <<calls, ui, lost, taken>> /\ (UNCHANGED budget \/ Playbook!Spend("faults"))
      BY <1>4 DEF Playbook!Report, Playbook!LoseReport, Playbook!GiveUp
  <2>2. budget'.typed = budget.typed
      BY <1>1, <2>1, SpendTypes
  <2>q. QED
      BY <2>1, <2>2, InstructionsStay
<1>5. CASE \/ Playbook!OpenCreate \/ Playbook!OpenGenerate \/ Playbook!OpenCard \/ Playbook!Dismiss
           \/ \E j \in Jobs : Playbook!AskDelete(j) \/ \E v \in BOOLEAN : Playbook!OpenDetail(j, v)
  <2>1. UNCHANGED <<calls, lost, taken>> /\ ui'.text = ui.text /\ (Playbook!Spend("opens") \/ budget' = budget)
      BY <1>1, <1>5, DialogSteps
  <2>2. budget'.typed = budget.typed
      BY <1>1, <2>1, SpendTypes
  <2>q. QED
      BY <2>1, <2>2, InstructionsStay
<1>q. QED
    BY <1>2, <1>3, <1>4, <1>5

LEMMA HandledStays ==
    ASSUME PlaybookInv, Playbook!PlaybookDeskAssumption, InstructionInv, NEW s \in Slots,
           Playbook!Handle(s) \/ Playbook!LoseCall(s)
    PROVE  InstructionInv'
<1>1. BudgetTypes /\ CallTypes /\ taken \in [Playbook!Texts -> Nat]
    BY TypesAre DEF PlaybookInv, PlaybookTypes
<1>2. calls[s] # None /\ UNCHANGED <<ui, lost>>
    BY HandleGoes
<1>3. calls[s] \in Playbook!CallRecord /\ (calls[s].op = "refine" => calls[s].text \in Playbook!Texts)
    BY <1>2, InstructionsTyped
<1>4. PICK st \in {"held", "ok", "failed"}, cp \in Playbook!JobRow \cup {None} :
          /\ Goes(s, st, cp)
          /\ st = "ok" => Playbook!Create(s) \/ Playbook!Refine(s) \/ Playbook!Retry(s) \/ Playbook!Delete(s)
    BY HandleGoes
<1>5. PICK c \in Playbook!CallRecord : c = [calls[s] EXCEPT !.st = st, !.copy = cp]
    BY <1>3 DEF Playbook!CallRecord
<1>6. /\ c.st = st /\ c.op = calls[s].op /\ c.text = calls[s].text /\ c.alive = calls[s].alive
      /\ calls' = [calls EXCEPT ![s] = c]
    BY <1>1, <1>3, <1>4, <1>5 DEF Playbook!CallRecord, CallTypes, Goes
<1>7. budget'.typed = budget.typed
  <2>1. CASE Playbook!Create(s)
      BY <1>1, <2>1 DEF Playbook!Create, BudgetTypes
  <2>2. CASE ~Playbook!Create(s)
    <3>1. UNCHANGED budget \/ Playbook!Spend("faults")
        BY <2>2 DEF Playbook!Handle, Playbook!Refuse, Playbook!Check, Playbook!Collide, Playbook!Refine, Playbook!Retry,
                    Playbook!Delete, Playbook!LoseCall
    <3>q. QED
        BY <1>1, <3>1, SpendTypes
  <2>q. QED
      BY <2>1, <2>2
<1>8. /\ \A t \in Playbook!Texts : taken[t] > 0 => taken'[t] > 0
      /\ Playbook!Refine(s) => calls[s].op = "refine" /\ taken'[calls[s].text] > 0
  <2>1. CASE Playbook!Refine(s)
    <3>1. taken' = [taken EXCEPT ![calls[s].text] = @ + 1] /\ calls[s].op = "refine"
        BY <2>1 DEF Playbook!Refine, Playbook!Holds
    <3>2. calls[s].text \in Playbook!Texts
        BY <1>3, <3>1
    <3>q. QED
        BY <1>1, <3>1, <3>2
  <2>2. CASE ~Playbook!Refine(s)
    <3>1. taken' = taken
        BY <2>2 DEF Playbook!Handle, Playbook!Create, Playbook!Refuse, Playbook!Check, Playbook!Collide, Playbook!Retry,
                    Playbook!Delete, Playbook!LoseCall, Playbook!server
    <3>q. QED
        BY <2>2, <3>1
  <2>q. QED
      BY <2>1, <2>2
<1>9. c.op = "refine" /\ st = "ok" => Playbook!Refine(s)
    BY <1>4, <1>6 DEF Playbook!Create, Playbook!Retry, Playbook!Delete, Playbook!Sent, Playbook!Holds
<1>10. c.op = "refine" /\ c.alive => ui.text \in {None, c.text} \cup lost
    BY <1>2, <1>6 DEF InstructionInv, Settled
<1>q. QED
    BY <1>2, <1>6, <1>7, <1>8, <1>9, <1>10, InstructionsMove

\* The answer to a revision empties the box only if the server has taken what is in it,
\* or the user has given it up.
LEMMA DeliveredStays ==
    ASSUME PlaybookInv, Playbook!PlaybookDeskAssumption, InstructionInv, NEW s \in Slots, Playbook!Deliver(s)
    PROVE  InstructionInv'
<1>1. UiTypes /\ CallTypes
    BY TypesAre DEF PlaybookInv
<1>2. /\ calls[s] # None /\ UNCHANGED <<taken, budget, lost>>
      /\ calls' = [calls EXCEPT ![s] = None]
      /\ ui' = Playbook!Closed(calls[s])
    BY DEF Playbook!Deliver, Playbook!server, Playbook!history
<1>3. PICK c \in Playbook!CallRecord : c = calls[s] /\ (c.op = "refine" => Settled(s) /\ c.text \in Playbook!Texts)
    BY <1>2, InstructionsTyped DEF InstructionInv
<1>4. \/ ui'.text = ui.text
      \/ c.op = "refine" /\ c.alive /\ c.st = "ok" /\ ui'.text = None
  <2>1. c.alive \in BOOLEAN
      BY <1>3 DEF Playbook!CallRecord
  <2>q. QED
      BY <1>1, <1>2, <1>3, <2>1 DEF Playbook!Closed, Playbook!Emptied, UiTypes
<1>5. ASSUME NEW t \in 1 .. budget'.typed PROVE Stands(t)'
  <2>1. Stands(t) /\ t # None /\ t \in Playbook!Texts
      BY <1>2, <1>5, InstructionsTyped DEF InstructionInv, Playbook!PlaybookDeskAssumption
  <2>2. CASE ui'.text = ui.text
      BY <1>2, <2>1, <2>2 DEF Stands
  <2>3. CASE c.op = "refine" /\ c.alive /\ c.st = "ok" /\ ui.text = t
    <3>1. taken[c.text] > 0 /\ ui.text \in {None, c.text} \cup lost
        BY <1>3, <2>3 DEF Settled
    <3>q. QED
        BY <1>2, <2>1, <2>3, <3>1 DEF Stands
  <2>4. CASE ui.text # t
      BY <1>2, <2>1, <2>4 DEF Stands
  <2>q. QED
      BY <1>4, <2>2, <2>3, <2>4
<1>6. ASSUME NEW r \in Slots, calls'[r] # None, calls'[r].op = "refine"
      PROVE  Settled(r)'
  <2>1. r # s /\ calls'[r] = calls[r]
      BY <1>1, <1>2, <1>6 DEF CallTypes
  <2>2. Settled(r)
      BY <1>6, <2>1 DEF InstructionInv
  <2>3. ui'.text \in {ui.text, None}
      BY <1>4
  <2>q. QED
      BY <1>2, <2>1, <2>2, <2>3 DEF Settled
<1>q. QED
    BY <1>5, <1>6 DEF InstructionInv

\* What is typed over is given up, and what is typed while a revision is awaited.
LEMMA TypedStays ==
    ASSUME PlaybookInv, Playbook!PlaybookDeskAssumption, InstructionInv, Playbook!Type
    PROVE  InstructionInv'
<1>1. UiTypes /\ BudgetTypes /\ CallTypes
    BY TypesAre DEF PlaybookInv
<1>2. PICK u \in Nat : u = budget.typed + 1
    BY InstructionsTyped
<1>3. /\ ui' = [ui EXCEPT !.text = u] /\ budget' = [budget EXCEPT !.typed = u]
      /\ UNCHANGED <<calls, taken>>
      /\ lost \cup ({ui.text} \ {None}) \subseteq lost'
      /\ (\E s \in Slots : calls[s] # None /\ calls[s].op = "refine" /\ calls[s].alive) => u \in lost'
    BY <1>2 DEF Playbook!Type, Playbook!server, Playbook!browser
<1>4. ui'.text = u /\ budget'.typed = u
    BY <1>1, <1>3 DEF UiTypes, BudgetTypes
<1>5. ASSUME NEW t \in 1 .. budget'.typed PROVE Stands(t)'
  <2>1. CASE t = u
      BY <1>4, <2>1 DEF Stands
  <2>2. CASE t # u
    <3>1. t \in 1 .. budget.typed
        BY <1>2, <1>4, <2>2, InstructionsTyped
    <3>2. Stands(t) /\ t # None
        BY <3>1, InstructionsTyped DEF InstructionInv, Playbook!PlaybookDeskAssumption
    <3>q. QED
        BY <1>3, <3>2 DEF Stands
  <2>q. QED
      BY <2>1, <2>2
<1>6. ASSUME NEW r \in Slots, calls'[r] # None, calls'[r].op = "refine"
      PROVE  Settled(r)'
  <2>1. Settled(r) /\ calls'[r] = calls[r]
      BY <1>3, <1>6 DEF InstructionInv
  <2>2. calls[r].alive => u \in lost'
      BY <1>3, <1>6, <2>1
  <2>q. QED
      BY <1>3, <1>4, <2>1, <2>2 DEF Settled
<1>q. QED
    BY <1>5, <1>6 DEF InstructionInv

\* A revision is asked with what is in the box.
LEMMA AskedStays ==
    ASSUME PlaybookInv, Playbook!PlaybookDeskAssumption, InstructionInv,
           \/ Playbook!HandleCreate \/ Playbook!HandleGenerate \/ Playbook!HandleDelete
           \/ \E j \in Jobs : Playbook!HandleRetry(j)
           \/ Playbook!Press \/ Playbook!Enter
    PROVE  InstructionInv'
<1>1. UiTypes /\ BudgetTypes /\ Playbook!TypeOK
    BY TypesAre DEF PlaybookInv
<1>2. ASSUME NEW c \in Playbook!CallRecord, Playbook!Ask(c), UNCHANGED ui, c.st = "sent",
             c.op = "refine" => c.text = ui.text
      PROVE  InstructionInv'
  <2>1. UNCHANGED <<taken, lost>> /\ Playbook!Spend("calls")
        /\ \E s \in Slots : calls' = [calls EXCEPT ![s] = c]
      BY <1>2 DEF Playbook!Ask, Playbook!Post, Playbook!server
  <2>2. budget'.typed = budget.typed
      BY <1>1, <2>1, SpendTypes
  <2>3. PICK s \in Slots : calls' = [calls EXCEPT ![s] = c]
      BY <2>1
  <2>4. c \in Playbook!CallRecord \cup {None} /\ UNCHANGED <<ui, lost>>
      BY <1>2, <2>1
  <2>5. \A t \in Playbook!Texts : taken[t] > 0 => taken'[t] > 0
      BY <2>1
  <2>6. c # None /\ c.op = "refine" =>
            /\ c.st = "ok" => taken'[c.text] > 0
            /\ c.alive => ui.text \in {None, c.text} \cup lost
      BY <1>2
  <2>q. QED
      BY <2>2, <2>3, <2>4, <2>5, <2>6, InstructionsMove
<1>3. CASE Playbook!Press \/ Playbook!Enter
  <2>1. Playbook!HandleRefine
      BY <1>3 DEF Playbook!Press, Playbook!Enter
  <2>2. ui.text \in Playbook!Texts /\ Playbook!Current \in Jobs
      BY <1>1, <2>1, CurrentIsJob DEF Playbook!HandleRefine, Playbook!Box, UiTypes
  <2>3. PICK c : c = [Playbook!Call("refine", Playbook!Current) EXCEPT !.text = ui.text]
      OBVIOUS
  <2>4. c \in Playbook!CallRecord /\ c.st = "sent" /\ c.text = ui.text
      BY <2>2, <2>3 DEF Playbook!Call, Playbook!CallRecord, Playbook!Ops
  <2>5. Playbook!Ask(c) /\ UNCHANGED ui
      BY <2>1, <2>3 DEF Playbook!HandleRefine
  <2>q. QED
      BY <1>2, <2>4, <2>5
<1>4. CASE \/ Playbook!HandleCreate \/ Playbook!HandleGenerate \/ Playbook!HandleDelete
           \/ \E j \in Jobs : Playbook!HandleRetry(j)
  <2>1. PICK op \in Playbook!Ops \ {"refine"}, j \in Jobs \cup {None} :
            Playbook!Ask(Playbook!Call(op, j)) /\ UNCHANGED ui
      BY <1>1, <1>4 DEF Playbook!HandleCreate, Playbook!HandleGenerate, Playbook!HandleDelete, Playbook!HandleRetry,
                        Playbook!Ops, UiTypes
  <2>2. PICK c : c = Playbook!Call(op, j)
      OBVIOUS
  <2>3. c \in Playbook!CallRecord /\ c.st = "sent" /\ c.op # "refine"
      BY <2>2 DEF Playbook!Call, Playbook!CallRecord
  <2>q. QED
      BY <1>2, <2>1, <2>2, <2>3
<1>q. QED
    BY <1>3, <1>4

\* A page is left: what is in the box is given up, and nobody waits for the calls.
LEMMA LeftStays ==
    ASSUME PlaybookInv, Playbook!PlaybookDeskAssumption, InstructionInv,
           NEW p \in Playbook!Pages, Playbook!Go(p)
    PROVE  InstructionInv'
<1>1. BudgetTypes /\ CallTypes
    BY TypesAre DEF PlaybookInv
<1>2. /\ ui' = [Playbook!NoUi EXCEPT !.page = p] /\ Playbook!Spend("opens") /\ UNCHANGED taken
      /\ calls' = [s \in Slots |-> IF calls[s] = None THEN None ELSE [calls[s] EXCEPT !.alive = FALSE]]
      /\ lost \subseteq lost'
      /\ \A t \in Playbook!Texts : ui.text = t => t \in lost'
    BY DEF Playbook!Go, Playbook!server
<1>3. ui'.text = None /\ budget'.typed = budget.typed
    BY <1>1, <1>2, SpendTypes DEF Playbook!NoUi
<1>4. \A t \in 1 .. budget'.typed : Stands(t)'
    BY <1>2, <1>3, InstructionsTyped DEF InstructionInv, Stands
<1>5. ASSUME NEW r \in Slots, calls'[r] # None, calls'[r].op = "refine"
      PROVE  Settled(r)'
  <2>1. calls[r] # None /\ calls'[r] = [calls[r] EXCEPT !.alive = FALSE]
      BY <1>2, <1>5
  <2>2. calls'[r].st = calls[r].st /\ calls'[r].text = calls[r].text /\ calls[r].op = "refine"
      BY <1>5, <2>1, InstructionsTyped DEF Playbook!CallRecord
  <2>3. Settled(r)
      BY <2>1, <2>2 DEF InstructionInv
  <2>q. QED
      BY <1>2, <1>3, <2>2, <2>3 DEF Settled
<1>q. QED
    BY <1>4, <1>5 DEF InstructionInv

LEMMA InstructionInit ==
    ASSUME Playbook!PlaybookDeskAssumption, Playbook!Init
    PROVE  InstructionInv
<1>1. budget.typed = 0 /\ calls = [s \in Slots |-> None]
    BY DEF Playbook!Init
<1>2. 1 .. budget.typed = {}
    BY <1>1
<1>q. QED
    BY <1>1, <1>2 DEF InstructionInv

LEMMA InstructionNext ==
    ASSUME Playbook!PlaybookDeskAssumption, PlaybookInv, InstructionInv, [Playbook!Next]_(Playbook!vars)
    PROVE  InstructionInv'
<1>1. CASE UNCHANGED Playbook!vars
  <2>1. UNCHANGED <<calls, ui, budget, lost, taken>>
      BY <1>1 DEF Playbook!vars
  <2>q. QED
      BY <2>1, InstructionsStay
<1>2. CASE Playbook!Poll \/ Playbook!Query \/ Playbook!LoadFails
    BY <1>2, ElsewhereStays
<1>3. CASE \E s \in Slots : Playbook!Handle(s) \/ Playbook!LoseCall(s) \/ Playbook!Deliver(s)
    BY <1>3, HandledStays, DeliveredStays
<1>4. CASE (\E j \in Jobs : Playbook!Report(j) \/ Playbook!LoseReport(j) \/ Playbook!GiveUp(j)) \/ Playbook!Elsewhere
    BY <1>4, ElsewhereStays
<1>5. CASE Playbook!UseList
    BY <1>5, ElsewhereStays, AskedStays DEF Playbook!UseList
<1>6. CASE Playbook!UseCard
    BY <1>6, ElsewhereStays, AskedStays DEF Playbook!UseCard
<1>7. CASE Playbook!UseBox
    BY <1>7, TypedStays, AskedStays DEF Playbook!UseBox
<1>8. CASE Playbook!Dismiss
    BY <1>8, ElsewhereStays
<1>9. CASE \E p \in Playbook!Pages : Playbook!Go(p)
    BY <1>9, LeftStays
<1>q. QED
    BY <1>1, <1>2, <1>3, <1>4, <1>5, <1>6, <1>7, <1>8, <1>9 DEF Playbook!Next

LEMMA InstructionStands ==
    ASSUME InstructionInv
    PROVE  Playbook!InstructionKept
    BY DEF InstructionInv, Stands, Playbook!InstructionKept

-----------------------------------------------------------------------------
(* The pages of the running projects *)

\* A row in order, and a table of such rows, of projects there have been.
SafeRow == {r \in Project!Row : Project!Valid(r.form)}
SafeTables(used) == {t \in [Projects -> SafeRow \cup {None}] : \A p \in Projects : t[p] # None => p \in used}
EntryIn(e, used) == e \in Project!Entry(SafeTables(used)) /\ (e.fetch = "answered" => e.got \in SafeTables(used))

\* The fields that are not to change are sent as they were seen.
SentAsSeen(c) ==
    /\ c.seen \in SafeRow /\ c.aim \cap Notes = {}
    /\ "form" \notin c.aim => c.form = c.seen.form
    /\ \A m \in Milestones \ c.aim : c.miles[m] = c.seen.miles[m]

\* What a call has, by what it is for and by how far it has come.
CallIn(c, used) ==
    /\ c \in Project!CallRecord
    /\ c.op # "create" => c.id \in used
    /\ c.op \in {"create", "update"} => c.form \in Project!FormOf /\ c.form.progress \in 0 .. 200
    /\ c.op = "update" => SentAsSeen(c)
    /\ c.op = "note" => c.note \in Notes /\ c.aim = {c.note}
    /\ c.st = "read" => c.op \in {"update", "note"} /\ c.got \in SafeRow /\ (c.op = "update" => Project!Valid(c.form))

UiRecord ==
    [page : Project!Pages, modal : {Project!NewProject, None} \cup [id : Projects, row : SafeRow], detail : Projects \cup {None},
     erase : Projects \cup {None}, mile : Milestones \cup {None}, note : Notes \cup {None}]
UiIn(u, used) ==
    /\ u \in UiRecord /\ u.detail \in used \cup {None} /\ u.erase \in used \cup {None}
    /\ u.modal # None => u.modal = Project!NewProject \/ u.modal \in [id : used, row : SafeRow]
BudgetRecord == [calls : Nat, opens : Nat, types : Nat, faults : Nat, others : Nat, used : SUBSET Projects]

RowsIn == row \in SafeTables(budget.used) /\ want \in Project!Table
    /\ \A p \in Projects : row[p] # None => want[p] # None
CacheIn ==
    /\ cache = [k \in Project!Keys |-> cache[k]] /\ EntryIn(cache["projects"], budget.used)
    /\ told \in BOOLEAN
CallsIn ==
    /\ calls \in [Slots -> Project!CallRecord \cup {None}]
    /\ \A s \in Slots : calls[s] # None => CallIn(calls[s], budget.used)
    /\ latest \in [Project!Ops -> Slots \cup {None}]
    /\ \A op \in Project!Ops : latest[op] # None => calls[latest[op]] # None /\ calls[latest[op]].op = op
HistoryIn == lost \subseteq Projects \X Project!Fields /\ revived \subseteq gone /\ gone \subseteq budget.used

\* A project that was deleted, with no handler that had its row, has none since.
Stays(p) == row[p] = None /\ \A s \in Slots : calls[s] # None /\ calls[s].st = "read" => calls[s].id # p
GoneStays == \A p \in gone \ revived : Stays(p)

ProjectInv ==
    /\ RowsIn /\ CacheIn /\ CallsIn /\ UiIn(ui, budget.used) /\ budget \in BudgetRecord /\ HistoryIn
    /\ GoneStays /\ Project!EditsKept /\ Project!NotesKept

-----------------------------------------------------------------------------

LEMMA Grows ==
    ASSUME NEW u, NEW v, u \subseteq v
    PROVE  /\ SafeTables(u) \subseteq SafeTables(v)
           /\ \A e : EntryIn(e, u) => EntryIn(e, v)
           /\ \A c : CallIn(c, u) => CallIn(c, v)
           /\ \A x : UiIn(x, u) => UiIn(x, v)
<1>1. SafeTables(u) \subseteq SafeTables(v)
    BY DEF SafeTables
<1>2. \A e : EntryIn(e, u) => EntryIn(e, v)
    BY <1>1 DEF EntryIn, Project!Entry
<1>3. \A c : CallIn(c, u) => CallIn(c, v)
    BY DEF CallIn
<1>4. \A x : UiIn(x, u) => UiIn(x, v)
    BY DEF UiIn
<1>q. QED
    BY <1>1, <1>2, <1>3, <1>4

LEMMA EntriesIn ==
    ASSUME NEW u, NEW e, EntryIn(e, u), NEW t \in SafeTables(u)
    PROVE  /\ EntryIn(Project!Loaded(t), u) /\ EntryIn(Project!NoEntry, u) /\ EntryIn(Project!Refetched(e), u)
              /\ EntryIn(Project!Cancelled(e), u)
           /\ EntryIn(Project!Answered(e, t), u) /\ (e.fetch = "answered" => EntryIn(Project!Stored(e), u))
           /\ \A old : EntryIn(Project!Opened(e, old), u)
           /\ \A w : EntryIn(Project!Invalidated(e, w), u)
<1>1. \A x \in SafeTables(u) \cup {None} : EntryIn(Project!Loaded(x), u)
    BY DEF EntryIn, Project!Entry, Project!Loaded, Project!NoEntry
<1>2. EntryIn(Project!NoEntry, u)
    BY DEF EntryIn, Project!Entry, Project!NoEntry
<1>3. EntryIn(Project!Refetched(e), u)
    BY DEF EntryIn, Project!Entry, Project!Refetched
<1>4. EntryIn(Project!Cancelled(e), u) /\ EntryIn(Project!Answered(e, t), u)
    BY DEF EntryIn, Project!Entry, Project!Cancelled, Project!Answered
<1>5. e.got \in SafeTables(u) \cup {None}
    BY DEF EntryIn, Project!Entry
<1>6. EntryIn(Project!Stored(e), u)
    BY <1>1, <1>5 DEF Project!Stored
<1>7. \A x : EntryIn(x, u) => EntryIn([x EXCEPT !.stale = TRUE], u)
    BY DEF EntryIn, Project!Entry
<1>8. \A w : EntryIn(Project!Invalidated(e, w), u)
    BY <1>3, <1>7 DEF Project!Invalidated
<1>9. \A old : EntryIn(Project!Opened(e, old), u)
    BY <1>3 DEF Project!Opened
<1>q. QED
    BY <1>1, <1>2, <1>3, <1>4, <1>6, <1>8, <1>9

LEMMA SpendIn ==
    ASSUME budget \in BudgetRecord, NEW f \in {"calls", "opens", "types", "faults", "others"}, Project!Spend(f)
    PROVE  budget' \in BudgetRecord /\ budget'.used = budget.used
    BY DEF BudgetRecord, Project!Spend

\* What the list shows is a row in order, of a project there has been.
LEMMA ShownIn ==
    ASSUME CacheIn, NEW p \in Projects, Project!Listed(p)
    PROVE  Project!Shown[p] \in SafeRow /\ p \in budget.used
    BY DEF CacheIn, EntryIn, Project!Entry, SafeTables, Project!Listed, Project!Shown

\* A row in order is sent as it is.
LEMMA SentAsItIs == ASSUME NEW r \in SafeRow PROVE Project!FormToBody(r.form) = r.form
    BY DEF SafeRow, Project!Row, Project!FormOf, Project!Valid, Project!FormToBody

LEMMA BodyIn ==
    ASSUME NEW f \in Project!FormOf
    PROVE  Project!FormToBody(f) \in Project!FormOf /\ Project!FormToBody(f).progress \in 0 .. 200
    BY DEF Project!FormOf, Project!FormToBody

\* A row keeps its parts apart.
LEMMA FieldsApart ==
    ASSUME Project!ProjectDeskAssumption, NEW r
    PROVE  /\ Project!Value(r, "form") = r.form
           /\ \A m \in Milestones : m # "form" /\ Project!Value(r, m) = r.miles[m]
           /\ \A n \in Notes : n # "form" /\ n \notin Milestones /\ Project!Value(r, n) = (n \in r.notes)
    BY DEF Project!ProjectDeskAssumption, Project!Value

\* What neither the table nor the calls see.
LEMMA ProjectQuietKeeps ==
    ASSUME ProjectInv, UNCHANGED <<row, want, calls, latest, lost, gone, revived>>, CacheIn',
           UiIn(ui', budget'.used), budget' \in BudgetRecord, budget'.used = budget.used
    PROVE  ProjectInv'
<1>1. RowsIn' /\ HistoryIn' /\ GoneStays'
    BY DEF ProjectInv, RowsIn, HistoryIn, GoneStays, Stays
<1>2. CallsIn'
    BY DEF ProjectInv, CallsIn
<1>3. Project!EditsKept' /\ Project!NotesKept'
    BY DEF ProjectInv, Project!EditsKept, Project!NotesKept
<1>q. QED
    BY <1>1, <1>2, <1>3 DEF ProjectInv

-----------------------------------------------------------------------------
(* The list and what is open *)

LEMMA ProjectOpenSteps ==
    ASSUME ProjectInv,
           \/ Project!OpenCreate \/ Project!Dismiss
           \/ \E p \in Projects : Project!OpenEdit(p) \/ Project!OpenDetail(p) \/ Project!AskDelete(p)
           \/ (\E m \in Milestones : Project!Type("mile", m)) \/ (\E n \in Notes : Project!Type("note", n))
    PROVE  ProjectInv'
<1> USE DEF ProjectInv
<1>1. /\ UNCHANGED <<row, want, cache, told, calls, latest, lost, gone, revived>>
      /\ Project!Spend("opens") \/ Project!Spend("types") \/ budget' = budget
    BY DEF Project!OpenCreate, Project!Dismiss, Project!OpenEdit, Project!OpenDetail, Project!AskDelete,
       Project!Type, Project!Opening, Project!Closing, Project!browser, Project!history
<1>2. budget' \in BudgetRecord /\ budget'.used = budget.used
    BY <1>1, SpendIn
<1>3. UiIn(ui, budget.used) /\ ui \in UiRecord
    BY DEF UiIn
<1>4. CASE Project!OpenCreate
  <2>1. ui' = [ui EXCEPT !.modal = Project!NewProject]
      BY <1>4 DEF Project!OpenCreate, Project!Opening
  <2>q. QED
      BY <1>1, <1>2, <1>3, <2>1, ProjectQuietKeeps DEF UiIn, UiRecord, CacheIn
<1>5. CASE Project!Dismiss
  <2>1. ui' \in {[ui EXCEPT !.modal = None], [ui EXCEPT !.detail = None], [ui EXCEPT !.erase = None]}
      BY <1>5 DEF Project!Dismiss, Project!Closing
  <2>q. QED
      BY <1>1, <1>2, <1>3, <2>1, ProjectQuietKeeps DEF UiIn, UiRecord, CacheIn
<1>6. ASSUME NEW p \in Projects, Project!OpenEdit(p) \/ Project!OpenDetail(p) \/ Project!AskDelete(p)
      PROVE ProjectInv'
  <2>1. Project!Listed(p) /\ ui' \in {[ui EXCEPT !.modal = [id |-> p, row |-> Project!Shown[p]]], [ui EXCEPT !.detail = p],
                              [ui EXCEPT !.erase = p]}
      BY <1>6 DEF Project!OpenEdit, Project!OpenDetail, Project!AskDelete, Project!Opening
  <2>2. Project!Shown[p] \in SafeRow /\ p \in budget.used
      BY <2>1, ShownIn
  <2>q. QED
      BY <1>1, <1>2, <1>3, <2>1, <2>2, ProjectQuietKeeps DEF UiIn, UiRecord, CacheIn
<1>7. CASE (\E m \in Milestones : Project!Type("mile", m)) \/ (\E n \in Notes : Project!Type("note", n))
  <2>1. (\E m \in Milestones : ui' = [ui EXCEPT !.mile = m]) \/ (\E n \in Notes : ui' = [ui EXCEPT !.note = n])
      BY <1>7 DEF Project!Type
  <2>q. QED
      BY <1>1, <1>2, <1>3, <2>1, ProjectQuietKeeps DEF UiIn, UiRecord, CacheIn
<1>q. QED
    BY <1>4, <1>5, <1>6, <1>7

LEMMA ProjectListSteps ==
    ASSUME ProjectInv, NEW k \in Project!Keys, Project!Query(k) \/ Project!LoadFails(k)
    PROVE  ProjectInv'
<1> USE DEF ProjectInv
<1>1. /\ UNCHANGED <<row, want, calls, latest, ui, lost, gone, revived>>
      /\ Project!Spend("faults") \/ budget' = budget
    BY DEF Project!Query, Project!Serve, Project!Store, Project!LoadFails, Project!history
<1>2. budget' \in BudgetRecord /\ budget'.used = budget.used
    BY <1>1, SpendIn
<1>3. told' \in BOOLEAN
    BY DEF Project!Query, Project!Serve, Project!Store, Project!LoadFails, Project!history, CacheIn
<1>4. PICK e : /\ cache' = [cache EXCEPT ![k] = e]
               /\ \/ e = Project!Answered(cache[k], Project!Answer(k))
                  \/ e = Project!Stored(cache[k]) /\ cache[k].fetch = "answered"
                  \/ e = Project!Cancelled(cache[k])
    BY DEF Project!Query, Project!Serve, Project!Store, Project!LoadFails
<1>5. cache' = [i \in Project!Keys |-> cache'[i]] /\ cache'[k] = e
      /\ \A i \in Project!Keys \ {k} : cache'[i] = cache[i]
    BY <1>4 DEF CacheIn
<1>6. EntryIn(cache'["projects"], budget.used)
  <2>1. CASE k = "projects"
    <3>1. EntryIn(cache[k], budget.used) /\ row \in SafeTables(budget.used)
        BY <2>1 DEF CacheIn, RowsIn
    <3>2. Project!Answer(k) = row
        BY <2>1 DEF Project!Answer
    <3>q. QED
        BY <1>4, <1>5, <2>1, <3>1, <3>2, EntriesIn
  <2>2. CASE k # "projects"
      BY <1>5, <2>2 DEF CacheIn, Project!Keys
  <2>q. QED
      BY <2>1, <2>2
<1>7. CacheIn'
    BY <1>2, <1>3, <1>5, <1>6 DEF CacheIn
<1>8. UiIn(ui', budget'.used)
    BY <1>1, <1>2
<1>q. QED
    BY <1>1, <1>2, <1>7, <1>8, ProjectQuietKeeps

-----------------------------------------------------------------------------
(* The server *)

\* A call comes further.
LEMMA CallComes ==
    ASSUME Project!ProjectDeskAssumption, CallsIn, NEW s \in Slots, calls[s] # None,
           NEW d, calls' = [calls EXCEPT ![s] = d],
           latest' = latest, d.op = calls[s].op, CallIn(d, budget'.used), budget.used \subseteq budget'.used
    PROVE  CallsIn' /\ calls'[s] = d /\ d # None /\ \A t \in Slots \ {s} : calls'[t] = calls[t]
<1>1. d \in Project!CallRecord /\ d # None
    BY DEF CallIn, Project!ProjectDeskAssumption
<1>2. /\ calls' \in [Slots -> Project!CallRecord \cup {None}] /\ calls'[s] = d
      /\ \A t \in Slots \ {s} : calls'[t] = calls[t]
    BY <1>1 DEF CallsIn
<1>3. \A t \in Slots : calls'[t] # None => CallIn(calls'[t], budget'.used)
    BY <1>2, Grows DEF CallsIn
<1>4. \A op \in Project!Ops : latest'[op] # None => calls'[latest'[op]] # None /\ calls'[latest'[op]].op = op
    BY <1>1, <1>2 DEF CallsIn
<1>5. latest' \in [Project!Ops -> Slots \cup {None}]
    BY DEF CallsIn
<1>q. QED
    BY <1>1, <1>2, <1>3, <1>4, <1>5 DEF CallsIn

\* A call is answered.
LEMMA ReplyComes ==
    ASSUME Project!ProjectDeskAssumption, CallsIn, NEW s \in Slots, calls[s] # None, NEW st \in {"ok", "failed"},
           Project!Reply(s, st), latest' = latest, budget.used \subseteq budget'.used
    PROVE  /\ CallsIn' /\ calls'[s] # None /\ calls'[s].st = st /\ \A t \in Slots \ {s} : calls'[t] = calls[t]
<1>1. PICK c \in Project!CallRecord : c = calls[s] /\ CallIn(c, budget.used)
    BY DEF CallsIn
<1> DEFINE d == [c EXCEPT !.st = st]
<1>2. /\ d \in Project!CallRecord /\ d.st = st /\ d.op = c.op /\ d.id = c.id /\ d.form = c.form /\ d.aim = c.aim
      /\ d.seen = c.seen /\ d.miles = c.miles /\ d.note = c.note
    BY DEF Project!CallRecord
<1>3. calls' = [calls EXCEPT ![s] = d]
    BY <1>1 DEF Project!Reply
<1> HIDE DEF d
<1>4. CallIn(d, budget.used)
    BY <1>1, <1>2 DEF CallIn, SentAsSeen
<1>5. CallIn(d, budget'.used)
    BY <1>4, Grows
<1>q. QED
    BY <1>1, <1>2, <1>3, <1>5, CallComes

\* No handler has read a row more, and no row is there that was not.
LEMMA StaysGone ==
    ASSUME GoneStays, gone' = gone, revived' = revived,
           \A p \in Projects : row[p] = None => row'[p] = None,
           \A s \in Slots : calls'[s] # None /\ calls'[s].st = "read" =>
               calls[s] # None /\ calls[s].st = "read" /\ calls'[s].id = calls[s].id,
           gone \subseteq Projects
    PROVE  GoneStays'
    BY DEF GoneStays, Stays

LEMMA CreateSteps ==
    ASSUME Project!ProjectDeskAssumption, ProjectInv, NEW s \in Slots, Project!Create(s)
    PROVE  ProjectInv'
<1> USE DEF ProjectInv
<1>1. PICK p, r :
          /\ p \in Projects \ budget.used
             /\ r = [form |-> calls[s].form, miles |-> Project!NoMilestones, notes |-> {}]
          /\ row' = [row EXCEPT ![p] = r] /\ want' = [want EXCEPT ![p] = r]
          /\ budget' = [budget EXCEPT !.used = @ \cup {p}]
    BY DEF Project!Create
<1>2. /\ Project!Sent(s, "create") /\ Project!Valid(calls[s].form) /\ Project!Reply(s, "ok")
      /\ UNCHANGED <<cache, latest, ui, told, lost, gone, revived>>
    BY DEF Project!Create
<1>3. calls[s] # None /\ calls[s].form \in Project!FormOf
    BY <1>2 DEF Project!Sent, CallsIn, CallIn
<1>4. r \in SafeRow /\ r # None
    BY <1>1, <1>2, <1>3 DEF SafeRow, Project!Row, Project!NoMilestones, Project!ProjectDeskAssumption
<1>5. budget' \in BudgetRecord /\ budget'.used = budget.used \cup {p}
    BY <1>1 DEF BudgetRecord
<1>6. RowsIn'
  <2>1. row \in [Projects -> SafeRow \cup {None}] /\ \A q \in Projects : row[q] # None => q \in budget.used
      BY DEF RowsIn, SafeTables
  <2>2. row' \in [Projects -> SafeRow \cup {None}] /\ row'[p] = r /\ \A q \in Projects \ {p} : row'[q] = row[q]
      BY <1>1, <1>4, <2>1
  <2>3. row' \in SafeTables(budget'.used)
      BY <1>5, <2>1, <2>2 DEF SafeTables
  <2>4. want' \in Project!Table /\ want'[p] = r /\ \A q \in Projects \ {p} : want'[q] = want[q]
      BY <1>1, <1>4 DEF RowsIn, Project!Table, SafeRow
  <2>q. QED
      BY <1>4, <2>2, <2>3, <2>4 DEF RowsIn
<1>7. CallsIn' /\ \A t \in Slots : calls'[t] # None /\ calls'[t].st = "read" => calls'[t] = calls[t]
    BY <1>2, <1>3, <1>5, ReplyComes
<1>8. CacheIn'
    BY <1>2, <1>5, Grows DEF CacheIn
<1>9. UiIn(ui', budget'.used)
    BY <1>2, <1>5, Grows
<1>10. HistoryIn'
    BY <1>2, <1>5 DEF HistoryIn
<1>11. GoneStays'
  <2>1. \A q \in gone : q \in Projects /\ q # p
      BY <1>1 DEF HistoryIn, BudgetRecord
  <2>2. \A q \in gone : row'[q] = row[q]
      BY <1>1, <2>1 DEF RowsIn, SafeTables
  <2>q. QED
      BY <1>2, <1>7, <2>2 DEF GoneStays, Stays
<1>12. row'[p] = want'[p] /\ \A q \in Projects \ {p} : row'[q] = row[q] /\ want'[q] = want[q]
    BY <1>1 DEF RowsIn, SafeTables, Project!Table
<1>13. Project!EditsKept'
    BY <1>2, <1>12 DEF Project!EditsKept
<1>14. Project!NotesKept'
    BY <1>2, <1>12 DEF Project!NotesKept
<1>q. QED
    BY <1>5, <1>6, <1>7, <1>8, <1>9, <1>10, <1>11, <1>13, <1>14

LEMMA RefuseSteps ==
    ASSUME Project!ProjectDeskAssumption, ProjectInv, NEW s \in Slots, Project!Refuse(s) \/ Project!LoseCall(s)
    PROVE  ProjectInv'
<1> USE DEF ProjectInv
<1>1. calls[s] # None /\ Project!Reply(s, "failed") /\ UNCHANGED <<row, want, cache, latest, ui, lost, gone, revived>>
    BY DEF Project!Refuse, Project!LoseCall, Project!Sent, Project!history
<1>2. budget' \in BudgetRecord /\ budget'.used = budget.used
  <2>1. Project!Spend("faults") \/ budget' = budget
      BY DEF Project!Refuse, Project!LoseCall
  <2>q. QED
      BY <2>1, SpendIn
<1>3. told' \in BOOLEAN
    BY DEF Project!Refuse, Project!LoseCall, Project!history, CacheIn
<1>4. CacheIn' /\ UiIn(ui', budget'.used)
    BY <1>1, <1>2, <1>3 DEF CacheIn
<1>5. CallsIn' /\ \A t \in Slots : calls'[t] # None /\ calls'[t].st = "read" => calls'[t] = calls[t]
    BY <1>1, <1>2, ReplyComes
<1>6. RowsIn' /\ HistoryIn' /\ GoneStays'
    BY <1>1, <1>2, <1>5 DEF RowsIn, HistoryIn, GoneStays, Stays
<1>7. Project!EditsKept' /\ Project!NotesKept'
    BY <1>1 DEF Project!EditsKept, Project!NotesKept
<1>q. QED
    BY <1>2, <1>4, <1>5, <1>6, <1>7

\* A handler has read a row: of a project that is not gone.
LEMMA ReadSteps ==
    ASSUME Project!ProjectDeskAssumption, ProjectInv, NEW s \in Slots, Project!Reads(s)
    PROVE  ProjectInv'
<1> USE DEF ProjectInv
<1>1. PICK r \in Project!Fetched(calls[s]) : calls' = [calls EXCEPT ![s].st = "read", ![s].got = r]
    BY DEF Project!Reads
<1>2. /\ Project!Sent(s, "note") \/ (Project!Sent(s, "update") /\ Project!Valid(calls[s].form))
      /\ UNCHANGED <<row, want, cache, latest, ui, budget, told, lost, gone, revived>>
    BY DEF Project!Reads, Project!history
<1>3. PICK c \in Project!CallRecord : c = calls[s] /\ CallIn(c, budget.used)
    BY <1>2 DEF CallsIn, Project!Sent
<1>4. calls[s] # None /\ c.op \in {"update", "note"} /\ (c.op = "update" => Project!Valid(c.form))
    BY <1>2, <1>3 DEF Project!Sent
<1>5. c.id \in Projects /\ r = row[c.id] /\ row[c.id] # None /\ r \in SafeRow
    BY <1>1, <1>3, <1>4 DEF CallIn, Project!Fetched, RowsIn, SafeTables, BudgetRecord
<1> DEFINE d == [[c EXCEPT !.st = "read"] EXCEPT !.got = r]
<1>6. /\ d \in Project!CallRecord /\ d.st = "read" /\ d.got = r /\ d.op = c.op /\ d.id = c.id /\ d.form = c.form
      /\ d.aim = c.aim /\ d.seen = c.seen /\ d.miles = c.miles /\ d.note = c.note
    BY <1>5 DEF Project!CallRecord, SafeRow
<1>7. calls' = [calls EXCEPT ![s] = d]
    BY <1>1, <1>3 DEF CallsIn
<1> HIDE DEF d
<1>8. CallIn(d, budget'.used)
    BY <1>2, <1>3, <1>4, <1>5, <1>6 DEF CallIn, SentAsSeen
<1>9. CallsIn' /\ calls'[s] = d /\ \A t \in Slots \ {s} : calls'[t] = calls[t]
    BY <1>2, <1>3, <1>4, <1>6, <1>7, <1>8, CallComes
<1>10. GoneStays'
  <2>1. SUFFICES ASSUME NEW p \in gone \ revived PROVE Stays(p)'
      BY <1>2 DEF GoneStays
  <2>2. Stays(p) /\ p # c.id
      BY <1>5 DEF GoneStays, Stays
  <2>q. QED
      BY <1>2, <1>6, <1>9, <2>2 DEF Stays
<1>11. RowsIn' /\ CacheIn' /\ HistoryIn' /\ Project!EditsKept' /\ Project!NotesKept' /\ UiIn(ui', budget'.used)
    BY <1>2 DEF RowsIn, CacheIn, HistoryIn, Project!EditsKept, Project!NotesKept
<1>q. QED
    BY <1>2, <1>9, <1>10, <1>11

\* A handler saves its copy.  What it did not know of is lost, or kept.
LEMMA WriteSteps ==
    ASSUME Project!ProjectDeskAssumption, ProjectInv, NEW s \in Slots, Project!Writes(s)
    PROVE  ProjectInv'
<1> USE DEF ProjectInv
<1>1. PICK c \in Project!CallRecord : c = calls[s] /\ CallIn(c, budget.used)
    BY DEF Project!Writes, CallsIn
<1>2. PICK new : new = (IF c.op = "note" THEN Project!WithNote(c) ELSE Project!Edited(c))
    OBVIOUS
<1>3. PICK p : p = c.id
    OBVIOUS
<1>4. /\ calls[s] # None /\ c.st = "read" /\ Project!Reply(s, "ok") /\ row' = [row EXCEPT ![p] = new]
      /\ UNCHANGED <<cache, latest, ui, budget, told, gone, revived>>
    BY <1>1, <1>2, <1>3 DEF Project!Writes
<1>5. PICK w : /\ want' = [want EXCEPT ![p] = w]
               /\ row[p] = None => w = new /\ lost' = lost
               /\ row[p] # None =>
                    /\ w = [form |-> IF "form" \in c.aim THEN c.form ELSE want[p].form,
                            miles |-> [m \in Milestones |-> IF m \in c.aim THEN c.miles[m] ELSE want[p].miles[m]],
                            notes |-> want[p].notes \cup (c.aim \cap Notes)]
                    /\ lost' = (lost \ {<<p, f>> : f \in c.aim})
                       \cup {<<p, f>> : f \in {g \in Project!Fields \ c.aim : Project!Knew(c, g) # Project!Value(row[p], g)}}
  <2>1. p \in Projects /\ want \in Project!Table
      BY <1>1, <1>3, <1>4 DEF CallIn, BudgetRecord, RowsIn
  <2>2. CASE row[p] = None
      BY <1>1, <1>2, <1>3, <2>2 DEF Project!Writes
  <2>3. CASE row[p] # None
      BY <1>1, <1>2, <1>3, <2>1, <2>3 DEF Project!Writes, Project!Table
  <2>q. QED
      BY <2>2, <2>3
<1>6. p \in budget.used /\ p \in Projects
    BY <1>1, <1>3, <1>4 DEF CallIn, BudgetRecord
<1>7. /\ c.op \in {"update", "note"} /\ c.got \in SafeRow
      /\ c.op = "update" => Project!Valid(c.form) /\ c.form \in Project!FormOf /\ SentAsSeen(c)
      /\ c.op = "note" => c.note \in Notes /\ c.aim = {c.note}
    BY <1>1, <1>4 DEF CallIn
<1>8. /\ c.op = "note" => new.form = c.got.form /\ new.miles = c.got.miles /\ new.notes = c.got.notes \cup {c.note}
      /\ c.op = "update" => new.form = c.form /\ new.miles = c.miles /\ new.notes = c.got.notes
      /\ new \in SafeRow
  <2>1. PICK r \in Project!Row : r = c.got /\ Project!Valid(r.form)
      BY <1>7 DEF SafeRow
  <2>2. CASE c.op = "note"
    <3>1. new = [r EXCEPT !.notes = r.notes \cup {c.note}]
        BY <1>2, <2>1, <2>2 DEF Project!WithNote
    <3>q. QED
        BY <1>7, <2>1, <2>2, <3>1 DEF SafeRow, Project!Row
  <2>3. CASE c.op = "update"
    <3>1. new = [[r EXCEPT !.form = c.form] EXCEPT !.miles = c.miles]
        BY <1>2, <2>1, <2>3 DEF Project!Edited
    <3>2. c.miles \in [Milestones -> {"none", "open", "done"}] /\ c.form \in Project!FormOf /\ Project!Valid(c.form)
        BY <1>7, <2>3 DEF Project!CallRecord
    <3>q. QED
        BY <2>1, <2>3, <3>1, <3>2 DEF SafeRow, Project!Row
  <2>q. QED
      BY <1>7, <2>2, <2>3
<1>9. new \in Project!Row /\ new # None
    BY <1>8 DEF SafeRow, Project!ProjectDeskAssumption
<1>10. row[p] # None => want[p] \in Project!Row
    BY <1>6 DEF RowsIn, Project!Table
<1>11. w \in Project!Row /\ w # None
  <2>1. CASE row[p] = None
      BY <1>5, <1>9, <2>1
  <2>2. CASE row[p] # None
    <3>1. want[p].form \in Project!FormOf /\ want[p].miles \in [Milestones -> {"none", "open", "done"}]
          /\ want[p].notes \subseteq Notes
        BY <1>10, <2>2 DEF Project!Row
    <3>2. c.miles \in [Milestones -> {"none", "open", "done"}]
        BY DEF Project!CallRecord
    <3>3. "form" \in c.aim => c.form \in Project!FormOf
        BY <1>7 DEF Project!ProjectDeskAssumption
    <3>q. QED
        BY <1>5, <2>2, <3>1, <3>2, <3>3 DEF Project!Row, Project!ProjectDeskAssumption
  <2>q. QED
      BY <2>1, <2>2
<1>12. /\ row' \in SafeTables(budget.used) /\ row'[p] = new /\ \A q \in Projects \ {p} : row'[q] = row[q]
    BY <1>4, <1>6, <1>8 DEF RowsIn, SafeTables
<1>13. /\ want' \in Project!Table /\ want'[p] = w /\ \A q \in Projects \ {p} : want'[q] = want[q]
    BY <1>5, <1>6, <1>11 DEF RowsIn, Project!Table
<1>14. RowsIn'
    BY <1>4, <1>9, <1>11, <1>12, <1>13 DEF RowsIn
<1>15. CallsIn' /\ \A t \in Slots : calls'[t] # None /\ calls'[t].st = "read" => t # s /\ calls'[t] = calls[t]
    BY <1>4, ReplyComes
<1>16. HistoryIn'
  <2>1. lost \subseteq Projects \X Project!Fields
      BY DEF HistoryIn
  <2>2. lost' \subseteq Projects \X Project!Fields
      BY <1>5, <1>6, <2>1
  <2>q. QED
      BY <1>4, <2>2 DEF HistoryIn
<1>17. GoneStays'
  <2>1. SUFFICES ASSUME NEW q \in gone \ revived PROVE Stays(q)'
      BY <1>4 DEF GoneStays
  <2>2. Stays(q) /\ q # p /\ q \in Projects
      BY <1>1, <1>3, <1>4 DEF GoneStays, Stays, HistoryIn, BudgetRecord
  <2>q. QED
      BY <1>12, <1>15, <2>2 DEF Stays
<1>18. CacheIn' /\ UiIn(ui', budget'.used) /\ budget' \in BudgetRecord
    BY <1>4 DEF CacheIn
<1>19. \A q \in Projects \ {p}, f \in Project!Fields : <<q, f>> \in lost => <<q, f>> \in lost'
    BY <1>5
<1>20. \A f \in Project!Fields \ c.aim : row[p] # None /\ (<<p, f>> \in lost
                                         \/ Project!Knew(c, f) # Project!Value(row[p], f)) => <<p, f>> \in lost'
    BY <1>5
<1>21. Project!EditsKept'
  <2>1. SUFFICES ASSUME NEW q \in Projects, NEW f \in {"form"} \cup Milestones, row'[q] # None
                 PROVE  Project!Value(row'[q], f) = Project!Value(want'[q], f) \/ <<q, f>> \in lost'
      BY DEF Project!EditsKept
  <2>2. CASE q # p
      BY <1>12, <1>13, <1>19, <2>1, <2>2 DEF Project!EditsKept, Project!Fields
  <2>3. CASE q = p /\ row[p] = None
      BY <1>5, <1>12, <1>13, <2>3
  <2>4. CASE q = p /\ row[p] # None /\ f \in c.aim
    <3>1. c.op = "update"
        BY <1>7, <2>4, FieldsApart DEF Project!ProjectDeskAssumption
    <3>2. Project!Value(new, f) = Project!Value(w, f)
        BY <1>5, <1>8, <2>4, <3>1, FieldsApart
    <3>q. QED
        BY <1>12, <1>13, <2>4, <3>2
  <2>5. CASE q = p /\ row[p] # None /\ f \notin c.aim
    <3>1. Project!Value(w, f) = Project!Value(want[p], f)
        BY <1>5, <2>5, FieldsApart
    <3>2. Project!Value(new, f) = Project!Knew(c, f)
      <4>1. f \notin Notes
          BY DEF Project!ProjectDeskAssumption
      <4>2. CASE c.op = "update"
          BY <1>7, <1>8, <2>5, <4>1, <4>2, FieldsApart DEF Project!Knew, SentAsSeen
      <4>3. CASE c.op = "note"
          BY <1>8, <4>3, FieldsApart DEF Project!Knew
      <4>q. QED
          BY <1>7, <4>2, <4>3
    <3>3. Project!Value(row[p], f) = Project!Value(want[p], f) \/ <<p, f>> \in lost
        BY <1>6, <2>5 DEF Project!EditsKept
    <3>q. QED
        BY <1>12, <1>13, <1>20, <2>5, <3>1, <3>2, <3>3 DEF Project!Fields
  <2>q. QED
      BY <2>2, <2>3, <2>4, <2>5
<1>22. Project!NotesKept'
  <2>1. SUFFICES ASSUME NEW q \in Projects, NEW n \in Notes, row'[q] # None, n \in want'[q].notes
                 PROVE  n \in row'[q].notes \/ <<q, n>> \in lost'
      BY DEF Project!NotesKept
  <2>2. CASE q # p
      BY <1>12, <1>13, <1>19, <2>1, <2>2 DEF Project!NotesKept, Project!Fields
  <2>3. CASE q = p /\ row[p] = None
      BY <1>5, <1>12, <1>13, <2>1, <2>3
  <2>4. CASE q = p /\ row[p] # None /\ n \in c.aim
    <3>1. c.op = "note" /\ n = c.note
        BY <1>7, <2>4 DEF SentAsSeen
    <3>q. QED
        BY <1>8, <1>12, <2>4, <3>1
  <2>5. CASE q = p /\ row[p] # None /\ n \notin c.aim
    <3>1. n \in want[p].notes
        BY <1>5, <1>13, <2>1, <2>5
    <3>2. n \in row[p].notes \/ <<p, n>> \in lost
        BY <1>6, <2>5, <3>1 DEF Project!NotesKept
    <3>3. c.got.notes \subseteq new.notes
        BY <1>7, <1>8
    <3>4. Project!Knew(c, n) = (n \in c.got.notes) /\ Project!Value(row[p], n) = (n \in row[p].notes)
        BY FieldsApart DEF Project!Knew
    <3>5. n \in row[p].notes /\ n \notin c.got.notes => Project!Knew(c, n) # Project!Value(row[p], n)
        BY <3>4
    <3>q. QED
        BY <1>12, <1>20, <2>5, <3>2, <3>3, <3>5 DEF Project!Fields
  <2>q. QED
      BY <2>2, <2>3, <2>4, <2>5
<1>q. QED
    BY <1>14, <1>15, <1>16, <1>17, <1>18, <1>21, <1>22

LEMMA DeleteSteps ==
    ASSUME Project!ProjectDeskAssumption, ProjectInv, NEW s \in Slots, Project!Delete(s)
    PROVE  ProjectInv'
<1> USE DEF ProjectInv
<1>1. PICK p : p = calls[s].id
    OBVIOUS
<1>2. /\ calls[s] # None /\ calls[s].op = "delete" /\ Project!Reply(s, "ok") /\ row' = [row EXCEPT ![p] = None]
      /\ gone' = gone \cup {p}
      /\ revived' = revived \cup {q \in {p} : \E t \in Slots : calls[t] # None /\ calls[t].st = "read"
         /\ calls[t].id = q}
      /\ UNCHANGED <<cache, latest, ui, budget, told, want, lost>>
    BY <1>1 DEF Project!Delete, Project!Sent
<1>3. p \in budget.used /\ p \in Projects
    BY <1>1, <1>2 DEF CallsIn, CallIn, BudgetRecord
<1>4. row' \in SafeTables(budget.used) /\ row'[p] = None /\ \A q \in Projects \ {p} : row'[q] = row[q]
    BY <1>2, <1>3 DEF RowsIn, SafeTables
<1>5. RowsIn'
    BY <1>2, <1>4 DEF RowsIn
<1>6. CallsIn' /\ \A t \in Slots : calls'[t] # None /\ calls'[t].st = "read" => calls'[t] = calls[t]
    BY <1>2, ReplyComes
<1>7. HistoryIn'
    BY <1>2, <1>3 DEF HistoryIn
<1>8. GoneStays'
  <2>1. SUFFICES ASSUME NEW q \in gone' \ revived' PROVE Stays(q)'
      BY DEF GoneStays
  <2>2. CASE q = p
      BY <1>2, <1>4, <1>6, <2>1, <2>2 DEF Stays
  <2>3. CASE q # p
    <3>1. Stays(q) /\ q \in Projects
        BY <1>2, <2>1, <2>3 DEF GoneStays, HistoryIn, BudgetRecord
    <3>q. QED
        BY <1>4, <1>6, <2>3, <3>1 DEF Stays
  <2>q. QED
      BY <2>2, <2>3
<1>9. Project!EditsKept'
    BY <1>2, <1>4 DEF Project!EditsKept
<1>10. Project!NotesKept'
    BY <1>2, <1>4 DEF Project!NotesKept
<1>11. CacheIn' /\ UiIn(ui', budget'.used)
    BY <1>2 DEF CacheIn
<1>q. QED
    BY <1>2, <1>5, <1>6, <1>7, <1>8, <1>9, <1>10, <1>11

LEMMA ElsewhereSteps ==
    ASSUME Project!ProjectDeskAssumption, ProjectInv, Project!Elsewhere
    PROVE  ProjectInv'
<1> USE DEF ProjectInv
<1>1. PICK p \in Projects, m \in Milestones :
          /\ row[p] # None /\ row[p].miles[m] = "none"
          /\ row' = [row EXCEPT ![p].miles[m] = "open"] /\ want' = [want EXCEPT ![p].miles[m] = "open"]
    BY DEF Project!Elsewhere
<1>2. /\ Project!Spend("others") /\ told' = TRUE
      /\ UNCHANGED <<cache, calls, latest, ui, lost, gone, revived>>
    BY DEF Project!Elsewhere, Project!browser
<1>3. budget' \in BudgetRecord /\ budget'.used = budget.used
    BY <1>2, SpendIn
<1>4. PICK r \in SafeRow : r = row[p]
    BY <1>1 DEF RowsIn, SafeTables
<1>5. PICK w \in Project!Row : w = want[p]
    BY <1>1 DEF RowsIn, Project!Table
<1> DEFINE r2 == [r EXCEPT !.miles = [r.miles EXCEPT ![m] = "open"]]
           w2 == [w EXCEPT !.miles = [w.miles EXCEPT ![m] = "open"]]
<1>6. /\ r2 \in SafeRow /\ r2.form = r.form /\ r2.notes = r.notes /\ r2.miles = [r.miles EXCEPT ![m] = "open"]
      /\ w2 \in Project!Row /\ w2.form = w.form /\ w2.notes = w.notes /\ w2.miles = [w.miles EXCEPT ![m] = "open"]
    BY DEF SafeRow, Project!Row
<1>7. row' = [row EXCEPT ![p] = r2] /\ want' = [want EXCEPT ![p] = w2]
    BY <1>1, <1>4, <1>5
<1> HIDE DEF r2, w2
<1>8. /\ row' \in SafeTables(budget.used) /\ row'[p] = r2 /\ \A q \in Projects \ {p} : row'[q] = row[q]
      /\ want' \in Project!Table /\ want'[p] = w2 /\ \A q \in Projects \ {p} : want'[q] = want[q]
    BY <1>1, <1>6, <1>7 DEF RowsIn, SafeTables, Project!Table
<1>9. RowsIn'
    BY <1>3, <1>6, <1>8 DEF RowsIn, Project!ProjectDeskAssumption
<1>10. CallsIn' /\ HistoryIn' /\ CacheIn' /\ UiIn(ui', budget'.used)
    BY <1>2, <1>3 DEF CallsIn, HistoryIn, CacheIn
<1>11. GoneStays'
    BY <1>1, <1>2, <1>8 DEF GoneStays, Stays, HistoryIn, BudgetRecord
<1>12. Project!EditsKept'
  <2>1. SUFFICES ASSUME NEW q \in Projects, NEW f \in {"form"} \cup Milestones, row'[q] # None
                 PROVE  Project!Value(row'[q], f) = Project!Value(want'[q], f) \/ <<q, f>> \in lost'
      BY DEF Project!EditsKept
  <2>2. CASE q # p
      BY <1>2, <1>8, <2>1, <2>2 DEF Project!EditsKept
  <2>3. CASE q = p
    <3>1. Project!Value(r, f) = Project!Value(w, f) \/ <<p, f>> \in lost
        BY <1>1, <1>4, <1>5 DEF Project!EditsKept
    <3>2. CASE f = "form"
        BY <1>2, <1>6, <1>8, <2>3, <3>1, <3>2, FieldsApart
    <3>3. CASE f \in Milestones
      <4>1. r.miles \in [Milestones -> {"none", "open", "done"}]
            /\ w.miles \in [Milestones -> {"none", "open", "done"}]
          BY DEF SafeRow, Project!Row
      <4>2. r2.miles[f] = (IF f = m THEN "open" ELSE r.miles[f])
            /\ w2.miles[f] = (IF f = m THEN "open" ELSE w.miles[f])
          BY <1>6, <3>3, <4>1
      <4>3. Project!Value(r2, f) = r2.miles[f] /\ Project!Value(w2, f) = w2.miles[f]
            /\ Project!Value(r, f) = r.miles[f] /\ Project!Value(w, f) = w.miles[f]
          BY <3>3, FieldsApart
      <4>q. QED
          BY <1>2, <1>8, <2>3, <3>1, <4>2, <4>3
    <3>q. QED
        BY <3>2, <3>3
  <2>q. QED
      BY <2>2, <2>3
<1>13. Project!NotesKept'
  <2>1. \A q \in Projects : row'[q] # None => row[q] # None /\ row'[q].notes = row[q].notes
                            /\ want'[q].notes = want[q].notes
      BY <1>1, <1>4, <1>5, <1>6, <1>8
  <2>q. QED
      BY <1>2, <2>1 DEF Project!NotesKept
<1>q. QED
    BY <1>3, <1>9, <1>10, <1>11, <1>12, <1>13

-----------------------------------------------------------------------------
(* The calls of the pages, and what becomes of them *)

LEMMA AskKeeps ==
    ASSUME Project!ProjectDeskAssumption, ProjectInv, NEW c, Project!Ask(c), CallIn(c, budget.used), c.st = "sent"
    PROVE  ProjectInv'
<1> USE DEF ProjectInv
<1>1. PICK s \in Slots : calls[s] = None /\ calls' = [calls EXCEPT ![s] = c] /\ latest' = [latest EXCEPT ![c.op] = s]
    BY DEF Project!Ask
<1>2. Project!Spend("calls") /\ UNCHANGED <<row, cache, ui, told, want, lost, gone, revived>>
    BY DEF Project!Ask, Project!history
<1>3. budget' \in BudgetRecord /\ budget'.used = budget.used
    BY <1>2, SpendIn
<1>4. c \in Project!CallRecord /\ c # None /\ c.op \in Project!Ops
    BY DEF CallIn, Project!CallRecord, Project!ProjectDeskAssumption
<1>5. calls' \in [Slots -> Project!CallRecord \cup {None}] /\ calls'[s] = c
      /\ \A t \in Slots \ {s} : calls'[t] = calls[t]
    BY <1>1, <1>4 DEF CallsIn
<1>6. CallsIn'
  <2>1. \A t \in Slots : calls'[t] # None => CallIn(calls'[t], budget'.used)
      BY <1>3, <1>5 DEF CallsIn
  <2>2. latest' \in [Project!Ops -> Slots \cup {None}] /\ latest'[c.op] = s
        /\ \A op \in Project!Ops \ {c.op} : latest'[op] = latest[op]
      BY <1>1, <1>4 DEF CallsIn
  <2>3. \A op \in Project!Ops : latest'[op] # None => calls'[latest'[op]] # None /\ calls'[latest'[op]].op = op
      BY <1>1, <1>4, <1>5, <2>2 DEF CallsIn
  <2>q. QED
      BY <1>5, <2>1, <2>2, <2>3 DEF CallsIn
<1>7. GoneStays'
    BY <1>2, <1>5 DEF GoneStays, Stays
<1>8. RowsIn' /\ CacheIn' /\ HistoryIn' /\ Project!EditsKept' /\ Project!NotesKept' /\ UiIn(ui', budget'.used)
    BY <1>2, <1>3 DEF RowsIn, CacheIn, HistoryIn, Project!EditsKept, Project!NotesKept
<1>q. QED
    BY <1>3, <1>6, <1>7, <1>8

\* A change is sent with the rest of the row as it was seen.
ChangeIn(from, p, aim, r, f, ms) ==
    /\ from \in {"save", "toggle", "add"} /\ p \in budget.used /\ aim \subseteq {"form"} \cup Milestones
    /\ r \in SafeRow /\ f \in Project!FormOf /\ f.progress \in 0 .. 200
       /\ ms \in [Milestones -> {"none", "open", "done"}]
    /\ "form" \notin aim => f = r.form
    /\ \A m \in Milestones \ aim : ms[m] = r.miles[m]

LEMMA ChangeKeeps ==
    ASSUME Project!ProjectDeskAssumption, ProjectInv, NEW from, NEW p, NEW aim, NEW r, NEW f, NEW ms,
           ChangeIn(from, p, aim, r, f, ms), Project!Change(from, p, aim, r, f, ms)
    PROVE  ProjectInv'
<1>1. PICK c : c = [Project!Call("update", p) EXCEPT !.from = from, !.aim = aim, !.seen = r, !.form = f, !.miles = ms]
    OBVIOUS
<1>2. p \in Projects /\ r \in Project!Row
    BY DEF ProjectInv, BudgetRecord, SafeRow, ChangeIn
<1>3. /\ c = [op |-> "update", id |-> p, from |-> from, form |-> f, miles |-> ms, seen |-> r, note |-> None,
              aim |-> aim, at |-> None, got |-> None, alive |-> TRUE, st |-> "sent"]
    BY <1>1 DEF Project!Call
<1>4. c \in Project!CallRecord
    BY <1>2, <1>3 DEF Project!CallRecord, Project!Ops, Project!Fields, ChangeIn
<1>5. aim \cap Notes = {}
    BY DEF Project!ProjectDeskAssumption, ChangeIn
<1>6. CallIn(c, budget.used)
    BY <1>3, <1>4, <1>5 DEF CallIn, SentAsSeen, ChangeIn
<1>7. Project!Ask(c)
    BY <1>1 DEF Project!Change
<1>8. c.st = "sent"
    BY <1>3
<1>q. QED
    BY <1>6, <1>7, <1>8, AskKeeps

LEMMA ProjectAskSteps ==
    ASSUME Project!ProjectDeskAssumption, ProjectInv,
           Project!HandleSave \/ Project!HandleDelete \/ Project!AddMilestone \/ Project!AddNote
           \/ \E m \in Milestones : Project!ToggleMilestone(m)
    PROVE  ProjectInv'
<1>1. ui \in UiRecord /\ UiIn(ui, budget.used) /\ CacheIn /\ budget.used \subseteq Projects
    BY DEF ProjectInv, UiIn, BudgetRecord
<1>2. Project!Detail # None => Project!Detail = ui.detail /\ Project!Detail \in budget.used
      /\ Project!Shown[Project!Detail] \in SafeRow
  <2>1. ASSUME Project!Detail # None PROVE Project!Detail = ui.detail /\ ui.detail # None /\ Project!Listed(ui.detail)
      BY <2>1 DEF Project!Detail
  <2>q. QED
      BY <1>1, <2>1, ShownIn DEF UiIn
<1>3. Project!NoMilestones \in [Milestones -> {"none", "open", "done"}]
    BY DEF Project!NoMilestones
<1>4. \A r \in SafeRow : /\ Project!FormToBody(r.form) = r.form /\ r.form \in Project!FormOf
                            /\ r.form.progress \in 0 .. 200
                         /\ r.miles \in [Milestones -> {"none", "open", "done"}]
    BY SentAsItIs DEF SafeRow, Project!Row, Project!Valid
<1>5. CASE Project!HandleSave
  <2>1. PICK f \in Changes \cup (IF ui.modal.id = None THEN {} ELSE {ui.modal.row.form}) :
          IF ui.modal.id = None THEN Project!Ask([Project!Call("create", None) EXCEPT !.form = Project!FormToBody(f)])
          ELSE Project!Change("save", ui.modal.id, {"form"}, ui.modal.row, Project!FormToBody(f), ui.modal.row.miles)
      BY <1>5 DEF Project!HandleSave
  <2>2. ui.modal # None
      BY <1>5 DEF Project!HandleSave
  <2>3. CASE ui.modal = Project!NewProject
    <3>1. f \in Project!FormOf /\ ui.modal.id = None
        BY <2>1, <2>3 DEF Project!NewProject, Project!ProjectDeskAssumption
    <3>2. Project!FormToBody(f) \in Project!FormOf /\ Project!FormToBody(f).progress \in 0 .. 200
        BY <3>1, BodyIn
    <3>3. PICK g \in Project!FormOf : g = Project!FormToBody(f) /\ g.progress \in 0 .. 200
        BY <3>2
    <3>4. PICK c : c = [Project!Call("create", None) EXCEPT !.form = g]
        OBVIOUS
    <3>5. c = [op |-> "create", id |-> None, from |-> "create", form |-> g, miles |-> Project!NoMilestones, seen |-> None,
               note |-> None, aim |-> {}, at |-> None, got |-> None, alive |-> TRUE, st |-> "sent"]
        BY <3>4 DEF Project!Call
    <3>6. CallIn(c, budget.used)
        BY <1>3, <3>3, <3>5 DEF CallIn, Project!CallRecord, Project!Ops, Project!Fields
    <3>q. QED
        BY <2>1, <3>1, <3>3, <3>4, <3>5, <3>6, AskKeeps
  <2>4. CASE ui.modal \in [id : budget.used, row : SafeRow]
    <3>1. PICK p \in budget.used, r \in SafeRow : ui.modal.id = p /\ ui.modal.row = r /\ p # None
        BY <1>1, <2>4 DEF Project!ProjectDeskAssumption
    <3>2. f \in Project!FormOf
        BY <1>4, <2>1, <3>1 DEF Project!ProjectDeskAssumption
    <3>3. Project!FormToBody(f) \in Project!FormOf /\ Project!FormToBody(f).progress \in 0 .. 200
        BY <3>2, BodyIn
    <3>4. Project!Change("save", p, {"form"}, r, Project!FormToBody(f), r.miles)
        BY <2>1, <3>1
    <3>5. ChangeIn("save", p, {"form"}, r, Project!FormToBody(f), r.miles)
        BY <1>4, <3>3 DEF ChangeIn
    <3>q. QED
        BY <3>4, <3>5, ChangeKeeps
  <2>q. QED
      BY <1>1, <2>2, <2>3, <2>4 DEF UiIn
<1>6. CASE Project!HandleDelete
  <2>1. PICK c : c = [Project!Call("delete", ui.erase) EXCEPT !.at = ui.detail]
      OBVIOUS
  <2>2. c = [op |-> "delete", id |-> ui.erase, from |-> "delete", form |-> None, miles |-> Project!NoMilestones, seen |-> None,
             note |-> None, aim |-> {}, at |-> ui.detail, got |-> None, alive |-> TRUE, st |-> "sent"]
      BY <2>1 DEF Project!Call
  <2>3. ui.erase \in budget.used /\ ui.detail \in Projects \cup {None}
      BY <1>1, <1>6 DEF Project!HandleDelete, UiIn, UiRecord
  <2>4. CallIn(c, budget.used)
      BY <1>1, <1>3, <2>2, <2>3 DEF CallIn, Project!CallRecord, Project!Ops, Project!Fields
  <2>q. QED
      BY <1>6, <2>1, <2>2, <2>4, AskKeeps DEF Project!HandleDelete
<1>7. CASE Project!AddMilestone
  <2>1. PICK r \in SafeRow, p \in budget.used, m \in Milestones : r = Project!Shown[Project!Detail]
        /\ p = Project!Detail /\ m = ui.mile
      BY <1>1, <1>2, <1>7 DEF Project!AddMilestone, UiRecord
  <2>2. PICK ms \in [Milestones -> {"none", "open", "done"}] : ms = [r.miles EXCEPT ![m] = "open"]
      BY <1>4
  <2>3. Project!Change("add", p, {m}, r, r.form, ms)
      BY <1>4, <1>7, <2>1, <2>2 DEF Project!AddMilestone, Project!WithMilestone
  <2>4. ChangeIn("add", p, {m}, r, r.form, ms)
      BY <1>4, <2>2 DEF ChangeIn
  <2>q. QED
      BY <2>3, <2>4, ChangeKeeps
<1>8. CASE Project!AddNote
  <2>1. PICK c : c = [Project!Call("note", Project!Detail) EXCEPT !.note = ui.note, !.aim = {ui.note}]
      OBVIOUS
  <2>2. c = [op |-> "note", id |-> Project!Detail, from |-> "note", form |-> None, miles |-> Project!NoMilestones, seen |-> None,
             note |-> ui.note, aim |-> {ui.note}, at |-> None, got |-> None, alive |-> TRUE, st |-> "sent"]
      BY <2>1 DEF Project!Call
  <2>3. Project!Detail \in budget.used /\ ui.note \in Notes
      BY <1>1, <1>2, <1>8 DEF Project!AddNote, UiRecord
  <2>4. CallIn(c, budget.used)
      BY <1>1, <1>3, <2>2, <2>3 DEF CallIn, Project!CallRecord, Project!Ops, Project!Fields
  <2>q. QED
      BY <1>8, <2>1, <2>2, <2>4, AskKeeps DEF Project!AddNote
<1>9. ASSUME NEW m \in Milestones, Project!ToggleMilestone(m) PROVE ProjectInv'
  <2>1. PICK r \in SafeRow, p \in budget.used : r = Project!Shown[Project!Detail] /\ p = Project!Detail
      BY <1>2, <1>9 DEF Project!ToggleMilestone
  <2>2. PICK ms \in [Milestones -> {"none", "open", "done"}] :
          /\ ms = [r.miles EXCEPT ![m] = IF r.miles[m] = "done" THEN "open" ELSE "done"]
          /\ \A i \in Milestones \ {m} : ms[i] = r.miles[i]
    <3> DEFINE ms == [r.miles EXCEPT ![m] = IF r.miles[m] = "done" THEN "open" ELSE "done"]
    <3>1. ms \in [Milestones -> {"none", "open", "done"}] /\ \A i \in Milestones \ {m} : ms[i] = r.miles[i]
        BY <1>4
    <3>q. QED
        BY <3>1
  <2>3. Project!Change("toggle", p, {m}, r, r.form, ms)
      BY <1>4, <1>9, <2>1, <2>2 DEF Project!ToggleMilestone
  <2>4. ChangeIn("toggle", p, {m}, r, r.form, ms)
      BY <1>4, <2>2 DEF ChangeIn
  <2>q. QED
      BY <2>3, <2>4, ChangeKeeps
<1>q. QED
    BY <1>5, <1>6, <1>7, <1>8, <1>9

\* A page is left: nobody waits for the calls any more.
LEMMA ProjectGoSteps ==
    ASSUME Project!ProjectDeskAssumption, ProjectInv, NEW p \in Project!Pages, Project!Go(p)
    PROVE  ProjectInv'
<1> USE DEF ProjectInv
<1>1. /\ ui' = [Project!NoUi EXCEPT !.page = p] /\ Project!Spend("opens")
      /\ calls' = [s \in Slots |-> IF calls[s] = None THEN None ELSE [calls[s] EXCEPT !.alive = FALSE]]
      /\ latest' = [op \in Project!Ops |-> None]
      /\ UNCHANGED <<row, told, want, lost, gone, revived>>
    BY DEF Project!Go, Project!history
<1>2. PICK old \in [Project!Keys -> BOOLEAN] :
          cache' = [k \in Project!Keys |-> IF Project!Watched(k)'
          /\ ~Project!Watched(k) THEN Project!Opened(cache[k], old[k]) ELSE cache[k]]
    BY DEF Project!Go
<1>3. budget' \in BudgetRecord /\ budget'.used = budget.used
    BY <1>1, SpendIn
<1>4. UiIn(ui', budget'.used)
    BY <1>1 DEF UiIn, UiRecord, Project!NoUi
<1>5. CacheIn'
  <2>1. cache' = [k \in Project!Keys |-> cache'[k]]
      BY <1>2
  <2>2. cache'["projects"] \in {cache["projects"], Project!Opened(cache["projects"], old["projects"])}
      BY <1>2 DEF Project!Keys
  <2>3. EntryIn(cache'["projects"], budget.used)
      BY <2>2, EntriesIn DEF CacheIn, RowsIn
  <2>q. QED
      BY <1>1, <1>3, <2>1, <2>3 DEF CacheIn
<1>6. ASSUME NEW s \in Slots, calls[s] # None
      PROVE  /\ CallIn(calls'[s], budget'.used) /\ calls'[s] \in Project!CallRecord
             /\ calls'[s].st = calls[s].st /\ calls'[s].id = calls[s].id
  <2>1. PICK c \in Project!CallRecord : c = calls[s] /\ CallIn(c, budget.used)
      BY <1>6 DEF CallsIn
  <2> DEFINE d == [c EXCEPT !.alive = FALSE]
  <2>2. /\ d \in Project!CallRecord /\ d.st = c.st /\ d.op = c.op /\ d.id = c.id /\ d.form = c.form /\ d.aim = c.aim
        /\ d.seen = c.seen /\ d.miles = c.miles /\ d.note = c.note /\ d.got = c.got
      BY DEF Project!CallRecord
  <2>3. calls'[s] = d
      BY <1>1, <1>6, <2>1
  <2> HIDE DEF d
  <2>4. CallIn(d, budget.used)
      BY <2>1, <2>2 DEF CallIn, SentAsSeen
  <2>q. QED
      BY <1>3, <2>1, <2>2, <2>3, <2>4
<1>7. \A s \in Slots : calls[s] = None => calls'[s] = None
    BY <1>1
<1>8. CallsIn'
  <2>1. calls' = [s \in Slots |-> calls'[s]]
      BY <1>1
  <2>2. calls' \in [Slots -> Project!CallRecord \cup {None}]
      BY <1>6, <1>7, <2>1
  <2>3. \A s \in Slots : calls'[s] # None => CallIn(calls'[s], budget'.used)
      BY <1>6, <1>7
  <2>q. QED
      BY <1>1, <2>2, <2>3 DEF CallsIn
<1>9. GoneStays'
    BY <1>1, <1>6, <1>7 DEF GoneStays, Stays
<1>10. RowsIn' /\ HistoryIn' /\ Project!EditsKept' /\ Project!NotesKept'
    BY <1>1, <1>3 DEF RowsIn, HistoryIn, Project!EditsKept, Project!NotesKept
<1>q. QED
    BY <1>3, <1>4, <1>5, <1>8, <1>9, <1>10

LEMMA ClosedIn ==
    ASSUME UiIn(ui, budget.used), NEW c, c.st \in {"ok", "failed"}
    PROVE  UiIn(Project!Closed(c), budget.used)
<1>1. \A u : UiIn(u, budget.used) => UiIn(Project!Answers(c, u), budget.used)
    BY DEF UiIn, UiRecord, Project!Answers
<1> DEFINE a == IF c.from \in {"create", "save"} THEN None ELSE ui.modal
           b == IF c.from = "delete" /\ c.at = c.id THEN None ELSE ui.detail
           d == IF c.from = "add" THEN None ELSE ui.mile
           e == IF c.from = "note" THEN None ELSE ui.note
           u == [[[[ui EXCEPT !.modal = a] EXCEPT !.detail = b] EXCEPT !.mile = d] EXCEPT !.note = e]
<1>2. /\ a \in {None, ui.modal} /\ b \in {None, ui.detail} /\ d \in {None, ui.mile} /\ e \in {None, ui.note}
    OBVIOUS
<1>3. Project!Closed(c) \in {ui, Project!Answers(c, ui), Project!Answers(c, u)}
    BY DEF Project!Closed
<1> HIDE DEF a, b, d, e
<1>4. UiIn(u, budget.used)
    BY <1>2 DEF UiIn, UiRecord
<1>q. QED
    BY <1>1, <1>3, <1>4

LEMMA ProjectDeliverSteps ==
    ASSUME Project!ProjectDeskAssumption, ProjectInv, NEW s \in Slots, Project!Deliver(s)
    PROVE  ProjectInv'
<1> USE DEF ProjectInv
<1>1. PICK c : c = calls[s]
    OBVIOUS
<1>2. /\ c # None /\ c.st \in {"ok", "failed"}
      /\ cache' = [k \in Project!Keys |->
                      IF k \in Project!Invalidates(c) THEN Project!Invalidated(cache[k], Project!Watched(k))
                      ELSE cache[k]]
      /\ calls' = [calls EXCEPT ![s] = None] /\ latest' = Project!Freed(s) /\ ui' = Project!Closed(c)
      /\ UNCHANGED <<row, budget, want, lost, gone, revived>>
    BY <1>1, Zenon DEF Project!Deliver
<1>3. told' \in BOOLEAN
    BY DEF Project!Deliver, CacheIn
<1>4. UiIn(ui', budget'.used)
    BY <1>2, ClosedIn
<1>5. CacheIn'
  <2>1. cache' = [k \in Project!Keys |-> cache'[k]]
      BY <1>2
  <2>2. cache'["projects"] \in {cache["projects"], Project!Invalidated(cache["projects"], Project!Watched("projects"))}
      BY <1>2 DEF Project!Keys
  <2>3. EntryIn(cache'["projects"], budget.used)
      BY <2>2, EntriesIn DEF CacheIn, RowsIn
  <2>q. QED
      BY <1>2, <1>3, <2>1, <2>3 DEF CacheIn
<1>6. calls' \in [Slots -> Project!CallRecord \cup {None}] /\ calls'[s] = None
      /\ \A t \in Slots \ {s} : calls'[t] = calls[t]
    BY <1>2 DEF CallsIn
<1>7. CallsIn'
  <2>1. latest' \in [Project!Ops -> Slots \cup {None}]
        /\ \A op \in Project!Ops : latest'[op] # None => latest'[op] = latest[op] /\ latest[op] # s
      BY <1>2 DEF Project!Freed, CallsIn
  <2>2. \A op \in Project!Ops : latest'[op] # None => calls'[latest'[op]] # None /\ calls'[latest'[op]].op = op
      BY <1>6, <2>1 DEF CallsIn
  <2>3. \A t \in Slots : calls'[t] # None => CallIn(calls'[t], budget'.used)
      BY <1>2, <1>6 DEF CallsIn
  <2>q. QED
      BY <1>6, <2>1, <2>2, <2>3 DEF CallsIn
<1>8. GoneStays'
    BY <1>2, <1>6 DEF GoneStays, Stays
<1>9. RowsIn' /\ HistoryIn' /\ Project!EditsKept' /\ Project!NotesKept'
    BY <1>2 DEF RowsIn, HistoryIn, Project!EditsKept, Project!NotesKept
<1>q. QED
    BY <1>2, <1>4, <1>5, <1>7, <1>8, <1>9

-----------------------------------------------------------------------------

LEMMA ProjectInit == ASSUME Project!ProjectDeskAssumption, Project!Init PROVE ProjectInv
<1>1. PICK b \in ProjectBounds :
          /\ budget = [calls |-> b.calls, opens |-> b.opens, types |-> b.types, faults |-> b.faults,
                       others |-> b.others, used |-> DOMAIN b.rows]
          /\ row = [p \in Projects |-> IF p \in DOMAIN b.rows THEN b.rows[p] ELSE None]
          /\ ui = [Project!NoUi EXCEPT !.page = b.page]
    BY DEF Project!Init
<1>2. /\ cache = [k \in Project!Keys |-> IF Project!Watched(k) THEN Project!Loaded(Project!Answer(k)) ELSE Project!NoEntry]
      /\ calls = [s \in Slots |-> None] /\ latest = [op \in Project!Ops |-> None]
      /\ told = FALSE /\ want = row /\ lost = {} /\ gone = {} /\ revived = {}
    BY DEF Project!Init
<1>3. /\ b.calls \in Nat /\ b.opens \in Nat /\ b.types \in Nat /\ b.faults \in Nat /\ b.others \in Nat
      /\ b.page \in Project!Pages /\ DOMAIN b.rows \subseteq Projects
      /\ \A p \in DOMAIN b.rows : b.rows[p] \in Project!Row /\ Project!Valid(b.rows[p].form)
    BY DEF Project!ProjectDeskAssumption
<1>4. budget \in BudgetRecord /\ budget.used = DOMAIN b.rows
    BY <1>1, <1>3 DEF BudgetRecord
<1>5. row \in SafeTables(budget.used)
    BY <1>1, <1>3, <1>4 DEF SafeTables, SafeRow
<1>6. RowsIn
    BY <1>2, <1>5 DEF RowsIn, SafeTables, SafeRow, Project!Table
<1>7. CacheIn
  <2>1. cache["projects"] \in {Project!Loaded(row), Project!NoEntry}
      BY <1>2 DEF Project!Keys, Project!Answer
  <2>2. EntryIn(Project!NoEntry, budget.used)
      BY DEF EntryIn, Project!Entry, Project!NoEntry
  <2>3. EntryIn(Project!Loaded(row), budget.used)
      BY <1>5, <2>2, EntriesIn
  <2>q. QED
      BY <1>2, <2>1, <2>2, <2>3 DEF CacheIn
<1>8. CallsIn
    BY <1>2 DEF CallsIn
<1>9. UiIn(ui, budget.used)
    BY <1>1, <1>3 DEF UiIn, UiRecord, Project!NoUi
<1>10. HistoryIn /\ GoneStays
    BY <1>2 DEF HistoryIn, GoneStays
<1>11. Project!EditsKept /\ Project!NotesKept
    BY <1>2 DEF Project!EditsKept, Project!NotesKept
<1>q. QED
    BY <1>4, <1>6, <1>7, <1>8, <1>9, <1>10, <1>11 DEF ProjectInv

LEMMA ProjectNext == ASSUME Project!ProjectDeskAssumption, ProjectInv, [Project!Next]_(Project!vars) PROVE ProjectInv'
<1>1. CASE UNCHANGED Project!vars
  <2>1. UNCHANGED <<row, cache, calls, latest, ui, budget, told, want, lost, gone, revived>>
      BY <1>1 DEF Project!vars
  <2>q. QED
      BY <2>1, ProjectQuietKeeps DEF ProjectInv, CacheIn
<1>2. CASE \E k \in Project!Keys : Project!Query(k) \/ Project!LoadFails(k)
    BY <1>2, ProjectListSteps
<1>3. CASE \E s \in Slots : Project!Handle(s) \/ Project!LoseCall(s) \/ Project!Deliver(s)
    BY <1>3, CreateSteps, RefuseSteps, ReadSteps, WriteSteps, DeleteSteps, ProjectDeliverSteps DEF Project!Handle
<1>4. CASE Project!Elsewhere
    BY <1>4, ElsewhereSteps
<1>5. CASE Project!UseList
    BY <1>5, ProjectOpenSteps, ProjectAskSteps DEF Project!UseList
<1>6. CASE Project!UseDrawer
    BY <1>6, ProjectOpenSteps, ProjectAskSteps DEF Project!UseDrawer
<1>7. CASE Project!Dismiss
    BY <1>7, ProjectOpenSteps
<1>8. CASE \E p \in Project!Pages : Project!Go(p)
    BY <1>8, ProjectGoSteps
<1>q. QED
    BY <1>1, <1>2, <1>3, <1>4, <1>5, <1>6, <1>7, <1>8 DEF Project!Next

LEMMA ProjectTypes == ASSUME ProjectInv PROVE Project!TypeOK
<1>1. \A r \in SafeRow : r \in Project!Row /\ Project!Valid(r.form)
    BY DEF SafeRow
<1>2. SafeTables(budget.used) \subseteq Project!Table
    BY <1>1 DEF SafeTables, Project!Table
<1>3. row \in Project!Table /\ want \in Project!Table
      /\ \A p \in Projects : row[p] # None => Project!Valid(row[p].form)
    BY <1>1, <1>2 DEF ProjectInv, RowsIn, SafeTables
<1>4. cache["projects"] \in Project!Entry(Project!Table)
    BY <1>2 DEF ProjectInv, CacheIn, EntryIn, Project!Entry
<1>5. /\ told \in BOOLEAN /\ lost \subseteq Projects \X Project!Fields /\ revived \subseteq gone
         /\ gone \subseteq Projects
      /\ ui.detail \in Projects \cup {None} /\ ui.erase \in Projects \cup {None}
    BY DEF ProjectInv, CacheIn, HistoryIn, BudgetRecord, UiIn, UiRecord
<1>6. \A op \in Project!Ops : Project!Pending(op) => calls[latest[op]] # None /\ calls[latest[op]].op = op
    BY DEF ProjectInv, CallsIn, Project!Pending
<1>q. QED
    BY <1>3, <1>4, <1>5, <1>6 DEF Project!TypeOK

LEMMA ProjectKeeps == ASSUME ProjectInv
      PROVE Project!EditsKept /\ Project!NotesKept /\ Project!DeletedStaysGone /\ Project!RefusedForACause
<1>1. Project!DeletedStaysGone
    BY DEF ProjectInv, GoneStays, Stays, Project!DeletedStaysGone
<1>2. Project!RefusedForACause
  <2>1. SUFFICES ASSUME NEW s \in Slots, Project!Sent(s, "create") \/ Project!Sent(s, "update")
                 PROVE  Project!Valid(calls[s].form) \/ calls[s].form.progress \in {h \in 0 .. 200 : h % 2 = 1}
      BY DEF Project!RefusedForACause
  <2>2. calls[s].form.progress \in 0 .. 200
      BY <2>1 DEF ProjectInv, CallsIn, CallIn, Project!Sent
  <2>3. PICK h \in 0 .. 200 : h = calls[s].form.progress
      BY <2>2
  <2>4. h % 2 = 0 \/ h % 2 = 1
      OBVIOUS
  <2>q. QED
      BY <2>3, <2>4 DEF Project!Valid
<1>q. QED
    BY <1>1, <1>2 DEF ProjectInv

-----------------------------------------------------------------------------
(* The chat *)

ReadRecord(used) == [from : Chat!Holders, room : used \cup {None}, text : Chat!Texts]
ChatUi(used) ==
    [page : BOOLEAN, ask : BOOLEAN, room : [Chat!Holders -> used \cup {None}], erase : used \cup {None},
     reading : Seq(ReadRecord(used))]
ChatBudget ==
    [texts : 0 .. MaxTexts, typed : 0 .. MaxTexts, opens : Nat, files : Nat, faults : Nat, drawer : BOOLEAN,
     used : SUBSET Convs]

\* How far a handler has come, and how it ended.
Steady(k, b) ==
    /\ k.conv \in b.used /\ k.text <= b.typed
    /\ k.st \in {"sent", "asked"} => k.parts = 0
    /\ k.st \in {"sent", "asked", "answering"} <=> k.end = "none"

\* The stream of a conversation is that of its handler.
Tells(x, c, ks) == ks[x.task] # None /\ ks[x.task].conv = c /\ ks[x.task].text = x.text /\ x.draft <= ks[x.task].parts

ChatCallIn(k, b) ==
    /\ k \in Chat!CallRecord
    /\ k.op = "create" => k.text \in Chat!Texts /\ k.text <= b.typed /\ (k.st = "ok" => k.conv \in b.used)
    /\ k.op = "delete" => k.text = None /\ k.conv \in b.used
    /\ k.room \in b.used \cup {None}

ConvIn == conv \in [Convs -> Seq(Chat!Message) \cup {None}] /\ \A c \in Convs : Chat!Exists(c) => c \in budget.used
RoomsIn == list \in Chat!Entry(SUBSET budget.used)
TasksIn == task \in [Slots -> Chat!TaskRecord \cup {None}]
    /\ \A s \in Slots : task[s] # None => Steady(task[s], budget)
StreamsIn ==
    /\ stream \in [Convs -> Chat!StreamRecord \cup {None}]
    /\ \A c \in Convs : stream[c] # None => Tells(stream[c], c, task)
ChatCallsIn ==
    /\ calls \in [Slots -> Chat!CallRecord \cup {None}]
       /\ \A s \in Slots : calls[s] # None => ChatCallIn(calls[s], budget)
    /\ latest \in [Chat!Ops -> Slots \cup {None}]
    /\ \A o \in Chat!Ops : latest[o] # None => calls[latest[o]] # None
       /\ <<calls[latest[o]].op, calls[latest[o]].from>> = o
ChatUiIn == ui \in ChatUi(budget.used) /\ \A i \in 1 .. Len(ui.reading) : ui.reading[i].text <= budget.typed
ChatHistoryIn ==
    /\ told \in BOOLEAN /\ degraded \in BOOLEAN /\ crossed \subseteq Convs
    /\ heard \subseteq Chat!Texts /\ dropped \subseteq Chat!Texts /\ twice \subseteq Chat!Texts
       /\ crashed \subseteq Chat!Texts
    /\ shown \in [Convs -> [Chat!Texts -> Nat]]
ChatTyped ==
    /\ ConvIn /\ RoomsIn /\ TasksIn /\ StreamsIn /\ ChatCallsIn /\ ChatUiIn /\ ChatHistoryIn
    /\ budget \in ChatBudget /\ budget.typed <= budget.texts

\* A handler that is not through is heard, unless the browser is gone or it stores its answer.
Hears(c, s) == stream[c] # None /\ stream[c].task = s /\ stream[c].st = "live"
Heeded == \A s \in Slots : Chat!Running(s) => task[s].gone \/ task[s].st = "saving" \/ Hears(task[s].conv, s)

\* Of two handlers in a conversation that is not crossed, one has not stored its question.
Beside(r, s) == r # s /\ Chat!Running(r) /\ Chat!Running(s) /\ task[r].conv = task[s].conv
Orderly ==
    \A r, s \in Slots :
        Beside(r, s) /\ task[r].conv \notin crossed /\ task[r].st # "sent" =>
            task[s].st = "sent" /\ (task[r].gone \/ task[r].st = "saving")

\* The question of a handler is the last message until it stores the answer.
LastIs(ms, m) == Len(ms) > 0 /\ ms[Len(ms)] = m
AskedLast ==
    \A s \in Slots :
        Chat!Running(s) /\ task[s].st # "sent" /\ task[s].conv \notin crossed /\ Chat!Exists(task[s].conv) =>
            LastIs(conv[task[s].conv], Chat!Question(task[s].text))

\* What is seen of an answer has come, to the only handler of that message.
Seen ==
    \A s \in Slots :
        task[s] # None /\ task[s].text \notin twice =>
            /\ shown[task[s].conv][task[s].text] <= task[s].parts
            /\ \A r \in Slots : task[r] # None /\ task[r].text = task[s].text => r = s

Has(ms, m) == \E i \in 1 .. Len(ms) : ms[i] = m
StoredWhole ==
    \A s \in Slots :
        task[s] # None /\ task[s].st = "over" /\ task[s].parts > 0 /\ task[s].text \notin crashed \cup twice
          /\ Chat!Exists(task[s].conv) =>
            Has(conv[task[s].conv], Chat!Answer(task[s].text, task[s].parts))

\* A message that waits to be sent waits in one place, and has not been sent.
Makes(s, t) == calls[s] # None /\ calls[s].text = t
InBox(t) == \E i \in 1 .. Len(ui.reading) : ui.reading[i].text = t
Waits(t) == InBox(t) \/ \E s \in Slots : Makes(s, t)
Fresh(t) == (\A s \in Slots : task[s] # None => task[s].text # t) /\ \A c \in Convs : shown[c][t] = 0
Once(t) ==
    /\ \A i, j \in 1 .. Len(ui.reading) : ui.reading[i].text = t /\ ui.reading[j].text = t => i = j
    /\ \A r, s \in Slots : Makes(r, t) /\ Makes(s, t) => r = s
    /\ InBox(t) => \A s \in Slots : ~Makes(s, t)
    /\ Waits(t) => Fresh(t)
WaitsOnce ==
    \A t \in Chat!Texts : /\ t \notin twice => Once(t)
                          /\ t > budget.typed => ~Waits(t) /\ Fresh(t)

\* A message that is not stored is on its way, or its failure is.
Pends(s) ==
    /\ task[s] # None
    /\ \/ task[s].st = "sent"
       \/ task[s].st = "over" /\ task[s].end = "error" /\ Hears(task[s].conv, s)
Accounted(t) ==
    \/ Chat!Kept(t) \/ t \in heard \cup dropped \/ Waits(t)
    \/ \E s \in Slots : task[s] # None /\ task[s].text = t /\ Pends(s)
AllAccounted == \A t \in 1 .. budget.typed : Accounted(t)

ChatInv ==
    /\ ChatTyped /\ Heeded /\ Orderly /\ AskedLast /\ Chat!AnswersFollow /\ Seen /\ StoredWhole /\ WaitsOnce
       /\ AllAccounted

-----------------------------------------------------------------------------
(* What most steps leave alone *)

LEMMA RoomListIn ==
    ASSUME NEW V, NEW e \in Chat!Entry(V), NEW v \in V
    PROVE  /\ Chat!Loaded(v) \in Chat!Entry(V) /\ Chat!Refetched(e) \in Chat!Entry(V)
              /\ Chat!Cancelled(e) \in Chat!Entry(V)
           /\ Chat!Answered(e, v) \in Chat!Entry(V) /\ Chat!Stored(e) \in Chat!Entry(V)
           /\ \A old : Chat!Opened(e, old) \in Chat!Entry(V)
           /\ \A w : Chat!Invalidated(e, w) \in Chat!Entry(V)
<1>1. \A x \in V \cup {None} : Chat!Loaded(x) \in Chat!Entry(V)
    BY DEF Chat!Entry, Chat!Loaded, Chat!NoEntry
<1>2. Chat!Refetched(e) \in Chat!Entry(V)
    BY DEF Chat!Entry, Chat!Refetched
<1>3. Chat!Cancelled(e) \in Chat!Entry(V) /\ Chat!Answered(e, v) \in Chat!Entry(V)
    BY DEF Chat!Entry, Chat!Cancelled, Chat!Answered
<1>4. e.got \in V \cup {None}
    BY DEF Chat!Entry
<1>5. Chat!Stored(e) \in Chat!Entry(V)
    BY <1>1, <1>4 DEF Chat!Stored
<1>6. \A x \in Chat!Entry(V) : [x EXCEPT !.stale = TRUE] \in Chat!Entry(V)
    BY DEF Chat!Entry
<1>7. \A w : Chat!Invalidated(e, w) \in Chat!Entry(V)
    BY <1>2, <1>6 DEF Chat!Invalidated
<1>8. \A old : Chat!Opened(e, old) \in Chat!Entry(V)
    BY <1>2 DEF Chat!Opened
<1>q. QED
    BY <1>1, <1>2, <1>3, <1>5, <1>7, <1>8

LEMMA ListIsIn ==
    ASSUME ChatTyped
    PROVE  /\ list \in Chat!Entry(SUBSET budget.used) /\ Chat!Existing \in SUBSET budget.used
           /\ \A w : Chat!Invalidated(list, w) \in Chat!Entry(SUBSET budget.used)
           /\ \A old : Chat!Opened(list, old) \in Chat!Entry(SUBSET budget.used)
<1>1. list \in Chat!Entry(SUBSET budget.used) /\ Chat!Existing \in SUBSET budget.used
    BY DEF ChatTyped, RoomsIn, ConvIn, Chat!Existing
<1>q. QED
    BY <1>1, RoomListIn

LEMMA ChatSpends ==
    ASSUME budget \in ChatBudget, NEW f \in {"opens", "files", "faults"}, Chat!Spend(f)
    PROVE  /\ budget' \in ChatBudget /\ budget'.used = budget.used /\ budget'.typed = budget.typed
           /\ budget'.texts = budget.texts
    BY DEF ChatBudget, Chat!Spend

\* The types of what stands still.
LEMMA SameRooms ==
    ASSUME ChatTyped, budget'.used = budget.used, budget'.typed = budget.typed
    PROVE  /\ UNCHANGED conv => ConvIn'
           /\ UNCHANGED list => RoomsIn'
           /\ UNCHANGED task => TasksIn'
           /\ UNCHANGED <<task, stream>> => StreamsIn'
           /\ UNCHANGED <<calls, latest>> => ChatCallsIn'
           /\ UNCHANGED ui => ChatUiIn'
           /\ UNCHANGED <<told, degraded, crossed, heard, dropped, twice, crashed, shown>> => ChatHistoryIn'
<1> USE DEF ChatTyped
<1>1. UNCHANGED conv => ConvIn'
    BY DEF ConvIn, Chat!Exists
<1>2. UNCHANGED list => RoomsIn'
    BY DEF RoomsIn
<1>3. UNCHANGED task => TasksIn'
    BY DEF TasksIn, Steady
<1>4. UNCHANGED <<task, stream>> => StreamsIn'
    BY DEF StreamsIn, Tells
<1>5. UNCHANGED <<calls, latest>> => ChatCallsIn'
  <2>1. \A k : ChatCallIn(k, budget) => ChatCallIn(k, budget')
      BY DEF ChatCallIn
  <2>q. QED
      BY <2>1 DEF ChatCallsIn
<1>6. UNCHANGED ui => ChatUiIn'
    BY DEF ChatUiIn
<1>7. UNCHANGED <<told, degraded, crossed, heard, dropped, twice, crashed, shown>> => ChatHistoryIn'
    BY DEF ChatHistoryIn
<1>q. QED
    BY <1>1, <1>2, <1>3, <1>4, <1>5, <1>6, <1>7

\* What only the pages and their queries see.
LEMMA ChatQuiet ==
    ASSUME ChatInv, UNCHANGED <<conv, task, stream, calls, latest, heard, dropped, twice, crossed, shown, crashed>>,
           list' \in Chat!Entry(SUBSET budget.used), ui' \in ChatUi(budget.used), ui'.reading = ui.reading,
           told' \in BOOLEAN, degraded' \in BOOLEAN, budget' \in ChatBudget,
           budget'.used = budget.used, budget'.typed = budget.typed, budget'.texts = budget.texts
    PROVE  ChatInv'
<1>1. ChatTyped'
  <2>1. ConvIn' /\ TasksIn' /\ StreamsIn' /\ ChatCallsIn'
      BY SameRooms DEF ChatInv
  <2>2. RoomsIn'
      BY DEF RoomsIn
  <2>3. ChatUiIn' /\ ChatHistoryIn'
      BY DEF ChatInv, ChatTyped, ChatUiIn, ChatHistoryIn
  <2>4. budget'.typed <= budget'.texts
      BY DEF ChatInv, ChatTyped
  <2>q. QED
      BY <2>1, <2>2, <2>3, <2>4 DEF ChatTyped
<1>2. Heeded' /\ Orderly'
    BY DEF ChatInv, Heeded, Orderly, Beside, Chat!Running, Hears
<1>3. AskedLast' /\ Chat!AnswersFollow'
    BY DEF ChatInv, AskedLast, Chat!AnswersFollow, Chat!Running, Chat!Exists, Chat!Existing
<1>4. Seen' /\ StoredWhole'
    BY DEF ChatInv, Seen, StoredWhole, Chat!Exists
<1>5. WaitsOnce'
  <2>1. \A t : (Once(t)' <=> Once(t)) /\ (Waits(t)' <=> Waits(t)) /\ (Fresh(t)' <=> Fresh(t))
      BY DEF Once, Waits, Fresh, InBox, Makes
  <2>q. QED
      BY <2>1 DEF ChatInv, WaitsOnce
<1>6. AllAccounted'
  <2>1. \A t : Accounted(t) => Accounted(t)'
      BY DEF Accounted, Chat!Kept, Chat!Asked, Chat!Exists, Waits, InBox, Makes, Pends, Hears
  <2>q. QED
      BY <2>1 DEF ChatInv, AllAccounted
<1>q. QED
    BY <1>1, <1>2, <1>3, <1>4, <1>5, <1>6 DEF ChatInv

LEMMA ListenSteps ==
    ASSUME ChatInv,
           \/ Chat!ServeList \/ Chat!StoreList \/ Chat!LoadFails \/ Chat!Acknowledge
           \/ \E c \in Convs : Chat!Serve(c) \/ Chat!Store(c)
    PROVE  ChatInv'
<1>1. /\ UNCHANGED <<conv, task, stream, calls, latest, heard, dropped, twice, crossed, shown, crashed, ui>>
      /\ list' \in {list, Chat!Answered(list, Chat!Existing), Chat!Stored(list), Chat!Cancelled(list)}
      /\ degraded' \in {degraded, FALSE}
      /\ Chat!Spend("faults") \/ budget' = budget
    BY DEF Chat!ServeList, Chat!StoreList, Chat!LoadFails, Chat!Acknowledge, Chat!Serve, Chat!Store, Chat!server,
       Chat!cached, Chat!store, Chat!mutations, Chat!history
<1>2. told' \in BOOLEAN /\ degraded' \in BOOLEAN
  <2>1. told \in BOOLEAN /\ degraded \in BOOLEAN
      BY DEF ChatInv, ChatTyped, ChatHistoryIn
  <2>2. told' = told \/ told' \in BOOLEAN
      BY DEF Chat!ServeList, Chat!StoreList, Chat!LoadFails, Chat!Acknowledge, Chat!Serve, Chat!Store, Chat!history
  <2>q. QED
      BY <1>1, <2>1, <2>2
<1>3. list' \in Chat!Entry(SUBSET budget.used)
    BY <1>1, ListIsIn, RoomListIn DEF ChatInv
<1>4. /\ budget' \in ChatBudget /\ budget'.used = budget.used /\ budget'.typed = budget.typed
      /\ budget'.texts = budget.texts
    BY <1>1, ChatSpends DEF ChatInv, ChatTyped
<1>5. ui' \in ChatUi(budget.used) /\ ui'.reading = ui.reading
    BY <1>1 DEF ChatInv, ChatTyped, ChatUiIn
<1>q. QED
    BY <1>1, <1>2, <1>3, <1>4, <1>5, ChatQuiet

\* A room is opened, or left.
LEMMA RoomOpens ==
    ASSUME NEW used, NEW u \in ChatUi(used), NEW h \in Chat!Holders, NEW c \in used \cup {None}
    PROVE  [u EXCEPT !.room[h] = c] \in ChatUi(used) /\ [u EXCEPT !.room[h] = c].reading = u.reading
<1>1. PICK S : S = Seq(ReadRecord(used))
    OBVIOUS
<1>2. PICK r : r = [u.room EXCEPT ![h] = c]
    OBVIOUS
<1>3. r \in [Chat!Holders -> used \cup {None}]
    BY <1>2 DEF ChatUi
<1>4. [u EXCEPT !.room[h] = c] = [u EXCEPT !.room = r]
    BY <1>2
<1>5. u \in [page : BOOLEAN, ask : BOOLEAN, room : [Chat!Holders -> used \cup {None}], erase : used \cup {None},
             reading : S]
    BY <1>1 DEF ChatUi
<1>6. /\ [u EXCEPT !.room = r].reading = u.reading
      /\ [u EXCEPT !.room = r]
            \in [page : BOOLEAN, ask : BOOLEAN, room : [Chat!Holders -> used \cup {None}], erase : used \cup {None},
                reading : S]
    BY <1>3, <1>5
<1>q. QED
    BY <1>1, <1>4, <1>6 DEF ChatUi

LEMMA LookSteps ==
    ASSUME ChatInv,
           \/ Chat!OpenDrawer \/ Chat!CloseDrawer \/ Chat!CancelDelete
           \/ (\E c \in Convs \cup {None} : Chat!Choose(c)) \/ \E c \in Convs : Chat!AskDelete(c)
    PROVE  ChatInv'
<1>1. /\ UNCHANGED <<conv, task, stream, calls, latest, heard, dropped, twice, crossed, shown, crashed, told, degraded>>
      /\ list' = list \/ \E old \in BOOLEAN : list' = Chat!Opened(list, old)
      /\ Chat!Spend("opens") \/ budget' = budget
  <2>1. \A u : Chat!Look(u) => list' = list \/ \E old \in BOOLEAN : list' = Chat!Opened(list, old)
      BY DEF Chat!Look
  <2>2. CASE Chat!OpenDrawer \/ Chat!CancelDelete \/ \E c \in Convs : Chat!AskDelete(c)
      BY <2>2 DEF Chat!OpenDrawer, Chat!CancelDelete, Chat!AskDelete, Chat!server, Chat!cached, Chat!store,
         Chat!mutations, Chat!history
  <2>3. CASE Chat!CloseDrawer
      BY <2>1, <2>3 DEF Chat!CloseDrawer, Chat!server, Chat!store, Chat!mutations, Chat!history
  <2>4. CASE \E c \in Convs \cup {None} : Chat!Choose(c)
      BY <2>1, <2>4 DEF Chat!Choose, Chat!server, Chat!store, Chat!mutations, Chat!history
  <2>q. QED
      BY <2>2, <2>3, <2>4
<1>2. told' \in BOOLEAN /\ degraded' \in BOOLEAN
    BY <1>1 DEF ChatInv, ChatTyped, ChatHistoryIn
<1>3. list' \in Chat!Entry(SUBSET budget.used)
    BY <1>1, ListIsIn DEF ChatInv
<1>4. /\ budget' \in ChatBudget /\ budget'.used = budget.used /\ budget'.typed = budget.typed
      /\ budget'.texts = budget.texts
    BY <1>1, ChatSpends DEF ChatInv, ChatTyped
<1>5. ui' \in ChatUi(budget.used) /\ ui'.reading = ui.reading
  <2>1. ui \in ChatUi(budget.used)
      BY DEF ChatInv, ChatTyped, ChatUiIn
  <2>2. CASE Chat!OpenDrawer \/ Chat!CloseDrawer \/ Chat!CancelDelete
    <3>1. ui' \in {[ui EXCEPT !.ask = TRUE], [ui EXCEPT !.ask = FALSE, !.room["drawer"] = None],
                   [ui EXCEPT !.erase = None]}
        BY <2>2, Zenon DEF Chat!OpenDrawer, Chat!CloseDrawer, Chat!CancelDelete, Chat!Look
    <3>2. \A u \in ChatUi(budget.used) :
              /\ [u EXCEPT !.ask = TRUE] \in ChatUi(budget.used) /\ [u EXCEPT !.ask = FALSE] \in ChatUi(budget.used)
              /\ [u EXCEPT !.erase = None] \in ChatUi(budget.used)
              /\ [u EXCEPT !.ask = TRUE].reading = u.reading /\ [u EXCEPT !.ask = FALSE].reading = u.reading
              /\ [u EXCEPT !.erase = None].reading = u.reading
        BY DEF ChatUi
    <3>4. PICK u : u = [ui EXCEPT !.ask = FALSE]
        OBVIOUS
    <3>5. [ui EXCEPT !.ask = FALSE, !.room["drawer"] = None] = [u EXCEPT !.room["drawer"] = None]
        BY <3>4
    <3>6. u \in ChatUi(budget.used) /\ u.reading = ui.reading
        BY <2>1, <3>2, <3>4
    <3>7. [u EXCEPT !.room["drawer"] = None] \in ChatUi(budget.used)
          /\ [u EXCEPT !.room["drawer"] = None].reading = u.reading
        BY <3>6, RoomOpens DEF Chat!Holders
    <3>8. /\ [ui EXCEPT !.ask = FALSE, !.room["drawer"] = None] \in ChatUi(budget.used)
          /\ [ui EXCEPT !.ask = FALSE, !.room["drawer"] = None].reading = ui.reading
        BY <3>5, <3>6, <3>7
    <3>9. /\ [ui EXCEPT !.ask = TRUE] \in ChatUi(budget.used) /\ [ui EXCEPT !.erase = None] \in ChatUi(budget.used)
          /\ [ui EXCEPT !.ask = TRUE].reading = ui.reading /\ [ui EXCEPT !.erase = None].reading = ui.reading
        BY <2>1, <3>2
    <3>q. QED
        BY <3>1, <3>8, <3>9
  <2>3. ASSUME NEW c \in Convs \cup {None}, Chat!Choose(c) \/ Chat!AskDelete(c)
        PROVE  ui' \in ChatUi(budget.used) /\ ui'.reading = ui.reading
    <3>1. ui' \in {[ui EXCEPT !.room["page"] = c], [ui EXCEPT !.erase = c]}
        BY <2>3 DEF Chat!Choose, Chat!AskDelete, Chat!Look
    <3>2. c \in budget.used \cup {None}
      <4>1. list.val # None /\ c \in list.val \cup {None}
          BY <2>3 DEF Chat!Choose, Chat!AskDelete
      <4>2. list.val \in (SUBSET budget.used) \cup {None}
          BY ListIsIn DEF ChatInv, Chat!Entry
      <4>q. QED
          BY <4>1, <4>2
    <3>3. [ui EXCEPT !.room["page"] = c] \in ChatUi(budget.used)
          /\ [ui EXCEPT !.room["page"] = c].reading = ui.reading
        BY <2>1, <3>2, RoomOpens DEF Chat!Holders
    <3>4. [ui EXCEPT !.erase = c] \in ChatUi(budget.used) /\ [ui EXCEPT !.erase = c].reading = ui.reading
        BY <2>1, <3>2 DEF ChatUi
    <3>q. QED
        BY <3>1, <3>3, <3>4
  <2>q. QED
      BY <2>2, <2>3
<1>q. QED
    BY <1>1, <1>2, <1>3, <1>4, <1>5, ChatQuiet

-----------------------------------------------------------------------------
(* The handler of a message *)

\* How a handler can go on.
Further(k, d) ==
    /\ d.conv = k.conv /\ d.text = k.text /\ d.gone = k.gone /\ k.parts <= d.parts
    /\ d.st # "over" => (d.st = "sent" <=> k.st = "sent")
    /\ k.st = "saving" => d.st \in {"saving", "over"}

\* A handler that is not through comes further, or ends: the messages, and who
\* listens, stay as they are.
LEMMA TaskMoves ==
    ASSUME Chat!ChatDeskAssumption, ChatInv, NEW s \in Slots, Chat!Running(s), NEW k \in Chat!TaskRecord,
           task' = [task EXCEPT ![s] = k],
           Further(task[s], k), Steady(k, budget),
           k.st # "over" \/ k.parts = 0 \/ k.text \in crashed',
           \/ task[s].st # "sent" \/ k.st = "sent" \/ k.text \in dropped'
           \/ k.st = "over" /\ k.end = "error" /\ Hears(k.conv, s),
           UNCHANGED <<conv, list, stream, calls, latest, ui, told, degraded, heard, twice, crossed, shown>>,
           budget' \in ChatBudget, budget'.used = budget.used, budget'.typed = budget.typed,
           budget'.texts = budget.texts,
           dropped \subseteq dropped', dropped' \subseteq Chat!Texts, crashed \subseteq crashed', crashed' \subseteq Chat!Texts
    PROVE  ChatInv'
<1> USE DEF ChatInv, Further
<1>1. /\ k # None /\ task[s] # None /\ task[s].st # "over"
      /\ task' \in [Slots -> Chat!TaskRecord \cup {None}] /\ task'[s] = k
      /\ \A r \in Slots \ {s} : task'[r] = task[r]
    BY DEF Chat!Running, Chat!ChatDeskAssumption, ChatTyped, TasksIn
<1>2. ChatTyped'
  <2>1. ConvIn' /\ RoomsIn' /\ ChatCallsIn' /\ ChatUiIn'
      BY SameRooms
  <2>2. TasksIn'
      BY <1>1 DEF ChatTyped, TasksIn, Steady
  <2>3. StreamsIn'
    <3>1. \A x \in Chat!StreamRecord, c \in Convs : Tells(x, c, task) => Tells(x, c, task')
      <4>1. SUFFICES ASSUME NEW x \in Chat!StreamRecord, NEW c \in Convs, Tells(x, c, task) PROVE Tells(x, c, task')
          OBVIOUS
      <4>2. CASE x.task = s
        <5>1. x.draft <= k.parts
          <6>1. x.draft \in Nat /\ k.parts \in Nat /\ task[s].parts \in Nat
            <7>1. task[s] \in Chat!TaskRecord
                BY <1>1 DEF ChatTyped, TasksIn
            <7>q. QED
                BY <7>1 DEF Chat!StreamRecord, Chat!TaskRecord, Chat!ChatDeskAssumption
          <6>q. QED
              BY <4>1, <4>2, <6>1 DEF Tells
        <5>q. QED
            BY <1>1, <4>1, <4>2, <5>1 DEF Tells
      <4>3. CASE x.task # s
          BY <1>1, <4>1, <4>3 DEF Tells, Chat!StreamRecord
      <4>q. QED
          BY <4>2, <4>3
    <3>q. QED
        BY <3>1 DEF ChatTyped, StreamsIn
  <2>4. ChatHistoryIn'
      BY DEF ChatTyped, ChatHistoryIn
  <2>5. budget'.typed <= budget'.texts
      BY DEF ChatTyped
  <2>q. QED
      BY <2>1, <2>2, <2>3, <2>4, <2>5 DEF ChatTyped
<1>3. Heeded'
    BY <1>1 DEF Heeded, Chat!Running, Hears
<1>4. Orderly'
    BY <1>1 DEF Orderly, Beside, Chat!Running
<1>5. AskedLast'
    BY <1>1 DEF AskedLast, Chat!Running, Chat!Exists
<1>6. Chat!AnswersFollow'
    BY DEF Chat!AnswersFollow, Chat!Existing, Chat!Exists
<1>7. Seen'
  <2>1. /\ \A c \in Convs, t \in Chat!Texts : shown[c][t] \in Nat
        /\ task[s].conv \in Convs /\ task[s].text \in Chat!Texts /\ task[s].parts \in Nat /\ k.parts \in Nat
    <3>1. task[s] \in Chat!TaskRecord
        BY <1>1 DEF ChatTyped, TasksIn
    <3>q. QED
        BY <3>1 DEF Chat!TaskRecord, ChatTyped, ChatHistoryIn, Chat!ChatDeskAssumption
  <2>2. task[s].text \notin twice => shown[k.conv][k.text] <= k.parts
      BY <1>1, <2>1 DEF Seen
  <2>q. QED
      BY <1>1, <2>2 DEF Seen
<1>8. StoredWhole'
    BY <1>1 DEF StoredWhole, Chat!Exists
<1>9. WaitsOnce'
  <2>1. \A t : (Waits(t)' <=> Waits(t)) /\ (Fresh(t)' <=> Fresh(t))
      BY <1>1 DEF Waits, Fresh, InBox, Makes
  <2>2. \A t : Once(t) => Once(t)'
      BY <2>1 DEF Once, InBox, Makes
  <2>q. QED
      BY <2>1, <2>2 DEF WaitsOnce
<1>10. AllAccounted'
  <2>1. \A t : Accounted(t) => Accounted(t)'
    <3>1. SUFFICES ASSUME NEW t, Accounted(t) PROVE Accounted(t)'
        OBVIOUS
    <3>2. CASE Chat!Kept(t) \/ t \in heard \cup dropped \/ Waits(t)
        BY <3>2 DEF Accounted, Chat!Kept, Chat!Asked, Chat!Exists, Waits, InBox, Makes
    <3>3. ASSUME NEW r \in Slots, task[r] # None, task[r].text = t, Pends(r) PROVE Accounted(t)'
        BY <1>1, <3>3 DEF Accounted, Pends, Hears
    <3>q. QED
        BY <3>1, <3>2, <3>3 DEF Accounted
  <2>q. QED
      BY <2>1 DEF AllAccounted
<1>q. QED
    BY <1>2, <1>3, <1>4, <1>5, <1>6, <1>7, <1>8, <1>9, <1>10

LEMMA RelaySteps ==
    ASSUME Chat!ChatDeskAssumption, ChatInv,
           NEW s \in Slots, Chat!Refuse(s) \/ Chat!Open(s) \/ Chat!Part(s) \/ Chat!Finish(s) \/ Chat!Crash(s)
    PROVE  ChatInv'
<1>1. Chat!Running(s)
    BY DEF Chat!Refuse, Chat!Open, Chat!Part, Chat!Finish, Chat!Crash, Chat!At, Chat!Running
<1>2. PICK k \in Chat!TaskRecord : k = task[s] /\ Steady(k, budget)
    BY <1>1 DEF Chat!Running, ChatInv, ChatTyped, TasksIn
<1>3. k.text \in Chat!Texts /\ k.parts \in Nat /\ k.st # "over"
    BY <1>1, <1>2 DEF Chat!TaskRecord, Chat!ChatDeskAssumption, Chat!Running
<1>4. budget \in ChatBudget /\ dropped \subseteq Chat!Texts /\ crashed \subseteq Chat!Texts
    BY DEF ChatInv, ChatTyped, ChatHistoryIn
<1>5. CASE Chat!Refuse(s)
  <2> DEFINE d == [[k EXCEPT !.st = "over"] EXCEPT !.end = "error"]
  <2>1. /\ d \in Chat!TaskRecord /\ d.st = "over" /\ d.end = "error" /\ d.conv = k.conv /\ d.text = k.text
        /\ d.parts = k.parts /\ d.gone = k.gone
      BY DEF Chat!TaskRecord
  <2>2. task' = [task EXCEPT ![s] = d]
      BY <1>2, <1>5 DEF Chat!Refuse
  <2> HIDE DEF d
  <2>3. /\ k.st \in {"sent", "asked"} /\ k.parts = 0
        /\ UNCHANGED <<conv, list, stream, calls, latest, ui, told, degraded, heard, twice, crossed, shown, budget, crashed>>
        /\ dropped' = IF k.st = "sent" /\ k.gone THEN dropped \cup {k.text} ELSE dropped
      BY <1>1, <1>2, <1>5 DEF Chat!Refuse, Chat!At, Steady, Chat!Running, Chat!cached, Chat!store, Chat!mutations
  <2>4. Steady(d, budget)
      BY <1>2, <2>1, <2>3 DEF Steady
  <2>5. k.st = "sent" => d.text \in dropped' \/ Hears(d.conv, s)
    <3>1. CASE k.gone
        BY <2>1, <2>3, <3>1
    <3>2. CASE ~k.gone
        BY <1>1, <1>2, <2>1, <3>2 DEF ChatInv, Heeded
    <3>q. QED
        BY <3>1, <3>2
  <2>8. Further(task[s], d)
      BY <1>2, <1>3, <2>1, <2>3 DEF Further
  <2>9. /\ d.parts = 0 /\ d.text \in Chat!Texts
        /\ \/ task[s].st # "sent" \/ d.text \in dropped' \/ Hears(d.conv, s)
      BY <1>2, <1>3, <2>1, <2>3, <2>5
  <2>10. dropped \subseteq dropped' /\ dropped' \subseteq Chat!Texts
      BY <1>3, <1>4, <2>3
  <2>q. QED
      BY <1>1, <1>2, <1>3, <1>4, <2>1, <2>2, <2>3, <2>4, <2>5, <2>8, <2>9, <2>10, TaskMoves
<1>6. CASE Chat!Open(s)
  <2> DEFINE d == [k EXCEPT !.st = "answering"]
  <2>1. /\ d \in Chat!TaskRecord /\ d.st = "answering" /\ d.end = k.end /\ d.conv = k.conv /\ d.text = k.text
        /\ d.parts = k.parts /\ d.gone = k.gone
      BY DEF Chat!TaskRecord
  <2>2. task' = [task EXCEPT ![s] = d]
      BY <1>2, <1>6 DEF Chat!Open, Chat!Step
  <2> HIDE DEF d
  <2>3. /\ k.st = "asked"
        /\ UNCHANGED <<conv, list, stream, calls, latest, ui, told, degraded, heard, twice, crossed, shown, budget,
                      crashed, dropped>>
      BY <1>2, <1>6 DEF Chat!Open, Chat!At, Chat!cached, Chat!store, Chat!mutations, Chat!history
  <2>4. Steady(d, budget)
      BY <1>2, <2>1, <2>3 DEF Steady
  <2>8. Further(task[s], d)
      BY <1>2, <1>3, <2>1, <2>3 DEF Further
  <2>9. task[s].st # "sent" /\ d.st # "over"
      BY <1>2, <2>1, <2>3
  <2>q. QED
      BY <1>1, <1>2, <1>3, <1>4, <2>1, <2>2, <2>3, <2>4, <2>8, <2>9, TaskMoves
<1>7. CASE Chat!Part(s)
  <2> DEFINE d == [k EXCEPT !.parts = @ + 1]
  <2>1. k.st = "answering" /\ k.parts < MaxParts
      BY <1>2, <1>7 DEF Chat!Part, Chat!At
  <2>2. /\ d \in Chat!TaskRecord /\ d.st = "answering" /\ d.end = k.end /\ d.conv = k.conv /\ d.text = k.text
        /\ d.parts = k.parts + 1 /\ d.gone = k.gone
      BY <2>1 DEF Chat!TaskRecord, Chat!ChatDeskAssumption
  <2>3. task' = [task EXCEPT ![s] = d]
      BY <1>2, <1>7 DEF Chat!Part
  <2> HIDE DEF d
  <2>4. UNCHANGED <<conv, list, stream, calls, latest, ui, told, degraded, heard, twice, crossed, shown, budget,
                    crashed, dropped>>
      BY <1>7 DEF Chat!Part, Chat!cached, Chat!store, Chat!mutations, Chat!history
  <2>5. Steady(d, budget)
      BY <1>2, <2>1, <2>2 DEF Steady
  <2>8. Further(task[s], d)
      BY <1>2, <1>3, <2>1, <2>2 DEF Further
  <2>9. task[s].st # "sent" /\ d.st # "over"
      BY <1>2, <2>1, <2>2
  <2>q. QED
      BY <1>1, <1>2, <1>3, <1>4, <2>1, <2>2, <2>3, <2>4, <2>5, <2>8, <2>9, TaskMoves
<1>8. CASE Chat!Finish(s)
  <2>1. PICK e \in {"done", "error", "silent"} :
            task' = [task EXCEPT ![s].st = "saving", ![s].end = e] /\ (Chat!Spend("faults") \/ budget' = budget)
      BY <1>8 DEF Chat!Finish
  <2> DEFINE d == [[k EXCEPT !.st = "saving"] EXCEPT !.end = e]
  <2>2. /\ d \in Chat!TaskRecord /\ d.st = "saving" /\ d.end = e /\ d.conv = k.conv /\ d.text = k.text
        /\ d.parts = k.parts /\ d.gone = k.gone
      BY DEF Chat!TaskRecord
  <2>3. task' = [task EXCEPT ![s] = d]
      BY <1>2, <2>1
  <2> HIDE DEF d
  <2>4. /\ k.st = "answering"
        /\ UNCHANGED <<conv, list, stream, calls, latest, ui, told, degraded, heard, twice, crossed, shown,
                      crashed, dropped>>
      BY <1>2, <1>8 DEF Chat!Finish, Chat!At, Chat!cached, Chat!store, Chat!mutations, Chat!history
  <2>5. Steady(d, budget)
      BY <1>2, <2>1, <2>2, <2>4 DEF Steady
  <2>6. /\ budget' \in ChatBudget /\ budget'.used = budget.used /\ budget'.typed = budget.typed
        /\ budget'.texts = budget.texts
      BY <1>4, <2>1, ChatSpends
  <2>8. Further(task[s], d)
      BY <1>2, <1>3, <2>2, <2>4 DEF Further
  <2>9. task[s].st # "sent" /\ d.st # "over"
      BY <1>2, <2>2, <2>4
  <2>q. QED
      BY <1>1, <1>2, <1>3, <1>4, <2>2, <2>3, <2>4, <2>5, <2>6, <2>8, <2>9, TaskMoves
<1>9. CASE Chat!Crash(s)
  <2>1. PICK e : e = (IF k.end = "none" THEN "error" ELSE k.end)
      OBVIOUS
  <2> DEFINE d == [[k EXCEPT !.st = "over"] EXCEPT !.end = e]
  <2>2. e \in {"done", "error", "silent"}
      BY <2>1 DEF Chat!TaskRecord
  <2>3. /\ d \in Chat!TaskRecord /\ d.st = "over" /\ d.end = e /\ d.conv = k.conv /\ d.text = k.text
        /\ d.parts = k.parts /\ d.gone = k.gone
      BY <2>2 DEF Chat!TaskRecord
  <2>4. task' = [task EXCEPT ![s] = d]
      BY <1>2, <1>9, <2>1 DEF Chat!Crash, ChatInv, ChatTyped, TasksIn
  <2> HIDE DEF d
  <2>5. /\ k.st \in {"answering", "saving"} /\ crashed' = crashed \cup {k.text} /\ Chat!Spend("faults")
        /\ UNCHANGED <<conv, list, stream, calls, latest, ui, told, degraded, heard, twice, crossed, shown, dropped>>
      BY <1>2, <1>9 DEF Chat!Crash, Chat!At, Chat!cached, Chat!store, Chat!mutations
  <2>6. Steady(d, budget)
      BY <1>2, <2>2, <2>3, <2>5 DEF Steady
  <2>7. /\ budget' \in ChatBudget /\ budget'.used = budget.used /\ budget'.typed = budget.typed
        /\ budget'.texts = budget.texts
      BY <1>4, <2>5, ChatSpends
  <2>8. Further(task[s], d)
      BY <1>2, <1>3, <2>3, <2>5 DEF Further
  <2>9. /\ task[s].st # "sent" /\ d.text \in crashed'
        /\ crashed \subseteq crashed' /\ crashed' \subseteq Chat!Texts
      BY <1>2, <1>3, <1>4, <2>3, <2>5
  <2>q. QED
      BY <1>1, <1>2, <1>3, <1>4, <2>2, <2>3, <2>4, <2>5, <2>6, <2>7, <2>8, <2>9, TaskMoves
<1>q. QED
    BY <1>5, <1>6, <1>7, <1>8, <1>9

\* A message is added to a conversation.
LEMMA MessageComes ==
    ASSUME Chat!ChatDeskAssumption, ConvIn, NEW c \in Convs, Chat!Exists(c), NEW m \in Chat!Message,
           conv' = [conv EXCEPT ![c] = Append(@, m)], budget' = budget
    PROVE  /\ ConvIn' /\ conv[c] \in Seq(Chat!Message) /\ \A d \in Convs \ {c} : conv'[d] = conv[d]
           /\ \A d \in Convs : Chat!Exists(d)' <=> Chat!Exists(d)
           /\ Len(conv[c]) \in Nat /\ Len(conv'[c]) = Len(conv[c]) + 1 /\ conv'[c][Len(conv[c]) + 1] = m
           /\ \A i \in 1 .. Len(conv[c]) : conv'[c][i] = conv[c][i]
           /\ \A d \in Convs : \A t : Chat!Asked(d, t) => Chat!Asked(d, t)'
           /\ \A d \in Convs : \A x : Chat!Exists(d) /\ Has(conv[d], x) => Has(conv'[d], x)
<1>1. conv[c] \in Seq(Chat!Message) /\ conv \in [Convs -> Seq(Chat!Message) \cup {None}]
    BY DEF ConvIn, Chat!Exists
<1>2. PICK ms : ms = conv[c]
    OBVIOUS
<1>3. PICK ns : ns = Append(ms, m)
    OBVIOUS
<1>4. /\ ns \in Seq(Chat!Message) /\ Len(ms) \in Nat /\ Len(ns) = Len(ms) + 1 /\ ns[Len(ms) + 1] = m
      /\ \A i \in 1 .. Len(ms) : ns[i] = ms[i]
    BY <1>1, <1>2, <1>3
<1>5. ns # None
    BY <1>4 DEF Chat!ChatDeskAssumption
<1>6. conv' = [conv EXCEPT ![c] = ns]
    BY <1>1, <1>2, <1>3
<1>7. /\ conv' \in [Convs -> Seq(Chat!Message) \cup {None}] /\ conv'[c] = ns
      /\ \A d \in Convs \ {c} : conv'[d] = conv[d]
    BY <1>1, <1>4, <1>6
<1>8. \A d \in Convs : Chat!Exists(d)' <=> Chat!Exists(d)
    BY <1>5, <1>7 DEF Chat!Exists
<1>9. ConvIn'
    BY <1>7, <1>8 DEF ConvIn
<1>10. \A x : Has(ms, x) => Has(ns, x)
    BY <1>4 DEF Has
<1>11. \A d \in Convs : \A x : Chat!Exists(d) /\ Has(conv[d], x) => Has(conv'[d], x)
    BY <1>2, <1>7, <1>10
<1>12. \A d \in Convs : \A t : Chat!Asked(d, t) <=> Chat!Exists(d) /\ Has(conv[d], Chat!Question(t))
    BY DEF Chat!Asked, Has
<1>13. \A d \in Convs : \A t : Chat!Asked(d, t)' <=> Chat!Exists(d)' /\ Has(conv'[d], Chat!Question(t))
    BY DEF Chat!Asked, Has, Chat!Question
<1>14. \A d \in Convs : \A t : Chat!Asked(d, t) => Chat!Asked(d, t)'
    BY <1>8, <1>11, <1>12, <1>13
<1>q. QED
    BY <1>1, <1>2, <1>4, <1>7, <1>8, <1>9, <1>11, <1>14

\* A question comes after those of the other handlers, or their answers.
LEMMA ArriveSteps ==
    ASSUME Chat!ChatDeskAssumption, ChatInv, NEW s \in Slots, Chat!Arrive(s)
    PROVE  ChatInv'
<1> USE DEF ChatInv
<1>1. Chat!At(s, "sent") /\ Chat!Running(s)
    BY DEF Chat!Arrive, Chat!At, Chat!Running
<1>2. PICK k \in Chat!TaskRecord : k = task[s] /\ Steady(k, budget)
    BY <1>1 DEF Chat!Running, ChatTyped, TasksIn
<1>3. PICK c \in Convs : c = k.conv
    BY DEF Chat!TaskRecord
<1>4. PICK t \in Chat!Texts : t = k.text
    BY DEF Chat!TaskRecord
<1> DEFINE d == [k EXCEPT !.st = "asked"]
<1>5. /\ d \in Chat!TaskRecord /\ d.st = "asked" /\ d.end = k.end /\ d.conv = c /\ d.text = t
      /\ d.parts = k.parts /\ d.gone = k.gone
    BY <1>3, <1>4 DEF Chat!TaskRecord
<1>6. task' = [task EXCEPT ![s] = d]
    BY <1>2 DEF Chat!Arrive, Chat!Step
<1> HIDE DEF d
<1>7. /\ Chat!Exists(c) /\ k.st = "sent" /\ conv' = [conv EXCEPT ![c] = Append(@, Chat!Question(t))]
      /\ UNCHANGED <<list, stream, calls, latest, ui, told, degraded, heard, twice, shown, budget, crashed, dropped>>
    BY <1>1, <1>2, <1>3, <1>4 DEF Chat!Arrive, Chat!At, Chat!cached, Chat!store, Chat!mutations
<1>8. /\ crossed \subseteq crossed' /\ crossed' \subseteq crossed \cup {c}
      /\ c \notin crossed' =>
           \A r \in Slots \ {s} : Chat!Running(r) /\ task[r].conv = c => task[r].st # "saving" /\ ~task[r].gone
    BY <1>2, <1>3 DEF Chat!Arrive
<1>9. Chat!Question(t) \in Chat!Message
    BY DEF Chat!Question, Chat!Message, Chat!ChatDeskAssumption
<1>10. /\ task[s] # None /\ d # None /\ task' \in [Slots -> Chat!TaskRecord \cup {None}] /\ task'[s] = d
       /\ \A r \in Slots \ {s} : task'[r] = task[r]
    BY <1>1, <1>5, <1>6 DEF Chat!Running, Chat!ChatDeskAssumption, ChatTyped, TasksIn
<1>11. /\ ConvIn' /\ conv[c] \in Seq(Chat!Message) /\ \A x \in Convs \ {c} : conv'[x] = conv[x]
       /\ \A x \in Convs : Chat!Exists(x)' <=> Chat!Exists(x)
       /\ Len(conv[c]) \in Nat /\ Len(conv'[c]) = Len(conv[c]) + 1 /\ conv'[c][Len(conv[c]) + 1] = Chat!Question(t)
       /\ \A i \in 1 .. Len(conv[c]) : conv'[c][i] = conv[c][i]
       /\ \A x \in Convs : \A u : Chat!Asked(x, u) => Chat!Asked(x, u)'
       /\ \A x \in Convs : \A m : Chat!Exists(x) /\ Has(conv[x], m) => Has(conv'[x], m)
    BY <1>7, <1>9, MessageComes DEF ChatTyped
<1>12. ChatTyped'
  <2>1. RoomsIn' /\ ChatCallsIn' /\ ChatUiIn'
      BY <1>7, SameRooms
  <2>2. TasksIn'
    <3>1. Steady(d, budget)
        BY <1>2, <1>3, <1>4, <1>5, <1>7 DEF Steady
    <3>q. QED
        BY <1>7, <1>10, <3>1 DEF ChatTyped, TasksIn, Steady
  <2>3. StreamsIn'
      BY <1>2, <1>3, <1>4, <1>5, <1>7, <1>10 DEF ChatTyped, StreamsIn, Tells, Chat!StreamRecord
  <2>4. ChatHistoryIn'
      BY <1>7, <1>8 DEF ChatTyped, ChatHistoryIn
  <2>q. QED
      BY <1>7, <1>11, <2>1, <2>2, <2>3, <2>4 DEF ChatTyped
<1>13. Heeded'
    BY <1>1, <1>2, <1>3, <1>4, <1>5, <1>7, <1>10 DEF Heeded, Chat!Running, Hears
<1>14. c \notin crossed' =>
           \A r \in Slots \ {s} : Chat!Running(r) /\ task[r].conv = c => task[r].st = "sent" /\ k.gone
  <2>1. SUFFICES ASSUME c \notin crossed', NEW r \in Slots \ {s}, Chat!Running(r), task[r].conv = c
                 PROVE  task[r].st = "sent" /\ k.gone
      OBVIOUS
  <2>2. task[r].st # "saving" /\ ~task[r].gone
      BY <1>8, <2>1
  <2>3. Hears(c, r)
      BY <2>1, <2>2 DEF Heeded
  <2>4. k.gone
      BY <1>1, <1>2, <1>3, <1>7, <2>1, <2>3 DEF Heeded, Hears
  <2>5. task[r].st = "sent"
      BY <1>1, <1>2, <1>3, <1>8, <2>1, <2>2 DEF Orderly, Beside
  <2>q. QED
      BY <2>4, <2>5
<1>15. Orderly'
  <2>1. SUFFICES ASSUME NEW r \in Slots,
                 NEW q \in Slots, Beside(r, q)', task'[r].conv \notin crossed', task'[r].st # "sent"
                 PROVE  task'[q].st = "sent" /\ (task'[r].gone \/ task'[r].st = "saving")
      BY DEF Orderly
  <2>2. CASE r = s
      BY <1>2, <1>3, <1>5, <1>10, <1>14, <2>1, <2>2 DEF Beside, Chat!Running
  <2>3. CASE q = s
      BY <1>1, <1>2, <1>3, <1>5, <1>10, <1>14, <2>1, <2>3 DEF Beside, Chat!Running
  <2>4. CASE r # s /\ q # s
      BY <1>8, <1>10, <2>1, <2>4 DEF Beside, Chat!Running, Orderly
  <2>q. QED
      BY <2>2, <2>3, <2>4
<1>16. AskedLast'
  <2>1. SUFFICES ASSUME NEW r \in Slots, Chat!Running(r)', task'[r].st # "sent", task'[r].conv \notin crossed',
                        conv'[task'[r].conv] # None
                 PROVE  LastIs(conv'[task'[r].conv], Chat!Question(task'[r].text))
      BY DEF AskedLast, LastIs, Chat!Question, Chat!Exists
  <2>2. CASE r = s
      BY <1>5, <1>10, <1>11, <2>2 DEF LastIs
  <2>3. CASE r # s
    <3>1. task'[r] = task[r] /\ Chat!Running(r) /\ task[r].conv # c
        BY <1>10, <1>14, <2>1, <2>3 DEF Chat!Running
    <3>2. task[r].conv \in Convs
        BY <3>1 DEF Chat!Running, ChatTyped, TasksIn, Chat!TaskRecord
    <3>q. QED
        BY <1>8, <1>11, <2>1, <3>1, <3>2 DEF AskedLast, Chat!Exists
  <2>q. QED
      BY <2>2, <2>3
<1>17. Chat!AnswersFollow'
  <2>1. SUFFICES ASSUME NEW x \in Convs, Chat!Exists(x), x \notin crossed', NEW i \in 1 .. Len(conv'[x]),
                        conv'[x][i].role = "assistant"
                 PROVE  i > 1 /\ conv'[x][i - 1] = Chat!Question(conv'[x][i].text)
      BY <1>11 DEF Chat!AnswersFollow, Chat!Existing, Chat!Question
  <2>2. CASE x = c
    <3>1. i # Len(conv[c]) + 1
        BY <1>11, <2>1, <2>2 DEF Chat!Question
    <3>2. i \in 1 .. Len(conv[c])
        BY <1>11, <2>1, <2>2, <3>1
    <3>3. i > 1 /\ conv[c][i - 1] = Chat!Question(conv[c][i].text)
        BY <1>8, <1>11, <2>1, <2>2, <3>2 DEF Chat!AnswersFollow, Chat!Existing
    <3>4. i - 1 \in 1 .. Len(conv[c]) /\ conv'[c][i - 1] = conv[c][i - 1] /\ conv'[c][i] = conv[c][i]
        BY <1>11, <3>2, <3>3
    <3>q. QED
        BY <2>2, <3>3, <3>4
  <2>3. CASE x # c
      BY <1>8, <1>11, <2>1, <2>3 DEF Chat!AnswersFollow, Chat!Existing
  <2>q. QED
      BY <2>2, <2>3
<1>18. Seen'
    BY <1>2, <1>3, <1>4, <1>5, <1>7, <1>10 DEF Seen
<1>19. StoredWhole'
  <2>1. \A r \in Slots : task'[r] # None /\ task'[r].st = "over" => task'[r] = task[r] /\ task[r].conv \in Convs
      BY <1>5, <1>10 DEF ChatTyped, TasksIn, Chat!TaskRecord
  <2>2. SUFFICES ASSUME NEW r \in Slots, task'[r] # None, task'[r].st = "over", task'[r].parts > 0,
                        task'[r].text \notin crashed \cup twice, conv'[task'[r].conv] # None
                 PROVE  Has(conv'[task'[r].conv], Chat!Answer(task'[r].text, task'[r].parts))
      BY <1>7 DEF StoredWhole, Has, Chat!Answer, Chat!Exists
  <2>3. Has(conv[task[r].conv], Chat!Answer(task[r].text, task[r].parts)) /\ Chat!Exists(task[r].conv)
      BY <1>11, <2>1, <2>2 DEF StoredWhole, Chat!Exists
  <2>q. QED
      BY <1>11, <2>1, <2>2, <2>3
<1>20. WaitsOnce'
  <2>1. \A u : (Waits(u)' <=> Waits(u)) /\ (Fresh(u)' <=> Fresh(u))
      BY <1>2, <1>4, <1>5, <1>7, <1>10 DEF Waits, Fresh, InBox, Makes
  <2>2. \A u : Once(u) => Once(u)'
      BY <1>7, <2>1 DEF Once, InBox, Makes
  <2>q. QED
      BY <1>7, <2>1, <2>2 DEF WaitsOnce
<1>21. AllAccounted'
  <2>1. \A u : Accounted(u) => Accounted(u)'
    <3>1. SUFFICES ASSUME NEW u, Accounted(u) PROVE Accounted(u)'
        OBVIOUS
    <3>2. CASE Chat!Kept(u) \/ u \in heard \cup dropped \/ Waits(u)
        BY <1>7, <1>11, <3>2 DEF Accounted, Chat!Kept, Waits, InBox, Makes
    <3>3. ASSUME NEW r \in Slots, task[r] # None, task[r].text = u, Pends(r) PROVE Accounted(u)'
      <4>1. CASE r = s
        <5>1. u = t
            BY <1>2, <1>4, <3>3, <4>1
        <5>2. Chat!Asked(c, t)'
            BY <1>7, <1>11 DEF Chat!Asked, Chat!Question
        <5>q. QED
            BY <5>1, <5>2 DEF Accounted, Chat!Kept
      <4>2. CASE r # s
          BY <1>7, <1>10, <3>3, <4>2 DEF Accounted, Pends, Hears
      <4>q. QED
          BY <4>1, <4>2
    <3>q. QED
        BY <3>1, <3>2, <3>3 DEF Accounted
  <2>q. QED
      BY <1>7, <2>1 DEF AllAccounted
<1>q. QED
    BY <1>12, <1>13, <1>15, <1>16, <1>17, <1>18, <1>19, <1>20, <1>21

\* An answer is stored after its question, and no other handler has asked one since.
LEMMA SaveSteps ==
    ASSUME Chat!ChatDeskAssumption, ChatInv, NEW s \in Slots, Chat!Save(s)
    PROVE  ChatInv'
<1> USE DEF ChatInv
<1>1. Chat!At(s, "saving") /\ Chat!Running(s)
    BY DEF Chat!Save, Chat!At, Chat!Running
<1>2. PICK k \in Chat!TaskRecord : k = task[s] /\ Steady(k, budget)
    BY <1>1 DEF Chat!Running, ChatTyped, TasksIn
<1>3. PICK c \in Convs : c = k.conv
    BY DEF Chat!TaskRecord
<1>4. PICK t \in Chat!Texts : t = k.text
    BY DEF Chat!TaskRecord
<1> DEFINE d == [k EXCEPT !.st = "over"]
<1>5. /\ d \in Chat!TaskRecord /\ d.st = "over" /\ d.end = k.end /\ d.conv = c /\ d.text = t
      /\ d.parts = k.parts /\ d.gone = k.gone
    BY <1>3, <1>4 DEF Chat!TaskRecord
<1>6. task' = [task EXCEPT ![s] = d]
    BY <1>2 DEF Chat!Save, Chat!Step
<1> HIDE DEF d
<1>7. /\ k.st = "saving"
      /\ UNCHANGED <<list, stream, calls, latest, ui, told, degraded, heard, twice, shown, budget, crashed, dropped, crossed>>
    BY <1>1, <1>2 DEF Chat!Save, Chat!At, Chat!cached, Chat!store, Chat!mutations, Chat!history
<1>8. PICK m : m = Chat!Answer(t, k.parts)
    OBVIOUS
<1>9. m \in Chat!Message /\ m.role = "assistant" /\ m.text = t
    BY <1>8 DEF Chat!Answer, Chat!Message, Chat!TaskRecord
<1>10. /\ task[s] # None /\ d # None /\ task' \in [Slots -> Chat!TaskRecord \cup {None}] /\ task'[s] = d
       /\ \A r \in Slots \ {s} : task'[r] = task[r]
    BY <1>1, <1>5, <1>6 DEF Chat!Running, Chat!ChatDeskAssumption, ChatTyped, TasksIn
<1>11. IF Chat!Exists(c) THEN conv' = [conv EXCEPT ![c] = Append(@, m)] ELSE conv' = conv
    BY <1>2, <1>3, <1>4, <1>8 DEF Chat!Save, Chat!Discards
<1>12. Chat!Exists(c) =>
         /\ ConvIn' /\ conv[c] \in Seq(Chat!Message) /\ \A x \in Convs \ {c} : conv'[x] = conv[x]
         /\ \A x \in Convs : Chat!Exists(x)' <=> Chat!Exists(x)
         /\ Len(conv[c]) \in Nat /\ Len(conv'[c]) = Len(conv[c]) + 1 /\ conv'[c][Len(conv[c]) + 1] = m
         /\ \A i \in 1 .. Len(conv[c]) : conv'[c][i] = conv[c][i]
         /\ \A x \in Convs : \A u : Chat!Asked(x, u) => Chat!Asked(x, u)'
         /\ \A x \in Convs : \A y : Chat!Exists(x) /\ Has(conv[x], y) => Has(conv'[x], y)
    BY <1>7, <1>9, <1>11, MessageComes DEF ChatTyped
<1>13. /\ ConvIn' /\ \A x \in Convs \ {c} : conv'[x] = conv[x]
       /\ \A x \in Convs : Chat!Exists(x)' <=> Chat!Exists(x)
       /\ \A x \in Convs : \A u : Chat!Asked(x, u) => Chat!Asked(x, u)'
       /\ \A x \in Convs : \A y : Chat!Exists(x) /\ Has(conv[x], y) => Has(conv'[x], y)
  <2>1. CASE Chat!Exists(c)
      BY <1>12, <2>1
  <2>2. CASE ~Chat!Exists(c)
      BY <1>7, <1>11, <2>2, SameRooms DEF Chat!Exists, Chat!Asked, ChatTyped
  <2>q. QED
      BY <2>1, <2>2
<1>14. ChatTyped'
  <2>1. RoomsIn' /\ ChatCallsIn' /\ ChatUiIn' /\ ChatHistoryIn'
      BY <1>7, SameRooms
  <2>2. TasksIn'
    <3>1. Steady(d, budget)
        BY <1>2, <1>3, <1>4, <1>5, <1>7 DEF Steady
    <3>q. QED
        BY <1>7, <1>10, <3>1 DEF ChatTyped, TasksIn, Steady
  <2>3. StreamsIn'
      BY <1>2, <1>3, <1>4, <1>5, <1>7, <1>10 DEF ChatTyped, StreamsIn, Tells, Chat!StreamRecord
  <2>q. QED
      BY <1>7, <1>13, <2>1, <2>2, <2>3 DEF ChatTyped
<1>15. Heeded'
    BY <1>5, <1>7, <1>10 DEF Heeded, Chat!Running, Hears
<1>16. Orderly'
    BY <1>5, <1>7, <1>10 DEF Orderly, Beside, Chat!Running
<1>17. c \notin crossed => \A r \in Slots \ {s} : Chat!Running(r) /\ task[r].conv = c => task[r].st = "sent"
    BY <1>1, <1>2, <1>3, <1>7 DEF Orderly, Beside
<1>18. AskedLast'
  <2>1. SUFFICES ASSUME NEW r \in Slots, Chat!Running(r)', task'[r].st # "sent", task'[r].conv \notin crossed,
                        conv'[task'[r].conv] # None
                 PROVE  LastIs(conv'[task'[r].conv], Chat!Question(task'[r].text))
      BY <1>7 DEF AskedLast, LastIs, Chat!Question, Chat!Exists
  <2>2. r # s /\ task'[r] = task[r] /\ Chat!Running(r) /\ task[r].conv # c
      BY <1>5, <1>10, <1>17, <2>1 DEF Chat!Running
  <2>3. task[r].conv \in Convs
      BY <2>2 DEF Chat!Running, ChatTyped, TasksIn, Chat!TaskRecord
  <2>q. QED
      BY <1>13, <2>1, <2>2, <2>3 DEF AskedLast, Chat!Exists
<1>19. Chat!AnswersFollow'
  <2>1. SUFFICES ASSUME NEW x \in Convs, Chat!Exists(x), x \notin crossed, NEW i \in 1 .. Len(conv'[x]),
                        conv'[x][i].role = "assistant"
                 PROVE  i > 1 /\ conv'[x][i - 1] = Chat!Question(conv'[x][i].text)
      BY <1>7, <1>13 DEF Chat!AnswersFollow, Chat!Existing, Chat!Question
  <2>2. CASE x = c
    <3>1. LastIs(conv[c], Chat!Question(t))
        BY <1>1, <1>2, <1>3, <1>4, <1>7, <2>1, <2>2 DEF AskedLast
    <3>2. CASE i = Len(conv[c]) + 1
        BY <1>9, <1>12, <2>1, <2>2, <3>1, <3>2 DEF LastIs
    <3>3. CASE i # Len(conv[c]) + 1
      <4>1. i \in 1 .. Len(conv[c])
          BY <1>12, <2>1, <2>2, <3>3
      <4>2. i > 1 /\ conv[c][i - 1] = Chat!Question(conv[c][i].text)
          BY <1>12, <2>1, <2>2, <4>1 DEF Chat!AnswersFollow, Chat!Existing
      <4>3. i - 1 \in 1 .. Len(conv[c]) /\ conv'[c][i - 1] = conv[c][i - 1] /\ conv'[c][i] = conv[c][i]
          BY <1>12, <2>1, <2>2, <4>1, <4>2
      <4>q. QED
          BY <2>2, <4>2, <4>3
    <3>q. QED
        BY <3>2, <3>3
  <2>3. CASE x # c
      BY <1>13, <2>1, <2>3 DEF Chat!AnswersFollow, Chat!Existing
  <2>q. QED
      BY <2>2, <2>3
<1>20. Seen'
    BY <1>2, <1>3, <1>4, <1>5, <1>7, <1>10 DEF Seen
<1>21. StoredWhole'
  <2>1. SUFFICES ASSUME NEW r \in Slots, task'[r] # None, task'[r].st = "over", task'[r].parts > 0,
                        task'[r].text \notin crashed \cup twice, conv'[task'[r].conv] # None
                 PROVE  Has(conv'[task'[r].conv], Chat!Answer(task'[r].text, task'[r].parts))
      BY <1>7 DEF StoredWhole, Has, Chat!Answer, Chat!Exists
  <2>2. CASE r = s
      BY <1>5, <1>8, <1>10, <1>12, <1>13, <2>1, <2>2 DEF Has, Chat!Exists
  <2>3. CASE r # s
    <3>1. task'[r] = task[r] /\ task[r].conv \in Convs
        BY <1>10, <2>1, <2>3 DEF ChatTyped, TasksIn, Chat!TaskRecord
    <3>2. Has(conv[task[r].conv], Chat!Answer(task[r].text, task[r].parts)) /\ Chat!Exists(task[r].conv)
        BY <1>13, <2>1, <3>1 DEF StoredWhole, Chat!Exists
    <3>q. QED
        BY <1>13, <3>1, <3>2
  <2>q. QED
      BY <2>2, <2>3
<1>22. WaitsOnce'
  <2>1. \A u : (Waits(u)' <=> Waits(u)) /\ (Fresh(u)' <=> Fresh(u))
      BY <1>2, <1>4, <1>5, <1>7, <1>10 DEF Waits, Fresh, InBox, Makes
  <2>2. \A u : Once(u) => Once(u)'
      BY <1>7, <2>1 DEF Once, InBox, Makes
  <2>q. QED
      BY <1>7, <2>1, <2>2 DEF WaitsOnce
<1>23. AllAccounted'
  <2>1. \A u : Accounted(u) => Accounted(u)'
    <3>1. SUFFICES ASSUME NEW u, Accounted(u) PROVE Accounted(u)'
        OBVIOUS
    <3>2. CASE Chat!Kept(u) \/ u \in heard \cup dropped \/ Waits(u)
        BY <1>7, <1>13, <3>2 DEF Accounted, Chat!Kept, Waits, InBox, Makes
    <3>3. ASSUME NEW r \in Slots, task[r] # None, task[r].text = u, Pends(r) PROVE Accounted(u)'
        BY <1>2, <1>7, <1>10, <3>3 DEF Accounted, Pends, Hears
    <3>q. QED
        BY <3>1, <3>2, <3>3 DEF Accounted
  <2>q. QED
      BY <1>7, <2>1 DEF AllAccounted
<1>q. QED
    BY <1>14, <1>15, <1>16, <1>18, <1>19, <1>20, <1>21, <1>22, <1>23

-----------------------------------------------------------------------------
(* The streams *)

\* What a stream tells of its handler.
LEMMA StreamIs ==
    ASSUME ChatTyped, NEW c \in Convs, Chat!Streaming(c)
    PROVE  /\ stream[c] # None /\ stream[c] \in Chat!StreamRecord /\ stream[c].task \in Slots
              /\ stream[c].text \in Chat!Texts
           /\ task[stream[c].task] # None /\ task[stream[c].task] \in Chat!TaskRecord
           /\ task[stream[c].task].conv = c /\ task[stream[c].task].text = stream[c].text
           /\ stream[c].draft <= task[stream[c].task].parts
    BY DEF Chat!Streaming, ChatTyped, StreamsIn, TasksIn, Tells, Chat!StreamRecord

\* A browser that does not listen any more, or has no stream.
Quiet(x, y) == y = None \/ (y.st # "live" /\ y.task = x.task /\ y.text = x.text /\ y.draft = x.draft)

\* A stream ends: the handler is through, or told that the browser is gone.
LEMMA StreamLets ==
    ASSUME Chat!ChatDeskAssumption, ChatInv, NEW c \in Convs, Chat!Streaming(c), NEW q, q = stream[c].task,
           NEW x \in Chat!StreamRecord \cup {None}, Quiet(stream[c], x), stream' = [stream EXCEPT ![c] = x],
           task' = task \/ task' = [task EXCEPT ![q].gone = TRUE],
           stream[c].st # "live" \/ task[q].end # "none" \/ task' = [task EXCEPT ![q].gone = TRUE],
           stream[c].st # "live" \/ task[q].end # "error" \/ stream[c].text \in heard' \cup dropped',
           heard \subseteq heard', heard' \subseteq Chat!Texts, dropped \subseteq dropped', dropped' \subseteq Chat!Texts,
           UNCHANGED <<conv, calls, latest, ui, twice, shown, crossed, crashed>>,
           list' \in Chat!Entry(SUBSET budget.used), told' \in BOOLEAN, degraded' \in BOOLEAN,
           budget' \in ChatBudget, budget'.used = budget.used, budget'.typed = budget.typed,
           budget'.texts = budget.texts
    PROVE  ChatInv'
<1> USE DEF ChatInv
<1>1. /\ q \in Slots /\ task[q] # None /\ task[q].conv = c /\ task[q].text = stream[c].text /\ stream[c] # None
      /\ stream[c].draft <= task[q].parts
    BY StreamIs
<1>2. PICK k \in Chat!TaskRecord : k = task[q] /\ Steady(k, budget)
    BY <1>1 DEF ChatTyped, TasksIn
<1>3. /\ task' \in [Slots -> Chat!TaskRecord \cup {None}]
      /\ \A r \in Slots : task'[r] # None <=> task[r] # None
      /\ \A r \in Slots : task[r] # None =>
             /\ task'[r].conv = task[r].conv /\ task'[r].text = task[r].text /\ task'[r].st = task[r].st
             /\ task'[r].parts = task[r].parts /\ task'[r].end = task[r].end
             /\ task[r].gone => task'[r].gone
      /\ task' = [task EXCEPT ![q].gone = TRUE] => task'[q].gone
  <2>1. CASE task' = task /\ task' # [task EXCEPT ![q].gone = TRUE]
      BY <2>1 DEF ChatTyped, TasksIn
  <2>2. CASE task' = [task EXCEPT ![q].gone = TRUE]
    <3> DEFINE d == [k EXCEPT !.gone = TRUE]
    <3>1. /\ d \in Chat!TaskRecord /\ d.gone /\ d.conv = k.conv /\ d.text = k.text /\ d.st = k.st /\ d.parts = k.parts
          /\ d.end = k.end
        BY DEF Chat!TaskRecord
    <3>2. task' = [task EXCEPT ![q] = d]
        BY <1>2, <2>2
    <3> HIDE DEF d
    <3>3. task' \in [Slots -> Chat!TaskRecord \cup {None}] /\ task'[q] = d
          /\ \A r \in Slots \ {q} : task'[r] = task[r]
        BY <1>1, <3>1, <3>2 DEF ChatTyped, TasksIn
    <3>4. d # None
        BY <3>1 DEF Chat!ChatDeskAssumption
    <3>q. QED
        BY <1>1, <1>2, <3>1, <3>3, <3>4
  <2>q. QED
      BY <2>1, <2>2
<1>4. /\ stream' \in [Convs -> Chat!StreamRecord \cup {None}] /\ stream'[c] = x
      /\ \A y \in Convs \ {c} : stream'[y] = stream[y]
    BY DEF ChatTyped, StreamsIn
<1>5. ChatTyped'
  <2>1. ConvIn' /\ ChatCallsIn' /\ ChatUiIn'
      BY SameRooms
  <2>2. RoomsIn'
      BY DEF RoomsIn
  <2>3. TasksIn'
      BY <1>3 DEF ChatTyped, TasksIn, Steady
  <2>4. StreamsIn'
    <3>1. \A y \in Chat!StreamRecord, z \in Convs : Tells(y, z, task) => Tells(y, z, task')
        BY <1>3 DEF Tells, Chat!StreamRecord
    <3>2. x # None => Tells(x, c, task)
        BY <1>1 DEF Quiet, Tells
    <3>3. x # None => x \in Chat!StreamRecord
        OBVIOUS
    <3>q. QED
        BY <1>4, <3>1, <3>2, <3>3 DEF ChatTyped, StreamsIn
  <2>5. ChatHistoryIn'
      BY DEF ChatTyped, ChatHistoryIn
  <2>6. budget'.typed <= budget'.texts
      BY DEF ChatTyped
  <2>q. QED
      BY <2>1, <2>2, <2>3, <2>4, <2>5, <2>6 DEF ChatTyped
<1>6. \A y \in Convs, r \in Slots : Hears(y, r) => Hears(y, r)' \/ (y = c /\ r = q /\ stream[c].st = "live")
    BY <1>4 DEF Hears
<1>7. \A r \in Slots : (Chat!Running(r)' <=> Chat!Running(r)) /\ (task[r] # None => task[r].conv \in Convs)
    BY <1>3 DEF Chat!Running, ChatTyped, TasksIn, Chat!TaskRecord
<1>8. Heeded'
  <2>1. SUFFICES ASSUME NEW r \in Slots, Chat!Running(r), ~task'[r].gone, task'[r].st # "saving",
                        NEW y \in Convs, y = task[r].conv
                 PROVE  Hears(y, r)'
      BY <1>3, <1>7 DEF Heeded, Hears, Chat!Running
  <2>2. ~task[r].gone /\ task[r].st # "saving" /\ task[r] # None /\ task[r].st # "over"
      BY <1>3, <2>1 DEF Chat!Running
  <2>3. Hears(y, r)
      BY <2>1, <2>2 DEF Heeded
  <2>4. ~(r = q /\ stream[c].st = "live")
    <3>1. CASE task[q].end # "none"
      <4>1. k.st \in {"saving", "over"}
          BY <1>2, <3>1 DEF Steady, Chat!TaskRecord
      <4>q. QED
          BY <1>2, <2>2, <4>1
    <3>2. CASE task[q].end = "none"
        BY <1>1, <1>2, <1>3, <2>1, <2>2, <3>2
    <3>q. QED
        BY <3>1, <3>2
  <2>q. QED
      BY <1>6, <1>7, <2>2, <2>3, <2>4
<1>9. Orderly'
  <2>1. \A r, s \in Slots : Beside(r, s)' => Beside(r, s)
      BY <1>3, <1>7 DEF Beside, Chat!Running
  <2>q. QED
      BY <1>3, <2>1 DEF Orderly, Beside, Chat!Running
<1>10. AskedLast' /\ Chat!AnswersFollow'
    BY <1>3, <1>7 DEF AskedLast, Chat!Running, Chat!AnswersFollow, Chat!Existing, Chat!Exists
<1>11. Seen' /\ StoredWhole'
    BY <1>3 DEF Seen, StoredWhole, Chat!Exists
<1>12. WaitsOnce'
  <2>1. \A t : (Waits(t)' <=> Waits(t)) /\ (Fresh(t)' <=> Fresh(t))
      BY <1>3 DEF Waits, Fresh, InBox, Makes
  <2>2. \A t : Once(t) => Once(t)'
      BY <2>1 DEF Once, InBox, Makes
  <2>q. QED
      BY <2>1, <2>2 DEF WaitsOnce
<1>13. AllAccounted'
  <2>1. \A t : Accounted(t) => Accounted(t)'
    <3>1. SUFFICES ASSUME NEW t, Accounted(t) PROVE Accounted(t)'
        OBVIOUS
    <3>2. CASE Chat!Kept(t) \/ t \in heard \cup dropped \/ Waits(t)
        BY <3>2 DEF Accounted, Chat!Kept, Chat!Asked, Chat!Exists, Waits, InBox, Makes
    <3>3. ASSUME NEW r \in Slots, task[r] # None, task[r].text = t, Pends(r) PROVE Accounted(t)'
      <4>1. CASE task[r].st = "sent"
          BY <1>3, <3>3, <4>1 DEF Accounted, Pends
      <4>2. CASE task[r].st = "over" /\ task[r].end = "error" /\ Hears(task[r].conv, r)
        <5>1. PICK y : y = task[r].conv
            OBVIOUS
        <5>2. y \in Convs /\ Hears(y, r)
            BY <1>7, <3>3, <4>2, <5>1
        <5>3. CASE Hears(y, r)'
          <6>1. task'[r].conv = y /\ task'[r] # None /\ task'[r].st = "over" /\ task'[r].end = "error"
                /\ task'[r].text = t
              BY <1>3, <3>3, <4>2, <5>1
          <6>2. Pends(r)'
              BY <5>3, <6>1 DEF Pends, Hears
          <6>q. QED
              BY <6>1, <6>2 DEF Accounted
        <5>4. CASE r = q /\ stream[c].st = "live"
            BY <1>1, <3>3, <4>2, <5>4 DEF Accounted
        <5>q. QED
            BY <1>6, <5>2, <5>3, <5>4
      <4>q. QED
          BY <3>3, <4>1, <4>2 DEF Pends
    <3>q. QED
        BY <3>1, <3>2, <3>3 DEF Accounted
  <2>q. QED
      BY <2>1 DEF AllAccounted
<1>q. QED
    BY <1>5, <1>8, <1>9, <1>10, <1>11, <1>12, <1>13

LEMMA HangSteps ==
    ASSUME Chat!ChatDeskAssumption, ChatInv,
           \/ \E h \in Chat!Holders : Chat!Stop(h)
           \/ \E c \in Convs : Chat!Done(c) \/ Chat!Fails(c) \/ Chat!Silence(c) \/ Chat!Cut(c) \/ Chat!Clear(c)
    PROVE  ChatInv'
<1> USE DEF ChatInv
<1>1. PICK c \in Convs, st \in {"settling", "deaf", "none"} :
          /\ Chat!Streaming(c) /\ stream' = [stream EXCEPT ![c] = IF st = "none" THEN None ELSE [@ EXCEPT !.st = st]]
          /\ st = "none" => stream[c].st # "live"
          /\ \/ task' = task /\ (stream[c].st = "live" => Chat!EndOf(c) # "none")
             \/ task' = [task EXCEPT ![stream[c].task].gone = TRUE]
          /\ heard' \in {heard, heard \cup {stream[c].text}}
          /\ dropped' \in {dropped, dropped \cup {stream[c].text}}
          /\ stream[c].st = "live" /\ Chat!EndOf(c) = "error" => stream[c].text \in heard' \cup dropped'
          /\ list' = list \/ \E w : list' = Chat!Invalidated(list, w)
          /\ told' = told \/ told' \in BOOLEAN
          /\ degraded' \in {degraded, TRUE}
          /\ Chat!Spend("faults") \/ budget' = budget
          /\ UNCHANGED <<conv, calls, latest, ui, twice, shown, crossed, crashed>>
  <2> DEFINE P(c, st) ==
          /\ Chat!Streaming(c) /\ stream' = [stream EXCEPT ![c] = IF st = "none" THEN None ELSE [@ EXCEPT !.st = st]]
          /\ st = "none" => stream[c].st # "live"
          /\ \/ task' = task /\ (stream[c].st = "live" => Chat!EndOf(c) # "none")
             \/ task' = [task EXCEPT ![stream[c].task].gone = TRUE]
          /\ heard' \in {heard, heard \cup {stream[c].text}}
          /\ dropped' \in {dropped, dropped \cup {stream[c].text}}
          /\ stream[c].st = "live" /\ Chat!EndOf(c) = "error" => stream[c].text \in heard' \cup dropped'
          /\ list' = list \/ \E w : list' = Chat!Invalidated(list, w)
          /\ told' = told \/ told' \in BOOLEAN
          /\ degraded' \in {degraded, TRUE}
          /\ Chat!Spend("faults") \/ budget' = budget
          /\ UNCHANGED <<conv, calls, latest, ui, twice, shown, crossed, crashed>>
  <2>1. \A c \in Convs : Chat!Streaming(c) => c # None
      BY DEF Chat!Streaming
  <2>2. ASSUME NEW c \in Convs, Chat!Done(c) PROVE P(c, "settling")
      BY <2>2 DEF Chat!Done, Chat!Settling, Chat!Settle, Chat!server, Chat!mutations
  <2>3. ASSUME NEW c \in Convs, Chat!Fails(c) PROVE P(c, "settling")
      BY <2>3 DEF Chat!Fails, Chat!Settling, Chat!Settle, Chat!server, Chat!mutations
  <2>4. ASSUME NEW c \in Convs, Chat!Silence(c) PROVE P(c, "deaf")
      BY <2>4 DEF Chat!Silence, Chat!server, Chat!cached, Chat!mutations
  <2>5. ASSUME NEW c \in Convs, Chat!Cut(c) PROVE P(c, "settling")
      BY <2>5 DEF Chat!Cut, Chat!Settling, Chat!Settle, Chat!mutations
  <2>6. ASSUME NEW c \in Convs, Chat!Clear(c) PROVE P(c, "none")
      BY <2>6 DEF Chat!Clear, Chat!server, Chat!cached, Chat!mutations, Chat!history
  <2>7. ASSUME NEW h \in Chat!Holders, Chat!Stop(h) PROVE \E c \in Convs : P(c, "settling")
    <3>1. PICK c : c = ui.room[h]
        OBVIOUS
    <3>2. c \in Convs
        BY <2>7, <3>1 DEF Chat!Stop, Chat!Streaming, ChatTyped, ChatUiIn, ChatUi, ChatBudget
    <3>3. P(c, "settling")
        BY <2>7, <3>1 DEF Chat!Stop, Chat!Settling, Chat!Settle, Chat!mutations
    <3>q. QED
        BY <3>2, <3>3
  <2> HIDE DEF P
  <2>8. \E c \in Convs, st \in {"settling", "deaf", "none"} : P(c, st)
      BY <2>2, <2>3, <2>4, <2>5, <2>6, <2>7
  <2>q. QED
      BY <2>8 DEF P
<1>2. PICK q : q = stream[c].task
    OBVIOUS
<1>3. stream[c] \in Chat!StreamRecord /\ stream[c].text \in Chat!Texts
    BY <1>1, StreamIs
<1>4. PICK y \in Chat!StreamRecord : y = stream[c]
    BY <1>3
<1>5. PICK x : x = (IF st = "none" THEN None ELSE [y EXCEPT !.st = st])
    OBVIOUS
<1>6. x \in Chat!StreamRecord \cup {None} /\ Quiet(stream[c], x) /\ stream' = [stream EXCEPT ![c] = x]
  <2>1. CASE st = "none"
      BY <1>1, <1>5, <2>1 DEF Quiet
  <2>2. CASE st # "none"
      BY <1>1, <1>4, <1>5, <2>2 DEF Quiet, Chat!StreamRecord
  <2>q. QED
      BY <2>1, <2>2
<1>7. /\ task' = task \/ task' = [task EXCEPT ![q].gone = TRUE]
      /\ stream[c].st # "live" \/ task[q].end # "none" \/ task' = [task EXCEPT ![q].gone = TRUE]
      /\ stream[c].st # "live" \/ task[q].end # "error" \/ stream[c].text \in heard' \cup dropped'
    BY <1>1, <1>2 DEF Chat!EndOf
<1>8. heard \subseteq heard' /\ heard' \subseteq Chat!Texts /\ dropped \subseteq dropped'
      /\ dropped' \subseteq Chat!Texts
    BY <1>1, <1>3 DEF ChatTyped, ChatHistoryIn
<1>9. list' \in Chat!Entry(SUBSET budget.used)
    BY <1>1, ListIsIn
<1>10. told' \in BOOLEAN /\ degraded' \in BOOLEAN
    BY <1>1 DEF ChatTyped, ChatHistoryIn
<1>11. /\ budget' \in ChatBudget /\ budget'.used = budget.used /\ budget'.typed = budget.typed
       /\ budget'.texts = budget.texts
    BY <1>1, ChatSpends DEF ChatTyped
<1>q. QED
    BY <1>1, <1>2, <1>6, <1>7, <1>8, <1>9, <1>10, <1>11, StreamLets

\* A part is shown that has come.
LEMMA ReceiveSteps ==
    ASSUME Chat!ChatDeskAssumption, ChatInv, NEW c \in Convs, Chat!Receive(c)
    PROVE  ChatInv'
<1> USE DEF ChatInv
<1>1. PICK x \in Chat!StreamRecord : x = stream[c] /\ Chat!Streaming(c)
    BY StreamIs DEF Chat!Receive
<1>2. /\ x.task \in Slots /\ x.text \in Chat!Texts /\ task[x.task] # None /\ task[x.task] \in Chat!TaskRecord
      /\ task[x.task].conv = c /\ task[x.task].text = x.text /\ x # None
    BY <1>1, StreamIs
<1>3. PICK n : n = x.draft + 1
    OBVIOUS
<1>4. /\ x.st = "live" /\ x.draft \in Nat /\ task[x.task].parts \in 0 .. MaxParts /\ n <= task[x.task].parts
      /\ n \in 0 .. MaxParts /\ n \in Nat
    BY <1>1, <1>2, <1>3 DEF Chat!Receive, Chat!StreamRecord, Chat!TaskRecord, Chat!ChatDeskAssumption
<1> DEFINE y == [x EXCEPT !.draft = n]
<1>5. y \in Chat!StreamRecord /\ y.st = x.st /\ y.task = x.task /\ y.text = x.text /\ y.draft = n
    BY <1>4 DEF Chat!StreamRecord
<1>6. /\ stream' = [stream EXCEPT ![c] = y] /\ shown' = [shown EXCEPT ![c][x.text] = n]
      /\ UNCHANGED <<conv, task, list, degraded, calls, latest, ui, budget, told, heard, dropped, twice, crossed, crashed>>
    BY <1>1, <1>3 DEF Chat!Receive, Chat!server, Chat!cached, Chat!mutations
<1> HIDE DEF y
<1>7. /\ stream' \in [Convs -> Chat!StreamRecord \cup {None}] /\ stream'[c] = y /\ y # None
      /\ \A d \in Convs \ {c} : stream'[d] = stream[d]
    BY <1>5, <1>6 DEF ChatTyped, StreamsIn, Chat!ChatDeskAssumption
<1>8. /\ shown' \in [Convs -> [Chat!Texts -> Nat]] /\ shown'[c][x.text] = n
      /\ \A d \in Convs, t \in Chat!Texts : (d = c /\ t = x.text) \/ shown'[d][t] = shown[d][t]
  <2>1. PICK f : f = [shown[c] EXCEPT ![x.text] = n]
      OBVIOUS
  <2>2. shown[c] \in [Chat!Texts -> Nat]
      BY DEF ChatTyped, ChatHistoryIn
  <2>3. f \in [Chat!Texts -> Nat] /\ f[x.text] = n /\ \A t \in Chat!Texts \ {x.text} : f[t] = shown[c][t]
      BY <1>2, <1>4, <2>1, <2>2
  <2>4. shown' = [shown EXCEPT ![c] = f]
      BY <1>6, <2>1
  <2>5. shown' \in [Convs -> [Chat!Texts -> Nat]] /\ shown'[c] = f /\ \A d \in Convs \ {c} : shown'[d] = shown[d]
      BY <2>3, <2>4 DEF ChatTyped, ChatHistoryIn
  <2>q. QED
      BY <2>3, <2>5
<1>9. ChatTyped'
  <2>1. ConvIn' /\ RoomsIn' /\ TasksIn' /\ ChatCallsIn' /\ ChatUiIn'
      BY <1>6, SameRooms
  <2>2. StreamsIn'
      BY <1>2, <1>4, <1>5, <1>6, <1>7 DEF ChatTyped, StreamsIn, Tells
  <2>3. ChatHistoryIn'
      BY <1>6, <1>8 DEF ChatTyped, ChatHistoryIn
  <2>q. QED
      BY <1>6, <2>1, <2>2, <2>3 DEF ChatTyped
<1>10. \A d, r : d \in Convs => (Hears(d, r)' <=> Hears(d, r))
    BY <1>1, <1>2, <1>5, <1>7 DEF Hears
<1>11. \A r \in Slots : task[r] # None => task[r].conv \in Convs /\ task[r].text \in Chat!Texts
    BY DEF ChatTyped, TasksIn, Chat!TaskRecord
<1>12. Heeded'
  <2>1. SUFFICES ASSUME NEW r \in Slots, Chat!Running(r), ~task[r].gone, task[r].st # "saving",
                        NEW d \in Convs, d = task[r].conv
                 PROVE  Hears(d, r)'
      BY <1>6, <1>11 DEF Heeded, Hears, Chat!Running
  <2>q. QED
      BY <1>10, <2>1 DEF Heeded
<1>13. Orderly' /\ AskedLast' /\ Chat!AnswersFollow' /\ StoredWhole'
    BY <1>6 DEF Orderly, AskedLast, Chat!AnswersFollow, StoredWhole, Beside, Chat!Running, Chat!Exists, Chat!Existing
<1>14. Seen'
  <2>1. SUFFICES ASSUME NEW r \in Slots, task[r] # None, task[r].text \notin twice
                 PROVE  /\ shown'[task[r].conv][task[r].text] <= task[r].parts
                        /\ \A q \in Slots : task[q] # None /\ task[q].text = task[r].text => q = r
      BY <1>6 DEF Seen
  <2>2. CASE task[r].text = x.text
    <3>1. r = x.task
        BY <1>2, <2>1, <2>2 DEF Seen
    <3>q. QED
        BY <1>2, <1>4, <1>8, <2>1, <3>1 DEF Seen
  <2>3. CASE task[r].text # x.text
      BY <1>8, <1>11, <2>1, <2>3 DEF Seen
  <2>q. QED
      BY <2>2, <2>3
<1>15. WaitsOnce'
  <2>1. \A t \in Chat!Texts : (Waits(t)' <=> Waits(t)) /\ (Fresh(t) => Fresh(t)')
      BY <1>2, <1>6, <1>8 DEF Waits, Fresh, InBox, Makes
  <2>2. \A t \in Chat!Texts : Once(t) => Once(t)'
      BY <1>6, <2>1 DEF Once, InBox, Makes
  <2>q. QED
      BY <1>6, <2>1, <2>2 DEF WaitsOnce
<1>16. AllAccounted'
  <2>1. \A t : Accounted(t) => Accounted(t)'
    <3>1. SUFFICES ASSUME NEW t, Accounted(t) PROVE Accounted(t)'
        OBVIOUS
    <3>2. CASE Chat!Kept(t) \/ t \in heard \cup dropped \/ Waits(t)
        BY <1>6, <3>2 DEF Accounted, Chat!Kept, Chat!Asked, Chat!Exists, Waits, InBox, Makes
    <3>3. ASSUME NEW r \in Slots, task[r] # None, task[r].text = t, Pends(r) PROVE Accounted(t)'
      <4>1. PICK d \in Convs : d = task[r].conv
          BY <1>11, <3>3
      <4>2. Hears(d, r) => Hears(d, r)'
          BY <1>10
      <4>q. QED
          BY <1>6, <3>3, <4>1, <4>2 DEF Accounted, Pends, Hears
    <3>q. QED
        BY <3>1, <3>2, <3>3 DEF Accounted
  <2>q. QED
      BY <1>6, <2>1 DEF AllAccounted
<1>q. QED
    BY <1>9, <1>12, <1>13, <1>14, <1>15, <1>16

-----------------------------------------------------------------------------
(* Messages are sent *)

\* What goes on as before for those that were sent already.
PendsOn == \A r \in Slots : task[r] # None /\ Pends(r) => task'[r] # None /\ task'[r].text = task[r].text /\ Pends(r)'

\* A handler takes the place of one that nobody hears.
LEMMA SendMoves ==
    ASSUME Chat!ChatDeskAssumption, ChatInv, NEW c \in budget.used,
           NEW t \in Chat!Texts, ~Chat!Streaming(c), Chat!Send(c, t),
           t \in twice \/ Fresh(t), budget \in ChatBudget, budget' \in ChatBudget, budget'.used = budget.used,
           t <= budget'.typed, budget.typed <= budget'.typed,
           UNCHANGED <<conv, twice, shown, crossed, crashed>>
    PROVE  /\ TasksIn' /\ StreamsIn' /\ degraded' = FALSE /\ dropped' = dropped
           /\ Heeded' /\ Orderly' /\ AskedLast' /\ Seen' /\ StoredWhole' /\ PendsOn
           /\ \A u : u # t /\ Fresh(u) => Fresh(u)'
           /\ \E s \in Slots : task'[s] # None /\ task'[s].text = t /\ Pends(s)'
<1> USE DEF ChatInv
<1>1. c \in Convs /\ c # None /\ stream[c] = None
    BY DEF ChatBudget, Chat!ChatDeskAssumption, Chat!Streaming
<1>2. PICK d : d = [conv |-> c, text |-> t, st |-> "sent", parts |-> 0, end |-> "none", gone |-> FALSE]
    OBVIOUS
<1>3. PICK s \in Slots :
          /\ Chat!Unused(s) /\ task' = [task EXCEPT ![s] = d]
          /\ stream' = [stream EXCEPT ![c] = [st |-> "live", text |-> t, draft |-> 0, task |-> s]]
    BY <1>2 DEF Chat!Send
<1>4. degraded' = FALSE /\ dropped' = dropped
    BY DEF Chat!Send
<1>5. PICK x : x = [st |-> "live", text |-> t, draft |-> 0, task |-> s]
    OBVIOUS
<1>6. /\ d \in Chat!TaskRecord /\ d # None /\ d.conv = c /\ d.text = t /\ d.st = "sent" /\ d.parts = 0
         /\ d.end = "none"
      /\ ~d.gone
  <2>1. d.conv = c /\ d.text = t /\ d.st = "sent" /\ d.parts = 0 /\ d.end = "none" /\ ~d.gone
      BY <1>2
  <2>2. 0 \in 0 .. MaxParts
      BY DEF Chat!ChatDeskAssumption
  <2>3. d \in Chat!TaskRecord
      BY <1>1, <1>2, <2>2 DEF Chat!TaskRecord
  <2>q. QED
      BY <2>1, <2>3 DEF Chat!ChatDeskAssumption
<1>7. x \in Chat!StreamRecord /\ x # None /\ x.st = "live" /\ x.text = t /\ x.draft = 0 /\ x.task = s
    BY <1>5 DEF Chat!StreamRecord, Chat!ChatDeskAssumption
<1>8. /\ task' \in [Slots -> Chat!TaskRecord \cup {None}] /\ task'[s] = d
      /\ \A r \in Slots \ {s} : task'[r] = task[r]
    BY <1>3, <1>6 DEF ChatTyped, TasksIn
<1>9. /\ stream' \in [Convs -> Chat!StreamRecord \cup {None}] /\ stream'[c] = x
      /\ \A y \in Convs \ {c} : stream'[y] = stream[y]
    BY <1>1, <1>3, <1>5, <1>7 DEF ChatTyped, StreamsIn
<1>10. ~Chat!Running(s) /\ \A y \in Convs : stream[y] # None => stream[y].task # s
    BY <1>3 DEF Chat!Unused
<1>11. \A r \in Slots : task[r] # None => task[r].conv \in Convs /\ task[r].text \in Chat!Texts
    BY DEF ChatTyped, TasksIn, Chat!TaskRecord
<1>12. TasksIn'
  <2>1. Steady(d, budget')
      BY <1>6 DEF Steady
  <2>2. \A k \in Chat!TaskRecord : Steady(k, budget) => Steady(k, budget')
    <3>1. \A k \in Chat!TaskRecord : k.text \in Nat
        BY DEF Chat!TaskRecord, Chat!Texts
    <3>2. budget.typed \in Nat /\ budget'.typed \in Nat
        BY DEF ChatBudget
    <3>q. QED
        BY <3>1, <3>2 DEF Steady
  <2>q. QED
      BY <1>8, <2>1, <2>2 DEF ChatTyped, TasksIn
<1>13. StreamsIn'
  <2>1. Tells(x, c, task')
      BY <1>6, <1>7, <1>8 DEF Tells
  <2>2. \A y \in Convs \ {c} : stream[y] # None => Tells(stream[y], y, task')
      BY <1>8, <1>10 DEF Tells, ChatTyped, StreamsIn, Chat!StreamRecord
  <2>q. QED
      BY <1>9, <2>1, <2>2 DEF StreamsIn
<1>14. \A y \in Convs : \A r : Hears(y, r) => Hears(y, r)' /\ r # s /\ y # c
    BY <1>1, <1>9, <1>10 DEF Hears
<1>15. Heeded'
  <2>1. SUFFICES ASSUME NEW r \in Slots, Chat!Running(r)', ~task'[r].gone, task'[r].st # "saving",
                        NEW y \in Convs, y = task'[r].conv
                 PROVE  Hears(y, r)'
      BY <1>8 DEF Heeded, Hears, Chat!Running, Chat!TaskRecord
  <2>2. CASE r = s
      BY <1>6, <1>7, <1>8, <1>9, <2>1, <2>2 DEF Hears
  <2>3. CASE r # s
      BY <1>8, <1>14, <2>1, <2>3 DEF Heeded, Chat!Running
  <2>q. QED
      BY <2>2, <2>3
<1>16. Orderly'
  <2>1. SUFFICES ASSUME NEW r \in Slots,
                 NEW q \in Slots, Beside(r, q)', task'[r].conv \notin crossed, task'[r].st # "sent"
                 PROVE  task'[q].st = "sent" /\ (task'[r].gone \/ task'[r].st = "saving")
      BY DEF Orderly
  <2>2. r # s
      BY <1>6, <1>8, <2>1
  <2>3. CASE q = s
    <3>1. task'[r] = task[r] /\ Chat!Running(r) /\ task[r].conv = c
        BY <1>6, <1>8, <2>1, <2>2, <2>3 DEF Beside, Chat!Running
    <3>2. task[r].gone \/ task[r].st = "saving"
        BY <1>1, <3>1 DEF Heeded, Hears
    <3>q. QED
        BY <1>6, <1>8, <2>3, <3>1, <3>2
  <2>4. CASE q # s
      BY <1>8, <2>1, <2>2, <2>4 DEF Beside, Chat!Running, Orderly
  <2>q. QED
      BY <2>3, <2>4
<1>17. AskedLast'
  <2>1. SUFFICES ASSUME NEW r \in Slots, Chat!Running(r)', task'[r].st # "sent", task'[r].conv \notin crossed,
                        conv[task'[r].conv] # None
                 PROVE  LastIs(conv[task'[r].conv], Chat!Question(task'[r].text))
      BY DEF AskedLast, LastIs, Chat!Question, Chat!Exists
  <2>q. QED
      BY <1>6, <1>8, <2>1 DEF AskedLast, Chat!Running, Chat!Exists
<1>18. Seen'
  <2>1. SUFFICES ASSUME NEW r \in Slots, task'[r] # None, task'[r].text \notin twice
                 PROVE  /\ shown[task'[r].conv][task'[r].text] <= task'[r].parts
                        /\ \A q \in Slots : task'[q] # None /\ task'[q].text = task'[r].text => q = r
      BY DEF Seen
  <2>2. CASE r = s
      BY <1>1, <1>6, <1>8, <2>1, <2>2 DEF Fresh
  <2>3. CASE r # s
      BY <1>6, <1>8, <2>1, <2>3 DEF Fresh, Seen
  <2>q. QED
      BY <2>2, <2>3
<1>19. StoredWhole'
  <2>1. SUFFICES ASSUME NEW r \in Slots, task'[r] # None, task'[r].st = "over", task'[r].parts > 0,
                        task'[r].text \notin crashed \cup twice, conv[task'[r].conv] # None
                 PROVE  Has(conv[task'[r].conv], Chat!Answer(task'[r].text, task'[r].parts))
      BY DEF StoredWhole, Has, Chat!Answer, Chat!Exists
  <2>q. QED
      BY <1>6, <1>8, <2>1 DEF StoredWhole, Chat!Exists
<1>20. PendsOn
  <2>1. SUFFICES ASSUME NEW r \in Slots, task[r] # None, Pends(r) PROVE r # s /\ Pends(r)'
      BY <1>8 DEF PendsOn
  <2>2. PICK y \in Convs : y = task[r].conv
      BY <1>11, <2>1
  <2>3. r # s
      BY <1>10, <1>14, <2>1, <2>2 DEF Pends, Chat!Running
  <2>4. Hears(y, r) => Hears(y, r)'
      BY <1>14
  <2>q. QED
      BY <1>8, <2>1, <2>2, <2>3, <2>4 DEF Pends, Hears
<1>21. \A u : u # t /\ Fresh(u) => Fresh(u)'
    BY <1>6, <1>8 DEF Fresh
<1>22. task'[s] # None /\ task'[s].text = t /\ Pends(s)'
    BY <1>6, <1>8 DEF Pends
<1>q. QED
    BY <1>4, <1>12, <1>13, <1>15, <1>16, <1>17, <1>18, <1>19, <1>20, <1>21, <1>22

\* A call is sent.
LEMMA PostMoves ==
    ASSUME Chat!ChatDeskAssumption, ChatCallsIn, NEW k, Chat!Post(k), ChatCallIn(k, budget'),
           budget \in ChatBudget, budget' \in ChatBudget, budget'.used = budget.used, budget.typed <= budget'.typed
    PROVE  /\ ChatCallsIn'
           /\ \E s \in Slots : calls[s] = None /\ calls'[s] = k /\ k # None
              /\ \A r \in Slots \ {s} : calls'[r] = calls[r]
<1>1. PICK s \in Slots :
          /\ calls[s] = None /\ calls' = [calls EXCEPT ![s] = k]
          /\ latest' = [latest EXCEPT ![<<k.op, k.from>>] = s]
    BY DEF Chat!Post
<1>2. k \in Chat!CallRecord /\ k # None /\ <<k.op, k.from>> \in Chat!Ops
    BY DEF ChatCallIn, Chat!CallRecord, Chat!ChatDeskAssumption, Chat!Ops
<1>3. /\ calls' \in [Slots -> Chat!CallRecord \cup {None}] /\ calls'[s] = k
      /\ \A r \in Slots \ {s} : calls'[r] = calls[r]
    BY <1>1, <1>2 DEF ChatCallsIn
<1>4. \A x \in Chat!CallRecord : ChatCallIn(x, budget) => ChatCallIn(x, budget')
  <2>1. \A x \in Chat!Texts : x \in Nat
      BY DEF Chat!Texts
  <2>2. budget.typed \in Nat /\ budget'.typed \in Nat
      BY DEF ChatBudget
  <2>q. QED
      BY <2>1, <2>2 DEF ChatCallIn
<1>5. /\ latest' \in [Chat!Ops -> Slots \cup {None}] /\ latest'[<<k.op, k.from>>] = s
      /\ \A o \in Chat!Ops \ {<<k.op, k.from>>} : latest'[o] = latest[o]
    BY <1>1, <1>2 DEF ChatCallsIn
<1>6. \A o \in Chat!Ops : latest'[o] # None => calls'[latest'[o]] # None
                          /\ <<calls'[latest'[o]].op, calls'[latest'[o]].from>> = o
  <2>1. SUFFICES ASSUME NEW o \in Chat!Ops, latest'[o] # None
                 PROVE  calls'[latest'[o]] # None /\ <<calls'[latest'[o]].op, calls'[latest'[o]].from>> = o
      OBVIOUS
  <2>2. CASE o = <<k.op, k.from>>
      BY <1>2, <1>3, <1>5, <2>2
  <2>3. CASE o # <<k.op, k.from>>
    <3>1. latest'[o] = latest[o] /\ latest[o] \in Slots /\ calls[latest[o]] # None
          /\ <<calls[latest[o]].op, calls[latest[o]].from>> = o
        BY <1>5, <2>1, <2>3 DEF ChatCallsIn
    <3>q. QED
        BY <1>1, <1>3, <3>1
  <2>q. QED
      BY <2>2, <2>3
<1>7. \A r \in Slots : calls'[r] # None => ChatCallIn(calls'[r], budget')
    BY <1>3, <1>4 DEF ChatCallsIn
<1>q. QED
    BY <1>1, <1>2, <1>3, <1>5, <1>6, <1>7 DEF ChatCallsIn

\* The types of what stands still while a message is written.
LEMMA TypedGrows ==
    ASSUME ChatTyped, budget' \in ChatBudget, budget'.used = budget.used, budget.typed <= budget'.typed
    PROVE  /\ UNCHANGED conv => ConvIn'
           /\ UNCHANGED list => RoomsIn'
           /\ UNCHANGED task => TasksIn'
           /\ UNCHANGED <<task, stream>> => StreamsIn'
           /\ UNCHANGED <<calls, latest>> => ChatCallsIn'
<1> USE DEF ChatTyped
<1>1. budget.typed \in Nat /\ budget'.typed \in Nat /\ \A t \in Chat!Texts : t \in Nat
    BY DEF ChatBudget, Chat!Texts
<1>2. UNCHANGED conv => ConvIn'
    BY DEF ConvIn, Chat!Exists
<1>3. UNCHANGED list => RoomsIn'
    BY DEF RoomsIn
<1>4. UNCHANGED task => TasksIn'
  <2>1. \A k \in Chat!TaskRecord : Steady(k, budget) => Steady(k, budget')
      BY <1>1 DEF Steady, Chat!TaskRecord
  <2>q. QED
      BY <2>1 DEF TasksIn
<1>5. UNCHANGED <<task, stream>> => StreamsIn'
    BY DEF StreamsIn, Tells
<1>6. UNCHANGED <<calls, latest>> => ChatCallsIn'
  <2>1. \A k : ChatCallIn(k, budget) => ChatCallIn(k, budget')
      BY <1>1 DEF ChatCallIn
  <2>q. QED
      BY <2>1 DEF ChatCallsIn
<1>q. QED
    BY <1>2, <1>3, <1>4, <1>5, <1>6

\* A message leaves the box: it is sent, waits for its conversation, or is ignored.
LEMMA SendAway ==
    ASSUME Chat!ChatDeskAssumption, ChatInv, NEW h \in Chat!Holders, NEW room \in budget.used \cup {None},
           NEW t \in Chat!Texts,
           Chat!HandleSend(h, room, t),
           t \in twice \/ Fresh(t), t \in twice \/ \A s \in Slots : ~Makes(s, t),
           budget' \in ChatBudget, budget'.used = budget.used, t <= budget'.typed, budget.typed <= budget'.typed,
           UNCHANGED <<conv, list, told, heard, twice, shown, crossed, crashed>>
    PROVE  /\ ConvIn' /\ RoomsIn' /\ TasksIn' /\ StreamsIn' /\ ChatCallsIn' /\ ChatHistoryIn'
           /\ Heeded' /\ Orderly' /\ AskedLast' /\ Chat!AnswersFollow' /\ Seen' /\ StoredWhole'
           /\ PendsOn /\ dropped \subseteq dropped'
           /\ \A u : u # t /\ Fresh(u) => Fresh(u)'
           /\ \A u, s : u # t /\ s \in Slots => (Makes(s, u)' <=> Makes(s, u))
           /\ t \in dropped' \/ (\E s \in Slots : Makes(s, t)')
                \/ \E s \in Slots : task'[s] # None /\ task'[s].text = t /\ Pends(s)'
           /\ t \in twice \/ \A r, s \in Slots : Makes(r, t)' /\ Makes(s, t)' => r = s
           /\ t \in twice \/ Fresh(t)' \/ \A s \in Slots : ~Makes(s, t)'
<1> USE DEF ChatInv
<1>1. budget \in ChatBudget /\ ConvIn' /\ RoomsIn'
    BY TypedGrows DEF ChatTyped
<1>2. Chat!AnswersFollow'
    BY DEF Chat!AnswersFollow, Chat!Existing, Chat!Exists
<1>3. CASE room = None
  <2>1. PICK k : k = [Chat!Call("create", h) EXCEPT !.text = t]
      OBVIOUS
  <2>2. Chat!Post(k) /\ UNCHANGED <<task, stream, degraded, dropped>>
      BY <1>3, <2>1 DEF Chat!HandleSend, Chat!store
  <2>3. /\ k.op = "create" /\ k.from = h /\ k.text = t /\ k.conv = None /\ k.room = None /\ k.st = "sent"
        /\ k.alive = TRUE /\ k \in Chat!CallRecord
      BY <2>1 DEF Chat!Call, Chat!CallRecord
  <2>4. ChatCallIn(k, budget')
      BY <2>3 DEF ChatCallIn
  <2>5. ChatCallsIn'
      BY <1>1, <2>2, <2>4, PostMoves DEF ChatTyped
  <2>6. PICK s \in Slots :
            calls[s] = None /\ calls'[s] = k /\ k # None /\ \A r \in Slots \ {s} : calls'[r] = calls[r]
      BY <1>1, <2>2, <2>4, PostMoves DEF ChatTyped
  <2>7. TasksIn' /\ StreamsIn'
      BY <2>2, TypedGrows
  <2>8. ChatHistoryIn'
      BY <2>2 DEF ChatTyped, ChatHistoryIn
  <2>9. Heeded' /\ Orderly' /\ AskedLast' /\ Seen' /\ StoredWhole'
      BY <2>2 DEF Heeded, Orderly, AskedLast, Seen, StoredWhole, Beside, Chat!Running, Hears, Chat!Exists
  <2>10. PendsOn
      BY <2>2 DEF PendsOn, Pends, Hears
  <2>11. \A u : Fresh(u) => Fresh(u)'
      BY <2>2 DEF Fresh
  <2>12. /\ \A u, r : u # t /\ r \in Slots => (Makes(r, u)' <=> Makes(r, u))
         /\ Makes(s, t)' /\ \A r \in Slots \ {s} : Makes(r, t)' <=> Makes(r, t)
      BY <2>3, <2>6 DEF Makes
  <2>q. QED
      BY <1>1, <1>2, <2>2, <2>5, <2>7, <2>8, <2>9, <2>10, <2>11, <2>12
<1>4. CASE room # None
  <2>1. Chat!Send(room, t) /\ UNCHANGED <<calls, latest>> /\ room \in budget.used
      BY <1>4 DEF Chat!HandleSend, Chat!mutations
  <2>2. ChatCallsIn'
      BY <2>1, TypedGrows
  <2>3. \A u, s : Makes(s, u)' <=> Makes(s, u)
      BY <2>1 DEF Makes
  <2>4. CASE Chat!Streaming(room)
    <3>1. UNCHANGED <<task, stream, degraded>> /\ dropped' = dropped \cup {t}
        BY <2>1, <2>4 DEF Chat!Send, Chat!store
    <3>2. TasksIn' /\ StreamsIn'
        BY <3>1, TypedGrows
    <3>3. ChatHistoryIn'
        BY <3>1 DEF ChatTyped, ChatHistoryIn
    <3>4. Heeded' /\ Orderly' /\ AskedLast' /\ Seen' /\ StoredWhole'
        BY <3>1 DEF Heeded, Orderly, AskedLast, Seen, StoredWhole, Beside, Chat!Running, Hears, Chat!Exists
    <3>5. PendsOn
        BY <3>1 DEF PendsOn, Pends, Hears
    <3>6. \A u : Fresh(u) => Fresh(u)'
        BY <3>1 DEF Fresh
    <3>q. QED
        BY <1>1, <1>2, <2>2, <2>3, <3>1, <3>2, <3>3, <3>4, <3>5, <3>6
  <2>5. CASE ~Chat!Streaming(room)
    <3>1. /\ TasksIn' /\ StreamsIn' /\ degraded' = FALSE /\ dropped' = dropped
          /\ Heeded' /\ Orderly' /\ AskedLast' /\ Seen' /\ StoredWhole' /\ PendsOn
          /\ \A u : u # t /\ Fresh(u) => Fresh(u)'
          /\ \E s \in Slots : task'[s] # None /\ task'[s].text = t /\ Pends(s)'
        BY <1>1, <2>1, <2>5, SendMoves
    <3>2. ChatHistoryIn'
        BY <3>1 DEF ChatTyped, ChatHistoryIn
    <3>q. QED
        BY <1>1, <1>2, <2>2, <2>3, <3>1, <3>2
  <2>q. QED
      BY <2>4, <2>5
<1>q. QED
    BY <1>3, <1>4

\* A message that was accounted for still is.
LEMMA StillAccounted ==
    ASSUME PendsOn, UNCHANGED conv, heard \subseteq heard', dropped \subseteq dropped', NEW u, Accounted(u),
           ~Waits(u) \/ Waits(u)'
    PROVE  Accounted(u)'
<1>1. CASE Chat!Kept(u) \/ u \in heard \cup dropped
    BY <1>1 DEF Accounted, Chat!Kept, Chat!Asked, Chat!Exists
<1>2. CASE Waits(u)
    BY <1>2 DEF Accounted
<1>3. ASSUME NEW r \in Slots, task[r] # None, task[r].text = u, Pends(r) PROVE Accounted(u)'
    BY <1>3 DEF PendsOn, Accounted
<1>q. QED
    BY <1>1, <1>2, <1>3 DEF Accounted

LEMMA SubmitSteps ==
    ASSUME Chat!ChatDeskAssumption, ChatInv, NEW h \in Chat!Holders, Chat!Submit(h)
    PROVE  ChatInv'
<1> USE DEF ChatInv
<1>1. PICK t : t = budget.typed + 1
    OBVIOUS
<1>2. /\ budget.typed < budget.texts /\ budget' = [budget EXCEPT !.typed = t] /\ Chat!HandleSend(h, ui.room[h], t)
      /\ UNCHANGED <<conv, list, ui, told, heard, twice, crossed, shown, crashed>>
    BY <1>1 DEF Chat!Submit, Chat!cached
<1>3. budget \in ChatBudget /\ budget.typed \in Nat /\ budget.texts \in 0 .. MaxTexts
    BY DEF ChatTyped, ChatBudget, Chat!ChatDeskAssumption
<1>4. t \in Chat!Texts /\ t \in 0 .. MaxTexts /\ t > budget.typed /\ t <= budget.texts
    BY <1>1, <1>2, <1>3 DEF Chat!Texts, Chat!ChatDeskAssumption
<1>5. /\ budget' \in ChatBudget /\ budget'.used = budget.used /\ budget'.typed = t /\ budget'.texts = budget.texts
      /\ t <= budget'.typed /\ budget.typed <= budget'.typed
    BY <1>1, <1>2, <1>3, <1>4 DEF ChatBudget
<1>6. ui.room[h] \in budget.used \cup {None}
    BY DEF ChatTyped, ChatUiIn, ChatUi
<1>7. ~Waits(t) /\ Fresh(t) /\ ~InBox(t) /\ \A s \in Slots : ~Makes(s, t)
    BY <1>4 DEF WaitsOnce, Waits
<1>8. /\ ConvIn' /\ RoomsIn' /\ TasksIn' /\ StreamsIn' /\ ChatCallsIn' /\ ChatHistoryIn'
      /\ Heeded' /\ Orderly' /\ AskedLast' /\ Chat!AnswersFollow' /\ Seen' /\ StoredWhole'
      /\ PendsOn /\ dropped \subseteq dropped'
      /\ \A u : u # t /\ Fresh(u) => Fresh(u)'
      /\ \A u, s : u # t /\ s \in Slots => (Makes(s, u)' <=> Makes(s, u))
      /\ t \in dropped' \/ (\E s \in Slots : Makes(s, t)')
           \/ \E s \in Slots : task'[s] # None /\ task'[s].text = t /\ Pends(s)'
      /\ t \in twice \/ \A r, s \in Slots : Makes(r, t)' /\ Makes(s, t)' => r = s
      /\ t \in twice \/ Fresh(t)' \/ \A s \in Slots : ~Makes(s, t)'
    BY <1>2, <1>4, <1>5, <1>6, <1>7, SendAway
<1>9. ChatTyped'
  <2>1. ChatUiIn'
    <3>1. \A i \in 1 .. Len(ui.reading) : ui.reading[i].text \in Nat
      <4>1. ui.reading \in Seq(ReadRecord(budget.used))
          BY DEF ChatTyped, ChatUiIn, ChatUi
      <4>2. \A x \in ReadRecord(budget.used) : x.text \in Nat
          BY DEF ReadRecord, Chat!Texts
      <4>q. QED
          BY <4>1, <4>2
    <3>q. QED
        BY <1>2, <1>3, <1>4, <1>5, <3>1 DEF ChatTyped, ChatUiIn
  <2>q. QED
      BY <1>4, <1>5, <1>8, <2>1 DEF ChatTyped
<1>10. \A u : InBox(u)' <=> InBox(u)
    BY <1>2 DEF InBox
<1>11. \A u : u # t => (Waits(u)' <=> Waits(u))
    BY <1>8, <1>10 DEF Waits
<1>12. WaitsOnce'
  <2>1. SUFFICES ASSUME NEW u \in Chat!Texts
                 PROVE  (u \notin twice => Once(u)') /\ (u > budget'.typed => ~Waits(u)' /\ Fresh(u)')
      BY <1>2 DEF WaitsOnce
  <2>2. CASE u = t
    <3>1. ~InBox(t)'
        BY <1>7, <1>10
    <3>2. \A i \in 1 .. Len(ui'.reading) : ui'.reading[i].text # t
        BY <3>1 DEF InBox
    <3>3. t \notin twice => (Waits(t)' => Fresh(t)')
        BY <1>8, <3>1 DEF Waits
    <3>4. t \notin twice => Once(t)'
        BY <1>8, <3>1, <3>2, <3>3 DEF Once
    <3>5. ~(t > budget'.typed)
        BY <1>4, <1>5, <1>3
    <3>q. QED
        BY <2>2, <3>4, <3>5
  <2>3. CASE u # t
    <3>1. u \notin twice => Once(u)'
      <4>1. Once(u) => Once(u)'
          BY <1>2, <1>8, <1>10, <1>11, <2>3 DEF Once
      <4>q. QED
          BY <4>1 DEF WaitsOnce
    <3>2. u > budget'.typed => u > budget.typed
        BY <1>3, <1>4, <1>5 DEF Chat!Texts
    <3>q. QED
        BY <1>8, <1>11, <2>3, <3>1, <3>2 DEF WaitsOnce
  <2>q. QED
      BY <2>2, <2>3
<1>13. AllAccounted'
  <2>1. SUFFICES ASSUME NEW u \in 1 .. budget'.typed PROVE Accounted(u)'
      BY DEF AllAccounted
  <2>2. CASE u = t
      BY <1>8, <2>2 DEF Accounted, Waits
  <2>3. CASE u # t
    <3>1. Accounted(u)
        BY <1>1, <1>3, <1>5, <2>1, <2>3 DEF AllAccounted
    <3>q. QED
        BY <1>2, <1>8, <1>11, <2>3, <3>1, StillAccounted
  <2>q. QED
      BY <2>2, <2>3
<1>q. QED
    BY <1>8, <1>9, <1>12, <1>13

LEMMA SubmitFileSteps ==
    ASSUME Chat!ChatDeskAssumption, ChatInv, NEW h \in Chat!Holders, Chat!SubmitFile(h)
    PROVE  ChatInv'
<1> USE DEF ChatInv
<1>1. PICK more \in BOOLEAN : more = (ui.reading # <<>>)
    OBVIOUS
<1>2. PICK t : t = (IF more THEN ui.reading[Len(ui.reading)].text ELSE budget.typed + 1)
    OBVIOUS
<1>3. PICK x : x = [from |-> h, room |-> ui.room[h], text |-> t]
    OBVIOUS
<1>4. PICK rs : rs = ui.reading
    OBVIOUS
<1>5. PICK n : n = (IF more THEN budget.typed ELSE t)
    OBVIOUS
<1>6. /\ ~more => budget.typed < budget.texts
      /\ ui' = [ui EXCEPT !.reading = Append(@, x)]
      /\ budget.files > 0 /\ budget' = [budget EXCEPT !.files = @ - 1, !.typed = n]
      /\ twice' = IF more THEN twice \cup {t} ELSE twice
      /\ UNCHANGED <<conv, task, list, stream, degraded, calls, latest, told, heard, dropped, crossed, shown, crashed>>
    BY <1>1, <1>2, <1>3, <1>5, Zenon DEF Chat!SubmitFile, Chat!server, Chat!cached, Chat!store, Chat!mutations
<1>7. /\ budget \in ChatBudget /\ budget.typed \in Nat /\ budget.texts \in 0 .. MaxTexts /\ budget.files \in Nat
      /\ budget.typed <= budget.texts /\ budget.typed <= MaxTexts /\ MaxTexts \in Nat
    BY DEF ChatTyped, ChatBudget, Chat!ChatDeskAssumption
<1>8. /\ ui \in ChatUi(budget.used) /\ ui.room[h] \in budget.used \cup {None}
      /\ rs \in Seq(ReadRecord(budget.used)) /\ \A i \in 1 .. Len(rs) : rs[i].text <= budget.typed
    BY <1>4 DEF ChatTyped, ChatUiIn, ChatUi
<1>9. /\ t \in Chat!Texts /\ n \in 0 .. MaxTexts /\ t <= n /\ budget.typed <= n /\ n <= budget.texts
      /\ n = budget.typed \/ (n = t /\ t = budget.typed + 1 /\ ~more)
  <2>1. CASE more
    <3>1. Len(rs) \in 1 .. Len(rs)
      <4>1. rs # <<>>
          BY <1>1, <1>4, <2>1, Zenon
      <4>2. Len(rs) \in Nat /\ Len(rs) # 0
          BY <1>8, <4>1
      <4>q. QED
          BY <4>2
    <3>2. t = rs[Len(rs)].text
        BY <1>2, <1>4, <2>1
    <3>3. rs[Len(rs)] \in ReadRecord(budget.used) /\ rs[Len(rs)].text <= budget.typed
        BY <1>8, <3>1
    <3>4. t \in Chat!Texts /\ t <= budget.typed
        BY <3>2, <3>3 DEF ReadRecord
    <3>q. QED
        BY <1>5, <1>7, <2>1, <3>4 DEF Chat!Texts
  <2>2. CASE ~more
      BY <1>2, <1>5, <1>6, <1>7, <2>2 DEF Chat!Texts
  <2>q. QED
      BY <2>1, <2>2
<1>10. /\ budget' \in ChatBudget /\ budget'.used = budget.used /\ budget'.typed = n /\ budget'.texts = budget.texts
       /\ budget.typed <= budget'.typed
  <2>1. PICK f \in Nat : f = budget.files - 1
      BY <1>6, <1>7
  <2>2. budget' = [[budget EXCEPT !.files = f] EXCEPT !.typed = n]
      BY <1>6, <2>1
  <2>q. QED
      BY <1>7, <1>9, <2>2 DEF ChatBudget
<1>11. x \in ReadRecord(budget.used) /\ x.text = t
    BY <1>3, <1>8, <1>9 DEF ReadRecord
<1>12. PICK ns : ns = Append(rs, x)
    OBVIOUS
<1>13. /\ ns \in Seq(ReadRecord(budget.used)) /\ Len(rs) \in Nat /\ Len(ns) = Len(rs) + 1 /\ ns[Len(rs) + 1] = x
       /\ \A i \in 1 .. Len(rs) : ns[i] = rs[i]
    BY <1>8, <1>11, <1>12
<1>14. ui' = [ui EXCEPT !.reading = ns]
    BY <1>4, <1>6, <1>12
<1>15. ui' \in ChatUi(budget.used) /\ ui'.reading = ns
    BY <1>8, <1>13, <1>14 DEF ChatUi
<1>16. twice' \subseteq Chat!Texts /\ twice \subseteq twice' /\ twice' \subseteq twice \cup {t}
    BY <1>6, <1>9 DEF ChatTyped, ChatHistoryIn
<1>17. ChatTyped'
  <2>1. ConvIn' /\ RoomsIn' /\ TasksIn' /\ StreamsIn' /\ ChatCallsIn'
      BY <1>6, <1>10, TypedGrows
  <2>2. ChatUiIn'
    <3>1. \A i \in 1 .. Len(rs) : rs[i].text \in Nat
      <4>1. \A y \in ReadRecord(budget.used) : y.text \in Nat
          BY DEF ReadRecord, Chat!Texts
      <4>q. QED
          BY <1>8, <4>1
    <3>2. \A i \in 1 .. Len(ns) : ns[i].text <= n
      <4>1. SUFFICES ASSUME NEW i \in 1 .. Len(ns) PROVE ns[i].text <= n
          OBVIOUS
      <4>2. CASE i \in 1 .. Len(rs)
          BY <1>7, <1>8, <1>9, <1>13, <3>1, <4>2
      <4>3. CASE i = Len(rs) + 1
          BY <1>9, <1>11, <1>13, <4>3
      <4>q. QED
          BY <1>13, <4>1, <4>2, <4>3
    <3>q. QED
        BY <1>10, <1>15, <3>2 DEF ChatUiIn
  <2>3. ChatHistoryIn'
      BY <1>6, <1>16 DEF ChatTyped, ChatHistoryIn
  <2>q. QED
      BY <1>9, <1>10, <2>1, <2>2, <2>3 DEF ChatTyped
<1>18. Heeded' /\ Orderly' /\ AskedLast' /\ Chat!AnswersFollow'
    BY <1>6 DEF Heeded, Orderly, AskedLast, Chat!AnswersFollow, Beside, Chat!Running, Hears, Chat!Exists,
       Chat!Existing
<1>19. Seen' /\ StoredWhole'
    BY <1>6, <1>16 DEF Seen, StoredWhole, Chat!Exists
<1>20. \A u, s : Makes(s, u)' <=> Makes(s, u)
    BY <1>6 DEF Makes
<1>21. \A u : Fresh(u)' <=> Fresh(u)
    BY <1>6 DEF Fresh
<1>22. InBox(t)' /\ \A u : u # t => (InBox(u)' <=> InBox(u))
  <2>1. InBox(t)'
      BY <1>11, <1>13, <1>15 DEF InBox
  <2>2. SUFFICES ASSUME NEW u, u # t PROVE InBox(u)' <=> InBox(u)
      BY <2>1
  <2>3. ASSUME NEW i \in 1 .. Len(ns), ns[i].text = u PROVE i \in 1 .. Len(rs) /\ rs[i].text = u
      BY <1>11, <1>13, <2>2, <2>3
  <2>4. \A i \in 1 .. Len(rs) : i \in 1 .. Len(ns)
      BY <1>13
  <2>q. QED
      BY <1>4, <1>13, <1>15, <2>3, <2>4 DEF InBox
<1>23. \A u : u # t => (Waits(u)' <=> Waits(u))
    BY <1>20, <1>22 DEF Waits
<1>24. WaitsOnce'
  <2>1. SUFFICES ASSUME NEW u \in Chat!Texts
                 PROVE  (u \notin twice' => Once(u)') /\ (u > budget'.typed => ~Waits(u)' /\ Fresh(u)')
      BY DEF WaitsOnce
  <2>2. CASE u = t
    <3>1. ~(t > n)
        BY <1>9 DEF Chat!Texts
    <3>2. ASSUME t \notin twice' PROVE Once(t)'
      <4>1. ~more /\ t > budget.typed
          BY <1>6, <1>7, <1>2, <3>2
      <4>2. ~Waits(t) /\ Fresh(t)
          BY <1>9, <4>1 DEF WaitsOnce
      <4>3. \A i \in 1 .. Len(ns) : ns[i].text = t => i = Len(rs) + 1
        <5>1. \A i \in 1 .. Len(rs) : rs[i].text # t
            BY <1>4, <4>2 DEF Waits, InBox
        <5>q. QED
            BY <1>13, <5>1
      <4>4. \A s \in Slots : ~Makes(s, t)'
          BY <1>20, <4>2 DEF Waits
      <4>5. Fresh(t)'
          BY <1>21, <4>2
      <4>q. QED
          BY <1>15, <4>3, <4>4, <4>5 DEF Once
    <3>q. QED
        BY <1>10, <2>2, <3>1, <3>2
  <2>3. CASE u # t
    <3>1. Once(u) => Once(u)'
      <4>1. ASSUME Once(u) PROVE Once(u)'
        <5>1. \A i \in 1 .. Len(ns) : ns[i].text = u => i \in 1 .. Len(rs) /\ rs[i].text = u
            BY <1>11, <1>13, <2>3
        <5>2. \A i, j \in 1 .. Len(ns) : ns[i].text = u /\ ns[j].text = u => i = j
            BY <1>4, <4>1, <5>1 DEF Once
        <5>q. QED
            BY <1>15, <1>20, <1>21, <1>22, <1>23, <2>3, <4>1, <5>2 DEF Once
      <4>q. QED
          BY <4>1
    <3>2. u > budget'.typed => u > budget.typed
        BY <1>7, <1>9, <1>10 DEF Chat!Texts
    <3>q. QED
        BY <1>16, <1>21, <1>23, <2>3, <3>1, <3>2 DEF WaitsOnce
  <2>q. QED
      BY <2>2, <2>3
<1>25. AllAccounted'
  <2>1. SUFFICES ASSUME NEW u \in 1 .. budget'.typed PROVE Accounted(u)'
      BY DEF AllAccounted
  <2>2. CASE u = t
      BY <1>22, <2>2 DEF Accounted, Waits
  <2>3. CASE u # t
    <3>1. Accounted(u)
        BY <1>7, <1>9, <1>10, <2>1, <2>3 DEF AllAccounted
    <3>2. PendsOn
        BY <1>6 DEF PendsOn, Pends, Hears
    <3>q. QED
        BY <1>6, <1>23, <2>3, <3>1, <3>2, StillAccounted
  <2>q. QED
      BY <2>2, <2>3
<1>q. QED
    BY <1>17, <1>18, <1>19, <1>24, <1>25

LEMMA FileReadSteps ==
    ASSUME Chat!ChatDeskAssumption, ChatInv, Chat!FileRead
    PROVE  ChatInv'
<1> USE DEF ChatInv
<1>1. PICK rs : rs = ui.reading
    OBVIOUS
<1>2. PICK r : r = Head(rs)
    OBVIOUS
<1>3. PICK ns : ns = Tail(rs)
    OBVIOUS
<1>4. /\ rs # <<>> /\ ui' = [ui EXCEPT !.reading = ns] /\ Chat!HandleSend(r.from, r.room, r.text)
      /\ UNCHANGED <<conv, list, budget, told, heard, twice, crossed, shown, crashed>>
    BY <1>1, <1>2, <1>3 DEF Chat!FileRead, Chat!cached
<1>5. /\ ui \in ChatUi(budget.used) /\ rs \in Seq(ReadRecord(budget.used))
      /\ \A i \in 1 .. Len(rs) : rs[i].text <= budget.typed
    BY <1>1 DEF ChatTyped, ChatUiIn, ChatUi
<1>6. /\ ns \in Seq(ReadRecord(budget.used)) /\ r \in ReadRecord(budget.used) /\ r = rs[1]
      /\ Len(rs) \in Nat /\ Len(rs) > 0 /\ Len(ns) = Len(rs) - 1
      /\ \A i \in 1 .. Len(ns) : ns[i] = rs[i + 1] /\ i + 1 \in 1 .. Len(rs)
    BY <1>2, <1>3, <1>4, <1>5
<1>7. PICK t : t = r.text
    OBVIOUS
<1>8. r.from \in Chat!Holders /\ r.room \in budget.used \cup {None} /\ t \in Chat!Texts /\ t <= budget.typed
      /\ InBox(t)
  <2>1. 1 \in 1 .. Len(rs)
      BY <1>6
  <2>q. QED
      BY <1>1, <1>5, <1>6, <1>7, <2>1 DEF ReadRecord, InBox
<1>9. budget \in ChatBudget /\ budget.typed \in Nat
    BY DEF ChatTyped, ChatBudget
<1>10. t \in twice \/ (Once(t) /\ Fresh(t) /\ \A s \in Slots : ~Makes(s, t))
    BY <1>8 DEF WaitsOnce, Once, Waits
<1>11. Chat!HandleSend(r.from, r.room, t) /\ budget' = budget /\ budget.typed <= budget'.typed
    BY <1>4, <1>7, <1>9
<1>12. /\ ConvIn' /\ RoomsIn' /\ TasksIn' /\ StreamsIn' /\ ChatCallsIn' /\ ChatHistoryIn'
       /\ Heeded' /\ Orderly' /\ AskedLast' /\ Chat!AnswersFollow' /\ Seen' /\ StoredWhole'
       /\ PendsOn /\ dropped \subseteq dropped'
       /\ \A u : u # t /\ Fresh(u) => Fresh(u)'
       /\ \A u, s : u # t /\ s \in Slots => (Makes(s, u)' <=> Makes(s, u))
       /\ t \in dropped' \/ (\E s \in Slots : Makes(s, t)')
            \/ \E s \in Slots : task'[s] # None /\ task'[s].text = t /\ Pends(s)'
       /\ t \in twice \/ \A q, s \in Slots : Makes(q, t)' /\ Makes(s, t)' => q = s
       /\ t \in twice \/ Fresh(t)' \/ \A s \in Slots : ~Makes(s, t)'
    BY <1>4, <1>8, <1>9, <1>10, <1>11, SendAway
<1>13. ui' \in ChatUi(budget.used) /\ ui'.reading = ns
    BY <1>4, <1>5, <1>6 DEF ChatUi
<1>14. ChatTyped'
  <2>1. ChatUiIn'
      BY <1>4, <1>5, <1>6, <1>13 DEF ChatUiIn
  <2>q. QED
      BY <1>4, <1>12, <2>1 DEF ChatTyped
<1>15. \A u : u # t => (InBox(u)' <=> InBox(u))
  <2>1. SUFFICES ASSUME NEW u, u # t PROVE InBox(u)' <=> InBox(u)
      OBVIOUS
  <2>2. ASSUME NEW i \in 1 .. Len(rs), rs[i].text = u PROVE i - 1 \in 1 .. Len(ns) /\ ns[i - 1].text = u
    <3>1. i # 1
        BY <1>6, <1>7, <2>1, <2>2
    <3>2. i - 1 \in 1 .. Len(ns) /\ (i - 1) + 1 = i
        BY <1>6, <3>1
    <3>q. QED
        BY <1>6, <2>2, <3>2
  <2>3. ASSUME NEW i \in 1 .. Len(ns), ns[i].text = u PROVE i + 1 \in 1 .. Len(rs) /\ rs[i + 1].text = u
      BY <1>6, <2>3
  <2>q. QED
      BY <1>1, <1>13, <2>2, <2>3 DEF InBox
<1>16. t \notin twice => ~InBox(t)'
  <2>1. SUFFICES ASSUME t \notin twice, NEW i \in 1 .. Len(ns), ns[i].text = t PROVE FALSE
      BY <1>13 DEF InBox
  <2>2. rs[i + 1].text = t /\ i + 1 \in 1 .. Len(rs) /\ rs[1].text = t /\ 1 \in 1 .. Len(rs)
      BY <1>6, <1>7, <2>1
  <2>3. i + 1 = 1
      BY <1>1, <1>10, <2>1, <2>2 DEF Once
  <2>q. QED
      BY <2>1, <2>3
<1>17. \A u : u # t => (Waits(u)' <=> Waits(u))
    BY <1>12, <1>15 DEF Waits
<1>18. WaitsOnce'
  <2>1. SUFFICES ASSUME NEW u \in Chat!Texts
                 PROVE  (u \notin twice => Once(u)') /\ (u > budget.typed => ~Waits(u)' /\ Fresh(u)')
      BY <1>4 DEF WaitsOnce
  <2>2. CASE u = t
    <3>1. ~(t > budget.typed)
        BY <1>8, <1>9 DEF Chat!Texts
    <3>2. ASSUME t \notin twice PROVE Once(t)'
      <4>1. \A i \in 1 .. Len(ui'.reading) : ui'.reading[i].text # t
          BY <1>16, <3>2 DEF InBox
      <4>2. Waits(t)' => Fresh(t)'
          BY <1>12, <1>16, <3>2 DEF Waits
      <4>q. QED
          BY <1>12, <1>16, <3>2, <4>1, <4>2 DEF Once
    <3>q. QED
        BY <2>2, <3>1, <3>2
  <2>3. CASE u # t
    <3>1. Once(u) => Once(u)'
      <4>1. ASSUME Once(u) PROVE Once(u)'
        <5>1. ASSUME NEW i \in 1 .. Len(ns), NEW j \in 1 .. Len(ns), ns[i].text = u, ns[j].text = u PROVE i = j
          <6>1. i + 1 = j + 1
              BY <1>1, <1>6, <4>1, <5>1 DEF Once
          <6>q. QED
              BY <6>1
        <5>q. QED
            BY <1>12, <1>13, <1>15, <1>17, <2>3, <4>1, <5>1 DEF Once
      <4>q. QED
          BY <4>1
    <3>q. QED
        BY <1>12, <1>17, <2>3, <3>1 DEF WaitsOnce
  <2>q. QED
      BY <2>2, <2>3
<1>19. AllAccounted'
  <2>1. SUFFICES ASSUME NEW u \in 1 .. budget.typed PROVE Accounted(u)'
      BY <1>4 DEF AllAccounted
  <2>2. CASE u = t
      BY <1>12, <2>2 DEF Accounted, Waits
  <2>3. CASE u # t
    <3>1. Accounted(u)
        BY <2>1 DEF AllAccounted
    <3>q. QED
        BY <1>4, <1>12, <1>17, <2>3, <3>1, StillAccounted
  <2>q. QED
      BY <2>2, <2>3
<1>q. QED
    BY <1>12, <1>14, <1>18, <1>19

-----------------------------------------------------------------------------
(* Conversations are made and deleted, and the page is left *)

\* A conversation is as it was, or gone, or new.
ConvsMove(new) ==
    \A c \in Convs : conv'[c] = conv[c] \/ conv'[c] = None \/ (c \notin budget.used /\ conv'[c] = new)

\* The calls go on; no handler does, and nobody listens or stops.
LEMMA CallMoves ==
    ASSUME Chat!ChatDeskAssumption, ChatInv, ConvIn', ConvsMove(<<>>), ChatCallsIn', RoomsIn', ChatUiIn',
           ui'.reading = ui.reading, told' \in BOOLEAN, dropped \subseteq dropped', dropped' \subseteq Chat!Texts,
           budget' \in ChatBudget, budget.used \subseteq budget'.used, budget'.typed = budget.typed,
           budget'.texts = budget.texts,
           UNCHANGED <<task, stream, degraded, heard, twice, crossed, shown, crashed>>,
           \A t \in Chat!Texts : Chat!Kept(t) => Chat!Kept(t)' \/ t \in dropped',
           \A s \in Slots, t \in Chat!Texts : Makes(s, t)' => Makes(s, t),
           \A s \in Slots, t \in Chat!Texts : Makes(s, t) => Makes(s, t)' \/ t \in dropped'
    PROVE  ChatInv'
<1> USE DEF ChatInv
<1>1. \A s \in Slots : task[s] # None => task[s].conv \in Convs /\ task[s].conv \in budget.used
                       /\ task[s].text \in Chat!Texts
    BY DEF ChatTyped, TasksIn, Chat!TaskRecord, Steady
<1>2. \A c \in budget.used : conv'[c] = conv[c] \/ conv'[c] = None
    BY DEF ConvsMove, ChatTyped, ChatBudget
<1>3. ChatTyped'
  <2>1. TasksIn'
      BY DEF ChatTyped, TasksIn, Steady
  <2>2. StreamsIn'
      BY DEF ChatTyped, StreamsIn, Tells
  <2>3. ChatHistoryIn'
      BY DEF ChatTyped, ChatHistoryIn
  <2>4. budget'.typed <= budget'.texts
      BY DEF ChatTyped
  <2>q. QED
      BY <2>1, <2>2, <2>3, <2>4 DEF ChatTyped
<1>4. Heeded' /\ Orderly' /\ Seen'
    BY DEF Heeded, Orderly, Seen, Beside, Chat!Running, Hears
<1>5. AskedLast'
  <2>1. SUFFICES ASSUME NEW r \in Slots, Chat!Running(r), task[r].st # "sent", task[r].conv \notin crossed,
                        conv'[task[r].conv] # None
                 PROVE  LastIs(conv'[task[r].conv], Chat!Question(task[r].text))
      BY DEF AskedLast, LastIs, Chat!Question, Chat!Exists, Chat!Running
  <2>q. QED
      BY <1>1, <1>2, <2>1 DEF AskedLast, Chat!Running, Chat!Exists
<1>6. Chat!AnswersFollow'
  <2>1. SUFFICES ASSUME NEW c \in Convs, conv'[c] # None, c \notin crossed, NEW i \in 1 .. Len(conv'[c]),
                        conv'[c][i].role = "assistant"
                 PROVE  i > 1 /\ conv'[c][i - 1] = Chat!Question(conv'[c][i].text)
      BY DEF Chat!AnswersFollow, Chat!Existing, Chat!Exists, Chat!Question
  <2>2. conv'[c] # <<>>
      BY <2>1
  <2>3. conv'[c] = conv[c]
      BY <2>1, <2>2 DEF ConvsMove
  <2>q. QED
      BY <2>1, <2>3 DEF Chat!AnswersFollow, Chat!Existing, Chat!Exists
<1>7. StoredWhole'
  <2>1. SUFFICES ASSUME NEW r \in Slots, task[r] # None, task[r].st = "over", task[r].parts > 0,
                        task[r].text \notin crashed \cup twice, conv'[task[r].conv] # None
                 PROVE  Has(conv'[task[r].conv], Chat!Answer(task[r].text, task[r].parts))
      BY DEF StoredWhole, Has, Chat!Answer, Chat!Exists
  <2>q. QED
      BY <1>1, <1>2, <2>1 DEF StoredWhole, Chat!Exists
<1>8. \A t : (InBox(t)' <=> InBox(t)) /\ (Fresh(t)' <=> Fresh(t))
    BY DEF InBox, Fresh
<1>9. WaitsOnce'
  <2>1. SUFFICES ASSUME NEW u \in Chat!Texts
                 PROVE  (u \notin twice => Once(u)') /\ (u > budget.typed => ~Waits(u)' /\ Fresh(u)')
      BY DEF WaitsOnce
  <2>2. Waits(u)' => Waits(u)
      BY <1>8 DEF Waits
  <2>3. Once(u) => Once(u)'
      BY <1>8, <2>2 DEF Once
  <2>q. QED
      BY <1>8, <2>2, <2>3 DEF WaitsOnce
<1>10. AllAccounted'
  <2>1. SUFFICES ASSUME NEW u \in 1 .. budget.typed PROVE Accounted(u)'
      BY DEF AllAccounted
  <2>2. u \in Chat!Texts /\ Accounted(u)
    <3>1. budget.typed \in Nat /\ MaxTexts \in Nat /\ budget.typed <= MaxTexts
        BY DEF ChatTyped, ChatBudget, Chat!ChatDeskAssumption
    <3>q. QED
        BY <2>1, <3>1 DEF AllAccounted, Chat!Texts
  <2>3. CASE Chat!Kept(u) \/ u \in heard \cup dropped
      BY <2>2, <2>3 DEF Accounted
  <2>4. CASE Waits(u)
      BY <1>8, <2>2, <2>4 DEF Accounted, Waits
  <2>5. ASSUME NEW r \in Slots, task[r] # None, task[r].text = u, Pends(r) PROVE Accounted(u)'
      BY <2>5 DEF Accounted, Pends, Hears
  <2>q. QED
      BY <2>2, <2>3, <2>4, <2>5 DEF Accounted
<1>q. QED
    BY <1>3, <1>4, <1>5, <1>6, <1>7, <1>9, <1>10

\* A call is over.
LEMMA OverMoves ==
    ASSUME ChatCallsIn, NEW s \in Slots, Chat!Over(s), UNCHANGED budget
    PROVE  /\ ChatCallsIn' /\ calls'[s] = None /\ \A r \in Slots \ {s} : calls'[r] = calls[r]
           /\ \A u, r : r \in Slots => (Makes(r, u)' <=> r # s /\ Makes(r, u))
<1>1. /\ calls' \in [Slots -> Chat!CallRecord \cup {None}] /\ calls'[s] = None
      /\ \A r \in Slots \ {s} : calls'[r] = calls[r]
    BY DEF ChatCallsIn, Chat!Over
<1>2. latest' = [o \in Chat!Ops |-> IF latest[o] = s THEN None ELSE latest[o]]
    BY DEF Chat!Over
<1>3. latest' \in [Chat!Ops -> Slots \cup {None}]
    BY <1>2 DEF ChatCallsIn
<1>4. \A o \in Chat!Ops : latest'[o] # None => calls'[latest'[o]] # None
                          /\ <<calls'[latest'[o]].op, calls'[latest'[o]].from>> = o
    BY <1>1, <1>2 DEF ChatCallsIn
<1>5. ChatCallsIn'
    BY <1>1, <1>3, <1>4 DEF ChatCallsIn
<1>6. \A u, r : r \in Slots => (Makes(r, u)' <=> r # s /\ Makes(r, u))
    BY <1>1 DEF Makes
<1>q. QED
    BY <1>1, <1>5, <1>6

\* A call comes further, with its message.
LEMMA CallFurther ==
    ASSUME Chat!ChatDeskAssumption, ChatCallsIn, NEW s \in Slots, calls[s] # None, NEW d, ChatCallIn(d, budget'),
           calls' = [calls EXCEPT ![s] = d], latest' = latest,
           d.op = calls[s].op, d.from = calls[s].from, d.text = calls[s].text,
           budget.used \subseteq budget'.used, budget'.typed = budget.typed
    PROVE  ChatCallsIn' /\ \A u, r : r \in Slots => (Makes(r, u)' <=> Makes(r, u))
<1>1. d \in Chat!CallRecord /\ d # None
    BY DEF ChatCallIn, Chat!ChatDeskAssumption
<1>2. /\ calls' \in [Slots -> Chat!CallRecord \cup {None}] /\ calls'[s] = d
      /\ \A r \in Slots \ {s} : calls'[r] = calls[r]
    BY <1>1 DEF ChatCallsIn
<1>3. \A k : ChatCallIn(k, budget) => ChatCallIn(k, budget')
    BY DEF ChatCallIn
<1>4. \A o \in Chat!Ops : latest'[o] # None => calls'[latest'[o]] # None
                          /\ <<calls'[latest'[o]].op, calls'[latest'[o]].from>> = o
    BY <1>1, <1>2 DEF ChatCallsIn
<1>5. ChatCallsIn'
    BY <1>2, <1>3, <1>4 DEF ChatCallsIn
<1>6. \A u, r : r \in Slots => (Makes(r, u)' <=> Makes(r, u))
    BY <1>1, <1>2 DEF Makes
<1>q. QED
    BY <1>5, <1>6

LEMMA EraseSteps ==
    ASSUME Chat!ChatDeskAssumption, ChatInv, Chat!HandleDelete
    PROVE  ChatInv'
<1> USE DEF ChatInv
<1>1. PICK k : k = [Chat!Call("delete", "page") EXCEPT !.conv = ui.erase, !.room = ui.room["page"]]
    OBVIOUS
<1>2. /\ ui.erase # None /\ Chat!Post(k)
      /\ UNCHANGED <<conv, task, list, stream, degraded, ui, budget, told, heard, dropped, twice, crossed, shown, crashed>>
    BY <1>1 DEF Chat!HandleDelete, Chat!server, Chat!cached, Chat!store, Chat!history
<1>3. ui.erase \in budget.used /\ ui.room["page"] \in budget.used \cup {None} /\ budget.used \subseteq Convs
    BY <1>2 DEF ChatTyped, ChatUiIn, ChatUi, Chat!Holders, ChatBudget
<1>4. /\ k.op = "delete" /\ k.from = "page" /\ k.text = None /\ k.conv = ui.erase /\ k.room = ui.room["page"]
      /\ k.st = "sent" /\ k.alive = TRUE /\ k \in Chat!CallRecord
    BY <1>1, <1>3 DEF Chat!Call, Chat!CallRecord, Chat!Holders
<1>5. ChatCallIn(k, budget') /\ budget \in ChatBudget /\ budget.typed <= budget'.typed
  <2>1. ChatCallIn(k, budget')
      BY <1>2, <1>3, <1>4 DEF ChatCallIn
  <2>q. QED
      BY <1>2, <2>1 DEF ChatTyped, ChatBudget
<1>6. /\ ChatCallsIn'
      /\ \E s \in Slots : calls[s] = None /\ calls'[s] = k /\ k # None /\ \A r \in Slots \ {s} : calls'[r] = calls[r]
    BY <1>2, <1>5, PostMoves DEF ChatTyped
<1>7. \A s \in Slots, t \in Chat!Texts : Makes(s, t)' <=> Makes(s, t)
  <2>1. \A t \in Chat!Texts : t # None
      BY DEF Chat!ChatDeskAssumption
  <2>q. QED
      BY <1>4, <1>6, <2>1 DEF Makes
<1>8. ConvIn' /\ RoomsIn' /\ ChatUiIn'
    BY <1>2, SameRooms DEF ChatTyped
<1>9. ConvsMove(<<>>) /\ \A t : Chat!Kept(t) => Chat!Kept(t)'
    BY <1>2 DEF ConvsMove, Chat!Kept, Chat!Asked, Chat!Exists
<1>10. told' \in BOOLEAN /\ dropped' \subseteq Chat!Texts
    BY <1>2 DEF ChatTyped, ChatHistoryIn
<1>q. QED
    BY <1>2, <1>5, <1>6, <1>7, <1>8, <1>9, <1>10, CallMoves

LEMMA LoseSteps ==
    ASSUME Chat!ChatDeskAssumption, ChatInv, NEW s \in Slots, Chat!LoseCall(s)
    PROVE  ChatInv'
<1> USE DEF ChatInv
<1>1. PICK k \in Chat!CallRecord : k = calls[s] /\ ChatCallIn(k, budget)
    BY DEF Chat!LoseCall, ChatTyped, ChatCallsIn
<1> DEFINE d == [k EXCEPT !.st = "failed"]
<1>2. /\ d \in Chat!CallRecord /\ d.st = "failed" /\ d.op = k.op /\ d.from = k.from /\ d.text = k.text
         /\ d.conv = k.conv
      /\ d.room = k.room
    BY DEF Chat!CallRecord
<1>3. calls' = [calls EXCEPT ![s] = d]
    BY <1>1 DEF Chat!LoseCall
<1> HIDE DEF d
<1>4. /\ calls[s] # None /\ Chat!Spend("faults")
      /\ UNCHANGED <<conv, task, list, stream, degraded, latest, ui, heard, dropped, twice, crossed, shown, crashed>>
    BY DEF Chat!LoseCall, Chat!server, Chat!cached, Chat!store
<1>5. told' \in BOOLEAN
    BY DEF Chat!LoseCall, ChatTyped, ChatHistoryIn
<1>6. /\ budget' \in ChatBudget /\ budget'.used = budget.used /\ budget'.typed = budget.typed
      /\ budget'.texts = budget.texts
    BY <1>4, ChatSpends DEF ChatTyped
<1>7. ChatCallIn(d, budget')
    BY <1>1, <1>2, <1>6 DEF ChatCallIn
<1>8. ChatCallsIn' /\ \A u, r : r \in Slots => (Makes(r, u)' <=> Makes(r, u))
    BY <1>1, <1>2, <1>3, <1>4, <1>6, <1>7, CallFurther DEF ChatTyped
<1>9. ConvIn' /\ RoomsIn' /\ ChatUiIn'
    BY <1>4, <1>6, SameRooms DEF ChatTyped
<1>10. ConvsMove(<<>>) /\ \A t : Chat!Kept(t) => Chat!Kept(t)'
    BY <1>4 DEF ConvsMove, Chat!Kept, Chat!Asked, Chat!Exists
<1>11. dropped' \subseteq Chat!Texts
    BY <1>4 DEF ChatTyped, ChatHistoryIn
<1>q. QED
    BY <1>4, <1>5, <1>6, <1>8, <1>9, <1>10, <1>11, CallMoves

LEMMA LeaveSteps ==
    ASSUME Chat!ChatDeskAssumption, ChatInv, Chat!Go
    PROVE  ChatInv'
<1> USE DEF ChatInv
<1>1. /\ Chat!Spend("opens") /\ ui' = [ui EXCEPT !.page = ~@, !.room["page"] = None]
      /\ list' = list \/ \E old \in BOOLEAN : list' = Chat!Opened(list, old)
      /\ calls' = [s \in Slots |-> IF calls[s] # None /\ calls[s].from = "page"
                                   THEN [calls[s] EXCEPT !.alive = FALSE] ELSE calls[s]]
      /\ latest' = [o \in Chat!Ops |-> IF o[2] = "page" THEN None ELSE latest[o]]
      /\ UNCHANGED <<conv, task, stream, degraded, told, heard, dropped, twice, crossed, shown, crashed>>
  <2>1. \A u : Chat!Look(u) => ui' = u /\ (list' = list \/ \E old \in BOOLEAN : list' = Chat!Opened(list, old))
      BY DEF Chat!Look
  <2>q. QED
      BY <2>1 DEF Chat!Go, Chat!server, Chat!store, Chat!history
<1>2. /\ budget' \in ChatBudget /\ budget'.used = budget.used /\ budget'.typed = budget.typed
      /\ budget'.texts = budget.texts
    BY <1>1, ChatSpends DEF ChatTyped
<1>3. ui' \in ChatUi(budget.used) /\ ui'.reading = ui.reading
  <2>1. PICK b \in BOOLEAN : b = ~ui.page
      OBVIOUS
  <2>2. PICK u : u = [ui EXCEPT !.page = b]
      OBVIOUS
  <2>3. u \in ChatUi(budget.used) /\ u.reading = ui.reading
      BY <2>2 DEF ChatTyped, ChatUiIn, ChatUi
  <2>4. ui' = [u EXCEPT !.room["page"] = None]
      BY <1>1, <2>1, <2>2 DEF ChatTyped, ChatUiIn, ChatUi
  <2>5. [u EXCEPT !.room["page"] = None] \in ChatUi(budget.used)
        /\ [u EXCEPT !.room["page"] = None].reading = u.reading
      BY <2>3, RoomOpens DEF Chat!Holders
  <2>q. QED
      BY <2>3, <2>4, <2>5
<1>4. RoomsIn'
    BY <1>1, <1>2, ListIsIn DEF RoomsIn, ChatTyped
<1>5. ChatUiIn'
    BY <1>2, <1>3 DEF ChatTyped, ChatUiIn
<1>6. \A s \in Slots : calls[s] # None =>
          /\ calls'[s] \in Chat!CallRecord /\ calls'[s] # None
          /\ calls'[s].op = calls[s].op /\ calls'[s].from = calls[s].from /\ calls'[s].text = calls[s].text
          /\ calls'[s].conv = calls[s].conv /\ calls'[s].room = calls[s].room /\ calls'[s].st = calls[s].st
  <2>1. SUFFICES ASSUME NEW s \in Slots, calls[s] # None
                 PROVE  /\ calls'[s] \in Chat!CallRecord /\ calls'[s] # None
                        /\ calls'[s].op = calls[s].op /\ calls'[s].from = calls[s].from
                           /\ calls'[s].text = calls[s].text
                        /\ calls'[s].conv = calls[s].conv /\ calls'[s].room = calls[s].room
                           /\ calls'[s].st = calls[s].st
      OBVIOUS
  <2>2. PICK k \in Chat!CallRecord : k = calls[s]
      BY <2>1 DEF ChatTyped, ChatCallsIn
  <2>3. calls'[s] = (IF k.from = "page" THEN [k EXCEPT !.alive = FALSE] ELSE k)
      BY <1>1, <2>1, <2>2
  <2>4. /\ [k EXCEPT !.alive = FALSE] \in Chat!CallRecord /\ [k EXCEPT !.alive = FALSE].op = k.op
        /\ [k EXCEPT !.alive = FALSE].from = k.from /\ [k EXCEPT !.alive = FALSE].text = k.text
        /\ [k EXCEPT !.alive = FALSE].conv = k.conv /\ [k EXCEPT !.alive = FALSE].room = k.room
        /\ [k EXCEPT !.alive = FALSE].st = k.st
      BY DEF Chat!CallRecord
  <2>5. None \notin Chat!CallRecord
      BY DEF Chat!ChatDeskAssumption
  <2>q. QED
      BY <2>2, <2>3, <2>4, <2>5
<1>7. \A s \in Slots : calls[s] = None => calls'[s] = None
    BY <1>1
<1>8. ChatCallsIn'
  <2>1. calls' \in [Slots -> Chat!CallRecord \cup {None}]
    <3>1. calls' = [s \in Slots |-> calls'[s]]
        BY <1>1
    <3>q. QED
        BY <1>6, <1>7, <3>1
  <2>2. \A s \in Slots : calls'[s] # None => ChatCallIn(calls'[s], budget')
      BY <1>2, <1>6, <1>7 DEF ChatTyped, ChatCallsIn, ChatCallIn
  <2>3. latest' \in [Chat!Ops -> Slots \cup {None}] /\ \A o \in Chat!Ops : latest'[o] # None => latest'[o] = latest[o]
      BY <1>1 DEF ChatTyped, ChatCallsIn
  <2>4. \A o \in Chat!Ops : latest'[o] # None => calls'[latest'[o]] # None
                            /\ <<calls'[latest'[o]].op, calls'[latest'[o]].from>> = o
      BY <1>6, <2>3 DEF ChatTyped, ChatCallsIn
  <2>q. QED
      BY <2>1, <2>2, <2>3, <2>4 DEF ChatCallsIn
<1>9. \A s \in Slots : \A t : Makes(s, t)' <=> Makes(s, t)
    BY <1>6, <1>7 DEF Makes
<1>10. ConvIn'
    BY <1>1, <1>2, SameRooms DEF ChatTyped
<1>11. ConvsMove(<<>>) /\ \A t : Chat!Kept(t) => Chat!Kept(t)'
    BY <1>1 DEF ConvsMove, Chat!Kept, Chat!Asked, Chat!Exists
<1>12. told' \in BOOLEAN /\ dropped' \subseteq Chat!Texts
    BY <1>1 DEF ChatTyped, ChatHistoryIn
<1>q. QED
    BY <1>1, <1>2, <1>3, <1>4, <1>5, <1>8, <1>9, <1>10, <1>11, <1>12, CallMoves

LEMMA AnswerSteps ==
    ASSUME Chat!ChatDeskAssumption, ChatInv, NEW s \in Slots, Chat!NotCreated(s) \/ Chat!Deleted(s)
    PROVE  ChatInv'
<1> USE DEF ChatInv
<1>1. PICK k \in Chat!CallRecord : k = calls[s] /\ calls[s] # None /\ ChatCallIn(k, budget)
    BY DEF Chat!NotCreated, Chat!Deleted, ChatTyped, ChatCallsIn
<1>2. Chat!Over(s) /\ UNCHANGED <<conv, task, stream, degraded, budget, heard, twice, crossed, shown, crashed>>
    BY DEF Chat!NotCreated, Chat!Deleted, Chat!server, Chat!store
<1>3. /\ ChatCallsIn' /\ calls'[s] = None /\ \A r \in Slots \ {s} : calls'[r] = calls[r]
      /\ \A u, r : r \in Slots => (Makes(r, u)' <=> r # s /\ Makes(r, u))
    BY <1>2, OverMoves DEF ChatTyped
<1>4. ConvIn' /\ budget \in ChatBudget
    BY <1>2, SameRooms DEF ChatTyped
<1>5. ConvsMove(<<>>) /\ \A t : Chat!Kept(t) => Chat!Kept(t)'
    BY <1>2 DEF ConvsMove, Chat!Kept, Chat!Asked, Chat!Exists
<1>6. CASE Chat!NotCreated(s)
  <2>1. k.op = "create" /\ k.text \in Chat!Texts
      BY <1>1, <1>6 DEF Chat!NotCreated, ChatCallIn
  <2>2. dropped' = dropped \cup {k.text} /\ UNCHANGED <<list, ui, told>>
      BY <1>1, <1>6 DEF Chat!NotCreated, Chat!cached
  <2>3. dropped' \subseteq Chat!Texts /\ dropped \subseteq dropped' /\ told' \in BOOLEAN
      BY <2>1, <2>2 DEF ChatTyped, ChatHistoryIn
  <2>4. RoomsIn' /\ ChatUiIn'
      BY <1>2, <2>2, SameRooms DEF ChatTyped
  <2>5. \A r \in Slots, t \in Chat!Texts : Makes(r, t) => Makes(r, t)' \/ t \in dropped'
      BY <1>1, <1>3, <2>2 DEF Makes
  <2>q. QED
      BY <1>2, <1>3, <1>4, <1>5, <2>2, <2>3, <2>4, <2>5, CallMoves
<1>7. CASE Chat!Deleted(s)
  <2>1. k.op = "delete" /\ k.text = None
      BY <1>1, <1>7 DEF Chat!Deleted, ChatCallIn
  <2>2. PICK x \in {ui.room["page"], None} :
            x = (IF k.st = "ok" /\ k.room = k.conv THEN None ELSE ui.room["page"])
      OBVIOUS
  <2>3. /\ ui' = IF k.alive THEN [ui EXCEPT !.erase = None, !.room["page"] = x] ELSE ui
        /\ dropped' = dropped
        /\ list' = list \/ \E w : list' = Chat!Invalidated(list, w)
        /\ told' = told \/ told' \in BOOLEAN
      BY <1>1, <1>7, <2>2 DEF Chat!Deleted, Chat!cached
  <2>4. RoomsIn'
      BY <1>2, <2>3, ListIsIn DEF ChatTyped, RoomsIn
  <2>5. ui' \in ChatUi(budget.used) /\ ui'.reading = ui.reading
    <3>1. ui \in ChatUi(budget.used) /\ x \in budget.used \cup {None}
        BY <2>2 DEF ChatTyped, ChatUiIn, ChatUi, Chat!Holders
    <3>2. PICK u : u = [ui EXCEPT !.erase = None]
        OBVIOUS
    <3>3. u \in ChatUi(budget.used) /\ u.reading = ui.reading
        BY <3>1, <3>2 DEF ChatUi
    <3>4. [ui EXCEPT !.erase = None, !.room["page"] = x] = [u EXCEPT !.room["page"] = x]
        BY <3>2
    <3>5. [u EXCEPT !.room["page"] = x] \in ChatUi(budget.used) /\ [u EXCEPT !.room["page"] = x].reading = u.reading
        BY <3>1, <3>3, RoomOpens DEF Chat!Holders
    <3>q. QED
        BY <2>3, <3>1, <3>3, <3>4, <3>5
  <2>6. ChatUiIn'
      BY <1>2, <2>5 DEF ChatTyped, ChatUiIn
  <2>7. told' \in BOOLEAN /\ dropped' \subseteq Chat!Texts /\ dropped \subseteq dropped'
      BY <2>3 DEF ChatTyped, ChatHistoryIn
  <2>8. \A r \in Slots, t \in Chat!Texts : Makes(r, t) => Makes(r, t)'
    <3>1. \A t \in Chat!Texts : t # None
        BY DEF Chat!ChatDeskAssumption
    <3>q. QED
        BY <1>1, <1>3, <2>1, <3>1 DEF Makes
  <2>q. QED
      BY <1>2, <1>3, <1>4, <1>5, <2>4, <2>5, <2>6, <2>7, <2>8, CallMoves
<1>q. QED
    BY <1>6, <1>7

LEMMA HandleCalls ==
    ASSUME Chat!ChatDeskAssumption, ChatInv, NEW s \in Slots, Chat!Create(s) \/ Chat!Delete(s)
    PROVE  ChatInv'
<1> USE DEF ChatInv
<1>1. PICK k \in Chat!CallRecord : k = calls[s] /\ calls[s] # None /\ ChatCallIn(k, budget)
    BY DEF Chat!Create, Chat!Delete, Chat!Sent, ChatTyped, ChatCallsIn
<1>2. /\ UNCHANGED <<task, list, stream, degraded, latest, ui, told, heard, twice, crossed, shown, crashed>>
      /\ budget \in ChatBudget
    BY DEF Chat!Create, Chat!Delete, Chat!cached, Chat!store, Chat!history, ChatTyped
<1>3. told' \in BOOLEAN /\ dropped \subseteq Chat!Texts
    BY <1>2 DEF ChatTyped, ChatHistoryIn
<1>4. <<>> \in Seq(Chat!Message) /\ None \notin Seq(Chat!Message)
    BY DEF Chat!ChatDeskAssumption
<1>5. conv \in [Convs -> Seq(Chat!Message) \cup {None}] /\ \A c \in Convs : conv[c] # None => c \in budget.used
    BY DEF ChatTyped, ConvIn, Chat!Exists
<1>6. CASE Chat!Create(s)
  <2>1. PICK c \in Convs \ budget.used :
            /\ conv' = [conv EXCEPT ![c] = <<>>] /\ budget' = [budget EXCEPT !.used = @ \cup {c}]
            /\ calls' = [calls EXCEPT ![s].st = "ok", ![s].conv = c]
      BY <1>6 DEF Chat!Create
  <2>2. k.op = "create" /\ dropped' = dropped
      BY <1>1, <1>6 DEF Chat!Create, Chat!Sent, Chat!history
  <2> DEFINE d == [[k EXCEPT !.st = "ok"] EXCEPT !.conv = c]
  <2>3. /\ d \in Chat!CallRecord /\ d.st = "ok" /\ d.conv = c /\ d.op = k.op /\ d.from = k.from /\ d.text = k.text
        /\ d.room = k.room
      BY DEF Chat!CallRecord
  <2>4. calls' = [calls EXCEPT ![s] = d]
      BY <1>1, <2>1
  <2> HIDE DEF d
  <2>5. /\ budget' \in ChatBudget /\ budget'.used = budget.used \cup {c} /\ budget'.typed = budget.typed
        /\ budget'.texts = budget.texts
      BY <1>2, <2>1 DEF ChatBudget
  <2>6. ChatCallIn(d, budget')
      BY <1>1, <2>2, <2>3, <2>5 DEF ChatCallIn
  <2>7. ChatCallsIn' /\ \A u, r : r \in Slots => (Makes(r, u)' <=> Makes(r, u))
    <3>1. budget.used \subseteq budget'.used
        BY <2>5
    <3>q. QED
        BY <1>1, <1>2, <2>3, <2>4, <2>5, <2>6, <3>1, CallFurther DEF ChatTyped
  <2>8. /\ conv' \in [Convs -> Seq(Chat!Message) \cup {None}] /\ conv'[c] = <<>>
        /\ \A x \in Convs \ {c} : conv'[x] = conv[x]
      BY <1>4, <1>5, <2>1
  <2>9. ConvIn' /\ ConvsMove(<<>>)
      BY <1>5, <2>5, <2>8 DEF ConvIn, ConvsMove, Chat!Exists
  <2>10. \A t \in Chat!Texts : Chat!Kept(t) => Chat!Kept(t)'
    <3>1. conv[c] = None
        BY <1>5
    <3>q. QED
        BY <2>8, <3>1 DEF Chat!Kept, Chat!Asked, Chat!Exists, Chat!Question
  <2>11. RoomsIn' /\ ChatUiIn'
    <3>1. RoomsIn'
        BY <1>2, <2>5 DEF ChatTyped, RoomsIn, Chat!Entry
    <3>2. ui' \in ChatUi(budget'.used)
      <4>1. ReadRecord(budget.used) \subseteq ReadRecord(budget'.used)
          BY <2>5 DEF ReadRecord
      <4>2. ui \in ChatUi(budget.used) /\ ui.reading \in Seq(ReadRecord(budget'.used))
        <5>1. ui \in ChatUi(budget.used) /\ ui.reading \in Seq(ReadRecord(budget.used))
            BY DEF ChatTyped, ChatUiIn, ChatUi
        <5>q. QED
            BY <4>1, <5>1
      <4>q. QED
          BY <1>2, <2>5, <4>2 DEF ChatUi
    <3>q. QED
        BY <1>2, <2>5, <3>1, <3>2 DEF ChatTyped, ChatUiIn
  <2>12. budget.used \subseteq budget'.used /\ ui'.reading = ui.reading /\ dropped' \subseteq Chat!Texts
         /\ dropped \subseteq dropped'
      BY <1>2, <1>3, <2>2, <2>5
  <2>q. QED
      BY <1>2, <1>3, <2>5, <2>7, <2>9, <2>10, <2>11, <2>12, CallMoves
<1>7. CASE Chat!Delete(s)
  <2>1. PICK c \in Convs : c = k.conv
      BY <1>1, <1>2, <1>7 DEF Chat!Delete, Chat!Sent, ChatCallIn, ChatBudget
  <2>2. PICK st \in {"ok", "failed"} : st = (IF Chat!Exists(c) THEN "ok" ELSE "failed")
      OBVIOUS
  <2>3. /\ k.op = "delete" /\ conv' = [conv EXCEPT ![c] = None] /\ calls' = [calls EXCEPT ![s].st = st]
        /\ dropped' = dropped \cup {t \in Chat!Texts : Chat!Asked(c, t)} /\ budget' = budget
      BY <1>1, <1>7, <2>1, <2>2 DEF Chat!Delete, Chat!Sent
  <2> DEFINE d == [k EXCEPT !.st = st]
  <2>4. /\ d \in Chat!CallRecord /\ d.st = st /\ d.conv = k.conv /\ d.op = k.op /\ d.from = k.from /\ d.text = k.text
        /\ d.room = k.room
      BY DEF Chat!CallRecord
  <2>5. calls' = [calls EXCEPT ![s] = d]
      BY <1>1, <2>3
  <2> HIDE DEF d
  <2>6. ChatCallIn(d, budget')
      BY <1>1, <2>3, <2>4 DEF ChatCallIn
  <2>7. ChatCallsIn' /\ \A u, r : r \in Slots => (Makes(r, u)' <=> Makes(r, u))
      BY <1>1, <1>2, <2>3, <2>4, <2>5, <2>6, CallFurther DEF ChatTyped
  <2>8. /\ conv' \in [Convs -> Seq(Chat!Message) \cup {None}] /\ conv'[c] = None
        /\ \A x \in Convs \ {c} : conv'[x] = conv[x]
      BY <1>5, <2>3
  <2>9. ConvIn' /\ ConvsMove(<<>>)
      BY <1>5, <2>3, <2>8 DEF ConvIn, ConvsMove, Chat!Exists
  <2>10. \A t \in Chat!Texts : Chat!Kept(t) => Chat!Kept(t)' \/ t \in dropped'
    <3>1. SUFFICES ASSUME NEW t \in Chat!Texts, NEW x \in Convs, Chat!Asked(x, t)
          PROVE Chat!Kept(t)' \/ t \in dropped'
        BY DEF Chat!Kept
    <3>2. CASE x = c
        BY <2>3, <3>1, <3>2
    <3>3. CASE x # c
        BY <2>8, <3>1, <3>3 DEF Chat!Kept, Chat!Asked, Chat!Exists
    <3>q. QED
        BY <3>2, <3>3
  <2>11. RoomsIn' /\ ChatUiIn'
      BY <1>2, <2>3, SameRooms DEF ChatTyped
  <2>12. dropped \subseteq dropped' /\ dropped' \subseteq Chat!Texts
      BY <1>3, <2>3
  <2>q. QED
      BY <1>2, <1>3, <2>3, <2>7, <2>9, <2>10, <2>11, <2>12, CallMoves
<1>q. QED
    BY <1>6, <1>7

\* The message of a call that is through leaves with it.
LEMMA CreatedSteps ==
    ASSUME Chat!ChatDeskAssumption, ChatInv, NEW s \in Slots, Chat!Created(s)
    PROVE  ChatInv'
<1> USE DEF ChatInv
<1>1. PICK k \in Chat!CallRecord : k = calls[s] /\ calls[s] # None /\ ChatCallIn(k, budget)
    BY DEF Chat!Created, ChatTyped, ChatCallsIn
<1>2. /\ k.op = "create" /\ k.st = "ok" /\ Chat!Over(s) /\ Chat!Send(k.conv, k.text)
      /\ ui' = (IF k.alive THEN [ui EXCEPT !.room[k.from] = k.conv] ELSE ui)
      /\ \E w : list' = Chat!Invalidated(list, w)
      /\ told' = told \/ told' \in BOOLEAN
      /\ UNCHANGED <<conv, budget, heard, twice, crossed, shown, crashed>>
    BY <1>1 DEF Chat!Created, Chat!Continues
<1>3. PICK t \in Chat!Texts : t = k.text /\ t <= budget.typed
    BY <1>1, <1>2 DEF ChatCallIn
<1>4. PICK c \in budget.used : c = k.conv
    BY <1>1, <1>2 DEF ChatCallIn
<1>5. budget \in ChatBudget /\ budget.typed \in Nat /\ budget.typed <= budget'.typed
    BY <1>2 DEF ChatTyped, ChatBudget
<1>6. /\ ChatCallsIn' /\ calls'[s] = None /\ \A r \in Slots \ {s} : calls'[r] = calls[r]
      /\ \A u, r : r \in Slots => (Makes(r, u)' <=> r # s /\ Makes(r, u))
    BY <1>2, OverMoves DEF ChatTyped
<1>7. ConvIn'
    BY <1>2, SameRooms DEF ChatTyped
<1>8. RoomsIn'
    BY <1>2, ListIsIn DEF ChatTyped, RoomsIn
<1>9. ui' \in ChatUi(budget.used) /\ ui'.reading = ui.reading
  <2>1. ui \in ChatUi(budget.used) /\ k.from \in Chat!Holders
      BY DEF ChatTyped, ChatUiIn, Chat!CallRecord
  <2>q. QED
      BY <1>2, <1>4, <2>1, RoomOpens
<1>10. ChatUiIn'
    BY <1>2, <1>9 DEF ChatTyped, ChatUiIn
<1>11. told' \in BOOLEAN
    BY <1>2 DEF ChatTyped, ChatHistoryIn
<1>12. Makes(s, t) /\ Waits(t) /\ \A u : InBox(u)' <=> InBox(u)
    BY <1>1, <1>3, <1>9 DEF Makes, Waits, InBox
<1>13. t \in twice \/ (Once(t) /\ Fresh(t))
    BY <1>12 DEF WaitsOnce, Once
<1>14. t \in twice \/ ~Waits(t)'
    BY <1>6, <1>12, <1>13 DEF Once, Waits
<1>15. \A u : u # t => (Waits(u)' <=> Waits(u))
  <2>1. \A u : u # t => ~Makes(s, u)
      BY <1>1, <1>3 DEF Makes
  <2>q. QED
      BY <1>6, <1>12, <2>1 DEF Waits
<1>16. Chat!AnswersFollow'
    BY <1>2 DEF Chat!AnswersFollow, Chat!Existing, Chat!Exists
<1>17. /\ TasksIn' /\ StreamsIn' /\ ChatHistoryIn' /\ dropped \subseteq dropped'
       /\ Heeded' /\ Orderly' /\ AskedLast' /\ Seen' /\ StoredWhole' /\ PendsOn
       /\ \A u : u # t /\ Fresh(u) => Fresh(u)'
       /\ t \in dropped' \/ \E r \in Slots : task'[r] # None /\ task'[r].text = t /\ Pends(r)'
  <2>1. CASE Chat!Streaming(c)
    <3>1. UNCHANGED <<task, stream, degraded>> /\ dropped' = dropped \cup {t}
        BY <1>2, <1>3, <1>4, <2>1 DEF Chat!Send, Chat!store
    <3>2. TasksIn' /\ StreamsIn'
        BY <1>2, <3>1, SameRooms DEF ChatTyped
    <3>3. ChatHistoryIn'
        BY <1>2, <1>11, <3>1 DEF ChatTyped, ChatHistoryIn
    <3>4. Heeded' /\ Orderly' /\ AskedLast' /\ Seen' /\ StoredWhole'
        BY <1>2, <3>1 DEF Heeded, Orderly, AskedLast, Seen, StoredWhole, Beside, Chat!Running, Hears, Chat!Exists
    <3>5. PendsOn
        BY <3>1 DEF PendsOn, Pends, Hears
    <3>6. \A u : Fresh(u) => Fresh(u)'
        BY <1>2, <3>1 DEF Fresh
    <3>q. QED
        BY <3>1, <3>2, <3>3, <3>4, <3>5, <3>6
  <2>2. CASE ~Chat!Streaming(c)
    <3>1. /\ TasksIn' /\ StreamsIn' /\ degraded' = FALSE /\ dropped' = dropped
          /\ Heeded' /\ Orderly' /\ AskedLast' /\ Seen' /\ StoredWhole' /\ PendsOn
          /\ \A u : u # t /\ Fresh(u) => Fresh(u)'
          /\ \E r \in Slots : task'[r] # None /\ task'[r].text = t /\ Pends(r)'
      <4>1. Chat!Send(c, t) /\ (t \in twice \/ Fresh(t)) /\ t <= budget'.typed /\ budget' \in ChatBudget
            /\ budget'.used = budget.used
          BY <1>2, <1>3, <1>4, <1>5, <1>13
      <4>q. QED
          BY <1>2, <1>5, <2>2, <4>1, SendMoves
    <3>2. ChatHistoryIn'
        BY <1>2, <1>11, <3>1 DEF ChatTyped, ChatHistoryIn
    <3>q. QED
        BY <3>1, <3>2
  <2>q. QED
      BY <2>1, <2>2
<1>18. ChatTyped'
    BY <1>2, <1>6, <1>7, <1>8, <1>10, <1>17 DEF ChatTyped
<1>19. WaitsOnce'
  <2>1. SUFFICES ASSUME NEW u \in Chat!Texts
                 PROVE  (u \notin twice => Once(u)') /\ (u > budget.typed => ~Waits(u)' /\ Fresh(u)')
      BY <1>2 DEF WaitsOnce
  <2>2. CASE u = t
    <3>1. ~(t > budget.typed)
        BY <1>3, <1>5 DEF Chat!Texts
    <3>2. ASSUME t \notin twice PROVE Once(t)'
      <4>1. ~InBox(t)' /\ \A r \in Slots : ~Makes(r, t)'
          BY <1>14, <3>2 DEF Waits
      <4>2. \A i \in 1 .. Len(ui'.reading) : ui'.reading[i].text # t
          BY <4>1 DEF InBox
      <4>q. QED
          BY <1>14, <3>2, <4>1, <4>2 DEF Once
    <3>q. QED
        BY <2>2, <3>1, <3>2
  <2>3. CASE u # t
    <3>1. Once(u) => Once(u)'
        BY <1>6, <1>9, <1>12, <1>15, <1>17, <2>3 DEF Once
    <3>q. QED
        BY <1>15, <1>17, <2>3, <3>1 DEF WaitsOnce
  <2>q. QED
      BY <2>2, <2>3
<1>20. AllAccounted'
  <2>1. SUFFICES ASSUME NEW u \in 1 .. budget.typed PROVE Accounted(u)'
      BY <1>2 DEF AllAccounted
  <2>2. CASE u = t
      BY <1>17, <2>2 DEF Accounted
  <2>3. CASE u # t
    <3>1. Accounted(u)
        BY <2>1 DEF AllAccounted
    <3>q. QED
        BY <1>2, <1>15, <1>17, <2>3, <3>1, StillAccounted
  <2>q. QED
      BY <2>2, <2>3
<1>q. QED
    BY <1>16, <1>17, <1>18, <1>19, <1>20

-----------------------------------------------------------------------------
(* Every step of the chat *)

LEMMA ChatInit ==
    ASSUME Chat!ChatDeskAssumption, Chat!Init
    PROVE  ChatInv
<1>1. PICK b \in ChatBounds :
          /\ budget = [texts |-> b.texts, typed |-> 0, opens |-> b.opens, files |-> b.files, faults |-> b.faults,
                       drawer |-> b.drawer, used |-> b.convs]
          /\ conv = [c \in Convs |-> IF c \in b.convs THEN <<>> ELSE None]
          /\ ui = [page |-> TRUE, ask |-> FALSE, room |-> [h \in Chat!Holders |-> IF h = "page" THEN b.room ELSE None],
                   erase |-> None, reading |-> <<>>]
    BY DEF Chat!Init
<1>2. /\ b.convs \subseteq Convs /\ b.room \in b.convs \cup {None} /\ b.texts \in 0 .. MaxTexts
      /\ b.opens \in Nat /\ b.files \in Nat /\ b.faults \in Nat /\ b.drawer \in BOOLEAN /\ MaxTexts \in Nat
    BY DEF Chat!ChatDeskAssumption
<1>3. /\ task = [s \in Slots |-> None] /\ list = Chat!Loaded(Chat!Existing)
      /\ stream = [c \in Convs |-> None] /\ degraded = FALSE
      /\ calls = [s \in Slots |-> None] /\ latest = [o \in Chat!Ops |-> None]
      /\ told = FALSE /\ heard = {} /\ dropped = {} /\ twice = {} /\ crossed = {} /\ crashed = {}
      /\ shown = [c \in Convs |-> [t \in Chat!Texts |-> 0]]
    BY DEF Chat!Init
<1>4. /\ budget.texts = b.texts /\ budget.typed = 0 /\ budget.used = b.convs /\ budget.typed <= budget.texts
      /\ budget \in ChatBudget
  <2>1. 0 \in 0 .. MaxTexts /\ 0 <= b.texts
      BY <1>2
  <2>q. QED
      BY <1>1, <1>2, <2>1 DEF ChatBudget
<1>5. ui.reading = <<>> /\ Len(ui.reading) = 0 /\ ui \in ChatUi(b.convs)
  <2>1. PICK f : f = [h \in Chat!Holders |-> IF h = "page" THEN b.room ELSE None]
      OBVIOUS
  <2>2. f \in [Chat!Holders -> b.convs \cup {None}]
      BY <1>2, <2>1
  <2>3. <<>> \in Seq(ReadRecord(b.convs))
      OBVIOUS
  <2>4. ui = [page |-> TRUE, ask |-> FALSE, room |-> f, erase |-> None, reading |-> <<>>]
      BY <1>1, <2>1
  <2>q. QED
      BY <2>2, <2>3, <2>4 DEF ChatUi
<1>6. /\ conv \in [Convs -> Seq(Chat!Message) \cup {None}]
      /\ \A c \in Convs : conv[c] # None => c \in b.convs /\ conv[c] = <<>>
    BY <1>1
<1>7. ChatTyped
  <2>1. ConvIn
      BY <1>4, <1>6 DEF ConvIn, Chat!Exists
  <2>2. RoomsIn
    <3>1. Chat!Existing \in SUBSET b.convs
        BY <1>6 DEF Chat!Existing, Chat!Exists
    <3>q. QED
        BY <1>3, <1>4, <3>1 DEF RoomsIn, Chat!Entry, Chat!Loaded, Chat!NoEntry
  <2>3. TasksIn /\ StreamsIn
      BY <1>3 DEF TasksIn, StreamsIn
  <2>4. ChatCallsIn
      BY <1>3 DEF ChatCallsIn
  <2>5. ChatUiIn
      BY <1>4, <1>5 DEF ChatUiIn
  <2>6. ChatHistoryIn
      BY <1>3 DEF ChatHistoryIn
  <2>q. QED
      BY <1>4, <2>1, <2>2, <2>3, <2>4, <2>5, <2>6 DEF ChatTyped
<1>8. Heeded /\ Orderly /\ AskedLast /\ Seen /\ StoredWhole
    BY <1>3 DEF Heeded, Orderly, AskedLast, Seen, StoredWhole, Beside, Chat!Running
<1>9. Chat!AnswersFollow
  <2>1. \A c \in Chat!Existing : Len(conv[c]) = 0
      BY <1>6 DEF Chat!Existing, Chat!Exists
  <2>q. QED
      BY <2>1 DEF Chat!AnswersFollow
<1>10. \A t \in Chat!Texts : ~InBox(t) /\ ~Waits(t) /\ Fresh(t) /\ \A s \in Slots : ~Makes(s, t)
    BY <1>3, <1>5 DEF Waits, Fresh, InBox, Makes
<1>11. WaitsOnce
    BY <1>5, <1>10 DEF WaitsOnce, Once
<1>12. AllAccounted
    BY <1>4 DEF AllAccounted
<1>q. QED
    BY <1>7, <1>8, <1>9, <1>11, <1>12 DEF ChatInv

LEMMA ChatNext ==
    ASSUME Chat!ChatDeskAssumption, ChatInv, [Chat!Next]_(Chat!vars)
    PROVE  ChatInv'
<1>1. CASE Chat!Query \/ Chat!LoadFails
    BY <1>1, ListenSteps DEF Chat!Query
<1>2. CASE Chat!FileRead
    BY <1>2, FileReadSteps
<1>3. CASE Chat!Use
  <2>1. CASE \E h \in Chat!Holders : Chat!Submit(h) \/ Chat!SubmitFile(h) \/ Chat!Stop(h)
      BY <2>1, SubmitSteps, SubmitFileSteps, HangSteps
  <2>2. CASE Chat!Acknowledge
      BY <2>2, ListenSteps
  <2>3. CASE Chat!Go
      BY <2>3, LeaveSteps
  <2>4. CASE Chat!HandleDelete
      BY <2>4, EraseSteps
  <2>5. CASE \/ Chat!OpenDrawer \/ Chat!CloseDrawer \/ Chat!CancelDelete
             \/ (\E c \in Convs \cup {None} : Chat!Choose(c)) \/ \E c \in Convs : Chat!AskDelete(c)
      BY <2>5, LookSteps
  <2>q. QED
      BY <1>3, <2>1, <2>2, <2>3, <2>4, <2>5 DEF Chat!Use
<1>4. ASSUME NEW s \in Slots, Chat!Relay(s) \/ Chat!Crash(s) \/ Chat!Handle(s) \/ Chat!LoseCall(s) \/ Chat!Deliver(s)
      PROVE  ChatInv'
  <2>1. CASE Chat!Relay(s) \/ Chat!Crash(s)
      BY <2>1, ArriveSteps, RelaySteps, SaveSteps DEF Chat!Relay
  <2>2. CASE Chat!Handle(s) \/ Chat!LoseCall(s)
      BY <2>2, HandleCalls, LoseSteps DEF Chat!Handle
  <2>3. CASE Chat!Deliver(s)
      BY <2>3, CreatedSteps, AnswerSteps DEF Chat!Deliver
  <2>q. QED
      BY <1>4, <2>1, <2>2, <2>3
<1>5. ASSUME NEW c \in Convs, Chat!Listen(c) \/ Chat!Cut(c) PROVE ChatInv'
    BY <1>5, ReceiveSteps, HangSteps DEF Chat!Listen
<1>6. CASE UNCHANGED Chat!vars
  <2>1. UNCHANGED <<conv, task, list, stream, degraded, calls, latest, ui, budget, told, heard, dropped, twice, crossed,
                    shown, crashed>>
      BY <1>6 DEF Chat!vars, Chat!server, Chat!cached, Chat!store, Chat!mutations, Chat!history
  <2>2. list \in Chat!Entry(SUBSET budget.used) /\ ui \in ChatUi(budget.used) /\ told \in BOOLEAN
        /\ degraded \in BOOLEAN
        /\ budget \in ChatBudget
      BY DEF ChatInv, ChatTyped, RoomsIn, ChatUiIn, ChatHistoryIn
  <2>q. QED
      BY <2>1, <2>2, ChatQuiet
<1>q. QED
    BY <1>1, <1>2, <1>3, <1>4, <1>5, <1>6 DEF Chat!Next

LEMMA ChatTypes == ASSUME ChatInv PROVE Chat!TypeOK
<1> USE DEF ChatInv
<1>1. \A c \in Chat!Existing : conv[c] \in Seq(Chat!Message)
    BY DEF ChatTyped, ConvIn, Chat!Existing, Chat!Exists
<1>2. list \in Chat!Entry(SUBSET Convs)
    BY DEF ChatTyped, RoomsIn, ChatBudget, Chat!Entry
<1>3. /\ told \in BOOLEAN /\ degraded \in BOOLEAN
      /\ heard \cup dropped \cup twice \cup crashed \subseteq Chat!Texts /\ crossed \subseteq Convs
    BY DEF ChatTyped, ChatHistoryIn
<1>4. \A c \in Convs : Chat!Streaming(c) => task[stream[c].task] # None /\ stream[c].draft <= MaxParts
  <2>1. SUFFICES ASSUME NEW c \in Convs, Chat!Streaming(c)
                 PROVE  task[stream[c].task] # None /\ stream[c].draft <= MaxParts
      OBVIOUS
  <2>2. stream[c] \in Chat!StreamRecord /\ task[stream[c].task] # None
      BY <2>1, StreamIs
  <2>q. QED
      BY <2>2 DEF Chat!StreamRecord
<1>5. \A o \in Chat!Ops : latest[o] # None => calls[latest[o]] # None
                          /\ <<calls[latest[o]].op, calls[latest[o]].from>> = o
    BY DEF ChatTyped, ChatCallsIn
<1>q. QED
    BY <1>1, <1>2, <1>3, <1>4, <1>5 DEF Chat!TypeOK

LEMMA ChatKeeps ==
    ASSUME Chat!ChatDeskAssumption, ChatInv
    PROVE  Chat!NoMessageVanishes /\ Chat!NothingShownIsLost /\ Chat!AnswersFollow
<1> USE DEF ChatInv
<1>1. Chat!NoMessageVanishes
  <2>1. SUFFICES ASSUME NEW t \in 1 .. budget.typed
                 PROVE  \/ Chat!Kept(t) \/ t \in heard \cup dropped
                        \/ \E s \in Slots : \/ task[s] # None /\ task[s].text = t
                                            \/ calls[s] # None /\ calls[s].text = t
                        \/ \E i \in 1 .. Len(ui.reading) : ui.reading[i].text = t
      BY DEF Chat!NoMessageVanishes
  <2>q. QED
      BY <2>1 DEF AllAccounted, Accounted, Waits, InBox, Makes
<1>2. Chat!NothingShownIsLost
  <2>1. SUFFICES ASSUME NEW s \in Slots, task[s] # None, task[s].st = "over", Chat!Exists(task[s].conv),
                        shown[task[s].conv][task[s].text] > 0, task[s].text \notin crashed \cup twice
                 PROVE  \E i \in 1 .. Len(conv[task[s].conv]) :
                            LET m == conv[task[s].conv][i] IN
                            m.role = "assistant" /\ m.text = task[s].text /\ m.parts >= shown[task[s].conv][m.text]
      BY DEF Chat!NothingShownIsLost
  <2>2. PICK k \in Chat!TaskRecord : k = task[s]
      BY <2>1 DEF ChatTyped, TasksIn
  <2>3. PICK n \in Nat : n = shown[k.conv][k.text] /\ n > 0
      BY <2>1, <2>2 DEF ChatTyped, ChatHistoryIn, Chat!TaskRecord
  <2>4. k.parts \in Nat /\ n <= k.parts
      BY <2>1, <2>2, <2>3 DEF Seen, Chat!TaskRecord, Chat!ChatDeskAssumption
  <2>5. Has(conv[k.conv], Chat!Answer(k.text, k.parts))
      BY <2>1, <2>2, <2>3, <2>4 DEF StoredWhole
  <2>6. PICK i \in 1 .. Len(conv[k.conv]) : conv[k.conv][i] = Chat!Answer(k.text, k.parts)
      BY <2>5 DEF Has
  <2>7. /\ conv[k.conv][i].role = "assistant" /\ conv[k.conv][i].text = k.text
        /\ conv[k.conv][i].parts >= shown[k.conv][k.text]
      BY <2>3, <2>4, <2>6 DEF Chat!Answer
  <2>q. QED
      BY <2>2, <2>7
<1>q. QED
    BY <1>1, <1>2

-----------------------------------------------------------------------------
(* The scenes.  A behaviour keeps to one, whose module it follows. *)

DesksInv ==
    /\ scene = "form" => FormInv
    /\ scene = "playbook" => PlaybookInv /\ InstructionInv
    /\ scene = "project" => ProjectInv
    /\ scene = "chat" => ChatInv

LEMMA SceneSteps ==
    ASSUME [Next]_vars
    PROVE  /\ scene' = scene
           /\ scene = "form" => [Form!Next]_(Form!vars)
           /\ scene = "playbook" => [Playbook!Next]_(Playbook!vars)
           /\ scene = "project" => [Project!Next]_(Project!vars)
           /\ scene = "chat" => [Chat!Next]_(Chat!vars)
<1>1. CASE UNCHANGED vars
    BY <1>1 DEF vars, formVars, playbookVars, projectVars, chatVars, Form!vars, Playbook!vars, Project!vars, Chat!vars
<1>2. CASE Next
    BY <1>2 DEF Next
<1>q. QED
    BY <1>1, <1>2

LEMMA DesksInit == Init => DesksInv
<1> SUFFICES ASSUME Init PROVE DesksInv
    OBVIOUS
<1>1. ASSUME scene = "form" PROVE FormInv
    BY <1>1, FormInit, ScenesAssumption DEF Init
<1>2. ASSUME scene = "playbook" PROVE PlaybookInv /\ InstructionInv
    BY <1>2, PlaybookInit, InstructionInit, ScenesAssumption DEF Init
<1>3. ASSUME scene = "project" PROVE ProjectInv
    BY <1>3, ProjectInit, ScenesAssumption DEF Init
<1>4. ASSUME scene = "chat" PROVE ChatInv
    BY <1>4, ChatInit, ScenesAssumption DEF Init
<1>q. QED
    BY <1>1, <1>2, <1>3, <1>4 DEF DesksInv

LEMMA DesksNext == ASSUME DesksInv, [Next]_vars PROVE DesksInv'
<1>1. ASSUME scene = "form" PROVE FormInv'
    BY <1>1, SceneSteps, FormNext, ScenesAssumption DEF DesksInv
<1>2. ASSUME scene = "playbook" PROVE PlaybookInv' /\ InstructionInv'
    BY <1>2, SceneSteps, PlaybookNext, InstructionNext, ScenesAssumption DEF DesksInv
<1>3. ASSUME scene = "project" PROVE ProjectInv'
    BY <1>3, SceneSteps, ProjectNext, ScenesAssumption DEF DesksInv
<1>4. ASSUME scene = "chat" PROVE ChatInv'
    BY <1>4, SceneSteps, ChatNext, ScenesAssumption DEF DesksInv
<1>q. QED
    BY <1>1, <1>2, <1>3, <1>4, SceneSteps DEF DesksInv

LEMMA DesksInvariance == Spec => []DesksInv
    BY DesksInit, DesksNext, PTL DEF Spec

\* However clients write while the owner edits, republishes or deletes: what is
\* stored answers a version that was published, who has seen one version is not
\* refused by it, and each answer counts once until its question is redefined.
THEOREM AnswersStand == Spec => []AnswersHold
<1>1. ASSUME DesksInv PROVE AnswersHold
    BY <1>1, AnswersCount, ScenesAssumption DEF DesksInv, FormInv, AnswersHold
<1>q. QED
    BY <1>1, DesksInvariance, PTL

\* A page stores one submission but for those whose outcome it missed; an
\* instruction revises a playbook once, unless Enter or a lost outcome had it sent
\* again.
THEOREM OneIsEnough == Spec => []DoneOnce
<1>1. ASSUME DesksInv PROVE DoneOnce
    BY <1>1, StoredOnce, OneOfEach, ScenesAssumption DEF DesksInv, DoneOnce
<1>q. QED
    BY <1>1, DesksInvariance, PTL

\* In each scene with a server, every entry of the tables, of the caches and of the
\* calls under way is what its record says, and what the pages wait for is there.
THEOREM ScenesAreTyped == Spec => []TypeOK
<1>1. ASSUME DesksInv PROVE TypeOK
    BY <1>1, ProjectTypes, ChatTypes DEF DesksInv, FormInv, PlaybookInv, TypeOK
<1>q. QED
    BY <1>1, DesksInvariance, PTL

\* What was put in is kept, however many playbooks, projects, rooms and calls there
\* are: an instruction, until the server has taken it; the change, the notes and
\* the deletion of a project, unless a write came after that did not know of them;
\* a message to the agent, on its way or in its room, and what was seen of its
\* answer, unless its user gave it up, in one of the ways `dropped' names.
THEOREM InputStays == Spec => []InputIsKept
<1>1. ASSUME DesksInv PROVE InputIsKept
    BY <1>1, InstructionStands, ProjectKeeps, ChatKeeps, ScenesAssumption DEF DesksInv, InputIsKept
<1>q. QED
    BY <1>1, DesksInvariance, PTL
================================================================================
