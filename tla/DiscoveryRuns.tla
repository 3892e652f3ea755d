--------------------------- MODULE DiscoveryRuns ---------------------------
(***************************************************************************)
(* Discovery of tenders: triggers, runs and the deduplication of what they *)
(* find (internal/service/discovery_service.go over                        *)
(* internal/repository/discovery_run_repo.go, internal/ai/scheduler.go).   *)
(*                                                                         *)
(* Users, the ticker and the Hermes cron job call RunAsync.  The call      *)
(* looks for an active run, then for a run with its correlation key, then  *)
(* inserts a new run and starts a goroutine for it, whose context expires  *)
(* after ten minutes.  The goroutine collects candidates and inserts a     *)
(* tender for each that no tender is known for.                            *)
(***************************************************************************)
EXTENDS Naturals, FiniteSets

CONSTANTS
    Calls,       \* calls of RunAsync; the run that a call starts has its name
    Candidates,  \* what the crawler may find
    DedupKeys,   \* the values of ComputeDedupKey other than ""
    KeyOf,       \* the dedup key of each candidate
    None,        \* SQL NULL, a missing row, the dedup key ""
    Empty,       \* the correlation key "" (which is not NULL)
    MaxPeriod,   \* bound: periods of the schedule
    MaxFaults    \* bound: expired runs, database errors and restarts

ASSUME KeyOfType == KeyOf \in [Candidates -> DedupKeys \cup {None}]
ASSUME NoneDistinct == None \notin Candidates \cup DedupKeys /\ Empty # None
ASSUME BoundsNat == MaxPeriod \in Nat /\ MaxFaults \in Nat

VARIABLES
    pc,       \* how far each call, and then its goroutine, has come
    key,      \* the correlation key of each call
    run,      \* the discovery_run table
    todo,     \* candidates the goroutine has not looked at yet
    at,       \* the candidate it is about to insert
    tally,    \* what it has counted so far
    tenders,  \* the tenders of origin discovery
    period,   \* the current period of the schedule
    faults    \* faults so far

vars == <<pc, key, run, todo, at, tally, tenders, period, faults>>

-----------------------------------------------------------------------------

Periods == 0..MaxPeriod
Key == Periods \cup {None, Empty}
ASSUME KeysDistinct == None \notin Periods /\ Empty \notin Periods

Status == {"pending", "running", "success", "failed"}
Row == [status: Status, key: Key, found: SUBSET Candidates]
ASSUME NoneNoRow == None \notin Row

Tally == [saved: SUBSET Candidates, known: BOOLEAN, errs: BOOLEAN]
Tender == [by: Calls, cand: Candidates]

Calling == {"free", "new"}
Pipeline == {"ready", "collect", "work", "create", "score", "finish"}

Exists(g) == run[g] # None
IsActive(g) == Exists(g) /\ run[g].status \in {"pending", "running"}
Active == {g \in Calls : IsActive(g)}
Produced(g) == {t.cand : t \in {u \in tenders : u.by = g}}

\* A tender with the key of c exists; without a key nothing is recognised.
IsKnown(c) == KeyOf[c] # None /\ \E t \in tenders : KeyOf[t.cand] = KeyOf[c]
\* The unique index on correlation_key refuses k; NULLs are never equal.
IsTaken(k) == k # None /\ \E g \in Calls : Exists(g) /\ run[g].key = k
HasKey(k) == k \notin {None, Empty}

Go(g, l) == pc' = [pc EXCEPT ![g] = l]
Fault == faults < MaxFaults /\ faults' = faults + 1

-----------------------------------------------------------------------------
(* RunAsync and StartRun *)

\* A user's request brings no key or an empty one, a tick the key of the
\* current period; an active run is returned as it is.  If the query for it
\* fails, the call goes on as if there were none.
Triggers(g, k) ==
    /\ pc[g] = "idle" /\ k \in {None, Empty, period}
    /\ key' = [key EXCEPT ![g] = k]
    /\ \/ Go(g, IF Active = {} THEN "free" ELSE "done") /\ UNCHANGED faults
       \/ Go(g, "free") /\ Fault
    /\ UNCHANGED <<run, todo, at, tally, tenders, period>>

\* GetByCorrelationKey, for a key that counts as one.
LooksUpKey(g) ==
    /\ pc[g] = "free"
    /\ Go(g, IF HasKey(key[g]) /\ IsTaken(key[g]) THEN "done" ELSE "new")
    /\ UNCHANGED <<key, run, todo, at, tally, tenders, period, faults>>

\* Mutant: no unique index on correlation_key.
CreatesUnchecked(g) ==
    /\ pc[g] = "new"
    /\ run' = [run EXCEPT ![g] = [status |-> "pending", key |-> key[g], found |-> {}]]
    /\ Go(g, "ready")
    /\ UNCHANGED <<key, todo, at, tally, tenders, period, faults>>

\* The INSERT; refused, the call returns the run that has the key, or, when
\* its own key is empty, an error.
Creates(g) ==
    /\ pc[g] = "new"
    /\ IF IsTaken(key[g])
       THEN Go(g, "done") /\ UNCHANGED run
       ELSE /\ run' = [run EXCEPT ![g] =
                         [status |-> "pending", key |-> key[g], found |-> {}]]
            /\ Go(g, "ready")
    /\ UNCHANGED <<key, todo, at, tally, tenders, period, faults>>

\* No source to crawl, or an error, before the row is inserted.
Refused(g) ==
    /\ pc[g] \in Calling
    /\ Go(g, "done")
    /\ UNCHANGED <<key, run, todo, at, tally, tenders, period, faults>>

-----------------------------------------------------------------------------
(* ExecuteRun, in its goroutine *)

MarksRunning(g) ==
    /\ pc[g] = "ready"
    /\ run' = [run EXCEPT ![g].status = "running"]
    /\ Go(g, "collect")
    /\ UNCHANGED <<key, todo, at, tally, tenders, period, faults>>

Collects(g, found) ==
    /\ pc[g] = "collect"
    /\ todo' = [todo EXCEPT ![g] = found]
    /\ Go(g, "work")
    /\ UNCHANGED <<key, run, at, tally, tenders, period, faults>>

\* Mutant: a run that cannot collect returns at once.
CollectFailsQuietly(g) ==
    /\ pc[g] = "collect"
    /\ Go(g, "over")
    /\ UNCHANGED <<key, run, todo, at, tally, tenders, period, faults>>

\* The profile, the sources or one source of the crawl fails: no candidates.
CollectFails(g) ==
    /\ pc[g] = "collect"
    /\ tally' = [tally EXCEPT ![g].errs = TRUE]
    /\ Go(g, "finish")
    /\ UNCHANGED <<key, run, todo, at, tenders, period, faults>>

\* persistCandidate: FindByDedupKey, which may fail.
LooksUpCandidate(g, c) ==
    /\ pc[g] = "work" /\ c \in todo[g]
    /\ todo' = [todo EXCEPT ![g] = @ \ {c}]
    /\ \/ /\ tally' = [tally EXCEPT ![g].errs = TRUE]
          /\ UNCHANGED <<pc, at>>
       \/ /\ IsKnown(c)
          /\ tally' = [tally EXCEPT ![g].known = TRUE]
          /\ UNCHANGED <<pc, at>>
       \/ /\ ~IsKnown(c)
          /\ at' = [at EXCEPT ![g] = c]
          /\ Go(g, "create")
          /\ UNCHANGED tally
    /\ UNCHANGED <<key, run, tenders, period, faults>>

\* Mutant: no unique index on dedup_key.
InsertsUnchecked(g) ==
    /\ pc[g] = "create"
    /\ tenders' = tenders \cup {[by |-> g, cand |-> at[g]]}
    /\ tally' = [tally EXCEPT ![g].saved = @ \cup {at[g]}]
    /\ Go(g, "score")
    /\ UNCHANGED <<key, run, todo, at, period, faults>>

\* Mutant: a tender that another run has just inserted counts as new.
InsertsOrCounts(g) ==
    /\ pc[g] = "create"
    /\ tenders' = IF IsKnown(at[g]) THEN tenders
                  ELSE tenders \cup {[by |-> g, cand |-> at[g]]}
    /\ tally' = [tally EXCEPT ![g].saved = @ \cup {at[g]}]
    /\ Go(g, "score")
    /\ UNCHANGED <<key, run, todo, at, period, faults>>

\* CreateDiscovery; a violation of the unique index is one more duplicate.
Inserts(g) ==
    /\ pc[g] = "create"
    /\ IF IsKnown(at[g])
       THEN /\ tally' = [tally EXCEPT ![g].known = TRUE]
            /\ Go(g, "work")
            /\ UNCHANGED tenders
       ELSE /\ tenders' = tenders \cup {[by |-> g, cand |-> at[g]]}
            /\ tally' = [tally EXCEPT ![g].saved = @ \cup {at[g]}]
            /\ Go(g, "score")
    /\ UNCHANGED <<key, run, todo, at, period, faults>>

\* An error of one candidate does not stop the others.  (The last disjunct is
\* an INSERT that commits although its answer is lost.)
CandidateFails(g) ==
    /\ pc[g] = "create"
    /\ tally' = [tally EXCEPT ![g].errs = TRUE]
    /\ Go(g, "work")
    /\ \/ UNCHANGED <<tenders, faults>>
       \/ /\ ~IsKnown(at[g]) /\ Fault
          /\ tenders' = tenders \cup {[by |-> g, cand |-> at[g]]}
    /\ UNCHANGED <<key, run, todo, at, period>>

\* ScoreTarget; a tender that cannot be scored is kept.
Scores(g, ok) ==
    /\ pc[g] = "score"
    /\ tally' = [tally EXCEPT ![g].errs = @ \/ ~ok]
    /\ Go(g, "work")
    /\ UNCHANGED <<key, run, todo, at, tenders, period, faults>>

Outcome(n) == IF n.saved = {} /\ ~n.known /\ n.errs THEN "failed" ELSE "success"

Finishes(g) ==
    /\ pc[g] \in {"work", "finish"} /\ (pc[g] = "work" => todo[g] = {})
    /\ run' = [run EXCEPT ![g].status = Outcome(tally[g]), ![g].found = tally[g].saved]
    /\ Go(g, "over")
    /\ UNCHANGED <<key, todo, at, tally, tenders, period, faults>>

\* discoveryRunTimeout: the context that expires is also that of the updates
\* of the row, so from here on nothing is written.  The same happens to a run
\* whose status cannot be written, and to one whose INSERT commits although
\* StartRun gets an error.
Dies(g) ==
    /\ pc[g] \in Pipeline /\ Fault
    /\ Go(g, "over")
    /\ UNCHANGED <<key, run, todo, at, tally, tenders, period>>

\* A restart of the API ends all calls and goroutines.  Unlike for playbook
\* jobs, nothing looks at the rows afterwards.
Restart ==
    /\ Fault
    /\ pc' = [g \in Calls |-> CASE pc[g] \in Pipeline -> "over"
                                [] pc[g] \in Calling  -> "done"
                                [] OTHER -> pc[g]]
    /\ UNCHANGED <<key, run, todo, at, tally, tenders, period>>

\* The clock enters the next bucket of the schedule.
NextPeriod ==
    /\ period < MaxPeriod
    /\ period' = period + 1
    /\ UNCHANGED <<pc, key, run, todo, at, tally, tenders, faults>>

-----------------------------------------------------------------------------

Init ==
    /\ pc = [g \in Calls |-> "idle"]
    /\ key = [g \in Calls |-> None]
    /\ run = [g \in Calls |-> None]
    /\ todo = [g \in Calls |-> {}]
    /\ at = [g \in Calls |-> None]
    /\ tally = [g \in Calls |-> [saved |-> {}, known |-> FALSE, errs |-> FALSE]]
    /\ tenders = {}
    /\ period = 0
    /\ faults = 0

\* The steps of a goroutine that nothing goes wrong for.
Works(g) ==
    \/ MarksRunning(g) \/ CollectFails(g) \/ Inserts(g) \/ CandidateFails(g) \/ Finishes(g)
    \/ \E found \in SUBSET Candidates : Collects(g, found)
    \/ \E c \in Candidates : LooksUpCandidate(g, c)
    \/ \E ok \in BOOLEAN : Scores(g, ok)

Next ==
    \/ \E g \in Calls :
         \/ \E k \in Key : Triggers(g, k)
         \/ LooksUpKey(g) \/ Creates(g) \/ Refused(g) \/ Works(g) \/ Dies(g)
    \/ Restart \/ NextPeriod

Spec == Init /\ [][Next]_vars

\* A goroutine that has been started goes on: crawls, scoring and queries all
\* end, with a result or an error.  Nobody owes a trigger.
FairSpec == Spec /\ \A g \in Calls : WF_vars(Works(g))

-----------------------------------------------------------------------------
(* Properties *)

TypeOK ==
    /\ pc \in [Calls -> {"idle", "done", "over"} \cup Calling \cup Pipeline]
    /\ key \in [Calls -> Key]
    /\ run \in [Calls -> Row \cup {None}]
    /\ todo \in [Calls -> SUBSET Candidates]
    /\ at \in [Calls -> Candidates \cup {None}]
    /\ tally \in [Calls -> Tally]
    /\ tenders \subseteq Tender
    /\ period \in Periods
    /\ faults \in 0..MaxFaults

\* "tender sama dari beberapa sumber digabung" (persistCandidate): whichever
\* runs and sources find it, in one batch or in two runs that pass the lookup
\* together, a tender with a dedup key is there once.
NoDuplicateTenders ==
    \A t, u \in tenders : KeyOf[t.cand] # None /\ KeyOf[t.cand] = KeyOf[u.cand] => t = u

\* However many ticks of a period overlap, from the ticker and from the
\* Hermes cron job, and whatever runs stand in between, a period has one run
\* (Scheduler.tick, StartRun).
OneRunPerPeriod ==
    \A g, h \in Calls :
        Exists(g) /\ Exists(h) /\ run[g].key \in Periods /\ run[g].key = run[h].key => g = h

\* What a run reports is true: it counts only tenders that it has inserted
\* itself, all of them unless a fault hid one, and it fails only empty-handed
\* (ExecuteRun, runOnce).
ReportsHonest ==
    \A g \in Calls : Exists(g) /\ ~IsActive(g) =>
        /\ run[g].found \subseteq Produced(g)
        /\ faults = 0 => run[g].found = Produced(g)
        /\ run[g].status = "failed" => run[g].found = {}

\* What makes the invariants inductive: the tally counts tenders of the run,
\* all but the one at hand, and a row exists once the goroutine is started.
TalliesSound ==
    \A g \in Calls :
        /\ tally[g].saved \subseteq Produced(g)
        /\ faults = 0 => tally[g].saved = Produced(g)
        /\ pc[g] = "create" => at[g] \in Candidates
        /\ pc[g] \in {"idle"} \cup Calling => ~Exists(g)
        /\ pc[g] \in Pipeline => IsActive(g)
IInv == TypeOK /\ NoDuplicateTenders /\ OneRunPerPeriod /\ ReportsHonest /\ TalliesSound

\* Unless a fault strikes, every run comes to an end, whatever fails in the
\* crawl, the insertion or the scoring of its candidates.
RunEnds == \A g \in Calls : IsActive(g) ~> ~IsActive(g) \/ faults > 0
=============================================================================
