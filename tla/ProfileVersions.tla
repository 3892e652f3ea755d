-------------------------- MODULE ProfileVersions --------------------------
(***************************************************************************)
(* The company profile: every save is a new version                        *)
(* (internal/service/profile_service.go Save over                          *)
(* internal/repository/profile_repo.go CreateVersion), after which the     *)
(* crawl settings are pushed to a cron job of the Hermes scheduler         *)
(* (internal/service/crawl_automation.go, internal/hermestui/cron.go).     *)
(*                                                                         *)
(* A save reads the current version, merges the request into it, and only  *)
(* then opens the transaction that locks the current row, demotes it and   *)
(* inserts the new one.  Row locks and the partial unique index on         *)
(* is_current are PostgreSQL's, at READ COMMITTED.  What readers may rely  *)
(* on, whatever saves overlap, is the specification VersionHistory.        *)
(***************************************************************************)
EXTENDS Naturals, FiniteSets

CONSTANTS
    Saves,     \* save requests; the row a save inserts has its name
    Frequency, \* the values of crawl_frequency
    None,      \* no row, no job, a field that has never been set
    MaxOpen    \* bound: saves under way at a time

ASSUME NoneNoSave == None \notin Saves
ASSUME MaxOpenNat == MaxOpen \in Nat

VARIABLES
    profile,   \* the company_profile table (committed rows)
    pc,        \* how far each save has come
    wants,     \* the crawl setting in each save's request
    merged,    \* the content that each save has computed
    lock,      \* the row that a save has locked, or waits to lock
    cron,      \* the scheduler's jobs named discoveryCronJobName
    target,    \* the job that a save has found
    crossed    \* history: the saves that have talked to the scheduler at once

vars == <<profile, pc, wants, merged, lock, cron, target, crossed>>

-----------------------------------------------------------------------------

\* The crawl settings, and all the other fields; a field's value is named
\* after the save whose request set it.
Fields == {"crawl", "rest"}
Crawl == Frequency \cup {"off"}
Content == [Fields -> Saves \cup {None}]

Row == [version: Nat \ {0}, current: BOOLEAN, content: Content]
Job == [schedule: Frequency, enabled: BOOLEAN]

ASSUME NoneNoRecord == None \notin Row /\ None \notin Job

Exists(r) == profile[r] # None
IsCurrent(r) == Exists(r) /\ profile[r].current
IsEnabled(j) == cron[j] # None /\ cron[j].enabled

Ended == {"failed", "done", "unsynced"}
InTransaction == {"blocked", "locked", "missing", "inserted"}
Syncing == {"sync", "create", "update", "resume", "pause"}
Open == {s \in Saves : pc[s] \notin Ended \cup {"idle"}}

\* The save holds the row lock of r.
Holds(s, r) == lock[s] = r /\ pc[s] \in {"locked", "inserted"}

\* What a content says of the crawl; a workspace starts with the crawl off.
CrawlOf(c) == IF c["crawl"] = None THEN "off" ELSE wants[c["crawl"]]

Go(s, l) == pc' = [pc EXCEPT ![s] = l]

-----------------------------------------------------------------------------
(* Save: read and merge, outside the transaction *)

\* coalesce, field by field: what the request sets, else what the base has.
Merge(s, fs, base) == [f \in Fields |-> IF f \in fs THEN s ELSE base[f]]

\* GetCurrent, or the defaults of a workspace without a profile.
SaveReads(s, fs, w) ==
    /\ pc[s] = "idle" /\ Cardinality(Open) < MaxOpen
    /\ wants' = [wants EXCEPT ![s] = w]
    /\ \/ \E r \in Saves :
            /\ IsCurrent(r)
            /\ merged' = [merged EXCEPT ![s] = Merge(s, fs, profile[r].content)]
       \/ /\ \A r \in Saves : ~IsCurrent(r)
          /\ merged' = [merged EXCEPT ![s] = Merge(s, fs, [f \in Fields |-> None])]
    /\ Go(s, "merged")
    /\ UNCHANGED <<profile, lock, cron, target, crossed>>

-----------------------------------------------------------------------------
(* CreateVersion: the transaction *)

\* SELECT ... WHERE is_current FOR UPDATE finds no row, locks the row it
\* finds, or must wait for the transaction that has locked it.
LockCurrent(s) ==
    /\ pc[s] = "merged"
    /\ \/ /\ \A r \in Saves : ~IsCurrent(r)
          /\ Go(s, "missing")
          /\ UNCHANGED lock
       \/ \E r \in Saves :
            /\ IsCurrent(r)
            /\ lock' = [lock EXCEPT ![s] = r]
            /\ Go(s, IF \E t \in Saves : Holds(t, r) THEN "blocked" ELSE "locked")
    /\ UNCHANGED <<profile, wants, merged, cron, target, crossed>>

\* Mutant: the wait goes on until the row that was found is free and current.
UnblocksOnCurrent(s) ==
    /\ pc[s] = "blocked"
    /\ IsCurrent(lock[s]) /\ \A t \in Saves : ~Holds(t, lock[s])
    /\ Go(s, "locked")
    /\ UNCHANGED <<profile, wants, merged, lock, cron, target, crossed>>

\* The lock is free.  PostgreSQL evaluates the condition again on the row as
\* it now is and skips a row that is no longer current; it does not look for
\* other rows, so First reports that there is none.
Unblocks(s) ==
    /\ pc[s] = "blocked"
    /\ \A t \in Saves : ~Holds(t, lock[s])
    /\ IF IsCurrent(lock[s])
       THEN Go(s, "locked") /\ UNCHANGED lock
       ELSE Go(s, "missing") /\ lock' = [lock EXCEPT ![s] = None]
    /\ UNCHANGED <<profile, wants, merged, cron, target, crossed>>

\* The demotion of the locked row and the INSERTs of the new version.
Inserts(s) ==
    /\ pc[s] = "locked"
    /\ Go(s, "inserted")
    /\ UNCHANGED <<profile, wants, merged, lock, cron, target, crossed>>

\* Mutant: no unique index on is_current.
InsertsFirstUnchecked(s) ==
    /\ pc[s] = "missing"
    /\ Go(s, "inserted")
    /\ UNCHANGED <<profile, wants, merged, lock, cron, target, crossed>>

\* The INSERT of version 1 by a save that has found no current row: the
\* unique index makes it wait for an uncommitted one and refuses a second.
\* (If the current row is just being replaced, it waits and is then refused,
\* whichever way that ends.)
InsertsFirst(s) ==
    /\ pc[s] = "missing"
    /\ IF \E r \in Saves : IsCurrent(r)
       THEN Go(s, "failed")
       ELSE /\ \A t \in Saves : pc[t] # "inserted"
            /\ Go(s, "inserted")
    /\ UNCHANGED <<profile, wants, merged, lock, cron, target, crossed>>

\* The saves whose talk with the scheduler overlaps that of s, and s.
Meets(s) ==
    LET others == {t \in Saves : pc[t] \in Syncing}
    IN  IF others = {} THEN {} ELSE others \cup {s}

NewVersion(s) == IF lock[s] = None THEN 1 ELSE profile[lock[s]].version + 1

\* Mutant: the demotion saves the locked row with the content of the request.
CommitsInPlace(s) ==
    /\ pc[s] = "inserted"
    /\ profile' = [r \in Saves |->
         IF r = s THEN [version |-> NewVersion(s), current |-> TRUE, content |-> merged[s]]
         ELSE IF r = lock[s] THEN [profile[r] EXCEPT !.current = FALSE, !.content = merged[s]]
         ELSE profile[r]]
    /\ Go(s, "sync")
    /\ lock' = [lock EXCEPT ![s] = None]
    /\ crossed' = crossed \cup Meets(s)
    /\ UNCHANGED <<wants, merged, cron, target>>

Commits(s) ==
    /\ pc[s] = "inserted"
    /\ profile' = [r \in Saves |->
         IF r = s THEN [version |-> NewVersion(s), current |-> TRUE, content |-> merged[s]]
         ELSE IF r = lock[s] THEN [profile[r] EXCEPT !.current = FALSE]
         ELSE profile[r]]
    /\ Go(s, "sync")
    /\ lock' = [lock EXCEPT ![s] = None]
    /\ crossed' = crossed \cup Meets(s)
    /\ UNCHANGED <<wants, merged, cron, target>>

\* An error or a cancelled request rolls the transaction back.
Aborts(s) ==
    /\ pc[s] \in InTransaction \cup {"merged"}
    /\ Go(s, "failed")
    /\ lock' = [lock EXCEPT ![s] = None]
    /\ UNCHANGED <<profile, wants, merged, cron, target, crossed>>

-----------------------------------------------------------------------------
(* syncCrawlAutomation: pause, or update and resume, or create the cron job *)

Setting(s) == CrawlOf(merged[s])

\* Mutant: the list is searched for a running job only.
FindsRunningJob(s) ==
    /\ pc[s] = "sync"
    /\ \/ /\ \A j \in Saves : ~IsEnabled(j)
          /\ Go(s, IF Setting(s) = "off" THEN "done" ELSE "create")
          /\ UNCHANGED target
       \/ \E j \in Saves :
            /\ IsEnabled(j)
            /\ target' = [target EXCEPT ![s] = j]
            /\ Go(s, IF Setting(s) # "off" THEN "update" ELSE "pause")
    /\ UNCHANGED <<profile, wants, merged, lock, cron, crossed>>

\* findJobByName lists the jobs; what happens next was decided by that list.
FindsJob(s) ==
    /\ pc[s] = "sync"
    /\ \/ /\ \A j \in Saves : cron[j] = None
          /\ Go(s, IF Setting(s) = "off" THEN "done" ELSE "create")
          /\ UNCHANGED target
       \/ \E j \in Saves :
            /\ cron[j] # None
            /\ target' = [target EXCEPT ![s] = j]
            /\ Go(s, IF Setting(s) # "off" THEN "update"
                     ELSE IF cron[j].enabled THEN "pause" ELSE "done")
    /\ UNCHANGED <<profile, wants, merged, lock, cron, crossed>>

CreatesJob(s) ==
    /\ pc[s] = "create"
    /\ cron' = [cron EXCEPT ![s] = [schedule |-> Setting(s), enabled |-> TRUE]]
    /\ Go(s, "done")
    /\ UNCHANGED <<profile, wants, merged, lock, target, crossed>>

UpdatesJob(s) ==
    /\ pc[s] = "update"
    /\ cron' = [cron EXCEPT ![target[s]].schedule = Setting(s)]
    /\ Go(s, "resume")
    /\ UNCHANGED <<profile, wants, merged, lock, target, crossed>>

\* Mutant: the PUT of schedule and prompt is taken to be enough.
ResumesNothing(s) ==
    /\ pc[s] = "resume"
    /\ Go(s, "done")
    /\ UNCHANGED <<profile, wants, merged, lock, cron, target, crossed>>

ResumesJob(s) ==
    /\ pc[s] = "resume"
    /\ cron' = [cron EXCEPT ![target[s]].enabled = TRUE]
    /\ Go(s, "done")
    /\ UNCHANGED <<profile, wants, merged, lock, target, crossed>>

PausesJob(s) ==
    /\ pc[s] = "pause"
    /\ cron' = [cron EXCEPT ![target[s]].enabled = FALSE]
    /\ Go(s, "done")
    /\ UNCHANGED <<profile, wants, merged, lock, target, crossed>>

\* The scheduler cannot be reached: logged, and the save still succeeds.
SyncFails(s) ==
    /\ pc[s] \in Syncing
    /\ Go(s, "unsynced")
    /\ UNCHANGED <<profile, wants, merged, lock, cron, target, crossed>>

-----------------------------------------------------------------------------

Init ==
    /\ profile = [s \in Saves |-> None]
    /\ pc = [s \in Saves |-> "idle"]
    /\ wants = [s \in Saves |-> "off"]
    /\ merged = [s \in Saves |-> [f \in Fields |-> None]]
    /\ lock = [s \in Saves |-> None]
    /\ cron = [s \in Saves |-> None]
    /\ target = [s \in Saves |-> None]
    /\ crossed = {}

\* The steps that carry a save on once it has begun.
Step(s) ==
    \/ LockCurrent(s) \/ Unblocks(s) \/ Inserts(s) \/ InsertsFirst(s) \/ Commits(s)
    \/ FindsJob(s) \/ CreatesJob(s) \/ UpdatesJob(s) \/ ResumesJob(s) \/ PausesJob(s)

Next ==
    \E s \in Saves :
        \/ \E fs \in SUBSET Fields, w \in Crawl : SaveReads(s, fs, w)
        \/ Step(s) \/ Aborts(s) \/ SyncFails(s)

Spec == Init /\ [][Next]_vars

\* A handler runs on unless the database makes it wait; no transaction is
\* owed an error or a cancellation.
FairSpec == Spec /\ \A s \in Saves : WF_vars(Step(s))

-----------------------------------------------------------------------------
(* Properties *)

TypeOK ==
    /\ profile \in [Saves -> Row \cup {None}]
    /\ pc \in [Saves -> {"idle", "merged"} \cup InTransaction \cup Syncing \cup Ended]
    /\ wants \in [Saves -> Crawl]
    /\ merged \in [Saves -> Content]
    /\ lock \in [Saves -> Saves \cup {None}]
    /\ cron \in [Saves -> Job \cup {None}]
    /\ target \in [Saves -> Saves \cup {None}]
    /\ crossed \subseteq Saves

\* The versions of the profile are one line: no two rows have the same
\* version, none is missing, and the current row, of which there is exactly
\* one, is the latest.  Nothing in the schema makes versions unique: a save
\* that waited for the lock and found its row demoted goes on as if the
\* workspace were new, and only the index on is_current stops it.
VersionsDistinct ==
    \A r, s \in Saves :
        Exists(r) /\ Exists(s) /\ profile[r].version = profile[s].version => r = s
NoVersionMissing ==
    \A r \in Saves : Exists(r) => \A n \in 1..profile[r].version :
        \E s \in Saves : Exists(s) /\ profile[s].version = n
LatestIsCurrent ==
    \A r \in Saves : Exists(r) =>
        /\ profile[r].current => \A s \in Saves :
             Exists(s) => profile[s].version <= profile[r].version
        /\ \E s \in Saves : IsCurrent(s)
HistoryLinear == VersionsDistinct /\ NoVersionMissing /\ LatestIsCurrent

\* What the transactions rely on: a locked row is current and locked once,
\* and a save inserts without a lock only into an empty table.
LocksSound ==
    \A s \in Saves :
        /\ pc[s] \in {"locked", "inserted"} =>
             /\ lock[s] # None => IsCurrent(lock[s])
             /\ lock[s] = None => \A r \in Saves : ~Exists(r)
             /\ \A t \in Saves : Holds(t, lock[s]) => t = s
        /\ pc[s] \in {"blocked", "locked"} => lock[s] # None
        /\ pc[s] \in {"idle", "merged", "missing"} => lock[s] = None
        /\ pc[s] \in {"idle", "merged"} \cup InTransaction => ~Exists(s)

\* The fields of contents are named after saves that have begun, so what they
\* stand for is settled; a job is created or updated only to turn it on, and
\* a job that was found stays.
FieldsNamed ==
    /\ \A s \in Saves : pc[s] # "idle" => \A f \in Fields :
         merged[s][f] # None => pc[merged[s][f]] # "idle"
    /\ \A r \in Saves : Exists(r) => \A f \in Fields :
         profile[r].content[f] # None => pc[profile[r].content[f]] # "idle"
CronSound ==
    \A s \in Saves :
        /\ pc[s] \in {"create", "update"} => Setting(s) \in Frequency
        /\ pc[s] \in {"update", "resume", "pause"} =>
             target[s] \in Saves /\ cron[target[s]] # None

IInv == TypeOK /\ HistoryLinear /\ LocksSound /\ FieldsNamed /\ CronSound

\* What readers see: the version of the current row, and what was recorded
\* under each number up to it.
CurrentVersion ==
    IF \E r \in Saves : IsCurrent(r)
    THEN profile[CHOOSE r \in Saves : IsCurrent(r)].version ELSE 0
Recorded(n) ==
    CHOOSE e \in [by: Saves, content: Content] :
        /\ Exists(e.by) /\ profile[e.by].version = n
        /\ profile[e.by].content = e.content
History == INSTANCE VersionHistory
               WITH history <- [n \in 1..CurrentVersion |-> Recorded(n)]

\* Whatever saves overlap, fail or roll back, the table is an append-only
\* history: a commit adds the next version at its end, once per request, and
\* changes nothing that was recorded before.
OnlyAppends == History!Spec

\* Every save that has begun comes to an end: no order of lock requests and
\* index checks leaves two of them waiting for each other.
SavesEnd == \A s \in Saves : s \in Open ~> s \notin Open

\* "the one Hermes cron job this workspace ever upserts" (discoveryCronJobName).
OneCronJob == \A i, j \in Saves : cron[i] # None /\ cron[j] # None => i = j

\* What runs on the scheduler.
Scheduled == {cron[j].schedule : j \in {i \in Saves : IsEnabled(i)}}

\* "upserts or pauses the Hermes cron job to match p's current crawl_enabled/
\* crawl_frequency" (syncCrawlAutomation), with saves overlapping from their
\* reads to their calls of the scheduler: only saves that talked to it at once
\* leave a second job behind; and once the save of the current version has
\* talked to it alone and without an error, what runs is what the profile
\* says, whatever earlier saves did to the job, or failed to do.
CronFollowsProfile ==
    /\ \A i, j \in Saves :
         cron[i] # None /\ cron[j] # None /\ i # j => {i, j} \subseteq crossed
    /\ \A r \in Saves :
         IsCurrent(r) /\ pc[r] = "done" /\ r \notin crossed /\ OneCronJob =>
             Scheduled = {CrawlOf(profile[r].content)} \ {"off"}
=============================================================================
