----------------------- MODULE ProfileVersionsProofs -----------------------
(***************************************************************************)
(* Proofs about ProfileVersions for every number of overlapping saves.     *)
(***************************************************************************)
EXTENDS ProfileVersions, FiniteSetTheorems, SequenceTheorems, TLAPS

LEMMA MergeType ==
    ASSUME NEW s \in Saves, NEW fs \in SUBSET Fields, NEW base \in Content
    PROVE  Merge(s, fs, base) \in Content
    BY DEF Merge, Content

\* Two current rows would have the same version.
LEMMA OneCurrent ==
    ASSUME TypeOK, HistoryLinear, NEW r \in Saves, NEW s \in Saves,
           IsCurrent(r), IsCurrent(s)
    PROVE  r = s
<1>1. profile[r].version <= profile[s].version /\ profile[s].version <= profile[r].version
  BY DEF HistoryLinear, LatestIsCurrent, IsCurrent
<1>2. profile[r].version \in Nat /\ profile[s].version \in Nat
  BY DEF TypeOK, Row, IsCurrent, Exists
<1> QED
  BY <1>1, <1>2 DEF HistoryLinear, VersionsDistinct, IsCurrent

-----------------------------------------------------------------------------
(* Types *)

LEMMA InitType == Init => TypeOK
    BY DEF Init, TypeOK, Content, Crawl

LEMMA SaveReadsType ==
    ASSUME TypeOK, NEW s \in Saves, NEW fs \in SUBSET Fields, NEW w \in Crawl,
           SaveReads(s, fs, w)
    PROVE  TypeOK'
<1>1. merged' \in [Saves -> Content]
  <2>1. CASE \E r \in Saves :
               /\ IsCurrent(r)
               /\ merged' = [merged EXCEPT ![s] = Merge(s, fs, profile[r].content)]
    <3>1. PICK r \in Saves :
               /\ IsCurrent(r)
               /\ merged' = [merged EXCEPT ![s] = Merge(s, fs, profile[r].content)]
      BY <2>1
    <3>2. profile[r].content \in Content
      BY <3>1 DEF TypeOK, Row, IsCurrent, Exists
    <3>3. Merge(s, fs, profile[r].content) \in Content
      BY <3>2, MergeType
    <3> QED
      BY <3>1, <3>3 DEF TypeOK
  <2>2. CASE merged' = [merged EXCEPT ![s] = Merge(s, fs, [f \in Fields |-> None])]
    <3>1. Merge(s, fs, [f \in Fields |-> None]) \in Content
      BY MergeType DEF Content
    <3> QED
      BY <2>2, <3>1 DEF TypeOK
  <2> QED
    BY <2>1, <2>2 DEF SaveReads
<1> QED
  BY <1>1 DEF SaveReads, TypeOK, Go

LEMMA TransactionType ==
    ASSUME TypeOK, NEW s \in Saves,
           \/ LockCurrent(s) \/ Unblocks(s) \/ Inserts(s) \/ InsertsFirst(s) \/ Aborts(s)
    PROVE  TypeOK'
    BY DEF TypeOK, LockCurrent, Unblocks, Inserts, InsertsFirst, Aborts, Go,
           InTransaction, Ended

LEMMA CommitsType ==
    ASSUME TypeOK, NEW s \in Saves, Commits(s), lock[s] # None => Exists(lock[s])
    PROVE  TypeOK'
<1>1. lock[s] \in Saves \cup {None} /\ merged[s] \in Content
  BY DEF TypeOK
<1>2. NewVersion(s) \in Nat \ {0}
  BY <1>1 DEF TypeOK, NewVersion, Row, Exists
<1>3. \A r \in Saves : profile'[r] \in Row \cup {None}
  <2> SUFFICES ASSUME NEW r \in Saves PROVE profile'[r] \in Row \cup {None}
    OBVIOUS
  <2>1. CASE r = s
    BY <1>1, <1>2, <2>1 DEF Commits, Row
  <2>2. CASE r # s /\ r = lock[s]
    <3>1. profile[r] \in Row /\ profile'[r] = [profile[r] EXCEPT !.current = FALSE]
      BY <2>2, NoneNoSave DEF Commits, TypeOK, Exists
    <3> QED
      BY <3>1 DEF Row
  <2>3. CASE r # s /\ r # lock[s]
    BY <2>3 DEF Commits, TypeOK
  <2> QED
    BY <2>1, <2>2, <2>3
<1>4. profile' \in [Saves -> Row \cup {None}]
  BY <1>3 DEF Commits
<1>5. crossed' \subseteq Saves
  BY DEF Commits, Meets, TypeOK
<1> QED
  BY <1>4, <1>5 DEF Commits, TypeOK, Go, Syncing

-----------------------------------------------------------------------------
(* The cron job *)

\* The steps of syncCrawlAutomation.
SyncStep(s) ==
    \/ FindsJob(s) \/ CreatesJob(s) \/ UpdatesJob(s) \/ ResumesJob(s) \/ PausesJob(s)
    \/ SyncFails(s)

LEMMA SettingType ==
    ASSUME TypeOK, NEW s \in Saves
    PROVE  Setting(s) \in Crawl
    BY DEF Setting, CrawlOf, TypeOK, Content, Fields, Crawl

LEMMA SyncStepType ==
    ASSUME TypeOK, CronSound, NEW s \in Saves, SyncStep(s)
    PROVE  TypeOK' /\ CronSound'
<1>1. Setting(s) \in Crawl
  BY SettingType
<1>2. CASE FindsJob(s)
  <2>1. TypeOK'
    BY <1>2 DEF FindsJob, TypeOK, Go, Syncing, Ended
  <2>2. \A t \in Saves : Setting(t)' = Setting(t)
    BY <1>2 DEF FindsJob, Setting, CrawlOf
  <2>3. CronSound'
    <3>1. \A t \in Saves : t # s => /\ pc'[t] = pc[t] /\ target'[t] = target[t]
                                    /\ cron' = cron
      BY <1>2 DEF FindsJob, TypeOK, Go
    <3>2. pc'[s] \in {"create", "update"} => Setting(s) \in Frequency
      BY <1>1, <1>2 DEF FindsJob, TypeOK, Go, Crawl
    <3>3. pc'[s] \in {"update", "resume", "pause"} =>
            target'[s] \in Saves /\ cron[target'[s]] # None
      BY <1>2 DEF FindsJob, TypeOK, Go
    <3> QED
      BY <1>2, <2>2, <3>1, <3>2, <3>3 DEF CronSound, FindsJob
  <2> QED
    BY <2>1, <2>3
<1>3. CASE CreatesJob(s)
  <2>1. PICK j : j = [schedule |-> Setting(s), enabled |-> TRUE]
    OBVIOUS
  <2>2. j \in Job
    BY <1>3, <2>1 DEF CreatesJob, CronSound, Job
  <2>3. cron' = [cron EXCEPT ![s] = j]
    BY <1>3, <2>1 DEF CreatesJob
  <2>4. TypeOK'
    BY <1>3, <2>2, <2>3 DEF CreatesJob, TypeOK, Go, Ended
  <2>5. \A t \in Saves : Setting(t)' = Setting(t)
    BY <1>3 DEF CreatesJob, Setting, CrawlOf
  <2>6. j # None
    BY <2>2, NoneNoRecord
  <2>7. CronSound'
    <3>1. \A i \in Saves : cron[i] # None => cron'[i] # None
      BY <2>3, <2>6 DEF TypeOK
    <3>2. /\ pc'[s] = "done" /\ target' = target
          /\ \A t \in Saves : t # s => pc'[t] = pc[t]
      BY <1>3 DEF CreatesJob, TypeOK, Go
    <3> QED
      BY <2>5, <3>1, <3>2 DEF CronSound
  <2> QED
    BY <2>4, <2>7
<1>4. CASE UpdatesJob(s) \/ ResumesJob(s) \/ PausesJob(s)
  <2>1. target[s] \in Saves /\ cron[target[s]] \in Job
    BY <1>4 DEF UpdatesJob, ResumesJob, PausesJob, CronSound, TypeOK
  <2>2. PICK j : j = IF pc[s] = "update" THEN [cron[target[s]] EXCEPT !.schedule = Setting(s)]
                     ELSE [cron[target[s]] EXCEPT !.enabled = (pc[s] = "resume")]
    OBVIOUS
  <2>3. j \in Job
    <3>1. CASE pc[s] = "update"
      <4>1. Setting(s) \in Frequency
        BY <3>1 DEF CronSound
      <4> QED
        BY <2>1, <2>2, <3>1, <4>1 DEF Job
    <3>2. CASE pc[s] # "update"
      BY <2>1, <2>2, <3>2 DEF Job
    <3> QED
      BY <3>1, <3>2
  <2>4. cron' = [cron EXCEPT ![target[s]] = j]
    BY <1>4, <2>1, <2>2 DEF UpdatesJob, ResumesJob, PausesJob
  <2>5. TypeOK'
    BY <1>4, <2>3, <2>4 DEF UpdatesJob, ResumesJob, PausesJob, TypeOK, Go, Ended, Syncing
  <2>6. \A t \in Saves : Setting(t)' = Setting(t)
    BY <1>4 DEF UpdatesJob, ResumesJob, PausesJob, Setting, CrawlOf
  <2>7. j # None
    BY <2>3, NoneNoRecord
  <2>8. CronSound'
    BY <1>4, <2>1, <2>4, <2>6, <2>7
       DEF UpdatesJob, ResumesJob, PausesJob, TypeOK, CronSound, Go
  <2> QED
    BY <2>5, <2>8
<1>5. CASE SyncFails(s)
  <2>1. TypeOK'
    BY <1>5 DEF SyncFails, TypeOK, Go, Ended
  <2>2. \A t \in Saves : Setting(t)' = Setting(t)
    BY <1>5 DEF SyncFails, Setting, CrawlOf
  <2> QED
    BY <1>5, <2>1, <2>2 DEF SyncFails, TypeOK, CronSound, Go
<1> QED
  BY <1>2, <1>3, <1>4, <1>5 DEF SyncStep

\* A save that begins changes the setting of no save under way.
LEMMA SaveReadsCron ==
    ASSUME TypeOK, FieldsNamed, CronSound,
           NEW s \in Saves, NEW fs \in SUBSET Fields, NEW w \in Crawl,
           SaveReads(s, fs, w)
    PROVE  CronSound'
<1> SUFFICES ASSUME NEW t \in Saves, t # s, pc[t] \in {"create", "update"}
             PROVE  Setting(t)' = Setting(t)
  BY DEF SaveReads, Go, CronSound, TypeOK
<1>1. merged'[t] = merged[t]
  BY DEF SaveReads, TypeOK
<1>2. "crawl" \in Fields
  BY DEF Fields
<1>3. merged[t]["crawl"] # None => merged[t]["crawl"] # s
  BY <1>2 DEF FieldsNamed, SaveReads
<1> QED
  BY <1>1, <1>2, <1>3 DEF Setting, CrawlOf, SaveReads, TypeOK, Content

LEMMA TransactionCron ==
    ASSUME TypeOK, CronSound, NEW s \in Saves,
           \/ LockCurrent(s) \/ Unblocks(s) \/ Inserts(s) \/ InsertsFirst(s)
           \/ Commits(s) \/ Aborts(s)
    PROVE  CronSound'
<1>1. \A t \in Saves : Setting(t)' = Setting(t)
  BY DEF LockCurrent, Unblocks, Inserts, InsertsFirst, Commits, Aborts, Setting, CrawlOf
<1> QED
  BY <1>1 DEF LockCurrent, Unblocks, Inserts, InsertsFirst, Commits, Aborts, CronSound,
              TypeOK, Go

-----------------------------------------------------------------------------
(* The fields of contents *)

LEMMA SaveReadsNamed ==
    ASSUME TypeOK, FieldsNamed,
           NEW s \in Saves, NEW fs \in SUBSET Fields, NEW w \in Crawl,
           SaveReads(s, fs, w)
    PROVE  FieldsNamed'
<1>1. /\ pc'[s] = "merged" /\ profile' = profile
      /\ \A t \in Saves : pc[t] # "idle" => pc'[t] # "idle"
      /\ \A t \in Saves : t # s => pc'[t] = pc[t] /\ merged'[t] = merged[t]
  BY DEF SaveReads, Go, TypeOK
<1>2. \A f \in Fields : merged'[s][f] # None =>
        \/ merged'[s][f] = s
        \/ \E r \in Saves : Exists(r) /\ merged'[s][f] = profile[r].content[f]
  BY DEF SaveReads, Merge, IsCurrent, TypeOK
<1>3. \A f \in Fields : merged'[s][f] # None => pc'[merged'[s][f]] # "idle"
  <2> SUFFICES ASSUME NEW f \in Fields, merged'[s][f] # None
               PROVE  pc'[merged'[s][f]] # "idle"
    OBVIOUS
  <2>1. CASE merged'[s][f] = s
    BY <1>1, <2>1
  <2>2. ASSUME NEW r \in Saves, Exists(r), merged'[s][f] = profile[r].content[f]
        PROVE  pc'[merged'[s][f]] # "idle"
    BY <1>1, <2>2 DEF FieldsNamed, TypeOK, Row, Content, Exists
  <2> QED
    BY <1>2, <2>1, <2>2
<1> QED
  BY <1>1, <1>3 DEF FieldsNamed, TypeOK, Row, Content, Exists

LEMMA StepNamed ==
    ASSUME TypeOK, FieldsNamed, UNCHANGED merged,
           \A t \in Saves : (pc[t] = "idle") <=> (pc'[t] = "idle"),
           \A r \in Saves : Exists(r)' =>
               \/ Exists(r) /\ profile'[r].content = profile[r].content
               \/ pc[r] # "idle" /\ profile'[r].content = merged[r]
    PROVE  FieldsNamed'
    BY DEF FieldsNamed, TypeOK, Row, Content, Exists

-----------------------------------------------------------------------------
(* Locks *)

\* A save that leaves the transaction, or never was in it, takes no lock along.
LEMMA LeaveSound ==
    ASSUME TypeOK, LocksSound, NEW s \in Saves, NEW l \in Syncing \cup Ended,
           Go(s, l), UNCHANGED profile,
           lock' = lock \/ lock' = [lock EXCEPT ![s] = None]
    PROVE  LocksSound'
<1>1. l \notin {"idle", "merged", "blocked", "locked", "missing", "inserted"}
  BY DEF Syncing, Ended
<1>2. /\ pc'[s] = l
      /\ \A t \in Saves : t # s => pc'[t] = pc[t] /\ lock'[t] = lock[t]
  BY DEF Go, TypeOK
<1> QED
  BY <1>1, <1>2 DEF LocksSound, Holds, Exists, IsCurrent, InTransaction

LEMMA SaveReadsSound ==
    ASSUME TypeOK, LocksSound,
           NEW s \in Saves, NEW fs \in SUBSET Fields, NEW w \in Crawl,
           SaveReads(s, fs, w)
    PROVE  LocksSound'
<1>1. /\ pc[s] = "idle" /\ pc'[s] = "merged" /\ lock' = lock /\ profile' = profile
      /\ \A t \in Saves : t # s => pc'[t] = pc[t]
  BY DEF SaveReads, Go, TypeOK
<1> QED
  BY <1>1 DEF LocksSound, Holds, Exists, IsCurrent, InTransaction

LEMMA LockCurrentSound ==
    ASSUME TypeOK, HistoryLinear, LocksSound, NEW s \in Saves, LockCurrent(s)
    PROVE  LocksSound'
<1>1. /\ pc[s] = "merged" /\ profile' = profile /\ ~Exists(s) /\ lock[s] = None
      /\ \A t \in Saves : t # s => pc'[t] = pc[t] /\ lock'[t] = lock[t]
  BY DEF LockCurrent, Go, TypeOK, LocksSound
<1>2. CASE pc'[s] = "missing" /\ lock' = lock
  BY <1>1, <1>2 DEF LocksSound, Holds, Exists, IsCurrent, InTransaction
<1>3. ASSUME NEW r \in Saves, IsCurrent(r), lock' = [lock EXCEPT ![s] = r],
             Go(s, IF \E t \in Saves : Holds(t, r) THEN "blocked" ELSE "locked")
      PROVE  LocksSound'
  <2>1. lock'[s] = r /\ r # None
    BY <1>3, NoneNoSave DEF TypeOK
  <2>2. CASE \E t \in Saves : Holds(t, r)
    <3>1. pc'[s] = "blocked"
      BY <1>3, <2>2 DEF Go, TypeOK
    <3> QED
      BY <1>1, <2>1, <3>1 DEF LocksSound, Holds, Exists, IsCurrent, InTransaction
  <2>3. CASE \A t \in Saves : ~Holds(t, r)
    <3>1. pc'[s] = "locked"
      BY <1>3, <2>3 DEF Go, TypeOK
    <3>2. \A t \in Saves : pc[t] \in {"locked", "inserted"} => lock[t] # None
      BY <1>3 DEF LocksSound, IsCurrent
    <3>3. \A t \in Saves : pc[t] \in {"locked", "inserted"} => lock[t] # r
      BY <2>3 DEF Holds
    <3> QED
      BY <1>1, <1>3, <2>1, <3>1, <3>2, <3>3
         DEF LocksSound, Holds, Exists, IsCurrent, InTransaction
  <2> QED
    BY <2>2, <2>3
<1>4. (pc'[s] = "missing" /\ lock' = lock) \/ \E r \in Saves :
        /\ IsCurrent(r) /\ lock' = [lock EXCEPT ![s] = r]
        /\ Go(s, IF \E t \in Saves : Holds(t, r) THEN "blocked" ELSE "locked")
  BY DEF LockCurrent, Go, TypeOK
<1> QED
  BY <1>2, <1>3, <1>4

LEMMA UnblocksSound ==
    ASSUME TypeOK, LocksSound, NEW s \in Saves, Unblocks(s)
    PROVE  LocksSound'
<1>1. /\ pc[s] = "blocked" /\ profile' = profile /\ ~Exists(s) /\ lock[s] # None
      /\ \A t \in Saves : t # s => pc'[t] = pc[t] /\ lock'[t] = lock[t]
      /\ \A t \in Saves : ~Holds(t, lock[s])
  BY DEF Unblocks, Go, TypeOK, LocksSound, InTransaction
<1>2. CASE IsCurrent(lock[s])
  <2>1. pc'[s] = "locked" /\ lock' = lock
    BY <1>2 DEF Unblocks, Go, TypeOK
  <2>2. lock[s] \in Saves
    BY <1>1 DEF TypeOK
  <2>3. \A t \in Saves : pc[t] \in {"locked", "inserted"} =>
          lock[t] # None /\ lock[t] # lock[s]
    BY <1>1, <1>2, <2>2 DEF LocksSound, IsCurrent, Holds
  <2> QED
    BY <1>1, <1>2, <2>1, <2>3 DEF LocksSound, Holds, Exists, IsCurrent, InTransaction
<1>3. CASE ~IsCurrent(lock[s])
  <2>1. pc'[s] = "missing" /\ lock'[s] = None
    BY <1>3 DEF Unblocks, Go, TypeOK
  <2> QED
    BY <1>1, <2>1 DEF LocksSound, Holds, Exists, IsCurrent, InTransaction
<1> QED
  BY <1>2, <1>3

LEMMA InsertsSound ==
    ASSUME TypeOK, LocksSound, NEW s \in Saves, Inserts(s)
    PROVE  LocksSound'
<1>1. /\ pc[s] = "locked" /\ pc'[s] = "inserted" /\ profile' = profile /\ lock' = lock
      /\ \A t \in Saves : t # s => pc'[t] = pc[t]
  BY DEF Inserts, Go, TypeOK
<1> QED
  BY <1>1 DEF LocksSound, Holds, Exists, IsCurrent, InTransaction

LEMMA InsertsFirstSound ==
    ASSUME TypeOK, HistoryLinear, LocksSound, NEW s \in Saves, InsertsFirst(s)
    PROVE  LocksSound'
<1>1. CASE \E r \in Saves : IsCurrent(r)
  BY <1>1, LeaveSound DEF InsertsFirst, Ended
<1>2. CASE \A r \in Saves : ~IsCurrent(r)
  <2>1. /\ pc[s] = "missing" /\ pc'[s] = "inserted" /\ profile' = profile /\ lock' = lock
        /\ lock[s] = None /\ ~Exists(s)
        /\ \A t \in Saves : t # s => pc'[t] = pc[t]
        /\ \A t \in Saves : pc[t] # "inserted"
    BY <1>2 DEF InsertsFirst, Go, TypeOK, LocksSound, InTransaction
  <2>2. \A r \in Saves : ~Exists(r)
    BY <1>2 DEF HistoryLinear, LatestIsCurrent
  <2>3. \A t \in Saves : pc[t] # "locked"
    BY <2>2 DEF LocksSound, IsCurrent, TypeOK
  <2> QED
    BY <2>1, <2>2, <2>3 DEF LocksSound, Holds, Exists, IsCurrent, InTransaction
<1> QED
  BY <1>1, <1>2

-----------------------------------------------------------------------------
(* The commit of a new version *)

LEMMA CommitsSound ==
    ASSUME TypeOK, HistoryLinear, LocksSound, NEW s \in Saves, Commits(s)
    PROVE  LocksSound' /\ HistoryLinear'
<1>1. /\ pc[s] = "inserted" /\ ~Exists(s) /\ pc'[s] = "sync"
      /\ \A t \in Saves : t # s => pc'[t] = pc[t] /\ lock'[t] = lock[t]
      /\ lock[s] # None => lock[s] \in Saves /\ IsCurrent(lock[s]) /\ lock[s] # s
      /\ lock[s] = None => \A r \in Saves : ~Exists(r)
  BY DEF Commits, Go, TypeOK, LocksSound, InTransaction, IsCurrent
\* No other transaction is past its lock.
<1>2. ASSUME NEW t \in Saves, t # s PROVE pc[t] \notin {"locked", "inserted"}
  <2>1. SUFFICES ASSUME pc[t] \in {"locked", "inserted"} PROVE lock[t] = lock[s]
    BY <1>1, <1>2 DEF LocksSound, Holds
  <2>2. CASE lock[s] = None
    BY <1>1, <2>1, <2>2 DEF LocksSound, IsCurrent, TypeOK
  <2>3. CASE lock[s] # None
    <3>1. lock[t] \in Saves /\ IsCurrent(lock[t])
      BY <1>1, <2>1, <2>3 DEF LocksSound, IsCurrent, TypeOK
    <3> QED
      BY <1>1, <2>3, <3>1, OneCurrent
  <2> QED
    BY <2>2, <2>3
<1>n. PICK n : n = [version |-> NewVersion(s), current |-> TRUE, content |-> merged[s]]
  OBVIOUS
<1>3. NewVersion(s) \in Nat \ {0}
  BY <1>1 DEF NewVersion, TypeOK, Row, IsCurrent, Exists
<1>4. n \in Row /\ n # None /\ n.version = NewVersion(s) /\ n.current = TRUE
  <2>1. merged[s] \in Content
    BY DEF TypeOK
  <2>2. n \in Row
    BY <1>n, <1>3, <2>1 DEF Row
  <2> QED
    BY <1>n, <2>2, NoneNoRecord
<1>5. /\ profile'[s] = n
      /\ \A r \in Saves : r # s /\ r # lock[s] => profile'[r] = profile[r]
      /\ lock[s] # None => profile'[lock[s]] = [profile[lock[s]] EXCEPT !.current = FALSE]
  BY <1>1, <1>n DEF Commits
<1>6. ASSUME NEW r \in Saves, r # s
      PROVE  /\ Exists(r)' <=> Exists(r)
             /\ Exists(r) => /\ profile'[r].version = profile[r].version
                             /\ profile[r].version \in Nat
                             /\ ~profile'[r].current
  <2>1. CASE r = lock[s]
    <3>1. profile[r] \in Row /\ lock[s] # None
      BY <1>1, <2>1, NoneNoSave DEF TypeOK, IsCurrent, Exists
    <3>2. PICK d : d = [profile[r] EXCEPT !.current = FALSE]
      OBVIOUS
    <3>3. d \in Row /\ d.version = profile[r].version /\ ~d.current
      BY <3>1, <3>2 DEF Row
    <3>4. profile'[r] = d /\ d # None /\ profile[r] # None
      BY <1>5, <2>1, <3>1, <3>2, <3>3, NoneNoRecord
    <3> QED
      BY <3>1, <3>3, <3>4 DEF Exists, Row
  <2>2. CASE r # lock[s]
    <3>1. profile'[r] = profile[r]
      BY <1>5, <1>6, <2>2
    <3>2. Exists(r) => ~IsCurrent(r)
      BY <1>1, <2>2, OneCurrent
    <3> QED
      BY <3>1, <3>2 DEF IsCurrent, Exists, TypeOK, Row
  <2> QED
    BY <2>1, <2>2
\* The new version is one above the highest, or the first.
<1>7. ASSUME NEW r \in Saves, Exists(r)
      PROVE  /\ lock[s] # None /\ Exists(lock[s])
             /\ NewVersion(s) = profile[lock[s]].version + 1
             /\ profile[r].version <= profile[lock[s]].version
             /\ profile[lock[s]].version \in Nat
  BY <1>1, <1>7 DEF NewVersion, HistoryLinear, LatestIsCurrent, IsCurrent, Exists, TypeOK, Row
<1>8. VersionsDistinct'
  <2> SUFFICES ASSUME NEW q \in Saves, NEW r \in Saves, Exists(q)', Exists(r)',
                      profile'[q].version = profile'[r].version, q # r
               PROVE  FALSE
    BY DEF VersionsDistinct
  <2>1. CASE q = s
    BY <1>3, <1>4, <1>5, <1>6, <1>7, <2>1
  <2>2. CASE r = s
    BY <1>3, <1>4, <1>5, <1>6, <1>7, <2>2
  <2>3. CASE q # s /\ r # s
    BY <1>6, <2>3 DEF HistoryLinear, VersionsDistinct
  <2> QED
    BY <2>1, <2>2, <2>3
<1>9. NoVersionMissing'
  <2> SUFFICES ASSUME NEW r \in Saves, Exists(r)', NEW v \in 1..profile'[r].version
               PROVE  \E q \in Saves : Exists(q)' /\ profile'[q].version = v
    BY DEF NoVersionMissing
  <2>1. CASE r = s /\ v = NewVersion(s)
    BY <1>4, <1>5, <2>1 DEF Exists
  <2>2. ASSUME NEW p \in Saves, Exists(p), v \in 1..profile[p].version
        PROVE  \E q \in Saves : Exists(q)' /\ profile'[q].version = v
    <3>1. PICK q \in Saves : Exists(q) /\ profile[q].version = v
      BY <2>2 DEF HistoryLinear, NoVersionMissing
    <3>2. q # s
      BY <1>1, <3>1
    <3> QED
      BY <1>6, <3>1, <3>2
  <2>3. CASE r = s /\ v # NewVersion(s)
    <3>1. lock[s] # None
      BY <1>4, <1>5, <2>3 DEF NewVersion
    <3>2. lock[s] \in Saves /\ Exists(lock[s]) /\ v \in 1..profile[lock[s]].version
      <4>1. lock[s] \in Saves /\ Exists(lock[s])
        BY <1>1, <3>1 DEF IsCurrent
      <4>2. profile[lock[s]].version \in Nat
        BY <4>1 DEF TypeOK, Row, Exists
      <4>3. v \in 1..(profile[lock[s]].version + 1) /\ v # profile[lock[s]].version + 1
        BY <1>4, <1>5, <2>3, <3>1 DEF NewVersion
      <4> QED
        BY <4>1, <4>2, <4>3
    <3> QED
      BY <2>2, <3>2
  <2>4. CASE r # s
    BY <1>6, <2>2, <2>4
  <2> QED
    BY <2>1, <2>3, <2>4
<1>10. LatestIsCurrent'
  <2>1. IsCurrent(s)'
    BY <1>4, <1>5 DEF IsCurrent, Exists
  <2>2. ASSUME NEW r \in Saves, Exists(r)', profile'[r].current, NEW q \in Saves, Exists(q)'
        PROVE  profile'[q].version <= profile'[r].version
    <3>1. r = s
      BY <1>6, <2>2
    <3> QED
      BY <1>3, <1>4, <1>5, <1>6, <1>7, <2>2, <3>1
  <2> QED
    BY <2>1, <2>2 DEF LatestIsCurrent
<1>11. LocksSound'
  <2>1. \A t \in Saves : pc'[t] \notin {"locked", "inserted"}
    BY <1>1, <1>2
  <2>2. \A t \in Saves : pc'[t] \in {"idle", "merged"} \cup InTransaction => t # s
    BY <1>1 DEF InTransaction
  <2>3. \A t \in Saves : pc'[t] \in {"idle", "merged"} \cup InTransaction => ~Exists(t)'
    BY <1>1, <1>6, <2>2 DEF LocksSound
  <2> QED
    BY <1>1, <2>1, <2>2, <2>3 DEF LocksSound, InTransaction
<1> QED
  BY <1>8, <1>9, <1>10, <1>11 DEF HistoryLinear

-----------------------------------------------------------------------------
(* The inductive invariant *)

LEMMA InitIInv == Init => IInv
<1> SUFFICES ASSUME Init PROVE IInv
  OBVIOUS
<1>1. TypeOK
  BY InitType
<1> QED
  BY <1>1 DEF Init, IInv, HistoryLinear, VersionsDistinct, NoVersionMissing,
              LatestIsCurrent, LocksSound, FieldsNamed, CronSound, Exists, InTransaction

LEMMA NextIInv == IInv /\ [Next]_vars => IInv'
<1> SUFFICES ASSUME IInv, [Next]_vars PROVE IInv'
  OBVIOUS
<1> USE DEF IInv
<1>1. ASSUME NEW s \in Saves, NEW fs \in SUBSET Fields, NEW w \in Crawl,
             SaveReads(s, fs, w)
      PROVE  IInv'
  <2>1. HistoryLinear'
    BY <1>1 DEF SaveReads, HistoryLinear, VersionsDistinct, NoVersionMissing,
                LatestIsCurrent, Exists, IsCurrent
  <2> QED
    BY <1>1, <2>1, SaveReadsType, SaveReadsSound, SaveReadsNamed, SaveReadsCron
<1>2. ASSUME NEW s \in Saves,
             \/ LockCurrent(s) \/ Unblocks(s) \/ Inserts(s) \/ InsertsFirst(s) \/ Aborts(s)
      PROVE  IInv'
  <2>1. HistoryLinear'
    BY <1>2 DEF LockCurrent, Unblocks, Inserts, InsertsFirst, Aborts, HistoryLinear,
                VersionsDistinct, NoVersionMissing, LatestIsCurrent, Exists, IsCurrent
  <2>2. ASSUME Aborts(s) PROVE LocksSound'
    BY <2>2, LeaveSound DEF Aborts, Ended
  <2>3. LocksSound'
    BY <1>2, <2>2, LockCurrentSound, UnblocksSound, InsertsSound, InsertsFirstSound
  <2>4. FieldsNamed'
    <3>1. \A t \in Saves : (pc[t] = "idle") <=> (pc'[t] = "idle")
      BY <1>2 DEF LockCurrent, Unblocks, Inserts, InsertsFirst, Aborts, Go, TypeOK,
                  InTransaction
    <3> QED
      BY <1>2, <3>1, StepNamed
         DEF LockCurrent, Unblocks, Inserts, InsertsFirst, Aborts, Exists
  <2>5. TypeOK'
    BY <1>2, TransactionType
  <2>6. CronSound'
    BY <1>2, TransactionCron
  <2> QED
    BY <2>1, <2>3, <2>4, <2>5, <2>6
<1>3. ASSUME NEW s \in Saves, Commits(s)
      PROVE  IInv'
  <2>1. lock[s] # None => Exists(lock[s])
    BY <1>3 DEF Commits, LocksSound, IsCurrent
  <2>2. TypeOK'
    BY <1>3, <2>1, CommitsType
  <2>3. FieldsNamed'
    <3>1. \A t \in Saves : (pc[t] = "idle") <=> (pc'[t] = "idle")
      BY <1>3 DEF Commits, Go, TypeOK
    <3>2. ASSUME NEW r \in Saves, Exists(r)'
          PROVE  \/ Exists(r) /\ profile'[r].content = profile[r].content
                 \/ pc[r] # "idle" /\ profile'[r].content = merged[r]
      <4>1. CASE r = s
        BY <1>3, <4>1 DEF Commits
      <4>2. CASE r # s /\ r = lock[s]
        <5>1. profile[r] \in Row /\ Exists(r)
          BY <2>1, <4>2, NoneNoSave DEF TypeOK, Exists
        <5>2. profile'[r] = [profile[r] EXCEPT !.current = FALSE]
          BY <1>3, <4>2 DEF Commits
        <5> QED
          BY <5>1, <5>2 DEF Row
      <4>3. CASE r # s /\ r # lock[s]
        BY <1>3, <3>2, <4>3 DEF Commits, Exists
      <4> QED
        BY <4>1, <4>2, <4>3
    <3> QED
      BY <1>3, <3>1, <3>2, StepNamed DEF Commits
  <2>4. LocksSound' /\ HistoryLinear'
    BY <1>3, CommitsSound
  <2>5. CronSound'
    BY <1>3, TransactionCron
  <2> QED
    BY <2>2, <2>3, <2>4, <2>5
<1>4. ASSUME NEW s \in Saves, SyncStep(s)
      PROVE  IInv'
  <2>1. profile' = profile /\ lock' = lock /\ UNCHANGED merged /\ pc[s] \in Syncing
    BY <1>4 DEF SyncStep, FindsJob, CreatesJob, UpdatesJob, ResumesJob, PausesJob,
                SyncFails, Syncing
  <2>2. PICK l \in Syncing \cup Ended : Go(s, l)
    BY <1>4 DEF SyncStep, FindsJob, CreatesJob, UpdatesJob, ResumesJob, PausesJob,
                SyncFails, Syncing, Ended, Go
  <2>3. HistoryLinear' /\ LocksSound'
    BY <2>1, <2>2, LeaveSound DEF HistoryLinear, VersionsDistinct, NoVersionMissing,
                                  LatestIsCurrent, Exists, IsCurrent
  <2>4. FieldsNamed'
    <3>1. \A t \in Saves : (pc[t] = "idle") <=> (pc'[t] = "idle")
      BY <2>1, <2>2 DEF Go, TypeOK, Syncing, Ended
    <3> QED
      BY <2>1, <3>1, StepNamed DEF Exists
  <2> QED
    BY <1>4, <2>3, <2>4, SyncStepType
<1>5. CASE UNCHANGED vars
  BY <1>5 DEF vars, TypeOK, HistoryLinear, VersionsDistinct, NoVersionMissing,
              LatestIsCurrent, LocksSound, FieldsNamed, CronSound, Exists, IsCurrent, Holds,
              Setting, CrawlOf
<1> QED
  BY <1>1, <1>2, <1>3, <1>4, <1>5 DEF Next, Step, SyncStep

\* What the proofs below rest on: the row locks and the index of CreateVersion
\* admit one transaction at a time past its SELECT ... FOR UPDATE.
THEOREM Invariance == Spec => []IInv
  BY InitIInv, NextIInv, PTL DEF Spec

\* Saves, their transactions and the calls to the scheduler stay in their
\* types; no cron job is ever given a schedule by a profile whose crawl is off.
THEOREM TypeCorrect == Spec => []TypeOK
<1>1. IInv => TypeOK
  BY DEF IInv
<1> QED
  BY <1>1, Invariance, PTL

\* However many saves overlap, commit or roll back, CreateVersion leaves one
\* line of versions without gap or duplicate, whose latest row is the only
\* current one.
THEOREM VersionsLinear == Spec => []HistoryLinear
<1>1. IInv => HistoryLinear
  BY DEF IInv
<1> QED
  BY <1>1, Invariance, PTL
-----------------------------------------------------------------------------
(* The cron job follows the profile *)

\* Saves that talk to the scheduler at once know of each other; while the save of
\* the current version is not among them, nobody else talks to it.
Crosses ==
    \A s, t \in Saves :
        pc[s] \in Syncing /\ pc[t] \in Syncing /\ s # t => s \in crossed /\ t \in crossed
CurrentIsAlone ==
    \A r, t \in Saves : IsCurrent(r) /\ r \notin crossed /\ pc[t] \in Syncing => t = r

\* A version keeps the content that its save computed.
ContentIsMerged == \A s \in Saves : Exists(s) => profile[s].content = merged[s]

\* Second jobs come from saves that met; the job that is created would be one.
JobsCrossed ==
    \A i, j \in Saves : cron[i] # None /\ cron[j] # None /\ i # j => i \in crossed /\ j \in crossed
CreatesCrossed ==
    \A s, j \in Saves : pc[s] = "create" /\ cron[j] # None => s \in crossed /\ j \in crossed

\* What a save has decided by its own setting, and what it has already told the job.
Decided ==
    \A s \in Saves :
        /\ pc[s] \in {"create", "update", "resume"} => Setting(s) # "off"
        /\ pc[s] = "pause" => Setting(s) = "off"
        /\ pc[s] = "resume" /\ s \notin crossed => cron[target[s]].schedule = Setting(s)

Follows ==
    \A r \in Saves :
        IsCurrent(r) /\ pc[r] = "done" /\ r \notin crossed /\ OneCronJob =>
            Scheduled = {CrawlOf(profile[r].content)} \ {"off"}

SyncInv ==
    /\ Crosses /\ CurrentIsAlone /\ ContentIsMerged /\ JobsCrossed /\ CreatesCrossed
    /\ Decided /\ Follows

\* What a content says of the crawl is settled once it is written.
LEMMA SaveReadsCrawl ==
    ASSUME TypeOK, FieldsNamed, NEW s \in Saves, NEW fs \in SUBSET Fields,
           NEW w \in Crawl, SaveReads(s, fs, w), NEW r \in Saves, IsCurrent(r)
    PROVE  CrawlOf(profile[r].content)' = CrawlOf(profile[r].content)
<1>1. "crawl" \in Fields /\ pc[s] = "idle" /\ profile' = profile
  BY DEF Fields, SaveReads
<1>2. profile[r].content["crawl"] # None => profile[r].content["crawl"] # s
  BY <1>1 DEF FieldsNamed, IsCurrent
<1> QED
  BY <1>1, <1>2 DEF CrawlOf, SaveReads, TypeOK, Row, Content, IsCurrent, Exists

LEMMA SaveReadsSync ==
    ASSUME IInv, SyncInv, NEW s \in Saves, NEW fs \in SUBSET Fields, NEW w \in Crawl,
           SaveReads(s, fs, w)
    PROVE  SyncInv'
<1> USE DEF SyncInv, IInv
<1>1. /\ pc'[s] = "merged" /\ pc[s] = "idle" /\ UNCHANGED <<profile, cron, target, crossed>>
      /\ \A t \in Saves : t # s => pc'[t] = pc[t] /\ merged'[t] = merged[t]
  BY DEF SaveReads, Go, TypeOK
<1>2. ASSUME NEW t \in Saves, pc'[t] \in Syncing PROVE Setting(t)' = Setting(t) /\ pc[t] = pc'[t]
  <2>1. t # s /\ pc[t] = pc'[t] /\ pc[t] # "idle" /\ merged'[t] = merged[t] /\ "crawl" \in Fields
    BY <1>1, <1>2 DEF Syncing, Fields
  <2>2. merged[t]["crawl"] # None => merged[t]["crawl"] # s
    BY <1>1, <2>1 DEF FieldsNamed
  <2> QED
    BY <2>1, <2>2 DEF Setting, CrawlOf, SaveReads, TypeOK, Content
<1>3. Crosses' /\ CurrentIsAlone' /\ JobsCrossed' /\ CreatesCrossed'
  BY <1>1, <1>2 DEF Crosses, CurrentIsAlone, JobsCrossed, CreatesCrossed, IsCurrent, Exists, Syncing
<1>4. ContentIsMerged'
  BY <1>1 DEF ContentIsMerged, Exists, LocksSound, InTransaction
<1>5. Decided'
  BY <1>1, <1>2 DEF Decided, Syncing
<1>6. Follows'
  <2> SUFFICES ASSUME NEW r \in Saves, IsCurrent(r), pc'[r] = "done", r \notin crossed, OneCronJob
               PROVE  Scheduled' = {CrawlOf(profile[r].content)'} \ {"off"}
    BY <1>1 DEF Follows, IsCurrent, Exists, OneCronJob
  <2>1. Scheduled = {CrawlOf(profile[r].content)} \ {"off"}
    BY <1>1 DEF Follows
  <2>2. Scheduled' = Scheduled
    BY <1>1 DEF Scheduled, IsEnabled
  <2> QED
    BY <2>1, <2>2, SaveReadsCrawl
<1> QED
  BY <1>3, <1>4, <1>5, <1>6

\* The transaction, up to its end or its failure, touches neither the scheduler nor
\* what is current.
LEMMA TransactionSync ==
    ASSUME IInv, SyncInv, NEW s \in Saves,
           \/ LockCurrent(s) \/ Unblocks(s) \/ Inserts(s) \/ InsertsFirst(s) \/ Aborts(s)
    PROVE  SyncInv'
<1> USE DEF SyncInv, IInv
<1>1. /\ pc'[s] \in {"failed"} \cup InTransaction
      /\ UNCHANGED <<profile, cron, target, crossed, merged, wants>>
      /\ \A t \in Saves : t # s => pc'[t] = pc[t]
  BY DEF LockCurrent, Unblocks, Inserts, InsertsFirst, Aborts, Go, TypeOK, InTransaction
<1>2. \A t \in Saves : pc'[t] \in Syncing \cup {"done"} => pc[t] = pc'[t]
  BY <1>1 DEF Syncing, InTransaction
<1>3. /\ \A t \in Saves : Setting(t)' = Setting(t)
      /\ \A c : CrawlOf(c)' = CrawlOf(c)
  BY <1>1 DEF Setting, CrawlOf
<1>4. Crosses' /\ CurrentIsAlone' /\ JobsCrossed' /\ CreatesCrossed' /\ ContentIsMerged'
  BY <1>1, <1>2 DEF Crosses, CurrentIsAlone, JobsCrossed, CreatesCrossed, ContentIsMerged,
                    IsCurrent, Exists, Syncing
<1>5. Decided'
  BY <1>1, <1>2, <1>3 DEF Decided, Syncing
<1>6. Follows'
  BY <1>1, <1>2, <1>3 DEF Follows, IsCurrent, Exists, OneCronJob, Scheduled, IsEnabled
<1> QED
  BY <1>4, <1>5, <1>6

\* The new version is current and has the content that was computed for it.
LEMMA CommitsCurrent ==
    ASSUME IInv, NEW s \in Saves, Commits(s)
    PROVE  IsCurrent(s)' /\ profile'[s].content = merged[s]
<1>1. PICK n : n = [version |-> NewVersion(s), current |-> TRUE, content |-> merged[s]]
  OBVIOUS
<1>2. /\ pc[s] = "inserted" /\ merged[s] \in Content /\ lock[s] \in Saves \cup {None}
      /\ lock[s] # None => IsCurrent(lock[s])
  BY DEF Commits, IInv, TypeOK, LocksSound
<1>3. NewVersion(s) \in Nat \ {0}
  BY <1>2 DEF NewVersion, IInv, TypeOK, Row, IsCurrent, Exists
<1>4. n \in Row /\ n.current = TRUE /\ n.content = merged[s]
  <2>1. n \in Row
    BY <1>1, <1>2, <1>3 DEF Row
  <2> QED
    BY <1>1, <2>1
<1>5. profile'[s] = n /\ n # None
  BY <1>1, <1>4, NoneNoRecord DEF Commits
<1> QED
  BY <1>4, <1>5 DEF IsCurrent, Exists

LEMMA CommitsContent ==
    ASSUME IInv, ContentIsMerged, NEW s \in Saves, Commits(s)
    PROVE  ContentIsMerged'
<1> SUFFICES ASSUME NEW r \in Saves, Exists(r)' PROVE profile'[r].content = merged[r]
  BY DEF ContentIsMerged, Commits
<1>1. CASE r = s
  BY <1>1, CommitsCurrent
<1>2. CASE r # s /\ r = lock[s]
  <2>1. profile[r] \in Row /\ Exists(r)
    BY <1>2, NoneNoSave DEF IInv, LocksSound, Commits, IsCurrent, TypeOK, Exists
  <2>2. profile'[r] = [profile[r] EXCEPT !.current = FALSE]
    BY <1>2 DEF Commits
  <2> QED
    BY <2>1, <2>2 DEF ContentIsMerged, Row
<1>3. CASE r # s /\ r # lock[s]
  BY <1>3 DEF Commits, ContentIsMerged, Exists
<1> QED
  BY <1>1, <1>2, <1>3

LEMMA CommitsSync ==
    ASSUME IInv, IInv', SyncInv, NEW s \in Saves, Commits(s)
    PROVE  SyncInv'
<1> USE DEF SyncInv
<1>1. /\ pc[s] = "inserted" /\ pc'[s] = "sync" /\ UNCHANGED <<cron, merged, wants, target>>
      /\ \A t \in Saves : t # s => pc'[t] = pc[t]
  BY DEF Commits, Go, IInv, TypeOK
<1>2. crossed \subseteq crossed'
  BY DEF Commits
<1>3. ASSUME NEW t \in Saves, t # s, pc[t] \in Syncing PROVE t \in crossed' /\ s \in crossed'
  BY <1>3 DEF Commits, Meets
<1>4. \A r \in Saves : IsCurrent(r)' => r = s
  <2>1. IsCurrent(s)'
    BY CommitsCurrent
  <2> SUFFICES ASSUME NEW r \in Saves, IsCurrent(r)' PROVE r = s
    OBVIOUS
  <2>2. profile'[r].version <= profile'[s].version /\ profile'[s].version <= profile'[r].version
    BY <2>1 DEF IInv, HistoryLinear, LatestIsCurrent, IsCurrent
  <2>3. profile'[r].version \in Nat /\ profile'[s].version \in Nat
    BY <2>1 DEF IInv, TypeOK, Row, IsCurrent, Exists
  <2> QED
    BY <2>1, <2>2, <2>3 DEF IInv, HistoryLinear, VersionsDistinct, IsCurrent
<1>5. Crosses' /\ CurrentIsAlone'
  BY <1>1, <1>2, <1>3, <1>4 DEF Crosses, CurrentIsAlone
<1>6. JobsCrossed' /\ CreatesCrossed'
  BY <1>1, <1>2 DEF JobsCrossed, CreatesCrossed
<1>7. Decided'
  <2>1. \A t \in Saves : Setting(t)' = Setting(t)
    BY <1>1 DEF Setting, CrawlOf
  <2> QED
    BY <1>1, <1>2, <2>1 DEF Decided
<1>8. Follows'
  BY <1>1, <1>4 DEF Follows
<1> QED
  BY <1>5, <1>6, <1>7, <1>8, CommitsContent

-----------------------------------------------------------------------------
(* The talk with the scheduler *)

\* Whoever else talks to the scheduler has met the save that does a step now, so
\* what is known of the others is kept.
LEMMA SyncStepOthers ==
    ASSUME IInv, SyncInv, NEW s \in Saves, SyncStep(s)
    PROVE  /\ UNCHANGED <<profile, wants, merged, crossed>>
           /\ pc[s] \in Syncing /\ pc'[s] \in Syncing \cup {"done", "unsynced"}
           /\ \A t \in Saves : t # s => pc'[t] = pc[t] /\ target'[t] = target[t]
           /\ \A t \in Saves : Setting(t)' = Setting(t)
           /\ \A t \in Saves : t # s /\ pc[t] \in Syncing => t \in crossed /\ s \in crossed
           /\ Crosses' /\ CurrentIsAlone' /\ ContentIsMerged'
<1>1. /\ UNCHANGED <<profile, wants, merged, crossed>>
      /\ pc[s] \in Syncing /\ pc'[s] \in Syncing \cup {"done", "unsynced"}
      /\ \A t \in Saves : t # s => pc'[t] = pc[t] /\ target'[t] = target[t]
  BY DEF SyncStep, FindsJob, CreatesJob, UpdatesJob, ResumesJob, PausesJob, SyncFails,
         Go, IInv, TypeOK, Syncing
<1>2. \A t \in Saves : Setting(t)' = Setting(t)
  BY <1>1 DEF Setting, CrawlOf
<1>3. \A t \in Saves : pc'[t] \in Syncing => pc[t] \in Syncing
  BY <1>1
<1>4. Crosses' /\ CurrentIsAlone' /\ ContentIsMerged'
  BY <1>1, <1>3 DEF SyncInv, Crosses, CurrentIsAlone, ContentIsMerged, IsCurrent, Exists
<1>5. \A t \in Saves : t # s /\ pc[t] \in Syncing => t \in crossed /\ s \in crossed
  BY <1>1 DEF SyncInv, Crosses
<1> QED
  BY <1>1, <1>2, <1>4, <1>5

\* At the end of a talk that nobody crossed, what is scheduled is what the save has
\* set; the version of another save is then not the current one, or was crossed.
LEMMA SyncSettles ==
    ASSUME IInv, SyncInv, NEW s \in Saves, SyncStep(s),
           pc'[s] = "done" /\ s \notin crossed /\ OneCronJob' => Scheduled' = {Setting(s)} \ {"off"}
    PROVE  Follows'
<1> SUFFICES ASSUME NEW r \in Saves, IsCurrent(r), pc'[r] = "done", r \notin crossed, OneCronJob'
             PROVE  Scheduled' = {CrawlOf(profile[r].content)'} \ {"off"}
  BY SyncStepOthers DEF Follows, IsCurrent, Exists
<1>1. r = s
  BY SyncStepOthers DEF SyncInv, CurrentIsAlone
<1>2. profile[s].content = merged[s]
  BY <1>1 DEF SyncInv, ContentIsMerged, IsCurrent
<1>3. CrawlOf(profile[r].content)' = Setting(s)
  BY <1>1, <1>2, SyncStepOthers DEF Setting, CrawlOf
<1> QED
  BY <1>1, <1>3

LEMMA FindsJobSync ==
    ASSUME IInv, SyncInv, NEW s \in Saves, FindsJob(s)
    PROVE  SyncInv'
<1> USE DEF SyncInv, IInv
<1>0. SyncStep(s)
  BY DEF SyncStep
<1>1. cron' = cron /\ JobsCrossed' /\ (OneCronJob' <=> OneCronJob) /\ Scheduled' = Scheduled
  BY <1>0, SyncStepOthers DEF FindsJob, JobsCrossed, OneCronJob, Scheduled, IsEnabled
<1>2. CASE \A j \in Saves : cron[j] = None
  <2>1. pc'[s] = IF Setting(s) = "off" THEN "done" ELSE "create"
    BY <1>2 DEF FindsJob, Go, TypeOK
  <2>2. Scheduled' = {}
    BY <1>1, <1>2 DEF Scheduled, IsEnabled
  <2>3. CreatesCrossed' /\ Decided'
    BY <1>0, <1>1, <1>2, <2>1, SyncStepOthers DEF CreatesCrossed, Decided
  <2>4. Follows'
    BY <1>0, <2>1, <2>2, SyncSettles
  <2> QED
    BY <1>0, <1>1, <2>3, <2>4, SyncStepOthers
<1>3. ASSUME NEW j \in Saves, cron[j] # None, target' = [target EXCEPT ![s] = j],
             Go(s, IF Setting(s) # "off" THEN "update"
                   ELSE IF cron[j].enabled THEN "pause" ELSE "done")
      PROVE  SyncInv'
  <2>1. pc'[s] = IF Setting(s) # "off" THEN "update"
                 ELSE IF cron[j].enabled THEN "pause" ELSE "done"
    BY <1>3 DEF Go, TypeOK
  <2>2. CreatesCrossed' /\ Decided'
    BY <1>0, <1>1, <2>1, SyncStepOthers DEF CreatesCrossed, Decided
  <2>3. ASSUME pc'[s] = "done", OneCronJob' PROVE Scheduled' = {Setting(s)} \ {"off"}
    <3>1. Setting(s) = "off" /\ ~cron[j].enabled
      BY <2>1, <2>3
    <3>2. \A i \in Saves : ~IsEnabled(i)
      BY <1>1, <1>3, <2>3, <3>1 DEF IsEnabled, OneCronJob
    <3> QED
      BY <1>1, <3>1, <3>2 DEF Scheduled
  <2>4. Follows'
    BY <1>0, <2>3, SyncSettles
  <2> QED
    BY <1>0, <1>1, <2>2, <2>4, SyncStepOthers
<1> QED
  BY <1>2, <1>3 DEF FindsJob

LEMMA CreatesJobSync ==
    ASSUME IInv, SyncInv, NEW s \in Saves, CreatesJob(s)
    PROVE  SyncInv'
<1> USE DEF SyncInv, IInv
<1>0. SyncStep(s)
  BY DEF SyncStep
<1>1. PICK j : j = [schedule |-> Setting(s), enabled |-> TRUE]
  OBVIOUS
<1>2. pc[s] = "create" /\ Setting(s) \in Frequency /\ Setting(s) # "off"
  BY DEF CreatesJob, CronSound, Decided
<1>3. j.enabled = TRUE /\ j.schedule = Setting(s) /\ j # None
  <2>1. j \in Job
    BY <1>1, <1>2 DEF Job
  <2> QED
    BY <1>1, <2>1, NoneNoRecord
<1>4. /\ pc'[s] = "done" /\ cron'[s] = j /\ UNCHANGED target
      /\ \A i \in Saves : i # s => cron'[i] = cron[i]
  BY <1>1 DEF CreatesJob, Go, TypeOK
<1>5. \A i \in Saves : cron[i] # None => s \in crossed /\ i \in crossed
  BY <1>2 DEF CreatesCrossed
<1>6. JobsCrossed'
  BY <1>0, <1>4, <1>5, SyncStepOthers DEF JobsCrossed
<1>7. CreatesCrossed'
  <2> SUFFICES ASSUME NEW t \in Saves, NEW i \in Saves, pc'[t] = "create", cron'[i] # None
               PROVE  t \in crossed /\ i \in crossed
    BY <1>0, SyncStepOthers DEF CreatesCrossed
  <2>1. t # s /\ pc[t] = "create" /\ pc[t] \in Syncing
    BY <1>0, <1>4, SyncStepOthers DEF Syncing
  <2>2. t \in crossed /\ s \in crossed
    BY <1>0, <2>1, SyncStepOthers
  <2>3. CASE i = s
    BY <2>2, <2>3
  <2>4. CASE i # s
    BY <1>4, <2>1, <2>4 DEF CreatesCrossed
  <2> QED
    BY <2>3, <2>4
<1>8. Decided'
  <2> SUFFICES ASSUME NEW t \in Saves, t # s
               PROVE  /\ pc[t] \in {"create", "update", "resume"} => Setting(t) # "off"
                      /\ pc[t] = "pause" => Setting(t) = "off"
                      /\ pc[t] = "resume" /\ t \notin crossed => cron'[target[t]].schedule = Setting(t)
    BY <1>0, <1>4, SyncStepOthers DEF Decided
  <2>1. pc[t] = "resume" => t \in crossed
    BY <1>0, SyncStepOthers DEF Syncing
  <2> QED
    BY <2>1 DEF Decided
<1>9. Follows'
  <2>1. ASSUME s \notin crossed PROVE Scheduled' = {Setting(s)} \ {"off"}
    <3>1. \A i \in Saves : i # s => cron'[i] = None
      BY <1>4, <1>5, <2>1
    <3>2. {i \in Saves : IsEnabled(i)'} = {s}
      BY <1>3, <1>4, <3>1 DEF IsEnabled
    <3>3. Scheduled' = {Setting(s)}
      BY <1>3, <1>4, <3>2 DEF Scheduled
    <3> QED
      BY <1>2, <3>3
  <2> QED
    BY <1>0, <2>1, SyncSettles
<1> QED
  BY <1>0, <1>6, <1>7, <1>8, <1>9, SyncStepOthers

LEMMA ChangesJobSync ==
    ASSUME IInv, SyncInv, NEW s \in Saves, UpdatesJob(s) \/ ResumesJob(s) \/ PausesJob(s)
    PROVE  SyncInv'
<1> USE DEF SyncInv, IInv
<1>0. SyncStep(s)
  BY DEF SyncStep
<1>1. /\ target[s] \in Saves /\ cron[target[s]] \in Job /\ cron[target[s]] # None
      /\ pc[s] \in {"update", "resume", "pause"}
  BY DEF UpdatesJob, ResumesJob, PausesJob, CronSound, TypeOK
<1>2. PICK j : j = IF pc[s] = "update" THEN [cron[target[s]] EXCEPT !.schedule = Setting(s)]
                   ELSE [cron[target[s]] EXCEPT !.enabled = (pc[s] = "resume")]
  OBVIOUS
<1>3. cron' = [cron EXCEPT ![target[s]] = j] /\ target' = target
  BY <1>1, <1>2 DEF UpdatesJob, ResumesJob, PausesJob
<1>4. /\ pc[s] = "update" => j.schedule = Setting(s) /\ pc'[s] = "resume"
      /\ pc[s] = "resume" => /\ j.schedule = cron[target[s]].schedule /\ j.enabled
                             /\ pc'[s] = "done"
      /\ pc[s] = "pause" => ~j.enabled /\ pc'[s] = "done"
  BY <1>1, <1>2 DEF UpdatesJob, ResumesJob, PausesJob, Go, TypeOK, Job
<1>5. j # None
  <2>1. pc[s] = "update" => Setting(s) \in Frequency
    BY DEF CronSound
  <2>2. j \in Job
    BY <1>1, <1>2, <2>1 DEF Job
  <2> QED
    BY <2>2, NoneNoRecord
<1>6. /\ cron'[target[s]] = j
      /\ \A i \in Saves : i # target[s] => cron'[i] = cron[i]
      /\ \A i \in Saves : cron'[i] # None <=> cron[i] # None
  BY <1>1, <1>3, <1>5 DEF TypeOK
<1>7. JobsCrossed' /\ (OneCronJob' <=> OneCronJob)
  BY <1>0, <1>6, SyncStepOthers DEF JobsCrossed, OneCronJob
<1>8. CreatesCrossed'
  BY <1>0, <1>1, <1>4, <1>6, SyncStepOthers DEF CreatesCrossed
<1>9. Decided'
  <2>1. ASSUME NEW t \in Saves, t # s, pc[t] = "resume" PROVE t \in crossed
    BY <1>0, <2>1, SyncStepOthers DEF Syncing
  <2>2. pc'[s] = "resume" => cron'[target'[s]].schedule = Setting(s) /\ Setting(s) # "off"
    BY <1>1, <1>3, <1>4, <1>6 DEF Decided
  <2>3. pc'[s] \in {"resume", "done"}
    BY <1>1, <1>4
  <2> QED
    BY <1>0, <1>3, <2>1, <2>2, <2>3, SyncStepOthers DEF Decided
<1>10. Follows'
  <2>1. ASSUME pc'[s] = "done", s \notin crossed, OneCronJob'
        PROVE  Scheduled' = {Setting(s)} \ {"off"}
    <3>1. \A i \in Saves : i # target[s] => cron'[i] = None
      BY <1>1, <1>6, <1>7, <2>1 DEF OneCronJob
    <3>2. CASE pc[s] = "pause"
      <4>1. \A i \in Saves : ~IsEnabled(i)'
        BY <1>4, <1>6, <3>1, <3>2 DEF IsEnabled
      <4>2. Setting(s) = "off"
        BY <3>2 DEF Decided
      <4> QED
        BY <4>1, <4>2 DEF Scheduled
    <3>3. CASE pc[s] = "resume"
      <4>1. {i \in Saves : IsEnabled(i)'} = {target[s]}
        BY <1>1, <1>4, <1>5, <1>6, <3>1, <3>3 DEF IsEnabled
      <4>2. j.schedule = Setting(s) /\ Setting(s) # "off"
        BY <1>4, <2>1, <3>3 DEF Decided
      <4> QED
        BY <1>6, <4>1, <4>2 DEF Scheduled
    <3> QED
      BY <1>1, <1>4, <2>1, <3>2, <3>3
  <2> QED
    BY <1>0, <2>1, SyncSettles
<1> QED
  BY <1>0, <1>7, <1>8, <1>9, <1>10, SyncStepOthers

LEMMA SyncFailsSync ==
    ASSUME IInv, SyncInv, NEW s \in Saves, SyncFails(s)
    PROVE  SyncInv'
<1> USE DEF SyncInv, IInv
<1>0. SyncStep(s)
  BY DEF SyncStep
<1>1. pc'[s] = "unsynced" /\ UNCHANGED <<cron, target>>
  BY DEF SyncFails, Go, TypeOK
<1>2. JobsCrossed' /\ CreatesCrossed' /\ Decided'
  BY <1>0, <1>1, SyncStepOthers DEF JobsCrossed, CreatesCrossed, Decided
<1>3. Follows'
  BY <1>0, <1>1, SyncSettles
<1> QED
  BY <1>0, <1>2, <1>3, SyncStepOthers

LEMMA NextSync == IInv /\ IInv' /\ SyncInv /\ [Next]_vars => SyncInv'
<1> SUFFICES ASSUME IInv, IInv', SyncInv, [Next]_vars PROVE SyncInv'
  OBVIOUS
<1>1. CASE UNCHANGED vars
  BY <1>1 DEF vars, SyncInv, Crosses, CurrentIsAlone, ContentIsMerged, JobsCrossed, CreatesCrossed,
              Decided, Follows, OneCronJob, Scheduled, IsEnabled, IsCurrent, Exists, Setting, CrawlOf
<1> QED
  BY <1>1, SaveReadsSync, TransactionSync, CommitsSync, FindsJobSync, CreatesJobSync,
     ChangesJobSync, SyncFailsSync DEF Next, Step

LEMMA InitSync == Init => SyncInv
  BY DEF Init, SyncInv, Crosses, CurrentIsAlone, ContentIsMerged, JobsCrossed, CreatesCrossed,
         Decided, Follows, IsCurrent, Exists, Syncing

\* However many saves overlap, and whatever fails: a second cron job comes only of
\* saves that talked to the scheduler at once; and after a save that nobody crossed
\* and that reached the scheduler, the job runs as the current profile says, although
\* earlier saves may have left it at an old pace, half changed or paused.
THEOREM CronFollows == Spec => []CronFollowsProfile
<1>1. Spec => []SyncInv
  BY InitSync, NextSync, Invariance, PTL DEF Spec
<1>2. SyncInv => CronFollowsProfile
  BY DEF SyncInv, JobsCrossed, Follows, CronFollowsProfile
<1> QED
  BY <1>1, <1>2, PTL

-----------------------------------------------------------------------------
(* The table implements an append-only history *)

RecordedAs(n, e) ==
    Exists(e.by) /\ profile[e.by].version = n /\ profile[e.by].content = e.content

\* A version is recorded once.
LEMMA RecordedIs ==
    \A r \in Saves : TypeOK /\ HistoryLinear /\ Exists(r) =>
        Recorded(profile[r].version) = [by |-> r, content |-> profile[r].content]
<1> SUFFICES ASSUME TypeOK, HistoryLinear, NEW r \in Saves, Exists(r)
             PROVE  Recorded(profile[r].version) = [by |-> r, content |-> profile[r].content]
  OBVIOUS
<1> DEFINE Is(e) == RecordedAs(profile[r].version, e)
           e0 == [by |-> r, content |-> profile[r].content]
           E == [by: Saves, content: Content]
<1>1. profile[r].content \in Content
  BY DEF TypeOK, Row, Exists
<1>2. e0 \in E /\ Is(e0)
  BY <1>1 DEF RecordedAs
<1>3. ASSUME NEW e \in E, Is(e) PROVE e = e0
  <2>1. e.by = r
    BY <1>3 DEF RecordedAs, HistoryLinear, VersionsDistinct
  <2> QED
    BY <1>3, <2>1 DEF RecordedAs
<1>4. (CHOOSE e \in E : Is(e)) = e0
  <2> HIDE DEF Is, e0
  <2> QED
    BY <1>2, <1>3
<1> QED
  BY <1>4 DEF Recorded, RecordedAs

LEMMA CurrentVersionIs ==
    \A r \in Saves : TypeOK /\ HistoryLinear /\ IsCurrent(r)
                       => CurrentVersion = profile[r].version
<1> SUFFICES ASSUME TypeOK, HistoryLinear, NEW r \in Saves, IsCurrent(r)
             PROVE  CurrentVersion = profile[r].version
  OBVIOUS
<1>1. \A q \in Saves : IsCurrent(q) => q = r
  BY OneCurrent
<1>2. (CHOOSE q \in Saves : IsCurrent(q)) = r
  BY <1>1
<1> QED
  BY <1>2 DEF CurrentVersion

LEMMA CurrentVersionNat ==
    ASSUME TypeOK, HistoryLinear
    PROVE  /\ CurrentVersion \in Nat
           /\ \A r \in Saves : Exists(r) =>
                profile[r].version \in 1..CurrentVersion
<1>1. CASE \A r \in Saves : ~IsCurrent(r)
  BY <1>1 DEF CurrentVersion, HistoryLinear, LatestIsCurrent
<1>2. ASSUME NEW r \in Saves, IsCurrent(r)
      PROVE  /\ CurrentVersion \in Nat
             /\ \A q \in Saves : Exists(q) => profile[q].version \in 1..CurrentVersion
  <2>1. CurrentVersion = profile[r].version
    BY <1>2, CurrentVersionIs
  <2>2. \A q \in Saves : Exists(q) => profile[q].version \in Nat \ {0}
    BY DEF TypeOK, Row, Exists
  <2> QED
    BY <1>2, <2>1, <2>2 DEF HistoryLinear, LatestIsCurrent, IsCurrent
<1> QED
  BY <1>1, <1>2

\* What a commit leaves in the table.
LEMMA CommitsRecords ==
    ASSUME IInv, IInv', NEW s \in Saves, Commits(s)
    PROVE  /\ ~Exists(s)
           /\ CurrentVersion' = CurrentVersion + 1
           /\ \A n \in Nat : n = CurrentVersion + 1 =>
                Recorded(n)' = [by |-> s, content |-> merged[s]]
           /\ \A n \in 1..CurrentVersion : Recorded(n)' = Recorded(n)
<1> USE DEF IInv
<1>1. /\ ~Exists(s) /\ lock[s] # s
      /\ lock[s] # None => lock[s] \in Saves /\ IsCurrent(lock[s])
      /\ lock[s] = None => \A r \in Saves : ~Exists(r)
  <2>1. pc[s] = "inserted" /\ lock[s] \in Saves \cup {None}
    BY DEF Commits, TypeOK
  <2>2. /\ ~Exists(s)
        /\ lock[s] # None => IsCurrent(lock[s])
        /\ lock[s] = None => \A r \in Saves : ~Exists(r)
    BY <2>1 DEF LocksSound, InTransaction
  <2> QED
    BY <2>1, <2>2, NoneNoSave DEF IsCurrent
<1>2. /\ profile'[s] = [version |-> NewVersion(s), current |-> TRUE, content |-> merged[s]]
      /\ \A r \in Saves : r # s /\ r # lock[s] => profile'[r] = profile[r]
      /\ lock[s] # None => profile'[lock[s]] = [profile[lock[s]] EXCEPT !.current = FALSE]
  BY <1>1 DEF Commits
<1>3. NewVersion(s) = CurrentVersion + 1 /\ CurrentVersion \in Nat
  <2>1. CASE lock[s] = None
    BY <1>1, <2>1 DEF NewVersion, CurrentVersion, IsCurrent
  <2>2. CASE lock[s] # None
    BY <1>1, <2>2, CurrentVersionIs, CurrentVersionNat DEF NewVersion
  <2> QED
    BY <2>1, <2>2
<1>4. IsCurrent(s)' /\ profile'[s].version = CurrentVersion + 1 /\ profile'[s].content = merged[s]
  <2>2. PICK d : d = [version |-> NewVersion(s), current |-> TRUE, content |-> merged[s]]
    OBVIOUS
  <2>3. d.version = NewVersion(s) /\ d.current = TRUE /\ d.content = merged[s]
    BY <2>2
  <2>4. d \in Row
    BY <1>2, <1>3, <2>2 DEF TypeOK, Row
  <2>5. profile'[s] = d /\ d # None
    BY <1>2, <2>2, <2>4, NoneNoRecord
  <2> QED
    BY <1>3, <2>3, <2>5 DEF IsCurrent, Exists
<1>5. CurrentVersion' = CurrentVersion + 1
  <2>1. (\A r \in Saves : TypeOK /\ HistoryLinear /\ IsCurrent(r)
                             => CurrentVersion = profile[r].version)'
    BY CurrentVersionIs, PTL
  <2> QED
    BY <1>4, <2>1
<1>6. ASSUME NEW n \in Nat, n = CurrentVersion + 1
      PROVE  Recorded(n)' = [by |-> s, content |-> merged[s]]
  <2>1. (\A r \in Saves : TypeOK /\ HistoryLinear /\ Exists(r) =>
           Recorded(profile[r].version) = [by |-> r, content |-> profile[r].content])'
    BY RecordedIs, PTL
  <2>2. /\ Recorded(profile[s].version)' = [by |-> s, content |-> profile'[s].content]
        /\ profile'[s].version = n
    BY <1>4, <1>6, <2>1 DEF IsCurrent
  <2>3. \A m : m = profile'[s].version => Recorded(m)' = Recorded(profile[s].version)'
    BY DEF Recorded
  <2> QED
    BY <1>4, <2>2, <2>3
<1>7. ASSUME NEW r \in Saves, r # s
      PROVE  /\ Exists(r)' <=> Exists(r)
             /\ Exists(r) => /\ profile'[r].version = profile[r].version
                             /\ profile'[r].content = profile[r].content
  <2>1. CASE r = lock[s]
    <3>1. profile[r] \in Row /\ profile'[r] = [profile[r] EXCEPT !.current = FALSE]
      BY <1>1, <1>2, <2>1, NoneNoSave DEF TypeOK, IsCurrent, Exists
    <3>2. PICK d : d = [profile[r] EXCEPT !.current = FALSE]
      OBVIOUS
    <3>3. d \in Row /\ d.version = profile[r].version /\ d.content = profile[r].content
      BY <3>1, <3>2 DEF Row
    <3> QED
      BY <3>1, <3>2, <3>3, NoneNoRecord DEF Exists
  <2>2. CASE r # lock[s]
    BY <1>2, <1>7, <2>2 DEF Exists
  <2> QED
    BY <2>1, <2>2
<1>8. ASSUME NEW n \in 1..CurrentVersion
      PROVE  Recorded(n)' = Recorded(n)
  <2>1. ASSUME NEW e \in [by: Saves, content: Content]
        PROVE  RecordedAs(n, e)' <=> RecordedAs(n, e)
    <3>1. CASE e.by = s
      BY <1>1, <1>3, <1>4, <3>1 DEF RecordedAs
    <3>2. CASE e.by # s
      <4>1. e.by \in Saves
        OBVIOUS
      <4> QED
        BY <1>7, <3>2, <4>1 DEF RecordedAs
    <3> QED
      BY <3>1, <3>2
  <2> QED
    BY <2>1 DEF Recorded, RecordedAs
<1> QED
  BY <1>1, <1>5, <1>6, <1>8

\* The history as the refinement maps it.
Mapped == [n \in 1..CurrentVersion |-> Recorded(n)]

LEMMA CommitsAppends ==
    ASSUME IInv, IInv', NEW s \in Saves, Commits(s)
    PROVE  /\ Mapped' = Append(Mapped, [by |-> s, content |-> merged[s]])
           /\ \A n \in DOMAIN Mapped : Mapped[n].by # s
           /\ merged[s] \in Content
<1>1. PICK k : k = CurrentVersion
  OBVIOUS
<1>2. PICK new : new = [by |-> s, content |-> merged[s]]
  OBVIOUS
<1> DEFINE S == {Recorded(n) : n \in 1..k} \cup {new}
<1>3. k \in Nat
  BY <1>1, CurrentVersionNat DEF IInv
<1>4. /\ ~Exists(s) /\ CurrentVersion' = k + 1 /\ Recorded(k + 1)' = new
      /\ \A n \in 1..k : Recorded(n)' = Recorded(n)
  <2>1. k + 1 \in Nat /\ k + 1 = CurrentVersion + 1
    BY <1>1, <1>3
  <2> QED
    BY <1>1, <1>2, <2>1, CommitsRecords
<1>5. Mapped = [n \in 1..k |-> Recorded(n)]
  BY <1>1 DEF Mapped
<1>6. Mapped \in Seq(S) /\ Len(Mapped) = k /\ DOMAIN Mapped = 1..k
  BY <1>3, <1>5
<1>7. /\ Append(Mapped, new) \in Seq(S) /\ Len(Append(Mapped, new)) = k + 1
      /\ \A n \in 1..k : Append(Mapped, new)[n] = Recorded(n)
      /\ Append(Mapped, new)[k + 1] = new
  <2> HIDE DEF Mapped
  <2>1. new \in S
    OBVIOUS
  <2>2. \A n \in 1..k : Mapped[n] = Recorded(n)
    BY <1>5
  <2> HIDE DEF S
  <2> QED
    BY <1>6, <2>1, <2>2, AppendProperties
<1>8. /\ Mapped' \in Seq(S) /\ Len(Mapped') = k + 1
      /\ \A n \in 1..(k + 1) : Mapped'[n] = Append(Mapped, new)[n]
  <2>1. Mapped' = [n \in 1..(k + 1) |-> Recorded(n)']
    BY <1>4 DEF Mapped
  <2>2. \A n \in 1..(k + 1) : Recorded(n)' = IF n = k + 1 THEN new ELSE Recorded(n)
    BY <1>3, <1>4
  <2>3. \A n \in 1..(k + 1) : Recorded(n)' \in S
    BY <1>3, <2>2
  <2>4. \A n \in 1..(k + 1) : Recorded(n)' = Append(Mapped, new)[n]
    BY <1>3, <1>7, <2>2
  <2>5. Mapped' \in [1..(k + 1) -> S]
    <3> HIDE DEF S
    <3> QED
      BY <2>1, <2>3
  <2>6. \A n \in 1..(k + 1) : Mapped'[n] = Append(Mapped, new)[n]
    BY <2>1, <2>4
  <2>7. Mapped' \in Seq(S) /\ Len(Mapped') = k + 1
    <3> HIDE DEF S, Mapped
    <3> QED
      BY <1>3, <2>5
  <2> QED
    BY <2>6, <2>7
<1>9. Mapped' = Append(Mapped, new)
  <2> HIDE DEF S, Mapped
  <2> QED
    BY <1>7, <1>8, SeqEqual
<1>10. ASSUME NEW n \in DOMAIN Mapped
       PROVE  Mapped[n].by # s
  <2>1. PICK r \in Saves : IsCurrent(r)
    BY <1>1, <1>6, <1>10 DEF CurrentVersion
  <2>2. CurrentVersion = profile[r].version
    BY <2>1, CurrentVersionIs DEF IInv
  <2>3. PICK q \in Saves : Exists(q) /\ profile[q].version = n
    BY <1>1, <1>6, <1>10, <2>1, <2>2 DEF IInv, HistoryLinear, NoVersionMissing, IsCurrent
  <2>4. Recorded(n) = [by |-> q, content |-> profile[q].content]
    BY <2>3, RecordedIs DEF IInv
  <2>5. q # s
    BY <1>4, <2>3
  <2> QED
    BY <1>5, <1>6, <1>10, <2>4, <2>5
<1>11. merged[s] \in Content
  BY DEF IInv, TypeOK
<1> QED
  BY <1>2, <1>9, <1>10, <1>11

\* A step that is not a commit changes nothing that readers see.
LEMMA OthersStutter ==
    ASSUME profile' = profile
    PROVE  Mapped' = Mapped
<1>1. \A r \in Saves : IsCurrent(r)' = IsCurrent(r)
  BY DEF IsCurrent, Exists
<1>2. CurrentVersion' = CurrentVersion
  BY DEF CurrentVersion, IsCurrent, Exists
<1>3. \A n : Recorded(n)' = Recorded(n)
  BY DEF Recorded, Exists
<1> QED
  BY <1>2, <1>3 DEF Mapped

\* Whatever saves overlap, fail or roll back, for every number of them,
\* Save and CreateVersion implement an append-only history: a commit adds the
\* next version at its end, once per request, and changes none before it.
THEOREM ImplementsHistory == Spec => OnlyAppends
<1>1. Init => History!Init
  <2>1. Init => CurrentVersion = 0
    BY DEF Init, CurrentVersion, IsCurrent, Exists
  <2> QED
    BY <2>1 DEF History!Init
<1>2. IInv /\ IInv' /\ [Next]_vars => [History!Next]_Mapped
  <2> SUFFICES ASSUME IInv, IInv', [Next]_vars
               PROVE  [History!Next]_Mapped
    OBVIOUS
  <2>1. ASSUME NEW s \in Saves, Commits(s)
        PROVE  History!Next
    <3>1. /\ Mapped' = Append(Mapped, [by |-> s, content |-> merged[s]])
          /\ \A n \in DOMAIN Mapped : Mapped[n].by # s
          /\ merged[s] \in Content
      BY <2>1, CommitsAppends
    <3>2. History!Save(s, merged[s])
      BY <3>1 DEF History!Save, History!SavedBy, Mapped
    <3> QED
      BY <3>1, <3>2 DEF History!Next
  <2>2. ASSUME profile' = profile
        PROVE  Mapped' = Mapped
    BY <2>2, OthersStutter
  <2>3. (\E s \in Saves : Commits(s)) \/ profile' = profile
    BY DEF Next, Step, vars, SaveReads, LockCurrent, Unblocks, Inserts, InsertsFirst,
           Aborts, FindsJob, CreatesJob, UpdatesJob, ResumesJob, PausesJob, SyncFails
  <2> QED
    BY <2>1, <2>2, <2>3
<1> QED
  BY <1>1, <1>2, Invariance, PTL DEF Spec, OnlyAppends, History!Spec, Mapped
=============================================================================
