------------------------ MODULE DiscoveryRunsProofs ------------------------
(***************************************************************************)
(* Proofs about DiscoveryRuns for every number of overlapping triggers,    *)
(* every batch of candidates and every number of faults.                   *)
(***************************************************************************)
EXTENDS DiscoveryRuns, TLAPS

LEMMA ProducedGrows ==
    ASSUME NEW g \in Calls, NEW c \in Candidates,
           tenders' = tenders \cup {[by |-> g, cand |-> c]}
    PROVE  /\ Produced(g)' = Produced(g) \cup {c}
           /\ \A h \in Calls \ {g} : Produced(h)' = Produced(h)
<1> DEFINE t == [by |-> g, cand |-> c]
<1>1. t.by = g /\ t.cand = c /\ tenders' = tenders \cup {t}
  OBVIOUS
<1> HIDE DEF t
<1> QED
  BY <1>1 DEF Produced

\* The steps that begin a call, or end it without a run.
CallStep(g) == (\E k \in Key : Triggers(g, k)) \/ LooksUpKey(g) \/ Refused(g)

\* The steps of a run that leave the table of tenders alone.
RunStep(g) ==
    \/ CollectFails(g) \/ (\E found \in SUBSET Candidates : Collects(g, found))
    \/ (\E c \in Candidates : LooksUpCandidate(g, c)) \/ (\E ok \in BOOLEAN : Scores(g, ok))

-----------------------------------------------------------------------------
(* Types *)

LEMMA InitType == Init => TypeOK
    BY BoundsNat DEF Init, TypeOK, Key, Tally, Periods, Tender

LEMMA CallStepType ==
    ASSUME TypeOK, NEW g \in Calls, CallStep(g)
    PROVE  TypeOK'
    BY BoundsNat DEF TypeOK, CallStep, Triggers, LooksUpKey, Refused, Go, Fault, Calling

LEMMA CreatesType ==
    ASSUME TypeOK, NEW g \in Calls, Creates(g)
    PROVE  TypeOK'
<1>1. [status |-> "pending", key |-> key[g], found |-> {}] \in Row
  BY DEF TypeOK, Row, Status
<1> QED
  BY <1>1 DEF Creates, TypeOK, Go, Pipeline

LEMMA MarksRunningType ==
    ASSUME TypeOK, NEW g \in Calls, MarksRunning(g), IsActive(g)
    PROVE  TypeOK'
<1>1. run[g] \in Row
  BY DEF TypeOK, IsActive, Exists
<1>2. [run[g] EXCEPT !.status = "running"] \in Row
  BY <1>1 DEF Row, Status
<1>3. run' = [run EXCEPT ![g] = [run[g] EXCEPT !.status = "running"]]
  BY DEF MarksRunning, TypeOK
<1> QED
  BY <1>2, <1>3 DEF MarksRunning, TypeOK, Go, Pipeline

LEMMA RunStepType ==
    ASSUME TypeOK, NEW g \in Calls, RunStep(g)
    PROVE  TypeOK'
<1>1. tally[g] \in Tally
  BY DEF TypeOK
<1>2. ASSUME NEW n, tally' = [tally EXCEPT ![g] = n], n \in Tally
      PROVE  tally' \in [Calls -> Tally]
  BY <1>2 DEF TypeOK
<1>3. /\ [tally[g] EXCEPT !.errs = TRUE] \in Tally
      /\ [tally[g] EXCEPT !.known = TRUE] \in Tally
      /\ \A ok \in BOOLEAN : [tally[g] EXCEPT !.errs = tally[g].errs \/ ~ok] \in Tally
  BY <1>1 DEF Tally
<1>4. tally' \in [Calls -> Tally]
  BY <1>2, <1>3 DEF RunStep, CollectFails, Collects, LooksUpCandidate, Scores, TypeOK
<1> QED
  BY <1>4 DEF RunStep, CollectFails, Collects, LooksUpCandidate, Scores, TypeOK, Go, Pipeline

LEMMA InsertsType ==
    ASSUME TypeOK, NEW g \in Calls, Inserts(g) \/ CandidateFails(g), at[g] \in Candidates
    PROVE  TypeOK'
<1>1. tally[g] \in Tally
  BY DEF TypeOK
<1>2. /\ [tally[g] EXCEPT !.known = TRUE] \in Tally
      /\ [tally[g] EXCEPT !.errs = TRUE] \in Tally
      /\ [tally[g] EXCEPT !.saved = tally[g].saved \cup {at[g]}] \in Tally
  BY <1>1 DEF Tally
<1>3. tally' \in [Calls -> Tally]
  BY <1>2 DEF Inserts, CandidateFails, TypeOK
<1>4. [by |-> g, cand |-> at[g]] \in Tender
  BY DEF Tender
<1>5. tenders' \subseteq Tender
  BY <1>4 DEF Inserts, CandidateFails, TypeOK
<1> QED
  BY <1>3, <1>5, BoundsNat DEF Inserts, CandidateFails, TypeOK, Go, Fault, Pipeline

LEMMA FinishesType ==
    ASSUME TypeOK, NEW g \in Calls, Finishes(g), IsActive(g)
    PROVE  TypeOK'
<1>1. run[g] \in Row /\ tally[g] \in Tally
  BY DEF TypeOK, IsActive, Exists
<1> DEFINE r == [run[g] EXCEPT !.status = Outcome(tally[g]), !.found = tally[g].saved]
<1>2. r \in Row
  BY <1>1 DEF Row, Status, Outcome, Tally
<1>3. run' = [run EXCEPT ![g] = r]
  BY DEF Finishes, TypeOK
<1> QED
  BY <1>2, <1>3 DEF Finishes, TypeOK, Go

LEMMA FaultType ==
    ASSUME TypeOK, (\E g \in Calls : Dies(g)) \/ Restart \/ NextPeriod
    PROVE  TypeOK'
    BY BoundsNat DEF TypeOK, Dies, Restart, NextPeriod, Go, Fault, Periods, Key

-----------------------------------------------------------------------------
(* The inductive invariant *)

Sound == NoDuplicateTenders /\ OneRunPerPeriod /\ ReportsHonest /\ TalliesSound

LEMMA InitSound == Init => Sound
    BY DEF Init, Sound, NoDuplicateTenders, OneRunPerPeriod, ReportsHonest, TalliesSound,
           Exists, IsActive, Produced, Calling, Pipeline

\* A step that touches neither table nor the counts.
LEMMA QuietSound ==
    ASSUME TypeOK, Sound, run' = run, tenders' = tenders,
           faults' \in {faults, faults + 1},
           \A h \in Calls : tally'[h].saved = tally[h].saved,
           \A h \in Calls :
               /\ pc'[h] = "create" => at'[h] \in Candidates
               /\ pc'[h] \in {"idle"} \cup Calling => ~Exists(h)
               /\ pc'[h] \in Pipeline => IsActive(h)
    PROVE  Sound'
<1>1. faults' = 0 => faults = 0
  BY DEF TypeOK
<1>2. \A h \in Calls : /\ Produced(h)' = Produced(h)
                       /\ Exists(h)' = Exists(h) /\ IsActive(h)' = IsActive(h)
  BY DEF Produced, Exists, IsActive
<1>3. NoDuplicateTenders' /\ OneRunPerPeriod'
  BY DEF Sound, NoDuplicateTenders, OneRunPerPeriod, Exists
<1>4. ReportsHonest'
  BY <1>1, <1>2 DEF Sound, ReportsHonest
<1>5. TalliesSound'
  BY <1>1, <1>2 DEF Sound, TalliesSound
<1> QED
  BY <1>3, <1>4, <1>5 DEF Sound

LEMMA CallStepSound ==
    ASSUME TypeOK, Sound, NEW g \in Calls, CallStep(g)
    PROVE  Sound'
<1>1. /\ run' = run /\ tenders' = tenders /\ tally' = tally /\ at' = at
      /\ faults' \in {faults, faults + 1}
  BY DEF CallStep, Triggers, LooksUpKey, Refused, Fault
<1>2. /\ pc[g] \in {"idle"} \cup Calling
      /\ \A h \in Calls : h # g => pc'[h] = pc[h]
      /\ pc'[g] \in Calling \cup {"done"}
  BY DEF CallStep, Triggers, LooksUpKey, Refused, Go, Calling, TypeOK
<1> QED
  BY <1>1, <1>2, QuietSound DEF Sound, TalliesSound, Calling, Pipeline

LEMMA RunStepSound ==
    ASSUME TypeOK, Sound, NEW g \in Calls, RunStep(g)
    PROVE  Sound'
<1>1. run' = run /\ tenders' = tenders /\ faults' = faults
  BY DEF RunStep, CollectFails, Collects, LooksUpCandidate, Scores
<1>2. \A h \in Calls : tally'[h].saved = tally[h].saved
  <2>1. tally \in [Calls -> Tally] /\ tally[g] \in Tally
    BY DEF TypeOK
  <2>2. \/ tally' = tally
        \/ \E b \in BOOLEAN : \/ tally' = [tally EXCEPT ![g].known = b]
                             \/ tally' = [tally EXCEPT ![g].errs = b]
    <3>1. \A ok \in BOOLEAN : (tally[g].errs \/ ~ok) \in BOOLEAN
      BY <2>1 DEF Tally
    <3> QED
      BY <3>1 DEF RunStep, CollectFails, Collects, LooksUpCandidate, Scores
  <2> QED
    BY <2>1, <2>2 DEF Tally
<1>3. /\ pc[g] \in Pipeline /\ pc'[g] \in Pipeline
      /\ pc'[g] = "create" => at'[g] \in Candidates
      /\ \A h \in Calls : h # g => pc'[h] = pc[h] /\ at'[h] = at[h]
  BY DEF RunStep, CollectFails, Collects, LooksUpCandidate, Scores, TypeOK, Go, Pipeline
<1> QED
  BY <1>1, <1>2, <1>3, QuietSound DEF Sound, TalliesSound, Calling, Pipeline

LEMMA FaultSound ==
    ASSUME TypeOK, Sound, (\E g \in Calls : Dies(g)) \/ Restart \/ NextPeriod
    PROVE  Sound'
<1>1. /\ run' = run /\ tenders' = tenders /\ tally' = tally /\ at' = at
      /\ faults' \in {faults, faults + 1}
  BY DEF Dies, Restart, NextPeriod, Fault
<1>2. \A h \in Calls : pc'[h] = pc[h] \/ pc'[h] \in {"over", "done"}
  BY DEF Dies, Restart, NextPeriod, Go, TypeOK
<1> QED
  BY <1>1, <1>2, QuietSound DEF Sound, TalliesSound, Calling, Pipeline

LEMMA CreatesSound ==
    ASSUME TypeOK, Sound, NEW g \in Calls, Creates(g)
    PROVE  Sound'
<1>1. pc[g] = "new" /\ ~Exists(g) /\ \A h \in Calls : h # g => pc'[h] = pc[h]
  BY DEF Creates, Go, TypeOK, Sound, TalliesSound, Calling
<1>2. CASE IsTaken(key[g])
  <2>1. /\ run' = run /\ tenders' = tenders /\ tally' = tally /\ at' = at
        /\ faults' = faults /\ pc'[g] = "done"
    BY <1>2 DEF Creates, Go, TypeOK
  <2> QED
    BY <1>1, <2>1, QuietSound DEF Sound, TalliesSound, Calling, Pipeline
<1>3. CASE ~IsTaken(key[g])
  <2>1. PICK r : r = [status |-> "pending", key |-> key[g], found |-> {}]
    OBVIOUS
  <2>2. /\ run' = [run EXCEPT ![g] = r] /\ pc'[g] = "ready"
        /\ tenders' = tenders /\ tally' = tally /\ at' = at /\ faults' = faults
    BY <1>3, <2>1 DEF Creates, Go, TypeOK
  <2>3. run'[g] = r /\ \A h \in Calls : h # g => run'[h] = run[h]
    BY <2>2 DEF TypeOK
  <2>4. r # None /\ r.status = "pending" /\ r.key = key[g]
    BY <2>1, NoneNoRow DEF Row, Status, TypeOK
  <2>5. \A h \in Calls : Produced(h)' = Produced(h)
    BY <2>2 DEF Produced
  <2>6. NoDuplicateTenders'
    BY <2>2 DEF Sound, NoDuplicateTenders
  <2>7. OneRunPerPeriod'
    <3>1. \A h \in Calls : Exists(h) /\ key[g] \in Periods => run[h].key # key[g]
      BY <1>3, KeysDistinct DEF IsTaken
    <3> QED
      BY <2>3, <2>4, <3>1 DEF Sound, OneRunPerPeriod, Exists
  <2>8. ReportsHonest'
    BY <2>2, <2>3, <2>4, <2>5 DEF Sound, ReportsHonest, Exists, IsActive
  <2>9. TalliesSound'
    BY <1>1, <2>2, <2>3, <2>4, <2>5
       DEF Sound, TalliesSound, Exists, IsActive, Calling, Pipeline
  <2> QED
    BY <2>6, <2>7, <2>8, <2>9 DEF Sound
<1> QED
  BY <1>2, <1>3

LEMMA MarksRunningSound ==
    ASSUME TypeOK, Sound, NEW g \in Calls, MarksRunning(g)
    PROVE  Sound'
<1>1. pc[g] = "ready" /\ IsActive(g) /\ run[g] \in Row
  BY DEF MarksRunning, Sound, TalliesSound, Pipeline, TypeOK, IsActive, Exists
<1>2. /\ run'[g] = [run[g] EXCEPT !.status = "running"]
      /\ \A h \in Calls : h # g => run'[h] = run[h] /\ pc'[h] = pc[h]
      /\ pc'[g] = "collect"
      /\ tenders' = tenders /\ tally' = tally /\ at' = at /\ faults' = faults
  BY DEF MarksRunning, Go, TypeOK
<1>3. run'[g] \in Row /\ run'[g].status = "running" /\ run'[g].key = run[g].key
  BY <1>1, <1>2 DEF Row, Status
<1>4. \A h \in Calls : Produced(h)' = Produced(h)
  BY <1>2 DEF Produced
<1>5. \A h \in Calls : Exists(h)' = Exists(h) /\ IsActive(h)' = IsActive(h)
  BY <1>1, <1>2, <1>3, NoneNoRow DEF Exists, IsActive
<1>6. OneRunPerPeriod'
  <2>1. \A h \in Calls : run'[h].key = run[h].key /\ (run'[h] # None <=> run[h] # None)
    BY <1>1, <1>2, <1>3, NoneNoRow DEF IsActive, Exists
  <2> QED
    BY <2>1 DEF Sound, OneRunPerPeriod, Exists
<1>7. ReportsHonest' /\ TalliesSound'
  BY <1>1, <1>2, <1>4, <1>5 DEF Sound, ReportsHonest, TalliesSound, Calling, Pipeline
<1> QED
  BY <1>2, <1>6, <1>7 DEF Sound, NoDuplicateTenders

LEMMA FinishesSound ==
    ASSUME TypeOK, Sound, NEW g \in Calls, Finishes(g)
    PROVE  Sound'
<1>1. pc[g] \in Pipeline /\ IsActive(g) /\ run[g] \in Row /\ tally[g] \in Tally
  BY DEF Finishes, Sound, TalliesSound, Pipeline, TypeOK, IsActive, Exists
<1>2. /\ run'[g] = [run[g] EXCEPT !.status = Outcome(tally[g]), !.found = tally[g].saved]
      /\ \A h \in Calls : h # g => run'[h] = run[h] /\ pc'[h] = pc[h]
      /\ pc'[g] = "over"
      /\ tenders' = tenders /\ tally' = tally /\ at' = at /\ faults' = faults
  BY DEF Finishes, Go, TypeOK
<1>3. /\ run'[g] \in Row /\ run'[g].status = Outcome(tally[g])
      /\ run'[g].key = run[g].key /\ run'[g].found = tally[g].saved
  BY <1>1, <1>2 DEF Row, Status, Outcome, Tally
<1>4. \A h \in Calls : Produced(h)' = Produced(h)
  BY <1>2 DEF Produced
<1>5. /\ \A h \in Calls : Exists(h)' = Exists(h)
      /\ \A h \in Calls : h # g => IsActive(h)' = IsActive(h)
  BY <1>1, <1>2, <1>3, NoneNoRow DEF Exists, IsActive
<1>6. OneRunPerPeriod'
  <2>1. \A h \in Calls : run'[h].key = run[h].key /\ (run'[h] # None <=> run[h] # None)
    BY <1>1, <1>2, <1>3, NoneNoRow DEF IsActive, Exists
  <2> QED
    BY <2>1 DEF Sound, OneRunPerPeriod, Exists
<1>7. ReportsHonest'
  <2>1. run'[g].status = "failed" => tally[g].saved = {}
    BY <1>3 DEF Outcome
  <2>2. run'[g].found \subseteq Produced(g)' /\ (faults = 0 => run'[g].found = Produced(g)')
    BY <1>3, <1>4 DEF Sound, TalliesSound
  <2>3. ASSUME NEW h \in Calls, h # g, Exists(h)', ~IsActive(h)'
        PROVE  /\ run'[h].found \subseteq Produced(h)'
               /\ faults = 0 => run'[h].found = Produced(h)'
               /\ run'[h].status = "failed" => run'[h].found = {}
    BY <1>2, <1>4, <1>5, <2>3 DEF Sound, ReportsHonest
  <2> QED
    BY <1>2, <1>3, <2>1, <2>2, <2>3 DEF ReportsHonest
<1>8. TalliesSound'
  BY <1>1, <1>2, <1>4, <1>5 DEF Sound, TalliesSound, Calling, Pipeline
<1> QED
  BY <1>2, <1>6, <1>7, <1>8 DEF Sound, NoDuplicateTenders

LEMMA InsertsSound ==
    ASSUME TypeOK, Sound, NEW g \in Calls, Inserts(g) \/ CandidateFails(g)
    PROVE  Sound'
<1>1. pc[g] = "create" /\ at[g] \in Candidates /\ IsActive(g) /\ tally[g] \in Tally
  BY DEF Inserts, CandidateFails, Sound, TalliesSound, Pipeline, TypeOK
<1>2. /\ run' = run /\ at' = at /\ faults' \in {faults, faults + 1}
      /\ pc'[g] \in {"work", "score"}
      /\ \A h \in Calls : h # g => pc'[h] = pc[h] /\ tally'[h] = tally[h]
  BY DEF Inserts, CandidateFails, Go, TypeOK, Fault
<1>3. CASE tenders' = tenders /\ tally'[g].saved = tally[g].saved
  BY <1>1, <1>2, <1>3, QuietSound DEF Sound, TalliesSound, Calling, Pipeline
<1>4. CASE /\ tenders' = tenders \cup {[by |-> g, cand |-> at[g]]}
           /\ ~IsKnown(at[g])
           /\ \/ faults' = faults /\ tally'[g].saved = tally[g].saved \cup {at[g]}
              \/ faults' = faults + 1 /\ tally'[g].saved = tally[g].saved
  <2>1. /\ Produced(g)' = Produced(g) \cup {at[g]}
        /\ \A h \in Calls \ {g} : Produced(h)' = Produced(h)
    BY <1>1, <1>4, ProducedGrows
  <2>2. NoDuplicateTenders'
    <3> DEFINE t == [by |-> g, cand |-> at[g]]
    <3>1. tenders' = tenders \cup {t} /\ t.cand = at[g]
      BY <1>4
    <3>2. KeyOf[at[g]] # None => \A u \in tenders : KeyOf[u.cand] # KeyOf[at[g]]
      BY <1>4 DEF IsKnown
    <3> HIDE DEF t
    <3> QED
      BY <3>1, <3>2 DEF Sound, NoDuplicateTenders
  <2>3. \A h \in Calls : (run'[h] # None <=> Exists(h)) /\ (IsActive(h)' <=> IsActive(h))
    BY <1>2 DEF Exists, IsActive
  <2>4. OneRunPerPeriod'
    BY <1>2 DEF Sound, OneRunPerPeriod, Exists
  <2>5. faults \in Nat /\ (faults' = 0 => faults' = faults)
    BY <1>4 DEF TypeOK
  <2>6. ReportsHonest'
    <3> SUFFICES ASSUME NEW h \in Calls, Exists(h)', ~IsActive(h)'
                 PROVE  /\ run'[h].found \subseteq Produced(h)'
                        /\ faults' = 0 => run'[h].found = Produced(h)'
                        /\ run'[h].status = "failed" => run'[h].found = {}
      BY DEF ReportsHonest
    <3>1. h # g /\ Exists(h) /\ ~IsActive(h)
      BY <1>1, <2>3 DEF Exists
    <3> QED
      BY <1>2, <2>1, <2>5, <3>1 DEF Sound, ReportsHonest
  <2>7. TalliesSound'
    <3>1. \A h \in Calls : /\ tally'[h].saved \subseteq Produced(h)'
                           /\ faults' = 0 => tally'[h].saved = Produced(h)'
      <4>1. tally[g].saved \subseteq Produced(g) /\ (faults = 0 => tally[g].saved = Produced(g))
        BY DEF Sound, TalliesSound
      <4>2. /\ tally'[g].saved \subseteq Produced(g)'
            /\ faults' = 0 => tally'[g].saved = Produced(g)'
        <5>1. CASE faults' = faults /\ tally'[g].saved = tally[g].saved \cup {at[g]}
          BY <2>1, <4>1, <5>1
        <5>2. CASE faults' = faults + 1 /\ tally'[g].saved = tally[g].saved
          <6>1. faults' # 0
            BY <2>5, <5>2
          <6> QED
            BY <2>1, <4>1, <5>2, <6>1
        <5> QED
          BY <1>4, <5>1, <5>2
      <4>3. ASSUME NEW h \in Calls, h # g
            PROVE  /\ tally'[h].saved \subseteq Produced(h)'
                   /\ faults' = 0 => tally'[h].saved = Produced(h)'
        <5>1. /\ tally[h].saved \subseteq Produced(h)
              /\ faults = 0 => tally[h].saved = Produced(h)
          BY DEF Sound, TalliesSound
        <5>2. tally'[h] = tally[h] /\ Produced(h)' = Produced(h)
          BY <1>2, <2>1, <4>3
        <5> QED
          BY <2>5, <5>1, <5>2
      <4> QED
        BY <4>2, <4>3
    <3>2. \A h \in Calls : /\ pc'[h] = "create" => at'[h] \in Candidates
                           /\ pc'[h] \in {"idle"} \cup Calling => ~Exists(h)
                           /\ pc'[h] \in Pipeline => IsActive(h)
      BY <1>1, <1>2 DEF Sound, TalliesSound, Calling, Pipeline
    <3> QED
      BY <2>3, <3>1, <3>2 DEF TalliesSound, Exists
  <2> QED
    BY <2>2, <2>4, <2>6, <2>7 DEF Sound
<1>5. CASE Inserts(g)
  <2>1. CASE IsKnown(at[g])
    BY <1>1, <1>3, <1>5, <2>1 DEF Inserts, TypeOK, Tally
  <2>2. CASE ~IsKnown(at[g])
    BY <1>1, <1>4, <1>5, <2>2 DEF Inserts, TypeOK, Tally
  <2> QED
    BY <2>1, <2>2
<1>6. CASE CandidateFails(g)
  <2>1. tally'[g].saved = tally[g].saved
    BY <1>1, <1>6 DEF CandidateFails, TypeOK, Tally
  <2> QED
    BY <1>3, <1>4, <1>6, <2>1 DEF CandidateFails, Fault
<1> QED
  BY <1>5, <1>6

-----------------------------------------------------------------------------

LEMMA InitIInv == Init => IInv
  BY InitType, InitSound DEF IInv, Sound

LEMMA NextIInv == IInv /\ [Next]_vars => IInv'
<1> SUFFICES ASSUME TypeOK, Sound, [Next]_vars PROVE TypeOK' /\ Sound'
  BY DEF IInv, Sound
<1>1. ASSUME NEW g \in Calls, CallStep(g) PROVE TypeOK' /\ Sound'
  BY <1>1, CallStepType, CallStepSound
<1>2. ASSUME NEW g \in Calls, Creates(g) PROVE TypeOK' /\ Sound'
  BY <1>2, CreatesType, CreatesSound
<1>3. ASSUME NEW g \in Calls, MarksRunning(g) PROVE TypeOK' /\ Sound'
  <2>1. IsActive(g)
    BY <1>3 DEF MarksRunning, Sound, TalliesSound, Pipeline
  <2> QED
    BY <1>3, <2>1, MarksRunningType, MarksRunningSound
<1>4. ASSUME NEW g \in Calls, RunStep(g) PROVE TypeOK' /\ Sound'
  BY <1>4, RunStepType, RunStepSound
<1>5. ASSUME NEW g \in Calls, Inserts(g) \/ CandidateFails(g) PROVE TypeOK' /\ Sound'
  <2>1. at[g] \in Candidates
    BY <1>5 DEF Inserts, CandidateFails, Sound, TalliesSound
  <2> QED
    BY <1>5, <2>1, InsertsType, InsertsSound
<1>6. ASSUME NEW g \in Calls, Finishes(g) PROVE TypeOK' /\ Sound'
  <2>1. IsActive(g)
    BY <1>6 DEF Finishes, Sound, TalliesSound, Pipeline
  <2> QED
    BY <1>6, <2>1, FinishesType, FinishesSound
<1>7. CASE (\E g \in Calls : Dies(g)) \/ Restart \/ NextPeriod
  BY <1>7, FaultType, FaultSound
<1>8. CASE UNCHANGED vars
  <2>1. TypeOK'
    BY <1>8 DEF vars, TypeOK
  <2>2. Sound'
    BY <1>8, QuietSound DEF vars, Sound, TalliesSound, Exists, IsActive
  <2> QED
    BY <2>1, <2>2
<1> QED
  BY <1>1, <1>2, <1>3, <1>4, <1>5, <1>6, <1>7, <1>8 DEF Next, Works, CallStep, RunStep

\* What the theorems below rest on.
THEOREM Invariance == Spec => []IInv
  BY InitIInv, NextIInv, PTL DEF Spec

\* Calls, runs, faults and restarts keep the state in its types; a finished
\* run has a status that discovery_run accepts.
THEOREM TypeCorrect == Spec => []TypeOK
<1>1. IInv => TypeOK
  BY DEF IInv
<1> QED
  BY <1>1, Invariance, PTL

\* Whatever runs overlap and fail, persistCandidate stores a tender that has
\* a dedup key once.
THEOREM TendersDistinct == Spec => []NoDuplicateTenders
<1>1. IInv => NoDuplicateTenders
  BY DEF IInv
<1> QED
  BY <1>1, Invariance, PTL

\* StartRun starts one run for each key of the schedule, however many ticks
\* of its period overlap.
THEOREM RunPerPeriod == Spec => []OneRunPerPeriod
<1>1. IInv => OneRunPerPeriod
  BY DEF IInv
<1> QED
  BY <1>1, Invariance, PTL

\* The found_count of a run counts what that run has inserted, and all of it
\* as long as no fault struck.
THEOREM Honest == Spec => []ReportsHonest
<1>1. IInv => ReportsHonest
  BY DEF IInv
<1> QED
  BY <1>1, Invariance, PTL
=============================================================================
