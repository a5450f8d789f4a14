------------------------- MODULE UsageManager_proofs -------------------------
(***************************************************************************)
(* Theorems about the usage guard, for every number of processes, every    *)
(* policy, every generation length and every set of faults.                *)
(***************************************************************************)
EXTENDS UsageManager, TLAPS

-----------------------------------------------------------------------------
(* The pure operators.                                                      *)

(***************************************************************************)
(* Opening or keeping a period yields a well-typed state whose counters    *)
(* are those of the old state or zero.                                     *)
(***************************************************************************)
LEMMA CurrentPeriodFacts ==
    ASSUME NEW policy \in Policies, NEW state \in UsageStates, NEW now \in Nat
    PROVE  /\ RollOverPeriod(state, now) \in UsageStates
           /\ CurrentPeriod(policy, state, now) \in UsageStates
           /\ PeriodHasRolledOver(policy, state, now) =>
                CurrentPeriod(policy, state, now) = RollOverPeriod(state, now)
           /\ ~PeriodHasRolledOver(policy, state, now) =>
                CurrentPeriod(policy, state, now) = state
  BY DEF Policies, UsageStates, CurrentPeriod, RollOverPeriod

(***************************************************************************)
(* A new period starts now, with nothing used.                             *)
(***************************************************************************)
LEMMA RollOverResets ==
    ASSUME NEW state \in UsageStates, NEW now
    PROVE  /\ RollOverPeriod(state, now).period_start = now
           /\ RollOverPeriod(state, now).messages_used = 0
           /\ RollOverPeriod(state, now).tokens_used = 0
  BY DEF UsageStates, RollOverPeriod

(***************************************************************************)
(* The period that is current after the rollover check has started, and    *)
(* ends in the future, within one reset period.                            *)
(***************************************************************************)
LEMMA CurrentPeriodWindow ==
    ASSUME NEW policy \in Policies, NEW state \in UsageStates, NEW now \in Nat \ {0}
    PROVE  LET ps == CurrentPeriod(policy, state, now).period_start
           IN  ps > 0 /\ ps <= now /\ now < ps + policy.reset_period
  BY DEF Policies, UsageStates, CurrentPeriod, RollOverPeriod, PeriodHasRolledOver

(***************************************************************************)
(* record_generation adds at most one message and at most the tokens of    *)
(* the generation, keeps the period and the session, and never passes the  *)
(* ceiling.                                                                *)
(***************************************************************************)
LEMMA ChargeFacts ==
    ASSUME NEW state \in UsageStates, NEW n \in Nat
    PROVE  /\ Charge(state, n) \in UsageStates
           /\ Charge(state, n).period_start = state.period_start
           /\ Charge(state, n).messages_used <= state.messages_used + 1
           /\ Charge(state, n).tokens_used <= state.tokens_used + n
           /\ Charge(state, n).messages_used >= state.messages_used
           /\ Charge(state, n).tokens_used >= state.tokens_used
  <1> DEFINE m == IF state.messages_used < MaxCounter
                  THEN state.messages_used + 1 ELSE state.messages_used
             t == IF state.tokens_used < MaxCounter
                  THEN state.tokens_used + Lesser(n, MaxCounter - state.tokens_used)
                  ELSE state.tokens_used
  <1>1. /\ m \in Nat /\ state.messages_used <= m /\ m <= state.messages_used + 1
        /\ t \in Nat /\ state.tokens_used <= t /\ t <= state.tokens_used + n
    BY CeilingAssumption DEF UsageStates, Lesser
  <1>2. Charge(state, n) = [state EXCEPT !.messages_used = m, !.tokens_used = t]
    BY DEF Charge, UsageStates
  <1> HIDE DEF m, t
  <1> QED
    BY <1>1, <1>2 DEF UsageStates

(***************************************************************************)
(* The verdict is one of the named outcomes; it names an exhausted limit   *)
(* exactly when that limit is exhausted, and allows otherwise.             *)
(***************************************************************************)
LEMMA EvaluateFacts ==
    ASSUME NEW policy \in Policies, NEW state \in UsageStates, NEW now \in Nat
    PROVE  /\ Evaluate(policy, state, now).outcome \in Outcomes \ {"StateCorrupted"}
           /\ Evaluate(policy, state, now).period_reset \in Nat
           /\ Evaluate(policy, state, now).outcome = "Allowed" <=>
                /\ ~TimeExhausted(policy, state, now)
                /\ ~MessagesExhausted(policy, state)
                /\ ~TokensExhausted(policy, state)
           /\ state.period_start > 0 =>
                Evaluate(policy, state, now).period_reset
                    = policy.reset_period + state.period_start
  BY DEF Policies, UsageStates, Outcomes, Evaluate
-----------------------------------------------------------------------------
(* Type correctness.                                                        *)

\* The part of the type invariant a save can disturb.
FileTyped ==
    /\ disk \in LoadResults
    /\ disk.result = "Ok" => ValidateState(disk.state)
    /\ leak \in [Procs -> Nat]

(***************************************************************************)
(* A save, or its refusal, leaves a file that a later load accepts.        *)
(***************************************************************************)
LEMMA SaveKeepsFileTyped ==
    ASSUME FileTyped, NEW state \in UsageStates,
           Save(state) \/ UNCHANGED <<disk, leak>>
    PROVE  FileTyped'
  <1>1. CASE Written(state)
    BY <1>1 DEF Written, FileTyped, LoadResults, ValidateState
  <1>2. CASE UNCHANGED <<disk, leak>>
    BY <1>2 DEF FileTyped, LoadResults, ValidateState
  <1> QED
    BY <1>1, <1>2 DEF Save, Refused

LEMMA VerdictTyped ==
    ASSUME TypeOK, NEW p \in Procs
    PROVE  /\ Verdict(p).outcome \in Outcomes
           /\ Verdict(p).period_reset \in Int
           /\ PeriodHasRolledOver(Policy[p], buf[p].state, clock) =>
                CurrentPeriod(Policy[p], buf[p].state, clock)
                    = RollOverPeriod(buf[p].state, clock)
           /\ RollOverPeriod(buf[p].state, clock) \in UsageStates
           /\ CurrentPeriod(Policy[p], buf[p].state, clock) \in UsageStates
  <1>1. /\ Policy[p] \in Policies /\ buf[p].state \in UsageStates
        /\ clock \in Nat
    BY UsageAssumption DEF TypeOK, LoadResults, Times
  <1>2. CASE buf[p].result = "Corrupted"
    BY <1>1, <1>2, CurrentPeriodFacts DEF Verdict, CorruptedDecision, Outcomes
  <1>3. CASE buf[p].result # "Corrupted"
    BY <1>1, <1>3, CurrentPeriodFacts, EvaluateFacts DEF Verdict
  <1> QED
    BY <1>2, <1>3

(***************************************************************************)
(* check_admission ends in the caller's next step or back at rest, with a  *)
(* decision recorded and the file still readable.                          *)
(***************************************************************************)
LEMMA CheckAdmissionTyped ==
    ASSUME TypeOK, NEW p \in Procs, NEW next \in PCs, CheckAdmission(p, next), Forget(p),
           UNCHANGED <<clock, tokens, ready, session, since>>
    PROVE  TypeOK'
  <1>1. FileTyped'
    BY SaveKeepsFileTyped, VerdictTyped DEF CheckAdmission, TypeOK, FileTyped
  <1>2. decision' \in [Procs -> [outcome : Outcomes, wait : Int]]
    BY VerdictTyped, UsageAssumption DEF CheckAdmission, TypeOK, Times
  <1>3. pc' \in [Procs -> PCs] /\ buf' \in [Procs -> LoadResults]
    BY DEF CheckAdmission, Goto, Forget, TypeOK, PCs, Absent, LoadResults,
           FreshState, UsageStates
  <1> QED
    BY <1>1, <1>2, <1>3 DEF TypeOK, FileTyped

(***************************************************************************)
(* The variables hold what the code's types and range checks allow: what   *)
(* is on disk always passes validate_state again, the counters of every    *)
(* local copy are natural numbers, and every process is at a known step.   *)
(***************************************************************************)
THEOREM TypeCorrect == Spec => []TypeOK
  <1>1. Init => TypeOK
    BY UsageAssumption
       DEF Init, TypeOK, Times, LoadResults, UsageStates, Absent, FreshState, PCs,
           NoDecision, Outcomes, Tokens
  <1>2. TypeOK /\ [Next]_vars => TypeOK'
    <2> SUFFICES ASSUME TypeOK, [Next]_vars PROVE TypeOK'
      OBVIOUS
    <2> USE DEF Goto, ReadUsage, Forget
    <2>1. ASSUME NEW p \in Procs, LoadReads(p) PROVE TypeOK'
      BY <2>1 DEF LoadReads, TypeOK, PCs, ValidateState
    <2>2. ASSUME NEW p \in Procs, LoadChecks(p) PROVE TypeOK'
      BY <2>2, CheckAdmissionTyped DEF LoadChecks, PCs
    <2>3. ASSUME NEW p \in Procs, SessionReads(p) PROVE TypeOK'
      BY <2>3 DEF SessionReads, TypeOK, PCs, ValidateState
    <2>4. ASSUME NEW p \in Procs, StartSession(p) PROVE TypeOK'
      <3> DEFINE new == [buf[p].state EXCEPT !.session_start = clock]
      <3>0. buf[p].state \in UsageStates /\ clock \in Nat
        BY UsageAssumption DEF TypeOK, LoadResults, Times
      <3>1. new \in UsageStates
        BY <3>0 DEF UsageStates
      <3>2. Save(new) \/ UNCHANGED <<disk, leak>>
        BY <2>4 DEF StartSession, Save
      <3>3. FileTyped'
        BY <3>1, <3>2, SaveKeepsFileTyped DEF TypeOK, FileTyped
      <3>4. session' \in [Procs -> {"none", "started", "failed"}]
        BY <2>4 DEF StartSession, TypeOK
      <3>5. pc' \in [Procs -> PCs] /\ buf' \in [Procs -> LoadResults]
        BY <2>4 DEF StartSession, TypeOK, PCs, Absent, LoadResults, FreshState, UsageStates
      <3> QED
        BY <2>4, <3>3, <3>4, <3>5 DEF StartSession, TypeOK, FileTyped
    <2>5. ASSUME NEW p \in Procs, FinishLoad(p) PROVE TypeOK'
      BY <2>5 DEF FinishLoad, TypeOK, PCs, ValidateState
    <2>6. ASSUME NEW p \in Procs, GenerateReads(p) PROVE TypeOK'
      BY <2>6 DEF GenerateReads, TypeOK, PCs, ValidateState
    <2>7. ASSUME NEW p \in Procs, GenerateChecks(p) PROVE TypeOK'
      BY <2>7, CheckAdmissionTyped DEF GenerateChecks, PCs
    <2>8. ASSUME NEW p \in Procs, GenerateRecords(p) PROVE TypeOK'
      BY <2>8 DEF GenerateRecords, TypeOK, PCs, ValidateState
    <2>9. ASSUME NEW p \in Procs, RecordGeneration(p) PROVE TypeOK'
      <3> DEFINE new == Charge(CurrentPeriod(Policy[p], buf[p].state, clock), tokens[p])
      <3>1. tokens[p] \in Nat
        BY UsageAssumption DEF TypeOK, Tokens
      <3>2. new \in UsageStates
        BY <3>1, VerdictTyped, ChargeFacts
      <3>3. Save(new) \/ UNCHANGED <<disk, leak>>
        BY <2>9 DEF RecordGeneration
      <3>4. FileTyped'
        BY <3>2, <3>3, SaveKeepsFileTyped DEF TypeOK, FileTyped
      <3>5. since' \in [Times -> [messages : Nat, tokens : Nat]]
        BY <2>9, <3>1 DEF RecordGeneration, TypeOK
      <3>6. pc' \in [Procs -> PCs] /\ buf' \in [Procs -> LoadResults]
        BY <2>9 DEF RecordGeneration, TypeOK, PCs, Absent, LoadResults, FreshState, UsageStates
      <3>7. tokens' \in [Procs -> Tokens]
        BY <2>9, UsageAssumption DEF RecordGeneration, TypeOK, Tokens
      <3> QED
        BY <2>9, <3>4, <3>5, <3>6, <3>7 DEF RecordGeneration, TypeOK, FileTyped
    <2>10. ASSUME NEW p \in Procs, Unload(p) PROVE TypeOK'
      BY <2>10 DEF Unload, TypeOK, ValidateState
    <2>11. ASSUME NEW p \in Procs, Exit(p) PROVE TypeOK'
      BY <2>11, UsageAssumption
         DEF Exit, TypeOK, PCs, ValidateState, Absent, LoadResults, FreshState, UsageStates,
             NoDecision, Outcomes, Tokens
    <2>12. CASE Tick \/ RollBackClock
      BY <2>12, UsageAssumption DEF Tick, RollBackClock, TypeOK, Times, ValidateState
    <2>13. CASE CorruptFile \/ RemoveFile
      BY <2>13 DEF CorruptFile, RemoveFile, TypeOK, Corrupt, Absent, LoadResults, FreshState,
                   UsageStates
    <2>14. CASE UNCHANGED vars
      BY <2>14 DEF vars, TypeOK, ValidateState
    <2> QED
      BY <2>1, <2>2, <2>3, <2>4, <2>5, <2>6, <2>7, <2>8, <2>9, <2>10, <2>11, <2>12, <2>13,
         <2>14 DEF Next, ProcStep
  <1> QED
    BY <1>1, <1>2, PTL DEF Spec
-----------------------------------------------------------------------------
(* A denial for messages or tokens is temporary.                            *)

(***************************************************************************)
(* The decision check_admission records names a reset inside the window of *)
(* the period it has just made current.                                    *)
(***************************************************************************)
LEMMA CheckAdmissionNamesReset ==
    ASSUME TypeOK, DenialsExpire, NEW p \in Procs, NEW next, CheckAdmission(p, next)
    PROVE  DenialsExpire'
  <1> DEFINE new == CurrentPeriod(Policy[p], buf[p].state, clock)
  <1>1. /\ Policy[p] \in Policies /\ buf[p].state \in UsageStates
        /\ clock \in Nat \ {0} /\ new \in UsageStates
    <2>1. Policy[p] \in Policies
      BY UsageAssumption
    <2>2. buf[p].state \in UsageStates /\ clock \in Nat \ {0}
      BY UsageAssumption DEF TypeOK, LoadResults, Times
    <2> QED BY <2>1, <2>2, VerdictTyped
  <1>2. new.period_start > 0 /\ new.period_start <= clock
        /\ clock < new.period_start + Policy[p].reset_period
    BY <1>1, CurrentPeriodWindow
  <1>3. ASSUME Verdict(p).outcome \in {"ExhaustedMessages", "ExhaustedTokens"}
        PROVE  Verdict(p).period_reset - clock \in 1..Policy[p].reset_period
    <2>1. Verdict(p) = Evaluate(Policy[p], new, clock)
      BY <1>3 DEF Verdict, CorruptedDecision
    <2>2. Verdict(p).period_reset = Policy[p].reset_period + new.period_start
      BY <1>1, <1>2, <2>1, EvaluateFacts
    <2>3. Policy[p].reset_period \in Nat /\ new.period_start \in Nat
      BY <1>1 DEF Policies, UsageStates
    <2> HIDE DEF new
    <2> QED
      BY <1>1, <1>2, <2>2, <2>3
  <1> QED
    BY <1>3 DEF CheckAdmission, DenialsExpire, TypeOK

(***************************************************************************)
(* Whoever is denied for messages or tokens is told a reset that is still  *)
(* ahead and at most one reset period away, with any number of processes,  *)
(* lost updates, failed saves, crashes and a clock that may go back.       *)
(***************************************************************************)
THEOREM DenialsAreTemporary == Spec => []DenialsExpire
  <1>1. Init => DenialsExpire
    BY DEF Init, DenialsExpire, NoDecision
  <1>2. TypeOK /\ DenialsExpire /\ [Next]_vars => DenialsExpire'
    <2> SUFFICES ASSUME TypeOK, DenialsExpire, [Next]_vars PROVE DenialsExpire'
      OBVIOUS
    <2>1. ASSUME NEW p \in Procs, LoadChecks(p) \/ GenerateChecks(p) PROVE DenialsExpire'
      BY <2>1, CheckAdmissionNamesReset DEF LoadChecks, GenerateChecks
    <2>2. ASSUME NEW p \in Procs, Exit(p) PROVE DenialsExpire'
      BY <2>2 DEF Exit, DenialsExpire, NoDecision, TypeOK
    <2>3. CASE UNCHANGED decision
      BY <2>3 DEF DenialsExpire
    <2> QED
      BY <2>1, <2>2, <2>3
         DEF Next, ProcStep, vars, LoadReads, SessionReads, StartSession, FinishLoad,
             GenerateReads, GenerateRecords, RecordGeneration, Unload, Tick, RollBackClock,
             CorruptFile, RemoveFile
  <1> QED
    BY <1>1, <1>2, TypeCorrect, PTL DEF Spec

-----------------------------------------------------------------------------
(* Nobody is charged for what was not recorded.                             *)

(***************************************************************************)
(* Every copy of the state, on disk or in a process that has read it and   *)
(* not written it back yet, is covered by what was recorded since its own  *)
(* period began.  NeverOvercharged alone is not inductive: a stale copy is *)
(* written long after it was read.                                         *)
(***************************************************************************)
Covered(history, state) ==
    state.period_start \in Times =>
        /\ state.messages_used <= history[state.period_start].messages
        /\ state.tokens_used <= history[state.period_start].tokens

AllCovered ==
    Covered(since, disk.state) /\ \A p \in Procs : Covered(since, buf[p].state)

LEMMA RollOverCovered ==
    ASSUME TypeOK, NEW state \in UsageStates
    PROVE  Covered(since, RollOverPeriod(state, clock))
  BY DEF TypeOK, Covered, RollOverPeriod, UsageStates

(***************************************************************************)
(* Nothing recorded is ever taken back, so a covered copy stays covered.   *)
(***************************************************************************)
LEMMA CoveredPersists ==
    ASSUME TypeOK, NEW state \in UsageStates, Covered(since, state),
           UNCHANGED since \/ \E p \in Procs : RecordGeneration(p)
    PROVE  Covered(since', state)
  <1>1. CASE UNCHANGED since
    BY <1>1 DEF Covered
  <1>2. ASSUME NEW p \in Procs, RecordGeneration(p) PROVE Covered(since', state)
    <2>1. tokens[p] \in Nat
      BY UsageAssumption DEF TypeOK, Tokens
    <2>2. \A t \in Times : /\ since[t].messages <= since'[t].messages
                            /\ since[t].tokens <= since'[t].tokens
                            /\ since'[t].messages \in Nat /\ since'[t].tokens \in Nat
                            /\ since[t].messages \in Nat /\ since[t].tokens \in Nat
      BY <1>2, <2>1 DEF RecordGeneration, TypeOK
    <2> QED
      BY <2>2 DEF Covered, UsageStates
  <1> QED
    BY <1>1, <1>2

(***************************************************************************)
(* The state record_generation writes is covered: it either joins the      *)
(* period of the copy, which has begun, or opens one at the clock's value. *)
(***************************************************************************)
LEMMA ChargeCovered ==
    ASSUME TypeOK, AllCovered, NEW p \in Procs, RecordGeneration(p), NEW new,
           new = Charge(CurrentPeriod(Policy[p], buf[p].state, clock), tokens[p])
    PROVE  new \in UsageStates /\ Covered(since', new)
  <1> DEFINE old == CurrentPeriod(Policy[p], buf[p].state, clock)
  <1>1. /\ Policy[p] \in Policies /\ buf[p].state \in UsageStates
        /\ clock \in Nat \ {0} /\ tokens[p] \in Nat /\ old \in UsageStates
    <2>1. Policy[p] \in Policies
      BY UsageAssumption
    <2>2. buf[p].state \in UsageStates /\ clock \in Nat \ {0}
      BY UsageAssumption DEF TypeOK, LoadResults, Times
    <2>3. tokens[p] \in Nat
      BY UsageAssumption DEF TypeOK, Tokens
    <2> QED BY <2>1, <2>2, <2>3, VerdictTyped
  <1>2. Covered(since, old)
    BY <1>1, CurrentPeriodFacts, RollOverCovered DEF AllCovered
  <1>3. /\ new.period_start = old.period_start /\ new.messages_used <= old.messages_used + 1
        /\ new.tokens_used <= old.tokens_used + tokens[p] /\ new \in UsageStates
    BY <1>1, ChargeFacts
  <1>4. old.period_start <= clock
    BY <1>1, CurrentPeriodWindow
  <1>5. ASSUME new.period_start \in Times
        PROVE  /\ new.messages_used <= since'[new.period_start].messages
               /\ new.tokens_used <= since'[new.period_start].tokens
    <2> DEFINE t == old.period_start
    <2>1. /\ old.messages_used \in Nat /\ old.tokens_used \in Nat
          /\ new.messages_used \in Nat /\ new.tokens_used \in Nat
      BY <1>1, <1>3 DEF UsageStates
    <2>2. t \in Times /\ old.messages_used <= since[t].messages
          /\ old.tokens_used <= since[t].tokens
      BY <1>2, <1>3, <1>5 DEF Covered
    <2>3. /\ since'[t].messages = since[t].messages + 1
          /\ since'[t].tokens = since[t].tokens + tokens[p]
          /\ since[t].messages \in Nat /\ since[t].tokens \in Nat
      BY <1>4, <2>2 DEF RecordGeneration, TypeOK
    <2> HIDE DEF old
    <2> QED
      BY <1>1, <1>3, <2>1, <2>2, <2>3
  <1> QED
    BY <1>3, <1>5 DEF Covered

(***************************************************************************)
(* A step that writes covered states only keeps every copy covered.        *)
(***************************************************************************)
LEMMA WriteKeepsCovered ==
    ASSUME TypeOK, AllCovered, NEW p \in Procs, NEW new \in UsageStates, Covered(since', new),
           Save(new) \/ UNCHANGED <<disk, leak>>, Forget(p),
           UNCHANGED since \/ RecordGeneration(p)
    PROVE  AllCovered'
  <1>1. disk' = disk \/ disk'.state = new
    BY DEF Save, Written, Refused
  <1>2. Covered(since', disk'.state) /\ \A q \in Procs : Covered(since', buf'[q].state)
    <2>1. disk.state \in UsageStates /\ \A q \in Procs : buf[q].state \in UsageStates
      BY DEF TypeOK, LoadResults
    <2>2. ASSUME NEW state \in UsageStates, Covered(since, state) PROVE Covered(since', state)
      BY <2>2, CoveredPersists
    <2>3. Covered(since', disk'.state)
      BY <1>1, <2>1, <2>2 DEF AllCovered, Covered
    <2>4. ASSUME NEW q \in Procs PROVE Covered(since', buf'[q].state)
      <3>1. CASE q = p
        BY <3>1 DEF Forget, Absent, FreshState, Covered, Times, TypeOK
      <3>2. CASE q # p
        BY <2>1, <2>2, <3>2 DEF Forget, AllCovered, Covered, TypeOK
      <3> QED
        BY <3>1, <3>2
    <2> QED
      BY <2>3, <2>4 DEF Covered
  <1> QED
    BY <1>2 DEF AllCovered

(***************************************************************************)
(* A message or token counter never exceeds what was recorded since its    *)
(* period began, for any number of processes overwriting each other, with  *)
(* any faults: the guard may under-count, it never over-charges.           *)
(***************************************************************************)
THEOREM NobodyIsOvercharged == Spec => []NeverOvercharged
  <1>1. Init => AllCovered
    BY DEF Init, AllCovered, Covered, Absent, FreshState, Times
  <1>2. TypeOK /\ AllCovered /\ [Next]_vars => AllCovered'
    <2> SUFFICES ASSUME TypeOK, AllCovered, [Next]_vars PROVE AllCovered'
      OBVIOUS
    <2>1. ASSUME NEW p \in Procs, LoadChecks(p) \/ GenerateChecks(p) PROVE AllCovered'
      <3> DEFINE new == RollOverPeriod(buf[p].state, clock)
      <3>1. new \in UsageStates /\ Covered(since, new) /\ since' = since
        BY <2>1, VerdictTyped, RollOverCovered
           DEF LoadChecks, GenerateChecks, TypeOK, LoadResults
      <3>2. Save(new) \/ UNCHANGED <<disk, leak>>
        BY <2>1 DEF LoadChecks, GenerateChecks, CheckAdmission
      <3> HIDE DEF new
      <3> QED
        BY <2>1, <3>1, <3>2, WriteKeepsCovered DEF LoadChecks, GenerateChecks
    <2>2. ASSUME NEW p \in Procs, StartSession(p) PROVE AllCovered'
      <3> DEFINE new == [buf[p].state EXCEPT !.session_start = clock]
      <3>0. buf[p].state \in UsageStates /\ clock \in Nat
        BY UsageAssumption DEF TypeOK, LoadResults, Times
      <3>1. new \in UsageStates /\ Covered(since, new) /\ since' = since
        BY <2>2, <3>0 DEF AllCovered, Covered, UsageStates, StartSession
      <3>2. Save(new) \/ UNCHANGED <<disk, leak>>
        BY <2>2 DEF StartSession, Save
      <3> HIDE DEF new
      <3> QED
        BY <2>2, <3>1, <3>2, WriteKeepsCovered DEF StartSession
    <2>3. ASSUME NEW p \in Procs, RecordGeneration(p) PROVE AllCovered'
      <3>1. PICK new : new = Charge(CurrentPeriod(Policy[p], buf[p].state, clock), tokens[p])
        OBVIOUS
      <3>2. new \in UsageStates /\ Covered(since', new)
        BY <2>3, <3>1, ChargeCovered
      <3>3. Save(new) \/ UNCHANGED <<disk, leak>>
        BY <2>3, <3>1 DEF RecordGeneration
      <3> QED
        BY <2>3, <3>2, <3>3, WriteKeepsCovered DEF RecordGeneration
    <2>4. ASSUME NEW p \in Procs, LoadReads(p) \/ SessionReads(p) \/ GenerateReads(p)
                                  \/ GenerateRecords(p)
          PROVE  AllCovered'
      BY <2>4 DEF LoadReads, SessionReads, GenerateReads, GenerateRecords, ReadUsage,
                  AllCovered, Covered, TypeOK
    <2>5. ASSUME NEW p \in Procs, Exit(p) PROVE AllCovered'
      BY <2>5 DEF Exit, Forget, AllCovered, Covered, Absent, FreshState, Times, TypeOK
    <2>6. CASE CorruptFile \/ RemoveFile
      BY <2>6 DEF CorruptFile, RemoveFile, AllCovered, Covered, Corrupt, Absent, FreshState,
                  Times
    <2>7. CASE UNCHANGED <<disk, buf, since>>
      BY <2>7 DEF AllCovered, Covered
    <2> QED
      BY <2>1, <2>2, <2>3, <2>4, <2>5, <2>6, <2>7
         DEF Next, ProcStep, vars, FinishLoad, Unload, Tick, RollBackClock
  <1>3. AllCovered => NeverOvercharged
    BY DEF AllCovered, Covered, NeverOvercharged, OnDisk
  <1> QED
    BY <1>1, <1>2, <1>3, TypeCorrect, PTL DEF Spec

-----------------------------------------------------------------------------
(* A corrupt file stops generation.                                         *)

(***************************************************************************)
(* Once a process has finished a generation against the corrupt file, the  *)
(* only copy it can hold is a corrupt one, so it cannot be admitted again  *)
(* before the file changes; and nothing leaks while the file is readable.  *)
(***************************************************************************)
LeakStops ==
    \A p \in Procs :
        /\ leak[p] <= 1
        /\ disk.result # "Corrupted" => leak[p] = 0
        /\ leak[p] > 0 =>
            /\ pc[p] \in {"idle", "record", "load_check", "gen_check"}
            /\ pc[p] # "idle" => buf[p].result = "Corrupted"

(***************************************************************************)
(* While the usage file stays corrupt each process finishes at most the    *)
(* one generation that was admitted before the damage, with any number of  *)
(* processes and any faults.                                               *)
(***************************************************************************)
THEOREM CorruptionFailsClosed == Spec => []CorruptionStopsGeneration
  <1>1. Init => LeakStops
    BY DEF Init, LeakStops, Absent
  <1>2. TypeOK /\ LeakStops /\ [Next]_vars => LeakStops'
    <2> SUFFICES ASSUME TypeOK, LeakStops, [Next]_vars PROVE LeakStops'
      OBVIOUS
    <2> USE DEF LeakStops, TypeOK, Goto, ReadUsage, Forget
    <2>1. ASSUME NEW p \in Procs, LoadChecks(p) \/ GenerateChecks(p) PROVE LeakStops'
      <3>1. leak[p] > 0 => pc'[p] = "idle"
        BY <2>1 DEF LoadChecks, GenerateChecks, CheckAdmission, Verdict, CorruptedDecision
      <3>2. \A q \in Procs : q # p => pc'[q] = pc[q] /\ buf'[q] = buf[q]
        BY <2>1 DEF LoadChecks, GenerateChecks, CheckAdmission
      <3>3. \/ UNCHANGED <<disk, leak>>
            \/ disk'.result = "Ok" /\ \A q \in Procs : leak'[q] = 0
        BY <2>1 DEF LoadChecks, GenerateChecks, CheckAdmission, Save, Written, Refused
      <3> QED
        BY <3>1, <3>2, <3>3
    <2>2. ASSUME NEW p \in Procs, StartSession(p) PROVE LeakStops'
      <3>1. \/ UNCHANGED <<disk, leak>>
            \/ disk'.result = "Ok" /\ \A q \in Procs : leak'[q] = 0
        BY <2>2 DEF StartSession, Written
      <3> QED
        BY <2>2, <3>1 DEF StartSession
    <2>3. ASSUME NEW p \in Procs, RecordGeneration(p) PROVE LeakStops'
      <3>1. \/ UNCHANGED <<disk, leak>>
            \/ disk'.result = "Ok" /\ \A q \in Procs : leak'[q] = 0
        BY <2>3 DEF RecordGeneration, Save, Written, Refused
      <3> QED
        BY <2>3, <3>1 DEF RecordGeneration
    <2>4. ASSUME NEW p \in Procs, LoadReads(p) \/ SessionReads(p) \/ GenerateReads(p)
          PROVE  LeakStops'
      BY <2>4 DEF LoadReads, SessionReads, GenerateReads
    <2>5. ASSUME NEW p \in Procs, GenerateRecords(p) PROVE LeakStops'
      BY <2>5 DEF GenerateRecords
    <2>6. ASSUME NEW p \in Procs, Exit(p) \/ FinishLoad(p) \/ Unload(p) PROVE LeakStops'
      BY <2>6 DEF Exit, FinishLoad, Unload
    <2>7. CASE CorruptFile \/ RemoveFile \/ Tick \/ RollBackClock
      BY <2>7 DEF CorruptFile, RemoveFile, Tick, RollBackClock, Corrupt, Absent
    <2>8. CASE UNCHANGED vars
      BY <2>8 DEF vars
    <2> QED
      BY <2>1, <2>2, <2>3, <2>4, <2>5, <2>6, <2>7, <2>8 DEF Next, ProcStep
  <1>3. LeakStops => CorruptionStopsGeneration
    BY DEF LeakStops, CorruptionStopsGeneration
  <1> QED
    BY <1>1, <1>2, <1>3, TypeCorrect, PTL DEF Spec

-----------------------------------------------------------------------------
(* The quotas of a single process.                                          *)

OneProcess == \A p, q \in Procs : p = q

(***************************************************************************)
(* There is room for one more generation: the period is over, or neither   *)
(* counter has reached its limit.                                          *)
(***************************************************************************)
Room(policy, state, now) ==
    \/ PeriodHasRolledOver(policy, state, now)
    \/ ~MessagesExhausted(policy, state) /\ ~TokensExhausted(policy, state)

Bounded(policy, state) ==
    /\ policy.message_limit > 0 => state.messages_used <= policy.message_limit
    /\ policy.token_limit > 0 => state.tokens_used <= policy.token_limit - 1 + MaxTokens

(***************************************************************************)
(* The bound needs more than itself to be inductive: between the admission *)
(* and the record, the file the record will read must still have room.     *)
(* It holds on FreshState, which stands for a file that is gone or corrupt.*)
(***************************************************************************)
QuotaInv ==
    \A p \in Procs :
        /\ Bounded(Policy[p], disk.state) /\ Bounded(Policy[p], buf[p].state)
        /\ disk.state.period_start <= clock /\ buf[p].state.period_start <= clock
        /\ pc[p] = "gen_check" => disk.state = buf[p].state \/ disk.state = FreshState
        /\ pc[p] = "generating" => Room(Policy[p], disk.state, clock)
        /\ pc[p] = "record" => Room(Policy[p], buf[p].state, clock)

LEMMA FreshHasRoom ==
    ASSUME NEW policy \in Policies, NEW now
    PROVE  Room(policy, FreshState, now) /\ Bounded(policy, FreshState)
  BY UsageAssumption DEF Room, PeriodHasRolledOver, FreshState, Bounded, Policies

(***************************************************************************)
(* A new period has room, and room is not lost while the clock advances:   *)
(* an expired period stays expired.                                        *)
(***************************************************************************)
LEMMA RoomPersists ==
    ASSUME NEW policy \in Policies, NEW state \in UsageStates, NEW now \in Nat,
           Room(policy, state, now), state.period_start <= now
    PROVE  Room(policy, state, now + 1)
  BY DEF Room, PeriodHasRolledOver, MessagesExhausted, TokensExhausted, Policies, UsageStates

LEMMA RollOverHasRoom ==
    ASSUME NEW policy \in Policies, NEW state \in UsageStates, NEW now \in Nat
    PROVE  /\ Room(policy, RollOverPeriod(state, now), now)
           /\ Bounded(policy, RollOverPeriod(state, now))
  <1> DEFINE new == RollOverPeriod(state, now)
  <1>1. new.messages_used = 0 /\ new.tokens_used = 0
    BY RollOverResets
  <1>2. /\ policy.message_limit \in Nat /\ policy.token_limit \in Nat
        /\ MaxTokens \in Nat
    BY UsageAssumption DEF Policies
  <1> HIDE DEF new
  <1>3. ~MessagesExhausted(policy, new) /\ ~TokensExhausted(policy, new)
    BY <1>1, <1>2 DEF MessagesExhausted, TokensExhausted
  <1>4. Bounded(policy, new)
    BY <1>1, <1>2 DEF Bounded
  <1> QED
    BY <1>3, <1>4 DEF Room, new

(***************************************************************************)
(* One generation charged to a state with room keeps it bounded.           *)
(***************************************************************************)
LEMMA ChargeBounded ==
    ASSUME NEW policy \in Policies, NEW state \in UsageStates, NEW now \in Nat,
           NEW n \in Tokens, Room(policy, state, now)
    PROVE  Bounded(policy, Charge(CurrentPeriod(policy, state, now), n))
  <1> DEFINE cur == CurrentPeriod(policy, state, now)
             new == Charge(cur, n)
  <1>1. /\ cur \in UsageStates /\ n \in Nat /\ n <= MaxTokens /\ MaxTokens \in Nat
        /\ new \in UsageStates
        /\ new.messages_used <= cur.messages_used + 1
        /\ new.tokens_used <= cur.tokens_used + n
    BY UsageAssumption, CurrentPeriodFacts, ChargeFacts DEF Tokens
  <1>2. ~MessagesExhausted(policy, cur) /\ ~TokensExhausted(policy, cur)
    <2>1. CASE PeriodHasRolledOver(policy, state, now)
      <3>1. cur.messages_used = 0 /\ cur.tokens_used = 0
        BY <2>1, RollOverResets DEF CurrentPeriod
      <3> HIDE DEF cur
      <3> QED
        BY <3>1 DEF MessagesExhausted, TokensExhausted, Policies
    <2>2. CASE ~PeriodHasRolledOver(policy, state, now)
      BY <2>2, CurrentPeriodFacts DEF Room
    <2> QED
      BY <2>1, <2>2
  <1>3. /\ policy.message_limit \in Nat /\ policy.token_limit \in Nat
        /\ cur.messages_used \in Nat /\ cur.tokens_used \in Nat
        /\ new.messages_used \in Nat /\ new.tokens_used \in Nat
    BY <1>1 DEF Policies, UsageStates
  <1>4. Bounded(policy, new)
    <2> HIDE DEF new, cur
    <2> QED
      BY <1>1, <1>2, <1>3 DEF Bounded, MessagesExhausted, TokensExhausted
  <1> QED
    BY <1>4

(***************************************************************************)
(* What one step does to a single process's copies: p writes new or leaves *)
(* the file, and forgets its copy.                                         *)
(***************************************************************************)
LEMMA QuotaAfterWrite ==
    ASSUME OneProcess, TypeOK, QuotaInv, NEW p \in Procs, NEW new \in UsageStates,
           Bounded(Policy[p], new), new.period_start <= clock,
           Save(new) \/ UNCHANGED <<disk, leak>>, Forget(p), UNCHANGED clock,
           pc'[p] \notin {"gen_check", "record"},
           pc'[p] = "generating" => Room(Policy[p], disk'.state, clock)
    PROVE  QuotaInv'
  <1>1. disk' = disk \/ disk'.state = new
    BY DEF Save, Written, Refused
  <1>2. \A q \in Procs : q = p
    BY DEF OneProcess
  <1>3. /\ Policy[p] \in Policies /\ clock \in Nat /\ clock' = clock
        /\ buf'[p].state = FreshState
    <2>1. Policy[p] \in Policies
      BY UsageAssumption
    <2>2. clock \in Nat
      BY DEF TypeOK, Times
    <2>3. buf'[p] = Absent
      BY DEF Forget, TypeOK
    <2> QED
      BY <2>1, <2>2, <2>3 DEF Absent
  <1>4. Bounded(Policy[p], buf'[p].state) /\ buf'[p].state.period_start <= clock'
    BY <1>3, FreshHasRoom DEF FreshState
  <1>5. Bounded(Policy[p], disk'.state) /\ disk'.state.period_start <= clock'
    BY <1>1, <1>3 DEF QuotaInv
  <1> QED
    BY <1>2, <1>3, <1>4, <1>5 DEF QuotaInv, Bounded

LEMMA QuotaAfterAdmission ==
    ASSUME OneProcess, TypeOK, QuotaInv, NEW p \in Procs,
           LoadChecks(p) \/ GenerateChecks(p)
    PROVE  QuotaInv'
  <1> DEFINE new == RollOverPeriod(buf[p].state, clock)
  <1>1. /\ Policy[p] \in Policies /\ clock \in Nat /\ buf[p].state \in UsageStates
        /\ new \in UsageStates
    BY UsageAssumption, VerdictTyped DEF TypeOK, LoadResults, Times
  <1>2. /\ Bounded(Policy[p], new) /\ Room(Policy[p], new, clock)
        /\ new.period_start <= clock
    BY <1>1, RollOverHasRoom, RollOverResets
  <1>3. Save(new) \/ UNCHANGED <<disk, leak>>
    BY DEF LoadChecks, GenerateChecks, CheckAdmission
  <1>4. pc'[p] \notin {"gen_check", "record"} /\ UNCHANGED clock /\ Forget(p)
    BY DEF LoadChecks, GenerateChecks, CheckAdmission, Goto, TypeOK
  <1>5. ASSUME pc'[p] = "generating" PROVE Room(Policy[p], disk'.state, clock)
    <2>1. GenerateChecks(p) /\ Verdict(p).outcome = "Allowed" /\ CheckAdmission(p, "generating")
      BY <1>5 DEF LoadChecks, GenerateChecks, CheckAdmission, Goto, TypeOK
    <2>2. buf[p].result # "Corrupted"
      BY <2>1 DEF Verdict, CorruptedDecision
    <2>3. disk.state = buf[p].state \/ disk.state = FreshState
      BY <2>1 DEF GenerateChecks, QuotaInv
    <2>4. CASE PeriodHasRolledOver(Policy[p], buf[p].state, clock)
      <3>1. disk' = disk \/ disk'.state = new
        BY <1>3 DEF Save, Written, Refused
      <3> QED
        BY <1>1, <1>2, <2>3, <2>4, <3>1, FreshHasRoom DEF Room
    <2>5. CASE ~PeriodHasRolledOver(Policy[p], buf[p].state, clock)
      <3>1. disk' = disk
        BY <2>1, <2>5 DEF CheckAdmission
      <3>2. Verdict(p) = Evaluate(Policy[p], buf[p].state, clock)
        BY <1>1, <2>2, <2>5, CurrentPeriodFacts DEF Verdict
      <3>3. Room(Policy[p], buf[p].state, clock)
        BY <1>1, <2>1, <3>2, EvaluateFacts DEF Room
      <3> QED
        BY <1>1, <2>3, <3>1, <3>3, FreshHasRoom
    <2> QED
      BY <2>4, <2>5
  <1> HIDE DEF new
  <1> QED
    BY <1>1, <1>2, <1>3, <1>4, <1>5, QuotaAfterWrite

(***************************************************************************)
(* With one process and a clock that does not go back, the quotas hold     *)
(* whatever else fails: never more messages than the limit, and fewer      *)
(* tokens past the limit than one generation makes.  A clock set back      *)
(* after a save was refused would let an expired period count again.       *)
(***************************************************************************)
THEOREM QuotaIsEnforced ==
    ASSUME OneProcess, "rollback" \notin Faults
    PROVE  Spec => []QuotaOvershootBounded
  <1>1. Init => QuotaInv
    BY UsageAssumption, FreshHasRoom DEF Init, QuotaInv, Absent, FreshState
  <1>2. TypeOK /\ QuotaInv /\ [Next]_vars => QuotaInv'
    <2> SUFFICES ASSUME TypeOK, QuotaInv, [Next]_vars PROVE QuotaInv'
      OBVIOUS
    <2>0. clock \in Nat \ {0} /\ disk.state \in UsageStates
      BY DEF TypeOK, LoadResults, Times
    <2>1. ASSUME NEW p \in Procs, LoadChecks(p) \/ GenerateChecks(p) PROVE QuotaInv'
      BY <2>1, QuotaAfterAdmission
    <2>2. ASSUME NEW p \in Procs, StartSession(p) PROVE QuotaInv'
      <3> DEFINE new == [buf[p].state EXCEPT !.session_start = clock]
      <3>0. buf[p].state \in UsageStates
        BY DEF TypeOK, LoadResults
      <3>1. /\ new \in UsageStates /\ new.period_start = buf[p].state.period_start
            /\ new.messages_used = buf[p].state.messages_used
            /\ new.tokens_used = buf[p].state.tokens_used
        BY <2>0, <3>0 DEF UsageStates
      <3> HIDE DEF new
      <3>2. Bounded(Policy[p], new) /\ new.period_start <= clock
        BY <3>1 DEF QuotaInv, Bounded
      <3>3. Save(new) \/ UNCHANGED <<disk, leak>>
        BY <2>2 DEF StartSession, Save, new
      <3>4. pc'[p] = "loading" /\ Forget(p) /\ UNCHANGED clock
        BY <2>2 DEF StartSession, Goto, TypeOK
      <3> QED
        BY <3>1, <3>2, <3>3, <3>4, QuotaAfterWrite
    <2>3. ASSUME NEW p \in Procs, RecordGeneration(p) PROVE QuotaInv'
      <3> DEFINE cur == CurrentPeriod(Policy[p], buf[p].state, clock)
                 new == Charge(cur, tokens[p])
      <3>1. /\ Policy[p] \in Policies /\ buf[p].state \in UsageStates
            /\ tokens[p] \in Tokens /\ tokens[p] \in Nat
            /\ Room(Policy[p], buf[p].state, clock)
        <4>1. Policy[p] \in Policies /\ MaxTokens \in Nat
          BY UsageAssumption
        <4>2. buf[p].state \in UsageStates
          BY DEF TypeOK, LoadResults
        <4>3. Room(Policy[p], buf[p].state, clock)
          BY <2>3 DEF RecordGeneration, QuotaInv
        <4>4. tokens[p] \in Tokens
          BY DEF TypeOK
        <4> QED
          BY <4>1, <4>2, <4>3, <4>4 DEF Tokens
      <3>2. new \in UsageStates /\ new.period_start = cur.period_start
        BY <2>0, <3>1, CurrentPeriodFacts, ChargeFacts
      <3>3. Bounded(Policy[p], new) /\ new.period_start <= clock
        BY <2>0, <3>1, <3>2, ChargeBounded, CurrentPeriodWindow
      <3>4. Save(new) \/ UNCHANGED <<disk, leak>>
        BY <2>3 DEF RecordGeneration
      <3>5. pc'[p] = "idle" /\ Forget(p) /\ UNCHANGED clock
        BY <2>3 DEF RecordGeneration, Goto, TypeOK
      <3> HIDE DEF new
      <3> QED
        BY <3>2, <3>3, <3>4, <3>5, QuotaAfterWrite
    <2>4. ASSUME NEW p \in Procs, LoadReads(p) \/ SessionReads(p) \/ GenerateReads(p)
                                  \/ GenerateRecords(p)
          PROVE  QuotaInv'
      <3>1. \A q \in Procs : q = p
        BY DEF OneProcess
      <3>2. /\ UNCHANGED <<clock, disk>> /\ buf'[p] = disk
            /\ pc'[p] \in {"load_check", "session_save", "gen_check", "record"}
            /\ pc'[p] = "record" => pc[p] = "generating"
        BY <2>4 DEF LoadReads, SessionReads, GenerateReads, GenerateRecords, ReadUsage, Goto,
                    TypeOK
      <3> QED
        BY <3>1, <3>2 DEF QuotaInv, Bounded
    <2>5. ASSUME NEW p \in Procs, Exit(p) \/ FinishLoad(p) \/ Unload(p) PROVE QuotaInv'
      <3>1. \A q \in Procs : q = p
        BY DEF OneProcess
      <3>2. /\ UNCHANGED <<clock, disk>> /\ pc'[p] = "idle"
            /\ buf'[p] = buf[p] \/ buf'[p].state = FreshState
        BY <2>5 DEF Exit, FinishLoad, Unload, Forget, Absent, Goto, TypeOK
      <3>3. Bounded(Policy[p], FreshState) /\ FreshState.period_start <= clock
        BY <2>0, UsageAssumption, FreshHasRoom DEF FreshState
      <3> QED
        BY <3>1, <3>2, <3>3 DEF QuotaInv, Bounded
    <2>6. CASE CorruptFile \/ RemoveFile
      <3>1. disk'.state = FreshState /\ UNCHANGED <<clock, pc, buf>>
        BY <2>6 DEF CorruptFile, RemoveFile, Corrupt, Absent
      <3>2. \A p \in Procs : /\ Bounded(Policy[p], FreshState)
                             /\ Room(Policy[p], FreshState, clock)
        BY UsageAssumption, FreshHasRoom
      <3>3. FreshState.period_start <= clock
        BY <2>0 DEF FreshState
      <3> QED
        BY <3>1, <3>2, <3>3 DEF QuotaInv, Bounded, Room
    <2>7. CASE Tick
      <3>1. clock' = clock + 1 /\ UNCHANGED <<disk, buf, pc>>
        BY <2>7 DEF Tick
      <3>2. \A p \in Procs : Policy[p] \in Policies /\ buf[p].state \in UsageStates
        BY UsageAssumption DEF TypeOK, LoadResults
      <3>3. \A p \in Procs :
               /\ disk.state.period_start <= clock' /\ buf[p].state.period_start <= clock'
               /\ pc[p] = "generating" => Room(Policy[p], disk.state, clock')
               /\ pc[p] = "record" => Room(Policy[p], buf[p].state, clock')
        BY <2>0, <3>1, <3>2, RoomPersists DEF QuotaInv, UsageStates
      <3> QED
        BY <3>1, <3>3 DEF QuotaInv, Bounded
    <2>8. CASE RollBackClock
      BY <2>8 DEF RollBackClock
    <2>9. CASE UNCHANGED vars
      BY <2>9 DEF vars, QuotaInv, Bounded, Room
    <2> QED
      BY <2>1, <2>2, <2>3, <2>4, <2>5, <2>6, <2>7, <2>8, <2>9 DEF Next, ProcStep
  <1>3. QuotaInv => QuotaOvershootBounded
    BY DEF QuotaInv, Bounded, QuotaOvershootBounded, OnDisk
  <1> QED
    BY <1>1, <1>2, <1>3, TypeCorrect, PTL DEF Spec
-----------------------------------------------------------------------------
(* One process: what a generation costs, and when it is forgiven.           *)

\* Where a process works on the copy of the file that it read.
Holding == {"load_check", "session_save", "gen_check", "record"}

(***************************************************************************)
(* What one step does to the file, the copy and the history.  A step of a  *)
(* process reads the file, lets go of its copy, or writes it back with a   *)
(* new session, a new period or a charge, unless the save is refused.      *)
(***************************************************************************)
Reads(p) ==
    /\ UNCHANGED <<clock, disk, since>>
    /\ buf' = [buf EXCEPT ![p] = disk] /\ pc'[p] \in Holding

LetsGo(p) == UNCHANGED <<clock, disk, since>> /\ pc'[p] \notin Holding

Writes(p, new) ==
    /\ pc[p] \in Holding /\ pc'[p] \notin Holding
    /\ buf[p].result # "Corrupted" /\ UNCHANGED clock
    /\ \/ disk' = [result |-> "Ok", state |-> new]
       \/ UNCHANGED disk /\ (~ValidateState(new) \/ "save_fails" \in Faults)

\* One more generation of n tokens in the history.
Recorded(n) ==
    since' = [t \in Times |->
                 IF t <= clock THEN [messages |-> since[t].messages + 1,
                                     tokens   |-> since[t].tokens + n]
                 ELSE since[t]]

Charges(p) ==
    /\ pc[p] \in Holding /\ pc'[p] \notin Holding /\ Recorded(tokens[p]) /\ UNCHANGED clock
    /\ \/ buf[p].result = "Corrupted" /\ UNCHANGED disk
       \/ Writes(p, Charge(CurrentPeriod(Policy[p], buf[p].state, clock), tokens[p]))

LEMMA StepEffects ==
    ASSUME TypeOK, NEW p \in Procs, ProcStep(p)
    PROVE  \/ Reads(p) \/ LetsGo(p) \/ Charges(p)
           \/ /\ Writes(p, [buf[p].state EXCEPT !.session_start = clock])
              /\ UNCHANGED since
           \/ /\ PeriodHasRolledOver(Policy[p], buf[p].state, clock)
              /\ Writes(p, RollOverPeriod(buf[p].state, clock))
              /\ UNCHANGED since
  <1> USE DEF Holding, Goto, TypeOK
  <1>1. CASE LoadReads(p) \/ SessionReads(p) \/ GenerateReads(p) \/ GenerateRecords(p)
    BY <1>1 DEF LoadReads, SessionReads, GenerateReads, GenerateRecords, ReadUsage, Reads
  <1>2. CASE LoadChecks(p) \/ GenerateChecks(p)
    BY <1>2 DEF LoadChecks, GenerateChecks, CheckAdmission, Save, Written, Refused, Writes, LetsGo
  <1>3. CASE StartSession(p)
    BY <1>3 DEF StartSession, Written, Refused, Writes, LetsGo
  <1>4. CASE RecordGeneration(p)
    BY <1>4 DEF RecordGeneration, Save, Written, Refused, Writes, Charges, Recorded
  <1>5. CASE FinishLoad(p) \/ Unload(p) \/ Exit(p)
    BY <1>5 DEF FinishLoad, Unload, Exit, LetsGo
  <1> QED
    BY <1>1, <1>2, <1>3, <1>4, <1>5 DEF ProcStep

\* A period is not ahead of the clock, and without one nothing is counted.
Begun(state, now) ==
    /\ state.period_start <= now
    /\ state.period_start = 0 => state.messages_used = 0 /\ state.tokens_used = 0

(***************************************************************************)
(* What a process holds is the file that is there, unless that is gone or  *)
(* damaged: with one process nobody else can have written it.              *)
(***************************************************************************)
CopyInv ==
    /\ Begun(disk.state, clock)
    /\ \A p \in Procs : /\ Begun(buf[p].state, clock)
                        /\ pc[p] \in Holding /\ disk.result = "Ok" => disk = buf[p]

LEMMA WritesAreBegun ==
    ASSUME TypeOK, NEW p \in Procs, Begun(buf[p].state, clock)
    PROVE  /\ Begun([buf[p].state EXCEPT !.session_start = clock], clock)
           /\ Begun(RollOverPeriod(buf[p].state, clock), clock)
           /\ Begun(Charge(CurrentPeriod(Policy[p], buf[p].state, clock), tokens[p]), clock)
  <1> DEFINE cur == CurrentPeriod(Policy[p], buf[p].state, clock)
  <1>1. /\ Policy[p] \in Policies /\ buf[p].state \in UsageStates /\ clock \in Nat \ {0}
        /\ tokens[p] \in Nat
    BY UsageAssumption DEF TypeOK, LoadResults, Times, Tokens
  <1>2. Begun(RollOverPeriod(buf[p].state, clock), clock)
    BY <1>1, RollOverResets DEF Begun
  <1>3. cur \in UsageStates /\ cur.period_start > 0 /\ cur.period_start <= clock
    BY <1>1, CurrentPeriodFacts, CurrentPeriodWindow
  <1>4. Charge(cur, tokens[p]).period_start = cur.period_start
    BY <1>1, <1>3, ChargeFacts
  <1>5. Begun([buf[p].state EXCEPT !.session_start = clock], clock)
    BY <1>1 DEF Begun, UsageStates
  <1> QED
    BY <1>2, <1>3, <1>4, <1>5 DEF Begun, UsageStates

LEMMA CopyInductive ==
    ASSUME OneProcess, "rollback" \notin Faults, TypeOK, TypeOK', CopyInv, [Next]_vars
    PROVE  CopyInv'
  <1>0. clock \in Nat \ {0} /\ Begun(FreshState, clock)
    BY DEF TypeOK, Times, Begun, FreshState
  <1>1. ASSUME NEW p \in Procs, ProcStep(p) PROVE CopyInv'
    <2>1. /\ \A q \in Procs : q = p
          /\ Begun(disk.state, clock) /\ Begun(buf[p].state, clock)
          /\ pc[p] \in Holding /\ disk.result = "Ok" => disk = buf[p]
      BY DEF OneProcess, CopyInv
    <2>2. UNCHANGED clock /\ (buf'[p] \in {disk, buf[p], Absent})
      BY <1>1 DEF ProcStep, LoadReads, LoadChecks, SessionReads, StartSession, FinishLoad,
                  GenerateReads, GenerateChecks, GenerateRecords, RecordGeneration, Unload, Exit,
                  ReadUsage, Forget, TypeOK
    <2>3. Begun(buf'[p].state, clock)
      BY <1>0, <2>1, <2>2 DEF Begun, Absent
    <2>4. CASE Reads(p)
      BY <2>1, <2>3, <2>4 DEF Reads, CopyInv, Begun, TypeOK
    <2>5. CASE LetsGo(p)
      BY <2>1, <2>3, <2>5 DEF LetsGo, CopyInv, Begun
    <2>6. ASSUME NEW new, Writes(p, new), Begun(new, clock) PROVE CopyInv'
      BY <2>1, <2>3, <2>6 DEF Writes, CopyInv, Begun
    <2>7. CASE Charges(p)
      <3>1. CASE buf[p].result = "Corrupted" /\ UNCHANGED disk
        BY <2>1, <2>3, <2>7, <3>1 DEF Charges, CopyInv, Begun
      <3>2. CASE Writes(p, Charge(CurrentPeriod(Policy[p], buf[p].state, clock), tokens[p]))
        BY <2>1, <2>6, <3>2, WritesAreBegun
      <3> QED
        BY <2>7, <3>1, <3>2 DEF Charges
    <2> QED
      BY <1>1, <2>1, <2>4, <2>5, <2>6, <2>7, StepEffects, WritesAreBegun
  <1>2. CASE Tick
    BY <1>0, <1>2 DEF Tick, CopyInv, Begun, TypeOK, LoadResults, UsageStates
  <1>3. CASE CorruptFile \/ RemoveFile
    BY <1>0, <1>3 DEF CorruptFile, RemoveFile, Corrupt, Absent, CopyInv, Begun
  <1>4. CASE UNCHANGED vars
    BY <1>4 DEF vars, CopyInv, Begun
  <1> QED
    BY <1>1, <1>2, <1>3, <1>4 DEF Next, RollBackClock

\* A file that is written with lower counters opens a new period after the old one.
Forgiven ==
    disk.result = "Ok" /\ disk'.result = "Ok"
    /\ (disk'.state.messages_used < OnDisk.messages_used
        \/ disk'.state.tokens_used < OnDisk.tokens_used)

(***************************************************************************)
(* Only a save by a process lowers a counter, and where what it read is    *)
(* still what is in the file, only with a period that begins.              *)
(***************************************************************************)
LEMMA ForgivenBySave ==
    ASSUME TypeOK, [Next]_vars, Forgiven
    PROVE  /\ OnDisk.messages_used > 0 \/ OnDisk.tokens_used > 0
           /\ \E p \in Procs :
                /\ pc[p] \in Holding /\ pc'[p] \notin Holding
                /\ buf[p] = disk => /\ PeriodHasRolledOver(Policy[p], OnDisk, clock)
                                    /\ disk'.state.period_start = clock
  <1>1. /\ disk' # disk /\ disk.result = "Ok" /\ disk'.result = "Ok"
        /\ disk.state \in UsageStates /\ clock \in Nat \ {0}
    BY DEF Forgiven, TypeOK, LoadResults, Times, OnDisk, UsageStates
  <1>2. PICK p \in Procs : ProcStep(p)
    BY <1>1 DEF Next, vars, Tick, RollBackClock, CorruptFile, RemoveFile, Corrupt, Absent
  <1>3. /\ Policy[p] \in Policies /\ tokens[p] \in Nat /\ buf[p].state \in UsageStates
    BY UsageAssumption DEF TypeOK, Tokens, LoadResults
  <1>4. ASSUME NEW new, Writes(p, new)
        PROVE  disk'.state = new /\ pc[p] \in Holding /\ pc'[p] \notin Holding
    BY <1>1, <1>4 DEF Writes
  <1>5. PICK new : /\ Writes(p, new) /\ new \in UsageStates
                   /\ \/ new = [buf[p].state EXCEPT !.session_start = clock]
                      \/ /\ PeriodHasRolledOver(Policy[p], buf[p].state, clock)
                         /\ new = RollOverPeriod(buf[p].state, clock)
                      \/ new = Charge(CurrentPeriod(Policy[p], buf[p].state, clock), tokens[p])
    <2> DEFINE state == buf[p].state
               begun == [state EXCEPT !.session_start = clock]
               opened == RollOverPeriod(state, clock)
               charged == Charge(CurrentPeriod(Policy[p], state, clock), tokens[p])
    <2>1. begun \in UsageStates
      BY <1>1, <1>3 DEF UsageStates
    <2>2. opened \in UsageStates
      BY <1>1, <1>3, CurrentPeriodFacts
    <2>3. charged \in UsageStates
      BY <1>1, <1>3, CurrentPeriodFacts, ChargeFacts
    <2>4. \/ Writes(p, begun)
          \/ PeriodHasRolledOver(Policy[p], state, clock) /\ Writes(p, opened)
          \/ Writes(p, charged)
      BY <1>1, <1>2, StepEffects DEF Reads, LetsGo, Charges
    <2> QED
      BY <2>1, <2>2, <2>3, <2>4
  <1>6. OnDisk.messages_used > 0 \/ OnDisk.tokens_used > 0
    BY <1>1, <1>4, <1>5 DEF Forgiven, OnDisk, UsageStates
  <1>7. ASSUME buf[p] = disk
        PROVE  PeriodHasRolledOver(Policy[p], OnDisk, clock) /\ disk'.state.period_start = clock
    <2> DEFINE opened == RollOverPeriod(OnDisk, clock)
    <2>1. new # [OnDisk EXCEPT !.session_start = clock]
      BY <1>1, <1>4, <1>5 DEF Forgiven, OnDisk, UsageStates
    <2>2. new # Charge(OnDisk, tokens[p])
      <3>1. /\ Charge(OnDisk, tokens[p]).messages_used >= OnDisk.messages_used
            /\ Charge(OnDisk, tokens[p]).tokens_used >= OnDisk.tokens_used
        BY <1>1, <1>3, ChargeFacts DEF OnDisk
      <3> QED
        BY <1>1, <1>4, <1>5, <3>1 DEF Forgiven, OnDisk, UsageStates
    <2>3. /\ PeriodHasRolledOver(Policy[p], OnDisk, clock)
          /\ new = opened \/ new = Charge(opened, tokens[p])
      BY <1>1, <1>3, <1>5, <1>7, <2>1, <2>2, CurrentPeriodFacts DEF OnDisk
    <2>4. opened \in UsageStates /\ opened.period_start = clock
      BY <1>1, <1>3, CurrentPeriodFacts, RollOverResets DEF OnDisk
    <2>5. Charge(opened, tokens[p]).period_start = clock
      <3> HIDE DEF opened
      <3> QED
        BY <1>3, <2>4, ChargeFacts
    <2> QED
      BY <1>4, <1>5, <2>3, <2>4, <2>5
  <1> QED
    BY <1>4, <1>5, <1>6, <1>7

-----------------------------------------------------------------------------
(* Any number of processes: what a save may lose.                           *)

\* Nothing is counted before the first period.
Unopened(state) == state.period_start = 0 => state.messages_used = 0 /\ state.tokens_used = 0

UnopenedInv == Unopened(disk.state) /\ \A p \in Procs : Unopened(buf[p].state)

LEMMA UnopenedInductive ==
    ASSUME TypeOK, TypeOK', UnopenedInv, [Next]_vars
    PROVE  UnopenedInv'
  <1>0. Unopened(FreshState)
    BY DEF Unopened, FreshState
  <1>1. ASSUME NEW p \in Procs, ProcStep(p) PROVE UnopenedInv'
    <2>1. \A q \in Procs : buf'[q] \in {disk, buf[q], Absent}
      BY <1>1 DEF ProcStep, LoadReads, LoadChecks, SessionReads, StartSession, FinishLoad,
                  GenerateReads, GenerateChecks, GenerateRecords, RecordGeneration, Unload, Exit,
                  ReadUsage, Forget, TypeOK
    <2>2. \A q \in Procs : Unopened(buf'[q].state)
      BY <1>0, <2>1 DEF UnopenedInv, Absent
    <2>3. /\ Policy[p] \in Policies /\ tokens[p] \in Nat
          /\ buf[p].state \in UsageStates /\ clock \in Nat \ {0}
      <3>1. Policy[p] \in Policies
        BY UsageAssumption
      <3> QED
        BY <3>1 DEF TypeOK, LoadResults, Times, Tokens
    <2>4. Unopened([buf[p].state EXCEPT !.session_start = clock])
      BY <2>3 DEF UnopenedInv, Unopened, UsageStates
    <2>5. Unopened(RollOverPeriod(buf[p].state, clock))
      BY <2>3, RollOverResets DEF Unopened
    <2>6. Unopened(Charge(CurrentPeriod(Policy[p], buf[p].state, clock), tokens[p]))
      <3> DEFINE cur == CurrentPeriod(Policy[p], buf[p].state, clock)
      <3>1. cur \in UsageStates /\ cur.period_start > 0
        BY <2>3, CurrentPeriodFacts, CurrentPeriodWindow
      <3> HIDE DEF cur
      <3>2. Charge(cur, tokens[p]).period_start = cur.period_start
        BY <2>3, <3>1, ChargeFacts
      <3>3. Unopened(Charge(cur, tokens[p]))
        BY <3>1, <3>2 DEF Unopened, UsageStates
      <3> QED
        BY <3>3 DEF cur
    <2>7. Unopened(disk'.state)
      BY <1>1, <2>4, <2>5, <2>6, StepEffects DEF Reads, LetsGo, Charges, Writes, UnopenedInv
    <2> QED
      BY <2>2, <2>7 DEF UnopenedInv
  <1>2. CASE Tick \/ RollBackClock
    BY <1>2 DEF Tick, RollBackClock, UnopenedInv
  <1>3. CASE CorruptFile \/ RemoveFile
    BY <1>0, <1>3 DEF CorruptFile, RemoveFile, Corrupt, Absent, UnopenedInv
  <1>4. CASE UNCHANGED vars
    BY <1>4 DEF vars, UnopenedInv
  <1> QED
    BY <1>1, <1>2, <1>3, <1>4 DEF Next

(***************************************************************************)
(* For any number of processes, any policies and any faults, usage is lost *)
(* only by a save that rightly begins a new period or by one of a copy     *)
(* that is no longer what is in the file.                                  *)
(***************************************************************************)
THEOREM OnlyStaleCopiesLose == Spec => LostOnlyToStaleCopies
  <1> DEFINE Lost ==
        Forgiven => \E p \in Procs :
          /\ pc'[p] # pc[p]
          /\ \/ buf[p] # disk
             \/ /\ disk'.state.period_start = clock
                /\ \/ clock < OnDisk.period_start
                   \/ clock - OnDisk.period_start >= Policy[p].reset_period
  <1>1. Init => UnopenedInv
    BY DEF Init, UnopenedInv, Unopened, Absent, FreshState
  <1>2. TypeOK /\ TypeOK' /\ UnopenedInv /\ [Next]_vars => UnopenedInv'
    BY UnopenedInductive
  <1>3. TypeOK /\ UnopenedInv /\ [Next]_vars => Lost
    <2> SUFFICES ASSUME TypeOK, UnopenedInv, [Next]_vars, Forgiven
                 PROVE  Lost
      OBVIOUS
    <2>1. PICK p \in Procs :
             /\ pc[p] \in Holding /\ pc'[p] \notin Holding
             /\ buf[p] = disk => /\ PeriodHasRolledOver(Policy[p], OnDisk, clock)
                                 /\ disk'.state.period_start = clock
      BY ForgivenBySave
    <2>2. OnDisk.period_start \in Nat \ {0}
      BY ForgivenBySave DEF TypeOK, LoadResults, OnDisk, UsageStates, UnopenedInv, Unopened
    <2>3. PeriodHasRolledOver(Policy[p], OnDisk, clock) =>
             \/ clock < OnDisk.period_start
             \/ clock - OnDisk.period_start >= Policy[p].reset_period
      BY <2>2 DEF PeriodHasRolledOver
    <2> QED
      BY <2>1, <2>3
  <1>4. Spec => [][Lost]_vars
    BY <1>1, <1>2, <1>3, TypeCorrect, PTL DEF Spec
  <1> QED
    BY <1>4, PTL DEF LostOnlyToStaleCopies, Forgiven
-----------------------------------------------------------------------------
(* One process and nothing lost: the file is exact.                         *)

(***************************************************************************)
(* The counters are what was recorded in the period, and nothing was       *)
(* recorded after it: otherwise the period opened next would start with    *)
(* generations that its counters leave out.                                *)
(***************************************************************************)
Exact(policy, state, history) ==
    /\ state.period_start = 0 => \A t \in Times : history[t].messages = 0 /\ history[t].tokens = 0
    /\ state.period_start \in Times =>
         /\ state.messages_used = Lesser(history[state.period_start].messages, MaxCounter)
         /\ state.tokens_used = Lesser(history[state.period_start].tokens, MaxCounter)
    /\ \A t \in Times : t >= state.period_start + policy.reset_period /\ state.period_start > 0 =>
         history[t].messages = 0 /\ history[t].tokens = 0

ExactInv ==
    /\ \A t \in Times : t > clock => since[t].messages = 0 /\ since[t].tokens = 0
    /\ \A p \in Procs :
         /\ clock <= MaxTimestamp /\ disk.result # "Corrupted" => Exact(Policy[p], disk.state, since)
         /\ pc[p] \in Holding =>
              /\ buf[p].result = "Corrupted" => disk.result = "Corrupted"
              /\ buf[p].result = "NotFound" => buf[p].state = FreshState
              /\ buf[p].result = "Ok" => ValidateState(buf[p].state)
              /\ clock <= MaxTimestamp /\ buf[p].result # "Corrupted" =>
                   Exact(Policy[p], buf[p].state, since)
    /\ disk.result = "NotFound" => disk.state = FreshState
    /\ disk.result = "Ok" => Procs # {}

LEMMA RollOverIsExact ==
    ASSUME TypeOK, NEW policy \in Policies, NEW state \in UsageStates,
           \A t \in Times : t > clock => since[t].messages = 0 /\ since[t].tokens = 0,
           Exact(policy, state, since), PeriodHasRolledOver(policy, state, clock),
           state.period_start <= clock
    PROVE  /\ Exact(policy, RollOverPeriod(state, clock), since)
           /\ since[clock].messages = 0 /\ since[clock].tokens = 0
  <1> DEFINE new == RollOverPeriod(state, clock)
  <1>1. /\ clock \in Nat \ {0} /\ clock \in Times /\ MaxCounter \in Nat
        /\ policy.reset_period \in Nat \ {0} /\ state.period_start \in Nat
    BY CeilingAssumption DEF TypeOK, Times, Policies, UsageStates
  <1>2. since[clock].messages = 0 /\ since[clock].tokens = 0
    BY <1>1 DEF Exact, PeriodHasRolledOver
  <1>3. new.period_start = clock /\ new.messages_used = 0 /\ new.tokens_used = 0
    BY RollOverResets
  <1> HIDE DEF new
  <1>4. Exact(policy, new, since)
    BY <1>1, <1>2, <1>3 DEF Exact, Lesser, Times
  <1> QED
    BY <1>2, <1>4 DEF new

(***************************************************************************)
(* A charge to a current period keeps it exact in the history that the     *)
(* generation is added to: both saturate at the same ceiling.              *)
(***************************************************************************)
LEMMA ChargeIsExact ==
    ASSUME TypeOK, NEW policy \in Policies, NEW state \in UsageStates, NEW n \in Nat, Recorded(n),
           Exact(policy, state, since), state.period_start \in Times,
           state.period_start <= clock, clock < state.period_start + policy.reset_period
    PROVE  Exact(policy, Charge(state, n), since')
  <1> DEFINE start == state.period_start
             new == Charge(state, n)
  <1>1. /\ clock \in Nat \ {0} /\ MaxCounter \in Nat /\ start \in Nat \ {0}
        /\ policy.reset_period \in Nat \ {0} /\ since[start] \in [messages : Nat, tokens : Nat]
    BY CeilingAssumption DEF TypeOK, Times, Policies
  <1>2. /\ since'[start].messages = since[start].messages + 1
        /\ since'[start].tokens = since[start].tokens + n
    BY DEF Recorded
  <1>3. /\ state.messages_used = Lesser(since[start].messages, MaxCounter)
        /\ state.tokens_used = Lesser(since[start].tokens, MaxCounter)
    BY DEF Exact
  <1>4. /\ new.period_start = start
        /\ new.messages_used = IF state.messages_used < MaxCounter
                               THEN state.messages_used + 1 ELSE state.messages_used
        /\ new.tokens_used = IF state.tokens_used < MaxCounter
                             THEN state.tokens_used + Lesser(n, MaxCounter - state.tokens_used)
                             ELSE state.tokens_used
    BY DEF Charge, UsageStates
  <1>5. \A t \in Times : t >= start + policy.reset_period => since'[t] = since[t]
    BY <1>1 DEF Recorded, Times
  <1>6. /\ new.messages_used = Lesser(since'[start].messages, MaxCounter)
        /\ new.tokens_used = Lesser(since'[start].tokens, MaxCounter)
    BY <1>1, <1>2, <1>3, <1>4 DEF Lesser
  <1> HIDE DEF new, start
  <1> QED
    BY <1>1, <1>4, <1>5, <1>6 DEF Exact, start, new

\* A clock that is valid makes every state valid that is written with it.
LEMMA WritesAreValid ==
    ASSUME TypeOK, NEW p \in Procs, clock <= MaxTimestamp,
           buf[p].result = "NotFound" => buf[p].state = FreshState,
           buf[p].result = "Ok" => ValidateState(buf[p].state), buf[p].result # "Corrupted"
    PROVE  /\ ValidateState([buf[p].state EXCEPT !.session_start = clock])
           /\ ValidateState(RollOverPeriod(buf[p].state, clock))
           /\ ValidateState(Charge(CurrentPeriod(Policy[p], buf[p].state, clock), tokens[p]))
  <1> DEFINE cur == CurrentPeriod(Policy[p], buf[p].state, clock)
             new == Charge(cur, tokens[p])
  <1>1. /\ Policy[p] \in Policies /\ buf[p].state \in UsageStates /\ clock \in 0..MaxTimestamp
        /\ clock \in Nat /\ tokens[p] \in Nat /\ MaxCounter \in Nat /\ MaxTimestamp \in Nat
    BY UsageAssumption, CeilingAssumption DEF TypeOK, LoadResults, Times, Tokens
  <1>2. ValidateState(buf[p].state)
    BY <1>1 DEF TypeOK, LoadResults, FreshState, ValidateState
  <1>3. /\ ValidateState([buf[p].state EXCEPT !.session_start = clock])
        /\ ValidateState(RollOverPeriod(buf[p].state, clock))
    BY <1>1, <1>2 DEF ValidateState, UsageStates, RollOverPeriod
  <1>4. cur \in UsageStates /\ ValidateState(cur)
    BY <1>1, <1>2, <1>3, CurrentPeriodFacts
  <1> HIDE DEF cur
  <1>5. ValidateState(new)
    <2> DEFINE m == IF cur.messages_used < MaxCounter THEN cur.messages_used + 1 ELSE cur.messages_used
               k == IF cur.tokens_used < MaxCounter
                    THEN cur.tokens_used + Lesser(tokens[p], MaxCounter - cur.tokens_used)
                    ELSE cur.tokens_used
    <2>1. m \in 0..MaxCounter /\ k \in 0..MaxCounter
      BY <1>1, <1>4 DEF ValidateState, Lesser
    <2>2. new = [cur EXCEPT !.messages_used = m, !.tokens_used = k]
      BY <1>4 DEF Charge, UsageStates
    <2> HIDE DEF m, k, new
    <2> QED
      BY <1>4, <2>1, <2>2 DEF ValidateState, UsageStates
  <1> QED
    BY <1>3, <1>5 DEF cur

\* Nothing but crashes and damage: what is saved stays, and the clock goes on.
NothingLost == Faults \subseteq {"crash", "corruption"}

LEMMA ExactInductive ==
    ASSUME OneProcess, NothingLost, TypeOK, TypeOK', CopyInv, ExactInv, [Next]_vars
    PROVE  ExactInv'
  <1>0. clock \in Nat \ {0} /\ clock \in Times /\ MaxTimestamp \in Nat
    BY CeilingAssumption DEF TypeOK, Times
  <1>1. ASSUME NEW p \in Procs, ProcStep(p) PROVE ExactInv'
    <2>1. \A q \in Procs : q = p
      BY DEF OneProcess
    <2>2. /\ Policy[p] \in Policies /\ buf[p].state \in UsageStates /\ disk.state \in UsageStates
          /\ buf[p].state.period_start <= clock /\ tokens[p] \in Nat /\ disk \in LoadResults
      BY UsageAssumption DEF TypeOK, LoadResults, CopyInv, Begun, Tokens
    <2> DEFINE cur == CurrentPeriod(Policy[p], buf[p].state, clock)
               Usable == clock <= MaxTimestamp /\ pc[p] \in Holding /\ buf[p].result # "Corrupted"
    <2>3. Usable => Exact(Policy[p], buf[p].state, since)
      BY DEF ExactInv
    <2>4. Usable => Exact(Policy[p], cur, since)
      BY <2>2, <2>3, RollOverIsExact DEF ExactInv, CurrentPeriod
    <2>5. CASE Reads(p)
      <3>1. /\ buf'[p] = disk /\ UNCHANGED <<clock, disk, since>>
            /\ disk.result = "Ok" => ValidateState(disk.state)
        BY <2>5 DEF Reads, TypeOK
      <3> QED
        BY <2>1, <3>1 DEF ExactInv
    <2>6. CASE LetsGo(p)
      BY <2>1, <2>6 DEF LetsGo, ExactInv
    <2>7. ASSUME NEW new, Writes(p, new), clock <= MaxTimestamp => ValidateState(new),
                 Usable => Exact(Policy[p], new, since'),
                 \A t \in Times : t > clock => since'[t] = since[t]
          PROVE  ExactInv'
      <3>1. /\ pc'[p] \notin Holding /\ UNCHANGED clock
            /\ clock <= MaxTimestamp => Usable /\ disk' = [result |-> "Ok", state |-> new]
            /\ disk' = disk \/ disk'.result = "Ok"
        BY <2>7 DEF Writes, NothingLost
      <3> QED
        BY <2>1, <2>7, <3>1 DEF ExactInv
    <2>8. CASE Charges(p)
      <3>1. \A t \in Times : t > clock => since'[t] = since[t]
        BY <1>0, <2>8 DEF Charges, Recorded, Times
      <3>2. CASE buf[p].result = "Corrupted" /\ UNCHANGED disk
        BY <2>1, <2>8, <3>1, <3>2 DEF Charges, ExactInv
      <3>3. CASE Writes(p, Charge(cur, tokens[p]))
        <4>1. /\ cur \in UsageStates /\ cur.period_start \in Times /\ cur.period_start <= clock
              /\ clock < cur.period_start + Policy[p].reset_period
          <5>1. cur \in UsageStates
            BY <1>0, <2>2, CurrentPeriodFacts
          <5>2. /\ cur.period_start > 0 /\ cur.period_start <= clock
                /\ clock < cur.period_start + Policy[p].reset_period
            BY <1>0, <2>2, CurrentPeriodWindow
          <5> HIDE DEF cur
          <5> QED
            BY <1>0, <5>1, <5>2, UsageAssumption DEF UsageStates, Times
        <4>2. Usable => Exact(Policy[p], Charge(cur, tokens[p]), since')
          <5> HIDE DEF cur
          <5> QED
            BY <2>2, <2>4, <2>8, <4>1, ChargeIsExact DEF Charges
        <4>3. clock <= MaxTimestamp => ValidateState(Charge(cur, tokens[p]))
          BY <3>3, WritesAreValid DEF Writes, ExactInv
        <4> HIDE DEF cur
        <4> QED
          BY <2>7, <3>1, <3>3, <4>2, <4>3
      <3> QED
        BY <2>8, <3>2, <3>3 DEF Charges
    <2>9. ASSUME Writes(p, [buf[p].state EXCEPT !.session_start = clock]), UNCHANGED since
          PROVE  ExactInv'
      <3>1. Usable => Exact(Policy[p], [buf[p].state EXCEPT !.session_start = clock], since)
        BY <2>2, <2>3 DEF Exact, UsageStates
      <3>2. clock <= MaxTimestamp => ValidateState([buf[p].state EXCEPT !.session_start = clock])
        BY <2>9, WritesAreValid DEF Writes, ExactInv
      <3> QED
        BY <2>7, <2>9, <3>1, <3>2
    <2>10. ASSUME PeriodHasRolledOver(Policy[p], buf[p].state, clock), UNCHANGED since,
                  Writes(p, RollOverPeriod(buf[p].state, clock))
           PROVE  ExactInv'
      <3>1. Usable => Exact(Policy[p], RollOverPeriod(buf[p].state, clock), since)
        BY <2>4, <2>10 DEF CurrentPeriod
      <3>2. clock <= MaxTimestamp => ValidateState(RollOverPeriod(buf[p].state, clock))
        BY <2>10, WritesAreValid DEF Writes, ExactInv
      <3> QED
        BY <2>7, <2>10, <3>1, <3>2
    <2> QED
      BY <1>1, <2>5, <2>6, <2>8, <2>9, <2>10, StepEffects
  <1>2. CASE Tick
    BY <1>0, <1>2 DEF Tick, ExactInv, Times
  <1>3. CASE CorruptFile
    BY <1>3 DEF CorruptFile, Corrupt, ExactInv
  <1>4. CASE UNCHANGED vars
    BY <1>4 DEF vars, ExactInv
  <1> QED
    BY <1>1, <1>2, <1>3, <1>4 DEF Next, RollBackClock, RemoveFile, NothingLost

(***************************************************************************)
(* With one process whose saves are not lost, the file counts every        *)
(* finished generation of its period exactly once, whatever crashes and    *)
(* damage come between two steps, for every policy and every ceiling, and  *)
(* it is always a file that the next load accepts.                         *)
(***************************************************************************)
THEOREM AccountingIsExact ==
    ASSUME OneProcess, NothingLost
    PROVE  Spec => []ExactAccounting
  <1>0. "rollback" \notin Faults
    BY DEF NothingLost
  <1>1. Init => CopyInv /\ ExactInv
    BY UsageAssumption, CeilingAssumption
       DEF Init, CopyInv, Begun, ExactInv, Exact, Absent, FreshState, Holding, Times
  <1>2. TypeOK /\ TypeOK' /\ CopyInv /\ [Next]_vars => CopyInv'
    BY <1>0, CopyInductive
  <1>3. TypeOK /\ TypeOK' /\ CopyInv /\ ExactInv /\ [Next]_vars => ExactInv'
    BY ExactInductive
  <1>4. TypeOK /\ ExactInv => ExactAccounting
    <2> SUFFICES ASSUME TypeOK, ExactInv, disk.result = "Ok" PROVE ExactAccounting!2
      BY DEF ExactAccounting
    <2>1. PICK p \in Procs : clock <= MaxTimestamp => Exact(Policy[p], OnDisk, since)
      BY DEF ExactInv, OnDisk
    <2>2. ValidateState(OnDisk)
      BY DEF TypeOK, OnDisk
    <2> QED
      BY <2>1, <2>2 DEF Exact
  <1> QED
    BY <1>1, <1>2, <1>3, <1>4, TypeCorrect, PTL DEF Spec
=============================================================================
