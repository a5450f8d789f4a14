----------------------------- MODULE UsageManager -----------------------------
(***************************************************************************)
(* The usage guard as its callers run it: src/usage/usage_manager.cpp over *)
(* one usage state file shared by a set of processes, with the calls       *)
(* Runtime::load and Runtime::generate make to it, in their order          *)
(* (src/core/runtime.cpp).  There is no file lock, so every operation is a *)
(* separate read of the file followed by a separate write, and the steps   *)
(* of several processes interleave between the two.                        *)
(*                                                                         *)
(* The file is the atomic register that StateFile implements when one      *)
(* process saves at a time; what two overlapping saves can leave behind is *)
(* here the fault "corruption".                                            *)
(***************************************************************************)
EXTENDS UsageAccounting

CONSTANTS
    Procs,      \* processes sharing usage_state_path
    Policy,     \* Policy[p]: the limits process p was configured with
    MaxTokens,  \* callbacks one engine generation can make (max_tokens)
    MaxClock,   \* bound: the clock's last value
    MaxRecords, \* bound: generations recorded in a behaviour
    Faults      \* which faults of the environment happen

Times  == 1..MaxClock
Tokens == 0..MaxTokens
AllFaults == {"save_fails", "corruption", "removal", "rollback", "crash"}

ASSUME UsageAssumption ==
    /\ Policy \in [Procs -> Policies]
    /\ MaxTokens \in Nat
    /\ MaxClock \in Nat \ {0}
    /\ MaxRecords \in Nat
    /\ Faults \subseteq AllFaults

VARIABLES
    clock,     \* the wall clock, UsageManager::now
    disk,      \* what UsageStateStore::load would return now
    pc,        \* where each process is inside Runtime::load or generate
    buf,       \* the load result the process's current operation works on
    tokens,    \* tokens_generated by the last engine generation
    decision,  \* the last admission decision; wait is period_reset - now
    ready,     \* Runtime::ready_
    session,   \* this process's session_start: not called, saved or failed
    since,     \* history: since[t] is what was recorded at clock t or later
    leak       \* history: generations finished since the file was corrupted

vars == <<clock, disk, pc, buf, tokens, decision, ready, session, since, leak>>

LoadResults == [result : {"Ok", "NotFound", "Corrupted"}, state : UsageStates]

Absent  == [result |-> "NotFound", state |-> FreshState]
Corrupt == [result |-> "Corrupted", state |-> FreshState]

NoDecision == [outcome |-> "Allowed", wait |-> 0]

PCs == {"idle", "load_check", "session", "session_save", "loading",
        "gen_check", "generating", "record"}

Init ==
    /\ clock = 1
    /\ disk = Absent
    /\ pc = [p \in Procs |-> "idle"]
    /\ buf = [p \in Procs |-> Absent]
    /\ tokens = [p \in Procs |-> 0]
    /\ decision = [p \in Procs |-> NoDecision]
    /\ ready = [p \in Procs |-> FALSE]
    /\ session = [p \in Procs |-> "none"]
    /\ since = [t \in Times |-> [messages |-> 0, tokens |-> 0]]
    /\ leak = [p \in Procs |-> 0]
-----------------------------------------------------------------------------
Goto(p, label) == pc' = [pc EXCEPT ![p] = label]

\* UsageStateStore::load: a copy of the file, taken before the operation acts.
ReadUsage(p) == buf' = [buf EXCEPT ![p] = disk]

\* The operation's local copy goes out of scope when it returns.
Forget(p) == buf' = [buf EXCEPT ![p] = Absent]

\* Mutation: the state is not validated before it is written.
Written_Unvalidated(state) ==
    disk' = [result |-> "Ok", state |-> state] /\ leak' = [p \in Procs |-> 0]

(***************************************************************************)
(* UsageStateStore::save: a state load would refuse is never written, and  *)
(* a save that fails leaves the old file.                                  *)
(***************************************************************************)
Written(state) ==
    /\ ValidateState(state)
    /\ disk' = [result |-> "Ok", state |-> state]
    /\ leak' = [p \in Procs |-> 0]

Refused(state) ==
    /\ ~ValidateState(state) \/ "save_fails" \in Faults
    /\ UNCHANGED <<disk, leak>>

Save(state) == Written(state) \/ Refused(state)

\* Mutation: a file that cannot be trusted is answered with an unlimited grant.
CorruptedDecision_FailOpen ==
    [outcome |-> "Allowed", seconds_remaining |-> 0, messages_remaining |-> 0,
     tokens_remaining |-> 0, period_reset |-> 0]

(***************************************************************************)
(* UsageManager::check_admission after its load: fail closed on a corrupt  *)
(* file, otherwise roll the period over, persist that as best it can, and  *)
(* judge the state in memory whether or not it was persisted.              *)
(***************************************************************************)
CorruptedDecision ==
    [outcome |-> "StateCorrupted", seconds_remaining |-> 0, messages_remaining |-> 0,
     tokens_remaining |-> 0, period_reset |-> 0]

\* Mutation: the copy from before the rollover is judged.
Verdict_BeforeRollover(p) ==
    IF buf[p].result = "Corrupted" THEN CorruptedDecision
    ELSE Evaluate(Policy[p], buf[p].state, clock)

Verdict(p) ==
    IF buf[p].result = "Corrupted" THEN CorruptedDecision
    ELSE Evaluate(Policy[p], CurrentPeriod(Policy[p], buf[p].state, clock), clock)

CheckAdmission(p, admitted) ==
    /\ decision' = [decision EXCEPT ![p] =
           [outcome |-> Verdict(p).outcome, wait |-> Verdict(p).period_reset - clock]]
    /\ Goto(p, IF Verdict(p).outcome = "Allowed" THEN admitted ELSE "idle")
    /\ IF buf[p].result # "Corrupted" /\ PeriodHasRolledOver(Policy[p], buf[p].state, clock)
       THEN Save(RollOverPeriod(buf[p].state, clock))
       ELSE UNCHANGED <<disk, leak>>

\* Runtime::load up to the read of check_admission: ready_ is dropped first.
LoadReads(p) ==
    /\ pc[p] = "idle"
    /\ Goto(p, "load_check") /\ ReadUsage(p)
    /\ ready' = [ready EXCEPT ![p] = FALSE]
    /\ UNCHANGED <<clock, disk, tokens, decision, session, since, leak>>

LoadChecks(p) ==
    /\ pc[p] = "load_check"
    /\ CheckAdmission(p, "session") /\ Forget(p)
    /\ UNCHANGED <<clock, tokens, ready, session, since>>

SessionReads(p) ==
    /\ pc[p] = "session"
    /\ Goto(p, "session_save") /\ ReadUsage(p)
    /\ UNCHANGED <<clock, disk, tokens, decision, ready, session, since, leak>>

(***************************************************************************)
(* The rest of session_start.  Its result is ignored by Runtime::load,     *)
(* which goes on to resolve, verify and load the model either way.         *)
(***************************************************************************)
StartSession(p) ==
    /\ pc[p] = "session_save"
    /\ \/ /\ buf[p].result # "Corrupted"
          /\ Written([buf[p].state EXCEPT !.session_start = clock])
          /\ session' = [session EXCEPT ![p] = "started"]
       \/ /\ buf[p].result # "Corrupted" =>
                Refused([buf[p].state EXCEPT !.session_start = clock])
          /\ UNCHANGED <<disk, leak>>
          /\ session' = [session EXCEPT ![p] = "failed"]
    /\ Goto(p, "loading") /\ Forget(p)
    /\ UNCHANGED <<clock, tokens, decision, ready, since>>

\* The stages after the usage guard succeed or fail; see module Runtime.
FinishLoad(p) ==
    /\ pc[p] = "loading"
    /\ Goto(p, "idle")
    /\ \E ok \in BOOLEAN : ready' = [ready EXCEPT ![p] = ok]
    /\ UNCHANGED <<clock, disk, buf, tokens, decision, session, since, leak>>

GenerateReads(p) ==
    /\ pc[p] = "idle" /\ ready[p] /\ since[1].messages < MaxRecords
    /\ Goto(p, "gen_check") /\ ReadUsage(p)
    /\ UNCHANGED <<clock, disk, tokens, decision, ready, session, since, leak>>

GenerateChecks(p) ==
    /\ pc[p] = "gen_check"
    /\ CheckAdmission(p, "generating") /\ Forget(p)
    /\ UNCHANGED <<clock, tokens, ready, session, since>>

(***************************************************************************)
(* The engine returns, with an error or not, after n callbacks, and        *)
(* record_generation reads the file.                                       *)
(***************************************************************************)
GenerateRecords(p) ==
    /\ pc[p] = "generating"
    /\ \E n \in Tokens : tokens' = [tokens EXCEPT ![p] = n]
    /\ Goto(p, "record") /\ ReadUsage(p)
    /\ leak' = IF disk.result = "Corrupted" THEN [leak EXCEPT ![p] = @ + 1] ELSE leak
    /\ UNCHANGED <<clock, disk, decision, ready, session, since>>

\* record_generation after its load; Runtime::generate ignores its result.
RecordGeneration(p) ==
    /\ pc[p] = "record"
    /\ IF buf[p].result = "Corrupted"
       THEN UNCHANGED <<disk, leak>>
       ELSE Save(Charge(CurrentPeriod(Policy[p], buf[p].state, clock), tokens[p]))
    /\ since' = [t \in Times |->
                    IF t <= clock
                    THEN [messages |-> since[t].messages + 1,
                          tokens   |-> since[t].tokens + tokens[p]]
                    ELSE since[t]]
    /\ Goto(p, "idle") /\ Forget(p)
    /\ tokens' = [tokens EXCEPT ![p] = 0]
    /\ UNCHANGED <<clock, decision, ready, session>>

\* Runtime::unload leaves everything about usage alone.
Unload(p) ==
    /\ pc[p] = "idle" /\ ready[p]
    /\ ready' = [ready EXCEPT ![p] = FALSE]
    /\ UNCHANGED <<clock, disk, pc, buf, tokens, decision, session, since, leak>>
-----------------------------------------------------------------------------
(***************************************************************************)
(* The environment.  A process ends between calls, or anywhere when it     *)
(* crashes; a new one takes its place with nothing but the file.           *)
(***************************************************************************)
Exit(p) ==
    /\ pc[p] = "idle" \/ "crash" \in Faults
    /\ Goto(p, "idle")
    /\ Forget(p)
    /\ tokens' = [tokens EXCEPT ![p] = 0]
    /\ decision' = [decision EXCEPT ![p] = NoDecision]
    /\ ready' = [ready EXCEPT ![p] = FALSE]
    /\ session' = [session EXCEPT ![p] = "none"]
    /\ UNCHANGED <<clock, disk, since, leak>>

Tick ==
    /\ clock < MaxClock
    /\ clock' = clock + 1
    /\ UNCHANGED <<disk, pc, buf, tokens, decision, ready, session, since, leak>>

RollBackClock ==
    /\ "rollback" \in Faults /\ clock > 1
    /\ clock' = clock - 1
    /\ UNCHANGED <<disk, pc, buf, tokens, decision, ready, session, since, leak>>

\* The file is damaged: overlapping saves (StateFile), a manual edit, a bad disk.
CorruptFile ==
    /\ "corruption" \in Faults /\ disk.result = "Ok"
    /\ disk' = Corrupt
    /\ UNCHANGED <<clock, pc, buf, tokens, decision, ready, session, since, leak>>

\* The user follows the diagnostic and discards the file.
RemoveFile ==
    /\ "removal" \in Faults /\ disk.result # "NotFound"
    /\ disk' = Absent
    /\ leak' = [p \in Procs |-> 0]
    /\ UNCHANGED <<clock, pc, buf, tokens, decision, ready, session, since>>

ProcStep(p) ==
    \/ LoadReads(p) \/ LoadChecks(p) \/ SessionReads(p) \/ StartSession(p) \/ FinishLoad(p)
    \/ GenerateReads(p) \/ GenerateChecks(p) \/ GenerateRecords(p) \/ RecordGeneration(p)
    \/ Unload(p) \/ Exit(p)

Next ==
    \/ \E p \in Procs : ProcStep(p)
    \/ Tick \/ RollBackClock \/ CorruptFile \/ RemoveFile

Spec == Init /\ [][Next]_vars
-----------------------------------------------------------------------------
TypeOK ==
    /\ clock \in Times
    /\ disk \in LoadResults
    /\ disk.result = "Ok" => ValidateState(disk.state)
    /\ pc \in [Procs -> PCs]
    /\ buf \in [Procs -> LoadResults]
    /\ tokens \in [Procs -> Tokens]
    /\ decision \in [Procs -> [outcome : Outcomes, wait : Int]]
    /\ ready \in [Procs -> BOOLEAN]
    /\ session \in [Procs -> {"none", "started", "failed"}]
    /\ since \in [Times -> [messages : Nat, tokens : Nat]]
    /\ leak \in [Procs -> Nat]

OnDisk == disk.state

(***************************************************************************)
(* Nobody is charged for more than was recorded: the counters in the file  *)
(* never exceed what was recorded since the period they belong to began,   *)
(* whatever saves were lost, overwritten by another process or refused,    *)
(* and however often a rollover raced a record (usage_manager.cpp:88-105). *)
(***************************************************************************)
NeverOvercharged ==
    disk.result = "Ok" /\ OnDisk.period_start \in Times =>
        /\ OnDisk.messages_used <= since[OnDisk.period_start].messages
        /\ OnDisk.tokens_used <= since[OnDisk.period_start].tokens

(***************************************************************************)
(* With one process, saves that succeed and a clock that does not go back, *)
(* the file is exact between calls: every finished generation of the       *)
(* period is counted once, also across restarts and lazy rollovers.  Saves *)
(* do fail once the clock has passed the largest valid timestamp, and what *)
(* is written then is still a state that the next load accepts, so that    *)
(* the program cannot lock itself out (usage_state_store.cpp:104).         *)
(***************************************************************************)
ExactAccounting ==
    disk.result = "Ok" =>
        /\ clock <= MaxTimestamp /\ OnDisk.period_start \in Times =>
             /\ OnDisk.messages_used = Lesser(since[OnDisk.period_start].messages, MaxCounter)
             /\ OnDisk.tokens_used = Lesser(since[OnDisk.period_start].tokens, MaxCounter)
        /\ ValidateState(OnDisk)

(***************************************************************************)
(* With one process the message limit is exact, and the token limit is     *)
(* passed by less than one generation, because it is only checked before   *)
(* the engine runs (runtime.cpp:188-216).                                  *)
(***************************************************************************)
QuotaOvershootBounded ==
    \A p \in Procs : disk.result = "Ok" =>
        /\ Policy[p].message_limit > 0 => OnDisk.messages_used <= Policy[p].message_limit
        /\ Policy[p].token_limit > 0 =>
              OnDisk.tokens_used <= Policy[p].token_limit - 1 + MaxTokens

(***************************************************************************)
(* A message or token denial is temporary: the decision that denies names  *)
(* a reset that is still ahead and at most one period away, so no expired  *)
(* period and no period_start ahead of the clock can lock a user out       *)
(* (usage_accounting.cpp:8-24, usage_manager.cpp:51).                      *)
(***************************************************************************)
DenialsExpire ==
    \A p \in Procs :
        decision[p].outcome \in {"ExhaustedMessages", "ExhaustedTokens"} =>
            decision[p].wait \in 1..Policy[p].reset_period

(***************************************************************************)
(* Fail closed (docs/usage-model.md:55): while the file stays corrupt, a   *)
(* process can finish only a generation admitted before the damage, so at  *)
(* most one; it never goes on generating unaccounted.                      *)
(***************************************************************************)
CorruptionStopsGeneration ==
    disk.result = "Corrupted" => \A p \in Procs : leak[p] <= 1

(***************************************************************************)
(* However many processes save over each other, with a clock that is set   *)
(* back and a file that is deleted in between, usage is lost in two ways   *)
(* only: by a save that begins a new period, because the old one is over   *)
(* for that process or ahead of its clock, or by a save of a copy that is  *)
(* no longer what is in the file, the lost update docs/usage-model.md:95   *)
(* admits.  Who saves over what he read loses nothing, a session's start   *)
(* included (usage_manager.cpp:39-106).                                    *)
(***************************************************************************)
LostOnlyToStaleCopies ==
    [][ /\ disk.result = "Ok" /\ disk'.result = "Ok"
        /\ \/ disk'.state.messages_used < OnDisk.messages_used
           \/ disk'.state.tokens_used < OnDisk.tokens_used
        => \E p \in Procs :
             /\ pc'[p] # pc[p]
             /\ \/ buf[p] # disk
                \/ /\ disk'.state.period_start = clock
                   /\ \/ clock < OnDisk.period_start
                      \/ clock - OnDisk.period_start >= Policy[p].reset_period ]_vars

(***************************************************************************)
(* docs/usage-model.md:95 says session time is tracked per process         *)
(* lifetime: a process that has not started a session yet would then never *)
(* be denied for session time.                                             *)
(***************************************************************************)
SessionTimePerProcess ==
    \A p \in Procs : decision[p].outcome = "ExhaustedTime" => session[p] # "none"
=============================================================================
