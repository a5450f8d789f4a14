--------------------------- MODULE UsageAccounting ---------------------------
(***************************************************************************)
(* The pure part of the usage guard: src/usage/usage_accounting.cpp, the   *)
(* range checks of UsageStateStore::validate_state and the counter update  *)
(* of UsageManager::record_generation.  No variable, no recursion: what is *)
(* proved of these operators holds for every policy, state and clock.      *)
(*                                                                         *)
(* A policy is a record of four limits, where 0 disables a limit.  A state *)
(* is the persisted record without its version number, which is always the *)
(* current one in a state the program holds.                               *)
(***************************************************************************)
EXTENDS Integers

CONSTANTS
    MaxCounter,    \* SYJ_EDGEMIND_MAX_SANE_COUNTER, 10^15 in the code
    MaxTimestamp   \* SYJ_EDGEMIND_MAX_SANE_TIMESTAMP, the year 2100 in the code

ASSUME CeilingAssumption == MaxCounter \in Nat /\ MaxTimestamp \in Nat

Policies == [time_limit : Nat, message_limit : Nat, token_limit : Nat,
             reset_period : Nat \ {0}]

UsageStates == [period_start : Nat, messages_used : Nat, tokens_used : Nat,
                session_start : Nat]

FreshState == [period_start |-> 0, messages_used |-> 0, tokens_used |-> 0,
               session_start |-> 0]

Outcomes == {"Allowed", "ExhaustedTime", "ExhaustedMessages",
             "ExhaustedTokens", "StateCorrupted"}

Lesser(a, b)  == IF a <= b THEN a ELSE b
Greater(a, b) == IF a >= b THEN a ELSE b

\* Mutation: one tick early.
PeriodHasRolledOver_Early(policy, state, now) ==
    \/ state.period_start <= 0 \/ now < state.period_start
    \/ now - state.period_start >= policy.reset_period - 1

(***************************************************************************)
(* A fresh state, a clock behind the period's start and a whole period     *)
(* elapsed all open a new period.                                          *)
(***************************************************************************)
PeriodHasRolledOver(policy, state, now) ==
    \/ state.period_start <= 0
    \/ now < state.period_start
    \/ now - state.period_start >= policy.reset_period

\* Mutation: the token counter is not reset.
RollOverPeriod_KeepsTokens(state, now) ==
    [state EXCEPT !.period_start = now, !.messages_used = 0]

\* The session's start survives the rollover of the daily counters.
RollOverPeriod(state, now) ==
    [state EXCEPT !.period_start = now, !.messages_used = 0, !.tokens_used = 0]

\* What check_admission, record_generation and usage_report do after a load.
CurrentPeriod(policy, state, now) ==
    IF PeriodHasRolledOver(policy, state, now)
    THEN RollOverPeriod(state, now) ELSE state

TimeExhausted(policy, state, now) ==
    /\ policy.time_limit > 0
    /\ state.session_start > 0
    /\ now >= state.session_start
    /\ now - state.session_start >= policy.time_limit

MessagesExhausted(policy, state) ==
    policy.message_limit > 0 /\ state.messages_used >= policy.message_limit

\* Mutation: the limit itself is still granted.
TokensExhausted_OffByOne(policy, state) ==
    policy.token_limit > 0 /\ state.tokens_used > policy.token_limit

TokensExhausted(policy, state) ==
    policy.token_limit > 0 /\ state.tokens_used >= policy.token_limit

SecondsRemaining(policy, state, now) ==
    IF policy.time_limit > 0 /\ state.session_start > 0 /\ now >= state.session_start
    THEN Greater(0, policy.time_limit - (now - state.session_start))
    ELSE policy.time_limit

\* The first exhausted limit names the denial: time, then messages, then tokens.
Evaluate(policy, state, now) ==
    LET outcome == IF TimeExhausted(policy, state, now)   THEN "ExhaustedTime"
                   ELSE IF MessagesExhausted(policy, state) THEN "ExhaustedMessages"
                   ELSE IF TokensExhausted(policy, state)   THEN "ExhaustedTokens"
                   ELSE "Allowed"
    IN  [outcome            |-> outcome,
         seconds_remaining  |-> SecondsRemaining(policy, state, now),
         messages_remaining |-> Greater(0, policy.message_limit - state.messages_used),
         tokens_remaining   |-> Greater(0, policy.token_limit - state.tokens_used),
         period_reset       |-> policy.reset_period
                                + (IF state.period_start > 0 THEN state.period_start ELSE now)]

\* UsageStateStore::validate_state, applied to what is loaded and to what is saved.
ValidateState(state) ==
    /\ state.period_start \in 0..MaxTimestamp
    /\ state.session_start \in 0..MaxTimestamp
    /\ state.messages_used \in 0..MaxCounter
    /\ state.tokens_used \in 0..MaxCounter

\* Mutation: a generation without output is not counted as a message.
Charge_SkipsEmpty(state, tokens) ==
    IF tokens = 0 THEN state
    ELSE [state EXCEPT !.messages_used = @ + 1, !.tokens_used = @ + tokens]

\* record_generation: the counters saturate at the ceiling, they never wrap.
Charge(state, tokens) ==
    [state EXCEPT
        !.messages_used = IF @ < MaxCounter THEN @ + 1 ELSE @,
        !.tokens_used   = IF @ < MaxCounter THEN @ + Lesser(tokens, MaxCounter - @) ELSE @]
=============================================================================
