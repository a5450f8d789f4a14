--------------------------- MODULE InferenceEngine ---------------------------
(***************************************************************************)
(* src/inference/inference_engine.cpp with its ContextManager and its      *)
(* Tokenizer: loading and unloading a model behind the memory guard, and   *)
(* generating token by token.  llama.cpp is external: a native model or    *)
(* context is a handle that lives until it is freed, any of its calls may  *)
(* fail, and a context may be given a capacity other than the one asked    *)
(* for.                                                                    *)
(***************************************************************************)
EXTENDS MemoryAdmission, Tokenizer

CONSTANTS
    Files,      \* what may be at a model path: [found, hp, weights] records
    Configs,    \* [context, budget, reserve, max_tokens] records
    Capacities, \* Capacities[n]: the n_ctx of a context asked for with n
    Texts,      \* the prompts users type
    Vocabulary, \* the pieces a model may answer
    Handles,    \* bound: native objects of a kind alive at once
    Null        \* the null pointer

ASSUME EngineAssumption ==
    /\ Files \subseteq [found : BOOLEAN, hp : Hyperparams, weights : Words]
    /\ Configs \subseteq [context : Nat \ {0}, budget : 0..(MaxWord - 1), reserve : Words,
                          max_tokens : Nat \ {0}]
    /\ \A c \in Configs : Capacities[c.context] \subseteq Nat \ {0}
    /\ Null \notin Handles
    /\ Texts \subseteq Seq(Nat) /\ Vocabulary \subseteq Seq(Nat)

Errors == {"None", "ModelFileNotFound", "ModelLoadFailed", "ContextCreateFailed",
           "TokenizeFailed", "DecodeFailed", "MemoryBudgetExceeded"}

VARIABLES
    pc,        \* where load or generate is
    arg,       \* load's argument: the file and configuration of the last load
    config,    \* config_, of the last load that succeeded
    model,     \* model_
    ctx,       \* ctx_
    models,    \* native: the live models
    contexts,  \* native: the live contexts, each a pair with its model
    backend,   \* backend_initialized_
    manager,   \* context_manager_: n_ctx and n_used, both 0 when there is none
    cache,     \* native: cells of the KV cache in use
    prompt,    \* prompt_tokens, until they are decoded
    streamed,  \* callbacks made by this generation, `generated` in the loop
    error,     \* what the last call returned
    mark,      \* history: n_used after the prompt; FALSE once a decode failed
    asked,     \* history: the text of prompt, and whether the model's template applies to it
    said       \* history: the last token of this generation and the piece the callback got

engine == <<config, model, ctx, models, contexts, backend, manager, cache>>
talk == <<prompt, asked, streamed, said>>
vars == <<pc, arg, engine, talk, error, mark>>

NoManager == [n_ctx |-> 0, n_used |-> 0]
CleanMark == [at |-> 0, clean |-> TRUE]
NotAsked == [text |-> <<>>, template |-> FALSE]
NothingSaid == [token |-> <<>>, piece |-> <<>>]

Init ==
    /\ pc = "idle"
    /\ arg \in Files \X Configs
    /\ config = arg[2]
    /\ model = Null /\ ctx = Null
    /\ models = {} /\ contexts = {}
    /\ backend = FALSE
    /\ manager = NoManager /\ cache = 0
    /\ prompt = <<>> /\ asked = NotAsked /\ streamed = 0 /\ said = NothingSaid
    /\ error = "None"
    /\ mark = CleanMark

file == arg[1]
wanted == arg[2]

CanAccept(n) == manager.n_used + n <= manager.n_ctx

Fail(e) == pc' = "idle" /\ error' = e

\* No call of generate is going on.
Hush == prompt' = <<>> /\ asked' = NotAsked /\ streamed' = 0 /\ said' = NothingSaid

\* InferenceEngine::unload: the context goes before its model.
Release ==
    /\ model' = Null /\ ctx' = Null
    /\ models' = models \ {model}
    /\ contexts' = {c \in contexts : c[1] # ctx}
    /\ manager' = NoManager /\ cache' = 0
    /\ mark' = CleanMark
-----------------------------------------------------------------------------
\* Mutation: load overwrites the handles of the previous model.
Load_KeepsOld ==
    /\ pc = "idle"
    /\ arg' \in Files \X Configs
    /\ IF arg'[1].found
       THEN pc' = "load_model" /\ backend' = TRUE /\ UNCHANGED error
       ELSE Fail("ModelFileNotFound") /\ UNCHANGED backend
    /\ model' = Null /\ ctx' = Null /\ manager' = NoManager /\ cache' = 0
    /\ mark' = CleanMark
    /\ Hush
    /\ UNCHANGED <<config, models, contexts>>

\* load up to llama_model_load_from_file; the previous model is gone either way.
Load ==
    /\ pc = "idle"
    /\ arg' \in Files \X Configs
    /\ Release
    /\ IF arg'[1].found
       THEN pc' = "load_model" /\ backend' = TRUE /\ UNCHANGED error
       ELSE Fail("ModelFileNotFound") /\ UNCHANGED backend
    /\ Hush
    /\ UNCHANGED config

LoadModel ==
    /\ pc = "load_model"
    /\ \/ /\ \E h \in Handles \ models : model' = h /\ models' = models \cup {h}
          /\ pc' = "admit" /\ UNCHANGED error
       \/ Fail("ModelLoadFailed") /\ UNCHANGED <<model, models>>
    /\ UNCHANGED <<arg, config, ctx, contexts, backend, manager, cache, talk, mark>>

Decision == Safe(Estimate(file.hp, file.weights, wanted.context), wanted.budget, wanted.reserve)

\* The memory guard: an unsafe model is freed before any context is created.
Admit ==
    /\ pc = "admit"
    /\ IF Decision
       THEN pc' = "create_context" /\ UNCHANGED <<model, models, error>>
       ELSE /\ Fail("MemoryBudgetExceeded")
            /\ model' = Null /\ models' = models \ {model}
    /\ UNCHANGED <<arg, config, ctx, contexts, backend, manager, cache, talk, mark>>

CreateContext ==
    /\ pc = "create_context"
    /\ \/ /\ \E h \in Handles \ {c[1] : c \in contexts}, n \in Capacities[wanted.context] :
                /\ ctx' = h
                /\ contexts' = contexts \cup {<<h, model>>}
                /\ manager' = [n_ctx |-> n, n_used |-> 0]
          /\ config' = wanted
          /\ Fail("None")
          /\ UNCHANGED <<model, models>>
       \/ /\ Fail("ContextCreateFailed")
          /\ model' = Null /\ models' = models \ {model}
          /\ UNCHANGED <<ctx, contexts, manager, config>>
    /\ UNCHANGED <<arg, backend, cache, talk, mark>>

Unload ==
    /\ pc = "idle" /\ model # Null
    /\ Release
    /\ UNCHANGED <<pc, arg, config, backend, talk, error>>

\* The destructor; the next engine of the process starts from nothing.
Destroy ==
    /\ pc = "idle" /\ backend
    /\ Release
    /\ backend' = FALSE
    /\ error' = "None" /\ Hush
    /\ UNCHANGED <<pc, arg, config>>

\* Mutation: the accounting is reset without the cache.
ResetContext_KeepsCache ==
    /\ pc = "idle" /\ ctx # Null
    /\ manager' = [manager EXCEPT !.n_used = 0]
    /\ mark' = CleanMark
    /\ UNCHANGED <<pc, arg, config, model, ctx, models, contexts, backend, cache, talk,
                   error>>

ResetContext ==
    /\ pc = "idle" /\ ctx # Null
    /\ cache' = 0
    /\ manager' = [manager EXCEPT !.n_used = 0]
    /\ mark' = CleanMark
    /\ UNCHANGED <<pc, arg, config, model, ctx, models, contexts, backend, talk, error>>
-----------------------------------------------------------------------------
(***************************************************************************)
(* generate: the model's template if it has one that can be applied, or    *)
(* the text as it is; tokenizing may fail, and a prompt the context has no *)
(* room for ends the call without an error and without a token.            *)
(***************************************************************************)
Tokenized(text, template) ==
    IF template THEN Tokenize(ApplyChatTemplate(text), FALSE) ELSE Tokenize(text, TRUE)

\* Nothing reads the prompt again.
Forget == prompt' = <<>> /\ asked' = NotAsked

Generate ==
    /\ pc = "idle"
    /\ streamed' = 0 /\ said' = NothingSaid
    /\ \/ ctx = Null /\ Fail("ContextCreateFailed") /\ Forget
       \/ ctx # Null /\ Fail("TokenizeFailed") /\ Forget
       \/ /\ ctx # Null
          /\ \E text \in Texts, template \in BOOLEAN :
                LET result == Tokenized(text, template) IN
                /\ result.ok /\ result.tokens # <<>>
                /\ IF CanAccept(Len(result.tokens))
                   THEN /\ pc' = "prompt" /\ prompt' = result.tokens
                        /\ asked' = [text |-> text, template |-> template]
                        /\ UNCHANGED error
                   ELSE Fail("None") /\ Forget
    /\ UNCHANGED <<arg, engine, mark>>

\* Mutation: a failed decode is tried again.
Undecoded_Retries(n) ==
    /\ cache' \in cache..(cache + n) /\ cache' <= manager.n_ctx
    /\ mark' = [mark EXCEPT !.clean = FALSE]
    /\ UNCHANGED <<manager, pc, error>>

\* llama_decode of n tokens: all of them cached, or a failure with any number cached.
Decoded(n) ==
    cache + n <= manager.n_ctx /\ cache' = cache + n

Undecoded(n) ==
    /\ cache' \in cache..(cache + n) /\ cache' <= manager.n_ctx
    /\ mark' = [mark EXCEPT !.clean = FALSE]
    /\ Fail("DecodeFailed")
    /\ UNCHANGED manager

\* ContextManager::consume, which does nothing rather than go past the capacity.
Consume(n) == manager' = [manager EXCEPT !.n_used = IF CanAccept(n) THEN @ + n ELSE @]

DecodePrompt ==
    /\ pc = "prompt"
    /\ \/ /\ Decoded(Len(prompt)) /\ Consume(Len(prompt)) /\ Forget
          /\ mark' = [mark EXCEPT !.at = manager.n_used + Len(prompt)]
          /\ \/ pc' = "sample" /\ UNCHANGED error
             \/ Fail("DecodeFailed")    \* the sampler could not be built
       \/ Undecoded(Len(prompt)) /\ UNCHANGED <<prompt, asked>>
    /\ UNCHANGED <<arg, config, model, ctx, models, contexts, backend, streamed, said>>

\* Mutation: one token too many.
MoreTokens_OneExtra == streamed <= config.max_tokens

MoreTokens == streamed < config.max_tokens
RoomForOne == CanAccept(1)

\* The head of the loop: end of generation, or a callback that may ask to stop.
Sample ==
    /\ pc = "sample"
    /\ \/ Fail("None") /\ UNCHANGED <<streamed, said>>    \* the limit, or an end-of-generation token
       \/ /\ MoreTokens
          /\ streamed' = streamed + 1
          /\ \E token \in Vocabulary : said' = [token |-> token, piece |-> TokenToPiece(token)]
          /\ \/ Fail("None")                    \* the caller asked to stop
             \/ IF RoomForOne THEN pc' = "decode" /\ UNCHANGED error ELSE Fail("None")
    /\ UNCHANGED <<arg, engine, prompt, asked, mark>>

DecodeToken ==
    /\ pc = "decode"
    /\ \/ Decoded(1) /\ Consume(1) /\ pc' = "sample" /\ UNCHANGED <<mark, error>>
       \/ Undecoded(1)
    /\ UNCHANGED <<arg, config, model, ctx, models, contexts, backend, talk>>

\* What the thread inside load or generate does next.
Continue == LoadModel \/ Admit \/ CreateContext \/ DecodePrompt \/ Sample \/ DecodeToken

Next == Load \/ Unload \/ Destroy \/ ResetContext \/ Generate \/ Continue

Spec == Init /\ [][Next]_vars

\* The calling thread runs: llama.cpp and the callbacks return.
FairSpec == Spec /\ WF_vars(Continue)
-----------------------------------------------------------------------------
TypeOK ==
    /\ pc \in {"idle", "load_model", "admit", "create_context", "prompt", "sample", "decode"}
    /\ arg \in Files \X Configs
    /\ config \in Configs
    /\ model \in Handles \cup {Null} /\ ctx \in Handles \cup {Null}
    /\ models \subseteq Handles /\ contexts \subseteq Handles \X Handles
    /\ backend \in BOOLEAN
    /\ manager \in [n_ctx : Nat, n_used : Nat]
    /\ cache \in Nat /\ streamed \in Nat
    /\ pc = "prompt" => prompt # <<>>
    /\ asked \in [text : Texts, template : BOOLEAN] \cup {NotAsked}
    /\ said.token \in Vocabulary \cup {<<>>}
    /\ error \in Errors
    /\ mark \in [at : Nat, clean : BOOLEAN]

(***************************************************************************)
(* Nothing native leaks and nothing freed is used: the live models and     *)
(* contexts are the ones the engine points to, a context's model is alive, *)
(* and the tokenizer and context manager exist exactly with the context,   *)
(* however many loads fail at whichever stage (inference_engine.h:68-79).  *)
(***************************************************************************)
HandlesOwned ==
    /\ models = {model} \ {Null}
    /\ contexts = IF ctx = Null THEN {} ELSE {<<ctx, model>>}
    /\ \A c \in contexts : c[2] \in models
    /\ (manager = NoManager) <=> (ctx = Null)
    /\ models # {} => backend

(***************************************************************************)
(* Admission is exact, in unbounded arithmetic: a context exists only for  *)
(* a model whose need fits the budget with the reserve held back, whatever *)
(* overflows or is garbage in its hyperparameters, and a load rejected for *)
(* memory has garbage or really needs more than the budget leaves          *)
(* (memory_estimator.cpp:18-86, memory_budget.cpp, inference_engine.cpp:   *)
(* 108-139).                                                               *)
(***************************************************************************)
AdmittedFits ==
    ctx # Null =>
        /\ Sane(file.hp)
        /\ Fits(file.hp, file.weights, wanted.context, wanted.budget, wanted.reserve)
RejectedDoesNotFit ==
    pc = "idle" /\ error = "MemoryBudgetExceeded" =>
        \/ ~Sane(file.hp) \/ wanted.context > MaxCtx
        \/ ~Fits(file.hp, file.weights, wanted.context, wanted.budget, wanted.reserve)
AdmissionIsExact == AdmittedFits /\ RejectedDoesNotFit

(***************************************************************************)
(* The manager's count is the cache's: never above the capacity, equal     *)
(* while every decode succeeded, and never above what is really cached, so *)
(* that a full context is found full before llama.cpp is asked.            *)
(***************************************************************************)
ContextAccounted ==
    /\ manager.n_used <= cache /\ cache <= manager.n_ctx
    /\ mark.clean => manager.n_used = cache

(***************************************************************************)
(* What was streamed is remembered: every streamed token but at most the   *)
(* last is in the context, and there are at most max_tokens of them.       *)
(***************************************************************************)
StreamedIsRemembered ==
    /\ streamed <= config.max_tokens
    /\ pc \in {"sample", "decode"} =>
          manager.n_used - mark.at = streamed - (IF pc = "decode" THEN 1 ELSE 0)

(***************************************************************************)
(* No text is cut at a buffer: what is decoded is the whole prompt as the  *)
(* model's template has it, or as it was typed with the one marker it      *)
(* needs, and a callback gets the whole piece of its token, however long   *)
(* they are (tokenizer.cpp:9-79, 95-138, inference_engine.cpp:216-226).    *)
(***************************************************************************)
TextIsWhole ==
    /\ pc = "prompt" =>
         prompt = IF asked.template THEN Template(asked.text) ELSE <<Begin>> \o asked.text
    /\ said.piece = said.token

(***************************************************************************)
(* Every load and every generation returns, even if no end-of-generation   *)
(* token comes and no callback asks to stop.                               *)
(***************************************************************************)
CallsReturn == [](pc # "idle" => <>(pc = "idle"))
=============================================================================
