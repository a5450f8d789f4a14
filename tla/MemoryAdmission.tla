--------------------------- MODULE MemoryAdmission ---------------------------
(***************************************************************************)
(* The memory guard's arithmetic: src/memory/memory_estimator.cpp, the sum *)
(* MemoryEstimate::total_bytes and MemoryBudgetPolicy::evaluate, in words  *)
(* of a bounded width, next to the unbounded sizes they stand for.  No     *)
(* variable: what is proved here holds for every model and configuration.  *)
(***************************************************************************)
EXTENDS Integers

CONSTANTS
    MaxWord,     \* the largest uint64_t
    MaxLayers,   \* SYJ_EDGEMIND_MAX_SANE_LAYERS
    MaxEmbd,     \* SYJ_EDGEMIND_MAX_SANE_EMBD
    MaxHeads,    \* SYJ_EDGEMIND_MAX_SANE_HEADS
    MaxCtx,      \* SYJ_EDGEMIND_MAX_SANE_CTX
    Element,     \* bytes_per_element of the KV cache, 2 as called
    Multiplier,  \* f32 times SYJ_EDGEMIND_COMPUTE_BUFFER_MULTIPLIER, 16
    Overhead     \* the fixed runtime overhead, 180 MB

ASSUME WordAssumption ==
    /\ MaxWord \in Nat \ {0, 1}
    /\ {MaxLayers, MaxEmbd, MaxHeads, MaxCtx} \subseteq Nat
    /\ {Element, Multiplier} \subseteq 1..MaxWord
    /\ Overhead \in 0..MaxWord
    /\ MaxEmbd * MaxHeads <= MaxWord         \* 2^32 in the code
    /\ 2 * MaxLayers * MaxCtx <= MaxWord     \* 2^36 in the code

\* std::nullopt, no size in bytes.
Unknown == -1

Words == 0..MaxWord

\* What llama.cpp reports of a model file, garbage included.
Hyperparams == [n_layer : Int, n_embd : Int, n_head : Int, n_head_kv : Int]

Sane(hp) ==
    /\ hp.n_layer \in 1..MaxLayers
    /\ hp.n_embd \in 1..MaxEmbd
    /\ hp.n_head \in 1..MaxHeads
    /\ hp.n_head_kv \in 1..hp.n_head

\* Mutation: the product wraps around.
CheckedMul_Wraps(x, y) == (x * y) % (MaxWord + 1)

\* checked_mul, and the early return of its callers once a product is unknown.
CheckedMul(x, y) ==
    IF x = Unknown \/ y = Unknown THEN Unknown
    ELSE IF x = 0 \/ y = 0 THEN 0
    ELSE IF x > MaxWord \div y THEN Unknown
    ELSE x * y

KvElements(hp) ==
    LET product == CheckedMul(hp.n_embd, hp.n_head_kv)
    IN  IF product = Unknown THEN Unknown ELSE product \div hp.n_head

EstimateKvCache(hp, n_ctx) ==
    IF ~Sane(hp) \/ n_ctx \notin 1..MaxCtx THEN Unknown
    ELSE CheckedMul(CheckedMul(CheckedMul(CheckedMul(2, hp.n_layer), n_ctx),
                               KvElements(hp)), Element)

EstimateComputeBuffer(hp, n_batch) ==
    IF ~Sane(hp) \/ n_batch \notin 1..MaxCtx THEN Unknown
    ELSE CheckedMul(CheckedMul(n_batch, hp.n_embd), Multiplier)

SaturatingAdd(sum, part) ==
    IF (sum + part) % (MaxWord + 1) < sum THEN MaxWord ELSE sum + part

TotalBytes(estimate) ==
    SaturatingAdd(SaturatingAdd(SaturatingAdd(estimate.weights, estimate.kv_cache),
                                estimate.compute), estimate.overhead)

\* What InferenceEngine::load makes of the estimates: all of them or no estimate.
Estimate(hp, weights, n_ctx) ==
    LET kv == EstimateKvCache(hp, n_ctx)
        compute == EstimateComputeBuffer(hp, n_ctx)
    IN  IF kv = Unknown \/ compute = Unknown
        THEN [valid |-> FALSE, weights |-> weights, kv_cache |-> 0, compute |-> 0,
              overhead |-> 0]
        ELSE [valid |-> TRUE, weights |-> weights, kv_cache |-> kv, compute |-> compute,
              overhead |-> Overhead]

UsableCeiling(budget, reserve) == IF reserve < budget THEN budget - reserve ELSE 0

\* Mutation: the boundary itself is refused.
Safe_Exclusive(estimate, budget, reserve) ==
    estimate.valid /\ TotalBytes(estimate) < UsableCeiling(budget, reserve)

\* MemoryBudgetPolicy::evaluate: no estimate, no admission; the boundary is safe.
Safe(estimate, budget, reserve) ==
    /\ estimate.valid
    /\ UsableCeiling(budget, reserve) > 0
    /\ TotalBytes(estimate) <= UsableCeiling(budget, reserve)
-----------------------------------------------------------------------------
(***************************************************************************)
(* The sizes the estimates stand for, in unbounded arithmetic.             *)
(***************************************************************************)
KvBytes(hp, n_ctx) ==
    2 * hp.n_layer * n_ctx * ((hp.n_embd * hp.n_head_kv) \div hp.n_head) * Element

NeededBytes(hp, weights, n_ctx) ==
    weights + KvBytes(hp, n_ctx) + n_ctx * hp.n_embd * Multiplier + Overhead

Fits(hp, weights, n_ctx, budget, reserve) ==
    NeededBytes(hp, weights, n_ctx) + reserve <= budget
=============================================================================
