------------------------ MODULE InferenceEngine_proofs ------------------------
(***************************************************************************)
(* Proofs about InferenceEngine, for every set of files, configurations,   *)
(* texts and handles and every width of a word: types, handles, the        *)
(* accounting of the context, exact admission and whole texts.             *)
(***************************************************************************)
EXTENDS InferenceEngine, TLAPS

(***************************************************************************)
(* The arithmetic of the memory guard.                                     *)
(***************************************************************************)
LEMMA MulIsMonotone ==
    ASSUME NEW a \in Nat, NEW b \in Nat, NEW c \in Nat, a <= b
    PROVE  a * c <= b * c /\ a * c \in Nat /\ b * c \in Nat
OBVIOUS

LEMMA DivisionIsExact ==
    ASSUME NEW n \in Nat, NEW x \in Nat, NEW y \in Nat \ {0}
    PROVE  x <= n \div y <=> x * y <= n
OBVIOUS

\* A number or, beyond a word, no number.
Bounded(n) == IF n <= MaxWord THEN n ELSE Unknown

LEMMA CheckedMulIsExact ==
    ASSUME NEW x \in Nat, NEW y \in Nat, x <= MaxWord
    PROVE  CheckedMul(x, y) = Bounded(x * y)
<1>1. CASE x = 0 \/ y = 0
  <2>1. x * y = 0
      BY <1>1
  <2> QED BY <1>1, <2>1, WordAssumption DEF CheckedMul, Bounded, Unknown
<1>2. CASE x # 0 /\ y # 0
  <2>1. MaxWord \div y \in Nat /\ x * y \in Nat
      BY <1>2, WordAssumption
  <2>2. x <= MaxWord \div y <=> x * y <= MaxWord
      BY <1>2, DivisionIsExact, WordAssumption
  <2>3. CheckedMul(x, y) = IF x > MaxWord \div y THEN Unknown ELSE x * y
      BY <1>2 DEF CheckedMul, Unknown
  <2>4. x > MaxWord \div y <=> ~(x <= MaxWord \div y)
      BY <2>1
  <2> QED BY <2>2, <2>3, <2>4 DEF Bounded
<1> QED BY <1>1, <1>2

\* A product that is followed by another: an overflow on the way is one at the end.
LEMMA MulAgain ==
    ASSUME NEW x \in Nat, NEW y \in Nat \ {0}
    PROVE  CheckedMul(Bounded(x), y) = Bounded(x * y)
<1>1. CASE x <= MaxWord
    BY <1>1, CheckedMulIsExact DEF Bounded
<1>2. CASE ~(x <= MaxWord)
  <2>1. 1 * x <= y * x /\ y * x \in Nat
      BY MulIsMonotone
  <2>2. x * y > MaxWord
      BY <1>2, <2>1, WordAssumption
  <2> QED BY <1>2, <2>2, WordAssumption DEF Bounded, CheckedMul
<1> QED BY <1>1, <1>2, WordAssumption

LEMMA OneModulus ==
    ASSUME NEW n \in Nat, NEW y \in Nat \ {0}, y <= n, n < 2 * y
    PROVE  n % y = n - y
OBVIOUS

LEMMA NoModulus ==
    ASSUME NEW n \in Nat, NEW y \in Nat \ {0}, n < y
    PROVE  n % y = n
OBVIOUS

LEMMA AddSaturates ==
    ASSUME NEW sum \in Words, NEW part \in Words
    PROVE  /\ SaturatingAdd(sum, part) \in Words
           /\ SaturatingAdd(sum, part) = IF sum + part <= MaxWord THEN sum + part ELSE MaxWord
<1> DEFINE wide == MaxWord + 1
           both == sum + part
           rest == both % wide
<1>1. /\ wide \in Nat \ {0} /\ both \in Nat /\ sum <= both /\ both < sum + wide
      /\ both < 2 * wide /\ (both <= MaxWord <=> both < wide)
    BY WordAssumption DEF Words
<1>2. SaturatingAdd(sum, part) = IF rest < sum THEN MaxWord ELSE both
    BY DEF SaturatingAdd
<1> HIDE DEF wide, both
<1>3. CASE both < wide
  <2>1. rest = both
      BY <1>1, <1>3, NoModulus
  <2>2. ~(rest < sum)
      BY <1>1, <2>1 DEF Words
  <2> QED BY <1>1, <1>2, <1>3, <2>2, WordAssumption DEF both, Words
<1>4. CASE ~(both < wide)
  <2>1. rest = both - wide
      BY <1>1, <1>4, OneModulus
  <2>2. rest < sum
      BY <1>1, <2>1 DEF Words
  <2> QED BY <1>1, <1>2, <1>4, <2>2, WordAssumption DEF both, Words
<1> QED BY <1>3, <1>4

\* The products a sane model makes, and the two of them no width is too small for.
LEMMA SaneProducts ==
    ASSUME NEW hp \in Hyperparams, Sane(hp), NEW n \in 1..MaxCtx
    PROVE  /\ 2 * hp.n_layer \in Nat /\ 2 * hp.n_layer <= MaxWord
           /\ 2 * hp.n_layer * n \in Nat /\ 2 * hp.n_layer * n <= MaxWord
           /\ hp.n_embd * hp.n_head_kv \in Nat /\ hp.n_embd * hp.n_head_kv <= MaxWord
<1>1. /\ hp.n_layer \in Nat /\ hp.n_layer <= MaxLayers /\ MaxLayers \in Nat
      /\ n \in Nat \ {0} /\ n <= MaxCtx /\ MaxCtx \in Nat /\ MaxWord \in Nat
      /\ hp.n_embd \in Nat /\ hp.n_embd <= MaxEmbd /\ MaxEmbd \in Nat
      /\ hp.n_head_kv \in Nat /\ hp.n_head_kv <= MaxHeads /\ MaxHeads \in Nat
    BY WordAssumption DEF Sane, Hyperparams
<1> DEFINE twice == 2 * hp.n_layer
<1>2. twice \in Nat /\ twice <= 2 * MaxLayers /\ 2 * MaxLayers \in Nat
    BY <1>1
<1>3. twice * n <= 2 * MaxLayers * n /\ twice * n \in Nat
    BY <1>1, <1>2, MulIsMonotone
<1>4. n * (2 * MaxLayers) <= MaxCtx * (2 * MaxLayers)
    BY <1>1, <1>2, MulIsMonotone
<1>5. 1 * twice <= n * twice
    BY <1>1, <1>2, MulIsMonotone
<1>6. twice <= twice * n /\ twice * n <= MaxWord
    BY <1>1, <1>2, <1>3, <1>4, <1>5, WordAssumption
<1>7. hp.n_embd * hp.n_head_kv <= MaxEmbd * hp.n_head_kv /\ hp.n_embd * hp.n_head_kv \in Nat
    BY <1>1, MulIsMonotone
<1>8. hp.n_head_kv * MaxEmbd <= MaxHeads * MaxEmbd
    BY <1>1, MulIsMonotone
<1>9. hp.n_embd * hp.n_head_kv <= MaxWord
    BY <1>1, <1>7, <1>8, WordAssumption
<1> QED BY <1>1, <1>2, <1>3, <1>6, <1>7, <1>9

LEMMA KvIsExact ==
    ASSUME NEW hp \in Hyperparams, Sane(hp), NEW n \in 1..MaxCtx
    PROVE  EstimateKvCache(hp, n) = Bounded(KvBytes(hp, n)) /\ KvBytes(hp, n) \in Nat
<1> DEFINE product == hp.n_embd * hp.n_head_kv
           cells == product \div hp.n_head
           twice == 2 * hp.n_layer
           rows == twice * n
<1>1. /\ hp.n_layer \in Nat \ {0} /\ hp.n_embd \in Nat \ {0} /\ hp.n_head_kv \in Nat \ {0}
      /\ hp.n_head \in Nat \ {0} /\ n \in Nat \ {0} /\ Element \in Nat \ {0} /\ hp.n_embd <= MaxWord
      /\ 2 <= MaxWord /\ MaxWord \in Nat
  <2>1. hp.n_embd * 1 <= hp.n_embd * hp.n_head_kv
      BY DEF Sane
  <2> QED BY <2>1, SaneProducts, WordAssumption DEF Sane
<1>2. /\ twice \in Nat /\ twice <= MaxWord /\ rows \in Nat /\ rows <= MaxWord
      /\ product \in Nat /\ product <= MaxWord
    BY SaneProducts
<1>3. CheckedMul(hp.n_embd, hp.n_head_kv) = product
    BY <1>1, <1>2, CheckedMulIsExact DEF Bounded
<1>4. KvElements(hp) = cells /\ cells \in Nat
    BY <1>1, <1>2, <1>3 DEF KvElements, Unknown
<1>5. CheckedMul(2, hp.n_layer) = twice
    BY <1>1, <1>2, CheckedMulIsExact DEF Bounded
<1>6. CheckedMul(twice, n) = rows
    BY <1>1, <1>2, CheckedMulIsExact DEF Bounded
<1>7. EstimateKvCache(hp, n) = CheckedMul(CheckedMul(rows, cells), Element)
    BY <1>4, <1>5, <1>6 DEF EstimateKvCache
<1>8. KvBytes(hp, n) = rows * cells * Element
    BY DEF KvBytes
<1> HIDE DEF cells, rows
<1>9. CheckedMul(rows, cells) = Bounded(rows * cells) /\ rows * cells \in Nat
    BY <1>2, <1>4, CheckedMulIsExact
<1>10. CheckedMul(Bounded(rows * cells), Element) = Bounded(rows * cells * Element)
    BY <1>1, <1>9, MulAgain
<1>11. rows * cells * Element \in Nat
    BY <1>1, <1>9
<1> QED BY <1>7, <1>8, <1>9, <1>10, <1>11

ComputeBytes(hp, n) == n * hp.n_embd * Multiplier

LEMMA ComputeIsExact ==
    ASSUME NEW hp \in Hyperparams, Sane(hp), NEW n \in 1..MaxCtx
    PROVE  /\ EstimateComputeBuffer(hp, n) = Bounded(ComputeBytes(hp, n))
           /\ ComputeBytes(hp, n) \in Nat \ {0}
<1>1. /\ hp.n_layer \in Nat \ {0} /\ hp.n_embd \in Nat \ {0} /\ n \in Nat \ {0}
      /\ Multiplier \in Nat \ {0} /\ MaxWord \in Nat
    BY WordAssumption DEF Sane
<1>2. n <= MaxWord
  <2>1. 1 * n <= 2 * hp.n_layer * n
      BY <1>1, MulIsMonotone
  <2> QED BY <1>1, <2>1, SaneProducts
<1> DEFINE cells == n * hp.n_embd
<1>3. CheckedMul(n, hp.n_embd) = Bounded(cells) /\ cells \in Nat \ {0}
  <2>1. 1 * hp.n_embd <= n * hp.n_embd
      BY <1>1, MulIsMonotone
  <2> QED BY <1>1, <1>2, <2>1, CheckedMulIsExact
<1>4. EstimateComputeBuffer(hp, n) = CheckedMul(Bounded(cells), Multiplier)
    BY <1>3 DEF EstimateComputeBuffer
<1>5. ComputeBytes(hp, n) = cells * Multiplier
    BY DEF ComputeBytes
<1> HIDE DEF cells
<1>6. 1 * cells <= Multiplier * cells
    BY <1>1, <1>3, MulIsMonotone
<1> QED BY <1>1, <1>3, <1>4, <1>5, <1>6, MulAgain

LEMMA TotalIsExact ==
    ASSUME NEW e \in [valid : BOOLEAN, weights : Words, kv_cache : Words, compute : Words,
                      overhead : Words]
    PROVE  LET sum == e.weights + e.kv_cache + e.compute + e.overhead
           IN  TotalBytes(e) = IF sum <= MaxWord THEN sum ELSE MaxWord
<1> DEFINE first == SaturatingAdd(e.weights, e.kv_cache)
           second == SaturatingAdd(first, e.compute)
<1>1. /\ first \in Words
      /\ first = IF e.weights + e.kv_cache <= MaxWord THEN e.weights + e.kv_cache ELSE MaxWord
    BY AddSaturates
<1> HIDE DEF first
<1>2. /\ second \in Words
      /\ second = IF first + e.compute <= MaxWord THEN first + e.compute ELSE MaxWord
    BY <1>1, AddSaturates
<1> HIDE DEF second
<1>3. SaturatingAdd(second, e.overhead) =
        IF second + e.overhead <= MaxWord THEN second + e.overhead ELSE MaxWord
    BY <1>2, AddSaturates
<1>4. TotalBytes(e) = SaturatingAdd(second, e.overhead)
    BY DEF TotalBytes, first, second
<1> QED BY <1>1, <1>2, <1>3, <1>4, WordAssumption DEF Words

(***************************************************************************)
(* The guard is exact, in every width: it admits a model if and only if    *)
(* its hyperparameters are sane and what it needs, in unbounded            *)
(* arithmetic, fits the budget with the reserve.                           *)
(***************************************************************************)
THEOREM GuardIsExact ==
    ASSUME NEW hp \in Hyperparams, NEW weights \in Words, NEW n \in Nat \ {0},
           NEW budget \in 0..(MaxWord - 1), NEW reserve \in Words
    PROVE  Safe(Estimate(hp, weights, n), budget, reserve) <=>
             Sane(hp) /\ n <= MaxCtx /\ Fits(hp, weights, n, budget, reserve)
<1> DEFINE e == Estimate(hp, weights, n)
           kv == KvBytes(hp, n)
           compute == ComputeBytes(hp, n)
           sum == weights + kv + compute + Overhead
<1>1. CASE ~(Sane(hp) /\ n <= MaxCtx)
  <2>1. EstimateKvCache(hp, n) = Unknown
      BY <1>1, WordAssumption DEF EstimateKvCache
  <2>2. ~e.valid
      BY <2>1 DEF Estimate
  <2> QED BY <1>1, <2>2 DEF Safe
<1>2. CASE Sane(hp) /\ n <= MaxCtx
  <2>1. n \in 1..MaxCtx
      BY <1>2, WordAssumption
  <2>2. EstimateKvCache(hp, n) = Bounded(kv) /\ kv \in Nat
      BY <1>2, <2>1, KvIsExact
  <2>3. EstimateComputeBuffer(hp, n) = Bounded(compute) /\ compute \in Nat \ {0}
      BY <1>2, <2>1, ComputeIsExact
  <2>4. NeededBytes(hp, weights, n) = sum
      BY DEF NeededBytes, ComputeBytes
  <2>5. UsableCeiling(budget, reserve) = IF reserve < budget THEN budget - reserve ELSE 0
      BY DEF UsableCeiling
  <2> HIDE DEF kv, compute
  <2>6. /\ weights \in Nat /\ Overhead \in Nat /\ Overhead <= MaxWord /\ weights <= MaxWord
        /\ MaxWord \in Nat /\ budget \in Nat /\ budget < MaxWord /\ reserve \in Nat
      BY WordAssumption DEF Words
  <2>7. Fits(hp, weights, n, budget, reserve) <=> sum + reserve <= budget
      BY <2>4 DEF Fits
  <2>8. CASE kv <= MaxWord /\ compute <= MaxWord
    <3>1. e = [valid |-> TRUE, weights |-> weights, kv_cache |-> kv, compute |-> compute,
               overhead |-> Overhead]
        BY <2>2, <2>3, <2>8 DEF Estimate, Bounded, Unknown
    <3>2. e \in [valid : BOOLEAN, weights : Words, kv_cache : Words, compute : Words,
                 overhead : Words]
        BY <2>2, <2>3, <2>6, <2>8, <3>1 DEF Words
    <3> HIDE DEF e
    <3>3. TotalBytes(e) = IF sum <= MaxWord THEN sum ELSE MaxWord
        BY <3>1, <3>2, TotalIsExact
    <3>4. e.valid
        BY <3>1
    <3>5. Safe(e, budget, reserve) <=>
            /\ UsableCeiling(budget, reserve) > 0
            /\ TotalBytes(e) <= UsableCeiling(budget, reserve)
        BY <3>4 DEF Safe
    <3>6. Safe(e, budget, reserve) <=> sum + reserve <= budget
        BY <2>2, <2>3, <2>5, <2>6, <3>3, <3>5
    <3> QED BY <1>2, <2>7, <3>6 DEF e
  <2>9. CASE ~(kv <= MaxWord /\ compute <= MaxWord)
    <3>1. ~e.valid
        BY <2>2, <2>3, <2>9 DEF Estimate, Bounded
    <3>2. sum > MaxWord
        BY <2>2, <2>3, <2>6, <2>9
    <3> QED BY <2>2, <2>3, <2>6, <2>7, <3>1, <3>2 DEF Safe
  <2> QED BY <2>8, <2>9
<1> QED BY <1>1, <1>2
-----------------------------------------------------------------------------
(***************************************************************************)
(* The texts that go through the buffers of the tokenizer.                 *)
(***************************************************************************)
LEMMA WrittenIsRead ==
    ASSUME NEW s \in Seq(Nat)
    PROVE  Cells(s, Len(s)) = s
BY DEF Cells

LEMMA TemplateIsText ==
    ASSUME NEW text \in Seq(Nat)
    PROVE  Template(text) \in Seq(Nat) /\ <<Begin>> \o text \in Seq(Nat)
BY TokenizerAssumption DEF Template

LEMMA TokenizeIsExact ==
    ASSUME NEW text \in Seq(Nat), NEW add_special \in BOOLEAN
    PROVE  LET result == Tokenize(text, add_special) IN
           result.ok /\ result.tokens = TokensOf(text, add_special)
<1> DEFINE s == TokensOf(text, add_special)
           needed == -LlamaTokenize(text, 0, add_special).n
           second == LlamaTokenize(text, needed, add_special)
<1>1. s \in Seq(Nat) /\ Len(s) \in Nat
  <2>1. <<Begin>> \o text \in Seq(Nat)
      BY TemplateIsText
  <2>2. CASE add_special
      BY <2>1, <2>2 DEF TokensOf
  <2>3. CASE ~add_special
      BY <2>3 DEF TokensOf
  <2> QED BY <2>2, <2>3
<1> HIDE DEF s
<1>2. needed = Len(s)
    BY <1>1 DEF LlamaTokenize, FitsOrNeeds, s
<1>3. second = [n |-> Len(s), wrote |-> s]
    BY <1>1, <1>2 DEF LlamaTokenize, FitsOrNeeds, s
<1>4. Tokenize(text, add_special) =
        IF needed <= 0 THEN [ok |-> TRUE, tokens |-> <<>>]
        ELSE IF second.n < 0 THEN [ok |-> FALSE, tokens |-> <<>>]
        ELSE [ok |-> TRUE, tokens |-> Cells(second.wrote, second.n)]
    BY DEF Tokenize
<1> HIDE DEF needed, second
<1>5. CASE Len(s) = 0
  <2>1. s = <<>>
      BY <1>1, <1>5
  <2> QED BY <1>2, <1>4, <1>5, <2>1 DEF s
<1>6. CASE Len(s) # 0
  <2>1. Tokenize(text, add_special) = [ok |-> TRUE, tokens |-> Cells(s, Len(s))]
      BY <1>1, <1>2, <1>3, <1>4, <1>6
  <2> QED BY <1>1, <2>1, WrittenIsRead DEF s
<1> QED BY <1>5, <1>6

LEMMA TemplateIsWhole ==
    ASSUME NEW text \in Seq(Nat)
    PROVE  ApplyChatTemplate(text) = Template(text)
<1> DEFINE s == Template(text)
<1>1. s \in Seq(Nat) /\ Len(s) \in Nat /\ TemplateBuffer \in Nat
    BY TemplateIsText, TokenizerAssumption
<1> HIDE DEF s
<1>2. CASE Len(s) <= TemplateBuffer
  <2>1. LlamaApplyTemplate(text, TemplateBuffer) = [n |-> Len(s), wrote |-> s]
      BY <1>2 DEF LlamaApplyTemplate, s
  <2>2. ApplyChatTemplate(text) = Cells(s, Len(s))
      BY <1>1, <1>2, <2>1 DEF ApplyChatTemplate
  <2> QED BY <1>1, <2>2, WrittenIsRead DEF s
<1>3. CASE ~(Len(s) <= TemplateBuffer)
  <2>1. LlamaApplyTemplate(text, TemplateBuffer).n = Len(s)
      BY DEF LlamaApplyTemplate, s
  <2>2. LlamaApplyTemplate(text, Len(s)) = [n |-> Len(s), wrote |-> s]
      BY <1>1 DEF LlamaApplyTemplate, s
  <2>3. ApplyChatTemplate(text) = Cells(s, Len(s))
      BY <1>1, <1>3, <2>1, <2>2 DEF ApplyChatTemplate
  <2> QED BY <1>1, <2>3, WrittenIsRead DEF s
<1> QED BY <1>2, <1>3

LEMMA PieceIsWhole ==
    ASSUME NEW token \in Seq(Nat)
    PROVE  TokenToPiece(token) = token
<1>1. Len(token) \in Nat /\ PieceBuffer \in Nat
    BY TokenizerAssumption
<1>2. CASE Len(token) <= PieceBuffer
  <2>1. LlamaTokenToPiece(token, PieceBuffer) = [n |-> Len(token), wrote |-> token]
      BY <1>2 DEF LlamaTokenToPiece, FitsOrNeeds
  <2> QED BY <1>1, <2>1, WrittenIsRead DEF TokenToPiece
<1>3. CASE ~(Len(token) <= PieceBuffer)
  <2>1. LlamaTokenToPiece(token, PieceBuffer).n = -Len(token)
      BY <1>3 DEF LlamaTokenToPiece, FitsOrNeeds
  <2>2. LlamaTokenToPiece(token, Len(token)) = [n |-> Len(token), wrote |-> token]
      BY <1>1 DEF LlamaTokenToPiece, FitsOrNeeds
  <2>3. -LlamaTokenToPiece(token, PieceBuffer).n = Len(token)
      BY <1>1, <2>1
  <2>4. TokenToPiece(token) = Cells(token, Len(token))
      BY <1>1, <1>3, <2>1, <2>2, <2>3 DEF TokenToPiece
  <2> QED BY <2>4, WrittenIsRead
<1> QED BY <1>2, <1>3

\* What generate decodes, with the model's template and without.
LEMMA PromptIsWhole ==
    ASSUME NEW text \in Texts, NEW template \in BOOLEAN
    PROVE  LET tokens == IF template THEN Template(text) ELSE <<Begin>> \o text IN
           /\ Tokenized(text, template).tokens = tokens
           /\ tokens \in Seq(Nat) /\ tokens # <<>>
<1>1. text \in Seq(Nat)
    BY EngineAssumption
<1>2. Template(text) \in Seq(Nat) /\ <<Begin>> \o text \in Seq(Nat)
    BY <1>1, TemplateIsText
<1>3. Template(text) # <<>> /\ <<Begin>> \o text # <<>>
  <2>1. Len(Template(text)) = 2 + Len(text) /\ Len(<<Begin>> \o text) = 1 + Len(text)
        /\ Len(text) \in Nat
      BY <1>1 DEF Template
  <2> QED BY <2>1
<1>4. CASE template
  <2>1. Tokenized(text, template) = Tokenize(Template(text), FALSE)
      BY <1>1, <1>4, TemplateIsWhole DEF Tokenized
  <2>2. Tokenized(text, template).tokens = Template(text)
      BY <1>2, <2>1, TokenizeIsExact DEF TokensOf
  <2> QED BY <1>2, <1>3, <1>4, <2>2
<1>5. CASE ~template
  <2>1. Tokenized(text, template).tokens = <<Begin>> \o text
      BY <1>1, <1>5, TokenizeIsExact DEF TokensOf, Tokenized
  <2> QED BY <1>2, <1>3, <1>5, <2>1
<1> QED BY <1>4, <1>5
-----------------------------------------------------------------------------
(***************************************************************************)
(* The inductive invariant: where load or generate is says what the engine *)
(* points to, and the last decision of the guard is the one of arg.        *)
(***************************************************************************)
Loading == pc \in {"load_model", "admit", "create_context"}

Stages ==
    /\ ctx # Null => model # Null
    /\ ctx # Null => manager.n_ctx > 0
    /\ Loading => ctx = Null /\ cache = 0 /\ streamed = 0 /\ mark = CleanMark /\ backend
    /\ pc = "load_model" => model = Null
    /\ pc \in {"admit", "create_context"} => model # Null
    /\ pc \in {"prompt", "sample", "decode"} => ctx # Null
    /\ pc = "prompt" => streamed = 0

Guarded ==
    /\ ctx # Null \/ pc = "create_context" => Decision
    /\ pc = "idle" /\ error = "MemoryBudgetExceeded" => ~Decision

IInv == /\ TypeOK /\ Stages /\ HandlesOwned /\ ContextAccounted /\ StreamedIsRemembered
        /\ Guarded /\ TextIsWhole

LEMMA ConfigIsTyped ==
    ASSUME TypeOK
    PROVE  /\ config.max_tokens \in Nat \ {0} /\ wanted \in Configs
           /\ Capacities[wanted.context] \subseteq Nat \ {0}
           /\ manager.n_ctx \in Nat /\ manager.n_used \in Nat /\ mark.at \in Nat
BY EngineAssumption DEF TypeOK, wanted

LEMMA Initially == Init => IInv
<1> SUFFICES ASSUME Init PROVE IInv
    OBVIOUS
<1>1. TypeOK
    BY DEF Init, TypeOK, NoManager, CleanMark, NotAsked, NothingSaid, Errors
<1>2. Stages /\ HandlesOwned /\ ContextAccounted /\ Guarded
    BY DEF Init, Stages, Loading, HandlesOwned, ContextAccounted, Guarded, NoManager, CleanMark
<1>3. StreamedIsRemembered /\ TextIsWhole
    BY <1>1, ConfigIsTyped DEF Init, StreamedIsRemembered, TextIsWhole, NothingSaid
<1> QED BY <1>1, <1>2, <1>3 DEF IInv

\* A call that frees the model and its context, whatever else it does.
LEMMA ReleaseKeeps ==
    ASSUME IInv, Release, pc' \in {"idle", "load_model"},
           UNCHANGED config, arg' \in Files \X Configs, backend' \in BOOLEAN,
           pc' = "load_model" => backend' /\ streamed' = 0,
           error' \in Errors, pc' = "idle" /\ error' = "MemoryBudgetExceeded" => UNCHANGED <<arg, error, pc>>,
           Hush \/ UNCHANGED talk
    PROVE  IInv'
<1>1. /\ model' = Null /\ ctx' = Null /\ models' = {} /\ contexts' = {}
      /\ manager' = NoManager /\ cache' = 0 /\ mark' = CleanMark
    BY DEF Release, IInv, HandlesOwned
<1>2. said'.piece = said'.token /\ said'.token \in Vocabulary \cup {<<>>}
      /\ asked' \in [text : Texts, template : BOOLEAN] \cup {NotAsked}
      /\ streamed' \in Nat /\ streamed' <= config.max_tokens
    BY ConfigIsTyped DEF IInv, Hush, talk, NothingSaid, TypeOK, TextIsWhole, StreamedIsRemembered
<1>3. TypeOK'
    BY <1>1, <1>2 DEF IInv, TypeOK, NoManager, CleanMark
<1>4. Stages' /\ HandlesOwned' /\ ContextAccounted'
    BY <1>1 DEF Stages, Loading, HandlesOwned, ContextAccounted, NoManager, CleanMark
<1>5. StreamedIsRemembered' /\ TextIsWhole'
    BY <1>1, <1>2 DEF StreamedIsRemembered, TextIsWhole
<1>6. Guarded'
  <2>1. ASSUME pc' = "idle", error' = "MemoryBudgetExceeded" PROVE ~Decision'
    <3>1. UNCHANGED <<arg, error, pc>>
        BY <2>1
    <3> QED BY <2>1, <3>1 DEF IInv, Guarded, Decision, file, wanted
  <2> QED BY <1>1, <2>1 DEF Guarded
<1> QED BY <1>3, <1>4, <1>5, <1>6 DEF IInv

LEMMA ReleasesKeep == IInv /\ (Load \/ Unload \/ Destroy) => IInv'
<1> SUFFICES ASSUME IInv, Load \/ Unload \/ Destroy PROVE IInv'
    OBVIOUS
<1>1. CASE Load
    BY <1>1, ReleaseKeeps DEF Load, Fail, Errors, Hush, IInv, TypeOK
<1>2. CASE Unload
    BY <1>2, ReleaseKeeps DEF Unload, IInv, TypeOK
<1>3. CASE Destroy
    BY <1>3, ReleaseKeeps DEF Destroy, Errors, IInv, TypeOK
<1> QED BY <1>1, <1>2, <1>3

LEMMA LoadModelKeeps == IInv /\ LoadModel => IInv'
<1> SUFFICES ASSUME IInv, LoadModel PROVE IInv'
    OBVIOUS
<1>1. /\ ctx = Null /\ model = Null /\ models = {} /\ backend /\ pc = "load_model"
      /\ UNCHANGED <<arg, config, ctx, contexts, backend, manager, cache, prompt, asked, streamed,
                     said, mark>>
    BY DEF LoadModel, IInv, Stages, Loading, HandlesOwned, talk
<1>2. CASE \E h \in Handles \ models : /\ model' = h /\ models' = models \cup {h}
                                      /\ pc' = "admit" /\ error' = error
  <2>1. PICK h \in Handles : model' = h /\ models' = {h} /\ pc' = "admit" /\ error' = error
      BY <1>1, <1>2
  <2>2. h # Null
      BY EngineAssumption
  <2>3. TypeOK'
      BY <1>1, <2>1 DEF IInv, TypeOK
  <2> QED BY <1>1, <2>1, <2>2, <2>3 DEF IInv, Stages, Loading, HandlesOwned, ContextAccounted,
             StreamedIsRemembered, Guarded, TextIsWhole
<1>3. CASE Fail("ModelLoadFailed") /\ UNCHANGED <<model, models>>
  <2>1. TypeOK'
      BY <1>1, <1>3 DEF IInv, TypeOK, Fail, Errors
  <2> QED BY <1>1, <1>3, <2>1 DEF Fail, IInv, Stages, Loading, HandlesOwned, ContextAccounted,
             StreamedIsRemembered, Guarded, TextIsWhole
<1> QED BY <1>2, <1>3 DEF LoadModel

LEMMA AdmitKeeps == IInv /\ Admit => IInv'
<1> SUFFICES ASSUME IInv, Admit PROVE IInv'
    OBVIOUS
<1>1. /\ ctx = Null /\ model # Null /\ backend /\ pc = "admit" /\ models = {model}
      /\ UNCHANGED <<arg, config, ctx, contexts, backend, manager, cache, prompt, asked, streamed,
                     said, mark>>
    BY DEF Admit, IInv, Stages, Loading, HandlesOwned, talk
<1>2. Decision' <=> Decision
    BY <1>1 DEF Decision, file, wanted
<1>3. CASE Decision
  <2>1. pc' = "create_context" /\ UNCHANGED <<model, models, error>>
      BY <1>3 DEF Admit
  <2>2. TypeOK'
      BY <1>1, <2>1 DEF IInv, TypeOK
  <2> QED BY <1>1, <1>2, <1>3, <2>1, <2>2 DEF IInv, Stages, Loading, HandlesOwned,
             ContextAccounted, StreamedIsRemembered, Guarded, TextIsWhole
<1>4. CASE ~Decision
  <2>1. pc' = "idle" /\ error' = "MemoryBudgetExceeded" /\ model' = Null /\ models' = {}
      BY <1>1, <1>4 DEF Admit, Fail
  <2>2. TypeOK'
      BY <1>1, <2>1 DEF IInv, TypeOK, Errors
  <2> QED BY <1>1, <1>2, <1>4, <2>1, <2>2 DEF IInv, Stages, Loading, HandlesOwned,
             ContextAccounted, StreamedIsRemembered, Guarded, TextIsWhole
<1> QED BY <1>3, <1>4

LEMMA CreateContextKeeps == IInv /\ CreateContext => IInv'
<1> SUFFICES ASSUME IInv, CreateContext PROVE IInv'
    OBVIOUS
<1>1. /\ ctx = Null /\ model # Null /\ backend /\ pc = "create_context" /\ models = {model}
      /\ contexts = {} /\ cache = 0 /\ streamed = 0 /\ mark = CleanMark /\ manager = NoManager /\ Decision
      /\ UNCHANGED <<arg, backend, cache, prompt, asked, streamed, said, mark>>
    BY DEF CreateContext, IInv, Stages, Loading, HandlesOwned, Guarded, talk
<1>2. Decision' <=> Decision
    BY <1>1 DEF Decision, file, wanted
<1>3. CASE /\ \E h \in Handles \ {c[1] : c \in contexts}, n \in Capacities[wanted.context] :
                /\ ctx' = h /\ contexts' = contexts \cup {<<h, model>>}
                /\ manager' = [n_ctx |-> n, n_used |-> 0]
           /\ config' = wanted /\ Fail("None") /\ UNCHANGED <<model, models>>
  <2>1. PICK h \in Handles, n \in Capacities[wanted.context] :
               ctx' = h /\ contexts' = {<<h, model>>} /\ manager' = [n_ctx |-> n, n_used |-> 0]
      BY <1>1, <1>3
  <2>2. h # Null /\ n \in Nat \ {0} /\ config' \in Configs /\ config'.max_tokens \in Nat
      BY <1>3, ConfigIsTyped, EngineAssumption DEF IInv
  <2>3. TypeOK'
      BY <1>1, <1>3, <2>1, <2>2 DEF IInv, TypeOK, Fail, Errors
  <2>4. Stages' /\ HandlesOwned' /\ Guarded'
      BY <1>1, <1>2, <1>3, <2>1, <2>2 DEF Stages, Loading, HandlesOwned, Guarded, Fail, NoManager
  <2>5. ContextAccounted' /\ StreamedIsRemembered' /\ TextIsWhole'
      BY <1>1, <1>3, <2>1, <2>2 DEF IInv, ContextAccounted, StreamedIsRemembered, TextIsWhole, Fail
  <2> QED BY <2>3, <2>4, <2>5 DEF IInv
<1>4. CASE /\ Fail("ContextCreateFailed") /\ model' = Null /\ models' = models \ {model}
           /\ UNCHANGED <<ctx, contexts, manager, config>>
  <2>1. TypeOK'
      BY <1>1, <1>4 DEF IInv, TypeOK, Fail, Errors
  <2> QED BY <1>1, <1>4, <2>1 DEF Fail, IInv, Stages, Loading, HandlesOwned, ContextAccounted,
             StreamedIsRemembered, Guarded, TextIsWhole
<1> QED BY <1>3, <1>4 DEF CreateContext

LEMMA ResetContextKeeps == IInv /\ ResetContext => IInv'
<1> SUFFICES ASSUME IInv, ResetContext PROVE IInv'
    OBVIOUS
<1>1. /\ pc = "idle" /\ ctx # Null /\ cache' = 0 /\ mark' = CleanMark
      /\ manager' = [n_ctx |-> manager.n_ctx, n_used |-> 0] /\ manager.n_ctx \in Nat
      /\ UNCHANGED <<pc, arg, config, model, ctx, models, contexts, backend, prompt, asked,
                     streamed, said, error>>
    BY DEF ResetContext, talk, IInv, TypeOK
<1>2. TypeOK'
    BY <1>1 DEF IInv, TypeOK, CleanMark
<1>3. Stages' /\ HandlesOwned'
    BY <1>1 DEF IInv, Stages, Loading, HandlesOwned, NoManager
<1>4. ContextAccounted' /\ StreamedIsRemembered' /\ TextIsWhole'
    BY <1>1 DEF IInv, ContextAccounted, StreamedIsRemembered, TextIsWhole
<1>5. Guarded'
    BY <1>1 DEF IInv, Guarded, Decision, file, wanted
<1> QED BY <1>2, <1>3, <1>4, <1>5 DEF IInv

\* A step of a generation, which leaves the handles and the configuration alone.
LEMMA TalkKeeps ==
    ASSUME IInv, ctx # Null \/ pc = "idle", ~Loading, pc' \in {"idle", "prompt", "sample", "decode"},
           pc' # "idle" => ctx # Null,
           UNCHANGED <<arg, config, model, ctx, models, contexts, backend>>,
           error' \in Errors \ {"MemoryBudgetExceeded"} \/ (pc' # "idle" /\ UNCHANGED error),
           manager'.n_ctx = manager.n_ctx, manager' \in [n_ctx : Nat, n_used : Nat],
           ctx = Null => UNCHANGED manager,
           TypeOK', ContextAccounted', StreamedIsRemembered', TextIsWhole',
           pc' = "prompt" => streamed' = 0
    PROVE  IInv'
<1>1. Stages'
    BY DEF IInv, Stages, Loading
<1>2. HandlesOwned'
  <2>1. (manager' = NoManager) <=> (ctx' = Null)
      BY DEF IInv, HandlesOwned, Stages, NoManager
  <2> QED BY <2>1 DEF IInv, HandlesOwned
<1>3. Guarded'
    BY DEF IInv, Guarded, Decision, file, wanted, Loading
<1> QED BY <1>1, <1>2, <1>3 DEF IInv

LEMMA GenerateKeeps == IInv /\ Generate => IInv'
<1> SUFFICES ASSUME IInv, Generate PROVE IInv'
    OBVIOUS
<1>1. /\ pc = "idle" /\ streamed' = 0 /\ said' = NothingSaid
      /\ UNCHANGED <<arg, config, model, ctx, models, contexts, backend, manager, cache, mark>>
    BY DEF Generate, engine
<1>2. ContextAccounted' /\ manager' \in [n_ctx : Nat, n_used : Nat] /\ config.max_tokens \in Nat
    BY <1>1, ConfigIsTyped DEF IInv, ContextAccounted, TypeOK
<1>3. CASE (\E e \in {"ContextCreateFailed", "TokenizeFailed", "None"} : Fail(e)) /\ Forget
  <2>1. TypeOK' /\ error' \in Errors \ {"MemoryBudgetExceeded"} /\ pc' = "idle"
      BY <1>1, <1>3 DEF IInv, TypeOK, Fail, Errors, Forget, NothingSaid
  <2>2. StreamedIsRemembered' /\ TextIsWhole'
      BY <1>1, <1>2, <2>1 DEF StreamedIsRemembered, TextIsWhole, NothingSaid
  <2> QED BY <1>1, <1>2, <2>1, <2>2, TalkKeeps DEF Loading
<1>4. CASE /\ ctx # Null
           /\ \E text \in Texts, template \in BOOLEAN :
                 /\ pc' = "prompt" /\ prompt' = Tokenized(text, template).tokens
                 /\ asked' = [text |-> text, template |-> template]
                 /\ UNCHANGED error
  <2>1. PICK text \in Texts, template \in BOOLEAN :
               /\ pc' = "prompt" /\ prompt' = Tokenized(text, template).tokens
               /\ asked' = [text |-> text, template |-> template]
               /\ UNCHANGED error
      BY <1>4
  <2>2. /\ prompt' = IF template THEN Template(text) ELSE <<Begin>> \o text
        /\ prompt' # <<>>
      BY <2>1, PromptIsWhole
  <2>3. TypeOK'
      BY <1>1, <2>1, <2>2 DEF IInv, TypeOK, NothingSaid
  <2>4. StreamedIsRemembered' /\ TextIsWhole'
      BY <1>1, <1>2, <2>1, <2>2 DEF StreamedIsRemembered, TextIsWhole, NothingSaid
  <2> QED BY <1>1, <1>2, <1>4, <2>1, <2>3, <2>4, TalkKeeps DEF Loading
<1> QED BY <1>3, <1>4 DEF Generate

LEMMA DecodePromptKeeps == IInv /\ DecodePrompt => IInv'
<1> SUFFICES ASSUME IInv, DecodePrompt PROVE IInv'
    OBVIOUS
<1>1. /\ pc = "prompt" /\ ctx # Null /\ streamed = 0 /\ config.max_tokens \in Nat
      /\ manager.n_used \in Nat /\ manager.n_ctx \in Nat /\ cache \in Nat /\ Len(prompt) \in Nat
      /\ UNCHANGED <<arg, config, model, ctx, models, contexts, backend, streamed, said>>
  <2>1. prompt \in Seq(Nat)
    <3>1. asked.text \in Texts \/ asked.text = <<>>
        BY DEF IInv, TypeOK, NotAsked
    <3>2. <<>> \in Seq(Nat) /\ Texts \subseteq Seq(Nat)
        BY EngineAssumption
    <3>3. asked.text \in Seq(Nat)
        BY <3>1, <3>2, Zenon
    <3> QED BY <3>3, TemplateIsText DEF DecodePrompt, IInv, TextIsWhole
  <2> QED BY <2>1, ConfigIsTyped DEF DecodePrompt, IInv, Stages, TypeOK
<1> DEFINE n == Len(prompt)
<1>2. CASE /\ Decoded(n) /\ Consume(n) /\ Forget
           /\ mark' = [mark EXCEPT !.at = manager.n_used + n]
           /\ (pc' = "sample" /\ UNCHANGED error) \/ Fail("DecodeFailed")
  <2>1. /\ cache' = cache + n /\ cache + n <= manager.n_ctx /\ manager.n_used <= cache
        /\ mark.clean => manager.n_used = cache
      BY <1>2 DEF Decoded, IInv, ContextAccounted
  <2>2. manager' = [n_ctx |-> manager.n_ctx, n_used |-> manager.n_used + n]
    <3>1. CanAccept(n)
        BY <1>1, <2>1 DEF CanAccept
    <3> QED BY <1>2, <3>1 DEF Consume, IInv, TypeOK
  <2>3. mark' = [at |-> manager.n_used + n, clean |-> mark.clean] /\ mark.clean \in BOOLEAN
      BY <1>2 DEF IInv, TypeOK
  <2>4. (pc' = "sample" /\ UNCHANGED error) \/ (pc' = "idle" /\ error' = "DecodeFailed")
      BY <1>2 DEF Fail
  <2> HIDE DEF n
  <2>5. TypeOK'
    <3>1. prompt' = <<>> /\ asked' = NotAsked
        BY <1>2 DEF Forget
    <3>2. manager' \in [n_ctx : Nat, n_used : Nat] /\ mark' \in [at : Nat, clean : BOOLEAN] /\ cache' \in Nat
        BY <1>1, <2>1, <2>2, <2>3 DEF n
    <3> QED BY <1>1, <2>4, <3>1, <3>2 DEF IInv, TypeOK, Errors
  <2>6. ContextAccounted'
      BY <1>1, <2>1, <2>2, <2>3 DEF ContextAccounted, n
  <2>7. StreamedIsRemembered'
      BY <1>1, <2>2, <2>3, <2>4 DEF StreamedIsRemembered, n
  <2>8. TextIsWhole'
      BY <1>1, <2>4 DEF IInv, TextIsWhole
  <2>9. error' \in Errors \ {"MemoryBudgetExceeded"} \/ (pc' # "idle" /\ UNCHANGED error)
      BY <2>4 DEF Errors
  <2>10. manager'.n_ctx = manager.n_ctx /\ manager' \in [n_ctx : Nat, n_used : Nat]
      BY <1>1, <2>2 DEF n
  <2> QED BY <1>1, <2>4, <2>5, <2>6, <2>7, <2>8, <2>9, <2>10, TalkKeeps DEF Loading
<1>3. CASE Undecoded(n) /\ UNCHANGED <<prompt, asked>>
  <2> HIDE DEF n
  <2>1. /\ cache' \in cache..(cache + n) /\ cache' <= manager.n_ctx /\ pc' = "idle"
        /\ error' = "DecodeFailed" /\ manager' = manager
        /\ mark' = [at |-> mark.at, clean |-> FALSE] /\ mark.at \in Nat
      BY <1>3 DEF Undecoded, Fail, IInv, TypeOK
  <2>2. cache' \in Nat /\ cache <= cache'
      BY <1>1, <2>1 DEF n
  <2>3. TypeOK'
      BY <1>1, <1>3, <2>1, <2>2 DEF IInv, TypeOK, Errors
  <2>4. ContextAccounted' /\ StreamedIsRemembered' /\ TextIsWhole'
      BY <1>1, <1>3, <2>1, <2>2 DEF IInv, ContextAccounted, StreamedIsRemembered, TextIsWhole
  <2>5. error' \in Errors \ {"MemoryBudgetExceeded"} /\ manager' \in [n_ctx : Nat, n_used : Nat]
      BY <2>1 DEF Errors, IInv, TypeOK
  <2> QED BY <1>1, <2>1, <2>3, <2>4, <2>5, TalkKeeps DEF Loading
<1> QED BY <1>2, <1>3 DEF DecodePrompt

LEMMA SampleKeeps == IInv /\ Sample => IInv'
<1> SUFFICES ASSUME IInv, Sample PROVE IInv'
    OBVIOUS
<1>1. /\ pc = "sample" /\ ctx # Null /\ streamed \in Nat /\ config.max_tokens \in Nat
      /\ manager.n_used \in Nat /\ mark.at \in Nat /\ manager.n_used - mark.at = streamed
      /\ streamed <= config.max_tokens /\ manager \in [n_ctx : Nat, n_used : Nat]
      /\ UNCHANGED <<arg, config, model, ctx, models, contexts, backend, manager, cache, prompt,
                     asked, mark>>
    BY ConfigIsTyped DEF Sample, IInv, Stages, TypeOK, StreamedIsRemembered, engine
<1>2. ContextAccounted'
    BY <1>1 DEF IInv, ContextAccounted
<1>3. CASE Fail("None") /\ UNCHANGED <<streamed, said>>
  <2>1. TypeOK'
      BY <1>1, <1>3 DEF IInv, TypeOK, Fail, Errors
  <2>2. StreamedIsRemembered' /\ TextIsWhole'
      BY <1>1, <1>3 DEF IInv, StreamedIsRemembered, TextIsWhole, Fail
  <2> QED BY <1>1, <1>2, <1>3, <2>1, <2>2, TalkKeeps DEF Loading, Fail, Errors
<1>4. CASE /\ MoreTokens /\ streamed' = streamed + 1
           /\ \E token \in Vocabulary : said' = [token |-> token, piece |-> TokenToPiece(token)]
           /\ Fail("None") \/ (pc' = "decode" /\ UNCHANGED error)
  <2>1. PICK token \in Vocabulary : said' = [token |-> token, piece |-> TokenToPiece(token)]
      BY <1>4
  <2>2. token \in Seq(Nat)
      BY EngineAssumption
  <2>3. TokenToPiece(token) = token
      BY <2>2, PieceIsWhole
  <2>4. said'.token \in Vocabulary /\ said'.piece = said'.token
      BY <2>1, <2>3
  <2>5. (pc' = "idle" /\ error' = "None") \/ (pc' = "decode" /\ UNCHANGED error)
      BY <1>4 DEF Fail
  <2>6. streamed' = streamed + 1 /\ streamed' <= config.max_tokens
      BY <1>1, <1>4 DEF MoreTokens
  <2>7. TypeOK'
      BY <1>1, <2>4, <2>5, <2>6 DEF IInv, TypeOK, Errors
  <2>8. StreamedIsRemembered' /\ TextIsWhole'
      BY <1>1, <2>4, <2>5, <2>6 DEF StreamedIsRemembered, TextIsWhole
  <2>9. error' \in Errors \ {"MemoryBudgetExceeded"} \/ (pc' # "idle" /\ UNCHANGED error)
      BY <2>5 DEF Errors
  <2> QED BY <1>1, <1>2, <2>5, <2>7, <2>8, <2>9, TalkKeeps DEF Loading
<1> QED BY <1>3, <1>4 DEF Sample

LEMMA DecodeTokenKeeps == IInv /\ DecodeToken => IInv'
<1> SUFFICES ASSUME IInv, DecodeToken PROVE IInv'
    OBVIOUS
<1>1. /\ pc = "decode" /\ ctx # Null /\ streamed \in Nat /\ config.max_tokens \in Nat
      /\ manager.n_used \in Nat /\ manager.n_ctx \in Nat /\ cache \in Nat /\ mark.at \in Nat
      /\ manager.n_used - mark.at = streamed - 1 /\ streamed <= config.max_tokens
      /\ UNCHANGED <<arg, config, model, ctx, models, contexts, backend, prompt, asked, streamed,
                     said>>
    BY ConfigIsTyped DEF DecodeToken, IInv, Stages, TypeOK, StreamedIsRemembered, talk
<1>2. CASE Decoded(1) /\ Consume(1) /\ pc' = "sample" /\ UNCHANGED <<mark, error>>
  <2>1. /\ cache' = cache + 1 /\ cache + 1 <= manager.n_ctx /\ manager.n_used <= cache
        /\ mark.clean => manager.n_used = cache
      BY <1>2 DEF Decoded, IInv, ContextAccounted
  <2>2. manager' = [n_ctx |-> manager.n_ctx, n_used |-> manager.n_used + 1]
    <3>1. CanAccept(1)
        BY <1>1, <2>1 DEF CanAccept
    <3> QED BY <1>2, <3>1 DEF Consume, IInv, TypeOK
  <2>3. TypeOK'
      BY <1>1, <1>2, <2>1, <2>2 DEF IInv, TypeOK
  <2>4. ContextAccounted' /\ StreamedIsRemembered' /\ TextIsWhole'
      BY <1>1, <1>2, <2>1, <2>2 DEF IInv, ContextAccounted, StreamedIsRemembered, TextIsWhole
  <2>5. manager'.n_ctx = manager.n_ctx /\ manager' \in [n_ctx : Nat, n_used : Nat]
      BY <1>1, <2>2
  <2> QED BY <1>1, <1>2, <2>3, <2>4, <2>5, TalkKeeps DEF Loading
<1>3. CASE Undecoded(1)
  <2>1. /\ cache' \in cache..(cache + 1) /\ cache' <= manager.n_ctx /\ pc' = "idle"
        /\ error' = "DecodeFailed" /\ manager' = manager
        /\ mark' = [at |-> mark.at, clean |-> FALSE]
      BY <1>3 DEF Undecoded, Fail, IInv, TypeOK
  <2>2. TypeOK'
      BY <1>1, <2>1 DEF IInv, TypeOK, Errors
  <2>3. ContextAccounted' /\ StreamedIsRemembered' /\ TextIsWhole'
      BY <1>1, <2>1 DEF IInv, ContextAccounted, StreamedIsRemembered, TextIsWhole
  <2>4. error' \in Errors \ {"MemoryBudgetExceeded"} /\ manager' \in [n_ctx : Nat, n_used : Nat]
      BY <2>1 DEF Errors, IInv, TypeOK
  <2> QED BY <1>1, <2>1, <2>2, <2>3, <2>4, TalkKeeps DEF Loading
<1> QED BY <1>2, <1>3 DEF DecodeToken

LEMMA StutterKeeps == IInv /\ UNCHANGED vars => IInv'
BY DEF vars, engine, talk, IInv, TypeOK, Stages, Loading, HandlesOwned, ContextAccounted,
       StreamedIsRemembered, Guarded, Decision, file, wanted, TextIsWhole

THEOREM Inductive == Spec => []IInv
<1>1. IInv /\ [Next]_vars => IInv'
    BY ReleasesKeep, LoadModelKeeps, AdmitKeeps, CreateContextKeeps, ResetContextKeeps,
       GenerateKeeps, DecodePromptKeeps, SampleKeeps, DecodeTokenKeeps, StutterKeeps
    DEF Next, Continue
<1> QED BY Initially, <1>1, PTL DEF Spec

(***************************************************************************)
(* The types: a generation streams numbers of the vocabulary, and every    *)
(* call returns one of the documented errors.                              *)
(***************************************************************************)
THEOREM TypeCorrect == Spec => []TypeOK
BY Inductive, PTL DEF IInv

(***************************************************************************)
(* However many loads fail at whichever stage, nothing native leaks and    *)
(* nothing freed is used.                                                  *)
(***************************************************************************)
THEOREM NothingLeaks == Spec => []HandlesOwned
BY Inductive, PTL DEF IInv

(***************************************************************************)
(* The manager's count agrees with the cache of llama.cpp.                 *)
(***************************************************************************)
THEOREM ContextIsAccounted == Spec => []ContextAccounted
BY Inductive, PTL DEF IInv

(***************************************************************************)
(* The context holds what was streamed, and no more than max_tokens.       *)
(***************************************************************************)
THEOREM AnswerIsRemembered == Spec => []StreamedIsRemembered
BY Inductive, PTL DEF IInv

(***************************************************************************)
(* No buffer cuts a text, for every size of the buffers.                   *)
(***************************************************************************)
THEOREM NoTextIsCut == Spec => []TextIsWhole
BY Inductive, PTL DEF IInv

(***************************************************************************)
(* The engine holds a context only for a model that fits and refuses for   *)
(* memory only one that does not, in unbounded arithmetic.                 *)
(***************************************************************************)
THEOREM GuardHolds == Spec => []AdmissionIsExact
<1>1. IInv => AdmissionIsExact
  <2> SUFFICES ASSUME IInv PROVE AdmissionIsExact
      OBVIOUS
  <2>1. /\ file.hp \in Hyperparams /\ file.weights \in Words
        /\ wanted.context \in Nat \ {0} /\ wanted.budget \in 0..(MaxWord - 1)
        /\ wanted.reserve \in Words
      BY EngineAssumption DEF IInv, TypeOK, file, wanted
  <2>2. Decision <=> /\ Sane(file.hp) /\ wanted.context <= MaxCtx
                     /\ Fits(file.hp, file.weights, wanted.context, wanted.budget, wanted.reserve)
      BY <2>1, GuardIsExact DEF Decision
  <2>3. wanted.context <= MaxCtx <=> ~(wanted.context > MaxCtx)
      BY <2>1, WordAssumption
  <2>4. Guarded
      BY DEF IInv
  <2> HIDE DEF file, wanted
  <2> QED BY <2>2, <2>3, <2>4, Zenon DEF Guarded, AdmissionIsExact, AdmittedFits, RejectedDoesNotFit
<1> QED BY <1>1, Inductive, PTL
=============================================================================
