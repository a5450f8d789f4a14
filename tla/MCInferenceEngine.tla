-------------------------- MODULE MCInferenceEngine --------------------------
(* Instances of InferenceEngine for TLC, in words of eight bits.           *)
EXTENDS InferenceEngine

Model(layers, embd, heads, kv, size) ==
    [found |-> TRUE, weights |-> size,
     hp |-> [n_layer |-> layers, n_embd |-> embd, n_head |-> heads, n_head_kv |-> kv]]

NoModel == [Model(0, 0, 0, 0, 0) EXCEPT !.found = FALSE]

Conf(context, budget, reserve, tokens) ==
    [context |-> context, budget |-> budget, reserve |-> reserve, max_tokens |-> tokens]

\* A few models for the engine's life: one that fits, one too big, garbage, none.
FewFiles == {NoModel, Model(1, 2, 1, 1, 5), Model(1, 4, 1, 1, 200), Model(1, 4, 0, 0, 5)}
FewConfigs == {Conf(3, 254, 20, 2), Conf(2, 254, 20, 3)}

\* llama.cpp may give one more than what it is asked for.
Roomy == [n \in 1..8 |-> {n, n + 1}]

(***************************************************************************)
(* The boundaries of the memory guard: a total that is the ceiling and one *)
(* byte more, a product and a sum that do not fit a word, a division that  *)
(* rounds, insane hyperparameters, no budget beyond the reserve.           *)
(***************************************************************************)
EdgeFiles == {Model(1, 5, 1, 1, 31), Model(3, 6, 1, 1, 0), Model(1, 6, 1, 1, 255),
              Model(1, 5, 2, 1, 31), Model(1, 5, 2, 4, 31)}
EdgeConfigs == {Conf(1, 94, 20, 1), Conf(1, 93, 20, 1), Conf(4, 254, 20, 1),
                Conf(8, 20, 20, 1)}

\* Texts and pieces around the ends of the buffers.
AllTexts == {<<>>, <<1>>, <<1, 2>>, <<1, 2, 3>>}
AllPieces == {<<1>>, <<1, 2, 3>>}

AllFiles == FewFiles \cup EdgeFiles
AllConfigs == FewConfigs \cup EdgeConfigs
=============================================================================
