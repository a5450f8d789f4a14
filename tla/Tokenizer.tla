------------------------------- MODULE Tokenizer -------------------------------
(***************************************************************************)
(* src/tokenizer/tokenizer.cpp: texts in and out of llama.cpp through      *)
(* buffers that may be too small at the first call.  llama.cpp is external:*)
(* a character is a token of its own, a template puts the text between two *)
(* markers, of which the first is the one that add_special gives a text    *)
(* without template, and a token of the answer is its piece.               *)
(***************************************************************************)
EXTENDS Integers, Sequences

CONSTANTS
    TemplateBuffer, \* characters of the first buffer of apply_chat_template, 2048
    PieceBuffer,    \* of token_to_piece, 128
    Begin, Turn,    \* the markers
    Junk            \* what is in memory that nobody wrote

ASSUME TokenizerAssumption == {TemplateBuffer, PieceBuffer, Begin, Turn, Junk} \subseteq Nat

Template(text) == <<Begin>> \o text \o <<Turn>>
TokensOf(text, add_special) == IF add_special THEN <<Begin>> \o text ELSE text

\* Calls of llama.cpp: what they return, and what they wrote into a buffer of this size.
FitsOrNeeds(s, size) ==
    IF Len(s) <= size THEN [n |-> Len(s), wrote |-> s] ELSE [n |-> -Len(s), wrote |-> <<>>]
LlamaTokenize(text, size, add_special) == FitsOrNeeds(TokensOf(text, add_special), size)
LlamaTokenToPiece(token, size) == FitsOrNeeds(token, size)
LlamaApplyTemplate(text, size) ==
    LET s == Template(text)
    IN  [n |-> Len(s), wrote |-> IF Len(s) <= size THEN s ELSE SubSeq(s, 1, size)]

\* The first n cells of memory a call wrote to.
Cells(wrote, n) == [k \in 1..n |-> IF k <= Len(wrote) THEN wrote[k] ELSE Junk]
-----------------------------------------------------------------------------
\* Tokenizer::tokenize: the first call has no buffer and tells the size of the second's.
Tokenize(text, add_special) ==
    LET n_needed == -LlamaTokenize(text, 0, add_special).n
        second == LlamaTokenize(text, n_needed, add_special)
    IN  IF n_needed <= 0 THEN [ok |-> TRUE, tokens |-> <<>>]
        ELSE IF second.n < 0 THEN [ok |-> FALSE, tokens |-> <<>>]
        ELSE [ok |-> TRUE, tokens |-> Cells(second.wrote, second.n)]

\* Tokenizer::token_to_piece, as it is used for the answer.
TokenToPiece(token) ==
    LET first == LlamaTokenToPiece(token, PieceBuffer)
        second == LlamaTokenToPiece(token, -first.n)
    IN  IF first.n >= 0 THEN Cells(first.wrote, first.n)
        ELSE IF second.n < 0 THEN <<>>
        ELSE Cells(second.wrote, second.n)

\* Mutation: a template that does not fit the buffer is taken from it all the same.
ApplyChatTemplate_Once(text) ==
    LET first == LlamaApplyTemplate(text, TemplateBuffer) IN Cells(first.wrote, first.n)

\* Tokenizer::apply_chat_template of a model whose template can be applied.
ApplyChatTemplate(text) ==
    LET first == LlamaApplyTemplate(text, TemplateBuffer)
        last == IF first.n > TemplateBuffer THEN LlamaApplyTemplate(text, first.n) ELSE first
    IN  Cells(last.wrote, last.n)
=============================================================================
