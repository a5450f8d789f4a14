-------------------------- MODULE ModelImport_proofs --------------------------
(***************************************************************************)
(* For every set of files, all block, length and chunk sizes, and whatever *)
(* checksums and registries there are: an import reads its file as         *)
(* GgufReader does, its hash is the standard's, its verdict says so, and   *)
(* what it saves is what the next load reads, whole or without its end.    *)
(*                                                                         *)
(* The hasher streams a message when its state is the message's whole      *)
(* blocks and its buffer the rest (Streams).  Update keeps this whatever   *)
(* the lengths (UpdateStreams), also for the padding, and the first number *)
(* of zeros behind which the length fits is the standard's (FillsOnce), so *)
(* that finishing yields the digest (FinalizeIsDigest).                    *)
(*                                                                         *)
(* The loops over the registry's text are recursive functions over a       *)
(* sequence: one character more is one step more (Folded), and so every    *)
(* text has a property that one character more keeps (AppendInduction).  A *)
(* field is decoded to what was encoded (DecodesTheEncoded); a load that   *)
(* has reached the end of a line reads the next one, or what there is of   *)
(* it (Reached, NextLine), then an entry line by line (EntryIsRead), then  *)
(* the text entry by entry (SavedIsLoaded).                                *)
(***************************************************************************)
EXTENDS ModelImport, GgufReader_proofs

(* Division with remainder, also of a sum of whole blocks and some more.   *)
LEMMA DivMod ==
  ASSUME NEW n \in Nat, NEW d \in Nat \ {0}
  PROVE  /\ n \div d \in Nat /\ n % d \in 0..(d - 1)
         /\ n = (n \div d) * d + (n % d)
OBVIOUS

LEMMA DivUnique ==
  ASSUME NEW d \in Nat \ {0}, NEW q \in Nat, NEW r \in 0..(d - 1)
  PROVE  (q * d + r) \div d = q /\ (q * d + r) % d = r
OBVIOUS

LEMMA RegroupAny == \A S : \A x, y, z \in Seq(S) : (x \o y) \o z = x \o (y \o z)
BY ConcatAssociative

LEMMA Regroup == \A x, y, z \in Seq(Nat) : (x \o y) \o z = x \o (y \o z)
BY ConcatAssociative

LEMMA BlockSizeIsPositive == BlockSize \in Nat \ {0} /\ LengthSize \in 1..(BlockSize - 1)
BY HashAssumption

(* The cells of a sequence from m on up to n.                              *)
LEMMA Piece ==
  ASSUME NEW S, NEW s \in Seq(S), NEW m \in Nat, NEW n \in m .. Len(s)
  PROVE  /\ SubSeq(s, m + 1, n) \in Seq(S)
         /\ Len(SubSeq(s, m + 1, n)) = n - m
         /\ \A k \in 1..(n - m) : SubSeq(s, m + 1, n)[k] = s[m + k]
OBVIOUS

\* Where the block with this number ends.
End(b) == b * BlockSize

LEMMA Ends ==
  ASSUME NEW q \in Nat
  PROVE  End(q) \in Nat /\ End(0) = 0
BY BlockSizeIsPositive DEF End

LEMMA EndsAdd ==
  ASSUME NEW p \in Nat, NEW q \in Nat
  PROVE  End(p + q) = End(p) + End(q)
BY BlockSizeIsPositive DEF End

(* A block among the first q ends a block further than the one before it.  *)
LEMMA EndsOfBlock ==
  ASSUME NEW q \in Nat, NEW b \in 1..q
  PROVE  /\ b - 1 \in Nat /\ End(b - 1) \in Nat /\ End(b) \in Nat /\ End(q) \in Nat
         /\ End(b) = End(b - 1) + BlockSize /\ End(b) <= End(q)
<1>1. b - 1 \in Nat /\ q - b \in Nat /\ b \in Nat
  OBVIOUS
<1>2. End(1) = BlockSize
  BY BlockSizeIsPositive DEF End
<1>3. End((b - 1) + 1) = End(b - 1) + End(1)
  BY <1>1, EndsAdd
<1>4. End(b + (q - b)) = End(b) + End(q - b)
  BY <1>1, EndsAdd
<1>5. (b - 1) + 1 = b /\ b + (q - b) = q
  OBVIOUS
<1>6. End(b - 1) \in Nat /\ End(b) \in Nat /\ End(q - b) \in Nat /\ End(q) \in Nat
  BY <1>1, Ends
<1> QED BY <1>1, <1>2, <1>3, <1>4, <1>5, <1>6

\* There are q whole blocks in s, and r cells more.
Divided(s, q, r) == q \in Nat /\ r \in 0..(BlockSize - 1) /\ Len(s) = End(q) + r

LEMMA IsDivided ==
  ASSUME NEW S, NEW s \in Seq(S)
  PROVE  Divided(s, Len(s) \div BlockSize, Len(s) % BlockSize)
<1>1. Len(s) \in Nat
  OBVIOUS
<1> QED BY <1>1, DivMod, BlockSizeIsPositive DEF Divided, End

(* What the blocks and the rest are.                                       *)
LEMMA WholePart ==
  ASSUME NEW S, NEW s \in Seq(S), NEW q, NEW r, Divided(s, q, r)
  PROVE  Len(s) \div BlockSize = q
<1>1. Len(s) = q * BlockSize + r /\ q \in Nat /\ r \in 0..(BlockSize - 1)
  BY DEF Divided, End
<1>2. (q * BlockSize + r) \div BlockSize = q
  BY <1>1, DivUnique, BlockSizeIsPositive
<1> QED BY <1>1, <1>2, Zenon

LEMMA BlocksAre ==
  ASSUME NEW S, NEW s \in Seq(S), NEW q, NEW r, Divided(s, q, r)
  PROVE  /\ Blocks(s) \in Seq(Seq(S)) /\ Len(Blocks(s)) = q
         /\ \A b \in 1..q : Blocks(s)[b] = SubSeq(s, End(b - 1) + 1, End(b))
<1>1. Blocks(s) = [b \in 1..q |-> SubSeq(s, End(b - 1) + 1, End(b))]
  BY WholePart, Zenon DEF Blocks, End
<1>2. q \in Nat /\ r \in 0..(BlockSize - 1) /\ Len(s) = End(q) + r
  BY DEF Divided
<1>3. ASSUME NEW b \in 1..q PROVE SubSeq(s, End(b - 1) + 1, End(b)) \in Seq(S)
  <2> DEFINE m == End(b - 1)
             n == End(b)
  <2>1. m \in Nat /\ n \in Nat /\ End(q) \in Nat /\ n = m + BlockSize /\ n <= End(q)
    BY <1>2, EndsOfBlock
  <2> HIDE DEF m, n
  <2>2. n \in m .. Len(s)
    BY <1>2, <2>1, BlockSizeIsPositive
  <2>3. SubSeq(s, m + 1, n) \in Seq(S)
    BY <2>1, <2>2, Piece
  <2> QED BY <2>3 DEF m, n
<1>4. ASSUME NEW f, f = [b \in 1..q |-> SubSeq(s, End(b - 1) + 1, End(b))]
      PROVE  /\ f \in Seq(Seq(S)) /\ Len(f) = q
             /\ \A b \in 1..q : f[b] = SubSeq(s, End(b - 1) + 1, End(b))
  <2>1. \A b \in 1..q : f[b] = SubSeq(s, End(b - 1) + 1, End(b))
    BY <1>4, Zenon
  <2>2. \A b \in 1..q : f[b] \in Seq(S)
    BY <1>3, <2>1, Zenon
  <2>3. DOMAIN f = 1..q /\ f = [b \in 1..q |-> f[b]]
    BY <1>4, <2>1, Zenon
  <2>4. f \in [1..q -> Seq(S)]
    BY <2>2, <2>3, Zenon
  <2>5. f \in Seq(Seq(S)) /\ Len(f) = q
    BY <1>2, <2>4
  <2> QED BY <2>1, <2>5
<1> QED BY <1>1, <1>4, Zenon

LEMMA RestIs ==
  ASSUME NEW S, NEW s \in Seq(S), NEW q, NEW r, Divided(s, q, r)
  PROVE  /\ Rest(s) = SubSeq(s, End(q) + 1, Len(s))
         /\ Rest(s) \in Seq(S) /\ Len(Rest(s)) = r
<1>1. Rest(s) = SubSeq(s, End(q) + 1, Len(s))
  BY WholePart, Zenon DEF Rest, End
<1>2. End(q) \in Nat /\ Len(s) \in End(q) .. Len(s) /\ Len(s) - End(q) = r
  <2>1. End(q) \in Nat /\ Len(s) = End(q) + r /\ r \in Nat
    BY Ends, BlockSizeIsPositive DEF Divided
  <2> QED BY <2>1
<1> QED BY <1>1, <1>2, Piece

(* What lies behind s in s \o t is what is in t.                            *)
LEMMA SecondPart ==
  ASSUME NEW S, NEW s \in Seq(S), NEW t \in Seq(S)
  PROVE  \A m, n, k \in Nat : m < n /\ n <= Len(t) /\ k = Len(s) =>
            SubSeq(s \o t, k + m + 1, k + n) = SubSeq(t, m + 1, n)
<1> SUFFICES ASSUME NEW m \in Nat, NEW n \in Nat, NEW k \in Nat, m < n, n <= Len(t), k = Len(s)
             PROVE  SubSeq(s \o t, k + m + 1, k + n) = SubSeq(t, m + 1, n)
  OBVIOUS
<1>1. /\ k + m + 1 \in Len(s) + 1 .. Len(s) + Len(t)
      /\ k + n \in k + m + 1 .. Len(s) + Len(t)
      /\ (k + m + 1) - Len(s) = m + 1 /\ (k + n) - Len(s) = n
  OBVIOUS
<1>2. (k + n) \in Len(s) + 1 .. Len(s) + Len(t)
  OBVIOUS
<1> DEFINE x == SubSeq(s \o t, k + m + 1, k + n)
           y == SubSeq(t, m + 1, n)
<1>3. s \o t \in Seq(S) /\ Len(s \o t) = k + Len(t)
  OBVIOUS
<1>4. x \in Seq(S) /\ Len(x) = n - m /\ \A i \in 1..(n - m) : x[i] = (s \o t)[k + m + i]
  <2> DEFINE w == s \o t
             l == k + m
             h == k + n
  <2>1. w \in Seq(S) /\ l \in Nat /\ h \in l .. Len(w) /\ h - l = n - m
    BY <1>3
  <2> HIDE DEF w, l, h
  <2>2. SubSeq(w, l + 1, h) \in Seq(S) /\ Len(SubSeq(w, l + 1, h)) = h - l
        /\ \A i \in 1..(h - l) : SubSeq(w, l + 1, h)[i] = w[l + i]
    BY <2>1, Piece
  <2> QED BY <2>1, <2>2 DEF w, l, h
<1>5. y \in Seq(S) /\ Len(y) = n - m /\ \A i \in 1..(n - m) : y[i] = t[m + i]
  BY Piece
<1> HIDE DEF x, y
<1>6. ASSUME NEW i \in 1..(n - m) PROVE (s \o t)[k + m + i] = t[m + i]
  OBVIOUS
<1>7. x = y
  BY <1>4, <1>5, <1>6, SeqEqual
<1> QED BY <1>7 DEF x, y

(* The blocks of a sequence that begins with whole blocks.                 *)
LEMMA WholeBlocks ==
  ASSUME NEW S, NEW s \in Seq(S), NEW t \in Seq(S), NEW q, Divided(s, q, 0)
  PROVE  Blocks(s \o t) = Blocks(s) \o Blocks(t) /\ Rest(s \o t) = Rest(t)
<1> DEFINE p == Len(t) \div BlockSize
           r == Len(t) % BlockSize
           u == s \o t
<1>1. Divided(t, p, r)
  BY IsDivided
<1>2. /\ p \in Nat /\ q \in Nat /\ r \in 0..(BlockSize - 1) /\ Len(t) = End(p) + r
      /\ Len(s) = End(q)
  <2> HIDE DEF p, r
  <2> QED BY <1>1, Ends DEF Divided
<1>3. u \in Seq(S) /\ Len(u) = Len(s) + Len(t)
  OBVIOUS
<1> HIDE DEF p, r
<1>4. Divided(u, q + p, r)
  <2> HIDE DEF u
  <2>1. End(q + p) = End(q) + End(p) /\ End(q) \in Nat /\ End(p) \in Nat
    BY <1>2, Ends, EndsAdd
  <2> QED BY <1>2, <1>3, <2>1, BlockSizeIsPositive DEF Divided
<1>5. /\ Blocks(u) \in Seq(Seq(S)) /\ Len(Blocks(u)) = q + p
      /\ \A b \in 1..(q + p) : Blocks(u)[b] = SubSeq(u, End(b - 1) + 1, End(b))
  <2> HIDE DEF u
  <2> QED BY <1>3, <1>4, BlocksAre
<1>6. /\ Blocks(s) \in Seq(Seq(S)) /\ Len(Blocks(s)) = q
      /\ \A b \in 1..q : Blocks(s)[b] = SubSeq(s, End(b - 1) + 1, End(b))
  BY BlocksAre
<1>7. /\ Blocks(t) \in Seq(Seq(S)) /\ Len(Blocks(t)) = p
      /\ \A b \in 1..p : Blocks(t)[b] = SubSeq(t, End(b - 1) + 1, End(b))
  BY <1>1, BlocksAre
<1>8. ASSUME NEW b \in 1..q PROVE Blocks(u)[b] = Blocks(s)[b]
  <2>1. End(b - 1) + 1 \in 1..Len(s) /\ End(b) \in 1..Len(s) /\ b \in 1..(q + p)
    <3>1. /\ End(b - 1) \in Nat /\ End(b) \in Nat /\ End(q) \in Nat
          /\ End(b) = End(b - 1) + BlockSize /\ End(b) <= End(q)
      BY <1>2, EndsOfBlock
    <3> QED BY <1>2, <3>1, BlockSizeIsPositive
  <2>2. SubSeq(u, End(b - 1) + 1, End(b)) = SubSeq(s, End(b - 1) + 1, End(b))
    BY <2>1, SubSeqOfConcat1
  <2> QED BY <1>5, <1>6, <2>1, <2>2
<1>9. ASSUME NEW b \in 1..p PROVE Blocks(u)[q + b] = Blocks(t)[b]
  <2>1. /\ End(b - 1) \in Nat /\ End(b) \in Nat /\ End(q) \in Nat /\ End(p) \in Nat
        /\ End(b) = End(b - 1) + BlockSize /\ End(b) <= End(p)
    BY <1>2, EndsOfBlock, Ends
  <2>2. End((q + b) - 1) = End(q) + End(b - 1) /\ End(q + b) = End(q) + End(b)
    <3>1. (q + b) - 1 = q + (b - 1) /\ b - 1 \in Nat /\ b \in Nat
      BY <1>2
    <3> QED BY <1>2, <3>1, EndsAdd
  <2>3. SubSeq(u, End(q) + End(b - 1) + 1, End(q) + End(b)) = SubSeq(t, End(b - 1) + 1, End(b))
    <3>1. \A m, n, k \in Nat : m < n /\ n <= Len(t) /\ k = Len(s) =>
             SubSeq(s \o t, k + m + 1, k + n) = SubSeq(t, m + 1, n)
      BY SecondPart
    <3>2. End(b - 1) < End(b) /\ End(b) <= Len(t)
      BY <1>2, <2>1, BlockSizeIsPositive
    <3> QED BY <1>2, <2>1, <3>1, <3>2, Zenon
  <2>4. SubSeq(u, End((q + b) - 1) + 1, End(q + b)) = SubSeq(t, End(b - 1) + 1, End(b))
    BY <2>2, <2>3, Zenon
  <2>5. q + b \in 1..(q + p)
    BY <1>2
  <2> HIDE DEF u
  <2>6. Blocks(u)[q + b] = SubSeq(u, End((q + b) - 1) + 1, End(q + b))
    BY <1>5, <2>5, Zenon
  <2>7. Blocks(t)[b] = SubSeq(t, End(b - 1) + 1, End(b))
    BY <1>7
  <2> QED BY <2>4, <2>6, <2>7
<1>10. Blocks(u) = Blocks(s) \o Blocks(t)
  <2> HIDE DEF u
  <2>1. ASSUME NEW x \in Seq(Seq(S)), NEW y \in Seq(Seq(S)), NEW z \in Seq(Seq(S)),
               Len(x) = q + p, Len(y) = q, Len(z) = p,
               \A b \in 1..q : x[b] = y[b], \A b \in 1..p : x[q + b] = z[b]
        PROVE  x = y \o z
    <3>1. y \o z \in Seq(Seq(S)) /\ Len(y \o z) = q + p
      BY <2>1, ConcatProperties
    <3>2. ASSUME NEW b \in 1..(q + p) PROVE x[b] = (y \o z)[b]
      <4>1. (y \o z)[b] = IF b <= q THEN y[b] ELSE z[b - q]
        BY <2>1, ConcatProperties
      <4>2. b <= q => b \in 1..q
        BY <1>2
      <4>3. ~(b <= q) => b - q \in 1..p /\ q + (b - q) = b
        BY <1>2
      <4> QED BY <2>1, <4>1, <4>2, <4>3
    <3> QED BY <2>1, <3>1, <3>2, SeqEqual
  <2> QED BY <1>5, <1>6, <1>7, <1>8, <1>9, <2>1
<1>11. Rest(u) = Rest(t)
  <2>1. Rest(u) = SubSeq(u, End(q + p) + 1, Len(u)) /\ Rest(u) \in Seq(S) /\ Len(Rest(u)) = r
    <3> HIDE DEF u
    <3> QED BY <1>3, <1>4, RestIs
  <2>2. Rest(t) = SubSeq(t, End(p) + 1, Len(t)) /\ Rest(t) \in Seq(S) /\ Len(Rest(t)) = r
    BY <1>1, RestIs
  <2>3. CASE r = 0
    BY <2>1, <2>2, <2>3, EmptySeq
  <2>4. CASE r # 0
    <3>1. End(q + p) = End(q) + End(p) /\ End(q) \in Nat /\ End(p) \in Nat
      BY <1>2, Ends, EndsAdd
    <3>2. \A m, n, k \in Nat : m < n /\ n <= Len(t) /\ k = Len(s) =>
             SubSeq(s \o t, k + m + 1, k + n) = SubSeq(t, m + 1, n)
      BY SecondPart
    <3>3. End(p) < Len(t) /\ Len(t) \in Nat
      BY <1>2, <2>4, <3>1, BlockSizeIsPositive
    <3>4. SubSeq(u, End(q) + End(p) + 1, End(q) + Len(t)) = SubSeq(t, End(p) + 1, Len(t))
      <4>1. End(p) \in Nat /\ Len(t) \in Nat /\ End(q) \in Nat /\ Len(t) <= Len(t) /\ End(q) = Len(s)
        BY <1>2, <3>1, <3>3
      <4> QED BY <3>2, <3>3, <4>1, Zenon
    <3>5. Len(u) = End(q) + Len(t)
      BY <1>2, <1>3
    <3> HIDE DEF u
    <3> QED BY <2>1, <2>2, <3>1, <3>4, <3>5, Zenon
  <2> QED BY <2>3, <2>4
<1> QED BY <1>10, <1>11

(* Sequences in pieces.                                                    *)
LEMMA Halves ==
  ASSUME NEW S, NEW s \in Seq(S), NEW n \in 0..Len(s)
  PROVE  /\ s = SubSeq(s, 1, n) \o SubSeq(s, n + 1, Len(s))
         /\ SubSeq(s, 1, n) \in Seq(S) /\ Len(SubSeq(s, 1, n)) = n
         /\ SubSeq(s, n + 1, Len(s)) \in Seq(S) /\ Len(SubSeq(s, n + 1, Len(s))) = Len(s) - n
<1>1. n \in Nat /\ n <= Len(s)
  OBVIOUS
<1> DEFINE x == SubSeq(s, 1, n)
           y == SubSeq(s, n + 1, Len(s))
<1>2. x \in Seq(S) /\ Len(x) = n /\ \A k \in 1..n : x[k] = s[k]
  BY <1>1
<1>3. y \in Seq(S) /\ Len(y) = Len(s) - n /\ \A k \in 1..(Len(s) - n) : y[k] = s[n + k]
  BY <1>1, Piece
<1> HIDE DEF x, y
<1>4. ASSUME NEW k \in 1..Len(s) PROVE (x \o y)[k] = s[k]
  BY <1>1, <1>2, <1>3
<1>5. x \o y \in Seq(S) /\ Len(x \o y) = Len(s)
  BY <1>1, <1>2, <1>3
<1>6. x \o y = s
  BY <1>4, <1>5, SeqEqual
<1> QED BY <1>2, <1>3, <1>6 DEF x, y

(* A sequence shorter than a block has none.                               *)
LEMMA NoBlocks ==
  ASSUME NEW S, NEW s \in Seq(S), Len(s) < BlockSize
  PROVE  Blocks(s) = <<>> /\ Rest(s) = s
<1>1. Divided(s, 0, Len(s))
  BY Ends, BlockSizeIsPositive DEF Divided
<1>2. Blocks(s) \in Seq(Seq(S)) /\ Len(Blocks(s)) = 0
  BY <1>1, BlocksAre
<1>3. Rest(s) = SubSeq(s, 1, Len(s))
  <2>1. Rest(s) = SubSeq(s, End(0) + 1, Len(s)) /\ End(0) + 1 = 1
    BY <1>1, RestIs, Ends
  <2> QED BY <2>1, Zenon
<1>4. SubSeq(s, 1, Len(s)) = s
  OBVIOUS
<1> QED BY <1>2, <1>3, <1>4, EmptySeq, Zenon

(* Every sequence is its whole blocks and the rest.                        *)
LEMMA Splits ==
  ASSUME NEW S, NEW s \in Seq(S)
  PROVE  \E w \in Seq(S), q \in Nat : Divided(w, q, 0) /\ s = w \o Rest(s) /\ Blocks(w) = Blocks(s)
<1> DEFINE q == Len(s) \div BlockSize
           r == Len(s) % BlockSize
           e == End(q)
           w == SubSeq(s, 1, e)
<1>1. Divided(s, q, r)
  BY IsDivided
<1> HIDE DEF q, r
<1>2. q \in Nat /\ r \in 0..(BlockSize - 1) /\ Len(s) = e + r /\ e \in Nat
  BY <1>1, Ends DEF Divided
<1>3. Rest(s) = SubSeq(s, e + 1, Len(s)) /\ Rest(s) \in Seq(S) /\ Len(Rest(s)) = r
  BY <1>1, RestIs
<1> HIDE DEF e
<1>4. w \in Seq(S) /\ Len(w) = e
  BY <1>2, BlockSizeIsPositive
<1>5. s = w \o SubSeq(s, e + 1, Len(s))
  BY <1>2, BlockSizeIsPositive
<1>6. s = w \o Rest(s)
  BY <1>3, <1>5, Zenon
<1> HIDE DEF w
<1>7. Divided(w, q, 0)
  BY <1>2, <1>4, BlockSizeIsPositive DEF Divided, e
<1>8. Blocks(w \o Rest(s)) = Blocks(w) \o Blocks(Rest(s))
  BY <1>3, <1>4, <1>7, WholeBlocks
<1>9. Blocks(Rest(s)) = <<>>
  <2>1. Len(Rest(s)) < BlockSize
    BY <1>2, <1>3, BlockSizeIsPositive
  <2> QED BY <1>3, <2>1, NoBlocks
<1>10. Blocks(w) \in Seq(Seq(S))
  BY <1>4, <1>7, BlocksAre
<1>11. Blocks(w) \o <<>> = Blocks(w)
  BY <1>10
<1>12. Blocks(s) = Blocks(w)
  BY <1>6, <1>8, <1>9, <1>11, Zenon
<1> QED BY <1>2, <1>4, <1>6, <1>7, <1>12, Zenon

(* What follows m is cut where the blocks of m end.                        *)
LEMMA BlocksOfConcat ==
  ASSUME NEW S, NEW m \in Seq(S), NEW t \in Seq(S)
  PROVE  Blocks(m \o t) = Blocks(m) \o Blocks(Rest(m) \o t) /\ Rest(m \o t) = Rest(Rest(m) \o t)
<1>1. PICK w \in Seq(S), q \in Nat :
         Divided(w, q, 0) /\ m = w \o Rest(m) /\ Blocks(w) = Blocks(m)
  BY Splits
<1>2. Rest(m) \in Seq(S)
  BY IsDivided, RestIs
<1> DEFINE u == Rest(m) \o t
<1>3. u \in Seq(S)
  BY <1>2
<1>4. m \o t = w \o u
  <2>1. w \o (Rest(m) \o t) = (w \o Rest(m)) \o t
    BY <1>2, ConcatAssociative
  <2> QED BY <1>1, <2>1
<1>5. Blocks(w \o u) = Blocks(w) \o Blocks(u) /\ Rest(w \o u) = Rest(u)
  BY <1>1, <1>3, WholeBlocks
<1> QED BY <1>1, <1>4, <1>5, Zenon

\* The hasher has taken the bytes of m.
Streams(h, m) == h.state = Blocks(m) /\ h.buffer = Rest(m)

(* However the bytes come, update has taken them all.                      *)
LEMMA UpdateStreams ==
  ASSUME NEW S, NEW m \in Seq(S), NEW data \in Seq(S), NEW h, Streams(h, m)
  PROVE  /\ Streams(Update(h, data), m \o data)
         /\ Update(h, data).bits = h.bits + Byte * Len(data)
<1> DEFINE take == IF h.buffer = <<>> THEN 0 ELSE Lesser(Len(data), BlockSize - Len(h.buffer))
           first == SubSeq(data, 1, take)
           top  == h.buffer \o first
           more == SubSeq(data, take + 1, Len(data))
           u == Update(h, data)
           all == Rest(m) \o data
<1>1. /\ u.state = h.state \o Blocks(top) \o Blocks(more)
      /\ u.buffer = IF Rest(more) = <<>> THEN Rest(top) ELSE Rest(more)
      /\ u.bits = h.bits + Byte * Len(data)
  BY Zenon DEF Update
<1>2. h.state = Blocks(m) /\ h.buffer = Rest(m)
  BY DEF Streams
<1> HIDE DEF u
<1>3. Rest(m) \in Seq(S) /\ Len(Rest(m)) \in 0..(BlockSize - 1)
  <2>1. Divided(m, Len(m) \div BlockSize, Len(m) % BlockSize)
    BY IsDivided
  <2> QED BY <2>1, RestIs DEF Divided
<1>4. /\ take \in 0..Len(data) /\ Len(data) \in Nat
      /\ \/ Len(h.buffer) = 0 /\ take = 0
         \/ Len(h.buffer) + take = BlockSize
         \/ Len(h.buffer) + take < BlockSize /\ take = Len(data)
  BY <1>2, <1>3, BlockSizeIsPositive DEF Lesser
<1> HIDE DEF take
<1>5. first \in Seq(S) /\ Len(first) = take /\ more \in Seq(S) /\ Len(more) = Len(data) - take
  BY <1>4
<1>6. data = first \o more
  BY <1>4, Halves
<1> HIDE DEF first, more
<1>7. top \in Seq(S) /\ Len(top) = Len(h.buffer) + take /\ all = top \o more /\ all \in Seq(S)
  <2>1. h.buffer \in Seq(S)
    BY <1>2, <1>3
  <2>2. top \in Seq(S) /\ Len(top) = Len(h.buffer) + take
    BY <1>5, <2>1, ConcatProperties
  <2>3. h.buffer \o (first \o more) = (h.buffer \o first) \o more
    <3>1. \A x, y, z \in Seq(S) : (x \o y) \o z = x \o (y \o z)
      BY RegroupAny
    <3> QED BY <1>5, <2>1, <3>1, Zenon
  <2>4. all = top \o more
    BY <1>2, <1>6, <2>3, Zenon
  <2>5. all \in Seq(S)
    BY <1>3
  <2> QED BY <2>2, <2>4, <2>5
<1>8. Blocks(m) \in Seq(Seq(S)) /\ Blocks(top) \in Seq(Seq(S)) /\ Blocks(more) \in Seq(Seq(S))
  <2> HIDE DEF top
  <2> QED BY <1>5, <1>7, IsDivided, BlocksAre
<1> HIDE DEF top, all
<1>9. ASSUME Len(top) = 0 \/ Len(top) = BlockSize
      PROVE  u.state = Blocks(m) \o Blocks(all) /\ u.buffer = Rest(all)
  <2>1. PICK q \in {0, 1} : Divided(top, q, 0)
    <3>1. End(0) = 0 /\ End(1) = BlockSize
      BY BlockSizeIsPositive DEF End
    <3>2. 0 \in 0..(BlockSize - 1) /\ Len(top) = Len(top) + 0
      BY <1>7, BlockSizeIsPositive
    <3>3. 0 \in Nat /\ 1 \in Nat
      OBVIOUS
    <3>4. Len(top) = 0 => Divided(top, 0, 0)
      BY <3>1, <3>2, <3>3 DEF Divided
    <3>5. Len(top) = BlockSize => Divided(top, 1, 0)
      BY <3>1, <3>2, <3>3 DEF Divided
    <3> QED BY <1>9, <3>4, <3>5
  <2>2. Blocks(all) = Blocks(top) \o Blocks(more) /\ Rest(all) = Rest(more)
    BY <1>5, <1>7, <2>1, WholeBlocks
  <2>3. Rest(top) = <<>>
    BY <1>7, <2>1, RestIs, EmptySeq
  <2>4. u.buffer = Rest(all)
    BY <1>1, <2>2, <2>3
  <2>5. u.state = Blocks(m) \o Blocks(all)
    <3>1. (Blocks(m) \o Blocks(top)) \o Blocks(more) = Blocks(m) \o (Blocks(top) \o Blocks(more))
      BY <1>8, ConcatAssociative
    <3>2. u.state = (h.state \o Blocks(top)) \o Blocks(more)
      BY <1>1, Zenon
    <3> QED BY <1>2, <2>2, <3>1, <3>2
  <2> QED BY <2>4, <2>5
<1>10. ASSUME Len(top) < BlockSize, take = Len(data)
       PROVE  u.state = Blocks(m) \o Blocks(all) /\ u.buffer = Rest(all)
  <2>1. more = <<>>
    BY <1>4, <1>5, <1>10, EmptySeq
  <2>2. Blocks(more) = <<>> /\ Rest(more) = <<>>
    <3>1. Len(more) < BlockSize
      BY <2>1, BlockSizeIsPositive
    <3> QED BY <1>5, <2>1, <3>1, NoBlocks
  <2>3. all = top
    BY <1>7, <2>1
  <2>4. Blocks(top) = <<>>
    BY <1>7, <1>10, NoBlocks
  <2>5. u.buffer = Rest(all)
    BY <1>1, <2>2, <2>3
  <2>6. u.state = Blocks(m) \o Blocks(all)
    <3>1. (Blocks(m) \o <<>>) \o <<>> = Blocks(m) \o <<>>
      BY <1>8
    <3>2. u.state = (h.state \o Blocks(top)) \o Blocks(more)
      BY <1>1, Zenon
    <3> QED BY <1>2, <2>2, <2>3, <2>4, <3>1, <3>2
  <2> QED BY <2>5, <2>6
<1>11. u.state = Blocks(m) \o Blocks(all) /\ u.buffer = Rest(all)
  <2>1. Len(top) = 0 \/ Len(top) = BlockSize \/ (Len(top) < BlockSize /\ take = Len(data))
    <3>1. Len(h.buffer) \in Nat /\ take \in Nat
      BY <1>2, <1>3, <1>4
    <3> QED BY <1>4, <1>7, <3>1
  <2> QED BY <1>9, <1>10, <2>1
<1>12. Blocks(m \o data) = Blocks(m) \o Blocks(all) /\ Rest(m \o data) = Rest(all)
  BY BlocksOfConcat DEF all
<1> QED BY <1>1, <1>11, <1>12, Zenon DEF Streams, u

LEMMA Concats ==
  \A x, y \in Seq(Nat) : x \o y \in Seq(Nat) /\ Len(x \o y) = Len(x) + Len(y)
BY ConcatProperties

\* So many zero bytes.
Zeros(n) == [k \in 1..n |-> 0]

LEMMA ZerosAre ==
  ASSUME NEW n \in Nat
  PROVE  /\ Zeros(n) \in Seq(Nat) /\ Len(Zeros(n)) = n
         /\ Zeros(0) = <<>> /\ Zeros(n + 1) = Zeros(n) \o <<0>>
<1>1. \A k \in Nat : Zeros(k) \in Seq(Nat) /\ Len(Zeros(k)) = k /\ \A j \in 1..k : Zeros(k)[j] = 0
  BY DEF Zeros
<1>2. Zeros(0) = <<>>
  BY <1>1, EmptySeq
<1> DEFINE x == Zeros(n)
           y == Zeros(n + 1)
<1>3. /\ x \in Seq(Nat) /\ Len(x) = n /\ \A j \in 1..n : x[j] = 0
      /\ y \in Seq(Nat) /\ Len(y) = n + 1 /\ \A j \in 1..(n + 1) : y[j] = 0
  BY <1>1
<1> HIDE DEF x, y
<1>4. x \o <<0>> \in Seq(Nat) /\ Len(x \o <<0>>) = n + 1 /\ \A j \in 1..(n + 1) : (x \o <<0>>)[j] = 0
  BY <1>3
<1>5. y = x \o <<0>>
  BY <1>3, <1>4, SeqEqual
<1> QED BY <1>1, <1>2, <1>5 DEF x, y

(* How long the rest is.                                                   *)
LEMMA RestLength ==
  ASSUME NEW S, NEW s \in Seq(S)
  PROVE  Rest(s) \in Seq(S) /\ Len(Rest(s)) = Len(s) % BlockSize
BY IsDivided, RestIs

(* A number is so much short of a multiple of d exactly when adding it     *)
(* gives one.                                                              *)
LEMMA ShortOf ==
  ASSUME NEW d \in Nat \ {0}, NEW l \in 1..(d - 1), NEW x \in Nat
  PROVE  x % d = d - l <=> (x + l) % d = 0
<1> DEFINE q == x \div d
           r == x % d
<1>1. q \in Nat /\ r \in 0..(d - 1) /\ x = q * d + r
  BY DivMod
<1> HIDE DEF q, r
<1>2. CASE r + l < d
  <2>1. x + l = q * d + (r + l) /\ r + l \in 0..(d - 1)
    BY <1>1, <1>2
  <2>2. (q * d + (r + l)) % d = r + l
    BY <1>1, <2>1, DivUnique
  <2>3. (x + l) % d = r + l
    BY <2>1, <2>2, Zenon
  <2>4. r # d - l /\ r + l # 0
    BY <1>1, <1>2
  <2> QED BY <2>3, <2>4 DEF r
<1>3. CASE r + l >= d
  <2>1. q + 1 \in Nat /\ (r + l) - d \in 0..(d - 1)
    BY <1>1, <1>3
  <2>2. x + l = (q + 1) * d + ((r + l) - d)
    BY <1>1, <1>3
  <2>3. ((q + 1) * d + ((r + l) - d)) % d = (r + l) - d
    BY <2>1, DivUnique
  <2>4. (x + l) % d = (r + l) - d
    BY <2>2, <2>3, Zenon
  <2>5. (r + l) - d = 0 <=> r = d - l
    BY <1>1
  <2> QED BY <2>4, <2>5 DEF r
<1> QED BY <1>1, <1>2, <1>3

(* Exactly one number of zeros below a block's size fills the last block.  *)
LEMMA FillsOnce ==
  ASSUME NEW s \in Seq(Nat)
  PROVE  \E z \in 0..(BlockSize - 1) :
            Fills(s, z) /\ \A y \in 0..(BlockSize - 1) : Fills(s, y) => y = z
<1> DEFINE d == BlockSize
           c == Len(s) + 1 + LengthSize
           q == c \div d
           r == c % d
           z == IF r = 0 THEN 0 ELSE d - r
<1>1. d \in Nat \ {0} /\ c \in Nat
  BY BlockSizeIsPositive
<1>2. \A y \in Nat : Fills(s, y) <=> (c + y) % d = 0
  <2> SUFFICES ASSUME NEW y \in Nat PROVE Fills(s, y) <=> (c + y) % d = 0
    OBVIOUS
  <2>1. Len(s) + 1 + y + LengthSize = c + y
    BY BlockSizeIsPositive
  <2> HIDE DEF c
  <2> QED BY <2>1, Zenon DEF Fills
<1> HIDE DEF c, d
<1>3. q \in Nat /\ r \in 0..(d - 1) /\ c = q * d + r
  BY <1>1, DivMod
<1> HIDE DEF q, r
<1>4. z \in 0..(d - 1)
  BY <1>1, <1>3
<1>5. ASSUME NEW y \in 0..(d - 1) PROVE (c + y) % d = 0 <=> y = z
  <2>1. CASE r + y < d
    <3>1. c + y = q * d + (r + y) /\ r + y \in 0..(d - 1)
      BY <1>1, <1>3, <2>1
    <3>2. (q * d + (r + y)) % d = r + y
      BY <1>1, <1>3, <3>1, DivUnique
    <3>3. (c + y) % d = r + y
      BY <3>1, <3>2, Zenon
    <3>4. r + y = 0 <=> y = z
      BY <1>1, <1>3, <2>1
    <3> QED BY <3>3, <3>4
  <2>2. CASE r + y >= d
    <3>1. q + 1 \in Nat /\ (r + y) - d \in 0..(d - 1)
      BY <1>1, <1>3, <2>2
    <3>2. c + y = (q + 1) * d + ((r + y) - d)
      BY <1>1, <1>3, <2>2
    <3>3. ((q + 1) * d + ((r + y) - d)) % d = (r + y) - d
      BY <1>1, <3>1, DivUnique
    <3>4. (c + y) % d = (r + y) - d
      BY <3>2, <3>3, Zenon
    <3>5. (r + y) - d = 0 <=> y = z
      BY <1>1, <1>3, <2>2
    <3> QED BY <3>4, <3>5
  <2> QED BY <1>1, <1>3, <2>1, <2>2
<1>6. \A y \in 0..(d - 1) : y \in Nat
  BY <1>1
<1> HIDE DEF z
<1>7. Fills(s, z) /\ \A y \in 0..(d - 1) : Fills(s, y) => y = z
  BY <1>2, <1>4, <1>5, <1>6, Zenon
<1> QED BY <1>4, <1>7 DEF d

(* The zeros one by one are the zeros at once.                             *)
LEMMA FillsWithZeros ==
  ASSUME NEW m \in Seq(Nat), NEW h, Streams(h, m \o <<Pad>>),
         h = [state |-> h.state, buffer |-> h.buffer, bits |-> h.bits], h.bits \in Nat,
         NEW z \in 0..(BlockSize - 1), Fills(m, z),
         \A y \in 0..(BlockSize - 1) : Fills(m, y) => y = z
  PROVE  Streams(ZeroFill(h), (m \o <<Pad>>) \o Zeros(z))
<1> DEFINE p == m \o <<Pad>>
           At(n) == [state |-> Blocks(p \o Zeros(n)), buffer |-> Rest(p \o Zeros(n)),
                     bits |-> h.bits + Byte * n]
           Filled(f, n) == IF n = 0 THEN h ELSE Update(f[n - 1], <<0>>)
           After == CHOOSE f : f = [n \in 0..BlockSize |-> Filled(f, n)]
           F == [n \in 0..BlockSize |-> At(n)]
           Fits(n) == Len(After[n].buffer) = BlockSize - LengthSize
<1>1. p \in Seq(Nat) /\ Len(p) = Len(m) + 1 /\ BlockSize \in Nat
  BY BlockSizeIsPositive DEF Pad
<1>2. h.state = Blocks(p) /\ h.buffer = Rest(p)
  BY DEF Streams
<1> HIDE DEF p
<1>3. At(0) = h
  <2>1. Zeros(0) = <<>>
    BY ZerosAre
  <2>2. p \o <<>> = p /\ h.bits + Byte * 0 = h.bits
    BY <1>1 DEF Byte
  <2> QED BY <1>2, <2>1, <2>2, Zenon
<1>4. ASSUME NEW n \in Nat PROVE Update(At(n), <<0>>) = At(n + 1)
  <2> DEFINE w == p \o Zeros(n)
             u == Update(At(n), <<0>>)
  <2>1. w \in Seq(Nat) /\ <<0>> \in Seq(Nat) /\ Len(<<0>>) = 1
    BY <1>1, ZerosAre
  <2>2. w \o <<0>> = p \o Zeros(n + 1)
    <3>1. (p \o Zeros(n)) \o <<0>> = p \o (Zeros(n) \o <<0>>)
      BY <1>1, <2>1, ZerosAre, Regroup, Zenon
    <3> QED BY <3>1, ZerosAre, Zenon
  <2>3. Streams(At(n), w)
    BY DEF Streams
  <2> HIDE DEF w
  <2>4. Streams(u, w \o <<0>>) /\ u.bits = At(n).bits + Byte * Len(<<0>>)
    <3> HIDE DEF At
    <3> QED BY <2>1, <2>3, UpdateStreams
  <2>5. u = [state |-> u.state, buffer |-> u.buffer, bits |-> u.bits]
    BY DEF Update
  <2>6. u.bits = h.bits + Byte * (n + 1)
    BY <2>1, <2>4 DEF Byte
  <2>7. u.state = Blocks(p \o Zeros(n + 1)) /\ u.buffer = Rest(p \o Zeros(n + 1))
    BY <2>2, <2>4 DEF Streams
  <2> HIDE DEF u
  <2>8. u = At(n + 1)
    BY <2>5, <2>6, <2>7, Zenon
  <2> QED BY <2>8 DEF u
<1> HIDE DEF At
<1>5. F = [n \in 0..BlockSize |-> Filled(F, n)]
  <2>1. ASSUME NEW n \in 0..BlockSize PROVE At(n) = Filled(F, n)
    <3>1. CASE n = 0
      BY <1>3, <3>1
    <3>2. CASE n # 0
      <4>1. n - 1 \in Nat /\ n - 1 \in 0..BlockSize /\ (n - 1) + 1 = n
        BY <1>1, <3>2
      <4>2. F[n - 1] = At(n - 1)
        BY <4>1
      <4>3. Update(At(n - 1), <<0>>) = At(n)
        BY <1>4, <4>1
      <4> QED BY <3>2, <4>2, <4>3
    <3> QED BY <3>1, <3>2
  <2> QED BY <2>1, Zenon
<1>6. After = [n \in 0..BlockSize |-> Filled(After, n)]
  BY <1>5, Zenon
<1> HIDE DEF After, F
<1>7. \A n \in 0..BlockSize : After[n] = Filled(After, n)
  BY <1>6, Zenon
<1> HIDE DEF Next
<1>8. \A n \in 0..BlockSize : After[n] = At(n)
  <2> DEFINE T == {n \in Nat : n <= BlockSize => After[n] = At(n)}
  <2>1. 0 \in T
    <3>1. 0 \in 0..BlockSize /\ Filled(After, 0) = h
      BY <1>1 DEF Next
    <3> QED BY <1>3, <1>7, <3>1
  <2>2. ASSUME NEW n \in T PROVE n + 1 \in T
    <3> SUFFICES ASSUME n + 1 <= BlockSize PROVE After[n + 1] = At(n + 1)
      OBVIOUS
    <3>1. n \in Nat /\ n <= BlockSize /\ n + 1 \in 0..BlockSize /\ (n + 1) - 1 = n /\ n + 1 # 0
      BY <1>1
    <3>2. Filled(After, n + 1) = Update(After[n], <<0>>)
      BY <3>1, Zenon DEF Next
    <3>3. After[n] = At(n)
      BY <3>1
    <3> QED BY <1>4, <1>7, <3>1, <3>2, <3>3
  <2>3. T = Nat
    <3> HIDE DEF T
    <3>1. T \in SUBSET Nat
      BY DEF T
    <3> QED BY <2>1, <2>2, <3>1, SetInduction
  <2> QED BY <1>1, <2>3
<1>9. ASSUME NEW n \in 0..BlockSize PROVE Fits(n) <=> Fills(m, n)
  <2> DEFINE w == p \o Zeros(n)
  <2>1. w \in Seq(Nat) /\ Len(w) = Len(m) + 1 + n /\ n \in Nat
    <3>1. n \in Nat /\ Zeros(n) \in Seq(Nat) /\ Len(Zeros(n)) = n
      BY <1>1, ZerosAre
    <3> QED BY <1>1, <3>1, Concats
  <2>2. After[n].buffer = Rest(w)
    <3>1. After[n] = At(n)
      BY <1>8
    <3> QED BY <3>1 DEF At
  <2> HIDE DEF w
  <2>3. Len(After[n].buffer) = Len(w) % BlockSize
    BY <2>1, <2>2, RestLength
  <2>4. Len(w) % BlockSize = BlockSize - LengthSize <=> (Len(w) + LengthSize) % BlockSize = 0
    <3>1. Len(w) \in Nat
      BY <2>1
    <3> QED BY <3>1, BlockSizeIsPositive, ShortOf
  <2>5. (Len(w) + LengthSize) % BlockSize = 0 <=> Fills(m, n)
    BY <2>1, Zenon DEF Fills
  <2> QED BY <2>3, <2>4, <2>5
<1> DEFINE first == CHOOSE n \in 0..BlockSize : Fits(n) /\ \A k \in 0..(n - 1) : ~Fits(k)
<1>10. ZeroFill(h) = After[first]
  BY Zenon DEF ZeroFill, After, Next
<1> HIDE DEF Fits
<1>11. Fits(z) /\ z \in 0..BlockSize /\ \A k \in 0..(z - 1) : ~Fits(k)
  <2>1. z \in 0..BlockSize /\ \A k \in 0..(z - 1) : k \in 0..(BlockSize - 1) /\ k # z /\ k \in 0..BlockSize
    BY <1>1
  <2>2. \A k \in 0..(z - 1) : ~Fills(m, k)
    BY <2>1, Zenon
  <2> QED BY <1>9, <2>1, <2>2, Zenon
<1>12. first \in 0..BlockSize /\ Fits(first) /\ \A k \in 0..(first - 1) : ~Fits(k)
  BY <1>11
<1> HIDE DEF first
<1>13. first = z
  <2>1. z \notin 0..(first - 1) /\ first \notin 0..(z - 1)
    BY <1>11, <1>12
  <2> QED BY <1>1, <1>11, <1>12, <2>1
<1>14. ZeroFill(h) = At(z)
  BY <1>8, <1>10, <1>11, <1>13
<1> QED BY <1>14 DEF At, Streams, p

(* A sequence of one block.                                                *)
LEMMA OneBlock ==
  ASSUME NEW S, NEW s \in Seq(S), Len(s) = BlockSize
  PROVE  Blocks(s) = <<s>>
<1>1. End(0) = 0 /\ End(1) = BlockSize /\ 0 \in 0..(BlockSize - 1) /\ BlockSize \in Nat
  BY BlockSizeIsPositive DEF End
<1>2. Divided(s, 1, 0)
  BY <1>1 DEF Divided
<1>3. /\ Blocks(s) \in Seq(Seq(S)) /\ Len(Blocks(s)) = 1
      /\ \A b \in 1..1 : Blocks(s)[b] = SubSeq(s, End(b - 1) + 1, End(b))
  BY <1>2, BlocksAre
<1>4. Blocks(s)[1] = SubSeq(s, End(1 - 1) + 1, End(1))
  BY <1>3
<1>5. 1 - 1 = 0 /\ End(0) + 1 = 1 /\ SubSeq(s, 1, Len(s)) = s
  BY <1>1
<1>6. Blocks(s)[1] = s
  BY <1>1, <1>4, <1>5
<1> HIDE DEF Blocks
<1> QED BY <1>3, <1>6

(***************************************************************************)
(* The padding one byte at a time, with the length behind it, gives the    *)
(* digest of the whole message.                                            *)
(***************************************************************************)
LEMMA FinalizeIsDigest ==
  ASSUME NEW m \in Seq(Nat), NEW h, Streams(h, m), h.bits = Byte * Len(m)
  PROVE  Finalize(h) = Digest(m)
<1> DEFINE p == m \o <<Pad>>
           g == Update(h, <<Pad>>)
           length == LengthField(h.bits)
<1>1. <<Pad>> \in Seq(Nat) /\ Len(<<Pad>>) = 1 /\ p \in Seq(Nat) /\ Len(p) = Len(m) + 1
  BY DEF Pad
<1>2. h.bits \in Nat
  BY DEF Byte
<1>3. Streams(g, p) /\ g.bits \in Nat
  <2>1. Streams(g, p) /\ g.bits = h.bits + Byte * Len(<<Pad>>)
    BY <1>1, UpdateStreams
  <2> HIDE DEF g
  <2> QED BY <1>1, <1>2, <2>1 DEF Byte
<1>4. g = [state |-> g.state, buffer |-> g.buffer, bits |-> g.bits]
  BY DEF Update
<1>5. PICK z \in 0..(BlockSize - 1) :
         Fills(m, z) /\ \A y \in 0..(BlockSize - 1) : Fills(m, y) => y = z
  BY FillsOnce
<1> DEFINE w == p \o Zeros(z)
           filled == ZeroFill(g)
<1>6. Streams(filled, w)
  <2> HIDE DEF g
  <2> QED BY <1>3, <1>4, <1>5, FillsWithZeros
<1>7. z \in Nat /\ Zeros(z) \in Seq(Nat) /\ Len(Zeros(z)) = z /\ w \in Seq(Nat) /\ Len(w) = Len(m) + 1 + z
  <2>1. z \in Nat
    BY <1>5, BlockSizeIsPositive
  <2>2. Zeros(z) \in Seq(Nat) /\ Len(Zeros(z)) = z
    BY <2>1, ZerosAre
  <2> HIDE DEF p
  <2> QED BY <1>1, <2>1, <2>2, Concats
<1>8. length \in Seq(Nat) /\ Len(length) = LengthSize
  BY <1>2, BlockSizeIsPositive DEF LengthField
<1>9. Padding(m) = (<<Pad>> \o Zeros(z)) \o length
  <2>1. (CHOOSE y \in 0..(BlockSize - 1) : Fills(m, y)) = z
    BY <1>5, Zenon
  <2> QED BY <2>1, Zenon DEF Padding, Zeros
<1> HIDE DEF length, p
<1>10. m \o Padding(m) = w \o length
  <2>1. m \o ((<<Pad>> \o Zeros(z)) \o length) = (m \o (<<Pad>> \o Zeros(z))) \o length
    <3>1. <<Pad>> \o Zeros(z) \in Seq(Nat)
      BY <1>1, <1>7, Concats
    <3> QED BY <1>8, <3>1, Regroup, Zenon
  <2>2. m \o (<<Pad>> \o Zeros(z)) = (m \o <<Pad>>) \o Zeros(z)
    BY <1>1, <1>7, Regroup, Zenon
  <2> QED BY <1>9, <2>1, <2>2, Zenon DEF p
<1> HIDE DEF w
<1> DEFINE last == Rest(w) \o length
<1>11. Blocks(w \o length) = Blocks(w) \o Blocks(last)
  BY <1>7, <1>8, BlocksOfConcat
<1>12. Rest(w) \in Seq(Nat) /\ Len(Rest(w)) = BlockSize - LengthSize
  <2>1. Len(w) % BlockSize = BlockSize - LengthSize <=> (Len(w) + LengthSize) % BlockSize = 0
    <3>1. Len(w) \in Nat
      BY <1>7
    <3> QED BY <3>1, BlockSizeIsPositive, ShortOf
  <2>2. (Len(w) + LengthSize) % BlockSize = 0
    BY <1>5, <1>7, Zenon DEF Fills
  <2> QED BY <1>7, <2>1, <2>2, RestLength
<1>13. last \in Seq(Nat) /\ Len(last) = BlockSize
  <2>1. last \in Seq(Nat) /\ Len(last) = Len(Rest(w)) + Len(length)
    BY <1>8, <1>12, Concats, Zenon
  <2> HIDE DEF last
  <2> QED BY <1>8, <1>12, <2>1, BlockSizeIsPositive
<1> HIDE DEF last
<1>14. Blocks(last) = <<last>>
  BY <1>13, OneBlock
<1>15. Blocks(w) \in Seq(Seq(Nat)) /\ last \in Seq(Nat)
  BY <1>7, <1>13, IsDivided, BlocksAre
<1>16. Append(Blocks(w), last) = Blocks(w) \o <<last>>
  BY <1>15
<1>17. Finalize(h) = Append(filled.state, filled.buffer \o length)
  BY Zenon DEF Finalize, length
<1>18. filled.state = Blocks(w) /\ filled.buffer = Rest(w)
  BY <1>6 DEF Streams
<1> HIDE DEF filled
<1>19. Finalize(h) = Blocks(w) \o Blocks(last)
  BY <1>14, <1>16, <1>17, <1>18, Zenon DEF last
<1> QED BY <1>10, <1>11, <1>19, Zenon DEF Digest
-----------------------------------------------------------------------------
(***************************************************************************)
(* Importing reads the file as GgufReader does: what is proved about its   *)
(* readings holds of the imports.                                          *)
(***************************************************************************)
THEOREM ImportReads == ImportSpec => Spec
<1>1. ImportInit => Init
  BY DEF ImportInit
<1>2. [ImportNext]_importVars => [Next]_vars
  BY DEF ImportNext, importVars, Validating, Validated, ReadChunk, ReadFails, Compare, Import, PowerLoss
<1> QED BY <1>1, <1>2, PTL DEF ImportSpec, Spec

\* What is hashed is a prefix of the file.
Hashing ==
    /\ hashed \in 0..Len(file)
    /\ Streams(hasher, SubSeq(file, 1, hashed)) /\ hasher.bits = Byte * hashed

\* What each stage leaves to the next.
Staged ==
    /\ stage \in {"validate", "hash", "compare", "import", "returned", "cut"}
    /\ stage # "validate" => pc = "done"
    /\ stage = "validate" => verdict = "NotYetVerified"
    /\ stage = "hash" => status = "Valid"
    /\ stage \in {"hash", "compare"} => verdict \in Statuses
    /\ verdict \in Statuses \cup {"NotYetVerified", "PathUnreadable", "ChecksumMismatch", "Verified"}
    /\ stage \in {"validate", "hash"} => identity = {}
    /\ identity # {} => identity = {Digest(file)} /\ hashed = Len(file) /\ status = "Valid"

\* The checksums that are the file's.
Configured == {<<>>} \cup {<<Hex(Digest(file), upper)>> : upper \in BOOLEAN}

Judged ==
    /\ verdict \in {"Verified", "ChecksumMismatch"} => identity # {}
    /\ verdict = "Verified" => expected \in Configured
    /\ verdict = "ChecksumMismatch" => expected \notin Configured
    /\ saved # {} => identity # {}
    /\ identity = {} => text = before

ImportInv == Hashing /\ Staged /\ Judged

LEMMA ImportInitially == ImportInit => ImportInv
<1> SUFFICES ASSUME ImportInit PROVE ImportInv
  OBVIOUS
<1>1. file \in Seq(Nat) /\ Len(file) \in Nat
  BY GgufAssumption DEF ImportInit, Init
<1>2. SubSeq(file, 1, 0) = <<>> /\ <<>> \in Seq(Nat) /\ Len(<<>>) = 0
  BY <1>1
<1>3. Blocks(<<>>) = <<>> /\ Rest(<<>>) = <<>>
  <2>1. \A s \in Seq(Nat) : Len(s) < BlockSize => Blocks(s) = <<>> /\ Rest(s) = s
    BY NoBlocks
  <2>2. 0 < BlockSize
    BY BlockSizeIsPositive
  <2> QED BY <1>2, <2>1, <2>2
<1>4. Hashing
  <2>1. hashed = 0 /\ hasher.state = <<>> /\ hasher.buffer = <<>> /\ hasher.bits = 0
    BY DEF ImportInit, NewHasher
  <2>2. Streams(hasher, SubSeq(file, 1, hashed))
    BY <1>2, <1>3, <2>1, Zenon DEF Streams
  <2>3. hasher.bits = Byte * hashed /\ hashed \in 0..Len(file)
    BY <1>1, <2>1 DEF Byte
  <2> QED BY <2>2, <2>3 DEF Hashing
<1>5. Staged /\ Judged
  BY DEF ImportInit, Staged, Judged
<1> QED BY <1>4, <1>5 DEF ImportInv

(* A chunk continues the hash of the file; a short one is the last.        *)
LEMMA ReadChunkKeeps == IInv /\ ImportInv /\ ReadChunk => ImportInv'
<1> SUFFICES ASSUME IInv, ImportInv, ReadChunk PROVE ImportInv'
  OBVIOUS
<1> DEFINE got == Lesser(ChunkSize, Len(file) - hashed)
           data == SubSeq(file, hashed + 1, hashed + got)
           updated == IF got > 0 THEN Update(hasher, data) ELSE hasher
           read == SubSeq(file, 1, hashed)
           now == SubSeq(file, 1, hashed + got)
<1>1. /\ file \in Seq(Nat) /\ Len(file) \in Nat /\ hashed \in Nat /\ hashed <= Len(file)
      /\ ChunkSize \in Nat /\ ChunkSize > 0
  BY HashAssumption DEF IInv, TypeOK, ImportInv, Hashing
<1>2. /\ got \in Nat /\ hashed + got \in Nat /\ hashed + got <= Len(file)
      /\ (got < ChunkSize => hashed + got = Len(file))
  BY <1>1 DEF Lesser
<1>3. Streams(hasher, read) /\ hasher.bits = Byte * hashed
  BY DEF ImportInv, Hashing
<1>4. /\ stage = "hash" /\ UNCHANGED <<vars, expected, verdict, text, before, saved>>
      /\ hasher' = updated /\ hashed' = hashed + got
      /\ IF got < ChunkSize THEN identity' = {Finalize(updated)} /\ stage' = "compare"
                            ELSE UNCHANGED <<identity, stage>>
  BY DEF ReadChunk
<1> HIDE DEF got
<1>5. Streams(updated, now) /\ updated.bits = Byte * (hashed + got)
  <2>1. CASE got > 0
    <3>1. read \in Seq(Nat) /\ data \in Seq(Nat) /\ Len(data) = got /\ read \o data = now
      BY <1>1, <1>2, <2>1
    <3>2. Streams(Update(hasher, data), read \o data) /\ Update(hasher, data).bits = hasher.bits + Byte * Len(data)
      <4> HIDE DEF read, data
      <4> QED BY <1>3, <3>1, UpdateStreams
    <3>3. Byte * hashed + Byte * got = Byte * (hashed + got)
      BY <1>1, <1>2 DEF Byte
    <3> QED BY <1>3, <2>1, <3>1, <3>2, <3>3
  <2>2. CASE ~(got > 0)
    <3>1. got = 0
      BY <1>2, <2>2
    <3> QED BY <1>1, <1>3, <3>1
  <2> QED BY <2>1, <2>2
<1> HIDE DEF updated
<1>6. file' = file /\ pc' = pc /\ status' = status
  BY <1>4 DEF vars
<1>7. Hashing'
  BY <1>1, <1>2, <1>4, <1>5, <1>6 DEF Hashing
<1>8. got < ChunkSize => hashed' = Len(file) /\ Finalize(updated) = Digest(file)
  <2> SUFFICES ASSUME got < ChunkSize PROVE hashed' = Len(file) /\ Finalize(updated) = Digest(file)
    OBVIOUS
  <2>1. hashed + got = Len(file)
    BY <1>2
  <2>2. now = file
    BY <1>1, <2>1
  <2>3. Finalize(updated) = Digest(file)
    BY <1>1, <1>5, <2>1, <2>2, FinalizeIsDigest
  <2> QED BY <1>4, <2>1, <2>3
<1>9. status = "Valid" /\ pc = "done" /\ verdict \in Statuses /\ identity = {} /\ text = before /\ saved = {}
      /\ verdict \notin {"Verified", "ChecksumMismatch"}
  BY <1>4 DEF ImportInv, Staged, Judged
<1>10. Staged'
  BY <1>4, <1>6, <1>8, <1>9 DEF Staged
<1>11. Judged'
  BY <1>4, <1>9 DEF Judged
<1> QED BY <1>7, <1>10, <1>11 DEF ImportInv

LEMMA ValidatingKeeps == IInv /\ IInv' /\ ImportInv /\ (Validating \/ UNCHANGED importVars) => ImportInv'
<1>1. ASSUME Validating \/ UNCHANGED importVars PROVE file' = file /\ UNCHANGED import
  <2>1. Next => file' = file
    BY DEF Next, ReadHeader, ReadKey, ReadScalar, ReadString, ReadArray, ReadElement, EndArray, Finish
  <2> QED BY <1>1, <2>1 DEF Validating, importVars, vars
<1> SUFFICES ASSUME IInv, IInv', ImportInv, Validating \/ UNCHANGED importVars PROVE ImportInv'
  OBVIOUS
<1>2. /\ file' = file /\ stage' = stage /\ hashed' = hashed /\ hasher' = hasher /\ identity' = identity
      /\ expected' = expected /\ verdict' = verdict /\ text' = text /\ before' = before /\ saved' = saved
  BY <1>1 DEF import
<1>3. \/ stage = "validate"
      \/ pc' = pc /\ status' = status
  BY DEF Validating, importVars, vars
<1>4. Hashing'
  BY <1>2 DEF ImportInv, Hashing
<1>5. Staged'
  BY <1>2, <1>3 DEF ImportInv, Staged
<1>6. Judged'
  BY <1>2 DEF ImportInv, Judged, Configured
<1> QED BY <1>4, <1>5, <1>6 DEF ImportInv

LEMMA ValidatedKeeps == IInv /\ ImportInv /\ (Validated \/ ReadFails) => ImportInv'
<1> SUFFICES ASSUME IInv, ImportInv, Validated \/ ReadFails PROVE ImportInv'
  OBVIOUS
<1>1. /\ file' = file /\ pc' = pc /\ status' = status /\ hashed' = hashed /\ hasher' = hasher
      /\ identity' = identity /\ identity = {} /\ expected' = expected /\ text' = text /\ before' = before
      /\ saved' = saved
  BY DEF Validated, ReadFails, vars, ImportInv, Staged
<1>2. Hashing'
  BY <1>1 DEF ImportInv, Hashing
<1>3. /\ stage' \in {"hash", "returned"} /\ pc = "done" /\ verdict' \in Statuses \cup {"PathUnreadable"}
      /\ stage' = "hash" => status = "Valid" /\ verdict' \in Statuses
  BY DEF Validated, ReadFails, IInv, TypeOK, ImportInv, Staged
<1>4. Staged'
  BY <1>1, <1>3 DEF Staged
<1>5. verdict' \notin {"Verified", "ChecksumMismatch"}
  BY <1>3 DEF Statuses
<1>6. Judged'
  BY <1>1, <1>5 DEF ImportInv, Judged
<1> QED BY <1>2, <1>4, <1>6 DEF ImportInv

(* A checksum is the digest without regard to case exactly when it is the  *)
(* digest in the one case or the other.                                    *)
LEMMA InEitherCase ==
  ASSUME file \in Imported, NEW checksum \in Checksums(Digest(file))
  PROVE  checksum = <<>> \/ ToLower(checksum) = Text(Digest(file)) <=> checksum \in Configured
<1> DEFINE d == Digest(file)
           digits == {Hex(d, upper) : upper \in BOOLEAN}
<1>1. Letter \notin digits /\ checksum \in Seq({Letter} \cup digits)
  <2>1. Letter \notin digits /\ Checksums(d) \subseteq Seq({Letter} \cup digits)
    BY ChecksumAssumption, Zenon
  <2> QED BY <2>1
<1>2. checksum \in Configured <=> checksum = <<>> \/ \E upper \in BOOLEAN : checksum = <<Hex(d, upper)>>
  BY DEF Configured
<1> HIDE DEF d
<1>3. ASSUME NEW upper \in BOOLEAN PROVE Hex(d, upper).digest = d
  BY DEF Hex
<1>4. ASSUME ToLower(checksum) = Text(d) PROVE \E upper \in BOOLEAN : checksum = <<Hex(d, upper)>>
  <2>1. DOMAIN checksum = {1}
    BY <1>4 DEF ToLower, Text
  <2>2. Len(checksum) = 1 /\ checksum[1] \in {Letter} \cup digits
    BY <1>1, <2>1
  <2>3. checksum = <<checksum[1]>>
    BY <1>1, <2>2
  <2>4. ToLower(checksum)[1] = Hex(d, FALSE)
    BY <1>4 DEF Text
  <2>5. checksum[1] # Letter
    <3>1. checksum[1] = Letter => ToLower(checksum)[1] = Letter
      BY <2>1 DEF ToLower
    <3> QED BY <1>1, <2>4, <3>1
  <2> QED BY <2>2, <2>3, <2>5
<1>5. ASSUME NEW upper \in BOOLEAN, checksum = <<Hex(d, upper)>> PROVE ToLower(checksum) = Text(d)
  <2>1. checksum[1] = Hex(d, upper) /\ DOMAIN checksum = {1}
    BY <1>5
  <2>2. checksum[1] # Letter
    BY <1>1, <2>1
  <2>3. ToLower(checksum) = [n \in {1} |-> Hex(d, FALSE)]
    BY <1>3, <2>1, <2>2 DEF ToLower
  <2>4. ASSUME NEW x PROVE [n \in {1} |-> x] = <<x>>
    <3>1. {1} = 1..1
      OBVIOUS
    <3>2. [n \in 1..1 |-> x] \in Seq({x}) /\ Len([n \in 1..1 |-> x]) = 1 /\ [n \in 1..1 |-> x][1] = x
      OBVIOUS
    <3>3. [n \in 1..1 |-> x] = <<x>>
      BY <3>2
    <3> QED BY <3>1, <3>3, Zenon
  <2> QED BY <2>3, <2>4, Zenon DEF Text
<1> QED BY <1>2, <1>4, <1>5 DEF d

LEMMA CompareKeeps == IInv /\ ImportInv /\ Compare => ImportInv'
<1> SUFFICES ASSUME IInv, ImportInv, Compare PROVE ImportInv'
  OBVIOUS
<1>1. /\ file' = file /\ pc' = pc /\ status' = status /\ hashed' = hashed /\ hasher' = hasher
      /\ identity' = identity /\ text' = text /\ before' = before /\ saved' = saved
      /\ stage = "compare" /\ stage' = "import" /\ file \in Imported
  BY DEF Compare, vars
<1>2. PICK blocks \in identity : \E checksum \in Checksums(blocks) :
         /\ expected' = checksum
         /\ verdict' = IF checksum = <<>> \/ ToLower(checksum) = Text(blocks)
                       THEN "Verified" ELSE "ChecksumMismatch"
  BY DEF Compare
<1>3. identity # {} /\ blocks = Digest(file)
  BY <1>2 DEF ImportInv, Staged
<1>4. expected' \in Checksums(Digest(file))
      /\ verdict' = IF expected' = <<>> \/ ToLower(expected') = Text(Digest(file))
                    THEN "Verified" ELSE "ChecksumMismatch"
  BY <1>2, <1>3
<1>5. \A checksum \in Checksums(Digest(file)) :
         checksum = <<>> \/ ToLower(checksum) = Text(Digest(file)) <=> checksum \in Configured
  BY <1>1, InEitherCase
<1>6. verdict' = IF expected' \in Configured THEN "Verified" ELSE "ChecksumMismatch"
  BY <1>4, <1>5, Zenon
<1>7. Configured' = Configured
  BY <1>1 DEF Configured
<1>8. Hashing'
  BY <1>1 DEF ImportInv, Hashing
<1>9. Staged'
  BY <1>1, <1>6 DEF ImportInv, Staged
<1>10. Judged'
  BY <1>1, <1>3, <1>6, <1>7 DEF Judged
<1> QED BY <1>8, <1>9, <1>10 DEF ImportInv

LEMMA ImportKeeps == IInv /\ ImportInv /\ (Import \/ PowerLoss) => ImportInv'
<1> SUFFICES ASSUME IInv, ImportInv, Import \/ PowerLoss PROVE ImportInv'
  OBVIOUS
<1>1. /\ file' = file /\ pc' = pc /\ status' = status /\ hashed' = hashed /\ hasher' = hasher
      /\ identity' = identity /\ expected' = expected /\ verdict' = verdict
      /\ stage \in {"import", "returned"} /\ stage' \in {"returned", "cut"} /\ identity # {}
  BY DEF Import, PowerLoss, vars, ImportInv, Judged
<1>2. Hashing'
  BY <1>1 DEF ImportInv, Hashing
<1>3. Staged'
  BY <1>1 DEF ImportInv, Staged
<1>4. Judged'
  BY <1>1 DEF ImportInv, Judged, Configured
<1> QED BY <1>2, <1>3, <1>4 DEF ImportInv

(* The hasher has streamed what was read, and every stage leaves to the    *)
(* next what the verdict rests on.                                         *)
THEOREM ImportInductive == ImportSpec => [](IInv /\ Parsed /\ ImportInv)
<1>1. IInv /\ IInv' /\ ImportInv /\ [ImportNext]_importVars => ImportInv'
  BY ValidatingKeeps, ValidatedKeeps, ReadChunkKeeps, CompareKeeps, ImportKeeps DEF ImportNext
<1> QED BY ImportInitially, <1>1, ImportReads, Inductive, ReadsAsParsed, PTL DEF ImportSpec

(***************************************************************************)
(* Every count and stage of an import keeps its range, and the hasher holds*)
(* less than a block and has counted the bytes that were read              *)
(* (model_hash.cpp:74-174).                                                *)
(***************************************************************************)
THEOREM ImportTypeCorrect == ImportSpec => []ImportTypeOK
<1>1. IInv /\ ImportInv => ImportTypeOK
  <2> SUFFICES ASSUME IInv, ImportInv PROVE ImportTypeOK
    OBVIOUS
  <2>1. file \in Seq(Nat) /\ hashed \in 0..Len(file)
    BY DEF IInv, TypeOK, ImportInv, Hashing
  <2>2. SubSeq(file, 1, hashed) \in Seq(Nat)
    BY <2>1
  <2>3. Len(hasher.buffer) < BlockSize
    <3>1. hasher.buffer = Rest(SubSeq(file, 1, hashed))
      BY DEF ImportInv, Hashing, Streams
    <3>2. Len(hasher.buffer) = Len(SubSeq(file, 1, hashed)) % BlockSize
      BY <2>2, <3>1, RestLength
    <3>3. Len(SubSeq(file, 1, hashed)) % BlockSize \in 0..(BlockSize - 1)
      <4>1. Len(SubSeq(file, 1, hashed)) \in Nat
        BY <2>2
      <4> QED BY <4>1, DivMod, BlockSizeIsPositive
    <3>4. Len(hasher.buffer) \in 0..(BlockSize - 1)
      BY <3>2, <3>3, Zenon
    <3> QED BY <3>4, BlockSizeIsPositive
  <2> QED BY <2>1, <2>3 DEF ImportTypeOK, IInv, ImportInv, Hashing, Staged
<1> QED BY <1>1, ImportInductive, PTL

(***************************************************************************)
(* For every file, block and chunk size: the identity is FIPS 180-4's hash *)
(* of the whole file, and Verified and ChecksumMismatch say what they mean *)
(* (model_hash.cpp:74-174, model_verifier.cpp:111-143).                    *)
(***************************************************************************)
THEOREM VerdictsAreTheFiles == ImportSpec => []VerdictIsTheFiles
<1>1. Parsed /\ ImportInv => VerdictIsTheFiles
  <2> SUFFICES ASSUME Parsed, ImportInv PROVE VerdictIsTheFiles
    OBVIOUS
  <2>1. verdict = "Verified" => stage # "validate" /\ status = "Valid" /\ pc = "done" /\ hashed = Len(file)
    BY DEF ImportInv, Staged, Judged
  <2>2. verdict = "Verified" => Entries(file) # {}
    BY <2>1 DEF Parsed, AcceptsTheFormat
  <2> QED BY <2>1, <2>2 DEF VerdictIsTheFiles, ImportInv, Staged, Judged, Configured
<1> QED BY <1>1, ImportInductive, PTL
-----------------------------------------------------------------------------
(***************************************************************************)
(* Recursive functions over the items of a sequence.  What such a function *)
(* is at the end of Append(s, c) is one step further than at the end of s. *)
(***************************************************************************)
LEMMA UpTo ==
  ASSUME NEW N \in Nat, NEW T, 0 \in T, \A n \in 0..(N - 1) : n \in T => n + 1 \in T
  PROVE  0..N \subseteq T
<1> DEFINE U == {n \in Nat : n <= N => n \in T}
<1>1. 0 \in U /\ \A n \in U : n + 1 \in U
  OBVIOUS
<1>2. U = Nat
  <2> HIDE DEF U
  <2>1. U \in SUBSET Nat
    BY DEF U
  <2> QED BY <1>1, <2>1, SetInduction
<1> QED BY <1>2

\* f steps from the first value through a sequence of steps.
Runs(f, N, X, first, step) ==
    f \in [0..N -> X] /\ f[0] = first /\ \A n \in 1..N : f[n] = step[n][f[n - 1]]

LEMMA Recursion ==
  ASSUME NEW X, NEW N \in Nat, NEW first \in X, NEW step \in [1..N -> [X -> X]]
  PROVE  \E f : Runs(f, N, X, first, step)
<1> DEFINE Eq(f, m) == f[0] = first /\ \A n \in 1..m : f[n] = step[n][f[n - 1]]
           T == {m \in 0..N : \E f \in [0..m -> X] : Eq(f, m)}
<1>1. 0 \in T
  <2>1. [n \in 0..0 |-> first] \in [0..0 -> X] /\ Eq([n \in 0..0 |-> first], 0)
    OBVIOUS
  <2> HIDE DEF Eq
  <2>2. \E f \in [0..0 -> X] : Eq(f, 0)
    BY <2>1
  <2> QED BY <2>2
<1>2. ASSUME NEW m \in 0..(N - 1), m \in T PROVE m + 1 \in T
  <2>1. PICK f \in [0..m -> X] : Eq(f, m)
    BY <1>2
  <2> DEFINE g == [n \in 0..(m + 1) |-> IF n = m + 1 THEN step[m + 1][f[m]] ELSE f[n]]
  <2>2. step[m + 1][f[m]] \in X
    OBVIOUS
  <2>3. g \in [0..(m + 1) -> X]
    BY <2>2
  <2>4. ASSUME NEW n \in 1..(m + 1) PROVE g[n] = step[n][g[n - 1]]
    <3>1. CASE n = m + 1
      BY <3>1
    <3>2. CASE n # m + 1
      BY <2>1, <3>2
    <3> QED BY <3>1, <3>2
  <2>5. Eq(g, m + 1)
    BY <2>1, <2>4
  <2> HIDE DEF Eq, g
  <2>6. \E h \in [0..(m + 1) -> X] : Eq(h, m + 1)
    BY <2>3, <2>5
  <2> QED BY <2>6
<1>3. N \in T
  <2> HIDE DEF T
  <2>1. 0..N \subseteq T
    BY <1>1, <1>2, UpTo
  <2> QED BY <2>1
<1> QED BY <1>3 DEF Runs

\* f has a value for every prefix of s, each a step on from the one before.
Follows(f, s, X, first, step) ==
    f \in [0..Len(s) -> X] /\ f[0] = first /\ \A n \in 1..Len(s) : f[n] = step[s[n]][f[n - 1]]

LEMMA Steps ==
  ASSUME NEW S, NEW X, NEW s \in Seq(S), NEW first \in X, NEW step \in [S -> [X -> X]]
  PROVE  \E f : Follows(f, s, X, first, step)
<1> DEFINE N == Len(s)
           steps == [n \in 1..N |-> step[s[n]]]
<1>1. N \in Nat /\ \A n \in 1..N : s[n] \in S
  OBVIOUS
<1> HIDE DEF N
<1>2. steps \in [1..N -> [X -> X]]
  BY <1>1
<1>3. \A n \in 1..N : steps[n] = step[s[n]]
  OBVIOUS
<1> HIDE DEF steps
<1>4. PICK f : Runs(f, N, X, first, steps)
  BY <1>1, <1>2, Recursion
<1>5. f \in [0..N -> X] /\ f[0] = first /\ \A n \in 1..N : f[n] = step[s[n]][f[n - 1]]
  BY <1>3, <1>4 DEF Runs
<1> QED BY <1>5 DEF N, Follows

\* R is what the recursive function F over the items of a sequence is at its end.
Folds(R, F, S, X, first, step) ==
    /\ first \in X /\ step \in [S -> [X -> X]]
    /\ \A s \in Seq(S) :
          /\ R[s] = F[s][Len(s)] /\ F[s][0] = first
          /\ \A n \in 1..Len(s) : F[s][n - 1] \in X => F[s][n] = step[s[n]][F[s][n - 1]]

LEMMA Folded ==
  ASSUME NEW S, NEW X, NEW R, NEW F, NEW first, NEW step, Folds(R, F, S, X, first, step)
  PROVE  /\ R[<<>>] = first
         /\ \A s \in Seq(S) : R[s] \in X
         /\ \A s \in Seq(S), c \in S : R[Append(s, c)] = step[c][R[s]]
<1>1. ASSUME NEW s \in Seq(S) PROVE \A n \in 0..Len(s) : F[s][n] \in X
  <2> DEFINE T == {n \in 0..Len(s) : F[s][n] \in X}
  <2>1. 0 \in T
    BY DEF Folds
  <2>2. ASSUME NEW n \in 0..(Len(s) - 1), n \in T PROVE n + 1 \in T
    <3>1. n + 1 \in 1..Len(s) /\ (n + 1) - 1 = n /\ s[n + 1] \in S
      OBVIOUS
    <3>2. F[s][n + 1] = step[s[n + 1]][F[s][n]]
      BY <2>2, <3>1 DEF Folds
    <3> QED BY <2>2, <3>1, <3>2 DEF Folds
  <2>3. 0..Len(s) \subseteq T
    <3> HIDE DEF T
    <3> QED BY <2>1, <2>2, UpTo
  <2> QED BY <2>3
<1>2. ASSUME NEW s \in Seq(S)
      PROVE  F[s][0] = first /\ \A n \in 1..Len(s) : F[s][n] = step[s[n]][F[s][n - 1]]
  <2>1. \A n \in 1..Len(s) : n - 1 \in 0..Len(s)
    OBVIOUS
  <2> QED BY <1>1, <2>1 DEF Folds
<1>3. ASSUME NEW s \in Seq(S), NEW c \in S
      PROVE  F[Append(s, c)][Len(s) + 1] = step[c][F[s][Len(s)]]
  <2> DEFINE t == Append(s, c)
             T == {n \in 0..Len(s) : F[t][n] = F[s][n]}
  <2>1. /\ t \in Seq(S) /\ Len(t) = Len(s) + 1 /\ t[Len(s) + 1] = c /\ Len(s) \in Nat
        /\ \A n \in 1..Len(s) : t[n] = s[n]
    OBVIOUS
  <2> HIDE DEF t
  <2>2. 0 \in T
    BY <1>2, <2>1
  <2>3. ASSUME NEW n \in 0..(Len(s) - 1), n \in T PROVE n + 1 \in T
    <3>1. F[t][n + 1] = step[t[n + 1]][F[t][n]] /\ F[s][n + 1] = step[s[n + 1]][F[s][n]]
      <4>1. n + 1 \in 1..Len(s) /\ n + 1 \in 1..Len(t) /\ (n + 1) - 1 = n
        BY <2>1
      <4> QED BY <1>2, <2>1, <4>1
    <3>2. t[n + 1] = s[n + 1]
      BY <2>1
    <3> QED BY <2>1, <2>3, <3>1, <3>2
  <2>4. 0..Len(s) \subseteq T
    <3> HIDE DEF T
    <3> QED BY <2>1, <2>2, <2>3, UpTo
  <2>5. F[t][Len(s)] = F[s][Len(s)]
    BY <2>1, <2>4
  <2>6. F[t][Len(s) + 1] = step[t[Len(s) + 1]][F[t][Len(s)]]
    <3>1. Len(s) + 1 \in 1..Len(t) /\ (Len(s) + 1) - 1 = Len(s)
      BY <2>1
    <3> QED BY <1>2, <2>1, <3>1
  <2> QED BY <2>1, <2>5, <2>6 DEF t
<1>4. /\ <<>> \in Seq(S) /\ Len(<<>>) = 0 /\ \A s \in Seq(S) : Len(s) \in 0..Len(s)
      /\ \A s \in Seq(S), c \in S : Append(s, c) \in Seq(S) /\ Len(Append(s, c)) = Len(s) + 1
  OBVIOUS
<1>5. \A s \in Seq(S) : R[s] = F[s][Len(s)]
  BY DEF Folds
<1>6. R[<<>>] = first /\ \A s \in Seq(S) : R[s] \in X
  BY <1>1, <1>2, <1>4, <1>5
<1>7. ASSUME NEW s \in Seq(S), NEW c \in S PROVE R[Append(s, c)] = step[c][R[s]]
  <2>1. R[Append(s, c)] = F[Append(s, c)][Len(s) + 1]
    <3>1. R[Append(s, c)] = F[Append(s, c)][Len(Append(s, c))] /\ Len(Append(s, c)) = Len(s) + 1
      BY <1>4, <1>5
    <3> QED BY <3>1, Zenon
  <2>2. R[s] = F[s][Len(s)]
    BY <1>5
  <2> QED BY <1>3, <2>1, <2>2, Zenon
<1> QED BY <1>6, <1>7

\* The characters that the text of a registry is built from.
HasMarks(S) == Special \cup {Letter, MagicLine} \cup ToSet(Keys) \cup ToSet(Digits) \subseteq S

Decoders(S) == [ok : BOOLEAN, escape : Seq(S), out : Seq(S)]
NothingDecoded == [ok |-> TRUE, escape |-> <<>>, out |-> <<>>]

LEMMA UnescapedIs ==
  ASSUME NEW S, HasMarks(S), NEW digits
  PROVE  Unescape(digits) \in S
<1>1. Special \subseteq S /\ Letter \in S
  BY DEF HasMarks
<1>2. (\E c \in Special : Code[c] = digits) => (CHOOSE c \in Special : Code[c] = digits) \in Special
  OBVIOUS
<1> QED BY <1>1, <1>2, Zenon DEF Unescape

LEMMA DecodeCharTyped ==
  ASSUME NEW S, HasMarks(S)
  PROVE  /\ NothingDecoded \in Decoders(S)
         /\ \A d \in Decoders(S), c \in S : DecodeChar(d, c) \in Decoders(S)
<1>1. NothingDecoded \in Decoders(S)
  BY EmptySeq DEF Decoders, NothingDecoded
<1>2. ASSUME NEW d \in Decoders(S), NEW c \in S PROVE DecodeChar(d, c) \in Decoders(S)
  <2>1. Unescape(<<d.escape[2], c>>) \in S
    BY UnescapedIs
  <2> HIDE DEF Special
  <2>2. /\ d.escape \in Seq(S) /\ d.out \in Seq(S) /\ d.ok \in BOOLEAN
        /\ Append(d.out, c) \in Seq(S) /\ Append(d.escape, c) \in Seq(S) /\ <<c>> \in Seq(S) /\ <<>> \in Seq(S)
        /\ Append(d.out, Unescape(<<d.escape[2], c>>)) \in Seq(S)
    BY <2>1 DEF Decoders
  <2> QED BY <2>2 DEF DecodeChar, Decoders
<1> QED BY <1>1, <1>2

LEMMA DecodeFolds ==
  ASSUME NEW S, HasMarks(S)
  PROVE  /\ DecodeAll(<<>>) = NothingDecoded
         /\ \A s \in Seq(S) : DecodeAll(s) \in Decoders(S)
         /\ \A s \in Seq(S), c \in S : DecodeAll(Append(s, c)) = DecodeChar(DecodeAll(s), c)
<1> DEFINE After(s) == CHOOSE f : f = [n \in 0..Len(s) |-> IF n = 0 THEN [ok |-> TRUE, escape |-> <<>>, out |-> <<>>] ELSE DecodeChar(f[n - 1], s[n])]
           X == Decoders(S)
           step == [c \in S |-> [d \in X |-> DecodeChar(d, c)]]
           F == [s \in Seq(S) |-> After(s)]
           R == [s \in Seq(S) |-> DecodeAll(s)]
<1>1. step \in [S -> [X -> X]] /\ NothingDecoded \in X
  BY DecodeCharTyped
<1>2. ASSUME NEW s \in Seq(S)
      PROVE  After(s) = [n \in 0..Len(s) |-> IF n = 0 THEN NothingDecoded ELSE DecodeChar(After(s)[n - 1], s[n])]
  <2> HIDE DEF X
  <2>1. \A n \in 1..Len(s) : n - 1 \in 0..Len(s) /\ s[n] \in S
    OBVIOUS
  <2>2. PICK f \in [0..Len(s) -> X] : f[0] = NothingDecoded /\ \A n \in 1..Len(s) : f[n] = step[s[n]][f[n - 1]]
    <3> HIDE DEF step
    <3>1. \E f : Follows(f, s, X, NothingDecoded, step)
      BY <1>1, Steps
    <3> QED BY <3>1 DEF Follows
  <2>3. \A n \in 0..Len(s) : f[n] = IF n = 0 THEN NothingDecoded ELSE DecodeChar(f[n - 1], s[n])
    <3>1. \A n \in 0..Len(s) : n = 0 \/ n \in 1..Len(s)
      OBVIOUS
    <3>2. \A n \in 1..Len(s) : f[n] = DecodeChar(f[n - 1], s[n])
      BY <2>1, <2>2
    <3> QED BY <2>2, <3>1, <3>2
  <2>4. f = [n \in 0..Len(s) |-> IF n = 0 THEN NothingDecoded ELSE DecodeChar(f[n - 1], s[n])]
    <3>1. f = [n \in 0..Len(s) |-> f[n]]
      OBVIOUS
    <3> QED BY <2>3, <3>1, Zenon
  <2> QED BY <2>4, Zenon DEF NothingDecoded
<1>3. ASSUME NEW s \in Seq(S)
      PROVE  /\ R[s] = F[s][Len(s)] /\ F[s][0] = NothingDecoded
             /\ \A n \in 1..Len(s) : F[s][n - 1] \in X => F[s][n] = step[s[n]][F[s][n - 1]]
  <2>1. F[s] = After(s) /\ R[s] = DecodeAll(s)
    BY Zenon
  <2>2. DecodeAll(s) = After(s)[Len(s)]
    BY Zenon DEF DecodeAll
  <2> HIDE DEF X, F, R, After
  <2>3. \A n \in 0..Len(s) : F[s][n] = IF n = 0 THEN NothingDecoded ELSE DecodeChar(F[s][n - 1], s[n])
    <3>1. \A n \in 0..Len(s) : After(s)[n] = IF n = 0 THEN NothingDecoded ELSE DecodeChar(After(s)[n - 1], s[n])
      BY <1>2, Zenon
    <3> QED BY <2>1, <3>1, Zenon
  <2>4. 0 \in 0..Len(s) /\ \A n \in 1..Len(s) : n \in 0..Len(s) /\ n # 0 /\ s[n] \in S
    OBVIOUS
  <2> QED BY <2>1, <2>2, <2>3, <2>4
<1>4. /\ R[<<>>] = NothingDecoded
      /\ \A s \in Seq(S) : R[s] \in X
      /\ \A s \in Seq(S), c \in S : R[Append(s, c)] = step[c][R[s]]
  <2> HIDE DEF R, F, X, step
  <2>1. Folds(R, F, S, X, NothingDecoded, step)
    BY <1>1, <1>3 DEF Folds
  <2> QED BY <2>1, Folded
<1>5. \A s \in Seq(S) : DecodeAll(s) = R[s]
  BY Zenon
<1> HIDE DEF R, X
<1>6. <<>> \in Seq(S) /\ \A s \in Seq(S), c \in S : Append(s, c) \in Seq(S)
  OBVIOUS
<1>7. ASSUME NEW s \in Seq(S), NEW c \in S PROVE R[Append(s, c)] = DecodeChar(R[s], c)
  BY <1>4
<1> HIDE DEF step
<1>8. ASSUME NEW s \in Seq(S), NEW c \in S PROVE DecodeAll(Append(s, c)) = DecodeChar(DecodeAll(s), c)
  BY <1>5, <1>6, <1>7, Zenon
<1>9. DecodeAll(<<>>) = NothingDecoded /\ \A s \in Seq(S) : DecodeAll(s) \in X
  BY <1>4, <1>5, <1>6, Zenon
<1> QED BY <1>8, <1>9 DEF X

(* The four keys are different ones, and none is the end of a line.        *)
LEMMA KeysAre ==
  /\ ToSet(Keys) = {IdKey, PathKey, StatusKey, ChecksumKey}
  /\ IdKey # PathKey /\ IdKey # StatusKey /\ IdKey # ChecksumKey
  /\ PathKey # StatusKey /\ PathKey # ChecksumKey /\ StatusKey # ChecksumKey
<1>1. /\ DOMAIN Keys = 1..4
      /\ Keys[1] = IdKey /\ Keys[2] = PathKey /\ Keys[3] = StatusKey /\ Keys[4] = ChecksumKey
  BY DEF Keys
<1>2. \A i, j \in 1..4 : Keys[i] = Keys[j] => i = j
  BY <1>1, TextAssumption DEF IsInjective
<1>3. ToSet(Keys) = {IdKey, PathKey, StatusKey, ChecksumKey}
  BY <1>1 DEF ToSet
<1> QED BY <1>1, <1>2, <1>3

LEMMA DigitsAre ==
  /\ Digits \in Seq(ToSet(Digits)) /\ DOMAIN Digits = 1..Len(Digits) /\ Len(Digits) \in Nat
  /\ MaxStatus < Len(Digits)
  /\ \A n \in 1..Len(Digits) : Digits[n] \in ToSet(Digits) /\ DigitValue(Digits[n]) = n - 1
  /\ \A c \in ToSet(Digits) : DigitValue(c) \in Int
<1>1. /\ Digits \in Seq(ToSet(Digits)) /\ MaxStatus < Len(Digits)
      /\ \A m, n \in DOMAIN Digits : Digits[m] = Digits[n] => m = n
  BY TextAssumption DEF IsInjective
<1>2. DOMAIN Digits = 1..Len(Digits) /\ Len(Digits) \in Nat
  BY <1>1, LenProperties
<1>3. ASSUME NEW n \in 1..Len(Digits) PROVE Digits[n] \in ToSet(Digits) /\ DigitValue(Digits[n]) = n - 1
  <2>1. (CHOOSE m \in DOMAIN Digits : Digits[m] = Digits[n]) = n
    BY <1>1, <1>2
  <2> QED BY <1>2, <2>1 DEF DigitValue, ToSet
<1>4. ASSUME NEW c \in ToSet(Digits) PROVE DigitValue(c) \in Int
  BY <1>2, <1>3 DEF ToSet
<1> QED BY <1>1, <1>2, <1>3, <1>4

\* What std::getline has read.
LinesRead(S) == [whole : Seq(Seq(S)), part : Seq(S)]
NothingRead == [whole |-> <<>>, part |-> <<>>]

LEMMA ReadCharTyped ==
  ASSUME NEW S
  PROVE  /\ NothingRead \in LinesRead(S)
         /\ \A l \in LinesRead(S), c \in S : ReadChar(l, c) \in LinesRead(S)
<1>1. NothingRead \in LinesRead(S)
  BY EmptySeq DEF LinesRead, NothingRead
<1>2. ASSUME NEW l \in LinesRead(S), NEW c \in S PROVE ReadChar(l, c) \in LinesRead(S)
  <2>1. /\ l.whole \in Seq(Seq(S)) /\ l.part \in Seq(S) /\ Append(l.part, c) \in Seq(S) /\ <<>> \in Seq(S)
        /\ Append(l.whole, l.part) \in Seq(Seq(S))
    BY AppendProperties DEF LinesRead
  <2> QED BY <2>1 DEF ReadChar, LinesRead
<1> QED BY <1>1, <1>2

LEMMA ReadFolds ==
  ASSUME NEW S
  PROVE  /\ ReadAll(<<>>) = NothingRead
         /\ \A s \in Seq(S) : ReadAll(s) \in LinesRead(S)
         /\ \A s \in Seq(S), c \in S : ReadAll(Append(s, c)) = ReadChar(ReadAll(s), c)
<1> DEFINE After(s) == CHOOSE f : f = [n \in 0..Len(s) |-> IF n = 0 THEN [whole |-> <<>>, part |-> <<>>] ELSE ReadChar(f[n - 1], s[n])]
           X == LinesRead(S)
           step == [c \in S |-> [d \in X |-> ReadChar(d, c)]]
           F == [s \in Seq(S) |-> After(s)]
           R == [s \in Seq(S) |-> ReadAll(s)]
<1>1. step \in [S -> [X -> X]] /\ NothingRead \in X
  BY ReadCharTyped
<1>2. ASSUME NEW s \in Seq(S)
      PROVE  After(s) = [n \in 0..Len(s) |-> IF n = 0 THEN NothingRead ELSE ReadChar(After(s)[n - 1], s[n])]
  <2> HIDE DEF X
  <2>1. \A n \in 1..Len(s) : n - 1 \in 0..Len(s) /\ s[n] \in S
    OBVIOUS
  <2>2. PICK f \in [0..Len(s) -> X] : f[0] = NothingRead /\ \A n \in 1..Len(s) : f[n] = step[s[n]][f[n - 1]]
    <3> HIDE DEF step
    <3>1. \E f : Follows(f, s, X, NothingRead, step)
      BY <1>1, Steps
    <3> QED BY <3>1 DEF Follows
  <2>3. \A n \in 0..Len(s) : f[n] = IF n = 0 THEN NothingRead ELSE ReadChar(f[n - 1], s[n])
    <3>1. \A n \in 0..Len(s) : n = 0 \/ n \in 1..Len(s)
      OBVIOUS
    <3>2. \A n \in 1..Len(s) : f[n] = ReadChar(f[n - 1], s[n])
      BY <2>1, <2>2
    <3> QED BY <2>2, <3>1, <3>2
  <2>4. f = [n \in 0..Len(s) |-> IF n = 0 THEN NothingRead ELSE ReadChar(f[n - 1], s[n])]
    <3>1. f = [n \in 0..Len(s) |-> f[n]]
      OBVIOUS
    <3> QED BY <2>3, <3>1, Zenon
  <2> QED BY <2>4, Zenon DEF NothingRead
<1>3. ASSUME NEW s \in Seq(S)
      PROVE  /\ R[s] = F[s][Len(s)] /\ F[s][0] = NothingRead
             /\ \A n \in 1..Len(s) : F[s][n - 1] \in X => F[s][n] = step[s[n]][F[s][n - 1]]
  <2>1. F[s] = After(s) /\ R[s] = ReadAll(s)
    BY Zenon
  <2>2. ReadAll(s) = After(s)[Len(s)]
    BY Zenon DEF ReadAll
  <2> HIDE DEF X, F, R, After
  <2>3. \A n \in 0..Len(s) : F[s][n] = IF n = 0 THEN NothingRead ELSE ReadChar(F[s][n - 1], s[n])
    <3>1. \A n \in 0..Len(s) : After(s)[n] = IF n = 0 THEN NothingRead ELSE ReadChar(After(s)[n - 1], s[n])
      BY <1>2, Zenon
    <3> QED BY <2>1, <3>1, Zenon
  <2>4. 0 \in 0..Len(s) /\ \A n \in 1..Len(s) : n \in 0..Len(s) /\ n # 0 /\ s[n] \in S
    OBVIOUS
  <2> QED BY <2>1, <2>2, <2>3, <2>4
<1>4. /\ R[<<>>] = NothingRead
      /\ \A s \in Seq(S) : R[s] \in X
      /\ \A s \in Seq(S), c \in S : R[Append(s, c)] = step[c][R[s]]
  <2> HIDE DEF R, F, X, step
  <2>1. Folds(R, F, S, X, NothingRead, step)
    BY <1>1, <1>3 DEF Folds
  <2> QED BY <2>1, Folded
<1>5. \A s \in Seq(S) : ReadAll(s) = R[s]
  BY Zenon
<1> HIDE DEF R, X
<1>6. <<>> \in Seq(S) /\ \A s \in Seq(S), c \in S : Append(s, c) \in Seq(S)
  OBVIOUS
<1>7. ASSUME NEW s \in Seq(S), NEW c \in S PROVE R[Append(s, c)] = ReadChar(R[s], c)
  BY <1>4
<1> HIDE DEF step
<1>8. ASSUME NEW s \in Seq(S), NEW c \in S PROVE ReadAll(Append(s, c)) = ReadChar(ReadAll(s), c)
  BY <1>5, <1>6, <1>7, Zenon
<1>9. ReadAll(<<>>) = NothingRead /\ \A s \in Seq(S) : ReadAll(s) \in X
  BY <1>4, <1>5, <1>6, Zenon
<1> QED BY <1>8, <1>9 DEF X

LEMMA NumberFolds ==
  ASSUME NEW D, D = ToSet(Digits)
  PROVE  /\ ParseNumber(<<>>) = 0
         /\ \A s \in Seq(D) : ParseNumber(s) \in Int
         /\ \A s \in Seq(D), c \in D : ParseNumber(Append(s, c)) = Len(Digits) * ParseNumber(s) + DigitValue(c)
<1> DEFINE After(s) == CHOOSE f : f = [n \in 0..Len(s) |-> IF n = 0 THEN 0 ELSE Len(Digits) * f[n - 1] + DigitValue(s[n])]
           X == Int
           step == [c \in D |-> [d \in X |-> Len(Digits) * d + DigitValue(c)]]
           F == [s \in Seq(D) |-> After(s)]
           R == [s \in Seq(D) |-> ParseNumber(s)]
<1>1. step \in [D -> [X -> X]] /\ 0 \in X
  BY DigitsAre
<1>2. ASSUME NEW s \in Seq(D)
      PROVE  After(s) = [n \in 0..Len(s) |-> IF n = 0 THEN 0 ELSE Len(Digits) * After(s)[n - 1] + DigitValue(s[n])]
  <2> HIDE DEF X
  <2>1. \A n \in 1..Len(s) : n - 1 \in 0..Len(s) /\ s[n] \in D
    OBVIOUS
  <2>2. PICK f \in [0..Len(s) -> X] : f[0] = 0 /\ \A n \in 1..Len(s) : f[n] = step[s[n]][f[n - 1]]
    <3> HIDE DEF step
    <3>1. \E f : Follows(f, s, X, 0, step)
      BY <1>1, Steps
    <3> QED BY <3>1 DEF Follows
  <2>3. \A n \in 0..Len(s) : f[n] = IF n = 0 THEN 0 ELSE Len(Digits) * f[n - 1] + DigitValue(s[n])
    <3>1. \A n \in 0..Len(s) : n = 0 \/ n \in 1..Len(s)
      OBVIOUS
    <3>2. \A n \in 1..Len(s) : f[n] = Len(Digits) * f[n - 1] + DigitValue(s[n])
      BY <2>1, <2>2
    <3> QED BY <2>2, <3>1, <3>2
  <2>4. f = [n \in 0..Len(s) |-> IF n = 0 THEN 0 ELSE Len(Digits) * f[n - 1] + DigitValue(s[n])]
    <3>1. f = [n \in 0..Len(s) |-> f[n]]
      OBVIOUS
    <3> QED BY <2>3, <3>1, Zenon
  <2> QED BY <2>4, Zenon
<1>3. ASSUME NEW s \in Seq(D)
      PROVE  /\ R[s] = F[s][Len(s)] /\ F[s][0] = 0
             /\ \A n \in 1..Len(s) : F[s][n - 1] \in X => F[s][n] = step[s[n]][F[s][n - 1]]
  <2>1. F[s] = After(s) /\ R[s] = ParseNumber(s)
    BY Zenon
  <2>2. ParseNumber(s) = After(s)[Len(s)]
    BY Zenon DEF ParseNumber
  <2> HIDE DEF X, F, R, After
  <2>3. \A n \in 0..Len(s) : F[s][n] = IF n = 0 THEN 0 ELSE Len(Digits) * F[s][n - 1] + DigitValue(s[n])
    <3>1. \A n \in 0..Len(s) : After(s)[n] = IF n = 0 THEN 0 ELSE Len(Digits) * After(s)[n - 1] + DigitValue(s[n])
      BY <1>2, Zenon
    <3> QED BY <2>1, <3>1, Zenon
  <2>4. 0 \in 0..Len(s) /\ \A n \in 1..Len(s) : n \in 0..Len(s) /\ n # 0 /\ s[n] \in D
    OBVIOUS
  <2> QED BY <2>1, <2>2, <2>3, <2>4
<1>4. /\ R[<<>>] = 0
      /\ \A s \in Seq(D) : R[s] \in X
      /\ \A s \in Seq(D), c \in D : R[Append(s, c)] = step[c][R[s]]
  <2> HIDE DEF R, F, X, step
  <2>1. Folds(R, F, D, X, 0, step)
    BY <1>1, <1>3 DEF Folds
  <2> QED BY <2>1, Folded
<1>5. \A s \in Seq(D) : ParseNumber(s) = R[s]
  BY Zenon
<1> HIDE DEF R, X
<1>6. <<>> \in Seq(D) /\ \A s \in Seq(D), c \in D : Append(s, c) \in Seq(D)
  OBVIOUS
<1>7. ASSUME NEW s \in Seq(D), NEW c \in D PROVE R[Append(s, c)] = Len(Digits) * R[s] + DigitValue(c)
  BY <1>4
<1> HIDE DEF step
<1>8. ASSUME NEW s \in Seq(D), NEW c \in D PROVE ParseNumber(Append(s, c)) = Len(Digits) * ParseNumber(s) + DigitValue(c)
  BY <1>5, <1>6, <1>7, Zenon
<1>9. ParseNumber(<<>>) = 0 /\ \A s \in Seq(D) : ParseNumber(s) \in X
  BY <1>4, <1>5, <1>6, Zenon
<1> QED BY <1>8, <1>9 DEF X

LEMMA DigitIsRead ==
  ASSUME NEW n \in 0..MaxStatus
  PROVE  /\ <<Digits[n + 1]>> \in Seq(ToSet(Digits)) /\ IsNumber(<<Digits[n + 1]>>)
         /\ ParseNumber(<<Digits[n + 1]>>) = n
<1>1. n + 1 \in 1..Len(Digits) /\ Len(Digits) \in Nat /\ n \in Nat
  BY DigitsAre DEF MaxStatus
<1> DEFINE c == Digits[n + 1]
<1>2. c \in ToSet(Digits) /\ DigitValue(c) = n
  BY <1>1, DigitsAre
<1> HIDE DEF c
<1>3. <<c>> = Append(<<>>, c) /\ <<>> \in Seq(ToSet(Digits)) /\ <<c>> \in Seq(ToSet(Digits)) /\ <<c>> # <<>>
      /\ DOMAIN <<c>> = {1} /\ <<c>>[1] = c
  BY <1>2
<1>4. ParseNumber(<<c>>) = Len(Digits) * ParseNumber(<<>>) + DigitValue(c) /\ ParseNumber(<<>>) = 0
  BY <1>2, <1>3, NumberFolds
<1>5. IsNumber(<<c>>)
  BY <1>2, <1>3 DEF IsNumber
<1> QED BY <1>1, <1>2, <1>3, <1>4, <1>5 DEF c

\* Entries, fields and what was loaded, of texts over S.
RegistryEntries(S) ==
    [id : Seq(S) \ {<<>>}, path : Seq(S), checksum : Seq(S), status : 0..MaxStatus]
FieldMaps(S) == UNION {[K -> Seq(S)] : K \in SUBSET ToSet(Keys)}
Loadings(S) == [ok : BOOLEAN, fields : FieldMaps(S), entries : Seq(RegistryEntries(S))]
NothingLoaded == [ok |-> TRUE, fields |-> NoFields, entries |-> <<>>]

LEMMA EntryIsTyped ==
  ASSUME NEW S, HasMarks(S), NEW fields \in FieldMaps(S)
  PROVE  FieldsToEntry(fields) \subseteq RegistryEntries(S)
<1> SUFFICES ASSUME NEW e \in FieldsToEntry(fields) PROVE e \in RegistryEntries(S)
  OBVIOUS
<1>1. /\ DOMAIN fields = ToSet(Keys)
      /\ \E id \in Decode(fields[IdKey]) \ {<<>>}, path \in Decode(fields[PathKey]),
            checksum \in Decode(fields[ChecksumKey]), number \in 0..MaxStatus :
               e = [id |-> id, path |-> path, checksum |-> checksum, status |-> number]
  BY DEF FieldsToEntry
<1>2. \A k \in ToSet(Keys) : fields[k] \in Seq(S)
  BY <1>1 DEF FieldMaps
<1>3. \A s \in Seq(S) : Decode(s) \subseteq Seq(S)
  <2>1. \A s \in Seq(S) : DecodeAll(s).out \in Seq(S)
    BY DecodeFolds DEF Decoders
  <2> QED BY <2>1 DEF Decode
<1>4. {IdKey, PathKey, ChecksumKey} \subseteq ToSet(Keys)
  BY KeysAre
<1> QED BY <1>1, <1>2, <1>3, <1>4 DEF RegistryEntries

LEMMA FieldIsAdded ==
  ASSUME NEW S, NEW fields \in FieldMaps(S), NEW name \in ToSet(Keys), NEW value \in Seq(S)
  PROVE  [k \in DOMAIN fields \cup {name} |-> IF k = name THEN value ELSE fields[k]] \in FieldMaps(S)
<1>1. PICK K \in SUBSET ToSet(Keys) : fields \in [K -> Seq(S)]
  BY DEF FieldMaps
<1>2. K \cup {name} \in SUBSET ToSet(Keys)
  OBVIOUS
<1>3. [k \in DOMAIN fields \cup {name} |-> IF k = name THEN value ELSE fields[k]] \in [K \cup {name} -> Seq(S)]
  BY <1>1
<1> QED BY <1>2, <1>3 DEF FieldMaps

LEMMA FlushTyped ==
  ASSUME NEW S, HasMarks(S), NEW l \in Loadings(S)
  PROVE  Flush(l) \in Loadings(S)
<1>1. l.ok \in BOOLEAN /\ l.fields \in FieldMaps(S) /\ l.entries \in Seq(RegistryEntries(S))
  BY DEF Loadings
<1>2. NoFields \in FieldMaps(S)
  BY DEF NoFields, FieldMaps
<1>3. FieldsToEntry(l.fields) # {} =>
         Append(l.entries, CHOOSE e \in FieldsToEntry(l.fields) : TRUE) \in Seq(RegistryEntries(S))
  <2>1. FieldsToEntry(l.fields) \subseteq RegistryEntries(S)
    BY <1>1, EntryIsTyped
  <2>2. FieldsToEntry(l.fields) # {} => (CHOOSE e \in FieldsToEntry(l.fields) : TRUE) \in RegistryEntries(S)
    BY <2>1
  <2> QED BY <1>1, <2>2, AppendProperties
<1> QED BY <1>1, <1>2, <1>3 DEF Flush, Loadings

LEMMA LoadLineTyped ==
  ASSUME NEW S, HasMarks(S)
  PROVE  /\ NothingLoaded \in Loadings(S)
         /\ \A l \in Loadings(S), line \in Seq(S) : LoadLine(l, line) \in Loadings(S)
<1>1. NothingLoaded \in Loadings(S)
  <2>1. NoFields \in [{} -> Seq(S)]
    BY DEF NoFields
  <2>2. NoFields \in FieldMaps(S)
    BY <2>1 DEF FieldMaps
  <2> QED BY <2>2, EmptySeq DEF Loadings, NothingLoaded
<1>2. ASSUME NEW l \in Loadings(S), NEW line \in Seq(S) PROVE LoadLine(l, line) \in Loadings(S)
  <2>1. Flush(l) \in Loadings(S)
    BY FlushTyped
  <2>2. l.ok \in BOOLEAN /\ l.fields \in FieldMaps(S) /\ l.entries \in Seq(RegistryEntries(S))
        /\ l = [ok |-> l.ok, fields |-> l.fields, entries |-> l.entries]
    BY DEF Loadings
  <2>3. [l EXCEPT !.ok = FALSE] \in Loadings(S)
    BY <2>2 DEF Loadings
  <2>4. ASSUME line[1] \in ToSet(Keys)
        PROVE  [l EXCEPT !.fields = [k \in DOMAIN @ \cup {line[1]} |->
                                       IF k = line[1] THEN SubSeq(line, 3, Len(line)) ELSE @[k]]] \in Loadings(S)
    <3>1. SubSeq(line, 3, Len(line)) \in Seq(S)
      OBVIOUS
    <3>2. [k \in DOMAIN l.fields \cup {line[1]} |->
             IF k = line[1] THEN SubSeq(line, 3, Len(line)) ELSE l.fields[k]] \in FieldMaps(S)
      BY <2>2, <2>4, <3>1, FieldIsAdded
    <3> QED BY <2>2, <3>2 DEF Loadings
  <2> QED BY <2>1, <2>3, <2>4 DEF LoadLine
<1> QED BY <1>1, <1>2

LEMMA LoadFolds ==
  ASSUME NEW S, HasMarks(S)
  PROVE  /\ LoadAll(<<>>) = NothingLoaded
         /\ \A s \in Seq(Seq(S)) : LoadAll(s) \in Loadings(S)
         /\ \A s \in Seq(Seq(S)), c \in Seq(S) : LoadAll(Append(s, c)) = LoadLine(LoadAll(s), c)
<1> DEFINE After(s) == CHOOSE f : f = [n \in 0..Len(s) |-> IF n = 0 THEN [ok |-> TRUE, fields |-> NoFields, entries |-> <<>>] ELSE LoadLine(f[n - 1], s[n])]
           X == Loadings(S)
           step == [c \in Seq(S) |-> [d \in X |-> LoadLine(d, c)]]
           F == [s \in Seq(Seq(S)) |-> After(s)]
           R == [s \in Seq(Seq(S)) |-> LoadAll(s)]
<1>1. step \in [Seq(S) -> [X -> X]] /\ NothingLoaded \in X
  BY LoadLineTyped
<1>2. ASSUME NEW s \in Seq(Seq(S))
      PROVE  After(s) = [n \in 0..Len(s) |-> IF n = 0 THEN NothingLoaded ELSE LoadLine(After(s)[n - 1], s[n])]
  <2> HIDE DEF X
  <2>1. \A n \in 1..Len(s) : n - 1 \in 0..Len(s) /\ s[n] \in Seq(S)
    OBVIOUS
  <2>2. PICK f \in [0..Len(s) -> X] : f[0] = NothingLoaded /\ \A n \in 1..Len(s) : f[n] = step[s[n]][f[n - 1]]
    <3> HIDE DEF step
    <3>1. \E f : Follows(f, s, X, NothingLoaded, step)
      BY <1>1, Steps
    <3> QED BY <3>1 DEF Follows
  <2>3. \A n \in 0..Len(s) : f[n] = IF n = 0 THEN NothingLoaded ELSE LoadLine(f[n - 1], s[n])
    <3>1. \A n \in 0..Len(s) : n = 0 \/ n \in 1..Len(s)
      OBVIOUS
    <3>2. \A n \in 1..Len(s) : f[n] = LoadLine(f[n - 1], s[n])
      BY <2>1, <2>2
    <3> QED BY <2>2, <3>1, <3>2
  <2>4. f = [n \in 0..Len(s) |-> IF n = 0 THEN NothingLoaded ELSE LoadLine(f[n - 1], s[n])]
    <3>1. f = [n \in 0..Len(s) |-> f[n]]
      OBVIOUS
    <3> QED BY <2>3, <3>1, Zenon
  <2> QED BY <2>4, Zenon DEF NothingLoaded
<1>3. ASSUME NEW s \in Seq(Seq(S))
      PROVE  /\ R[s] = F[s][Len(s)] /\ F[s][0] = NothingLoaded
             /\ \A n \in 1..Len(s) : F[s][n - 1] \in X => F[s][n] = step[s[n]][F[s][n - 1]]
  <2>1. F[s] = After(s) /\ R[s] = LoadAll(s)
    BY Zenon
  <2>2. LoadAll(s) = After(s)[Len(s)]
    BY Zenon DEF LoadAll
  <2> HIDE DEF X, F, R, After
  <2>3. \A n \in 0..Len(s) : F[s][n] = IF n = 0 THEN NothingLoaded ELSE LoadLine(F[s][n - 1], s[n])
    <3>1. \A n \in 0..Len(s) : After(s)[n] = IF n = 0 THEN NothingLoaded ELSE LoadLine(After(s)[n - 1], s[n])
      BY <1>2, Zenon
    <3> QED BY <2>1, <3>1, Zenon
  <2>4. 0 \in 0..Len(s) /\ \A n \in 1..Len(s) : n \in 0..Len(s) /\ n # 0 /\ s[n] \in Seq(S)
    OBVIOUS
  <2> QED BY <2>1, <2>2, <2>3, <2>4
<1>4. /\ R[<<>>] = NothingLoaded
      /\ \A s \in Seq(Seq(S)) : R[s] \in X
      /\ \A s \in Seq(Seq(S)), c \in Seq(S) : R[Append(s, c)] = step[c][R[s]]
  <2> HIDE DEF R, F, X, step
  <2>1. Folds(R, F, Seq(S), X, NothingLoaded, step)
    BY <1>1, <1>3 DEF Folds
  <2> QED BY <2>1, Folded
<1>5. \A s \in Seq(Seq(S)) : LoadAll(s) = R[s]
  BY Zenon
<1> HIDE DEF R, X
<1>6. <<>> \in Seq(Seq(S)) /\ \A s \in Seq(Seq(S)), c \in Seq(S) : Append(s, c) \in Seq(Seq(S))
  OBVIOUS
<1>7. ASSUME NEW s \in Seq(Seq(S)), NEW c \in Seq(S) PROVE R[Append(s, c)] = LoadLine(R[s], c)
  BY <1>4
<1> HIDE DEF step
<1>8. ASSUME NEW s \in Seq(Seq(S)), NEW c \in Seq(S) PROVE LoadAll(Append(s, c)) = LoadLine(LoadAll(s), c)
  BY <1>5, <1>6, <1>7, Zenon
<1>9. LoadAll(<<>>) = NothingLoaded /\ \A s \in Seq(Seq(S)) : LoadAll(s) \in X
  BY <1>4, <1>5, <1>6, Zenon
<1> QED BY <1>8, <1>9 DEF X

(* What a further sequence adds to a concatenation.                        *)
LEMMA FlattenFolds ==
  ASSUME NEW S
  PROVE  /\ FlattenSeq(<<>>) = <<>>
         /\ \A ss \in Seq(Seq(S)) : FlattenSeq(ss) \in Seq(S)
         /\ \A ss \in Seq(Seq(S)), x \in Seq(S) : FlattenSeq(Append(ss, x)) = FlattenSeq(ss) \o x
<1> DEFINE Flat(ss) == CHOOSE f : f = [i \in 1..Len(ss) |-> IF i = 1 THEN ss[i] ELSE f[i - 1] \o ss[i]]
           X == Seq(S)
           step == [x \in X |-> [y \in X |-> y \o x]]
           F == [ss \in Seq(X) |-> [n \in 0..Len(ss) |-> IF n = 0 THEN <<>> ELSE Flat(ss)[n]]]
           R == [ss \in Seq(X) |-> FlattenSeq(ss)]
<1>1. step \in [X -> [X -> X]] /\ <<>> \in X
  BY ConcatProperties, EmptySeq
<1>2. ASSUME NEW ss \in Seq(X)
      PROVE  Flat(ss) = [i \in 1..Len(ss) |-> IF i = 1 THEN ss[i] ELSE Flat(ss)[i - 1] \o ss[i]]
  <2>1. PICK f \in [0..Len(ss) -> X] : f[0] = <<>> /\ \A n \in 1..Len(ss) : f[n] = step[ss[n]][f[n - 1]]
    <3> HIDE DEF step, X
    <3>1. \E f : Follows(f, ss, X, <<>>, step)
      BY <1>1, Steps
    <3> QED BY <3>1 DEF Follows
  <2>2. \A n \in 1..Len(ss) : n - 1 \in 0..Len(ss) /\ ss[n] \in X
    <3> HIDE DEF X
    <3> QED OBVIOUS
  <2>3. \A n \in 1..Len(ss) : f[n] = f[n - 1] \o ss[n]
    <3> HIDE DEF X
    <3> QED BY <2>1, <2>2
  <2> DEFINE g == [i \in 1..Len(ss) |-> f[i]]
  <2>4. ASSUME NEW i \in 1..Len(ss) PROVE g[i] = IF i = 1 THEN ss[i] ELSE g[i - 1] \o ss[i]
    <3>1. CASE i = 1
      <4>1. f[i] = f[i - 1] \o ss[i] /\ ss[i] \in Seq(S)
        BY <2>2, <2>3, Zenon
      <4>2. f[i - 1] = <<>>
        <5>1. i - 1 = 0
          BY <3>1
        <5> QED BY <2>1, <5>1
      <4>3. <<>> \o ss[i] = ss[i]
        BY <4>1, ConcatEmptySeq
      <4> QED BY <3>1, <4>1, <4>2, <4>3, Zenon
    <3>2. CASE i # 1
      <4>1. i - 1 \in 1..Len(ss)
        BY <3>2
      <4> QED BY <2>3, <3>2, <4>1
    <3> QED BY <3>1, <3>2
  <2>5. g = [i \in 1..Len(ss) |-> g[i]]
    OBVIOUS
  <2> HIDE DEF g
  <2>6. g = [i \in 1..Len(ss) |-> IF i = 1 THEN ss[i] ELSE g[i - 1] \o ss[i]]
    BY <2>4, <2>5, Zenon
  <2> QED BY <2>6, Zenon
<1>3. ASSUME NEW ss \in Seq(X)
      PROVE  /\ R[ss] = F[ss][Len(ss)] /\ F[ss][0] = <<>>
             /\ \A n \in 1..Len(ss) : F[ss][n - 1] \in X => F[ss][n] = step[ss[n]][F[ss][n - 1]]
  <2>2. Len(ss) # 0 => FlattenSeq(ss) = Flat(ss)[Len(ss)]
    BY Zenon DEF FlattenSeq
  <2> HIDE DEF Flat
  <2>4. \A n \in 1..Len(ss) : Flat(ss)[n] = IF n = 1 THEN ss[n] ELSE Flat(ss)[n - 1] \o ss[n]
    BY <1>2, Zenon
  <2> HIDE DEF X
  <2>1. /\ Len(ss) \in Nat /\ (Len(ss) = 0 => ss = <<>>)
        /\ \A n \in 1..Len(ss) : n - 1 \in 0..Len(ss) /\ ss[n] \in X
    OBVIOUS
  <2>3. Len(ss) = 0 => FlattenSeq(ss) = ss
    BY Zenon DEF FlattenSeq
  <2>5. F[ss] = [n \in 0..Len(ss) |-> IF n = 0 THEN <<>> ELSE Flat(ss)[n]] /\ R[ss] = FlattenSeq(ss)
    BY Zenon
  <2> HIDE DEF F, R
  <2>6. F[ss][0] = <<>> /\ \A n \in 1..Len(ss) : F[ss][n] = Flat(ss)[n]
    BY <2>1, <2>5
  <2>7. R[ss] = F[ss][Len(ss)]
    BY <2>1, <2>2, <2>3, <2>5, <2>6
  <2>8. ASSUME NEW n \in 1..Len(ss), F[ss][n - 1] \in X PROVE F[ss][n] = step[ss[n]][F[ss][n - 1]]
    <3>1. step[ss[n]][F[ss][n - 1]] = F[ss][n - 1] \o ss[n]
      BY <2>1, <2>8
    <3>2. CASE n = 1
      <4>1. F[ss][0] \o ss[1] = ss[1]
        BY <2>1, <2>6, <3>2, ConcatEmptySeq DEF X
      <4>2. F[ss][1] = ss[1]
        BY <2>4, <2>6, <3>2
      <4> HIDE DEF step
      <4>3. n - 1 = 0
        BY <3>2
      <4> QED BY <3>1, <3>2, <4>1, <4>2, <4>3
    <3>3. CASE n # 1
      <4>1. n - 1 \in 1..Len(ss)
        BY <3>3
      <4>2. F[ss][n] = Flat(ss)[n - 1] \o ss[n] /\ F[ss][n - 1] = Flat(ss)[n - 1]
        BY <2>4, <2>6, <3>3, <4>1
      <4> QED BY <3>1, <4>2
    <3> QED BY <3>2, <3>3
  <2> QED BY <2>6, <2>7, <2>8
<1>4. /\ R[<<>>] = <<>>
      /\ \A ss \in Seq(X) : R[ss] \in X
      /\ \A ss \in Seq(X), x \in X : R[Append(ss, x)] = step[x][R[ss]]
  <2> HIDE DEF R, F, X, step
  <2>1. Folds(R, F, X, X, <<>>, step)
    BY <1>1, <1>3 DEF Folds
  <2> QED BY <2>1, Folded
<1>5. \A ss \in Seq(X) : FlattenSeq(ss) = R[ss]
  BY Zenon
<1> HIDE DEF R, X
<1>6. <<>> \in Seq(X) /\ \A ss \in Seq(X), x \in X : Append(ss, x) \in Seq(X)
  OBVIOUS
<1>7. ASSUME NEW ss \in Seq(X), NEW x \in X PROVE R[Append(ss, x)] = R[ss] \o x
  BY <1>4
<1> HIDE DEF step
<1>8. ASSUME NEW ss \in Seq(X), NEW x \in X PROVE FlattenSeq(Append(ss, x)) = FlattenSeq(ss) \o x
  BY <1>5, <1>6, <1>7, Zenon
<1>9. FlattenSeq(<<>>) = <<>> /\ \A ss \in Seq(X) : FlattenSeq(ss) \in X
  BY <1>4, <1>5, <1>6, Zenon
<1> QED BY <1>8, <1>9 DEF X

(* A property of a sequence that is empty and of every one that is a       *)
(* character longer, for the set T of the sequences that have it.          *)
LEMMA AppendInduction ==
  ASSUME NEW S, NEW T, <<>> \in T, \A s \in Seq(S), c \in S : s \in T => Append(s, c) \in T
  PROVE  Seq(S) \subseteq T
<1> DEFINE U == {n \in Nat : \A s \in Seq(S) : Len(s) = n => s \in T}
<1>1. 0 \in U
  OBVIOUS
<1>2. ASSUME NEW n \in U PROVE n + 1 \in U
  <2>1. ASSUME NEW s \in Seq(S), Len(s) = n + 1 PROVE s \in T
    <3>1. s # <<>>
      BY <2>1
    <3>2. PICK r \in Seq(S), c \in S : s = Append(r, c)
      BY <3>1, SequenceEmptyOrAppend
    <3>3. Len(r) = n
      BY <2>1, <3>2
    <3> QED BY <3>2, <3>3
  <2> QED BY <2>1
<1>3. U = Nat
  <2> HIDE DEF U
  <2>1. U \in SUBSET Nat
    BY DEF U
  <2> QED BY <1>1, <1>2, <2>1, SetInduction
<1> QED BY <1>3

\* No line ends in s.
OneLine(s) == \A n \in DOMAIN s : s[n] # NewLine
Beginning(x, y) == \E k \in 0..Len(y) : x = SubSeq(y, 1, k)

LEMMA MarksAre ==
  ASSUME NEW S, HasMarks(S)
  PROVE  /\ {Percent, Equals, NewLine, Escaped, Letter, MagicLine, IdKey, PathKey, StatusKey, ChecksumKey} \subseteq S
         /\ ToSet(Digits) \subseteq S /\ ToSet(Keys) \subseteq S
         /\ NewLine \notin {Percent, Equals, MagicLine} \cup ToSet(Keys) \cup ToSet(Digits)
<1>1. Special \cup {Letter, MagicLine} \cup ToSet(Keys) \cup ToSet(Digits) \subseteq S
  BY DEF HasMarks
<1>2. NewLine \notin {Percent, Equals, MagicLine} \cup ToSet(Keys) \cup ToSet(Digits)
  BY TextAssumption
<1> QED BY <1>1, <1>2, KeysAre DEF Special

(* Short sequences, one element at a time.                                 *)
LEMMA Shorts ==
  ASSUME NEW S, NEW p \in S, NEW h \in S, NEW l \in S
  PROVE  /\ <<p>> \o <<h, l>> = <<p, h, l>> /\ Append(<<p>>, h) = <<p, h>>
         /\ <<p>> # <<>> /\ <<p, h>> # <<>> /\ Len(<<p>>) = 1 /\ Len(<<p, h>>) = 2
<1>1. /\ <<p>> \in Seq(S) /\ Len(<<p>>) = 1 /\ <<h, l>> \in Seq(S) /\ Len(<<h, l>>) = 2
      /\ <<p, h, l>> \in Seq(S) /\ Len(<<p, h, l>>) = 3 /\ <<p, h>> \in Seq(S) /\ Len(<<p, h>>) = 2
  OBVIOUS
<1>2. <<p>> \o <<h, l>> = <<p, h, l>>
  <2>1. Len(<<p>> \o <<h, l>>) = 3 /\ <<p>> \o <<h, l>> \in Seq(S)
    BY <1>1, ConcatProperties
  <2>2. \A i \in 1..3 : (<<p>> \o <<h, l>>)[i] = <<p, h, l>>[i]
    <3>1. \A i \in 1..3 : (<<p>> \o <<h, l>>)[i] = IF i <= 1 THEN <<p>>[i] ELSE <<h, l>>[i - 1]
      BY <1>1, ConcatProperties
    <3> QED BY <3>1
  <2> QED BY <1>1, <2>1, <2>2, SeqEqual
<1>3. Append(<<p>>, h) = <<p, h>>
  <2> DEFINE x == Append(<<p>>, h)
             y == <<p, h>>
  <2>1. Len(x) = 2 /\ x \in Seq(S) /\ x[1] = p /\ x[2] = h
    BY <1>1, AppendProperties
  <2>2. Len(y) = 2 /\ y \in Seq(S) /\ y[1] = p /\ y[2] = h
    OBVIOUS
  <2> HIDE DEF x, y
  <2>3. \A i \in 1..2 : x[i] = y[i]
    BY <2>1, <2>2
  <2>4. x = y
    BY <2>1, <2>2, <2>3, SeqEqual
  <2> QED BY <2>4 DEF x, y
<1> QED BY <1>1, <1>2, <1>3

(* An escape is two digits behind the mark that tell which character it is.*)
LEMMA CodesAre ==
  ASSUME NEW c \in Special
  PROVE  /\ Code[c][1] \in ToSet(Digits) /\ Code[c][2] \in ToSet(Digits)
         /\ Code[c] = <<Code[c][1], Code[c][2]>>
         /\ Unescape(<<Code[c][1], Code[c][2]>>) = c
<1> HIDE DEF Special
<1>1. Code[c] \in [1..2 -> ToSet(Digits)] /\ \A a, b \in Special : Code[a] = Code[b] => a = b
  BY TextAssumption DEF IsInjective
<1>2. Code[c] = <<Code[c][1], Code[c][2]>>
  <2>1. ASSUME NEW D, NEW f \in [1..2 -> D] PROVE f = <<f[1], f[2]>>
    <3>1. \A n \in Nat : \A g \in [1..n -> D] : g \in Seq(D) /\ Len(g) = n
      OBVIOUS
    <3>2. f \in Seq(D) /\ Len(f) = 2
      BY <3>1
    <3>3. <<f[1], f[2]>> \in Seq(D) /\ Len(<<f[1], f[2]>>) = 2
      OBVIOUS
    <3> QED BY <3>2, <3>3, SeqEqual
  <2> QED BY <1>1, <2>1
<1>3. Unescape(Code[c]) = c
  BY <1>1 DEF Unescape
<1> QED BY <1>1, <1>2, <1>3

LEMMA EscapeIs ==
  ASSUME NEW S, HasMarks(S), NEW c \in S
  PROVE  Escape(c) \in Seq(S) /\ OneLine(Escape(c))
<1>1. CASE c \in Special
  <2>1. Escape(c) = <<Percent>> \o Code[c]
    BY <1>1 DEF Escape
  <2>2. Code[c] = <<Code[c][1], Code[c][2]>> /\ Code[c][1] \in ToSet(Digits) /\ Code[c][2] \in ToSet(Digits)
    BY <1>1, CodesAre
  <2>3. Code[c][1] \in S /\ Code[c][2] \in S /\ Percent \in S
        /\ Percent # NewLine /\ Code[c][1] # NewLine /\ Code[c][2] # NewLine
    BY <2>2, MarksAre
  <2>4. Escape(c) = <<Percent, Code[c][1], Code[c][2]>>
    <3>1. \A p, h, l \in S : <<p>> \o <<h, l>> = <<p, h, l>>
      BY Shorts
    <3>2. Percent \in S
      BY MarksAre
    <3> QED BY <2>1, <2>2, <2>3, <3>1, <3>2, Zenon
  <2> QED BY <2>3, <2>4 DEF OneLine
<1>2. CASE c \notin Special
  <2>1. Escape(c) = <<c>> /\ c # NewLine
    BY <1>2 DEF Escape, Special
  <2> QED BY <2>1 DEF OneLine
<1> QED BY <1>1, <1>2

LEMMA EncodeFolds ==
  ASSUME NEW S, HasMarks(S)
  PROVE  /\ PercentEncode(<<>>) = <<>>
         /\ \A s \in Seq(S) : PercentEncode(s) \in Seq(S)
         /\ \A s \in Seq(S), c \in S : PercentEncode(Append(s, c)) = PercentEncode(s) \o Escape(c)
<1> DEFINE E(s) == [n \in DOMAIN s |-> Escape(s[n])]
<1>1. ASSUME NEW s \in Seq(S) PROVE E(s) \in Seq(Seq(S)) /\ Len(E(s)) = Len(s)
  <2>1. \A n \in 1..Len(s) : Escape(s[n]) \in Seq(S)
    BY EscapeIs
  <2>2. DOMAIN s = 1..Len(s) /\ Len(s) \in Nat
    OBVIOUS
  <2>3. E(s) \in [1..Len(s) -> Seq(S)]
    BY <2>1, <2>2
  <2> HIDE DEF E
  <2> QED BY <2>2, <2>3
<1>2. ASSUME NEW s \in Seq(S), NEW c \in S PROVE E(Append(s, c)) = Append(E(s), Escape(c))
  <2> DEFINE x == E(Append(s, c))
             y == Append(E(s), Escape(c))
  <2>1. /\ Append(s, c) \in Seq(S) /\ Len(Append(s, c)) = Len(s) + 1 /\ Append(s, c)[Len(s) + 1] = c
        /\ Len(s) \in Nat /\ \A n \in 1..Len(s) : Append(s, c)[n] = s[n]
    BY AppendProperties
  <2>2. x \in Seq(Seq(S)) /\ Len(x) = Len(s) + 1
    BY <1>1, <2>1
  <2>3. DOMAIN s = 1..Len(s) /\ DOMAIN Append(s, c) = 1..(Len(s) + 1)
    BY <2>1
  <2>4. \A n \in 1..Len(s) : x[n] = Escape(s[n]) /\ E(s)[n] = Escape(s[n])
    <3>1. \A n \in 1..Len(s) : n \in 1..(Len(s) + 1)
      BY <2>1
    <3> QED BY <2>1, <2>3, <3>1
  <2>5. x[Len(s) + 1] = Escape(c)
    BY <2>1, <2>3
  <2>6. E(s) \in Seq(Seq(S)) /\ Len(E(s)) = Len(s) /\ Escape(c) \in Seq(S)
    BY <1>1, EscapeIs
  <2> HIDE DEF E
  <2>7. /\ y \in Seq(Seq(S)) /\ Len(y) = Len(s) + 1 /\ y[Len(s) + 1] = Escape(c)
        /\ \A n \in 1..Len(s) : y[n] = E(s)[n]
    BY <2>6, AppendProperties
  <2> HIDE DEF x, y
  <2>8. \A n \in 1..(Len(s) + 1) : x[n] = y[n]
    <3>1. \A n \in 1..(Len(s) + 1) : n \in 1..Len(s) \/ n = Len(s) + 1
      BY <2>1
    <3> QED BY <2>4, <2>5, <2>7, <3>1
  <2>9. x = y
    BY <2>2, <2>7, <2>8, SeqEqual
  <2> QED BY <2>9 DEF x, y
<1>3. E(<<>>) = <<>>
  BY <1>1
<1>4. \A s : PercentEncode(s) = FlattenSeq(E(s))
  BY DEF PercentEncode
<1> HIDE DEF E
<1>5. PercentEncode(<<>>) = <<>>
  BY <1>3, <1>4, FlattenFolds
<1>6. \A s \in Seq(S) : PercentEncode(s) \in Seq(S)
  BY <1>1, <1>4, FlattenFolds
<1>7. ASSUME NEW s \in Seq(S), NEW c \in S PROVE PercentEncode(Append(s, c)) = PercentEncode(s) \o Escape(c)
  <2>1. FlattenSeq(Append(E(s), Escape(c))) = FlattenSeq(E(s)) \o Escape(c)
    BY <1>1, EscapeIs, FlattenFolds
  <2> QED BY <1>2, <1>4, <2>1, Zenon
<1> QED BY <1>5, <1>6, <1>7

LEMMA OneLineJoins ==
  ASSUME NEW S, NEW s \in Seq(S), NEW t \in Seq(S), OneLine(s), OneLine(t)
  PROVE  OneLine(s \o t)
<1>1. DOMAIN (s \o t) = 1..(Len(s) + Len(t)) /\ DOMAIN s = 1..Len(s) /\ DOMAIN t = 1..Len(t)
  OBVIOUS
<1>2. ASSUME NEW n \in 1..(Len(s) + Len(t)) PROVE (s \o t)[n] # NewLine
  <2>1. (s \o t)[n] = IF n <= Len(s) THEN s[n] ELSE t[n - Len(s)]
    BY ConcatProperties
  <2>2. IF n <= Len(s) THEN n \in 1..Len(s) ELSE n - Len(s) \in 1..Len(t)
    OBVIOUS
  <2> QED BY <1>1, <2>1, <2>2 DEF OneLine
<1> QED BY <1>1, <1>2 DEF OneLine

(* A field as it is written has no end of line in it.                      *)
LEMMA EncodedIsOneLine ==
  ASSUME NEW S, HasMarks(S), NEW s \in Seq(S)
  PROVE  OneLine(PercentEncode(s))
<1> DEFINE T == {r \in Seq(S) : OneLine(PercentEncode(r))}
<1>1. <<>> \in T
  BY EncodeFolds DEF OneLine
<1>2. ASSUME NEW r \in Seq(S), NEW c \in S, r \in T PROVE Append(r, c) \in T
  <2>0. Append(r, c) \in Seq(S)
    OBVIOUS
  <2>1. /\ PercentEncode(Append(r, c)) = PercentEncode(r) \o Escape(c) /\ PercentEncode(r) \in Seq(S)
        /\ Escape(c) \in Seq(S) /\ OneLine(Escape(c)) /\ OneLine(PercentEncode(r))
    BY <1>2, EncodeFolds, EscapeIs
  <2>2. OneLine(PercentEncode(r) \o Escape(c))
    BY <2>1, OneLineJoins
  <2> QED BY <2>0, <2>1, <2>2
<1>3. Seq(S) \subseteq T
  <2> HIDE DEF T
  <2> QED BY <1>1, <1>2, AppendInduction
<1> QED BY <1>3

Decoded(s) == [ok |-> TRUE, escape |-> <<>>, out |-> s]

(* Behind what was decoded, a written character is decoded to itself.      *)
LEMMA EscapeDecodes ==
  ASSUME NEW S, HasMarks(S), NEW t \in Seq(S), NEW s \in Seq(S), NEW c \in S, DecodeAll(t) = Decoded(s)
  PROVE  DecodeAll(t \o Escape(c)) = Decoded(Append(s, c))
<1>1. CASE c \in Special
  <2> DEFINE h == Code[c][1]
             l == Code[c][2]
  <2>1. /\ Escape(c) = <<Percent>> \o Code[c] /\ Code[c] = <<h, l>> /\ Unescape(<<h, l>>) = c
        /\ h \in ToSet(Digits) /\ l \in ToSet(Digits)
    BY <1>1, CodesAre DEF Escape
  <2>2. h \in S /\ l \in S /\ Percent \in S
    BY <2>1, MarksAre
  <2> HIDE DEF h, l
  <2>3. t \o Escape(c) = Append(Append(Append(t, Percent), h), l)
    BY <2>1, <2>2
  <2>4. DecodeChar(Decoded(s), Percent) = [ok |-> TRUE, escape |-> <<Percent>>, out |-> s]
    BY DEF DecodeChar, Decoded
  <2>5. DecodeChar([ok |-> TRUE, escape |-> <<Percent>>, out |-> s], h)
          = [ok |-> TRUE, escape |-> <<Percent, h>>, out |-> s]
    <3>1. <<Percent>> # <<>> /\ Len(<<Percent>>) = 1 /\ Append(<<Percent>>, h) = <<Percent, h>>
      BY <2>2, Shorts
    <3> QED BY <2>1, <3>1 DEF DecodeChar
  <2>6. DecodeChar([ok |-> TRUE, escape |-> <<Percent, h>>, out |-> s], l) = Decoded(Append(s, c))
    <3>1. <<Percent, h>> # <<>> /\ Len(<<Percent, h>>) = 2 /\ <<Percent, h>>[2] = h
      BY <2>2, Shorts
    <3> DEFINE d == [ok |-> TRUE, escape |-> <<Percent, h>>, out |-> s]
    <3>2. d.escape = <<Percent, h>> /\ d.out = s
      OBVIOUS
    <3>3. <<d.escape[2], l>> = <<h, l>>
      BY <3>1, <3>2, Zenon
    <3>4. d.escape # <<>> /\ Len(d.escape) # 1
      BY <3>1, <3>2
    <3>5. DecodeChar(d, l) = [d EXCEPT !.escape = <<>>, !.out = Append(@, Unescape(<<d.escape[2], l>>))]
      <4> HIDE DEF d
      <4> QED BY <2>1, <3>4 DEF DecodeChar
    <3>6. DecodeChar(d, l) = [d EXCEPT !.escape = <<>>, !.out = Append(s, c)]
      <4> HIDE DEF d
      <4> QED BY <2>1, <3>2, <3>3, <3>5
    <3> QED BY <3>6 DEF Decoded
  <2>7. Append(t, Percent) \in Seq(S) /\ Append(Append(t, Percent), h) \in Seq(S)
    BY <2>2
  <2>8. DecodeAll(Append(t, Percent)) = [ok |-> TRUE, escape |-> <<Percent>>, out |-> s]
    BY <2>2, <2>4, DecodeFolds
  <2>9. DecodeAll(Append(Append(t, Percent), h)) = [ok |-> TRUE, escape |-> <<Percent, h>>, out |-> s]
    BY <2>2, <2>5, <2>7, <2>8, DecodeFolds
  <2>10. DecodeAll(Append(Append(Append(t, Percent), h), l)) = Decoded(Append(s, c))
    BY <2>2, <2>6, <2>7, <2>9, DecodeFolds
  <2> QED BY <2>3, <2>10
<1>2. CASE c \notin Special
  <2>1. Escape(c) = <<c>> /\ c # Percent
    BY <1>2 DEF Escape, Special
  <2>2. t \o Escape(c) = Append(t, c)
    BY <2>1
  <2>3. DecodeChar(Decoded(s), c) = Decoded(Append(s, c))
    BY <2>1 DEF DecodeChar, Decoded
  <2> QED BY <2>2, <2>3, DecodeFolds
<1> QED BY <1>1, <1>2

(* Whatever characters a field has, it is decoded to what was encoded.     *)
LEMMA DecodesTheEncoded ==
  ASSUME NEW S, HasMarks(S), NEW s \in Seq(S)
  PROVE  DecodeAll(PercentEncode(s)) = Decoded(s)
<1> DEFINE T == {r \in Seq(S) : DecodeAll(PercentEncode(r)) = Decoded(r)}
<1>1. <<>> \in T
  BY EncodeFolds, DecodeFolds DEF NothingDecoded, Decoded
<1>2. ASSUME NEW r \in Seq(S), NEW c \in S, r \in T PROVE Append(r, c) \in T
  <2>0. Append(r, c) \in Seq(S)
    OBVIOUS
  <2>1. PercentEncode(Append(r, c)) = PercentEncode(r) \o Escape(c) /\ PercentEncode(r) \in Seq(S)
    BY EncodeFolds
  <2>2. DecodeAll(PercentEncode(r) \o Escape(c)) = Decoded(Append(r, c))
    BY <1>2, <2>1, EscapeDecodes
  <2> QED BY <2>0, <2>1, <2>2
<1>3. Seq(S) \subseteq T
  <2> HIDE DEF T
  <2> QED BY <1>1, <1>2, AppendInduction
<1> QED BY <1>3

LEMMA CutOfLonger ==
  ASSUME NEW S, NEW t \in Seq(S), NEW c \in S, NEW n \in 0..Len(t)
  PROVE  SubSeq(Append(t, c), 1, n) = SubSeq(t, 1, n)
<1>1. Append(t, c) \in Seq(S) /\ Len(Append(t, c)) = Len(t) + 1 /\ \A i \in 1..Len(t) : Append(t, c)[i] = t[i]
  BY AppendProperties
<1> DEFINE r == Append(t, c)
           x == SubSeq(r, 1, n)
           y == SubSeq(t, 1, n)
<1> HIDE DEF r
<1>2. x \in Seq(S) /\ Len(x) = n /\ \A i \in 1..n : x[i] = t[i]
  BY <1>1 DEF r
<1>3. y \in Seq(S) /\ Len(y) = n /\ \A i \in 1..n : y[i] = t[i]
  OBVIOUS
<1> HIDE DEF x, y
<1>4. x = y
  BY <1>2, <1>3, SeqEqual
<1> QED BY <1>4 DEF x, y, r

LEMMA BeginningGrows ==
  ASSUME NEW S, NEW y \in Seq(S)
  PROVE  Beginning(y, y) /\ \A c \in S : \A x : Beginning(x, y) => Beginning(x, Append(y, c))
<1>1. Beginning(y, y)
  <2>1. Len(y) \in 0..Len(y) /\ SubSeq(y, 1, Len(y)) = y
    BY SubSeqFull
  <2> QED BY <2>1 DEF Beginning
<1>2. ASSUME NEW c \in S, NEW x, Beginning(x, y) PROVE Beginning(x, Append(y, c))
  <2>1. PICK k \in 0..Len(y) : x = SubSeq(y, 1, k)
    BY <1>2 DEF Beginning
  <2>2. k \in 0..Len(Append(y, c)) /\ x = SubSeq(Append(y, c), 1, k)
    <3>1. Len(Append(y, c)) = Len(y) + 1 /\ Len(y) \in Nat
      BY AppendProperties
    <3> QED BY <2>1, <3>1, CutOfLonger
  <2> QED BY <2>2 DEF Beginning
<1> QED BY <1>1, <1>2

(* What was decoded of a field that is cut off is how the whole begins.    *)
LEMMA DecodesABeginning ==
  ASSUME NEW S, HasMarks(S), NEW t \in Seq(S), NEW n \in 0..Len(t)
  PROVE  Beginning(DecodeAll(SubSeq(t, 1, n)).out, DecodeAll(t).out)
<1> DEFINE Good(r, k) == Beginning(DecodeAll(SubSeq(r, 1, k)).out, DecodeAll(r).out)
           T == {r \in Seq(S) : \A k \in 0..Len(r) : Good(r, k)}
<1>1. \A r \in Seq(S) : DecodeAll(r).out \in Seq(S) /\ SubSeq(r, 1, Len(r)) = r
  BY DecodeFolds, SubSeqFull DEF Decoders
<1>2. \A r \in Seq(S) : Good(r, Len(r))
  <2>1. ASSUME NEW r \in Seq(S) PROVE Good(r, Len(r))
    <3>1. Beginning(DecodeAll(r).out, DecodeAll(r).out)
      BY <1>1, BeginningGrows
    <3> QED BY <1>1, <3>1, Zenon
  <2> HIDE DEF Good
  <2> QED BY <2>1
<1>3. ASSUME NEW r \in Seq(S), NEW c \in S, NEW k \in 0..Len(r), Good(r, k) PROVE Good(Append(r, c), k)
  <2>1. SubSeq(Append(r, c), 1, k) = SubSeq(r, 1, k)
    BY CutOfLonger
  <2>2. DecodeAll(Append(r, c)) = DecodeChar(DecodeAll(r), c)
    BY DecodeFolds
  <2>3. DecodeChar(DecodeAll(r), c).out = DecodeAll(r).out
        \/ \E e \in S : DecodeChar(DecodeAll(r), c).out = Append(DecodeAll(r).out, e)
    <3> DEFINE d == DecodeAll(r)
    <3>1. Unescape(<<d.escape[2], c>>) \in S /\ d \in Decoders(S)
      BY UnescapedIs, DecodeFolds
    <3> HIDE DEF d
    <3>2. DecodeChar(d, c).out = d.out \/ \E e \in S : DecodeChar(d, c).out = Append(d.out, e)
      BY <3>1 DEF DecodeChar, Decoders
    <3> QED BY <3>2 DEF d
  <2>4. \A e \in S : Beginning(DecodeAll(SubSeq(r, 1, k)).out, Append(DecodeAll(r).out, e))
    BY <1>1, <1>3, BeginningGrows
  <2> QED BY <1>3, <2>1, <2>2, <2>3, <2>4
<1> HIDE DEF Good
<1>4. <<>> \in T
  <2>1. Len(<<>>) = 0 /\ <<>> \in Seq(S)
    OBVIOUS
  <2>2. Good(<<>>, 0)
    BY <1>2, <2>1
  <2>3. \A k \in 0..Len(<<>>) : k = 0
    BY <2>1
  <2> QED BY <2>1, <2>2, <2>3
<1>5. ASSUME NEW r \in Seq(S), NEW c \in S, r \in T PROVE Append(r, c) \in T
  <2>1. Append(r, c) \in Seq(S) /\ Len(Append(r, c)) = Len(r) + 1 /\ Len(r) \in Nat
    OBVIOUS
  <2>2. ASSUME NEW k \in 0..(Len(r) + 1) PROVE Good(Append(r, c), k)
    <3>1. k \in 0..Len(r) \/ k = Len(Append(r, c))
      BY <2>1
    <3> QED BY <1>2, <1>3, <1>5, <2>1, <3>1
  <2> QED BY <2>1, <2>2
<1>6. Seq(S) \subseteq T
  <2> HIDE DEF T
  <2> QED BY <1>4, <1>5, AppendInduction
<1> QED BY <1>6 DEF Good

(* Reading: characters that end no line, and one that does.                *)
LEMMA ReadsAPart ==
  ASSUME NEW S, HasMarks(S), NEW t \in Seq(S), NEW v \in Seq(S), OneLine(v)
  PROVE  ReadAll(t \o v) = [whole |-> ReadAll(t).whole, part |-> ReadAll(t).part \o v]
<1> DEFINE Good(r) == ReadAll(t \o r) = [whole |-> ReadAll(t).whole, part |-> ReadAll(t).part \o r]
           T == {r \in Seq(S) : OneLine(r) => Good(r)}
<1>1. ReadAll(t) \in LinesRead(S)
  BY ReadFolds
<1>2. <<>> \in T
  <2>1. ReadAll(t).part \o <<>> = ReadAll(t).part /\ t \o <<>> = t
    BY <1>1, ConcatEmptySeq DEF LinesRead
  <2>2. ReadAll(t) = [whole |-> ReadAll(t).whole, part |-> ReadAll(t).part]
    BY <1>1 DEF LinesRead
  <2>3. Good(<<>>)
    BY <2>1, <2>2, Zenon
  <2> HIDE DEF Good
  <2> QED BY <2>3
<1>3. ASSUME NEW r \in Seq(S), NEW c \in S, r \in T PROVE Append(r, c) \in T
  <2>1. ASSUME OneLine(Append(r, c)) PROVE Good(Append(r, c))
    <3>1. /\ DOMAIN Append(r, c) = 1..(Len(r) + 1) /\ DOMAIN r = 1..Len(r) /\ Append(r, c)[Len(r) + 1] = c
          /\ \A n \in 1..Len(r) : Append(r, c)[n] = r[n]
      BY AppendProperties
    <3>2. c # NewLine /\ OneLine(r)
      BY <2>1, <3>1 DEF OneLine
    <3>3. Good(r)
      BY <1>3, <3>2
    <3>4. t \o Append(r, c) = Append(t \o r, c) /\ t \o r \in Seq(S)
      OBVIOUS
    <3>5. ReadAll(t).part \o Append(r, c) = Append(ReadAll(t).part \o r, c)
      <4>1. ReadAll(t).part \in Seq(S)
        BY <1>1 DEF LinesRead
      <4>2. ASSUME NEW p \in Seq(S) PROVE p \o Append(r, c) = Append(p \o r, c)
        OBVIOUS
      <4> QED BY <4>1, <4>2
    <3>6. ReadAll(Append(t \o r, c)) = ReadChar(ReadAll(t \o r), c)
      BY <3>4, ReadFolds
    <3>7. ReadChar(ReadAll(t \o r), c) = [whole |-> ReadAll(t).whole, part |-> Append(ReadAll(t).part \o r, c)]
      <4>1. ASSUME NEW l, NEW w, NEW p, l = [whole |-> w, part |-> p]
            PROVE  ReadChar(l, c) = [whole |-> w, part |-> Append(p, c)]
        BY <3>2, <4>1 DEF ReadChar
      <4> QED BY <3>3, <4>1, Zenon
    <3> QED BY <3>4, <3>5, <3>6, <3>7, Zenon
  <2>2. Append(r, c) \in Seq(S)
    OBVIOUS
  <2> HIDE DEF Good
  <2> QED BY <2>1, <2>2
<1>4. Seq(S) \subseteq T
  <2> HIDE DEF T
  <2> QED BY <1>2, <1>3, AppendInduction
<1> QED BY <1>4

\* A text that a load has read up to the end of a line, and what it has found.
Reached(t, fields, entries) ==
    /\ ReadAll(t).part = <<>> /\ ReadAll(t).whole # <<>> /\ ReadAll(t).whole[1] = <<MagicLine>>
    /\ LoadAll(Tail(ReadAll(t).whole)) = [ok |-> TRUE, fields |-> fields, entries |-> entries]

LEMMA FirstAndRest ==
  ASSUME NEW S, NEW w \in Seq(S), w # <<>>, NEW x \in S
  PROVE  /\ Tail(Append(w, x)) = Append(Tail(w), x) /\ Append(w, x)[1] = w[1]
         /\ Tail(w) \in Seq(S) /\ Append(w, x) # <<>>
BY HeadTailAppend, HeadTailProperties, AppendProperties

(* The next line, whole or what there is of it at the end of the text.     *)
LEMMA NextLine ==
  ASSUME NEW S, HasMarks(S), NEW t \in Seq(S), NEW fields, NEW entries, Reached(t, fields, entries),
         NEW line \in Seq(S), OneLine(line)
  PROVE  LET l == LoadLine([ok |-> TRUE, fields |-> fields, entries |-> entries], line)
             r == Append(t \o line, NewLine)
         IN  /\ r \in Seq(S)
             /\ l.ok => Reached(r, l.fields, l.entries)
             /\ LoadText(t \o line) = IF line = <<>>
                                      THEN LET f == Flush([ok |-> TRUE, fields |-> fields, entries |-> entries])
                                           IN IF f.ok THEN Ok(f.entries) ELSE Corrupted
                                      ELSE IF Flush(l).ok THEN Ok(Flush(l).entries) ELSE Corrupted
<1> DEFINE w == ReadAll(t).whole
           s0 == [ok |-> TRUE, fields |-> fields, entries |-> entries]
           l == LoadLine(s0, line)
           r == Append(t \o line, NewLine)
<1>1. /\ w \in Seq(Seq(S)) /\ w # <<>> /\ w[1] = <<MagicLine>> /\ ReadAll(t).part = <<>>
      /\ LoadAll(Tail(w)) = s0
  BY ReadFolds DEF Reached, LinesRead
<1>2. ReadAll(t \o line) = [whole |-> w, part |-> line] /\ t \o line \in Seq(S)
  <2>1. <<>> \o line = line /\ t \o line \in Seq(S)
    BY ConcatEmptySeq
  <2>2. ReadAll(t \o line) = [whole |-> ReadAll(t).whole, part |-> ReadAll(t).part \o line]
    BY ReadsAPart
  <2> QED BY <1>1, <2>1, <2>2, Zenon
<1>3. NewLine \in S
  BY MarksAre
<1>4. r \in Seq(S)
  BY <1>2, <1>3
<1>5. ReadAll(r) = [whole |-> Append(w, line), part |-> <<>>]
  <2>1. ReadAll(r) = ReadChar(ReadAll(t \o line), NewLine)
    BY <1>2, <1>3, ReadFolds
  <2> QED BY <1>2, <2>1 DEF ReadChar
<1>6. /\ Tail(Append(w, line)) = Append(Tail(w), line) /\ Append(w, line)[1] = w[1]
      /\ Tail(w) \in Seq(Seq(S)) /\ Append(w, line) # <<>>
  <2> HIDE DEF w
  <2> QED BY <1>1, FirstAndRest
<1>7. LoadAll(Tail(Append(w, line))) = l
  <2>1. LoadAll(Append(Tail(w), line)) = LoadLine(LoadAll(Tail(w)), line)
    BY <1>6, LoadFolds
  <2> QED BY <1>1, <1>6, <2>1, Zenon
<1>8. l \in Loadings(S)
  <2>1. Append(w, line) \in Seq(Seq(S))
    BY <1>1
  <2>2. Tail(Append(w, line)) \in Seq(Seq(S))
    BY <1>6, <2>1, AppendProperties
  <2> QED BY <1>7, <2>2, LoadFolds
<1>9. ASSUME l.ok PROVE Reached(r, l.fields, l.entries)
  <2>1. l = [ok |-> TRUE, fields |-> l.fields, entries |-> l.entries]
    BY <1>8, <1>9 DEF Loadings
  <2> HIDE DEF l, r, w
  <2> QED BY <1>1, <1>5, <1>6, <1>7, <2>1 DEF Reached
<1>10. LoadText(t \o line) = IF line = <<>> THEN IF Flush(s0).ok THEN Ok(Flush(s0).entries) ELSE Corrupted
                             ELSE IF Flush(l).ok THEN Ok(Flush(l).entries) ELSE Corrupted
  <2> HIDE DEF w, l, s0
  <2>1. GetLines(t \o line) = IF line = <<>> THEN w ELSE Append(w, line)
    BY <1>2 DEF GetLines
  <2> QED BY <1>1, <1>6, <1>7, <2>1 DEF LoadText
<1> QED BY <1>4, <1>9, <1>10

\* What is left of y without its end.
CutOff(x, y) == \E k \in 0..(Len(y) - 1) : x = SubSeq(y, 1, k)

\* c is x with a part of y.
CutBehind(c, x, y, S) == \E d : d \in Seq(S) /\ CutOff(d, y) /\ c = x \o d

(* A concatenation is cut in its first part or in its second.              *)
LEMMA CutOfJoin ==
  ASSUME NEW S, NEW x \in Seq(S), NEW y \in Seq(S), NEW c, CutOff(c, x \o y)
  PROVE  CutOff(c, x) \/ CutBehind(c, x, y, S)
<1>1. x \o y \in Seq(S) /\ Len(x \o y) = Len(x) + Len(y) /\ Len(x) \in Nat /\ Len(y) \in Nat
      /\ \A i \in 1..(Len(x) + Len(y)) : (x \o y)[i] = IF i <= Len(x) THEN x[i] ELSE y[i - Len(x)]
  BY ConcatProperties
<1>2. PICK n \in 0..(Len(x) + Len(y) - 1) : c = SubSeq(x \o y, 1, n)
  BY <1>1 DEF CutOff
<1> DEFINE r == x \o y
<1>3. c \in Seq(S) /\ Len(c) = n /\ \A i \in 1..n : c[i] = IF i <= Len(x) THEN x[i] ELSE y[i - Len(x)]
  <2> HIDE DEF r
  <2>1. r \in Seq(S) /\ n \in 0..Len(r)
    BY <1>1 DEF r
  <2>2. SubSeq(r, 1, n) \in Seq(S) /\ Len(SubSeq(r, 1, n)) = n /\ \A i \in 1..n : SubSeq(r, 1, n)[i] = r[i]
    BY <2>1
  <2>3. \A i \in 1..n : i \in 1..(Len(x) + Len(y))
    BY <1>1
  <2> QED BY <1>1, <1>2, <2>2, <2>3 DEF r
<1>4. CASE n < Len(x)
  <2> DEFINE d == SubSeq(x, 1, n)
  <2>1. d \in Seq(S) /\ Len(d) = n /\ \A i \in 1..n : d[i] = x[i]
    BY <1>4
  <2>2. c = d
    <3> HIDE DEF d
    <3>1. \A i \in 1..n : c[i] = d[i]
      BY <1>1, <1>3, <1>4, <2>1
    <3> QED BY <1>3, <2>1, <3>1, SeqEqual
  <2>3. n \in 0..(Len(x) - 1)
    BY <1>1, <1>4
  <2> QED BY <2>2, <2>3 DEF CutOff
<1>5. CASE ~(n < Len(x))
  <2> DEFINE k == n - Len(x)
             d == SubSeq(y, 1, k)
             e == x \o d
  <2>1. k \in 0..(Len(y) - 1)
    BY <1>1, <1>5
  <2>2. d \in Seq(S) /\ Len(d) = k /\ \A i \in 1..k : d[i] = y[i]
    BY <2>1
  <2>3. CutOff(d, y)
    BY <2>1 DEF CutOff
  <2>4. e \in Seq(S) /\ Len(e) = n /\ \A i \in 1..n : e[i] = IF i <= Len(x) THEN x[i] ELSE y[i - Len(x)]
    <3> HIDE DEF d
    <3>1. /\ e \in Seq(S) /\ Len(e) = Len(x) + Len(d)
          /\ \A i \in 1..(Len(x) + Len(d)) : e[i] = IF i <= Len(x) THEN x[i] ELSE d[i - Len(x)]
      BY <2>2, ConcatProperties
    <3> HIDE DEF e
    <3>2. Len(x) + Len(d) = n /\ \A i \in 1..n : ~(i <= Len(x)) => i - Len(x) \in 1..k
      BY <1>1, <2>1, <2>2
    <3> QED BY <2>2, <3>1, <3>2
  <2>5. c = e
    <3> HIDE DEF e
    <3>1. \A i \in 1..n : c[i] = e[i]
      BY <1>3, <2>4
    <3> QED BY <1>3, <2>4, <3>1, SeqEqual
  <2> HIDE DEF d
  <2> QED BY <2>2, <2>3, <2>5 DEF CutBehind
<1> QED BY <1>4, <1>5

\* The fields with one more.
With(fields, name, value) == [k \in DOMAIN fields \cup {name} |-> IF k = name THEN value ELSE fields[k]]
Loading(fields, entries) == [ok |-> TRUE, fields |-> fields, entries |-> entries]

LEMMA FieldLine ==
  ASSUME NEW S, HasMarks(S), NEW name \in ToSet(Keys), NEW value \in Seq(S), NEW fields, NEW entries
  PROVE  /\ <<name, Equals>> \o value \in Seq(S) /\ <<name, Equals>> \o value # <<>>
         /\ OneLine(value) => OneLine(<<name, Equals>> \o value)
         /\ LoadLine(Loading(fields, entries), <<name, Equals>> \o value)
              = Loading(With(fields, name, value), entries)
<1> DEFINE p == <<name, Equals>>
           line == p \o value
<1>1. name \in S /\ Equals \in S /\ name # NewLine /\ Equals # NewLine
  BY MarksAre
<1>2. p \in Seq(S) /\ Len(p) = 2 /\ p[1] = name /\ p[2] = Equals
  BY <1>1
<1>3. OneLine(p)
  <2>1. DOMAIN p = 1..2
    BY <1>2
  <2> HIDE DEF p
  <2> QED BY <1>1, <1>2, <2>1 DEF OneLine
<1> HIDE DEF p
<1>4. /\ line \in Seq(S) /\ Len(line) = Len(value) + 2 /\ Len(value) \in Nat
      /\ line[1] = name /\ line[2] = Equals /\ \A i \in 1..Len(value) : line[i + 2] = value[i]
  <2>1. /\ line \in Seq(S) /\ Len(line) = Len(p) + Len(value) /\ Len(value) \in Nat
        /\ \A i \in 1..(Len(p) + Len(value)) : line[i] = IF i <= Len(p) THEN p[i] ELSE value[i - Len(p)]
    <3>1. Len(value) \in Nat
      OBVIOUS
    <3> QED BY <1>2, <3>1, ConcatProperties, Zenon
  <2> HIDE DEF line
  <2>2. line[1] = name /\ line[2] = Equals
    BY <1>2, <2>1
  <2>3. ASSUME NEW i \in 1..Len(value) PROVE line[i + 2] = value[i]
    <3>1. i + 2 \in 1..(Len(p) + Len(value)) /\ ~(i + 2 <= Len(p)) /\ (i + 2) - Len(p) = i
      BY <1>2, <2>1
    <3> QED BY <2>1, <3>1
  <2> QED BY <1>2, <2>1, <2>2, <2>3
<1>5. line # <<>>
  <2> HIDE DEF line
  <2> QED BY <1>4
<1>6. OneLine(value) => OneLine(line)
  BY <1>2, <1>3, OneLineJoins
<1> HIDE DEF line
<1>7. SubSeq(line, 3, Len(line)) = value
  <2> DEFINE r == SubSeq(line, 3, Len(line))
  <2>1. r \in Seq(S) /\ Len(r) = Len(value) /\ \A i \in 1..Len(value) : r[i] = line[i + 2]
    <3>1. 3 \in 1..(Len(line) + 1)
      BY <1>4
    <3> QED BY <1>4, <3>1
  <2> HIDE DEF r
  <2>2. r = value
    BY <1>4, <2>1, SeqEqual
  <2> QED BY <2>2 DEF r
<1>8. LoadLine(Loading(fields, entries), line) = Loading(With(fields, name, value), entries)
  <2>1. line # <<>> /\ ~(Len(line) < 2 \/ line[2] # Equals \/ line[1] \notin ToSet(Keys)) /\ line[1] = name
    BY <1>4, <1>5
  <2>2. ASSUME NEW l, l = Loading(fields, entries)
        PROVE  LoadLine(l, line) = [l EXCEPT !.fields = With(fields, name, value)]
    <3>1. l.ok /\ l.fields = fields
      BY <2>2 DEF Loading
    <3>2. LoadLine(l, line) = [l EXCEPT !.fields = [k \in DOMAIN @ \cup {line[1]} |->
                                  IF k = line[1] THEN SubSeq(line, 3, Len(line)) ELSE @[k]]]
      BY <2>1, <3>1, Zenon DEF LoadLine
    <3> QED BY <1>7, <2>1, <3>1, <3>2 DEF With
  <2>3. LoadLine(Loading(fields, entries), line) = [Loading(fields, entries) EXCEPT !.fields = With(fields, name, value)]
    BY <2>2
  <2> QED BY <2>3 DEF Loading
<1> QED BY <1>4, <1>5, <1>6, <1>8 DEF line, p

\* What a load returns at the end of the text.
Result(fields, entries) ==
    IF Flush(Loading(fields, entries)).ok THEN Ok(Flush(Loading(fields, entries)).entries) ELSE Corrupted

LEMMA OneCharacter ==
  ASSUME NEW S, NEW x \in Seq(S), Len(x) = 1, x[1] # NewLine
  PROVE  OneLine(x) /\ x # <<>>
<1>1. DOMAIN x = 1..1 /\ x # <<>>
  OBVIOUS
<1> QED BY <1>1 DEF OneLine

\* Of a field that is cut off is loaded what there is of it.
FieldCutOff(loaded, fields, name, value, entries, S) ==
    \E v : Beginning(v, value) /\ v \in Seq(S) /\ loaded = Result(With(fields, name, v), entries)

(* A field's line, whole and cut off.                                      *)
LEMMA LineIsRead ==
  ASSUME NEW S, HasMarks(S), NEW name \in ToSet(Keys), NEW value \in Seq(S), OneLine(value),
         NEW t \in Seq(S), NEW fields, NEW entries, Reached(t, fields, entries)
  PROVE  /\ Line(name, value) \in Seq(S)
         /\ Reached(t \o Line(name, value), With(fields, name, value), entries)
         /\ \A d : CutOff(d, Line(name, value)) =>
              \/ LoadText(t \o d) = Corrupted
              \/ LoadText(t \o d) = Result(fields, entries)
              \/ FieldCutOff(LoadText(t \o d), fields, name, value, entries, S)
<1>0. ASSUME NEW q \in Seq(S), NEW c, CutOff(c, q \o value)
      PROVE  CutOff(c, q) \/ CutBehind(c, q, value, S)
  BY <1>0, CutOfJoin
<1> DEFINE p == <<name, Equals>>
           line == p \o value
<1>1. name \in S /\ Equals \in S /\ NewLine \in S /\ name # NewLine
  BY MarksAre
<1>2. p \in Seq(S) /\ Len(p) = 2 /\ p[1] = name
  BY <1>1
<1>3. \A v \in Seq(S) : /\ p \o v \in Seq(S) /\ p \o v # <<>> /\ (OneLine(v) => OneLine(p \o v))
                        /\ LoadLine(Loading(fields, entries), p \o v) = Loading(With(fields, name, v), entries)
  BY FieldLine
<1>4. Line(name, value) = Append(line, NewLine)
  <2>1. Line(name, value) = p \o value \o <<NewLine>>
    BY DEF Line
  <2> HIDE DEF p
  <2>2. \A x \in Seq(S) : x \o <<NewLine>> = Append(x, NewLine)
    BY <1>1
  <2> QED BY <1>2, <1>3, <2>1, <2>2
<1> HIDE DEF p
<1>5. line \in Seq(S) /\ OneLine(line)
  BY <1>3
<1>10. ASSUME NEW x \in Seq(S), Len(x) = 1, x[1] = name PROVE OneLine(x) /\ x # <<>>
  BY <1>1, <1>10, OneCharacter, Zenon
<1>11. ASSUME NEW c, CutOff(c, line)
       PROVE  CutOff(c, p) \/ CutBehind(c, p, value, S)
  BY <1>0, <1>2, <1>11, Zenon
<1>9. line = p \o value
  OBVIOUS
<1> HIDE DEF line
<1>6. Reached(t \o Line(name, value), With(fields, name, value), entries)
  <2>1. LoadLine(Loading(fields, entries), line) = Loading(With(fields, name, value), entries)
    BY <1>3, <1>9
  <2>2. t \o Append(line, NewLine) = Append(t \o line, NewLine)
    BY <1>1, <1>5
  <2>3. LoadLine(Loading(fields, entries), line).ok =>
           Reached(Append(t \o line, NewLine), LoadLine(Loading(fields, entries), line).fields,
                   LoadLine(Loading(fields, entries), line).entries)
    BY <1>5, NextLine DEF Loading
  <2>4. Loading(With(fields, name, value), entries).ok
        /\ Loading(With(fields, name, value), entries).fields = With(fields, name, value)
        /\ Loading(With(fields, name, value), entries).entries = entries
    BY DEF Loading
  <2> QED BY <1>4, <2>1, <2>2, <2>3, <2>4, Zenon
<1>7. ASSUME NEW d, CutOff(d, Line(name, value))
      PROVE  \/ LoadText(t \o d) = Corrupted
             \/ LoadText(t \o d) = Result(fields, entries)
             \/ FieldCutOff(LoadText(t \o d), fields, name, value, entries, S)
  <2>1. \A x \in Seq(S) : OneLine(x) =>
            LoadText(t \o x) = IF x = <<>> THEN Result(fields, entries)
                               ELSE IF Flush(LoadLine(Loading(fields, entries), x)).ok
                                    THEN Ok(Flush(LoadLine(Loading(fields, entries), x)).entries) ELSE Corrupted
    BY NextLine DEF Loading, Result
  <2>2. PICK n \in 0..Len(line) : d = SubSeq(line, 1, n)
    <3>1. Len(Line(name, value)) = Len(line) + 1 /\ Len(line) \in Nat
      BY <1>1, <1>4, <1>5, AppendProperties
    <3>2. PICK n \in 0..Len(line) : d = SubSeq(Line(name, value), 1, n)
      BY <1>7, <3>1 DEF CutOff
    <3> QED BY <1>1, <1>4, <1>5, <3>2, CutOfLonger
  <2>3. CASE d = <<>>
    <3>1. OneLine(d) /\ d \in Seq(S)
      BY <2>3 DEF OneLine
    <3> QED BY <2>1, <2>3, <3>1
  <2>4. CASE Len(d) = 1 /\ d \in Seq(S) /\ d[1] = name
    <3>1. OneLine(d) /\ d # <<>>
      BY <1>10, <2>4
    <3>2. LoadLine(Loading(fields, entries), d) = [Loading(fields, entries) EXCEPT !.ok = FALSE]
      BY <2>4, <3>1 DEF LoadLine, Loading
    <3>3. ASSUME NEW l, l.ok = FALSE PROVE ~Flush(l).ok
      BY <3>3 DEF Flush
    <3>4. ~Flush(LoadLine(Loading(fields, entries), d)).ok
      <4>1. [Loading(fields, entries) EXCEPT !.ok = FALSE].ok = FALSE
        BY DEF Loading
      <4> QED BY <3>2, <3>3, <4>1, Zenon
    <3> QED BY <2>1, <2>4, <3>1, <3>4
  <2>5. CASE \E v : Beginning(v, value) /\ v \in Seq(S) /\ d = p \o v
    <3>1. PICK v : Beginning(v, value) /\ v \in Seq(S) /\ d = p \o v
      BY <2>5
    <3>2. OneLine(v)
      <4>1. PICK k \in 0..Len(value) : v = SubSeq(value, 1, k)
        BY <3>1 DEF Beginning
      <4>2. DOMAIN v = 1..k /\ \A i \in 1..k : v[i] = value[i] /\ i \in DOMAIN value
        BY <4>1
      <4> QED BY <4>2 DEF OneLine
    <3>3. OneLine(d) /\ d \in Seq(S) /\ d # <<>>
          /\ LoadLine(Loading(fields, entries), d) = Loading(With(fields, name, v), entries)
      BY <1>3, <3>1, <3>2
    <3>4. LoadText(t \o d) = Result(With(fields, name, v), entries)
      BY <2>1, <3>3, Zenon DEF Result
    <3> QED BY <3>1, <3>4 DEF FieldCutOff
  <2>6. d = <<>> \/ (Len(d) = 1 /\ d \in Seq(S) /\ d[1] = name)
        \/ \E v : Beginning(v, value) /\ v \in Seq(S) /\ d = p \o v
    <3>1. CASE n = Len(line)
      <4>1. d = line
        BY <1>5, <2>2, <3>1, SubSeqFull
      <4>2. Beginning(value, value)
        BY BeginningGrows
      <4> QED BY <1>9, <4>1, <4>2
    <3>2. CASE n # Len(line)
      <4>1. CutOff(d, line)
        <5>1. n \in 0..(Len(line) - 1)
          BY <1>5, <3>2
        <5> QED BY <2>2, <5>1 DEF CutOff
      <4>2. CASE CutOff(d, p)
        <5>1. PICK k \in 0..1 : d = SubSeq(p, 1, k)
          BY <1>2, <4>2 DEF CutOff
        <5>2. d \in Seq(S) /\ Len(d) = k /\ \A i \in 1..k : d[i] = p[i]
          BY <1>2, <5>1
        <5>3. k = 0 \/ k = 1
          BY <5>1
        <5>4. k = 0 => d = <<>>
          BY <5>2
        <5> QED BY <1>2, <5>2, <5>3, <5>4
      <4>3. CASE CutBehind(d, p, value, S)
        <5>1. PICK v : v \in Seq(S) /\ CutOff(v, value) /\ d = p \o v
          BY <4>3 DEF CutBehind
        <5>2. PICK k \in 0..(Len(value) - 1) : v = SubSeq(value, 1, k)
          BY <5>1 DEF CutOff
        <5>3. k \in 0..Len(value)
          OBVIOUS
        <5>4. Beginning(v, value)
          BY <5>2, <5>3 DEF Beginning
        <5> QED BY <5>1, <5>4
      <4>4. CutOff(d, p) \/ CutBehind(d, p, value, S)
        BY <1>11, <4>1
      <4> QED BY <4>2, <4>3, <4>4
    <3> QED BY <3>1, <3>2
  <2> QED BY <2>3, <2>4, <2>5, <2>6
<1>8. Line(name, value) \in Seq(S)
  BY <1>1, <1>4, <1>5
<1> QED BY <1>6, <1>7, <1>8

\* A part of the entry e at the most was loaded behind entries, of its last field.
LastIsPart(loaded, entries, e) ==
    \E w : Beginning(w, e.checksum) /\ loaded = Ok(Append(entries, [e EXCEPT !.checksum = w]))
OneMore(loaded, entries, e) ==
    loaded = Corrupted \/ loaded = Ok(entries) \/ LastIsPart(loaded, entries, e)

\* The fields of an entry as its lines are read.
Field1(e) == With(NoFields, IdKey, PercentEncode(e.id))
Field2(e) == With(Field1(e), PathKey, PercentEncode(e.path))
Field3(e) == With(Field2(e), StatusKey, <<Digits[e.status + 1]>>)

\* g is f with one more value, or another one, for name.
IsWith(g, f, name, value) ==
    /\ DOMAIN g = DOMAIN f \cup {name} /\ g[name] = value
    /\ \A k \in DOMAIN f : k # name => g[k] = f[k]

LEMMA WithIs ==
  ASSUME NEW fields, NEW name, NEW value
  PROVE  IsWith(With(fields, name, value), fields, name, value)
BY DEF With, IsWith

LEMMA NoFieldsAre == DOMAIN NoFields = {}
BY DEF NoFields

LEMMA FieldsAre ==
  ASSUME NEW e
  PROVE  /\ DOMAIN Field1(e) = {IdKey} /\ DOMAIN Field2(e) = {IdKey, PathKey}
         /\ DOMAIN Field3(e) = {IdKey, PathKey, StatusKey}
         /\ Field3(e)[IdKey] = PercentEncode(e.id) /\ Field3(e)[PathKey] = PercentEncode(e.path)
         /\ Field3(e)[StatusKey] = <<Digits[e.status + 1]>>
<1>1. DOMAIN Field1(e) = {IdKey} /\ Field1(e)[IdKey] = PercentEncode(e.id)
  <2>1. IsWith(Field1(e), NoFields, IdKey, PercentEncode(e.id))
    BY WithIs, Zenon DEF Field1
  <2> QED BY <2>1, NoFieldsAre DEF IsWith
<1>2. /\ DOMAIN Field2(e) = {IdKey, PathKey} /\ Field2(e)[IdKey] = PercentEncode(e.id)
      /\ Field2(e)[PathKey] = PercentEncode(e.path)
  <2>1. IsWith(Field2(e), Field1(e), PathKey, PercentEncode(e.path))
    BY WithIs, Zenon DEF Field2
  <2> QED BY <1>1, <2>1, KeysAre DEF IsWith
<1>3. DOMAIN Field3(e) = {IdKey, PathKey, StatusKey} /\ Field3(e)[StatusKey] = <<Digits[e.status + 1]>>
      /\ Field3(e)[IdKey] = Field2(e)[IdKey] /\ Field3(e)[PathKey] = Field2(e)[PathKey]
  <2>1. IsWith(Field3(e), Field2(e), StatusKey, <<Digits[e.status + 1]>>)
    BY WithIs, Zenon DEF Field3
  <2> QED BY <1>2, <2>1, KeysAre DEF IsWith
<1> QED BY <1>1, <1>2, <1>3

(* What the end of the text makes of fields that are not all there.        *)
LEMMA ResultOfPart ==
  ASSUME NEW fields, NEW entries
  PROVE  /\ Result(NoFields, entries) = Ok(entries)
         /\ DOMAIN fields # {} /\ DOMAIN fields # ToSet(Keys) => Result(fields, entries) = Corrupted
<1>1. \A f : Loading(f, entries).ok /\ Loading(f, entries).fields = f /\ Loading(f, entries).entries = entries
  BY DEF Loading
<1>2. Result(NoFields, entries) = Ok(entries)
  <2>1. Flush(Loading(NoFields, entries)) = Loading(NoFields, entries)
    BY <1>1, NoFieldsAre DEF Flush
  <2> QED BY <1>1, <2>1 DEF Result
<1>3. ASSUME DOMAIN fields # {}, DOMAIN fields # ToSet(Keys) PROVE Result(fields, entries) = Corrupted
  <2>1. FieldsToEntry(fields) = {}
    BY <1>3 DEF FieldsToEntry
  <2>2. ~Flush(Loading(fields, entries)).ok
    <3>1. ASSUME NEW l, l.fields = fields PROVE ~Flush(l).ok
      BY <1>3, <2>1, <3>1 DEF Flush
    <3> QED BY <1>1, <3>1
  <2> QED BY <2>2 DEF Result
<1> QED BY <1>2, <1>3

Field4(e, v) == With(Field3(e), ChecksumKey, v)
PartOf(e, v) == [e EXCEPT !.checksum = DecodeAll(v).out]

(* A field is decoded to one text or to none, and an encoded one to itself. *)
LEMMA DecodeIs ==
  ASSUME NEW S, HasMarks(S)
  PROVE  /\ \A s : Decode(s) \in {{}, {DecodeAll(s).out}}
         /\ \A s \in Seq(S) : Decode(PercentEncode(s)) = {s}
<1>1. \A s : Decode(s) \in {{}, {DecodeAll(s).out}}
  BY DEF Decode
<1>2. ASSUME NEW s \in Seq(S) PROVE Decode(PercentEncode(s)) = {s}
  <2>1. DecodeAll(PercentEncode(s)) = Decoded(s)
    BY DecodesTheEncoded
  <2>2. Decoded(s).ok /\ Decoded(s).escape = <<>> /\ Decoded(s).out = s
    BY DEF Decoded
  <2> QED BY <2>1, <2>2 DEF Decode
<1> QED BY <1>1, <1>2

(* And of all the fields, the last of them cut off or not.                 *)
LEMMA EntryIsLoaded ==
  ASSUME NEW S, HasMarks(S), NEW e \in RegistryEntries(S), NEW entries, NEW v \in Seq(S)
  PROVE  /\ Result(Field4(e, v), entries) \in {Corrupted, Ok(Append(entries, PartOf(e, v)))}
         /\ Decode(v) # {} =>
              Flush(Loading(Field4(e, v), entries)) = Loading(NoFields, Append(entries, PartOf(e, v)))
<1> DEFINE fields == Field4(e, v)
           part == PartOf(e, v)
<1>1. /\ DOMAIN fields = ToSet(Keys) /\ fields[IdKey] = PercentEncode(e.id)
      /\ fields[PathKey] = PercentEncode(e.path) /\ fields[StatusKey] = <<Digits[e.status + 1]>>
      /\ fields[ChecksumKey] = v
  <2>1. IsWith(fields, Field3(e), ChecksumKey, v)
    BY WithIs, Zenon DEF Field4
  <2> HIDE DEF fields
  <2>2. /\ DOMAIN Field3(e) = {IdKey, PathKey, StatusKey} /\ Field3(e)[IdKey] = PercentEncode(e.id)
        /\ Field3(e)[PathKey] = PercentEncode(e.path) /\ Field3(e)[StatusKey] = <<Digits[e.status + 1]>>
    BY FieldsAre, Zenon
  <2> QED BY <2>1, <2>2, KeysAre DEF IsWith
<1> HIDE DEF fields
<1>2. e.id \in Seq(S) /\ e.id # <<>> /\ e.path \in Seq(S) /\ e.status \in 0..MaxStatus
      /\ e = [id |-> e.id, path |-> e.path, checksum |-> e.checksum, status |-> e.status]
  BY DEF RegistryEntries
<1>3. Decode(PercentEncode(e.id)) = {e.id} /\ Decode(PercentEncode(e.path)) = {e.path}
  BY <1>2, DecodeIs
<1>4. Decode(v) \in {{}, {DecodeAll(v).out}}
  BY DecodeIs
<1>5. IsNumber(<<Digits[e.status + 1]>>) /\ ParseNumber(<<Digits[e.status + 1]>>) = e.status
  BY <1>2, DigitIsRead
<1>6. part = [id |-> e.id, path |-> e.path, checksum |-> DecodeAll(v).out, status |-> e.status]
      /\ part.id = e.id /\ part.status = e.status
  BY <1>2 DEF PartOf
<1>7. FieldsToEntry(fields) = IF Decode(v) = {} THEN {} ELSE {part}
  <2>1. ASSUME NEW x
        PROVE  x \in FieldsToEntry(fields) <=>
                 \E id \in Decode(fields[IdKey]) \ {<<>>}, path \in Decode(fields[PathKey]),
                    checksum \in Decode(fields[ChecksumKey]),
                    number \in {n \in 0..MaxStatus : IsNumber(fields[StatusKey]) /\ n = ParseNumber(fields[StatusKey])} :
                       x = [id |-> id, path |-> path, checksum |-> checksum, status |-> number]
    BY <1>1 DEF FieldsToEntry
  <2>2. {n \in 0..MaxStatus : IsNumber(fields[StatusKey]) /\ n = ParseNumber(fields[StatusKey])} = {e.status}
    BY <1>1, <1>2, <1>5
  <2>3. Decode(fields[IdKey]) \ {<<>>} = {e.id}
    BY <1>1, <1>2, <1>3
  <2>4. ASSUME NEW x
        PROVE  x \in FieldsToEntry(fields) <=>
                 \E checksum \in Decode(v) :
                    x = [id |-> e.id, path |-> e.path, checksum |-> checksum, status |-> e.status]
    BY <1>1, <1>3, <2>1, <2>2, <2>3
  <2> HIDE DEF part
  <2>5. ASSUME NEW x PROVE x \in FieldsToEntry(fields) <=> Decode(v) # {} /\ x = part
    BY <1>4, <1>6, <2>4
  <2> QED BY <2>5
<1> HIDE DEF part
<1>8. FieldsToEntry(fields) \in {{}, {part}} /\ (Decode(v) # {} => FieldsToEntry(fields) = {part})
  BY <1>7
<1>9. DOMAIN fields # {}
  BY <1>1, KeysAre
<1>10. /\ FieldsToEntry(fields) = {} => ~Flush(Loading(fields, entries)).ok
       /\ FieldsToEntry(fields) = {part} =>
            Flush(Loading(fields, entries)) = Loading(NoFields, Append(entries, part))
  <2>1. ASSUME NEW l, l.fields = fields, l.ok, l.entries = entries
        PROVE  /\ FieldsToEntry(fields) = {} => ~Flush(l).ok
               /\ FieldsToEntry(fields) = {part} => Flush(l) = Loading(NoFields, Append(entries, part))
    <3>1. Flush(l) = [ok |-> l.ok /\ FieldsToEntry(fields) # {}, fields |-> NoFields,
                      entries |-> IF FieldsToEntry(fields) = {} THEN l.entries
                                  ELSE Append(l.entries, CHOOSE x \in FieldsToEntry(fields) : TRUE)]
      BY <1>9, <2>1, Zenon DEF Flush
    <3>2. (CHOOSE x \in {part} : TRUE) = part
      OBVIOUS
    <3>3. ASSUME FieldsToEntry(fields) = {part} PROVE Flush(l) = Loading(NoFields, Append(entries, part))
      <4>1. (l.ok /\ FieldsToEntry(fields) # {}) = TRUE
        BY <2>1, <3>3
      <4>2. FieldsToEntry(fields) # {} /\ (CHOOSE x \in FieldsToEntry(fields) : TRUE) = part
        BY <3>2, <3>3, Zenon
      <4> QED BY <2>1, <3>1, <4>1, <4>2, Zenon DEF Loading
    <3>4. FieldsToEntry(fields) = {} => ~Flush(l).ok
      <4>1. ASSUME NEW f, f.ok = (l.ok /\ FieldsToEntry(fields) # {}), FieldsToEntry(fields) = {} PROVE ~f.ok
        BY <4>1
      <4>2. Flush(l).ok = (l.ok /\ FieldsToEntry(fields) # {})
        BY <3>1
      <4> QED BY <4>1, <4>2
    <3> QED BY <3>3, <3>4
  <2>2. Loading(fields, entries).ok /\ Loading(fields, entries).fields = fields
        /\ Loading(fields, entries).entries = entries
    BY DEF Loading
  <2> QED BY <2>1, <2>2
<1>11. Result(fields, entries) \in {Corrupted, Ok(Append(entries, part))}
  <2>1. Loading(NoFields, Append(entries, part)).ok
        /\ Loading(NoFields, Append(entries, part)).entries = Append(entries, part)
    BY DEF Loading
  <2> QED BY <1>8, <1>10, <2>1 DEF Result
<1> QED BY <1>8, <1>10, <1>11 DEF fields, part

\* The part lines of an entry's text, read behind t.
PartRead(S, t, lines, fields, entries, e) ==
    /\ lines \in Seq(S) /\ Reached(t \o lines, fields, entries)
    /\ \A d : CutOff(d, lines) => OneMore(LoadText(t \o d), entries, e)

LEMMA NextPart ==
  ASSUME NEW S, HasMarks(S), NEW t \in Seq(S), NEW lines, NEW fields, NEW entries, NEW e,
         PartRead(S, t, lines, fields, entries, e),
         NEW name \in ToSet(Keys), NEW value \in Seq(S), OneLine(value),
         OneMore(Result(fields, entries), entries, e),
         \A v \in Seq(S) : Beginning(v, value) => OneMore(Result(With(fields, name, v), entries), entries, e)
  PROVE  PartRead(S, t, lines \o Line(name, value), With(fields, name, value), entries, e)
<1>1. lines \in Seq(S) /\ t \o lines \in Seq(S) /\ Reached(t \o lines, fields, entries)
  BY DEF PartRead
<1>2. /\ Line(name, value) \in Seq(S)
      /\ Reached((t \o lines) \o Line(name, value), With(fields, name, value), entries)
  BY <1>1, LineIsRead
<1>3. ASSUME NEW d, CutOff(d, Line(name, value)) PROVE OneMore(LoadText((t \o lines) \o d), entries, e)
  <2>1. \/ LoadText((t \o lines) \o d) = Corrupted
        \/ LoadText((t \o lines) \o d) = Result(fields, entries)
        \/ FieldCutOff(LoadText((t \o lines) \o d), fields, name, value, entries, S)
    BY <1>1, <1>3, LineIsRead
  <2>2. ASSUME FieldCutOff(LoadText((t \o lines) \o d), fields, name, value, entries, S)
        PROVE  OneMore(LoadText((t \o lines) \o d), entries, e)
    <3>1. PICK v : Beginning(v, value) /\ v \in Seq(S)
                   /\ LoadText((t \o lines) \o d) = Result(With(fields, name, v), entries)
      BY <2>2 DEF FieldCutOff
    <3> QED BY <3>1
  <2> QED BY <2>1, <2>2 DEF OneMore
<1>4. \A d \in Seq(S) : (t \o lines) \o d = t \o (lines \o d)
  BY <1>1
<1>5. lines \o Line(name, value) \in Seq(S)
  BY <1>1, <1>2
<1>6. ASSUME NEW d, CutOff(d, lines \o Line(name, value)) PROVE OneMore(LoadText(t \o d), entries, e)
  <2>1. CutOff(d, lines) \/ CutBehind(d, lines, Line(name, value), S)
    BY <1>1, <1>2, <1>6, CutOfJoin
  <2>2. CASE CutOff(d, lines)
    BY <2>2 DEF PartRead
  <2>3. CASE CutBehind(d, lines, Line(name, value), S)
    <3>1. PICK c : c \in Seq(S) /\ CutOff(c, Line(name, value)) /\ d = lines \o c
      BY <2>3 DEF CutBehind
    <3>2. t \o d = (t \o lines) \o c
      BY <1>4, <3>1
    <3> QED BY <1>3, <3>1, <3>2
  <2> QED BY <2>1, <2>2, <2>3
<1> QED BY <1>2, <1>4, <1>5, <1>6 DEF PartRead

\* The text of the entry e, read behind t.
EntryText(e) == EntryToLines(e) \o <<NewLine>>
EntryRead(S, t, entries, e) ==
    /\ EntryText(e) \in Seq(S) /\ Reached(t \o EntryText(e), NoFields, Append(entries, e))
    /\ \A d : CutOff(d, EntryText(e)) => OneMore(LoadText(t \o d), entries, e)

LEMMA LinesAre ==
  ASSUME NEW S, HasMarks(S), NEW e \in RegistryEntries(S)
  PROVE  /\ \A v \in {PercentEncode(e.id), PercentEncode(e.path), <<Digits[e.status + 1]>>, PercentEncode(e.checksum)} :
              v \in Seq(S) /\ OneLine(v)
         /\ DecodeAll(PercentEncode(e.checksum)) = Decoded(e.checksum) /\ Decode(PercentEncode(e.checksum)) # {}
         /\ [e EXCEPT !.checksum = e.checksum] = e
<1>1. e.id \in Seq(S) /\ e.path \in Seq(S) /\ e.checksum \in Seq(S) /\ e.status \in 0..MaxStatus
  BY DEF RegistryEntries
<1>2. <<Digits[e.status + 1]>> \in Seq(S) /\ OneLine(<<Digits[e.status + 1]>>)
  <2> DEFINE c == Digits[e.status + 1]
  <2>1. c \in ToSet(Digits)
    <3>1. e.status + 1 \in 1..Len(Digits)
      BY <1>1, DigitsAre DEF MaxStatus
    <3> QED BY <3>1, DigitsAre
  <2>2. c \in S /\ c # NewLine
    BY <2>1, MarksAre
  <2> HIDE DEF c
  <2>3. <<c>> \in Seq(S) /\ Len(<<c>>) = 1 /\ <<c>>[1] = c
    BY <2>2
  <2>4. OneLine(<<c>>)
    BY <2>2, <2>3, OneCharacter
  <2> QED BY <2>3, <2>4 DEF c
<1>3. \A s \in Seq(S) : PercentEncode(s) \in Seq(S) /\ OneLine(PercentEncode(s))
  BY EncodeFolds, EncodedIsOneLine
<1>4. DecodeAll(PercentEncode(e.checksum)) = Decoded(e.checksum)
  BY <1>1, DecodesTheEncoded
<1>5. Decode(PercentEncode(e.checksum)) # {}
  BY DecodeIs DEF RegistryEntries
<1>6. [e EXCEPT !.checksum = e.checksum] = e
  BY DEF RegistryEntries
<1> QED BY <1>1, <1>2, <1>3, <1>4, <1>5, <1>6

LEMMA EntryIsRead ==
  ASSUME NEW S, HasMarks(S), NEW t \in Seq(S), NEW entries, Reached(t, NoFields, entries),
         NEW e \in RegistryEntries(S)
  PROVE  EntryRead(S, t, entries, e)
<1> DEFINE v1 == PercentEncode(e.id)
           v2 == PercentEncode(e.path)
           v3 == <<Digits[e.status + 1]>>
           v4 == PercentEncode(e.checksum)
           l1 == Line(IdKey, v1)
           l2 == l1 \o Line(PathKey, v2)
           l3 == l2 \o Line(StatusKey, v3)
           l4 == l3 \o Line(ChecksumKey, v4)
           f4 == Field4(e, v4)
<1>1. /\ v1 \in Seq(S) /\ OneLine(v1) /\ v2 \in Seq(S) /\ OneLine(v2) /\ v3 \in Seq(S) /\ OneLine(v3)
      /\ v4 \in Seq(S) /\ OneLine(v4)
  BY LinesAre
<1>2. EntryToLines(e) = l4
  BY Zenon DEF EntryToLines
<1>3. /\ Field1(e) = With(NoFields, IdKey, v1) /\ Field2(e) = With(Field1(e), PathKey, v2)
      /\ Field3(e) = With(Field2(e), StatusKey, v3)
  BY Zenon DEF Field1, Field2, Field3
<1>4. DOMAIN Field1(e) = {IdKey} /\ DOMAIN Field2(e) = {IdKey, PathKey} /\ DOMAIN Field3(e) = {IdKey, PathKey, StatusKey}
  BY FieldsAre, Zenon
<1>5. DecodeAll(v4) = Decoded(e.checksum) /\ Decode(v4) # {} /\ [e EXCEPT !.checksum = e.checksum] = e
  BY LinesAre, Zenon
<1>6. {IdKey, PathKey, StatusKey, ChecksumKey} \subseteq ToSet(Keys)
  BY KeysAre
<1> HIDE DEF v1, v2, v3, v4
<1>7. PartRead(S, t, <<>>, NoFields, entries, e)
  <2>1. t \o <<>> = t /\ <<>> \in Seq(S)
    OBVIOUS
  <2>2. \A d : ~CutOff(d, <<>>)
    BY DEF CutOff
  <2> QED BY <2>1, <2>2 DEF PartRead
<1>8. ASSUME NEW f, DOMAIN f # {}, DOMAIN f # ToSet(Keys) PROVE OneMore(Result(f, entries), entries, e)
  BY <1>8, ResultOfPart DEF OneMore
<1>9. ASSUME NEW f, NEW name \in ToSet(Keys), NEW v, DOMAIN f \cup {name} # ToSet(Keys)
      PROVE  OneMore(Result(With(f, name, v), entries), entries, e)
  <2>1. DOMAIN With(f, name, v) = DOMAIN f \cup {name}
    <3>1. IsWith(With(f, name, v), f, name, v)
      BY WithIs
    <3> QED BY <3>1 DEF IsWith
  <2> QED BY <1>8, <1>9, <2>1
<1>10. PartRead(S, t, l1, Field1(e), entries, e)
  <2>1. OneMore(Result(NoFields, entries), entries, e)
    BY ResultOfPart DEF OneMore
  <2>2. \A v \in Seq(S) : OneMore(Result(With(NoFields, IdKey, v), entries), entries, e)
    <3>1. DOMAIN NoFields \cup {IdKey} # ToSet(Keys)
      BY NoFieldsAre, KeysAre
    <3> QED BY <1>6, <1>9, <3>1
  <2>3. PartRead(S, t, <<>> \o l1, With(NoFields, IdKey, v1), entries, e)
    BY <1>1, <1>6, <1>7, <2>1, <2>2, NextPart
  <2>4. l1 \in Seq(S)
    BY <1>1, <1>6, LineIsRead
  <2>5. <<>> \o l1 = l1
    BY <2>4, ConcatEmptySeq
  <2> QED BY <1>3, <2>3, <2>5, Zenon
<1>11. PartRead(S, t, l2, Field2(e), entries, e)
  <2>1. OneMore(Result(Field1(e), entries), entries, e)
    BY <1>4, <1>8, KeysAre
  <2>2. \A v \in Seq(S) : OneMore(Result(With(Field1(e), PathKey, v), entries), entries, e)
    <3>1. DOMAIN Field1(e) \cup {PathKey} # ToSet(Keys)
      BY <1>4, KeysAre
    <3> QED BY <1>6, <1>9, <3>1
  <2> HIDE DEF l1
  <2> QED BY <1>1, <1>3, <1>6, <1>10, <2>1, <2>2, NextPart
<1>12. PartRead(S, t, l3, Field3(e), entries, e)
  <2>1. OneMore(Result(Field2(e), entries), entries, e)
    BY <1>4, <1>8, KeysAre
  <2>2. \A v \in Seq(S) : OneMore(Result(With(Field2(e), StatusKey, v), entries), entries, e)
    <3>1. DOMAIN Field2(e) \cup {StatusKey} # ToSet(Keys)
      BY <1>4, KeysAre
    <3> QED BY <1>6, <1>9, <3>1
  <2> HIDE DEF l2
  <2> QED BY <1>1, <1>3, <1>6, <1>11, <2>1, <2>2, NextPart
<1>23. \A v : Field4(e, v) = With(Field3(e), ChecksumKey, v)
  BY DEF Field4
<1>13. \A v \in Seq(S) : Beginning(v, v4) => OneMore(Result(Field4(e, v), entries), entries, e)
  <2> SUFFICES ASSUME NEW v \in Seq(S), Beginning(v, v4)
               PROVE  OneMore(Result(Field4(e, v), entries), entries, e)
    OBVIOUS
  <2>1. Beginning(DecodeAll(v).out, e.checksum)
    <3>1. PICK k \in 0..Len(v4) : v = SubSeq(v4, 1, k)
      BY DEF Beginning
    <3>2. Beginning(DecodeAll(v).out, DecodeAll(v4).out)
      BY <1>1, <3>1, DecodesABeginning
    <3>3. Decoded(e.checksum).out = e.checksum
      BY DEF Decoded
    <3> QED BY <1>5, <3>2, <3>3
  <2>2. \/ Result(Field4(e, v), entries) = Corrupted
        \/ Result(Field4(e, v), entries) = Ok(Append(entries, PartOf(e, v)))
    BY EntryIsLoaded
  <2> QED BY <2>1, <2>2 DEF OneMore, LastIsPart, PartOf
<1>14. PartRead(S, t, l4, f4, entries, e)
  <2>1. OneMore(Result(Field3(e), entries), entries, e)
    BY <1>4, <1>8, KeysAre
  <2> HIDE DEF l3
  <2> QED BY <1>1, <1>6, <1>12, <1>13, <1>23, <2>1, NextPart
<1>15. Flush(Loading(f4, entries)) = Loading(NoFields, Append(entries, e))
  <2>1. Flush(Loading(f4, entries)) = Loading(NoFields, Append(entries, PartOf(e, v4)))
    BY <1>1, <1>5, EntryIsLoaded
  <2>2. Decoded(e.checksum).out = e.checksum
    BY DEF Decoded
  <2> QED BY <1>5, <2>1, <2>2, Zenon DEF PartOf
<1>16. OneMore(Result(f4, entries), entries, e)
  <2>1. Beginning(v4, v4)
    BY <1>1, BeginningGrows
  <2> QED BY <1>1, <1>13, <2>1
<1> HIDE DEF l4, f4
<1>17. l4 \in Seq(S) /\ t \o l4 \in Seq(S) /\ Reached(t \o l4, f4, entries)
       /\ \A d : CutOff(d, l4) => OneMore(LoadText(t \o d), entries, e)
  BY <1>14 DEF PartRead
<1>18. NewLine \in S
  BY MarksAre
<1>19. EntryText(e) = l4 \o <<NewLine>>
  BY <1>2 DEF EntryText
<1>20. /\ Reached(t \o EntryText(e), NoFields, Append(entries, e))
       /\ LoadText(t \o l4) = Result(f4, entries)
  <2>1. <<>> \in Seq(S) /\ OneLine(<<>>)
    BY DEF OneLine
  <2>2. (t \o l4) \o <<>> = t \o l4
    BY <1>17
  <2>3. LoadLine(Loading(f4, entries), <<>>) = Loading(NoFields, Append(entries, e))
    <3>1. Loading(f4, entries).ok
      BY DEF Loading
    <3> QED BY <1>15, <3>1 DEF LoadLine
  <2>4. Loading(NoFields, Append(entries, e)).ok /\ Loading(NoFields, Append(entries, e)).fields = NoFields
        /\ Loading(NoFields, Append(entries, e)).entries = Append(entries, e)
    BY DEF Loading
  <2>5. LoadLine(Loading(f4, entries), <<>>).ok =>
          Reached(Append((t \o l4) \o <<>>, NewLine), LoadLine(Loading(f4, entries), <<>>).fields,
                  LoadLine(Loading(f4, entries), <<>>).entries)
    BY <1>17, <2>1, NextLine DEF Loading
  <2>6. LoadText((t \o l4) \o <<>>) = Result(f4, entries)
    BY <1>17, <2>1, NextLine DEF Loading, Result
  <2>7. t \o EntryText(e) = Append(t \o l4, NewLine)
    BY <1>17, <1>18, <1>19
  <2>8. Reached(Append(t \o l4, NewLine), NoFields, Append(entries, e))
    BY <2>2, <2>3, <2>4, <2>5, Zenon
  <2> QED BY <2>2, <2>6, <2>7, <2>8, Zenon
<1>21. ASSUME NEW d, CutOff(d, EntryText(e)) PROVE OneMore(LoadText(t \o d), entries, e)
  <2>0. <<NewLine>> \in Seq(S) /\ Len(<<NewLine>>) = 1
    BY <1>18
  <2>1. CutOff(d, l4) \/ CutBehind(d, l4, <<NewLine>>, S)
    BY <1>17, <1>19, <1>21, <2>0, CutOfJoin
  <2>2. CASE CutBehind(d, l4, <<NewLine>>, S)
    <3>1. PICK c : c \in Seq(S) /\ CutOff(c, <<NewLine>>) /\ d = l4 \o c
      BY <2>2 DEF CutBehind
    <3>2. c = <<>>
      <4>1. PICK k \in 0..(Len(<<NewLine>>) - 1) : c = SubSeq(<<NewLine>>, 1, k)
        BY <3>1 DEF CutOff
      <4>2. k = 0
        BY <2>0, <4>1
      <4> QED BY <2>0, <4>1, <4>2
    <3>3. d = l4
      BY <1>17, <3>1, <3>2, ConcatEmptySeq
    <3> QED BY <1>16, <1>20, <3>3
  <2> QED BY <1>17, <2>1, <2>2
<1>22. EntryText(e) \in Seq(S)
  BY <1>17, <1>18, <1>19
<1> QED BY <1>20, <1>21, <1>22 DEF EntryRead

\* What CutInventsNothing says of the entries that are loaded.
NothingInvented(loaded, entries) ==
    \/ loaded = Corrupted
    \/ /\ Len(loaded.entries) \in 0..Len(entries)
       /\ \A n \in 1..Len(loaded.entries) :
             \/ loaded.entries[n] = entries[n]
             \/ /\ n = Len(loaded.entries)
                /\ \E k \in 0..Len(entries[n].checksum) :
                      loaded.entries[n] = [entries[n] EXCEPT !.checksum = SubSeq(@, 1, k)]

(* The first line, whole and cut off.                                      *)
LEMMA FirstLine ==
  ASSUME NEW S, HasMarks(S)
  PROVE  /\ <<MagicLine, NewLine>> \in Seq(S) /\ Reached(<<MagicLine, NewLine>>, NoFields, <<>>)
         /\ \A c : CutOff(c, <<MagicLine, NewLine>>) => LoadText(c) = Corrupted \/ LoadText(c) = Ok(<<>>)
<1> DEFINE M == MagicLine
<1>1. M \in S /\ NewLine \in S /\ M # NewLine
  BY MarksAre
<1> HIDE DEF M
<1>2. /\ <<M, NewLine>> \in Seq(S) /\ Len(<<M, NewLine>>) = 2 /\ <<M>> \in Seq(S) /\ <<>> \in Seq(S)
      /\ <<M>> = Append(<<>>, M) /\ <<M, NewLine>> = Append(<<M>>, NewLine) /\ <<M>> # <<>>
      /\ <<<<M>>>> = Append(<<>>, <<M>>) /\ <<<<M>>>> # <<>> /\ <<<<M>>>>[1] = <<M>> /\ Tail(<<<<M>>>>) = <<>>
  <2>1. <<M, NewLine>> \in Seq(S) /\ Len(<<M, NewLine>>) = 2 /\ <<M>> \in Seq(S) /\ <<>> \in Seq(S)
        /\ <<M>> = Append(<<>>, M)
    BY <1>1
  <2>2. <<M, NewLine>> = Append(<<M>>, NewLine) /\ <<M>> # <<>>
    BY <1>1, Shorts
  <2>3. ASSUME NEW x \in Seq(S)
        PROVE  <<x>> = Append(<<>>, x) /\ <<x>> # <<>> /\ <<x>>[1] = x /\ Tail(<<x>>) = <<>>
    <3>1. <<x>> \in Seq(Seq(S)) /\ Len(<<x>>) = 1 /\ <<>> \in Seq(Seq(S))
      OBVIOUS
    <3>2. Tail(<<x>>) \in Seq(Seq(S)) /\ Len(Tail(<<x>>)) = 0
      BY <3>1, HeadTailProperties
    <3> QED BY <3>1, <3>2
  <2> QED BY <2>1, <2>2, <2>3
<1>3. ReadAll(<<>>) = [whole |-> <<>>, part |-> <<>>]
  BY ReadFolds DEF NothingRead
<1>4. ReadAll(<<M>>) = [whole |-> <<>>, part |-> <<M>>]
  <2>1. ReadAll(Append(<<>>, M)) = ReadChar(ReadAll(<<>>), M)
    BY <1>1, <1>2, ReadFolds
  <2>2. ReadChar([whole |-> <<>>, part |-> <<>>], M) = [whole |-> <<>>, part |-> Append(<<>>, M)]
    BY <1>1 DEF ReadChar
  <2> QED BY <1>2, <1>3, <2>1, <2>2, Zenon
<1>5. ReadAll(<<M, NewLine>>) = [whole |-> <<<<M>>>>, part |-> <<>>]
  <2>1. ReadAll(Append(<<M>>, NewLine)) = ReadChar(ReadAll(<<M>>), NewLine)
    BY <1>1, <1>2, ReadFolds
  <2>2. ReadChar([whole |-> <<>>, part |-> <<M>>], NewLine) = [whole |-> Append(<<>>, <<M>>), part |-> <<>>]
    BY DEF ReadChar
  <2> QED BY <1>2, <1>4, <2>1, <2>2, Zenon
<1>6. LoadAll(<<>>) = Loading(NoFields, <<>>)
  BY LoadFolds DEF Loading, NothingLoaded
<1>7. Reached(<<M, NewLine>>, NoFields, <<>>)
  <2>1. ReadAll(<<M, NewLine>>).whole = <<<<M>>>> /\ ReadAll(<<M, NewLine>>).part = <<>>
    BY <1>5
  <2>2. LoadAll(Tail(ReadAll(<<M, NewLine>>).whole)) = Loading(NoFields, <<>>)
    BY <1>2, <1>6, <2>1, Zenon
  <2>3. ReadAll(<<M, NewLine>>).whole # <<>> /\ ReadAll(<<M, NewLine>>).whole[1] = <<MagicLine>>
    BY <1>2, <2>1, Zenon DEF M
  <2> QED BY <2>1, <2>2, <2>3, Zenon DEF Reached, Loading
<1>8. LoadText(<<>>) = Corrupted
  <2>1. GetLines(<<>>) = <<>>
    BY <1>3 DEF GetLines
  <2> QED BY <2>1, Zenon DEF LoadText
<1>9. LoadText(<<M>>) = Ok(<<>>)
  <2>1. GetLines(<<M>>) = <<<<M>>>>
    <3>1. ASSUME NEW l, l = [whole |-> <<>>, part |-> <<M>>]
          PROVE  (IF l.part = <<>> THEN l.whole ELSE Append(l.whole, l.part)) = Append(<<>>, <<M>>)
      BY <1>2, <3>1
    <3> QED BY <1>2, <1>4, <3>1, Zenon DEF GetLines
  <2>2. Flush(Loading(NoFields, <<>>)) = Loading(NoFields, <<>>)
    <3>1. Loading(NoFields, <<>>).fields = NoFields
      BY DEF Loading
    <3> QED BY <3>1, NoFieldsAre DEF Flush
  <2>3. Flush(LoadAll(Tail(GetLines(<<M>>)))) = Loading(NoFields, <<>>)
    BY <1>2, <1>6, <2>1, <2>2, Zenon
  <2>4. GetLines(<<M>>) # <<>> /\ GetLines(<<M>>)[1] = <<MagicLine>>
    BY <1>2, <2>1, Zenon DEF M
  <2>5. Loading(NoFields, <<>>).ok /\ Loading(NoFields, <<>>).entries = <<>>
    BY DEF Loading
  <2>6. ~(GetLines(<<M>>) = <<>> \/ GetLines(<<M>>)[1] # <<MagicLine>> \/ ~Flush(LoadAll(Tail(GetLines(<<M>>)))).ok)
    BY <2>3, <2>4, <2>5
  <2>7. LoadText(<<M>>) = Ok(Flush(LoadAll(Tail(GetLines(<<M>>)))).entries)
    BY <2>6, Zenon DEF LoadText
  <2> QED BY <2>3, <2>5, <2>7, Zenon
<1>10. ASSUME NEW c, CutOff(c, <<M, NewLine>>) PROVE LoadText(c) = Corrupted \/ LoadText(c) = Ok(<<>>)
  <2>1. PICK k \in 0..1 : c = SubSeq(<<M, NewLine>>, 1, k)
    BY <1>2, <1>10 DEF CutOff
  <2>2. c = <<>> \/ c = <<M>>
    <3> DEFINE r == Append(<<M>>, NewLine)
    <3>1. c = SubSeq(r, 1, k)
      BY <1>2, <2>1, Zenon
    <3>2. k \in 0..Len(<<M>>) /\ Len(<<M>>) = 1
      BY <1>1, <2>1, Shorts
    <3>3. SubSeq(r, 1, k) = SubSeq(<<M>>, 1, k)
      BY <1>1, <1>2, <3>2, CutOfLonger
    <3> HIDE DEF r
    <3>4. k = 1 => SubSeq(<<M>>, 1, k) = <<M>>
      BY <1>2, <3>2, SubSeqFull
    <3>5. k = 0 => SubSeq(<<M>>, 1, k) = <<>>
      BY <1>2
    <3>6. k = 0 \/ k = 1
      OBVIOUS
    <3> QED BY <3>1, <3>3, <3>4, <3>5, <3>6
  <2> QED BY <1>8, <1>9, <2>2
<1> QED BY <1>2, <1>7, <1>10 DEF M

LEMMA SaveFolds ==
  ASSUME NEW S, HasMarks(S)
  PROVE  /\ SaveText(<<>>) = <<MagicLine, NewLine>>
         /\ \A es \in Seq(RegistryEntries(S)) : SaveText(es) \in Seq(S)
         /\ \A es \in Seq(RegistryEntries(S)), e \in RegistryEntries(S) :
               SaveText(Append(es, e)) = SaveText(es) \o EntryText(e)
<1> DEFINE X == RegistryEntries(S)
           E(es) == [n \in DOMAIN es |-> EntryToLines(es[n]) \o <<NewLine>>]
           first == <<MagicLine, NewLine>>
<1>1. first \in Seq(S)
  BY FirstLine
<1>2. \A e \in X : EntryText(e) \in Seq(S)
  BY FirstLine, EntryIsRead DEF EntryRead
<1>3. \A es : E(es) = [n \in DOMAIN es |-> EntryText(es[n])] /\ SaveText(es) = first \o FlattenSeq(E(es))
  BY Zenon DEF SaveText, EntryText
<1> HIDE DEF first, X, E
<1>4. ASSUME NEW es \in Seq(X) PROVE E(es) \in Seq(Seq(S)) /\ Len(E(es)) = Len(es) /\ \A n \in 1..Len(es) : E(es)[n] = EntryText(es[n])
  <2>1. DOMAIN es = 1..Len(es) /\ Len(es) \in Nat /\ \A n \in 1..Len(es) : es[n] \in X
    OBVIOUS
  <2>2. E(es) \in [1..Len(es) -> Seq(S)]
    BY <1>2, <1>3, <2>1
  <2> QED BY <1>3, <2>1, <2>2
<1>5. ASSUME NEW es \in Seq(X), NEW e \in X PROVE E(Append(es, e)) = Append(E(es), EntryText(e))
  <2> DEFINE x == E(Append(es, e))
             y == Append(E(es), EntryText(e))
  <2>1. /\ Append(es, e) \in Seq(X) /\ Len(Append(es, e)) = Len(es) + 1 /\ Append(es, e)[Len(es) + 1] = e
        /\ Len(es) \in Nat /\ \A n \in 1..Len(es) : Append(es, e)[n] = es[n]
    BY AppendProperties
  <2>2. x \in Seq(Seq(S)) /\ Len(x) = Len(es) + 1 /\ \A n \in 1..(Len(es) + 1) : x[n] = EntryText(Append(es, e)[n])
    BY <1>4, <2>1
  <2>3. E(es) \in Seq(Seq(S)) /\ Len(E(es)) = Len(es) /\ EntryText(e) \in Seq(S)
    BY <1>2, <1>4
  <2>4. /\ y \in Seq(Seq(S)) /\ Len(y) = Len(es) + 1 /\ y[Len(es) + 1] = EntryText(e)
        /\ \A n \in 1..Len(es) : y[n] = E(es)[n]
    BY <2>3, AppendProperties
  <2> HIDE DEF x, y
  <2>5. ASSUME NEW n \in 1..(Len(es) + 1) PROVE x[n] = y[n]
    <3>1. CASE n = Len(es) + 1
      BY <2>1, <2>2, <2>4, <3>1
    <3>2. CASE n \in 1..Len(es)
      <4>1. E(es)[n] = EntryText(es[n])
        BY <1>4, <3>2
      <4>2. x[n] = EntryText(Append(es, e)[n]) /\ Append(es, e)[n] = es[n] /\ y[n] = E(es)[n]
        BY <2>1, <2>2, <2>4, <3>2
      <4> QED BY <4>1, <4>2, Zenon
    <3> QED BY <2>1, <3>1, <3>2
  <2>6. x = y
    BY <2>2, <2>4, <2>5, SeqEqual
  <2> QED BY <2>6 DEF x, y
<1>6. SaveText(<<>>) = first
  <2>1. <<>> \in Seq(X) /\ Len(<<>>) = 0
    OBVIOUS
  <2>2. E(<<>>) \in Seq(Seq(S)) /\ Len(E(<<>>)) = 0
    BY <1>4, <2>1
  <2>3. E(<<>>) = <<>>
    BY <2>2
  <2>4. SaveText(<<>>) = first \o <<>>
    BY <1>3, <2>3, FlattenFolds, Zenon
  <2> QED BY <1>1, <2>4
<1>7. ASSUME NEW es \in Seq(X) PROVE SaveText(es) \in Seq(S)
  <2>1. FlattenSeq(E(es)) \in Seq(S)
    BY <1>4, FlattenFolds
  <2> QED BY <1>1, <1>3, <2>1, ConcatProperties
<1>8. ASSUME NEW es \in Seq(X), NEW e \in X PROVE SaveText(Append(es, e)) = SaveText(es) \o EntryText(e)
  <2>1. FlattenSeq(E(es)) \in Seq(S) /\ FlattenSeq(Append(E(es), EntryText(e))) = FlattenSeq(E(es)) \o EntryText(e)
    BY <1>2, <1>4, FlattenFolds
  <2>2. EntryText(e) \in Seq(S)
    BY <1>2
  <2>3. \A x, y, z \in Seq(S) : x \o (y \o z) = (x \o y) \o z
    OBVIOUS
  <2>4. SaveText(Append(es, e)) = first \o (FlattenSeq(E(es)) \o EntryText(e))
    BY <1>3, <1>5, <2>1, Zenon
  <2> QED BY <1>1, <1>3, <2>1, <2>2, <2>3, <2>4
<1> QED BY <1>6, <1>7, <1>8 DEF first, X

(* What was saved is loaded, and of what lost its end nothing else is.     *)
LEMMA SavedIsLoaded ==
  ASSUME NEW S, HasMarks(S), NEW es \in Seq(RegistryEntries(S))
  PROVE  /\ SaveText(es) \in Seq(S)
         /\ LoadText(SaveText(es)) = Ok(es)
         /\ \A c : CutOff(c, SaveText(es)) => NothingInvented(LoadText(c), es)
<1> DEFINE X == RegistryEntries(S)
           InventsNothing(r) == \A c : CutOff(c, SaveText(r)) => NothingInvented(LoadText(c), r)
           T == {r \in Seq(X) : Reached(SaveText(r), NoFields, r) /\ InventsNothing(r)}
<1>1. <<>> \in T
  <2>1. \A loaded : loaded = Corrupted \/ loaded = Ok(<<>>) => NothingInvented(loaded, <<>>)
    BY DEF NothingInvented, Ok
  <2>2. SaveText(<<>>) = <<MagicLine, NewLine>>
    BY SaveFolds, Zenon
  <2>3. InventsNothing(<<>>)
    BY <2>1, <2>2, FirstLine
  <2> HIDE DEF InventsNothing
  <2>4. Reached(SaveText(<<>>), NoFields, <<>>) /\ <<>> \in Seq(X)
    BY <2>2, FirstLine
  <2> QED BY <2>3, <2>4
<1>2. ASSUME NEW r \in Seq(X), NEW e \in X, r \in T PROVE Append(r, e) \in T
  <2>1. Append(r, e) \in Seq(X) /\ Len(Append(r, e)) = Len(r) + 1 /\ Append(r, e)[Len(r) + 1] = e /\ Len(r) \in Nat
        /\ \A n \in 1..Len(r) : Append(r, e)[n] = r[n]
    BY AppendProperties
  <2>2. SaveText(r) \in Seq(S) /\ SaveText(Append(r, e)) = SaveText(r) \o EntryText(e)
    BY SaveFolds
  <2>3. EntryRead(S, SaveText(r), r, e)
    BY <1>2, <2>2, EntryIsRead
  <2>4. Reached(SaveText(Append(r, e)), NoFields, Append(r, e))
    BY <2>2, <2>3, Zenon DEF EntryRead
  <2>5. ASSUME NEW loaded, NothingInvented(loaded, r) PROVE NothingInvented(loaded, Append(r, e))
    <3>1. CASE loaded = Corrupted
      BY <3>1 DEF NothingInvented
    <3>2. CASE loaded # Corrupted
      <4> DEFINE m == Len(loaded.entries)
                 s == Append(r, e)
                 l == loaded.entries
      <4>1. /\ m \in 0..Len(r)
            /\ \A n \in 1..m : \/ l[n] = r[n]
                               \/ n = m /\ \E k \in 0..Len(r[n].checksum) : l[n] = [r[n] EXCEPT !.checksum = SubSeq(@, 1, k)]
        BY <2>5, <3>2, Zenon DEF NothingInvented
      <4> HIDE DEF m, s, l
      <4>2. \A n \in 1..m : n \in 1..Len(r)
        BY <2>1, <4>1
      <4>3. \A n \in 1..m : s[n] = r[n]
        BY <2>1, <4>2 DEF s
      <4>6. \A n \in 1..m : \/ l[n] = r[n]
                            \/ n = m /\ \E k \in 0..Len(r[n].checksum) : l[n] = [r[n] EXCEPT !.checksum = SubSeq(@, 1, k)]
        BY <4>1, Zenon
      <4>4. \A n \in 1..m : \/ l[n] = s[n]
                            \/ n = m /\ \E k \in 0..Len(s[n].checksum) : l[n] = [s[n] EXCEPT !.checksum = SubSeq(@, 1, k)]
        BY <4>3, <4>6, Zenon
      <4>5. m \in 0..Len(s)
        BY <2>1, <4>1 DEF s
      <4> QED BY <4>4, <4>5, Zenon DEF m, s, l, NothingInvented
    <3> QED BY <3>1, <3>2
  <2>6. ASSUME NEW loaded, OneMore(loaded, r, e) PROVE NothingInvented(loaded, Append(r, e))
    <3>1. CASE loaded = Corrupted
      BY <3>1 DEF NothingInvented
    <3>2. CASE loaded = Ok(r)
      <4>1. loaded.entries = r
        BY <3>2 DEF Ok
      <4> QED BY <2>1, <4>1 DEF NothingInvented
    <3>3. CASE LastIsPart(loaded, r, e)
      <4>1. PICK w : Beginning(w, e.checksum) /\ loaded = Ok(Append(r, [e EXCEPT !.checksum = w]))
        BY <3>3 DEF LastIsPart
      <4>2. PICK k \in 0..Len(e.checksum) : w = SubSeq(e.checksum, 1, k)
        BY <4>1 DEF Beginning
      <4> DEFINE p == [e EXCEPT !.checksum = SubSeq(@, 1, k)]
                 q == Append(r, p)
                 s == Append(r, e)
      <4>3. loaded.entries = q
        BY <4>1, <4>2 DEF Ok
      <4> HIDE DEF p
      <4>4. Len(q) = Len(r) + 1 /\ q[Len(r) + 1] = p /\ \A n \in 1..Len(r) : q[n] = r[n]
        <5>1. r \in Seq(X \cup {p}) /\ p \in X \cup {p}
          OBVIOUS
        <5> QED BY <5>1, AppendProperties
      <4> HIDE DEF q, s
      <4>5. s[Len(r) + 1] = e /\ Len(s) = Len(r) + 1 /\ \A n \in 1..Len(r) : s[n] = r[n]
        BY <2>1 DEF s
      <4>6. ASSUME NEW n \in 1..Len(q)
            PROVE  q[n] = s[n] \/ (n = Len(q) /\ \E j \in 0..Len(s[n].checksum) : q[n] = [s[n] EXCEPT !.checksum = SubSeq(@, 1, j)])
        <5>1. n \in 1..Len(r) \/ n = Len(r) + 1
          BY <2>1, <4>4
        <5>2. CASE n \in 1..Len(r)
          BY <4>4, <4>5, <5>2
        <5>3. CASE n = Len(r) + 1
          <6>1. q[n] = p /\ s[n] = e /\ n = Len(q)
            BY <4>4, <4>5, <5>3
          <6>2. \E j \in 0..Len(e.checksum) : p = [e EXCEPT !.checksum = SubSeq(@, 1, j)]
            BY Zenon DEF p
          <6> QED BY <6>1, <6>2, Zenon
        <5> QED BY <5>1, <5>2, <5>3
      <4>7. Len(q) \in 0..Len(s)
        BY <2>1, <4>4, <4>5
      <4> QED BY <4>3, <4>6, <4>7, Zenon DEF s, NothingInvented
    <3> QED BY <2>6, <3>1, <3>2, <3>3 DEF OneMore
  <2>7. ASSUME NEW c, CutOff(c, SaveText(Append(r, e))) PROVE NothingInvented(LoadText(c), Append(r, e))
    <3>1. EntryText(e) \in Seq(S)
      BY <2>3 DEF EntryRead
    <3>2. CutOff(c, SaveText(r)) \/ CutBehind(c, SaveText(r), EntryText(e), S)
      BY <2>2, <2>7, <3>1, CutOfJoin
    <3>3. CASE CutOff(c, SaveText(r))
      BY <1>2, <2>5, <3>3
    <3>4. CASE CutBehind(c, SaveText(r), EntryText(e), S)
      <4>1. PICK d : d \in Seq(S) /\ CutOff(d, EntryText(e)) /\ c = SaveText(r) \o d
        BY <3>4 DEF CutBehind
      <4>2. OneMore(LoadText(c), r, e)
        BY <2>3, <4>1 DEF EntryRead
      <4> QED BY <2>6, <4>2
    <3> QED BY <3>2, <3>3, <3>4
  <2>8. InventsNothing(Append(r, e))
    BY <2>7
  <2> HIDE DEF InventsNothing
  <2> QED BY <2>1, <2>4, <2>8
<1>3. Seq(X) \subseteq T
  <2> HIDE DEF T, X
  <2> QED BY <1>1, <1>2, AppendInduction
<1>4. Reached(SaveText(es), NoFields, es) /\ InventsNothing(es)
  <2> HIDE DEF InventsNothing
  <2> QED BY <1>3
<1>5. SaveText(es) \in Seq(S)
  BY SaveFolds
<1>6. LoadText(SaveText(es)) = Ok(es)
  <2>1. <<>> \in Seq(S) /\ OneLine(<<>>) /\ SaveText(es) \o <<>> = SaveText(es)
    BY <1>5 DEF OneLine
  <2>2. LoadText(SaveText(es) \o <<>>) = Result(NoFields, es)
    BY <1>4, <1>5, <2>1, NextLine DEF Result, Loading
  <2> QED BY <2>1, <2>2, ResultOfPart
<1> QED BY <1>4, <1>5, <1>6

(* Entries loaded from a text over S are entries of texts over S.          *)
LEMMA LoadedIsTyped ==
  ASSUME NEW S, HasMarks(S), NEW t \in Seq(S)
  PROVE  LoadText(t).entries \in Seq(RegistryEntries(S))
<1> DEFINE read == ReadAll(t)
           lines == GetLines(t)
           last == Flush(LoadAll(Tail(lines)))
<1>1. read.whole \in Seq(Seq(S)) /\ read.part \in Seq(S)
  BY ReadFolds DEF LinesRead
<1>2. lines \in Seq(Seq(S))
  <2>1. lines = IF read.part = <<>> THEN read.whole ELSE Append(read.whole, read.part)
    BY DEF GetLines
  <2> HIDE DEF read, lines
  <2> QED BY <1>1, <2>1, AppendProperties
<1>3. lines # <<>> => last.entries \in Seq(RegistryEntries(S))
  <2> HIDE DEF lines
  <2>1. lines # <<>> => Tail(lines) \in Seq(Seq(S))
    BY <1>2, HeadTailProperties
  <2>2. lines # <<>> => last \in Loadings(S)
    BY <2>1, LoadFolds, FlushTyped
  <2> HIDE DEF last
  <2> QED BY <2>2 DEF Loadings
<1>4. LoadText(t) = IF lines = <<>> \/ lines[1] # <<MagicLine>> \/ ~last.ok THEN Corrupted ELSE Ok(last.entries)
  BY Zenon DEF LoadText
<1> HIDE DEF last, lines
<1>5. Corrupted.entries = <<>> /\ Ok(last.entries).entries = last.entries /\ <<>> \in Seq(RegistryEntries(S))
  BY DEF Corrupted, Ok
<1> QED BY <1>3, <1>4, <1>5

(* Of the items with a property there is a first.                          *)
LEMMA FirstOf ==
  ASSUME NEW N \in Nat, NEW P \in SUBSET (1..N), P # {}
  PROVE  \E n \in P : \A k \in 1..(n - 1) : k \notin P
<1> DEFINE T == {m \in 0..N : (\E n \in P : n <= m) => \E n \in P : \A k \in 1..(n - 1) : k \notin P}
<1>1. 0 \in T
  OBVIOUS
<1>2. ASSUME NEW m \in 0..(N - 1), m \in T PROVE m + 1 \in T
  <2>1. CASE \E n \in P : n <= m
    BY <1>2, <2>1
  <2>2. CASE ~\E n \in P : n <= m
    <3>1. CASE m + 1 \in P
      <4>1. \A k \in 1..((m + 1) - 1) : k \notin P
        BY <2>2
      <4> QED BY <3>1, <4>1
    <3>2. CASE m + 1 \notin P
      <4>1. ~\E n \in P : n <= m + 1
        BY <2>2, <3>2
      <4> QED BY <4>1
    <3> QED BY <3>1, <3>2
  <2> QED BY <2>1, <2>2
<1>3. N \in T
  <2> HIDE DEF T
  <2>1. 0..N \subseteq T
    BY <1>1, <1>2, UpTo
  <2> QED BY <2>1
<1>4. \E n \in P : n <= N
  <2>1. PICK n \in P : TRUE
    OBVIOUS
  <2>2. n <= N
    OBVIOUS
  <2> QED BY <2>2
<1> QED BY <1>3, <1>4

\* The entries of other models than the one with this identity.
OthersThan(es, i) == [n \in {m \in DOMAIN es : es[m].id # i} |-> es[n]]

(* An entry is changed or added, and no other is touched.                  *)
LEMMA UpsertedIs ==
  ASSUME NEW X, NEW es \in Seq(X), NEW e \in X
  PROVE  /\ Upserted(es, e) \in Seq(X)
         /\ \E n \in DOMAIN Upserted(es, e) : Upserted(es, e)[n].id = e.id
         /\ OthersThan(Upserted(es, e), e.id) = OthersThan(es, e.id)
<1> DEFINE P == {n \in 1..Len(es) : es[n].id = e.id}
           u == Upserted(es, e)
<1>1. DOMAIN es = 1..Len(es) /\ Len(es) \in Nat /\ \A n \in 1..Len(es) : es[n] \in X
  OBVIOUS
<1>2. CASE \E n \in DOMAIN es : es[n].id = e.id
  <2> DEFINE Q(n) == es[n].id = e.id /\ \A k \in 1..(n - 1) : es[k].id # e.id
             m == CHOOSE n \in DOMAIN es : Q(n)
  <2>1. u = [es EXCEPT ![m] = e]
    BY <1>2, Zenon DEF Upserted
  <2>2. \E n \in DOMAIN es : Q(n)
    <3>1. PICK n \in P : \A k \in 1..(n - 1) : k \notin P
      <4>1. P # {} /\ P \in SUBSET (1..Len(es))
        BY <1>1, <1>2
      <4> HIDE DEF P
      <4> QED BY <1>1, <4>1, FirstOf
    <3>2. \A k \in 1..(n - 1) : k \in 1..Len(es)
      BY <1>1
    <3> QED BY <1>1, <3>1, <3>2
  <2> HIDE DEF Q
  <2>3. m \in DOMAIN es /\ Q(m)
    BY <2>2
  <2>4. es[m].id = e.id
    BY <2>3 DEF Q
  <2> HIDE DEF m, u
  <2>5. /\ u \in Seq(X) /\ DOMAIN u = DOMAIN es /\ u[m] = e /\ \A n \in DOMAIN es : n # m => u[n] = es[n]
    BY <1>1, <2>1, <2>3
  <2>6. OthersThan(u, e.id) = OthersThan(es, e.id)
    <3>1. {n \in DOMAIN u : u[n].id # e.id} = {n \in DOMAIN es : es[n].id # e.id}
      BY <2>3, <2>4, <2>5
    <3>2. \A n \in {n \in DOMAIN es : es[n].id # e.id} : u[n] = es[n]
      BY <2>4, <2>5
    <3> QED BY <3>1, <3>2 DEF OthersThan
  <2> QED BY <2>3, <2>5, <2>6 DEF u
<1>3. CASE ~\E n \in DOMAIN es : es[n].id = e.id
  <2>1. u = Append(es, e)
    BY <1>3, Zenon DEF Upserted
  <2>2. /\ Append(es, e) \in Seq(X) /\ Len(Append(es, e)) = Len(es) + 1 /\ Append(es, e)[Len(es) + 1] = e
        /\ \A n \in 1..Len(es) : Append(es, e)[n] = es[n]
    BY AppendProperties
  <2> HIDE DEF u
  <2>3. u \in Seq(X) /\ DOMAIN u = 1..(Len(es) + 1) /\ u[Len(es) + 1] = e /\ \A n \in 1..Len(es) : u[n] = es[n]
    BY <2>1, <2>2
  <2>4. {n \in DOMAIN u : u[n].id # e.id} = 1..Len(es) /\ {n \in DOMAIN es : es[n].id # e.id} = 1..Len(es)
    <3>1. \A n \in 1..(Len(es) + 1) : n \in 1..Len(es) \/ n = Len(es) + 1
      BY <1>1
    <3>2. \A n \in 1..Len(es) : n \in 1..(Len(es) + 1)
      BY <1>1
    <3> QED BY <1>1, <1>3, <2>3, <3>1, <3>2
  <2>5. OthersThan(u, e.id) = OthersThan(es, e.id)
    BY <2>3, <2>4 DEF OthersThan
  <2>6. Len(es) + 1 \in DOMAIN u
    BY <1>1, <2>3
  <2> QED BY <2>3, <2>5, <2>6 DEF u
<1> QED BY <1>2, <1>3

\* Entries of texts, with one for the file, and the others as the load found them.
Texts(entries) == \E S : HasMarks(S) /\ entries \in Seq(RegistryEntries(S))
IsSaved(entries) ==
    /\ Texts(entries)
    /\ \E n \in DOMAIN entries : entries[n].id = Text(Digest(file))
    /\ OthersThan(entries, Text(Digest(file))) = OthersThan(Load(before).entries, Text(Digest(file)))

\* What the registry's file is to the entries that were saved.
RegistryInv ==
    /\ stage \notin {"returned", "cut"} => saved = {}
    /\ stage = "import" => /\ file \in Imported /\ expected \in Checksums(Digest(file))
                           /\ verdict \in {"Verified", "ChecksumMismatch"}
    /\ \A entries \in saved : IsSaved(entries)
    /\ stage = "returned" => /\ \A entries \in saved : text = SaveText(entries)
                             /\ Load(before).result = "Corrupted" => text = before
    /\ stage = "cut" => \A entries \in saved : CutOff(text, SaveText(entries))

(* What is saved is made of the characters of what was loaded, of the path *)
(* and of the digest.                                                      *)
LEMMA UpdatedIsSaved ==
  ASSUME file \in Imported, expected \in Checksums(Digest(file)), verdict \in {"Verified", "ChecksumMismatch"},
         NEW path \in Paths, NEW t \in Registries(Digest(file))
  PROVE  LET updated == Upserted(Load(t).entries, NewEntry(Digest(file), path))
         IN  /\ Texts(updated)
             /\ \E n \in DOMAIN updated : updated[n].id = Text(Digest(file))
             /\ OthersThan(updated, Text(Digest(file))) = OthersThan(Load(t).entries, Text(Digest(file)))
<1> DEFINE d == Digest(file)
           digits == {Hex(d, upper) : upper \in BOOLEAN}
           S == (Special \cup {Letter, MagicLine} \cup ToSet(Keys) \cup ToSet(Digits)) \cup ToSet(path) \cup ToSet(t) \cup digits
           e == NewEntry(d, path)
           es == Load(t).entries
<1>1. HasMarks(S)
  BY DEF HasMarks
<1>2. Letter \in S /\ digits \subseteq S /\ ToSet(path) \subseteq S /\ ToSet(t) \subseteq S
  OBVIOUS
<1>3. Hex(d, FALSE) \in digits
  OBVIOUS
<1>4. Checksums(d) \subseteq Seq({Letter} \cup digits)
  BY ChecksumAssumption, Zenon
<1>5. path \in Seq(ToSet(path)) /\ (t # NoFile => t \in Seq(ToSet(t)))
  BY RegistryAssumption DEF IsText
<1> HIDE DEF S, d, digits
<1>6. e.id = Text(d) /\ e = [id |-> <<Hex(d, FALSE)>>, path |-> path, status |-> StatusNumber[verdict], checksum |-> expected]
  BY DEF NewEntry, Text
<1>7. <<Hex(d, FALSE)>> \in Seq(S) /\ <<Hex(d, FALSE)>> # <<>>
  <2>1. ASSUME NEW h \in S PROVE <<h>> \in Seq(S) /\ <<h>> # <<>>
    OBVIOUS
  <2>2. Hex(d, FALSE) \in S
    BY <1>2, <1>3
  <2> QED BY <2>1, <2>2
<1>8. \A A, B : A \subseteq B => Seq(A) \subseteq Seq(B)
  <2>1. ASSUME NEW A, NEW B, A \subseteq B, NEW s \in Seq(A) PROVE s \in Seq(B)
    BY <2>1
  <2> QED BY <2>1
<1>9. path \in Seq(S) /\ expected \in Seq(S) /\ (t # NoFile => t \in Seq(S))
  <2>1. expected \in Seq({Letter} \cup digits)
    BY <1>4 DEF d
  <2>2. {Letter} \cup digits \subseteq S
    BY <1>2
  <2> QED BY <1>2, <1>5, <1>8, <2>1, <2>2
<1>10. StatusNumber[verdict] \in 0..MaxStatus
  BY DEF StatusNumber, MaxStatus
<1>11. e \in RegistryEntries(S)
  <2>1. ASSUME NEW i \in Seq(S), i # <<>>, NEW p \in Seq(S), NEW n \in 0..MaxStatus, NEW c \in Seq(S)
        PROVE  [id |-> i, path |-> p, status |-> n, checksum |-> c] \in RegistryEntries(S)
    BY <2>1 DEF RegistryEntries
  <2> HIDE DEF e
  <2> QED BY <1>6, <1>7, <1>9, <1>10, <2>1, Zenon
<1>12. es \in Seq(RegistryEntries(S))
  <2>1. CASE t = NoFile
    <3>1. es = <<>>
      BY <2>1 DEF Load
    <3> QED BY <3>1
  <2>2. CASE t # NoFile
    <3>1. es = LoadText(t).entries
      BY <2>2 DEF Load
    <3> QED BY <1>1, <1>9, <2>2, <3>1, LoadedIsTyped
  <2> QED BY <2>1, <2>2
<1> HIDE DEF e, es
<1>13. /\ Upserted(es, e) \in Seq(RegistryEntries(S))
       /\ \E n \in DOMAIN Upserted(es, e) : Upserted(es, e)[n].id = e.id
       /\ OthersThan(Upserted(es, e), e.id) = OthersThan(es, e.id)
  <2> DEFINE X == RegistryEntries(S)
  <2> HIDE DEF X
  <2>1. es \in Seq(X) /\ e \in X
    BY <1>11, <1>12 DEF X
  <2> QED BY <2>1, UpsertedIs DEF X
<1>14. Texts(Upserted(es, e))
  BY <1>1, <1>13 DEF Texts
<1> QED BY <1>6, <1>13, <1>14, Zenon DEF d, e, es

LEMMA RegistryInitially == ImportInit => RegistryInv
BY DEF ImportInit, RegistryInv

(* Until the registry is saved there is nothing to show of it.             *)
LEMMA OthersKeepRegistry ==
  ImportInv /\ RegistryInv /\ (Validating \/ Validated \/ ReadChunk \/ ReadFails) => RegistryInv'
<1> SUFFICES ASSUME ImportInv, RegistryInv, Validating \/ Validated \/ ReadChunk \/ ReadFails PROVE RegistryInv'
  OBVIOUS
<1>1. /\ stage \in {"validate", "hash"} /\ stage' \in {"validate", "hash", "compare", "returned"}
      /\ saved' = saved /\ text' = text /\ before' = before
  BY DEF Validating, Validated, ReadChunk, ReadFails, import
<1>2. saved = {} /\ text = before
  BY <1>1 DEF RegistryInv, ImportInv, Staged, Judged
<1> QED BY <1>1, <1>2 DEF RegistryInv

LEMMA CompareKeepsRegistry == ImportInv /\ RegistryInv /\ Compare => RegistryInv'
<1> SUFFICES ASSUME ImportInv, RegistryInv, Compare PROVE RegistryInv'
  OBVIOUS
<1>1. /\ file' = file /\ saved' = saved /\ stage = "compare" /\ stage' = "import" /\ file \in Imported
  BY DEF Compare, vars
<1>2. PICK blocks \in identity : \E checksum \in Checksums(blocks) :
         /\ expected' = checksum
         /\ verdict' = IF checksum = <<>> \/ ToLower(checksum) = Text(blocks)
                       THEN "Verified" ELSE "ChecksumMismatch"
  BY DEF Compare
<1>3. blocks = Digest(file)
  BY <1>2 DEF ImportInv, Staged
<1>4. expected' \in Checksums(Digest(file)) /\ verdict' \in {"Verified", "ChecksumMismatch"}
  BY <1>2, <1>3
<1>5. saved = {}
  BY <1>1 DEF RegistryInv
<1> QED BY <1>1, <1>4, <1>5 DEF RegistryInv

LEMMA ImportKeepsRegistry == ImportInv /\ RegistryInv /\ Import => RegistryInv'
<1> SUFFICES ASSUME ImportInv, RegistryInv, Import PROVE RegistryInv'
  OBVIOUS
<1>1. file' = file /\ stage = "import" /\ stage' = "returned"
  BY DEF Import, vars
<1>2. saved = {} /\ file \in Imported /\ expected \in Checksums(Digest(file))
      /\ verdict \in {"Verified", "ChecksumMismatch"}
  BY <1>1 DEF RegistryInv
<1>3. PICK blocks \in identity, path \in Paths : \E t \in Registries(blocks) :
         LET updated == Upserted(Load(t).entries, NewEntry(blocks, path))
         IN  /\ before' = t
             /\ \/ /\ Readable(t) /\ Saves(updated)
                   /\ text' = SaveText(updated) /\ saved' = {updated}
                \/ text' = t /\ UNCHANGED saved
  BY DEF Import
<1>4. blocks = Digest(file)
  BY <1>3 DEF ImportInv, Staged
<1>5. PICK t \in Registries(Digest(file)) :
         LET updated == Upserted(Load(t).entries, NewEntry(Digest(file), path))
         IN  /\ before' = t
             /\ \/ /\ Readable(t) /\ Saves(updated)
                   /\ text' = SaveText(updated) /\ saved' = {updated}
                \/ text' = t /\ UNCHANGED saved
  BY <1>3, <1>4, Zenon
<1> DEFINE updated == Upserted(Load(t).entries, NewEntry(Digest(file), path))
<1>6. /\ Texts(updated) /\ \E n \in DOMAIN updated : updated[n].id = Text(Digest(file))
      /\ OthersThan(updated, Text(Digest(file))) = OthersThan(Load(t).entries, Text(Digest(file)))
  BY <1>2, UpdatedIsSaved, Zenon
<1>7. before' = t /\ \/ Readable(t) /\ text' = SaveText(updated) /\ saved' = {updated}
                     \/ text' = t /\ saved' = saved
  BY <1>5
<1> HIDE DEF updated
<1>10. PICK u : u = updated
  OBVIOUS
<1>8. CASE text' = t /\ saved' = saved
  BY <1>1, <1>2, <1>7, <1>8 DEF RegistryInv
<1>9. CASE Readable(t) /\ text' = SaveText(u) /\ saved' = {u}
  <2>1. Load(before)' = Load(t) /\ Load(t).result # "Corrupted"
    BY <1>7, <1>9 DEF Load, Readable
  <2>2. Texts(u) /\ \E n \in DOMAIN u : u[n].id = Text(Digest(file))
        /\ OthersThan(u, Text(Digest(file))) = OthersThan(Load(t).entries, Text(Digest(file)))
    BY <1>6, <1>10, Zenon
  <2>4. IsSaved(u)'
    BY <1>1, <2>1, <2>2 DEF IsSaved
  <2>3. \A entries \in saved' : entries = u
    BY <1>9
  <2> QED BY <1>1, <1>9, <2>1, <2>3, <2>4 DEF RegistryInv
<1> QED BY <1>7, <1>8, <1>9, <1>10

LEMMA PowerLossKeepsRegistry == RegistryInv /\ PowerLoss => RegistryInv'
<1> SUFFICES ASSUME RegistryInv, PowerLoss PROVE RegistryInv'
  OBVIOUS
<1>1. file' = file /\ before' = before /\ saved' = saved /\ stage = "returned" /\ stage' = "cut"
      /\ \E n \in 0 .. (Len(text) - 1) : text' = SubSeq(text, 1, n)
  BY DEF PowerLoss, vars
<1>2. \A entries \in saved : CutOff(text', SaveText(entries))
  BY <1>1 DEF RegistryInv, CutOff
<1>3. \A entries \in saved : IsSaved(entries)'
  BY <1>1 DEF RegistryInv, IsSaved, Load
<1> QED BY <1>1, <1>2, <1>3 DEF RegistryInv

LEMMA StutteringKeepsRegistry == RegistryInv /\ UNCHANGED importVars => RegistryInv'
BY DEF RegistryInv, importVars, import, vars, IsSaved, Load

(* The registry's file is what was saved, whole or without its end.        *)
THEOREM RegistryInductive == ImportSpec => []RegistryInv
<1>1. ImportInv /\ RegistryInv /\ [ImportNext]_importVars => RegistryInv'
  BY OthersKeepRegistry, CompareKeepsRegistry, ImportKeepsRegistry, PowerLossKeepsRegistry,
     StutteringKeepsRegistry DEF ImportNext
<1> QED BY RegistryInitially, <1>1, ImportInductive, PTL DEF ImportSpec

(***************************************************************************)
(* For every registry and path, whatever characters they have: what        *)
(* import_model saved is what the next load reads, the entries of other    *)
(* models are as they were, and a registry that could not be read is not   *)
(* written over (model_registry.cpp:31-69, 114-157, 161-222, 273-282).     *)
(***************************************************************************)
THEOREM RegistriesReadBack == ImportSpec => []SavedReadsBack
<1>1. RegistryInv => SavedReadsBack
  <2> SUFFICES ASSUME RegistryInv, stage = "returned" PROVE SavedReadsBack
    BY DEF SavedReadsBack
  <2>1. ASSUME NEW entries \in saved PROVE LoadText(text) = Ok(entries)
    <3>1. text = SaveText(entries) /\ Texts(entries)
      BY <2>1 DEF RegistryInv, IsSaved
    <3>2. PICK S : HasMarks(S) /\ entries \in Seq(RegistryEntries(S))
      BY <3>1 DEF Texts
    <3> QED BY <3>1, <3>2, SavedIsLoaded
  <2>2. \A entries \in saved :
           /\ \E n \in DOMAIN entries : entries[n].id = Text(Digest(file))
           /\ OthersThan(entries, Text(Digest(file))) = OthersThan(Load(before).entries, Text(Digest(file)))
    BY DEF RegistryInv, IsSaved
  <2>3. Load(before).result = "Corrupted" => text = before
    BY DEF RegistryInv
  <2> QED BY <2>1, <2>2, <2>3, Zenon DEF SavedReadsBack, OthersThan
<1> QED BY <1>1, RegistryInductive, PTL

(***************************************************************************)
(* For every registry and wherever its text is cut off: the load reports   *)
(* it as corrupted or finds what was saved up to some entry, the last with *)
(* a part of its last field (model_registry.cpp:133-204, 218).             *)
(***************************************************************************)
THEOREM CutsInventNothing == ImportSpec => []CutInventsNothing
<1>1. RegistryInv => CutInventsNothing
  <2> SUFFICES ASSUME RegistryInv, stage = "cut", NEW entries \in saved
               PROVE  \/ LoadText(text) = Corrupted
                      \/ LET loaded == LoadText(text).entries
                             last == Len(loaded)
                         IN  /\ last <= Len(entries)
                             /\ \A n \in 1..last :
                                   \/ loaded[n] = entries[n]
                                   \/ /\ n = last
                                      /\ \E k \in 0..Len(entries[n].checksum) :
                                            loaded[n] = [entries[n] EXCEPT !.checksum = SubSeq(@, 1, k)]
    BY DEF CutInventsNothing
  <2>1. CutOff(text, SaveText(entries)) /\ Texts(entries)
    BY DEF RegistryInv, IsSaved
  <2>2. PICK S : HasMarks(S) /\ entries \in Seq(RegistryEntries(S))
    BY <2>1 DEF Texts
  <2>3. NothingInvented(LoadText(text), entries)
    BY <2>1, <2>2, SavedIsLoaded
  <2>4. Len(LoadText(text).entries) \in 0..Len(entries) => Len(LoadText(text).entries) <= Len(entries)
    BY <2>2
  <2> QED BY <2>3, <2>4, Zenon DEF NothingInvented
<1> QED BY <1>1, RegistryInductive, PTL
=============================================================================
