-------------------------- MODULE GgufReader_proofs --------------------------
(***************************************************************************)
(* For every set of files and all ceilings: validate stays within the file,*)
(* and the fields it reads or skips are at most one more than the cells it *)
(* has passed, so the size of the file bounds its work; it accepts what the*)
(* format is, and returns what the entries say.                            *)
(*                                                                         *)
(* The format cuts a file into pieces, each at one of the ends it may have.*)
(* The recursive function that makes the cuts is the set of the chains of  *)
(* places (CutsAre), by induction over their length, and no piece has two  *)
(* ends, so that chains agree and one that is stuck ends all (Stuck).  The *)
(* reader is always at the end of the chain of the entries that it has     *)
(* captured, or in the entry that begins there (Parsed).                   *)
(***************************************************************************)
EXTENDS GgufReader, TLAPS, WellFoundedInduction, FiniteSetTheorems, SequenceTheorems

\* A step that has not failed has advanced as often as it was taken.
Advances == pc # "done" => work <= pos

\* Nothing is read before the header, and a value belongs to a pair that is left to read.
Phases ==
    /\ pc = "header" => work = 0
    /\ pc \in {"value", "elements"} => kvs > 0

IInv == TypeOK /\ Advances /\ Phases /\ WorkIsBounded

LEMMA LengthIsNat == TypeOK => Len(file) \in Nat
BY DEF TypeOK

LEMMA InFileEnds ==
    ASSUME Len(file) \in Nat, NEW at \in Nat, NEW n \in Nat, InFile(at, n)
    PROVE  at + n \in Nat /\ at + n <= Len(file)
BY DEF InFile

LEMMA CellIsNat ==
    ASSUME TypeOK, NEW at \in Nat, InFile(at, 1)
    PROVE  Cell(at) \in Nat
BY DEF TypeOK, InFile, Cell

LEMMA CellsAreNats ==
    ASSUME TypeOK, NEW at \in Nat, NEW n \in Nat, InFile(at, n)
    PROVE  Cells(at, n) \in Seq(Nat) /\ Len(Cells(at, n)) = n
BY DEF TypeOK, InFile, Cells

LEMMA Initially == Init => IInv
BY GgufAssumption DEF Init, IInv, TypeOK, NeverPastTheEnd, Advances, Phases,
                      WorkIsBounded, Number, Statuses

LEMMA ReadHeaderKeeps == IInv /\ ReadHeader => IInv'
<1> SUFFICES ASSUME IInv, ReadHeader PROVE IInv'
    OBVIOUS
<1> USE DEF IInv, TypeOK, NeverPastTheEnd, Advances, Phases, WorkIsBounded
<1>1. CASE HeaderStatus = "reading"
  <2>1. Len(file) >= 4 /\ ~(Cell(3) > MaxKvs)
      BY <1>1 DEF HeaderStatus, HeaderSize
  <2>2. Cell(3) \in 0..MaxKvs
      BY <2>1, GgufAssumption DEF Cell
  <2> QED BY <1>1, <2>1, <2>2 DEF ReadHeader, HeaderSize, Statuses
<1>2. CASE HeaderStatus # "reading"
  <2>1. HeaderStatus \in Statuses \ {"reading"}
      BY <1>2 DEF HeaderStatus, Statuses
  <2> QED BY <1>2, <2>1 DEF ReadHeader, Return
<1> QED BY <1>1, <1>2

\* A field that is read or skipped inside the file, with the counts within bounds.
LEMMA AdvanceKeeps ==
    ASSUME IInv, pc # "done", UNCHANGED <<file, status>>, work' = work + 1,
           pos' \in Nat, pos' <= Len(file), work' <= pos',
           pc' \in {"key", "value", "elements"}, pc' # "key" => kvs' > 0,
           kvs' \in 0..MaxKvs, count' \in 0..MaxArray,
           key' \in Seq(Nat), Len(key') <= MaxKey, type' \in {Number, Wide, String, Array}
    PROVE  IInv'
<1>1. file' \in Seq(Nat) /\ status' \in Statuses /\ (status' = "reading" <=> pc' # "done")
    BY DEF IInv, TypeOK
<1>2. work \in Nat /\ work' \in Nat
    BY DEF IInv, TypeOK
<1>3. TypeOK'
    BY <1>1, <1>2 DEF TypeOK
<1>4. Advances' /\ Phases'
    BY DEF Advances, Phases
<1>5. WorkIsBounded'
  <2>1. \A m, n \in Nat : m <= n => m <= n + 1
      OBVIOUS
  <2> QED BY <1>2, <2>1 DEF WorkIsBounded, NeverPastTheEnd
<1> QED BY <1>3, <1>4, <1>5 DEF IInv

\* A rejected field ends the walk where it is.
LEMMA RejectKeeps ==
    ASSUME IInv, pc # "done", Malformed, work' = work + 1, UNCHANGED file
    PROVE  IInv'
<1>1. pc' = "done" /\ status' = "MalformedMetadata" /\ UNCHANGED <<file, pos, kvs, key, type, count>>
    BY DEF Malformed, Return
<1>2. work' \in Nat /\ work' <= pos' + 1
    BY <1>1 DEF IInv, TypeOK, Advances
<1> QED BY <1>1, <1>2 DEF Statuses, IInv, TypeOK, NeverPastTheEnd, Advances, Phases, WorkIsBounded

LEMMA ReadKeyKeeps == IInv /\ ReadKey => IInv'
<1> SUFFICES ASSUME IInv, ReadKey PROVE IInv'
    OBVIOUS
<1> DEFINE length == Cell(pos)
           Good == /\ InFile(pos, 1) /\ length <= MaxKey
                   /\ InFile(pos + 1, length) /\ InFile(pos + 1 + length, 1)
                   /\ Cell(pos + 1 + length) \in {Number, Wide, String, Array}
<1>1. CASE Good
  <2>1. length \in Nat
      BY <1>1, CellIsNat DEF IInv, TypeOK
  <2>2. Cells(pos + 1, length) \in Seq(Nat) /\ Len(Cells(pos + 1, length)) = length
      BY <1>1, <2>1, CellsAreNats DEF IInv, TypeOK
  <2>3. pos + length + 2 \in Nat /\ pos + length + 2 <= Len(file)
    <3>1. pos \in Nat /\ Len(file) \in Nat
        BY LengthIsNat DEF IInv, TypeOK
    <3>2. InFile(pos + 1 + length, 1) /\ pos + 1 + length \in Nat
        BY <1>1, <2>1, <3>1
    <3>3. pos + 1 + length + 1 <= Len(file)
        BY <3>1, <3>2, InFileEnds
    <3> QED BY <2>1, <3>1, <3>3
  <2>4. /\ key' = Cells(pos + 1, length) /\ type' = Cell(pos + 1 + length)
        /\ pos' = pos + length + 2 /\ pc' = "value" /\ work' = work + 1
        /\ UNCHANGED <<file, kvs, count, status>>
      BY <1>1 DEF ReadKey
  <2>5. /\ pc = "key" /\ kvs > 0 /\ length <= MaxKey /\ work + 1 <= pos + length + 2
        /\ kvs \in 0..MaxKvs /\ count \in 0..MaxArray
      BY <1>1, <2>1 DEF ReadKey, IInv, TypeOK, Advances
  <2>6. type' \in {Number, Wide, String, Array}
      BY <1>1, <2>4
  <2> HIDE DEF length
  <2> QED BY <2>2, <2>3, <2>4, <2>5, <2>6, AdvanceKeeps
<1>2. CASE ~Good
    BY <1>2, RejectKeeps DEF ReadKey
<1> QED BY <1>1, <1>2

LEMMA ReadScalarKeeps == IInv /\ ReadScalar => IInv'
<1> SUFFICES ASSUME IInv, ReadScalar PROVE IInv'
    OBVIOUS
<1>1. Width[type] \in {1, 2}
    BY DEF ReadScalar, Width, Number, Wide
<1>2. CASE InFile(pos, Width[type])
  <2>1. pos + Width[type] \in Nat /\ pos + Width[type] <= Len(file)
      BY <1>1, <1>2, LengthIsNat, InFileEnds DEF IInv, TypeOK
  <2>2. /\ pc' = "key" /\ kvs' = kvs - 1 /\ pos' = pos + Width[type] /\ work' = work + 1
        /\ UNCHANGED <<file, key, type, count, status>>
      BY <1>2 DEF ReadScalar, NextKey
  <2>3. /\ pc = "value" /\ kvs - 1 \in 0..MaxKvs /\ work + 1 <= pos + Width[type]
        /\ count \in 0..MaxArray /\ key \in Seq(Nat) /\ Len(key) <= MaxKey
        /\ type \in {Number, Wide, String, Array}
      BY <1>1, GgufAssumption DEF ReadScalar, IInv, TypeOK, Advances, Phases
  <2> QED BY <2>1, <2>2, <2>3, AdvanceKeeps
<1>3. CASE ~InFile(pos, Width[type])
    BY <1>3, RejectKeeps DEF ReadScalar
<1> QED BY <1>2, <1>3

LEMMA ReadStringKeeps == IInv /\ ReadString => IInv'
<1> SUFFICES ASSUME IInv, ReadString PROVE IInv'
    OBVIOUS
<1>1. CASE StringFits(pos)
  <2>1. Cell(pos) \in Nat
      BY <1>1, CellIsNat DEF StringFits, IInv, TypeOK
  <2>2. pos + 1 + Cell(pos) \in Nat /\ pos + 1 + Cell(pos) <= Len(file)
      BY <1>1, <2>1, LengthIsNat, InFileEnds DEF StringFits, IInv, TypeOK
  <2>3. /\ pc' = "key" /\ kvs' = kvs - 1 /\ pos' = pos + 1 + Cell(pos) /\ work' = work + 1
        /\ UNCHANGED <<file, key, type, count, status>>
      BY <1>1 DEF ReadString, NextKey
  <2>4. pc = "value" /\ count \in 0..MaxArray /\ key \in Seq(Nat) /\ Len(key) <= MaxKey
        /\ type \in {Number, Wide, String, Array}
      BY DEF ReadString, IInv, TypeOK
  <2>5. kvs - 1 \in 0..MaxKvs
      BY <2>4, GgufAssumption DEF IInv, TypeOK, Phases
  <2>6. work + 1 <= pos + 1 + Cell(pos)
      BY <2>1, <2>4 DEF IInv, TypeOK, Advances
  <2> QED BY <2>2, <2>3, <2>4, <2>5, <2>6, AdvanceKeeps
<1>2. CASE ~StringFits(pos)
    BY <1>2, RejectKeeps DEF ReadString
<1> QED BY <1>1, <1>2

LEMMA ReadElementKeeps == IInv /\ ReadElement => IInv'
<1> SUFFICES ASSUME IInv, ReadElement PROVE IInv'
    OBVIOUS
<1>1. CASE StringFits(pos)
  <2>1. Cell(pos) \in Nat
      BY <1>1, CellIsNat DEF StringFits, IInv, TypeOK
  <2>2. pos + 1 + Cell(pos) \in Nat /\ pos + 1 + Cell(pos) <= Len(file)
      BY <1>1, <2>1, LengthIsNat, InFileEnds DEF StringFits, IInv, TypeOK
  <2>3. /\ count' = count - 1 /\ pos' = pos + 1 + Cell(pos) /\ work' = work + 1
        /\ UNCHANGED <<file, pc, kvs, key, type, status>>
      BY <1>1 DEF ReadElement
  <2>4. /\ pc = "elements" /\ kvs > 0 /\ kvs \in 0..MaxKvs /\ work + 1 <= pos + 1 + Cell(pos)
        /\ count - 1 \in 0..MaxArray /\ key \in Seq(Nat) /\ Len(key) <= MaxKey
        /\ type \in {Number, Wide, String, Array}
      BY <2>1, GgufAssumption DEF ReadElement, IInv, TypeOK, Advances, Phases
  <2> QED BY <2>2, <2>3, <2>4, AdvanceKeeps
<1>2. CASE ~StringFits(pos)
    BY <1>2, RejectKeeps DEF ReadElement
<1> QED BY <1>1, <1>2

LEMMA ReadArrayKeeps == IInv /\ ReadArray => IInv'
<1> SUFFICES ASSUME IInv, ReadArray PROVE IInv'
    OBVIOUS
<1> DEFINE element == Cell(pos)
           length == Cell(pos + 1)
           Fits == /\ InFile(pos, 1) /\ element \in ElementTypes
                   /\ InFile(pos + 1, 1) /\ length <= MaxArray
           Scalars == element \in {Number, Wide}
           Skips == InFile(pos + 2, length * Width[element])
<1>1. /\ pc = "value" /\ work + 1 <= pos + 2 /\ pos \in Nat /\ Len(file) \in Nat
      /\ kvs > 0 /\ kvs \in 0..MaxKvs /\ kvs - 1 \in 0..MaxKvs /\ count \in 0..MaxArray
      /\ key \in Seq(Nat) /\ Len(key) <= MaxKey /\ type \in {Number, Wide, String, Array}
    BY GgufAssumption DEF ReadArray, IInv, TypeOK, Advances, Phases
<1>2. CASE ~Fits
    BY <1>1, <1>2, RejectKeeps DEF ReadArray
<1>3. CASE Fits
  <2>1. length \in 0..MaxArray
    <3>1. length \in Nat
        BY <1>1, <1>3, CellIsNat DEF IInv
    <3> QED BY <1>3, <3>1, GgufAssumption
  <2>2. pos + 2 <= Len(file)
      BY <1>1, <1>3 DEF InFile
  <2>3. CASE ~Scalars
    <3>1. /\ pc' = "elements" /\ count' = length /\ pos' = pos + 2 /\ work' = work + 1
          /\ UNCHANGED <<file, kvs, key, type, status>>
        BY <1>3, <2>3 DEF ReadArray
    <3> HIDE DEF length
    <3> QED BY <1>1, <2>1, <2>2, <3>1, AdvanceKeeps
  <2>4. CASE Scalars /\ Skips
    <3>1. Width[element] \in {1, 2}
        BY <2>4 DEF Width, Number, Wide
    <3>2. length * Width[element] \in Nat
        BY <2>1, <3>1, GgufAssumption
    <3>3. /\ pc' = "key" /\ kvs' = kvs - 1 /\ pos' = pos + 2 + length * Width[element]
          /\ work' = work + 1 /\ UNCHANGED <<file, key, type, count, status>>
        BY <1>3, <2>4 DEF ReadArray, NextKey
    <3>4. Skips
        BY <2>4
    <3> DEFINE size == length * Width[element]
    <3>5. size \in Nat /\ InFile(pos + 2, size) /\ pos' = pos + 2 + size
        BY <3>2, <3>3, <3>4
    <3> HIDE DEF size
    <3>6. pos' \in Nat /\ pos' <= Len(file) /\ work + 1 <= pos'
        BY <1>1, <3>5, InFileEnds DEF IInv, TypeOK
    <3> QED BY <1>1, <3>3, <3>6, AdvanceKeeps
  <2>5. CASE Scalars /\ ~Skips
      BY <1>1, <1>3, <2>5, RejectKeeps DEF ReadArray
  <2> QED BY <2>3, <2>4, <2>5
<1> QED BY <1>2, <1>3

LEMMA EndsKeep == IInv /\ (EndArray \/ Finish \/ UNCHANGED vars) => IInv'
<1> SUFFICES ASSUME IInv, EndArray \/ Finish \/ UNCHANGED vars PROVE IInv'
    OBVIOUS
<1> USE GgufAssumption DEF IInv, TypeOK, NeverPastTheEnd, Advances, Phases, WorkIsBounded
<1>1. CASE EndArray
    BY <1>1 DEF EndArray, NextKey
<1>2. CASE Finish
    BY <1>2 DEF Finish, Return, Statuses
<1>3. CASE UNCHANGED vars
    BY <1>3 DEF vars
<1> QED BY <1>1, <1>2, <1>3

THEOREM Inductive == Spec => []IInv
<1>1. IInv /\ [Next]_vars => IInv'
    BY ReadHeaderKeeps, ReadKeyKeeps, ReadScalarKeeps, ReadStringKeeps, ReadArrayKeeps,
       ReadElementKeeps, EndsKeep DEF Next
<1> QED BY Initially, <1>1, PTL DEF Spec

(***************************************************************************)
(* The types: the counters stay within the ceilings of GgufLimits and the  *)
(* status is final exactly when validate has returned.                     *)
(***************************************************************************)
THEOREM TypeCorrect == Spec => []TypeOK
BY Inductive, PTL DEF IInv

(***************************************************************************)
(* Whatever the file declares, BoundedReader stays within it and the fields*)
(* that are read or skipped are bounded by its size.                       *)
(***************************************************************************)
THEOREM TheFileBoundsTheWork == Spec => []WorkIsBounded
BY Inductive, PTL DEF IInv
-----------------------------------------------------------------------------
(***************************************************************************)
(* Induction over the natural numbers, stated for a set of them: a set with*)
(* no least number would contain intervals of no smallest.                 *)
(***************************************************************************)
LEMMA Least ==
  ASSUME NEW T \in SUBSET Nat, T # {}
  PROVE  \E m \in T : \A k \in T : m <= k
<1> DEFINE Below(n) == 0 .. (n - 1)
           Downs == {Below(n) : n \in T}
<1>1. Downs \subseteq FiniteSubsetsOf(Nat)
  <2>1. \A n \in T : IsFiniteSet(Below(n)) /\ Below(n) \subseteq Nat
    BY FS_Interval
  <2> QED BY <2>1 DEF FiniteSubsetsOf
<1>2. \E d \in Downs : \A e \in Downs : <<e, d>> \notin StrictSubsetOrdering(Nat)
  <2>1. IsWellFoundedOn(StrictSubsetOrdering(Nat), FiniteSubsetsOf(Nat))
    BY FS_StrictSubsetOrderingWellFounded
  <2>2. Downs # {}
    OBVIOUS
  <2> HIDE DEF Downs
  <2> QED BY <1>1, <2>1, <2>2, WFMin
<1>3. PICK m \in T : \A k \in T : <<Below(k), Below(m)>> \notin StrictSubsetOrdering(Nat)
  BY <1>2
<1>4. ASSUME NEW k \in T, k < m PROVE <<Below(k), Below(m)>> \in StrictSubsetOrdering(Nat)
  <2>1. k \in Below(m) /\ k \notin Below(k)
    BY <1>4
  <2>2. Below(k) \subseteq Below(m) /\ Below(m) \subseteq Nat
    BY <1>4
  <2>3. Below(k) # Below(m)
    BY <2>1
  <2> HIDE DEF Below
  <2> QED BY <2>2, <2>3 DEF StrictSubsetOrdering
<1>5. \A k \in T : ~(k < m)
  BY <1>3, <1>4 DEF Below
<1> QED BY <1>5

LEMMA SetInduction ==
  ASSUME NEW T \in SUBSET Nat, 0 \in T, \A n \in T : n + 1 \in T
  PROVE  T = Nat
<1> SUFFICES ASSUME T # Nat PROVE FALSE
  OBVIOUS
<1>1. PICK m \in Nat \ T : \A k \in Nat \ T : m <= k
  BY Least
<1>2. m # 0 /\ m - 1 \in Nat /\ m - 1 \notin Nat \ T
  BY <1>1
<1> QED BY <1>2

(* A set of numbers that is not empty has a greatest if it is bounded.     *)
LEMMA Greatest ==
  ASSUME NEW n \in Nat, NEW T \in SUBSET (0..n), T # {}
  PROVE  \E m \in T : \A k \in T : k <= m
<1> DEFINE U == {n - k : k \in T}
<1>1. U \in SUBSET Nat /\ U # {}
  <2>1. \A k \in T : n - k \in Nat
    OBVIOUS
  <2> QED BY <2>1
<1>2. PICK u \in U : \A w \in U : u <= w
  <2> HIDE DEF U
  <2> QED BY <1>1, Least
<1>3. PICK m \in T : u = n - m
  OBVIOUS
<1>4. ASSUME NEW k \in T PROVE k <= m
  <2>1. n - k \in U /\ k \in 0..n /\ m \in 0..n
    OBVIOUS
  <2>2. n - m <= n - k
    BY <1>2, <1>3, <2>1
  <2> QED BY <2>1, <2>2
<1> QED BY <1>4
-----------------------------------------------------------------------------
\* The ends of pieces of s: of every place in s some places behind it.
Ending(s) == [Places(s) -> SUBSET Places(s)]

\* The sequences of n + 1 places where each is an end of a piece from the one before.
Chains(s, ends, from, n) ==
    {c \in Seq(Places(s)) : Len(c) = n + 1 /\ c[1] = from /\ \A i \in 1..n : c[i + 1] \in ends[c[i]]}

LEMMA NoChain ==
  ASSUME NEW s \in Seq(Nat), NEW ends \in Ending(s), NEW from \in Places(s)
  PROVE  Chains(s, ends, from, 0) = {<<from>>}
<1>1. ASSUME NEW c \in Chains(s, ends, from, 0) PROVE c = <<from>>
  <2>1. c \in Seq(Places(s)) /\ Len(c) = 1 /\ c[1] = from
    BY DEF Chains
  <2> QED BY <2>1
<1>2. <<from>> \in Chains(s, ends, from, 0)
  <2>1. \A i \in 1..0 : FALSE
    OBVIOUS
  <2> QED BY <2>1 DEF Chains
<1> QED BY <1>1, <1>2

(* A chain is prolonged by an end of a piece from its last place, and only *)
(* so.                                                                     *)
LEMMA Prolonged ==
  ASSUME NEW s \in Seq(Nat), NEW ends \in Ending(s), NEW from \in Places(s), NEW n \in Nat,
         NEW c \in Chains(s, ends, from, n), NEW to \in ends[c[n + 1]]
  PROVE  /\ Append(c, to) \in Chains(s, ends, from, n + 1)
         /\ Append(c, to)[n + 2] = to /\ \A i \in 1..(n + 1) : Append(c, to)[i] = c[i]
<1>1. c \in Seq(Places(s)) /\ Len(c) = n + 1 /\ c[1] = from /\ \A i \in 1..n : c[i + 1] \in ends[c[i]]
  BY DEF Chains
<1>2. c[n + 1] \in Places(s)
  BY <1>1
<1>3. to \in Places(s)
  BY <1>2 DEF Ending
<1> DEFINE d == Append(c, to)
<1>4. /\ d \in Seq(Places(s)) /\ Len(d) = n + 2 /\ d[n + 2] = to
      /\ \A i \in 1..(n + 1) : d[i] = c[i]
  BY <1>1, <1>3
<1> HIDE DEF d
<1>5. ASSUME NEW i \in 1..(n + 1) PROVE d[i + 1] \in ends[d[i]]
  <2>1. CASE i = n + 1
    BY <1>4, <2>1
  <2>2. CASE i # n + 1
    <3>1. i \in 1..n /\ i + 1 \in 1..(n + 1)
      BY <2>2
    <3> QED BY <1>1, <1>4, <3>1
  <2> QED BY <2>1, <2>2
<1>6. d[1] = from /\ Len(d) = (n + 1) + 1
  BY <1>1, <1>4
<1>7. d \in Chains(s, ends, from, n + 1)
  BY <1>4, <1>5, <1>6 DEF Chains
<1> QED BY <1>4, <1>7 DEF d

LEMMA Shortened ==
  ASSUME NEW s \in Seq(Nat), NEW ends \in Ending(s), NEW from \in Places(s), NEW n \in Nat,
         NEW d \in Chains(s, ends, from, n + 1)
  PROVE  \E c \in Chains(s, ends, from, n) : \E to \in ends[c[n + 1]] : d = Append(c, to)
<1>1. /\ d \in Seq(Places(s)) /\ Len(d) = n + 2 /\ d[1] = from
      /\ \A i \in 1..(n + 1) : d[i + 1] \in ends[d[i]]
  <2>1. (n + 1) + 1 = n + 2
    OBVIOUS
  <2> QED BY <2>1 DEF Chains
<1> DEFINE c == SubSeq(d, 1, n + 1)
<1>2. c \in Seq(Places(s)) /\ Len(c) = n + 1 /\ \A i \in 1..(n + 1) : c[i] = d[i]
  BY <1>1
<1> HIDE DEF c
<1>3. \A i \in 1..n : i \in 1..(n + 1) /\ i + 1 \in 1..(n + 1)
  OBVIOUS
<1>4. c \in Chains(s, ends, from, n)
  BY <1>1, <1>2, <1>3 DEF Chains
<1>5. d[n + 2] \in ends[c[n + 1]]
  <2>1. n + 1 \in 1..(n + 1) /\ (n + 1) + 1 = n + 2
    OBVIOUS
  <2> QED BY <1>1, <1>2, <2>1
<1>6. d[n + 2] \in Places(s)
  BY <1>1
<1> DEFINE e == Append(c, d[n + 2])
<1>7. e \in Seq(Places(s)) /\ Len(e) = n + 2 /\ \A i \in 1..(n + 2) : e[i] = d[i]
  BY <1>1, <1>2, <1>6
<1> HIDE DEF e
<1>8. d = e
  BY <1>1, <1>7, SeqEqual
<1> QED BY <1>4, <1>5, <1>8 DEF e

(* The ways to cut are the chains: what Cuts computes.                     *)
LEMMA CutsAre ==
  ASSUME NEW s \in Seq(Nat), NEW ends \in Ending(s), NEW from \in Places(s), NEW n \in Nat
  PROVE  Cuts(ends, from, n) = Chains(s, ends, from, n)
<1> DEFINE At(i) == Chains(s, ends, from, i)
           Next1(f, i) == IF i = 0 THEN {<<from>>}
                          ELSE UNION {{Append(c, to) : to \in ends[c[i]]} : c \in f[i - 1]}
           Of == CHOOSE f : f = [i \in 0..n |-> Next1(f, i)]
           F == [i \in 0..n |-> At(i)]
<1>1. ASSUME NEW i \in 1..n PROVE At(i) = UNION {{Append(c, to) : to \in ends[c[i]]} : c \in At(i - 1)}
  <2> DEFINE U == UNION {{Append(c, to) : to \in ends[c[i]]} : c \in At(i - 1)}
             k == i - 1
  <2>1. k \in Nat /\ i = k + 1
    OBVIOUS
  <2>2. ASSUME NEW d \in At(i) PROVE d \in U
    <3>1. d \in Chains(s, ends, from, k + 1)
      BY <2>1
    <3> HIDE DEF k
    <3>2. PICK c \in Chains(s, ends, from, k) : \E to \in ends[c[k + 1]] : d = Append(c, to)
      BY <2>1, <3>1, Shortened
    <3> QED BY <2>1, <3>2 DEF k
  <2>3. ASSUME NEW c \in At(i - 1), NEW to \in ends[c[i]] PROVE Append(c, to) \in At(i)
    <3>1. c \in Chains(s, ends, from, k) /\ to \in ends[c[k + 1]]
      BY <2>1
    <3> HIDE DEF k
    <3> QED BY <2>1, <3>1, Prolonged
  <2>4. U \subseteq At(i)
    <3> HIDE DEF At, k
    <3> SUFFICES ASSUME NEW d \in U PROVE d \in At(i)
      OBVIOUS
    <3>1. PICK c \in At(i - 1) : d \in {Append(c, to) : to \in ends[c[i]]}
      OBVIOUS
    <3>2. PICK to \in ends[c[i]] : d = Append(c, to)
      BY <3>1
    <3> QED BY <2>3, <3>2
  <2> HIDE DEF U
  <2>5. At(i) = U
    BY <2>2, <2>4
  <2> QED BY <2>5, Zenon DEF U
<1> HIDE DEF At
<1>2. At(0) = {<<from>>}
  BY NoChain DEF At
<1>3. F = [i \in 0..n |-> Next1(F, i)]
  <2>1. ASSUME NEW i \in 0..n PROVE At(i) = Next1(F, i)
    <3>1. CASE i = 0
      BY <1>2, <3>1
    <3>2. CASE i # 0
      <4>1. i \in 1..n /\ i - 1 \in 0..n
        BY <3>2
      <4>2. F[i - 1] = At(i - 1)
        BY <4>1
      <4> QED BY <1>1, <3>2, <4>1, <4>2
    <3> QED BY <3>1, <3>2
  <2> QED BY <2>1, Zenon
<1>4. Of = [i \in 0..n |-> Next1(Of, i)]
  BY <1>3, Zenon
<1> HIDE DEF Of, F
<1>5. \A i \in 0..n : Of[i] = Next1(Of, i)
  BY <1>4, Zenon
<1> DEFINE T == {i \in Nat : i <= n => Of[i] = At(i)}
<1>6. 0 \in T
  <2>1. Of[0] = Next1(Of, 0)
    <3>1. 0 \in 0..n
      OBVIOUS
    <3> HIDE DEF Next1
    <3> QED BY <1>5, <3>1
  <2>2. Next1(Of, 0) = {<<from>>}
    BY Zenon
  <2> HIDE DEF Next1
  <2> QED BY <1>2, <2>1, <2>2
<1>7. ASSUME NEW i \in T PROVE i + 1 \in T
  <2> SUFFICES ASSUME i + 1 <= n PROVE Of[i + 1] = At(i + 1)
    OBVIOUS
  <2>1. i \in Nat /\ i <= n /\ i + 1 \in 1..n /\ i + 1 \in 0..n /\ (i + 1) - 1 = i /\ i + 1 # 0
    OBVIOUS
  <2>2. Of[i + 1] = UNION {{Append(c, to) : to \in ends[c[i + 1]]} : c \in Of[i]}
    BY <1>5, <2>1
  <2>3. At(i + 1) = UNION {{Append(c, to) : to \in ends[c[i + 1]]} : c \in At(i)}
    BY <1>1, <2>1
  <2>4. Of[i] = At(i)
    BY <2>1
  <2> QED BY <2>2, <2>3, <2>4
<1>8. T = Nat
  <2>1. T \in SUBSET Nat
    OBVIOUS
  <2> HIDE DEF T
  <2> QED BY <1>6, <1>7, <2>1, SetInduction
<1>9. Of[n] = At(n)
  BY <1>8
<1>10. Cuts(ends, from, n) = Of[n]
  BY Zenon DEF Cuts, Of
<1> QED BY <1>9, <1>10 DEF At

\* No piece has two ends.
Single(s, ends) == \A from \in Places(s) : \A a, b \in ends[from] : a = b

(* Then two chains agree as far as the shorter goes.                       *)
LEMMA ChainsAgree ==
  ASSUME NEW s \in Seq(Nat), NEW ends \in Ending(s), Single(s, ends), NEW from \in Places(s),
         NEW n \in Nat, NEW m \in Nat, n <= m,
         NEW c \in Chains(s, ends, from, n), NEW d \in Chains(s, ends, from, m)
  PROVE  \A i \in 1..(n + 1) : d[i] = c[i]
<1> DEFINE T == {i \in Nat : i <= n => d[i + 1] = c[i + 1]}
<1>1. /\ c \in Seq(Places(s)) /\ Len(c) = n + 1 /\ c[1] = from /\ \A i \in 1..n : c[i + 1] \in ends[c[i]]
      /\ d \in Seq(Places(s)) /\ Len(d) = m + 1 /\ d[1] = from /\ \A i \in 1..m : d[i + 1] \in ends[d[i]]
  BY DEF Chains
<1>2. 0 \in T
  <2>1. 0 + 1 = 1
    OBVIOUS
  <2> QED BY <1>1, <2>1
<1>3. ASSUME NEW i \in T PROVE i + 1 \in T
  <2> SUFFICES ASSUME i + 1 <= n PROVE d[(i + 1) + 1] = c[(i + 1) + 1]
    OBVIOUS
  <2> DEFINE k == i + 1
  <2>1. i \in Nat /\ k \in 1..n /\ k \in 1..m /\ k \in 1..Len(c) /\ d[k] = c[k]
    BY <1>1
  <2> HIDE DEF k
  <2>2. c[k + 1] \in ends[c[k]] /\ d[k + 1] \in ends[c[k]] /\ c[k] \in Places(s)
    BY <1>1, <2>1
  <2> QED BY <2>2 DEF Single, k
<1>4. T = Nat
  <2>1. T \in SUBSET Nat
    OBVIOUS
  <2> HIDE DEF T
  <2> QED BY <1>2, <1>3, <2>1, SetInduction
<1>5. ASSUME NEW i \in 1..(n + 1) PROVE d[i] = c[i]
  <2>1. i - 1 \in T /\ i - 1 <= n /\ (i - 1) + 1 = i
    <3>1. i - 1 \in Nat /\ i - 1 <= n /\ (i - 1) + 1 = i
      OBVIOUS
    <3> HIDE DEF T
    <3> QED BY <1>4, <3>1
  <2> QED BY <2>1
<1> QED BY <1>5

(* Where a chain cannot be prolonged, no chain is longer.                  *)
LEMMA Stuck ==
  ASSUME NEW s \in Seq(Nat), NEW ends \in Ending(s), Single(s, ends), NEW from \in Places(s),
         NEW n \in Nat, NEW m \in Nat, n < m,
         NEW c \in Chains(s, ends, from, n), ends[c[n + 1]] = {}
  PROVE  Chains(s, ends, from, m) = {}
<1> SUFFICES ASSUME NEW d \in Chains(s, ends, from, m) PROVE FALSE
  OBVIOUS
<1>1. d[n + 1] = c[n + 1]
  BY ChainsAgree
<1>2. d[(n + 1) + 1] \in ends[d[n + 1]]
  <2>1. n + 1 \in 1..m
    OBVIOUS
  <2> QED BY <2>1 DEF Chains
<1> QED BY <1>1, <1>2

(* Two chains of a length are one.                                         *)
LEMMA OneChain ==
  ASSUME NEW s \in Seq(Nat), NEW ends \in Ending(s), Single(s, ends), NEW from \in Places(s),
         NEW n \in Nat, NEW c \in Chains(s, ends, from, n), NEW d \in Chains(s, ends, from, n)
  PROVE  c = d
<1>1. c \in Seq(Places(s)) /\ Len(c) = n + 1 /\ d \in Seq(Places(s)) /\ Len(d) = n + 1
  BY DEF Chains
<1>2. \A i \in 1..(n + 1) : d[i] = c[i]
  BY ChainsAgree
<1> QED BY <1>1, <1>2, SeqEqual

LEMMA LastOfChain ==
  ASSUME NEW s \in Seq(Nat), NEW ends, NEW from, NEW n \in Nat, NEW c \in Chains(s, ends, from, n)
  PROVE  \A i \in 1..(n + 1) : c[i] \in Places(s)
BY DEF Chains
-----------------------------------------------------------------------------
(* The places in the file as numbers.                                      *)
LEMMA PlacesAre ==
  ASSUME NEW s \in Seq(Nat)
  PROVE  /\ Len(s) \in Nat /\ \A p \in Places(s) : p \in Nat /\ p <= Len(s)
         /\ \A p \in Nat : p <= Len(s) => p \in Places(s)
         /\ \A p \in Nat : p < Len(s) => s[p + 1] \in Nat
BY DEF Places

LEMMA StringEndsAre ==
  ASSUME NEW s \in Seq(Nat)
  PROVE  /\ StringEnds(s) \in Ending(s) /\ Single(s, StringEnds(s))
         /\ \A p, to \in Places(s) :
               to \in StringEnds(s)[p] <=> p < to /\ s[p + 1] <= MaxString /\ to = p + 1 + s[p + 1]
<1> DEFINE Ends == [p \in Places(s) |-> {to \in Places(s) : p < to /\ IsString(s, p, to)}]
<1>1. StringEnds(s) = Ends
  BY DEF StringEnds
<1>2. \A p, to \in Places(s) : to \in Ends[p] <=> p < to /\ IsString(s, p, to)
  OBVIOUS
<1>3. Ends \in Ending(s)
  BY DEF Ending
<1> HIDE DEF Ends
<1>4. \A p, to \in Places(s) :
         to \in Ends[p] <=> p < to /\ s[p + 1] <= MaxString /\ to = p + 1 + s[p + 1]
  BY <1>2 DEF IsString
<1>5. \A p \in Places(s) : Ends[p] \subseteq Places(s)
  BY <1>3 DEF Ending
<1>6. Single(s, Ends)
  BY <1>4, <1>5 DEF Single
<1> QED BY <1>1, <1>3, <1>4, <1>6

LEMMA EntryEndsTyped ==
  ASSUME NEW s \in Seq(Nat)
  PROVE  /\ EntryEnds(s) \in Ending(s)
         /\ \A e, to \in Places(s) : to \in EntryEnds(s)[e] <=> e < to /\ IsEntry(s, e, to)
<1> DEFINE Ends == [p \in Places(s) |-> {to \in Places(s) : p < to /\ IsEntry(s, p, to)}]
<1>1. EntryEnds(s) = Ends
  BY DEF EntryEnds
<1>2. \A p, to \in Places(s) : to \in Ends[p] <=> p < to /\ IsEntry(s, p, to)
  OBVIOUS
<1>3. Ends \in Ending(s)
  BY DEF Ending
<1> QED BY <1>1, <1>2, <1>3

\* Where the type of the entry's value is.
ValueAt(s, e) == e + 1 + s[e + 1]

\* An entry may begin at e: its key has a permitted length and a type behind it.
Begins(s, e) == e < Len(s) /\ s[e + 1] <= MaxKey /\ ValueAt(s, e) < Len(s)

(* Where an entry ends is where its value does.                            *)
LEMMA EntryEndsAre ==
  ASSUME NEW s \in Seq(Nat), NEW e \in Places(s)
  PROVE  /\ \A to \in EntryEnds(s)[e] :
               to \in Places(s) /\ Begins(s, e) /\ ValueAt(s, e) < to /\ IsValue(s, ValueAt(s, e), to)
         /\ Begins(s, e) =>
               /\ ValueAt(s, e) \in Nat /\ e < ValueAt(s, e)
               /\ \A to \in Places(s) :
                     ValueAt(s, e) < to /\ IsValue(s, ValueAt(s, e), to) => to \in EntryEnds(s)[e]
<1>1. e \in Nat /\ (e < Len(s) => s[e + 1] \in Nat)
  BY PlacesAre
<1>2. EntryEnds(s)[e] \subseteq Places(s)
  BY EntryEndsTyped DEF Ending
<1>3. ASSUME NEW to \in EntryEnds(s)[e]
      PROVE  to \in Places(s) /\ Begins(s, e) /\ ValueAt(s, e) < to /\ IsValue(s, ValueAt(s, e), to)
  <2>1. to \in Places(s) /\ to \in Nat /\ to <= Len(s) /\ Len(s) \in Nat
    BY <1>2, PlacesAre
  <2>2. e < to /\ IsEntry(s, e, to)
    BY <2>1, EntryEndsTyped
  <2>3. s[e + 1] <= MaxKey /\ ValueAt(s, e) < to /\ IsValue(s, ValueAt(s, e), to)
    BY <2>2, Zenon DEF IsEntry, ValueAt
  <2>4. s[e + 1] \in Nat
    BY <1>1, <2>1, <2>2
  <2>5. ValueAt(s, e) \in Nat
    BY <1>1, <2>4 DEF ValueAt
  <2>6. Begins(s, e)
    BY <1>1, <2>1, <2>2, <2>3, <2>5 DEF Begins
  <2> QED BY <2>1, <2>3, <2>6
<1>4. ASSUME Begins(s, e) PROVE ValueAt(s, e) \in Nat /\ e < ValueAt(s, e)
  BY <1>1, <1>4 DEF Begins, ValueAt
<1>5. ASSUME Begins(s, e), NEW to \in Places(s), ValueAt(s, e) < to, IsValue(s, ValueAt(s, e), to)
      PROVE  to \in EntryEnds(s)[e]
  <2>1. e < to
    BY <1>1, <1>4, <1>5, PlacesAre
  <2>2. IsEntry(s, e, to)
    BY <1>5, Zenon DEF IsEntry, ValueAt, Begins
  <2> QED BY <2>1, <2>2, EntryEndsTyped
<1> QED BY <1>3, <1>4, <1>5

Kinds == {Number, Wide, String, Array}

(* Where a value ends, by its type.                                        *)
LEMMA ScalarEnds ==
  ASSUME NEW s \in Seq(Nat), NEW v \in Nat, NEW to, s[v + 1] \in {Number, Wide}
  PROVE  IsValue(s, v, to) <=> to = v + 1 + Width[s[v + 1]]
BY DEF IsValue, Number, Wide, String, Array

LEMMA StringValueEnds ==
  ASSUME NEW s \in Seq(Nat), NEW v \in Nat, NEW to, s[v + 1] = String
  PROVE  IsValue(s, v, to) <=> to \in StringEnds(s)[v + 1]
BY DEF IsValue, Number, Wide, String, Array

LEMMA ArrayEnds ==
  ASSUME NEW s \in Seq(Nat), NEW v \in Nat, NEW to \in Places(s), s[v + 1] = Array
  PROVE  /\ IsValue(s, v, to) =>
               /\ v + 3 <= to /\ s[v + 2] \in {Number, Wide, String}
               /\ s[v + 3] \in Nat /\ s[v + 3] <= MaxArray
         /\ s[v + 2] \in {Number, Wide} =>
               (IsValue(s, v, to) <=> /\ v + 3 <= to /\ s[v + 3] <= MaxArray
                                      /\ to = v + 3 + s[v + 3] * Width[s[v + 2]])
         /\ s[v + 2] = String =>
               (IsValue(s, v, to) <=>
                   /\ v + 3 <= to /\ s[v + 3] <= MaxArray
                   /\ \E c \in Chains(s, StringEnds(s), v + 3, s[v + 3]) : c[s[v + 3] + 1] = to)
<1>1. IsValue(s, v, to) <=> IsArray(s, v + 1, to)
  BY DEF IsValue, Number, Wide, String, Array
<1>2. (v + 1) + 2 = v + 3 /\ (v + 1) + 1 = v + 2
  OBVIOUS
<1>3. IsArray(s, v + 1, to) <=>
         /\ v + 3 <= to /\ s[v + 3] <= MaxArray
         /\ \/ s[v + 2] \in {Number, Wide} /\ to = v + 3 + s[v + 3] * Width[s[v + 2]]
            \/ s[v + 2] = String /\ \E c \in Cuts(StringEnds(s), v + 3, s[v + 3]) : c[s[v + 3] + 1] = to
  BY <1>2, Zenon DEF IsArray
<1>4. ASSUME v + 3 <= to
      PROVE  /\ s[v + 3] \in Nat /\ v + 3 \in Places(s)
             /\ Cuts(StringEnds(s), v + 3, s[v + 3]) = Chains(s, StringEnds(s), v + 3, s[v + 3])
  <2>1. v + 3 \in Nat /\ v + 2 \in Nat /\ v + 2 < Len(s) /\ v + 3 <= Len(s) /\ (v + 2) + 1 = v + 3
    BY <1>4, PlacesAre
  <2>2. s[v + 3] \in Nat /\ v + 3 \in Places(s)
    BY <2>1, PlacesAre
  <2> QED BY <2>2, CutsAre, StringEndsAre
<1>5. String \notin {Number, Wide}
  BY DEF Number, Wide, String
<1> QED BY <1>1, <1>3, <1>4, <1>5, Zenon

(* No entry has two ends.                                                  *)
LEMMA EntriesAreSingle ==
  ASSUME NEW s \in Seq(Nat)
  PROVE  Single(s, EntryEnds(s))
<1> SUFFICES ASSUME NEW e \in Places(s), NEW a \in EntryEnds(s)[e], NEW b \in EntryEnds(s)[e]
             PROVE  a = b
  BY DEF Single
<1> DEFINE v == ValueAt(s, e)
<1>1. /\ a \in Places(s) /\ b \in Places(s) /\ Begins(s, e) /\ v \in Nat
      /\ IsValue(s, v, a) /\ IsValue(s, v, b)
  BY EntryEndsAre
<1> HIDE DEF v
<1>2. CASE s[v + 1] \in {Number, Wide}
  BY <1>1, <1>2, ScalarEnds
<1>3. CASE s[v + 1] = String
  <2>1. a \in StringEnds(s)[v + 1] /\ b \in StringEnds(s)[v + 1]
    BY <1>1, <1>3, StringValueEnds
  <2>2. v + 1 \in Places(s)
    BY <1>1, PlacesAre DEF Begins, v
  <2> QED BY <2>1, <2>2, StringEndsAre DEF Single
<1>4. CASE s[v + 1] = Array
  <2>1. /\ v + 3 <= a /\ s[v + 2] \in {Number, Wide, String}
        /\ s[v + 3] \in Nat /\ s[v + 3] <= MaxArray
    BY <1>1, <1>4, ArrayEnds
  <2>2. CASE s[v + 2] \in {Number, Wide}
    <3>1. a = v + 3 + s[v + 3] * Width[s[v + 2]] /\ b = v + 3 + s[v + 3] * Width[s[v + 2]]
      BY <1>1, <1>4, <2>2, ArrayEnds
    <3> QED BY <3>1, Zenon
  <2>3. CASE s[v + 2] = String
    <3> DEFINE k == s[v + 3]
    <3>1. k \in Nat /\ v + 3 \in Places(s)
      BY <1>1, <2>1, PlacesAre
    <3>2. PICK c \in Chains(s, StringEnds(s), v + 3, k) : c[k + 1] = a
      BY <1>1, <1>4, <2>3, ArrayEnds
    <3>3. PICK d \in Chains(s, StringEnds(s), v + 3, k) : d[k + 1] = b
      BY <1>1, <1>4, <2>3, ArrayEnds
    <3> HIDE DEF k
    <3>4. c = d
      BY <3>1, StringEndsAre, OneChain
    <3> QED BY <3>2, <3>3, <3>4
  <2> QED BY <2>1, <2>2, <2>3
<1>5. s[v + 1] \in Kinds
  BY <1>1 DEF IsValue, Kinds
<1> QED BY <1>2, <1>3, <1>4, <1>5 DEF Kinds
-----------------------------------------------------------------------------
LEMMA CutsOfSeq ==
  ASSUME NEW s \in Seq(Nat), NEW a \in Nat, NEW b \in a..Len(s)
  PROVE  /\ Cut(s, a, b) \in Seq(Nat) /\ Len(Cut(s, a, b)) = b - a
         /\ \A i \in 1..(b - a) : Cut(s, a, b)[i] = s[a + i]
BY DEF Cut

LEMMA CutOfCut ==
  ASSUME NEW s \in Seq(Nat), NEW a \in Nat, NEW b \in a..Len(s), NEW c \in 0..(b - a), NEW d \in c..(b - a)
  PROVE  Cut(Cut(s, a, b), c, d) = Cut(s, a + c, a + d)
<1> DEFINE x == Cut(s, a, b)
           y == Cut(x, c, d)
           z == Cut(s, a + c, a + d)
<1>1. x \in Seq(Nat) /\ Len(x) = b - a /\ \A i \in 1..(b - a) : x[i] = s[a + i]
  BY CutsOfSeq
<1> HIDE DEF x
<1>2. y \in Seq(Nat) /\ Len(y) = d - c /\ \A i \in 1..(d - c) : y[i] = x[c + i]
  <2>1. c \in Nat /\ d \in c..Len(x)
    BY <1>1
  <2> QED BY <1>1, <2>1, CutsOfSeq
<1>3. z \in Seq(Nat) /\ Len(z) = d - c /\ \A i \in 1..(d - c) : z[i] = s[a + c + i]
  <2>1. a + c \in Nat /\ a + d \in (a + c)..Len(s) /\ (a + d) - (a + c) = d - c
    OBVIOUS
  <2> QED BY <2>1, CutsOfSeq
<1> HIDE DEF y, z
<1>4. \A i \in 1..(d - c) : y[i] = z[i]
  <2>1. \A i \in 1..(d - c) : c + i \in 1..(b - a) /\ a + (c + i) = a + c + i
    OBVIOUS
  <2> QED BY <1>1, <1>2, <1>3, <2>1
<1>5. y = z
  BY <1>2, <1>3, <1>4, SeqEqual
<1> QED BY <1>5 DEF x, y, z

LEMMA TailOfCut ==
  ASSUME NEW s \in Seq(Nat), NEW v \in Nat, NEW to \in Nat, v < to, to <= Len(s)
  PROVE  Tail(Cut(s, v, to)) = Cut(s, v + 1, to)
<1>0. Len(s) \in Nat
  OBVIOUS
<1> DEFINE w == Cut(s, v, to)
           y == Cut(s, v + 1, to)
<1>1. w \in Seq(Nat) /\ Len(w) = to - v /\ \A i \in 1..(to - v) : w[i] = s[v + i]
  <2>1. to \in v..Len(s)
    BY <1>0
  <2> QED BY <1>0, <2>1, CutsOfSeq
<1>2. y \in Seq(Nat) /\ Len(y) = to - (v + 1) /\ \A i \in 1..(to - (v + 1)) : y[i] = s[(v + 1) + i]
  <2>1. v + 1 \in Nat /\ to \in (v + 1)..Len(s)
    BY <1>0
  <2> QED BY <2>1, CutsOfSeq
<1> HIDE DEF w, y
<1>3. Tail(w) \in Seq(Nat) /\ Len(Tail(w)) = to - (v + 1)
      /\ \A i \in 1..(to - (v + 1)) : Tail(w)[i] = w[i + 1]
  BY <1>0, <1>1
<1>4. ASSUME NEW i \in 1..(to - (v + 1)) PROVE Tail(w)[i] = y[i]
  <2>1. i + 1 \in 1..(to - v) /\ v + (i + 1) = (v + 1) + i
    BY <1>0
  <2> QED BY <1>1, <1>2, <1>3, <2>1
<1>5. Tail(w) = y
  BY <1>2, <1>3, <1>4, SeqEqual
<1> QED BY <1>5 DEF w, y

(* The key, the type and the rest of the value of an entry in a file.      *)
LEMMA PartsOfEntry ==
  ASSUME NEW s \in Seq(Nat), NEW e \in Places(s), Begins(s, e), NEW to \in Places(s), ValueAt(s, e) < to
  PROVE  /\ Cut(s, e, to) \in Seq(Nat)
         /\ KeyOf(Cut(s, e, to)) = Cut(s, e + 1, ValueAt(s, e))
         /\ ValueOf(Cut(s, e, to))[1] = s[ValueAt(s, e) + 1]
         /\ Tail(ValueOf(Cut(s, e, to))) = Cut(s, ValueAt(s, e) + 1, to)
<1> DEFINE v == ValueAt(s, e)
           x == Cut(s, e, to)
           k == s[e + 1]
<1>1. e \in Nat /\ to \in Nat /\ to <= Len(s) /\ Len(s) \in Nat /\ k \in Nat /\ v \in Nat /\ v = e + 1 + k /\ v < to
  <2>1. e \in Nat /\ to \in Nat /\ to <= Len(s) /\ Len(s) \in Nat /\ k \in Nat
    BY PlacesAre DEF Begins
  <2>2. v = e + 1 + k
    BY DEF ValueAt
  <2> QED BY <2>1, <2>2
<1> HIDE DEF v
<1>2. x \in Seq(Nat) /\ Len(x) = to - e /\ x[1] = k
  <2>1. to \in e..Len(s) /\ 1 \in 1..(to - e)
    BY <1>1
  <2> QED BY <1>1, <2>1, CutsOfSeq
<1> HIDE DEF k
<1>3. Cut(x, 1, 1 + k) = Cut(s, e + 1, v)
  <2>1. to \in e..Len(s) /\ 1 \in 0..(to - e) /\ 1 + k \in 1..(to - e) /\ e + (1 + k) = v
    BY <1>1
  <2>2. Cut(x, 1, 1 + k) = Cut(s, e + 1, e + (1 + k))
    BY <1>1, <2>1, CutOfCut
  <2> QED BY <2>1, <2>2, Zenon
<1>4. Cut(x, 1 + k, Len(x)) = Cut(s, v, to)
  <2>1. to \in e..Len(s) /\ 1 + k \in 0..(to - e) /\ to - e \in (1 + k)..(to - e) /\ e + (1 + k) = v
        /\ e + (to - e) = to
    BY <1>1
  <2>2. Cut(x, 1 + k, to - e) = Cut(s, e + (1 + k), e + (to - e))
    BY <1>1, <2>1, CutOfCut
  <2> QED BY <1>2, <2>1, <2>2
<1> HIDE DEF x
<1>5. KeyOf(x) = Cut(s, e + 1, v) /\ ValueOf(x) = Cut(s, v, to)
  BY <1>2, <1>3, <1>4, Zenon DEF KeyOf, ValueOf
<1>6. Cut(s, v, to)[1] = s[v + 1]
  <2>1. to \in v..Len(s) /\ 1 \in 1..(to - v)
    BY <1>1
  <2> QED BY <1>1, <2>1, CutsOfSeq
<1>7. Tail(Cut(s, v, to)) = Cut(s, v + 1, to)
  BY <1>1, TailOfCut
<1> QED BY <1>2, <1>5, <1>6, <1>7 DEF x, v

\* The entries between the places of c.
EntriesOf(s, c, n) == [i \in 1..n |-> Cut(s, c[i], c[i + 1])]

(* A chain goes forward.                                                   *)
LEMMA EntriesOfAre ==
  ASSUME NEW s \in Seq(Nat), NEW n \in Nat, NEW c \in Chains(s, EntryEnds(s), HeaderSize, n)
  PROVE  EntriesOf(s, c, n) \in Seq(Seq(Nat)) /\ Len(EntriesOf(s, c, n)) = n
<1>1. ASSUME NEW i \in 1..n PROVE Cut(s, c[i], c[i + 1]) \in Seq(Nat)
  <2>1. c[i] \in Places(s) /\ c[i + 1] \in EntryEnds(s)[c[i]]
    <3>1. i \in 1..(n + 1)
      OBVIOUS
    <3> QED BY <3>1, LastOfChain DEF Chains
  <2>2. c[i + 1] \in Places(s)
    BY <2>1, EntryEndsTyped DEF Ending
  <2>3. c[i] < c[i + 1]
    BY <2>1, <2>2, EntryEndsTyped
  <2>4. c[i] \in Nat /\ c[i + 1] \in c[i]..Len(s)
    BY <2>1, <2>2, <2>3, PlacesAre
  <2> QED BY <2>4, CutsOfSeq
<1> QED BY <1>1 DEF EntriesOf

LEMMA EntriesGrow ==
  ASSUME NEW s \in Seq(Nat), NEW n \in Nat, NEW c \in Chains(s, EntryEnds(s), HeaderSize, n),
         HeaderSize \in Places(s), NEW to \in EntryEnds(s)[c[n + 1]]
  PROVE  EntriesOf(s, Append(c, to), n + 1) = Append(EntriesOf(s, c, n), Cut(s, c[n + 1], to))
<1> DEFINE d == Append(c, to)
           x == EntriesOf(s, d, n + 1)
           y == EntriesOf(s, c, n)
           z == Append(y, Cut(s, c[n + 1], to))
<1>1. /\ d \in Chains(s, EntryEnds(s), HeaderSize, n + 1)
      /\ d[n + 2] = to /\ \A i \in 1..(n + 1) : d[i] = c[i]
  <2>1. EntryEnds(s) \in Ending(s)
    BY EntryEndsTyped
  <2>2. /\ Append(c, to) \in Chains(s, EntryEnds(s), HeaderSize, n + 1)
        /\ Append(c, to)[n + 2] = to /\ \A i \in 1..(n + 1) : Append(c, to)[i] = c[i]
    <3>1. \A f \in Ending(s), h \in Places(s) : \A b \in Chains(s, f, h, n) : \A t \in f[b[n + 1]] :
             /\ Append(b, t) \in Chains(s, f, h, n + 1)
             /\ Append(b, t)[n + 2] = t /\ \A i \in 1..(n + 1) : Append(b, t)[i] = b[i]
      BY Prolonged
    <3> QED BY <2>1, <3>1, Zenon
  <2> QED BY <2>2, Zenon
<1> HIDE DEF d
<1>2. x \in Seq(Seq(Nat)) /\ Len(x) = n + 1
  BY <1>1, EntriesOfAre
<1>3. y \in Seq(Seq(Nat)) /\ Len(y) = n
  BY EntriesOfAre
<1>4. \A i \in 1..(n + 1) : x[i] = Cut(s, d[i], d[i + 1])
  BY DEF EntriesOf
<1>5. \A i \in 1..n : y[i] = Cut(s, c[i], c[i + 1])
  BY DEF EntriesOf
<1> HIDE DEF x, y
<1>6. Cut(s, c[n + 1], to) = x[n + 1]
  <2>1. n + 1 \in 1..(n + 1) /\ (n + 1) + 1 = n + 2
    OBVIOUS
  <2> QED BY <1>1, <1>4, <2>1
<1>7. Cut(s, c[n + 1], to) \in Seq(Nat)
  BY <1>2, <1>6
<1>8. z \in Seq(Seq(Nat)) /\ Len(z) = n + 1 /\ z[n + 1] = Cut(s, c[n + 1], to) /\ \A i \in 1..n : z[i] = y[i]
  BY <1>3, <1>7
<1> HIDE DEF z
<1>9. ASSUME NEW i \in 1..(n + 1) PROVE x[i] = z[i]
  <2>1. CASE i = n + 1
    BY <1>6, <1>8, <2>1
  <2>2. CASE i # n + 1
    <3>1. i \in 1..n /\ i + 1 \in 1..(n + 1)
      BY <2>2
    <3> QED BY <1>1, <1>4, <1>5, <1>8, <3>1
  <2> QED BY <2>1, <2>2
<1>10. x = z
  BY <1>2, <1>8, <1>9, SeqEqual
<1> QED BY <1>10 DEF x, y, z, d

\* The numbers of the entries with this key and one of these types.
Matching(es, k, types) == {i \in DOMAIN es : KeyOf(es[i]) = k /\ ValueOf(es[i])[1] \in types}

LEMMA NothingLast ==
  ASSUME NEW es, DOMAIN es = {}, NEW k, NEW types
  PROVE  LastValue(es, k, types) = Absent
BY DEF LastValue

LEMMA LastValueIs ==
  ASSUME NEW es \in Seq(Seq(Nat)), NEW k, NEW types
  PROVE  /\ Matching(es, k, types) = {} => LastValue(es, k, types) = Absent
         /\ \A i \in Matching(es, k, types) :
               (\A j \in Matching(es, k, types) : j <= i) =>
                  LastValue(es, k, types) = Present(Tail(ValueOf(es[i])))
<1> DEFINE at == Matching(es, k, types)
           last == CHOOSE i \in at : \A j \in at : j <= i
<1>1. LastValue(es, k, types) = IF at = {} THEN Absent ELSE Present(Tail(ValueOf(es[last])))
  BY Zenon DEF LastValue, Matching
<1>2. at \subseteq Nat
  BY DEF Matching
<1> HIDE DEF at
<1>3. ASSUME NEW i \in at, \A j \in at : j <= i PROVE last = i
  <2>1. last \in at /\ \A j \in at : j <= last
    BY <1>3
  <2> HIDE DEF last
  <2>2. last \in Nat /\ i \in Nat /\ last <= i /\ i <= last
    BY <1>2, <1>3, <2>1
  <2> QED BY <2>2
<1> HIDE DEF last
<1> QED BY <1>1, <1>3 DEF at

(* A further entry counts if it matches.                                   *)
LEMMA LastValueGrows ==
  ASSUME NEW es \in Seq(Seq(Nat)), NEW x \in Seq(Nat), NEW k, NEW types
  PROVE  LastValue(Append(es, x), k, types) =
            IF KeyOf(x) = k /\ ValueOf(x)[1] \in types THEN Present(Tail(ValueOf(x)))
            ELSE LastValue(es, k, types)
<1> DEFINE n == Len(es)
           fs == Append(es, x)
           at == Matching(es, k, types)
           bt == Matching(fs, k, types)
<1>1. /\ n \in Nat /\ fs \in Seq(Seq(Nat)) /\ Len(fs) = n + 1 /\ fs[n + 1] = x
      /\ DOMAIN es = 1..n /\ DOMAIN fs = 1..(n + 1) /\ \A i \in 1..n : fs[i] = es[i]
  OBVIOUS
<1> HIDE DEF n, fs
<1>2. at \subseteq 1..n /\ bt \subseteq 1..(n + 1)
  BY <1>1 DEF Matching
<1>3. n + 1 \in bt <=> KeyOf(x) = k /\ ValueOf(x)[1] \in types
  BY <1>1 DEF Matching
<1>4. \A i \in 1..n : i \in bt <=> i \in at
  BY <1>1 DEF Matching
<1> HIDE DEF at, bt
<1>5. CASE n + 1 \in bt
  <2>1. \A j \in bt : j <= n + 1
    BY <1>1, <1>2
  <2>2. LastValue(fs, k, types) = Present(Tail(ValueOf(fs[n + 1])))
    BY <1>1, <1>5, <2>1, LastValueIs DEF bt
  <2> QED BY <1>1, <1>3, <1>5, <2>2 DEF fs
<1>6. CASE n + 1 \notin bt
  <2>1. bt = at
    <3>1. \A i \in 1..(n + 1) : i \in 1..n \/ i = n + 1
      BY <1>1
    <3> QED BY <1>2, <1>4, <1>6, <3>1
  <2>2. CASE at = {}
    <3>1. LastValue(fs, k, types) = Absent /\ LastValue(es, k, types) = Absent
      BY <1>1, <2>1, <2>2, LastValueIs DEF at, bt
    <3> QED BY <1>3, <1>6, <3>1 DEF fs
  <2>3. CASE at # {}
    <3>1. PICK i \in at : \A j \in at : j <= i
      <4>1. at \in SUBSET (0..n)
        BY <1>1, <1>2
      <4> QED BY <1>1, <2>3, <4>1, Greatest
    <3>2. LastValue(es, k, types) = Present(Tail(ValueOf(es[i])))
      BY <3>1, LastValueIs DEF at
    <3>3. LastValue(fs, k, types) = Present(Tail(ValueOf(fs[i])))
      BY <1>1, <2>1, <3>1, LastValueIs DEF bt
    <3>4. fs[i] = es[i]
      BY <1>1, <1>2, <3>1
    <3> QED BY <1>3, <1>6, <3>2, <3>3, <3>4 DEF fs
  <2> QED BY <2>2, <2>3
<1> QED BY <1>5, <1>6
-----------------------------------------------------------------------------
\* What was captured is what the entries es tell, in the reader's variables or after a step.
Captured(es, found, number, lengths) ==
    /\ found = [architecture |-> Characters(LastValue(es, ArchitectureKey, {String})),
                quantization |-> Absent, context |-> Absent]
    /\ found.architecture.present => found.architecture.value \in Seq(Nat)
    /\ number = LastValue(es, QuantizationKey, {Number})
    /\ \A p \in DOMAIN lengths :
          /\ p \in Seq(Nat) /\ p # <<>>
          /\ LastValue(es, Append(p, ContextSuffix), {Number, Wide}) = Present(lengths[p])
    /\ \A p \in Seq(Nat) : p # <<>> /\ p \notin DOMAIN lengths =>
          LastValue(es, Append(p, ContextSuffix), {Number, Wide}) = Absent

LEMMA NothingCaptured ==
  ASSUME NEW es, DOMAIN es = {}
  PROVE  Captured(es, NoMetadata, Absent, <<>>)
<1>1. \A k, types : LastValue(es, k, types) = Absent
  BY NothingLast
<1>2. Characters(Absent) = Absent /\ ~Absent.present /\ DOMAIN <<>> = {}
  BY DEF Characters, Absent
<1>3. NoMetadata.architecture = Absent
  BY DEF NoMetadata
<1> QED BY <1>1, <1>2, <1>3, Zenon DEF Captured, NoMetadata

(* The keys of the context lengths are the prefixes with the suffix.       *)
LEMMA ContextKeys ==
  ASSUME NEW k \in Seq(Nat)
  PROVE  /\ IsContextKey(k) => /\ Prefix(k) \in Seq(Nat) /\ Prefix(k) # <<>>
                               /\ Append(Prefix(k), ContextSuffix) = k
         /\ \A p \in Seq(Nat) : p # <<>> /\ Append(p, ContextSuffix) = k => IsContextKey(k) /\ Prefix(k) = p
<1>1. ASSUME IsContextKey(k)
      PROVE  /\ Prefix(k) \in Seq(Nat) /\ Prefix(k) # <<>> /\ Append(Prefix(k), ContextSuffix) = k
  <2>1. Len(k) \in Nat /\ Len(k) > 1 /\ k[Len(k)] = ContextSuffix
    BY <1>1 DEF IsContextKey
  <2> DEFINE p == SubSeq(k, 1, Len(k) - 1)
  <2>2. p \in Seq(Nat) /\ Len(p) = Len(k) - 1 /\ \A i \in 1..(Len(k) - 1) : p[i] = k[i]
    BY <2>1
  <2> HIDE DEF p
  <2> DEFINE q == Append(p, ContextSuffix)
  <2>3. q \in Seq(Nat) /\ Len(q) = Len(k) /\ \A i \in 1..Len(k) : q[i] = k[i]
    <3>1. ContextSuffix \in Nat
      BY DEF ContextSuffix
    <3>2. q \in Seq(Nat) /\ Len(q) = Len(k) /\ q[Len(k)] = ContextSuffix
          /\ \A i \in 1..(Len(k) - 1) : q[i] = p[i]
      BY <2>1, <2>2, <3>1
    <3> HIDE DEF q
    <3>3. ASSUME NEW i \in 1..Len(k) PROVE q[i] = k[i]
      <4>1. CASE i = Len(k)
        BY <2>1, <3>2, <4>1
      <4>2. CASE i # Len(k)
        <5>1. i \in 1..(Len(k) - 1)
          BY <2>1, <4>2
        <5> QED BY <2>2, <3>2, <5>1
      <4> QED BY <4>1, <4>2
    <3> QED BY <3>2, <3>3
  <2> HIDE DEF q
  <2>4. q = k
    BY <2>3, SeqEqual
  <2>5. p # <<>>
    BY <2>1, <2>2
  <2> QED BY <2>2, <2>4, <2>5 DEF Prefix, p, q
<1>2. ASSUME NEW p \in Seq(Nat), p # <<>>, Append(p, ContextSuffix) = k
      PROVE  IsContextKey(k) /\ Prefix(k) = p
  <2>1. Len(p) \in Nat /\ Len(p) > 0 /\ Len(k) = Len(p) + 1 /\ k[Len(p) + 1] = ContextSuffix
    BY <1>2, EmptySeq DEF ContextSuffix
  <2>2. SubSeq(k, 1, Len(p)) = p
    <3> DEFINE q == SubSeq(k, 1, Len(p))
    <3>1. q \in Seq(Nat) /\ Len(q) = Len(p) /\ \A i \in 1..Len(p) : q[i] = k[i]
      BY <2>1
    <3>2. \A i \in 1..Len(p) : k[i] = p[i]
      <4>1. \A i \in 1..Len(p) : Append(p, ContextSuffix)[i] = p[i]
        OBVIOUS
      <4> QED BY <1>2, <4>1, Zenon
    <3> HIDE DEF q
    <3>3. q = p
      BY <3>1, <3>2, SeqEqual
    <3> QED BY <3>3 DEF q
  <2>3. Len(k) - 1 = Len(p)
    BY <2>1
  <2> QED BY <2>1, <2>2, <2>3 DEF IsContextKey, Prefix
<1> QED BY <1>1, <1>2

(* The keys differ.                                                        *)
LEMMA TypesDiffer ==
  Number \notin {String} /\ Wide \notin {String} /\ String \notin {Number, Wide}
  /\ Array \notin {Number, Wide} /\ Array # String /\ Wide \notin {Number}
  /\ String \notin {Number} /\ Array \notin {Number} /\ Array \notin {String}
BY DEF Number, Wide, String, Array

(* An entry with a scalar.                                                 *)
LEMMA ScalarCaptured ==
  ASSUME NEW es \in Seq(Seq(Nat)), NEW x \in Seq(Nat), NEW found, NEW number, NEW lengths,
         Captured(es, found, number, lengths),
         KeyOf(x) \in Seq(Nat), ValueOf(x)[1] \in {Number, Wide}, NEW number2, NEW lengths2,
         number2 = IF KeyOf(x) = QuantizationKey /\ ValueOf(x)[1] = Number
                   THEN Present(Tail(ValueOf(x))) ELSE number,
         lengths2 = IF IsContextKey(KeyOf(x))
                    THEN [p \in DOMAIN lengths \cup {Prefix(KeyOf(x))} |->
                             IF p = Prefix(KeyOf(x)) THEN Tail(ValueOf(x)) ELSE lengths[p]]
                    ELSE lengths
  PROVE  Captured(Append(es, x), found, number2, lengths2)
<1> DEFINE fs == Append(es, x)
           value == Tail(ValueOf(x))
           k == KeyOf(x)
           t == ValueOf(x)[1]
<1>1. \A key1, types : LastValue(fs, key1, types) =
         IF k = key1 /\ t \in types THEN Present(value) ELSE LastValue(es, key1, types)
  BY LastValueGrows
<1>0. /\ k \in Seq(Nat) /\ t \in {Number, Wide}
      /\ number2 = IF k = QuantizationKey /\ t = Number THEN Present(value) ELSE number
      /\ lengths2 = IF IsContextKey(k)
                     THEN [p \in DOMAIN lengths \cup {Prefix(k)} |->
                              IF p = Prefix(k) THEN value ELSE lengths[p]]
                     ELSE lengths
  BY Zenon
<1> HIDE DEF fs, value, k, t
<1>2. LastValue(fs, ArchitectureKey, {String}) = LastValue(es, ArchitectureKey, {String})
  BY <1>0, <1>1, TypesDiffer
<1>3. LastValue(fs, QuantizationKey, {Number}) = number2
  <2>1. number = LastValue(es, QuantizationKey, {Number})
    BY DEF Captured
  <2>2. t \in {Number} <=> t = Number
    OBVIOUS
  <2> QED BY <1>0, <1>1, <2>1, <2>2
<1>4. ASSUME NEW p \in DOMAIN lengths2
      PROVE  /\ p \in Seq(Nat) /\ p # <<>>
             /\ LastValue(fs, Append(p, ContextSuffix), {Number, Wide}) = Present(lengths2[p])
  <2>1. CASE IsContextKey(k) /\ p = Prefix(k)
    <3>1. p \in Seq(Nat) /\ p # <<>> /\ Append(p, ContextSuffix) = k
      BY <1>0, <2>1, ContextKeys
    <3>2. lengths2[p] = value
      BY <1>0, <2>1
    <3> QED BY <1>0, <1>1, <3>1, <3>2
  <2>2. CASE ~(IsContextKey(k) /\ p = Prefix(k))
    <3>1. p \in DOMAIN lengths /\ lengths2[p] = lengths[p]
      <4>1. CASE ~IsContextKey(k)
        <5>1. lengths2 = lengths
          BY <1>0, <4>1, Zenon
        <5> QED BY <1>4, <5>1, Zenon
      <4>2. CASE IsContextKey(k)
        <5>1. lengths2 = [q \in DOMAIN lengths \cup {Prefix(k)} |->
                             IF q = Prefix(k) THEN value ELSE lengths[q]]
          BY <1>0, <4>2, Zenon
        <5>2. p \in DOMAIN lengths \cup {Prefix(k)} /\ p # Prefix(k)
          BY <1>4, <2>2, <4>2, <5>1, Zenon
        <5> QED BY <5>1, <5>2, Zenon
      <4> QED BY <4>1, <4>2
    <3>2. /\ p \in Seq(Nat) /\ p # <<>>
          /\ LastValue(es, Append(p, ContextSuffix), {Number, Wide}) = Present(lengths[p])
      BY <3>1 DEF Captured
    <3>3. Append(p, ContextSuffix) # k
      BY <1>0, <2>2, <3>2, ContextKeys
    <3> QED BY <1>1, <3>1, <3>2, <3>3
  <2> QED BY <2>1, <2>2
<1>5. ASSUME NEW p \in Seq(Nat), p # <<>>, p \notin DOMAIN lengths2
      PROVE  LastValue(fs, Append(p, ContextSuffix), {Number, Wide}) = Absent
  <2>1. p \notin DOMAIN lengths /\ ~(IsContextKey(k) /\ p = Prefix(k))
    BY <1>0, <1>5
  <2>2. Append(p, ContextSuffix) # k
    BY <1>0, <1>5, <2>1, ContextKeys
  <2>3. LastValue(es, Append(p, ContextSuffix), {Number, Wide}) = Absent
    BY <1>5, <2>1 DEF Captured
  <2> QED BY <1>1, <2>2, <2>3
<1>6. /\ found = [architecture |-> Characters(LastValue(es, ArchitectureKey, {String})),
                  quantization |-> Absent, context |-> Absent]
      /\ found.architecture.present => found.architecture.value \in Seq(Nat)
  BY DEF Captured
<1>7. found = [architecture |-> Characters(LastValue(fs, ArchitectureKey, {String})),
               quantization |-> Absent, context |-> Absent]
  BY <1>2, <1>6, Zenon
<1>8. Captured(fs, found, number2, lengths2)
  BY <1>3, <1>4, <1>5, <1>6, <1>7, Zenon DEF Captured
<1> QED BY <1>8 DEF fs

(* An entry that tells neither a number nor an architecture.               *)
LEMMA SkippedCaptured ==
  ASSUME NEW es \in Seq(Seq(Nat)), NEW x \in Seq(Nat), NEW found, NEW number, NEW lengths,
         Captured(es, found, number, lengths),
         ValueOf(x)[1] \notin {Number, Wide}, KeyOf(x) = ArchitectureKey => ValueOf(x)[1] # String
  PROVE  Captured(Append(es, x), found, number, lengths)
<1> DEFINE fs == Append(es, x)
<1>1. \A k, types : KeyOf(x) # k \/ ValueOf(x)[1] \notin types =>
         LastValue(fs, k, types) = LastValue(es, k, types)
  BY LastValueGrows
<1> HIDE DEF fs
<1>2. LastValue(fs, ArchitectureKey, {String}) = LastValue(es, ArchitectureKey, {String})
  BY <1>1
<1>3. LastValue(fs, QuantizationKey, {Number}) = LastValue(es, QuantizationKey, {Number})
  BY <1>1
<1>4. \A p : LastValue(fs, Append(p, ContextSuffix), {Number, Wide}) =
             LastValue(es, Append(p, ContextSuffix), {Number, Wide})
  BY <1>1
<1>5. Captured(fs, found, number, lengths)
  BY <1>2, <1>3, <1>4, Zenon DEF Captured
<1> QED BY <1>5 DEF fs

(* The entry with the architecture.                                        *)
LEMMA ArchitectureCaptured ==
  ASSUME NEW es \in Seq(Seq(Nat)), NEW x \in Seq(Nat), NEW found, NEW number, NEW lengths,
         Captured(es, found, number, lengths),
         KeyOf(x) = ArchitectureKey, ValueOf(x)[1] = String, Tail(Tail(ValueOf(x))) \in Seq(Nat)
  PROVE  Captured(Append(es, x),
                  [found EXCEPT !.architecture = Present(Tail(Tail(ValueOf(x))))], number, lengths)
<1> DEFINE fs == Append(es, x)
           value == Tail(ValueOf(x))
           found2 == [found EXCEPT !.architecture = Present(Tail(value))]
<1>1. \A k, types : LastValue(fs, k, types) =
         IF ArchitectureKey = k /\ String \in types THEN Present(value) ELSE LastValue(es, k, types)
  BY LastValueGrows
<1>2. Tail(value) \in Seq(Nat)
  OBVIOUS
<1> HIDE DEF fs, value
<1>3. LastValue(fs, ArchitectureKey, {String}) = Present(value)
  BY <1>1
<1>4. LastValue(fs, QuantizationKey, {Number}) = LastValue(es, QuantizationKey, {Number})
  BY <1>1, TypesDiffer
<1>5. \A p : LastValue(fs, Append(p, ContextSuffix), {Number, Wide}) =
             LastValue(es, Append(p, ContextSuffix), {Number, Wide})
  BY <1>1, TypesDiffer
<1>6. Characters(Present(value)) = Present(Tail(value))
  BY DEF Characters, Present
<1>7. found2 = [architecture |-> Present(Tail(value)), quantization |-> Absent, context |-> Absent]
  BY DEF Captured
<1>8. found2.architecture.value \in Seq(Nat)
  BY <1>2, <1>7 DEF Present
<1> HIDE DEF found2
<1>9. found2 = [architecture |-> Characters(LastValue(fs, ArchitectureKey, {String})),
                quantization |-> Absent, context |-> Absent]
  BY <1>3, <1>6, <1>7, Zenon
<1>10. Captured(fs, found2, number, lengths)
  BY <1>4, <1>5, <1>8, <1>9, Zenon DEF Captured
<1> QED BY <1>10 DEF fs, found2, value

(* At the end the captured numbers are resolved as the entries say.        *)
LEMMA ResolvedMetadata ==
  ASSUME NEW es, NEW found, NEW number, NEW lengths, Captured(es, found, number, lengths)
  PROVE  [architecture |-> found.architecture, quantization |-> number,
          context |-> IF found.architecture.present /\ found.architecture.value \in DOMAIN lengths
                      THEN Present(lengths[found.architecture.value]) ELSE Absent]
         = MetadataOf(es)
<1> DEFINE a == Characters(LastValue(es, ArchitectureKey, {String}))
           c == IF a.present /\ a.value \in DOMAIN lengths THEN Present(lengths[a.value]) ELSE Absent
           d == IF a.present /\ a.value # <<>>
                THEN LastValue(es, Append(a.value, ContextSuffix), {Number, Wide}) ELSE Absent
<1>1. found = [architecture |-> a, quantization |-> Absent, context |-> Absent]
  BY DEF Captured
<1>2. found.architecture = a
  BY <1>1
<1>3. /\ a.present => a.value \in Seq(Nat)
      /\ number = LastValue(es, QuantizationKey, {Number})
      /\ \A p \in DOMAIN lengths :
          /\ p \in Seq(Nat) /\ p # <<>>
          /\ LastValue(es, Append(p, ContextSuffix), {Number, Wide}) = Present(lengths[p])
      /\ \A p \in Seq(Nat) : p # <<>> /\ p \notin DOMAIN lengths =>
          LastValue(es, Append(p, ContextSuffix), {Number, Wide}) = Absent
  BY <1>2, Zenon DEF Captured
<1>4. MetadataOf(es) = [architecture |-> a, quantization |-> number, context |-> d]
  BY <1>3, Zenon DEF MetadataOf
<1> HIDE DEF a
<1>5. c = d
  BY <1>3, Zenon
<1> QED BY <1>2, <1>4, <1>5, Zenon
-----------------------------------------------------------------------------
(* The entries are those of the chains from the header on.                 *)
LEMMA EntriesAre ==
  ASSUME NEW s \in Seq(Nat), HasHeader(s)
  PROVE  /\ HeaderSize \in Places(s) /\ s[4] \in Nat
         /\ Entries(s) # {} <=> Chains(s, EntryEnds(s), HeaderSize, s[4]) # {}
         /\ \A c \in Chains(s, EntryEnds(s), HeaderSize, s[4]) : EntriesOf(s, c, s[4]) \in Entries(s)
<1>1. HeaderSize \in Places(s) /\ s[4] \in Nat
  BY DEF HasHeader, HeaderSize, Places
<1>2. Cuts(EntryEnds(s), HeaderSize, s[4]) = Chains(s, EntryEnds(s), HeaderSize, s[4])
  BY <1>1, CutsAre, EntryEndsTyped
<1>3. Entries(s) = {EntriesOf(s, c, s[4]) : c \in Chains(s, EntryEnds(s), HeaderSize, s[4])}
  BY <1>2, Zenon DEF Entries, EntriesOf
<1> QED BY <1>1, <1>3

\* The reader has read the key and the type of the entry that begins at e.
AtValue(e) ==
    /\ e \in Places(file) /\ Begins(file, e)
    /\ key = Cut(file, e + 1, ValueAt(file, e)) /\ type = file[ValueAt(file, e) + 1]

\* The strings of an array of this length, but for the last count, are read from first to pos.
InElements(first, length) ==
    /\ first \in Places(file) /\ length \in Nat /\ length <= MaxArray /\ count <= length
    /\ first <= pos
    /\ \E d \in Chains(file, StringEnds(file), first, length - count) : d[(length - count) + 1] = pos

ReadingAt(e) ==
    /\ pc = "key" => pos = e
    /\ pc = "value" => AtValue(e) /\ pos = ValueAt(file, e) + 1
    /\ pc = "elements" =>
          /\ AtValue(e) /\ type = Array /\ file[ValueAt(file, e) + 2] = String
          /\ InElements(ValueAt(file, e) + 3, file[ValueAt(file, e) + 3])

\* The first n entries of the file, between the places of c, are read and captured.
ReadSoFar(c, n) ==
    /\ n + kvs = file[4]
    /\ c \in Chains(file, EntryEnds(file), HeaderSize, n)
    /\ ReadingAt(c[n + 1])
    /\ Captured(EntriesOf(file, c, n), metadata, quant, candidates)

Parsed ==
    /\ pc \in {"key", "value", "elements"} => HasHeader(file) /\ \E n \in Nat : \E c \in Seq(Places(file)) : ReadSoFar(c, n)
    /\ pc = "header" => candidates = <<>> /\ quant = Absent /\ metadata = NoMetadata
    /\ AcceptsTheFormat /\ MetadataIsTheFiles
LEMMA ParsedInit == Init => Parsed
BY DEF Init, Parsed, AcceptsTheFormat, MetadataIsTheFiles

(* A field that is rejected while an entry is read ends every chain.       *)
LEMMA RejectedParsed ==
  ASSUME TypeOK, HasHeader(file), NEW n \in Nat, NEW c \in Seq(Places(file)), ReadSoFar(c, n), kvs > 0,
         EntryEnds(file)[c[n + 1]] = {},
         UNCHANGED file, pc' = "done", status' = "MalformedMetadata"
  PROVE  Parsed'
<1>1. file \in Seq(Nat) /\ kvs \in Nat
  BY GgufAssumption DEF TypeOK
<1>2. HeaderSize \in Places(file) /\ file[4] \in Nat
  BY <1>1, EntriesAre
<1>3. n < file[4] /\ c \in Chains(file, EntryEnds(file), HeaderSize, n)
  BY <1>1, <1>2 DEF ReadSoFar
<1>4. EntryEnds(file) \in Ending(file) /\ Single(file, EntryEnds(file))
  BY <1>1, EntryEndsTyped, EntriesAreSingle
<1>5. Chains(file, EntryEnds(file), HeaderSize, file[4]) = {}
  BY <1>1, <1>2, <1>3, <1>4, Stuck
<1>6. Entries(file) = {}
  BY <1>1, <1>5, EntriesAre
<1>7. Entries(file') = {}
  BY <1>6
<1> QED BY <1>7 DEF Parsed, AcceptsTheFormat, MetadataIsTheFiles

(* An entry that is read to its end prolongs the chain.                    *)
LEMMA EntryParsed ==
  ASSUME TypeOK, HasHeader(file), NEW n \in Nat, NEW c \in Seq(Places(file)), ReadSoFar(c, n), kvs > 0,
         NEW to \in EntryEnds(file)[c[n + 1]],
         UNCHANGED <<file, status>>, pc # "done", pc' = "key", kvs' = kvs - 1, pos' = to,
         Captured(Append(EntriesOf(file, c, n), Cut(file, c[n + 1], to)), metadata', quant', candidates')
  PROVE  Parsed'
<1>1. file \in Seq(Nat) /\ kvs \in Nat /\ status = "reading"
  BY GgufAssumption DEF TypeOK
<1>2. HeaderSize \in Places(file) /\ file[4] \in Nat
  BY <1>1, EntriesAre
<1>3. c \in Chains(file, EntryEnds(file), HeaderSize, n) /\ n + kvs = file[4]
  BY DEF ReadSoFar
<1>4. EntryEnds(file) \in Ending(file)
  BY <1>1, EntryEndsTyped
<1> DEFINE d == Append(c, to)
<1>5. d \in Chains(file, EntryEnds(file), HeaderSize, n + 1) /\ d[n + 2] = to
  BY <1>1, <1>2, <1>3, <1>4, Prolonged
<1>6. EntriesOf(file, d, n + 1) = Append(EntriesOf(file, c, n), Cut(file, c[n + 1], to))
  BY <1>1, <1>2, <1>3, EntriesGrow
<1> HIDE DEF d
<1>7. Captured(EntriesOf(file, d, n + 1), metadata', quant', candidates')
  BY <1>6
<1>8. d \in Seq(Places(file)) /\ n + 1 \in Nat /\ (n + 1) + kvs' = file[4] /\ (n + 1) + 1 = n + 2
  BY <1>1, <1>2, <1>3, <1>5 DEF Chains
<1>9. ReadSoFar(d, n + 1)'
  BY <1>5, <1>7, <1>8 DEF ReadSoFar, ReadingAt
<1>10. status' # "Valid" /\ HasHeader(file)' /\ d \in Seq(Places(file))'
  BY <1>1, <1>8
<1> QED BY <1>8, <1>9, <1>10 DEF Parsed, AcceptsTheFormat, MetadataIsTheFiles

(* A step inside an entry.                                                 *)
LEMMA WithinParsed ==
  ASSUME TypeOK, HasHeader(file), NEW n \in Nat, NEW c \in Seq(Places(file)), ReadSoFar(c, n),
         pc # "done", pc' \in {"value", "elements"},
         UNCHANGED <<file, status, kvs, candidates, quant, metadata>>, ReadingAt(c[n + 1])'
  PROVE  Parsed'
<1>1. file \in Seq(Nat) /\ status = "reading"
  BY DEF TypeOK
<1>2. ReadSoFar(c, n)'
  BY DEF ReadSoFar
<1>3. status' # "Valid" /\ HasHeader(file)' /\ c \in Seq(Places(file))'
  BY <1>1
<1> QED BY <1>2, <1>3 DEF Parsed, AcceptsTheFormat, MetadataIsTheFiles

LEMMA ReadHeaderParsed == IInv /\ Parsed /\ ReadHeader => Parsed'
<1> SUFFICES ASSUME IInv, Parsed, ReadHeader PROVE Parsed'
  OBVIOUS
<1>1. file \in Seq(Nat) /\ pc = "header" /\ candidates = <<>> /\ quant = Absent /\ metadata = NoMetadata
      /\ UNCHANGED <<file, candidates, quant, metadata>> /\ status = "reading"
  BY DEF IInv, TypeOK, Parsed, ReadHeader
<1>2. /\ Cell(0) = file[1] /\ Cell(1) = file[2] /\ Cell(2) = file[3] /\ Cell(3) = file[4]
  BY DEF Cell
<1>3. HeaderStatus = "reading" <=> HasHeader(file)
  <2>1. Len(file) >= 4 => file # <<>> /\ file[3] \in Nat /\ file[4] \in Nat
    BY <1>1
  <2>2. Len(file) \in Nat
    BY <1>1
  <2> QED BY <1>2, <2>1, <2>2, GgufAssumption DEF HeaderStatus, HasHeader, HeaderSize
<1>4. HeaderStatus # "Valid"
  BY DEF HeaderStatus
<1>5. CASE HasHeader(file)
  <2>1. pc' = "key" /\ pos' = HeaderSize /\ kvs' = file[4] /\ UNCHANGED status
    BY <1>2, <1>3, <1>5 DEF ReadHeader
  <2>2. HeaderSize \in Places(file) /\ file[4] \in Nat /\ EntryEnds(file) \in Ending(file)
    BY <1>1, <1>5, EntriesAre, EntryEndsTyped
  <2> DEFINE c == <<HeaderSize>>
  <2>3. c \in Chains(file, EntryEnds(file), HeaderSize, 0) /\ c[1] = HeaderSize
    BY <1>1, <2>2, NoChain
  <2>4. c \in Seq(Places(file)) /\ 0 \in Nat /\ 0 + 1 = 1 /\ 0 + file[4] = file[4]
    BY <2>2
  <2> HIDE DEF c
  <2>5. DOMAIN EntriesOf(file, c, 0) = {}
    BY DEF EntriesOf
  <2>6. Captured(EntriesOf(file, c, 0), metadata', quant', candidates')
    BY <1>1, <2>5, NothingCaptured
  <2>7. ReadSoFar(c, 0)'
    BY <1>1, <2>1, <2>3, <2>4, <2>6 DEF ReadSoFar, ReadingAt
  <2>8. status' # "Valid" /\ HasHeader(file)' /\ c \in Seq(Places(file))'
    BY <1>1, <1>5, <2>1, <2>4
  <2> QED BY <2>1, <2>4, <2>7, <2>8 DEF Parsed, AcceptsTheFormat, MetadataIsTheFiles
<1>6. CASE ~HasHeader(file)
  <2>1. pc' = "done" /\ status' # "Valid"
    BY <1>3, <1>4, <1>6 DEF ReadHeader, Return
  <2>2. Entries(file') = {}
    BY <1>1, <1>6 DEF Entries
  <2> QED BY <2>1, <2>2 DEF Parsed, AcceptsTheFormat, MetadataIsTheFiles
<1> QED BY <1>5, <1>6

LEMMA ReadKeyParsed == IInv /\ Parsed /\ ReadKey => Parsed'
<1> SUFFICES ASSUME IInv, Parsed, ReadKey PROVE Parsed'
  OBVIOUS
<1>1. TypeOK /\ file \in Seq(Nat) /\ pc = "key" /\ kvs > 0 /\ UNCHANGED <<file, candidates, quant, metadata>>
      /\ pos \in Nat /\ Len(file) \in Nat
  BY LengthIsNat DEF IInv, TypeOK, ReadKey
<1>2. PICK n \in Nat : \E c \in Seq(Places(file)) : ReadSoFar(c, n) /\ HasHeader(file)
  BY <1>1 DEF Parsed
<1>3. PICK c \in Seq(Places(file)) : ReadSoFar(c, n) /\ HasHeader(file)
  BY <1>2
<1> DEFINE e == c[n + 1]
           length == Cell(pos)
           Good == /\ InFile(pos, 1) /\ length <= MaxKey
                   /\ InFile(pos + 1, length) /\ InFile(pos + 1 + length, 1)
                   /\ Cell(pos + 1 + length) \in {Number, Wide, String, Array}
<1>4. e \in Places(file) /\ pos = e
  <2>1. c \in Chains(file, EntryEnds(file), HeaderSize, n) /\ pos = c[n + 1]
    BY <1>1, <1>3 DEF ReadSoFar, ReadingAt
  <2>2. n + 1 \in 1..(n + 1)
    OBVIOUS
  <2> QED BY <1>1, <2>1, <2>2, LastOfChain
<1> HIDE DEF e
<1>5. length = file[e + 1]
  BY <1>4 DEF Cell
<1>6. pos < Len(file) => length \in Nat
  BY <1>1, <1>4, <1>5, PlacesAre
<1>7. pos + 1 + length = ValueAt(file, e)
  BY <1>4, <1>5 DEF ValueAt
<1>8. Good <=> Begins(file, e) /\ file[ValueAt(file, e) + 1] \in {Number, Wide, String, Array}
  <2>1. Cell(pos + 1 + length) = file[ValueAt(file, e) + 1]
    BY <1>7 DEF Cell
  <2>2. InFile(pos, 1) <=> pos < Len(file)
    BY <1>1 DEF InFile
  <2>3. ASSUME pos < Len(file)
        PROVE InFile(pos + 1, length) /\ InFile(pos + 1 + length, 1) <=> ValueAt(file, e) < Len(file)
    <3>1. length \in Nat /\ ValueAt(file, e) = pos + 1 + length
      BY <1>6, <1>7, <2>3
    <3> HIDE DEF length
    <3> QED BY <1>1, <3>1 DEF InFile
  <2> HIDE DEF length
  <2> QED BY <1>4, <1>5, <2>1, <2>2, <2>3 DEF Begins
<1>9. CASE Good
  <2>1. /\ key' = Cells(pos + 1, length) /\ type' = Cell(pos + 1 + length) /\ pos' = pos + length + 2
        /\ pc' = "value" /\ UNCHANGED <<kvs, count, status>>
    BY <1>9 DEF ReadKey
  <2>2. Begins(file, e) /\ length \in Nat /\ ValueAt(file, e) \in Nat
    <3>1. Begins(file, e)
      BY <1>8, <1>9
    <3>2. length \in Nat
      BY <1>4, <1>6, <3>1 DEF Begins
    <3> QED BY <1>1, <1>7, <3>1, <3>2
  <2>3. key' = Cut(file, e + 1, ValueAt(file, e))
    <3>1. (pos + 1) + length = ValueAt(file, e) /\ (pos + 1) + 1 = (e + 1) + 1
      BY <1>4, <1>7
    <3> QED BY <1>4, <2>1, <3>1, Zenon DEF Cells, Cut
  <2>4. type' = file[ValueAt(file, e) + 1]
    BY <1>7, <2>1 DEF Cell
  <2>5. pos' = ValueAt(file, e) + 1
    <3> HIDE DEF length
    <3> QED BY <1>1, <1>7, <2>1, <2>2
  <2>6. AtValue(e)'
    BY <1>1, <1>4, <2>2, <2>3, <2>4 DEF AtValue
  <2>7. ReadingAt(e)'
    BY <1>1, <2>1, <2>5, <2>6 DEF ReadingAt
  <2> QED BY <1>1, <1>3, <2>1, <2>7, WithinParsed DEF e
<1>10. CASE ~Good
  <2>1. pc' = "done" /\ status' = "MalformedMetadata"
    BY <1>10 DEF ReadKey, Malformed, Return
  <2>2. EntryEnds(file)[e] = {}
    <3> SUFFICES ASSUME NEW to \in EntryEnds(file)[e] PROVE FALSE
      OBVIOUS
    <3>1. Begins(file, e) /\ IsValue(file, ValueAt(file, e), to)
      BY <1>1, <1>4, EntryEndsAre
    <3>2. file[ValueAt(file, e) + 1] \in {Number, Wide, String, Array}
      BY <3>1 DEF IsValue
    <3> QED BY <1>8, <1>10, <3>1, <3>2
  <2> QED BY <1>1, <1>3, <2>1, <2>2, RejectedParsed DEF e
<1> QED BY <1>9, <1>10

(* Where the reader is when it has read the key of an entry.               *)
LEMMA WhereValueIs ==
  ASSUME IInv, Parsed, pc \in {"value", "elements"}
  PROVE  \E n \in Nat : \E c \in Seq(Places(file)) :
            /\ HasHeader(file) /\ ReadSoFar(c, n) /\ AtValue(c[n + 1])
            /\ EntriesOf(file, c, n) \in Seq(Seq(Nat))
<1>1. PICK n \in Nat : \E c \in Seq(Places(file)) : ReadSoFar(c, n) /\ HasHeader(file)
  BY DEF Parsed
<1>2. PICK c \in Seq(Places(file)) : ReadSoFar(c, n) /\ HasHeader(file)
  BY <1>1
<1>3. AtValue(c[n + 1]) /\ c \in Chains(file, EntryEnds(file), HeaderSize, n)
  BY <1>2 DEF ReadSoFar, ReadingAt
<1>4. EntriesOf(file, c, n) \in Seq(Seq(Nat))
  BY <1>3, EntriesOfAre DEF IInv, TypeOK
<1> QED BY <1>2, <1>3, <1>4

(* What is known of the entry at e and of its end.                         *)
LEMMA EntryToRead ==
  ASSUME IInv, NEW e, AtValue(e), NEW v, v = ValueAt(file, e)
  PROVE  /\ file \in Seq(Nat) /\ e \in Places(file) /\ v \in Nat /\ v + 1 \in Nat /\ v + 1 <= Len(file)
         /\ v + 1 \in Places(file) /\ type = file[v + 1] /\ key \in Seq(Nat) /\ Len(file) \in Nat
         /\ \A to \in Places(file) : to \in EntryEnds(file)[e] <=> v < to /\ IsValue(file, v, to)
         /\ EntryEnds(file)[e] \subseteq Places(file)
         /\ \A to \in EntryEnds(file)[e] :
               /\ Cut(file, e, to) \in Seq(Nat) /\ KeyOf(Cut(file, e, to)) = key
               /\ ValueOf(Cut(file, e, to))[1] = type
               /\ Tail(ValueOf(Cut(file, e, to))) = Cut(file, v + 1, to)
<1>1. file \in Seq(Nat) /\ e \in Places(file) /\ Begins(file, e) /\ key \in Seq(Nat) /\ type = file[v + 1]
      /\ key = Cut(file, e + 1, v)
  BY DEF IInv, TypeOK, AtValue
<1>2. v \in Nat /\ v < Len(file) /\ Len(file) \in Nat
  BY <1>1, EntryEndsAre, PlacesAre DEF Begins
<1>3. v + 1 \in Nat /\ v + 1 <= Len(file)
  BY <1>2
<1>4. v + 1 \in Places(file)
  BY <1>1, <1>3, PlacesAre
<1>5. \A to \in Places(file) : to \in EntryEnds(file)[e] <=> v < to /\ IsValue(file, v, to)
  BY <1>1, EntryEndsAre
<1>6. EntryEnds(file)[e] \subseteq Places(file)
  BY <1>1, EntryEndsAre
<1>7. ASSUME NEW to \in EntryEnds(file)[e]
      PROVE  /\ Cut(file, e, to) \in Seq(Nat) /\ KeyOf(Cut(file, e, to)) = key
             /\ ValueOf(Cut(file, e, to))[1] = type
             /\ Tail(ValueOf(Cut(file, e, to))) = Cut(file, v + 1, to)
  <2>1. to \in Places(file) /\ v < to
    BY <1>5, <1>6
  <2> QED BY <1>1, <2>1, PartsOfEntry
<1> QED BY <1>1, <1>2, <1>3, <1>4, <1>5, <1>6, <1>7

LEMMA ReadScalarParsed == IInv /\ Parsed /\ ReadScalar => Parsed'
<1> SUFFICES ASSUME IInv, Parsed, ReadScalar PROVE Parsed'
  OBVIOUS
<1>1. TypeOK /\ pc = "value" /\ type \in {Number, Wide} /\ UNCHANGED <<file, metadata>> /\ kvs > 0
  BY DEF IInv, Phases, ReadScalar
<1>2. PICK n \in Nat : \E c \in Seq(Places(file)) :
            /\ HasHeader(file) /\ ReadSoFar(c, n) /\ AtValue(c[n + 1])
            /\ EntriesOf(file, c, n) \in Seq(Seq(Nat))
  BY <1>1, WhereValueIs
<1>3. PICK c \in Seq(Places(file)) :
            /\ HasHeader(file) /\ ReadSoFar(c, n) /\ AtValue(c[n + 1])
            /\ EntriesOf(file, c, n) \in Seq(Seq(Nat))
  BY <1>2
<1> DEFINE e == c[n + 1]
           v == ValueAt(file, e)
           w == Width[type]
           to == v + 1 + w
<1>4. /\ file \in Seq(Nat) /\ e \in Places(file) /\ v \in Nat /\ v + 1 <= Len(file)
      /\ type = file[v + 1] /\ key \in Seq(Nat) /\ Len(file) \in Nat
      /\ \A t \in Places(file) : t \in EntryEnds(file)[e] <=> v < t /\ IsValue(file, v, t)
      /\ EntryEnds(file)[e] \subseteq Places(file)
      /\ \A t \in EntryEnds(file)[e] :
               /\ Cut(file, e, t) \in Seq(Nat) /\ KeyOf(Cut(file, e, t)) = key
               /\ ValueOf(Cut(file, e, t))[1] = type
               /\ Tail(ValueOf(Cut(file, e, t))) = Cut(file, v + 1, t)
  BY <1>3, EntryToRead
<1>5. pos = v + 1
  BY <1>1, <1>3 DEF ReadSoFar, ReadingAt
<1> HIDE DEF e, v
<1>6. w \in {1, 2}
  BY <1>1 DEF Width, Number, Wide
<1>7. \A t : IsValue(file, v, t) <=> t = to
  BY <1>1, <1>4, ScalarEnds
<1> HIDE DEF w
<1>8. CASE InFile(pos, w)
  <2>1. to \in Nat /\ v < to /\ to <= Len(file) /\ to = pos + w
    BY <1>4, <1>5, <1>6, <1>8 DEF InFile
  <2> HIDE DEF to
  <2>2. to \in EntryEnds(file)[e]
    BY <1>4, <1>7, <2>1, PlacesAre
  <2> DEFINE x == Cut(file, e, to)
             value == Cells(pos, w)
             es == EntriesOf(file, c, n)
  <2>3. value = Tail(ValueOf(x))
    <3>1. Cells(pos, w) = Cut(file, v + 1, to)
      BY <1>5, <2>1, Zenon DEF Cells, Cut
    <3> QED BY <1>4, <2>2, <3>1
  <2>4. /\ pc' = "key" /\ kvs' = kvs - 1 /\ pos' = to /\ UNCHANGED status
        /\ quant' = (IF key = QuantizationKey /\ type = Number THEN Present(value) ELSE quant)
        /\ candidates' = (IF IsContextKey(key) THEN Candidate(key, value) ELSE candidates)
    BY <1>8, <2>1 DEF ReadScalar, NextKey, w
  <2> HIDE DEF value
  <2>5. x \in Seq(Nat) /\ KeyOf(x) = key /\ ValueOf(x)[1] = type
    BY <1>4, <2>2
  <2> HIDE DEF x
  <2>6. Captured(es, metadata, quant, candidates)
    BY <1>3 DEF ReadSoFar
  <2> HIDE DEF es
  <2>7. candidates' = IF IsContextKey(KeyOf(x))
                      THEN [p \in DOMAIN candidates \cup {Prefix(KeyOf(x))} |->
                               IF p = Prefix(KeyOf(x)) THEN Tail(ValueOf(x)) ELSE candidates[p]]
                      ELSE candidates
    BY <2>3, <2>4, <2>5, Zenon DEF Candidate
  <2>8. quant' = IF KeyOf(x) = QuantizationKey /\ ValueOf(x)[1] = Number
                 THEN Present(Tail(ValueOf(x))) ELSE quant
    BY <2>3, <2>4, <2>5, Zenon
  <2>9. es \in Seq(Seq(Nat)) /\ KeyOf(x) \in Seq(Nat) /\ ValueOf(x)[1] \in {Number, Wide}
    BY <1>1, <1>3, <1>4, <2>5 DEF es
  <2>10. Captured(Append(es, x), metadata, quant', candidates')
    BY <2>5, <2>6, <2>7, <2>8, <2>9, ScalarCaptured
  <2>11. Captured(Append(es, x), metadata', quant', candidates')
    BY <1>1, <2>10
  <2> QED BY <1>1, <1>3, <2>2, <2>4, <2>11, EntryParsed DEF e, x, es
<1>9. CASE ~InFile(pos, w)
  <2>1. pc' = "done" /\ status' = "MalformedMetadata"
    BY <1>9 DEF ReadScalar, Malformed, Return, w
  <2>2. EntryEnds(file)[e] = {}
    <3> SUFFICES ASSUME NEW t \in EntryEnds(file)[e] PROVE FALSE
      OBVIOUS
    <3>1. t = to /\ t <= Len(file)
      BY <1>4, <1>7, PlacesAre
    <3> QED BY <1>4, <1>5, <1>6, <1>9, <3>1 DEF InFile
  <2> QED BY <1>1, <1>3, <2>1, <2>2, RejectedParsed DEF e
<1> QED BY <1>8, <1>9

(* A string ends where its length says, if that is in the file.            *)
LEMMA StringEndIs ==
  ASSUME file \in Seq(Nat), NEW p \in Places(file)
  PROVE  /\ StringFits(p) => /\ Cell(p) \in Nat /\ p + 1 + Cell(p) \in StringEnds(file)[p]
                             /\ p < p + 1 + Cell(p)
         /\ ~StringFits(p) => StringEnds(file)[p] = {}
<1>1. p \in Nat /\ Len(file) \in Nat /\ p <= Len(file) /\ (p < Len(file) => file[p + 1] \in Nat)
  BY PlacesAre
<1>2. Cell(p) = file[p + 1]
  BY DEF Cell
<1>3. \A to \in Places(file) :
         to \in StringEnds(file)[p] <=> p < to /\ file[p + 1] <= MaxString /\ to = p + 1 + file[p + 1]
  BY StringEndsAre
<1>4. ASSUME StringFits(p)
      PROVE  /\ Cell(p) \in Nat /\ p + 1 + Cell(p) \in StringEnds(file)[p] /\ p < p + 1 + Cell(p)
  <2> DEFINE k == file[p + 1]
  <2>1. p < Len(file) /\ k <= MaxString
    BY <1>1, <1>2, <1>4 DEF StringFits, InFile
  <2>2. k \in Nat
    BY <1>1, <2>1
  <2>3. InFile(p + 1, k)
    BY <1>2, <1>4 DEF StringFits
  <2> HIDE DEF k
  <2>4. p + 1 + k \in Nat /\ p + 1 + k <= Len(file) /\ p < p + 1 + k
    BY <1>1, <2>2, <2>3 DEF InFile
  <2>5. p + 1 + k \in Places(file)
    BY <2>4, PlacesAre
  <2>6. p + 1 + k \in StringEnds(file)[p]
    BY <1>3, <2>1, <2>4, <2>5 DEF k
  <2> QED BY <1>2, <2>2, <2>4, <2>6 DEF k
<1>5. ASSUME NEW to \in StringEnds(file)[p] PROVE StringFits(p)
  <2> DEFINE k == file[p + 1]
  <2>1. to \in Places(file)
    BY StringEndsAre DEF Ending
  <2>2. p < to /\ k <= MaxString /\ to = p + 1 + k /\ to \in Nat /\ to <= Len(file)
    BY <1>3, <2>1, PlacesAre
  <2>3. k \in Nat
    BY <1>1, <2>2
  <2> HIDE DEF k
  <2>4. InFile(p, 1) /\ InFile(p + 1, k)
    BY <1>1, <2>2, <2>3 DEF InFile
  <2> QED BY <1>2, <2>2, <2>4 DEF StringFits, k
<1> QED BY <1>4, <1>5

LEMMA ReadStringParsed == IInv /\ Parsed /\ ReadString => Parsed'
<1> SUFFICES ASSUME IInv, Parsed, ReadString PROVE Parsed'
  OBVIOUS
<1>1. TypeOK /\ pc = "value" /\ type = String /\ UNCHANGED <<file, candidates, quant>> /\ kvs > 0
  BY DEF IInv, Phases, ReadString
<1>2. PICK n \in Nat : \E c \in Seq(Places(file)) :
            /\ HasHeader(file) /\ ReadSoFar(c, n) /\ AtValue(c[n + 1])
            /\ EntriesOf(file, c, n) \in Seq(Seq(Nat))
  BY <1>1, WhereValueIs
<1>3. PICK c \in Seq(Places(file)) :
            /\ HasHeader(file) /\ ReadSoFar(c, n) /\ AtValue(c[n + 1])
            /\ EntriesOf(file, c, n) \in Seq(Seq(Nat))
  BY <1>2
<1> DEFINE e == c[n + 1]
           v == ValueAt(file, e)
           size == Cell(pos)
           to == pos + 1 + size
<1>4. /\ file \in Seq(Nat) /\ e \in Places(file) /\ v \in Nat /\ v + 1 <= Len(file)
      /\ v + 1 \in Places(file) /\ type = file[v + 1] /\ Len(file) \in Nat
      /\ \A t \in Places(file) : t \in EntryEnds(file)[e] <=> v < t /\ IsValue(file, v, t)
      /\ EntryEnds(file)[e] \subseteq Places(file)
      /\ \A t \in EntryEnds(file)[e] :
               /\ Cut(file, e, t) \in Seq(Nat) /\ KeyOf(Cut(file, e, t)) = key
               /\ ValueOf(Cut(file, e, t))[1] = type
               /\ Tail(ValueOf(Cut(file, e, t))) = Cut(file, v + 1, t)
  BY <1>3, EntryToRead
<1>5. pos = v + 1
  BY <1>1, <1>3 DEF ReadSoFar, ReadingAt
<1> HIDE DEF e, v
<1>6. \A t : IsValue(file, v, t) <=> t \in StringEnds(file)[pos]
  BY <1>1, <1>4, <1>5, StringValueEnds
<1>7. CASE StringFits(pos)
  <2>1. size \in Nat /\ to \in StringEnds(file)[pos] /\ pos < to /\ to \in Places(file)
    <3>1. /\ Cell(pos) \in Nat /\ pos + 1 + Cell(pos) \in StringEnds(file)[pos]
          /\ pos < pos + 1 + Cell(pos)
      BY <1>4, <1>5, <1>7, StringEndIs
    <3>2. StringEnds(file)[pos] \subseteq Places(file)
      BY <1>4, <1>5, StringEndsAre DEF Ending
    <3> QED BY <3>1, <3>2
  <2>2. to \in Nat /\ to <= Len(file)
    BY <1>4, <2>1, PlacesAre
  <2> HIDE DEF size
  <2>3. v < to /\ v + 1 < to
    BY <1>4, <1>5, <2>1, <2>2
  <2>4. to \in EntryEnds(file)[e]
    BY <1>4, <1>6, <2>1, <2>3
  <2> DEFINE x == Cut(file, e, to)
             name == Cells(pos + 1, size)
             es == EntriesOf(file, c, n)
  <2>5. x \in Seq(Nat) /\ KeyOf(x) = key /\ ValueOf(x)[1] = type /\ Tail(ValueOf(x)) = Cut(file, v + 1, to)
    BY <1>4, <2>4
  <2>6. name = Tail(Tail(ValueOf(x)))
    <3>1. Tail(Cut(file, v + 1, to)) = Cut(file, (v + 1) + 1, to)
      BY <1>4, <2>2, <2>3, TailOfCut
    <3>2. name = Cut(file, (v + 1) + 1, to)
      BY <1>5, Zenon DEF Cells, Cut
    <3> QED BY <2>5, <3>1, <3>2
  <2>7. name \in Seq(Nat)
    <3>1. v + 2 \in Nat /\ to \in (v + 2)..Len(file) /\ (v + 1) + 1 = v + 2
      BY <1>4, <2>2, <2>3
    <3>2. Cut(file, v + 2, to) \in Seq(Nat)
      BY <1>4, <3>1, CutsOfSeq
    <3>3. name = Cut(file, (v + 1) + 1, to)
      BY <1>5, Zenon DEF Cells, Cut
    <3> QED BY <3>1, <3>2, <3>3
  <2>8. /\ pc' = "key" /\ kvs' = kvs - 1 /\ pos' = to /\ UNCHANGED status
        /\ metadata' = IF key = ArchitectureKey
                       THEN [metadata EXCEPT !.architecture = Present(name)] ELSE metadata
    BY <1>7 DEF ReadString, NextKey, size
  <2>9. Captured(es, metadata, quant, candidates) /\ es \in Seq(Seq(Nat))
    BY <1>3 DEF ReadSoFar
  <2> HIDE DEF x, name, es
  <2>10. Captured(Append(es, x), metadata', quant, candidates)
    <3>1. CASE key = ArchitectureKey
      <4>1. KeyOf(x) = ArchitectureKey /\ ValueOf(x)[1] = String /\ Tail(Tail(ValueOf(x))) \in Seq(Nat)
        BY <1>1, <2>5, <2>6, <2>7, <3>1
      <4>2. Captured(Append(es, x), [metadata EXCEPT !.architecture = Present(Tail(Tail(ValueOf(x))))],
                     quant, candidates)
        BY <2>5, <2>9, <4>1, ArchitectureCaptured
      <4>3. metadata' = [metadata EXCEPT !.architecture = Present(Tail(Tail(ValueOf(x))))]
        BY <2>6, <2>8, <3>1, Zenon
      <4> QED BY <4>2, <4>3, Zenon
    <3>2. CASE key # ArchitectureKey
      <4>1. KeyOf(x) # ArchitectureKey /\ ValueOf(x)[1] \notin {Number, Wide}
        BY <1>1, <2>5, <3>2, TypesDiffer
      <4>2. Captured(Append(es, x), metadata, quant, candidates)
        BY <2>5, <2>9, <4>1, SkippedCaptured
      <4>3. metadata' = metadata
        BY <2>8, <3>2, Zenon
      <4> QED BY <4>2, <4>3, Zenon
    <3> QED BY <3>1, <3>2
  <2>11. Captured(Append(es, x), metadata', quant', candidates')
    BY <1>1, <2>10
  <2> QED BY <1>1, <1>3, <2>4, <2>8, <2>11, EntryParsed DEF e, x, es
<1>8. CASE ~StringFits(pos)
  <2>1. pc' = "done" /\ status' = "MalformedMetadata"
    BY <1>8 DEF ReadString, Malformed, Return
  <2>2. EntryEnds(file)[e] = {}
    BY <1>4, <1>5, <1>6, <1>8, StringEndIs
  <2> QED BY <1>1, <1>3, <2>1, <2>2, RejectedParsed DEF e
<1> QED BY <1>7, <1>8

LEMMA ReadArrayParsed == IInv /\ Parsed /\ ReadArray => Parsed'
<1> SUFFICES ASSUME IInv, Parsed, ReadArray PROVE Parsed'
  OBVIOUS
<1>1. TypeOK /\ pc = "value" /\ type = Array /\ UNCHANGED <<file, candidates, quant, metadata>> /\ kvs > 0
  BY DEF IInv, Phases, ReadArray
<1>2. PICK n \in Nat : \E c \in Seq(Places(file)) :
            /\ HasHeader(file) /\ ReadSoFar(c, n) /\ AtValue(c[n + 1])
            /\ EntriesOf(file, c, n) \in Seq(Seq(Nat))
  BY <1>1, WhereValueIs
<1>3. PICK c \in Seq(Places(file)) :
            /\ HasHeader(file) /\ ReadSoFar(c, n) /\ AtValue(c[n + 1])
            /\ EntriesOf(file, c, n) \in Seq(Seq(Nat))
  BY <1>2
<1> DEFINE e == c[n + 1]
           v == ValueAt(file, e)
           element == Cell(pos)
           length == Cell(pos + 1)
           Fits == InFile(pos, 1) /\ element \in ElementTypes /\ InFile(pos + 1, 1) /\ length <= MaxArray
           size == length * Width[element]
           to == pos + 2 + size
<1>4. /\ file \in Seq(Nat) /\ e \in Places(file) /\ v \in Nat /\ v + 1 <= Len(file)
      /\ type = file[v + 1] /\ Len(file) \in Nat
      /\ \A t \in Places(file) : t \in EntryEnds(file)[e] <=> v < t /\ IsValue(file, v, t)
      /\ EntryEnds(file)[e] \subseteq Places(file)
      /\ \A t \in EntryEnds(file)[e] :
               /\ Cut(file, e, t) \in Seq(Nat) /\ KeyOf(Cut(file, e, t)) = key
               /\ ValueOf(Cut(file, e, t))[1] = type
  BY <1>3, EntryToRead
<1>5. pos = v + 1 /\ AtValue(e) /\ v = ValueAt(file, e)
  BY <1>1, <1>3 DEF ReadSoFar, ReadingAt
<1> HIDE DEF e, v
<1>6. element = file[v + 2] /\ length = file[v + 3]
  <2>1. pos + 1 = v + 2 /\ (pos + 1) + 1 = v + 3
    BY <1>4, <1>5
  <2> QED BY <2>1 DEF Cell
<1>7. Fits <=> v + 3 <= Len(file) /\ element \in {Number, Wide, String} /\ length <= MaxArray
  <2> HIDE DEF element, length
  <2> QED BY <1>4, <1>5 DEF InFile, ElementTypes
<1>8. ASSUME NEW t \in Places(file)
      PROVE  /\ IsValue(file, v, t) => v + 3 <= t /\ element \in {Number, Wide, String} /\ length <= MaxArray
             /\ element \in {Number, Wide} =>
                   (IsValue(file, v, t) <=> v + 3 <= t /\ length <= MaxArray /\ t = v + 3 + size)
  <2>1. file[v + 1] = Array
    BY <1>1, <1>4
  <2>2. /\ IsValue(file, v, t) => v + 3 <= t /\ file[v + 2] \in {Number, Wide, String} /\ file[v + 3] <= MaxArray
        /\ file[v + 2] \in {Number, Wide} =>
              (IsValue(file, v, t) <=> /\ v + 3 <= t /\ file[v + 3] <= MaxArray
                                       /\ t = v + 3 + file[v + 3] * Width[file[v + 2]])
    BY <1>4, <2>1, ArrayEnds
  <2> HIDE DEF element, length
  <2> QED BY <1>6, <2>2, Zenon
<1>9. length \in Nat \/ Len(file) < v + 3
  <2>1. ASSUME v + 3 <= Len(file) PROVE file[v + 3] \in Nat
    BY <1>4, <2>1
  <2> QED BY <1>4, <1>6, <2>1
<1>10. CASE Fits /\ element \notin {Number, Wide}
  <2>1. /\ pc' = "elements" /\ count' = length /\ pos' = pos + 2 /\ UNCHANGED <<kvs, key, type, status>>
    BY <1>10 DEF ReadArray
  <2>2. element = String /\ v + 3 <= Len(file) /\ length \in Nat /\ length <= MaxArray
    BY <1>4, <1>7, <1>9, <1>10
  <2> HIDE DEF element, length
  <2>3. v + 3 \in Places(file) /\ pos' = v + 3
    BY <1>4, <1>5, <2>1, <2>2, PlacesAre
  <2>4. Chains(file, StringEnds(file), v + 3, 0) = {<<v + 3>>}
    BY <1>4, <2>3, NoChain, StringEndsAre
  <2>5. ASSUME NEW first \in Nat, NEW l \in Nat, first = v + 3, l = length PROVE InElements(first, l)'
    <3>1. l - count' = 0 /\ count' <= l /\ 0 + 1 = 1 /\ l <= MaxArray
      BY <2>1, <2>2, <2>5
    <3>2. <<first>> \in Chains(file, StringEnds(file), first, l - count')
          /\ <<first>>[(l - count') + 1] = pos'
      BY <2>3, <2>4, <2>5, <3>1
    <3>3. first <= pos' /\ first \in Places(file)
      BY <2>3, <2>5
    <3> QED BY <1>1, <3>1, <3>2, <3>3 DEF InElements
  <2>6. AtValue(e)'
    BY <1>1, <1>5, <2>1 DEF AtValue
  <2>7. InElements(ValueAt(file, e) + 3, file[ValueAt(file, e) + 3])'
    <3>1. \A first, l \in Nat : first = v + 3 /\ l = length => InElements(first, l)'
      BY <2>5
    <3>2. PICK first \in Nat : first = ValueAt(file, e) + 3
      BY <1>4, <1>5
    <3>3. PICK l \in Nat : l = file[first]
      BY <1>5, <1>6, <2>2, <3>2
    <3>4. InElements(first, l)'
      BY <1>5, <1>6, <3>1, <3>2, <3>3
    <3>5. (ValueAt(file, e) + 3)' = first /\ (file[ValueAt(file, e) + 3])' = l
      BY <1>1, <3>2, <3>3
    <3> QED BY <3>4, <3>5
  <2>8. file[ValueAt(file, e) + 2] = String
    BY <1>5, <1>6, <2>2
  <2>9. ReadingAt(e)'
    BY <1>1, <2>1, <2>6, <2>7, <2>8 DEF ReadingAt
  <2> QED BY <1>1, <1>3, <2>1, <2>9, WithinParsed DEF e
<1>11. CASE Fits /\ element \in {Number, Wide} /\ InFile(pos + 2, size)
  <2>1. /\ pc' = "key" /\ kvs' = kvs - 1 /\ pos' = to /\ UNCHANGED status
    BY <1>11 DEF ReadArray, NextKey
  <2>2. size \in Nat
    <3>1. Width[element] \in {1, 2} /\ length \in Nat
      BY <1>4, <1>7, <1>9, <1>11 DEF Width, Number, Wide
    <3> HIDE DEF element, length
    <3> QED BY <3>1
  <2>3. /\ length <= MaxArray /\ element \in {Number, Wide}
        /\ InFile(pos + 2, size)
    BY <1>11
  <2> HIDE DEF size, element, length
  <2>4. to = v + 3 + size /\ to \in Nat /\ to <= Len(file) /\ v + 3 <= to /\ v < to
    <3>1. v \in Nat /\ pos = v + 1 /\ Len(file) \in Nat
      BY <1>4, <1>5
    <3>2. size <= Len(file) /\ pos + 2 <= Len(file) - size
      BY <2>3 DEF InFile
    <3> QED BY <2>2, <3>1, <3>2
  <2> HIDE DEF to
  <2>5. to \in EntryEnds(file)[e]
    BY <1>4, <1>8, <2>3, <2>4, PlacesAre
  <2> DEFINE x == Cut(file, e, to)
             es == EntriesOf(file, c, n)
  <2>6. x \in Seq(Nat) /\ ValueOf(x)[1] = type
    BY <1>4, <2>5
  <2>7. Captured(es, metadata, quant, candidates) /\ es \in Seq(Seq(Nat))
    BY <1>3 DEF ReadSoFar
  <2> HIDE DEF x, es
  <2>8. Captured(Append(es, x), metadata', quant', candidates')
    BY <1>1, <2>6, <2>7, SkippedCaptured, TypesDiffer
  <2> QED BY <1>1, <1>3, <2>1, <2>5, <2>8, EntryParsed DEF e, x, es
<1>12. CASE ~Fits \/ (element \in {Number, Wide} /\ ~InFile(pos + 2, size))
  <2>1. pc' = "done" /\ status' = "MalformedMetadata"
    BY <1>12 DEF ReadArray, Malformed, Return
  <2>2. EntryEnds(file)[e] = {}
    <3> SUFFICES ASSUME NEW t \in EntryEnds(file)[e] PROVE FALSE
      OBVIOUS
    <3>1. t \in Places(file) /\ t \in Nat /\ t <= Len(file) /\ IsValue(file, v, t)
      BY <1>4, PlacesAre
    <3>2. v + 3 <= t /\ element \in {Number, Wide, String} /\ length <= MaxArray
      BY <1>8, <3>1
    <3>3. Fits
      BY <1>4, <1>7, <3>1, <3>2
    <3>4. element \in {Number, Wide} /\ ~InFile(pos + 2, size)
      BY <1>12, <3>3
    <3>5. t = v + 3 + size
      BY <1>8, <3>1, <3>4
    <3>6. size \in Nat
      <4>1. Width[element] \in {1, 2} /\ length \in Nat
        BY <1>4, <1>7, <1>9, <3>3, <3>4 DEF Width, Number, Wide
      <4> HIDE DEF element, length
      <4> QED BY <4>1
    <3>7. ~InFile(pos + 2, size)
      BY <3>4
    <3> HIDE DEF size
    <3> QED BY <1>4, <1>5, <3>1, <3>5, <3>6, <3>7 DEF InFile
  <2> QED BY <1>1, <1>3, <2>1, <2>2, RejectedParsed DEF e
<1> QED BY <1>10, <1>11, <1>12

(* Where the reader is among the elements of an array of strings.          *)
LEMMA WhereElementIs ==
  ASSUME IInv, Parsed, pc = "elements"
  PROVE  \E n \in Nat : \E c \in Seq(Places(file)) : \E first \in Places(file), length \in Nat :
            /\ HasHeader(file) /\ ReadSoFar(c, n) /\ AtValue(c[n + 1])
            /\ EntriesOf(file, c, n) \in Seq(Seq(Nat)) /\ InElements(first, length)
            /\ ValueAt(file, c[n + 1]) + 3 = first /\ file[first] = length
            /\ type = Array
            /\ \A t \in Places(file) :
                  t \in EntryEnds(file)[c[n + 1]] <=>
                     first <= t /\ \E d \in Chains(file, StringEnds(file), first, length) : d[length + 1] = t
<1>1. PICK n \in Nat : \E c \in Seq(Places(file)) :
            /\ HasHeader(file) /\ ReadSoFar(c, n) /\ AtValue(c[n + 1])
            /\ EntriesOf(file, c, n) \in Seq(Seq(Nat))
  BY WhereValueIs
<1>2. PICK c \in Seq(Places(file)) :
            /\ HasHeader(file) /\ ReadSoFar(c, n) /\ AtValue(c[n + 1])
            /\ EntriesOf(file, c, n) \in Seq(Seq(Nat))
  BY <1>1
<1> DEFINE e == c[n + 1]
           v == ValueAt(file, e)
<1>3. /\ type = Array /\ file[v + 2] = String /\ InElements(v + 3, file[v + 3])
  BY <1>2 DEF ReadSoFar, ReadingAt
<1>4. /\ file \in Seq(Nat) /\ v \in Nat /\ type = file[v + 1]
      /\ \A t \in Places(file) : t \in EntryEnds(file)[e] <=> v < t /\ IsValue(file, v, t)
  BY <1>2, EntryToRead
<1> HIDE DEF v
<1>5. v + 3 \in Places(file) /\ file[v + 3] \in Nat /\ file[v + 3] <= MaxArray
  BY <1>3 DEF InElements
<1>6. ASSUME NEW t \in Places(file)
      PROVE  t \in EntryEnds(file)[e] <=>
                v + 3 <= t /\ \E d \in Chains(file, StringEnds(file), v + 3, file[v + 3]) : d[file[v + 3] + 1] = t
  <2>1. IsValue(file, v, t) <=>
           /\ v + 3 <= t /\ file[v + 3] <= MaxArray
           /\ \E d \in Chains(file, StringEnds(file), v + 3, file[v + 3]) : d[file[v + 3] + 1] = t
    BY <1>3, <1>4, ArrayEnds
  <2>2. v + 3 <= t => v < t
    BY <1>4, PlacesAre
  <2> QED BY <1>4, <1>5, <2>1, <2>2
<1>7. \A first \in Places(file), length \in Nat : first = v + 3 /\ length = file[v + 3] =>
         /\ InElements(first, length) /\ file[first] = length
         /\ \A t \in Places(file) :
                t \in EntryEnds(file)[e] <=>
                   first <= t /\ \E d \in Chains(file, StringEnds(file), first, length) : d[length + 1] = t
  BY <1>3, <1>6, Zenon
<1>8. \E first \in Places(file), length \in Nat :
            /\ InElements(first, length) /\ v + 3 = first /\ file[first] = length
            /\ \A t \in Places(file) :
                  t \in EntryEnds(file)[e] <=>
                     first <= t /\ \E d \in Chains(file, StringEnds(file), first, length) : d[length + 1] = t
  BY <1>5, <1>7, Zenon
<1>9. PICK first \in Places(file), length \in Nat :
            /\ InElements(first, length) /\ v + 3 = first /\ file[first] = length
            /\ \A t \in Places(file) :
                  t \in EntryEnds(file)[e] <=>
                     first <= t /\ \E d \in Chains(file, StringEnds(file), first, length) : d[length + 1] = t
  BY <1>8, Zenon
<1>10. ValueAt(file, c[n + 1]) + 3 = first
  BY <1>9 DEF v
<1>11. type = Array
  BY <1>3
<1> QED BY <1>2, <1>9, <1>10, <1>11, Zenon

LEMMA ReadElementParsed == IInv /\ Parsed /\ ReadElement => Parsed'
<1> SUFFICES ASSUME IInv, Parsed, ReadElement PROVE Parsed'
  OBVIOUS
<1>1. /\ TypeOK /\ pc = "elements" /\ UNCHANGED <<file, candidates, quant, metadata>> /\ kvs > 0
      /\ count \in Nat /\ count > 0 /\ pos \in Nat /\ file \in Seq(Nat)
  BY GgufAssumption DEF IInv, TypeOK, Phases, ReadElement
<1>2. PICK n \in Nat : \E c \in Seq(Places(file)) : \E first \in Places(file), length \in Nat :
            /\ HasHeader(file) /\ ReadSoFar(c, n) /\ AtValue(c[n + 1])
            /\ EntriesOf(file, c, n) \in Seq(Seq(Nat)) /\ InElements(first, length)
            /\ ValueAt(file, c[n + 1]) + 3 = first /\ file[first] = length
            /\ type = Array
            /\ \A t \in Places(file) :
                  t \in EntryEnds(file)[c[n + 1]] <=>
                     first <= t /\ \E d \in Chains(file, StringEnds(file), first, length) : d[length + 1] = t
  BY <1>1, WhereElementIs, Zenon
<1>3. PICK c \in Seq(Places(file)), first \in Places(file), length \in Nat :
            /\ HasHeader(file) /\ ReadSoFar(c, n) /\ AtValue(c[n + 1])
            /\ EntriesOf(file, c, n) \in Seq(Seq(Nat)) /\ InElements(first, length)
            /\ ValueAt(file, c[n + 1]) + 3 = first /\ file[first] = length
            /\ type = Array
            /\ \A t \in Places(file) :
                  t \in EntryEnds(file)[c[n + 1]] <=>
                     first <= t /\ \E d \in Chains(file, StringEnds(file), first, length) : d[length + 1] = t
  BY <1>2, Zenon
<1> DEFINE m == length - count
<1>4. PICK d \in Chains(file, StringEnds(file), first, m) : d[m + 1] = pos
  BY <1>3 DEF InElements
<1>5. m \in Nat /\ m < length /\ length - (count - 1) = m + 1 /\ (m + 1) + 1 = m + 2
      /\ first \in Nat /\ first <= pos /\ length <= MaxArray
  BY <1>1, <1>3, PlacesAre DEF InElements
<1>6. pos \in Places(file) /\ StringEnds(file) \in Ending(file) /\ Single(file, StringEnds(file))
  <2>1. m + 1 \in 1..(m + 1)
    BY <1>5
  <2> QED BY <1>1, <1>4, <1>5, <2>1, LastOfChain, StringEndsAre
<1> HIDE DEF m
<1>7. CASE StringFits(pos)
  <2> DEFINE to == pos + 1 + Cell(pos)
             f == Append(d, to)
  <2>1. count' = count - 1 /\ pos' = to /\ UNCHANGED <<pc, kvs, key, type, status>>
    BY <1>7 DEF ReadElement
  <2>2. to \in StringEnds(file)[pos] /\ pos < to
    BY <1>1, <1>6, <1>7, StringEndIs
  <2>3. to \in Nat
    BY <1>1, <1>6, <2>2, PlacesAre DEF Ending
  <2> HIDE DEF to
  <2>4. f \in Chains(file, StringEnds(file), first, m + 1) /\ f[m + 2] = to
    BY <1>1, <1>4, <1>5, <1>6, <2>2, Prolonged
  <2> HIDE DEF f
  <2>5. InElements(first, length)'
    <3>1. length - count' = m + 1
      BY <1>5, <2>1
    <3>2. /\ f \in Chains(file, StringEnds(file), first, length - count')
          /\ f[(length - count') + 1] = pos'
      BY <1>5, <2>1, <2>4, <3>1, Zenon
    <3>3. first <= pos' /\ count' <= length /\ length - count' \in Nat
      BY <1>1, <1>5, <2>1, <2>2, <2>3, <3>1
    <3> QED BY <1>1, <1>5, <3>2, <3>3 DEF InElements
  <2>6. AtValue(c[n + 1])'
    BY <1>1, <1>3, <2>1 DEF AtValue
  <2>7. file[ValueAt(file, c[n + 1]) + 2] = String
    BY <1>1, <1>3 DEF ReadSoFar, ReadingAt
  <2>8. ReadingAt(c[n + 1])'
    <3>1. ValueAt(file', c[n + 1]) + 3 = first /\ file'[first] = length
      BY <1>1, <1>3
    <3>2. InElements(ValueAt(file, c[n + 1]) + 3, file[ValueAt(file, c[n + 1]) + 3])'
      BY <2>5, <3>1
    <3> QED BY <1>1, <1>3, <2>1, <2>6, <2>7, <3>2 DEF ReadingAt
  <2> QED BY <1>1, <1>3, <2>1, <2>8, WithinParsed
<1>8. CASE ~StringFits(pos)
  <2>1. pc' = "done" /\ status' = "MalformedMetadata"
    BY <1>8 DEF ReadElement, Malformed, Return
  <2>2. StringEnds(file)[d[m + 1]] = {}
    BY <1>1, <1>4, <1>6, <1>8, StringEndIs
  <2>3. Chains(file, StringEnds(file), first, length) = {}
    BY <1>1, <1>4, <1>5, <1>6, <2>2, Stuck
  <2>4. EntryEnds(file)[c[n + 1]] = {}
    <3>1. EntryEnds(file)[c[n + 1]] \subseteq Places(file)
      BY <1>3, EntryToRead
    <3> QED BY <1>3, <2>3, <3>1
  <2> QED BY <1>1, <1>3, <2>1, <2>4, RejectedParsed
<1> QED BY <1>7, <1>8

LEMMA EndArrayParsed == IInv /\ Parsed /\ EndArray => Parsed'
<1> SUFFICES ASSUME IInv, Parsed, EndArray PROVE Parsed'
  OBVIOUS
<1>1. /\ TypeOK /\ pc = "elements" /\ UNCHANGED <<file, candidates, quant, metadata, status>> /\ kvs > 0
      /\ count = 0 /\ file \in Seq(Nat) /\ pc' = "key" /\ kvs' = kvs - 1 /\ pos' = pos
  BY DEF IInv, TypeOK, Phases, EndArray, NextKey
<1>2. PICK n \in Nat : \E c \in Seq(Places(file)) : \E first \in Places(file), length \in Nat :
            /\ HasHeader(file) /\ ReadSoFar(c, n) /\ AtValue(c[n + 1])
            /\ EntriesOf(file, c, n) \in Seq(Seq(Nat)) /\ InElements(first, length)
            /\ ValueAt(file, c[n + 1]) + 3 = first /\ file[first] = length
            /\ type = Array
            /\ \A t \in Places(file) :
                  t \in EntryEnds(file)[c[n + 1]] <=>
                     first <= t /\ \E d \in Chains(file, StringEnds(file), first, length) : d[length + 1] = t
  BY <1>1, WhereElementIs, Zenon
<1>3. PICK c \in Seq(Places(file)), first \in Places(file), length \in Nat :
            /\ HasHeader(file) /\ ReadSoFar(c, n) /\ AtValue(c[n + 1])
            /\ EntriesOf(file, c, n) \in Seq(Seq(Nat)) /\ InElements(first, length)
            /\ ValueAt(file, c[n + 1]) + 3 = first /\ file[first] = length
            /\ type = Array
            /\ \A t \in Places(file) :
                  t \in EntryEnds(file)[c[n + 1]] <=>
                     first <= t /\ \E d \in Chains(file, StringEnds(file), first, length) : d[length + 1] = t
  BY <1>2, Zenon
<1>4. length - count = length
  BY <1>1
<1>5. PICK d \in Chains(file, StringEnds(file), first, length) : d[length + 1] = pos
  BY <1>3, <1>4 DEF InElements
<1>6. pos \in Places(file) /\ first <= pos
  <2>1. length + 1 \in 1..(length + 1)
    OBVIOUS
  <2> QED BY <1>1, <1>3, <1>5, <2>1, LastOfChain DEF InElements
<1>7. pos \in EntryEnds(file)[c[n + 1]]
  BY <1>3, <1>5, <1>6, Zenon
<1> DEFINE x == Cut(file, c[n + 1], pos)
           es == EntriesOf(file, c, n)
<1>8. x \in Seq(Nat) /\ ValueOf(x)[1] = Array
  BY <1>3, <1>7, EntryToRead
<1>9. Captured(es, metadata, quant, candidates) /\ es \in Seq(Seq(Nat))
  BY <1>3 DEF ReadSoFar
<1> HIDE DEF x, es
<1>10. Captured(Append(es, x), metadata', quant', candidates')
  BY <1>1, <1>8, <1>9, SkippedCaptured, TypesDiffer
<1> QED BY <1>1, <1>3, <1>7, <1>10, EntryParsed DEF x, es

LEMMA FinishParsed == IInv /\ Parsed /\ Finish => Parsed'
<1> SUFFICES ASSUME IInv, Parsed, Finish PROVE Parsed'
  OBVIOUS
<1>1. /\ pc = "key" /\ kvs = 0 /\ file \in Seq(Nat) /\ UNCHANGED file /\ pc' = "done" /\ status' = "Valid"
  BY DEF IInv, TypeOK, Finish, Return
<1>2. PICK n \in Nat : \E c \in Seq(Places(file)) : ReadSoFar(c, n) /\ HasHeader(file)
  BY <1>1 DEF Parsed
<1>3. PICK c \in Seq(Places(file)) : ReadSoFar(c, n) /\ HasHeader(file)
  BY <1>2
<1> DEFINE es == EntriesOf(file, c, n)
<1>4. n = file[4] /\ c \in Chains(file, EntryEnds(file), HeaderSize, file[4])
  BY <1>1, <1>3 DEF ReadSoFar
<1>5. es \in Entries(file)
  BY <1>1, <1>3, <1>4, EntriesAre
<1>6. Captured(es, metadata, quant, candidates)
  BY <1>3 DEF ReadSoFar
<1> HIDE DEF es
<1>7. metadata' = MetadataOf(es)
  BY <1>6, ResolvedMetadata DEF Finish
<1>8. es \in Entries(file')
  BY <1>1, <1>5
<1> QED BY <1>1, <1>7, <1>8 DEF Parsed, AcceptsTheFormat, MetadataIsTheFiles

LEMMA ParsedKept == IInv /\ Parsed /\ [Next]_vars => Parsed'
<1> SUFFICES ASSUME IInv, Parsed, [Next]_vars PROVE Parsed'
  OBVIOUS
<1>1. CASE UNCHANGED vars
  <2>1. /\ file' = file /\ pc' = pc /\ pos' = pos /\ kvs' = kvs /\ key' = key /\ type' = type /\ count' = count
        /\ candidates' = candidates /\ quant' = quant /\ metadata' = metadata /\ status' = status
    BY <1>1 DEF vars
  <2> QED BY <2>1 DEF Parsed, ReadSoFar, ReadingAt, AtValue, InElements, AcceptsTheFormat, MetadataIsTheFiles
<1> QED BY <1>1, ReadHeaderParsed, ReadKeyParsed, ReadScalarParsed, ReadStringParsed, ReadArrayParsed,
           ReadElementParsed, EndArrayParsed, FinishParsed DEF Next

(* The reader has read a prefix of the entries, and captured what it tells.*)
THEOREM ReadsAsParsed == Spec => []Parsed
<1>1. Init => Parsed
  BY ParsedInit
<1> QED BY <1>1, ParsedKept, Inductive, PTL DEF Spec

(***************************************************************************)
(* For every set of files and all ceilings: validate accepts a file exactly*)
(* when it has a header and the entries that it declares, wherever its     *)
(* lengths, counts and types go wrong (gguf_reader.cpp:268-413).           *)
(***************************************************************************)
THEOREM TheFormatIsAccepted == Spec => []AcceptsTheFormat
BY ReadsAsParsed, PTL DEF Parsed

(***************************************************************************)
(* What validate returns of an accepted file is what its entries say: the  *)
(* last of repeated keys counts, and the context length is found whichever *)
(* of it and the architecture comes first (gguf_reader.cpp:361-411).       *)
(***************************************************************************)
THEOREM MetadataIsRead == Spec => []MetadataIsTheFiles
BY ReadsAsParsed, PTL DEF Parsed
====
