----------------------------- MODULE SpinProofs -----------------------------
(***************************************************************************)
(* Safety of the sequence lock and of the spin locks with interrupts, for    *)
(* any CPUs and locks and any number of calls.                               *)
(***************************************************************************)
EXTENDS SpinLocks, FiniteSetTheorems, TLAPS

-----------------------------------------------------------------------------
(* Counting *)

\* A part of a finite set has no more elements than the whole.
LEMMA CardPart ==
    ASSUME NEW S, IsFiniteSet(S), NEW T \in SUBSET S
    PROVE  /\ IsFiniteSet(T) /\ Cardinality(T) \in Nat /\ Cardinality(S) \in Nat
           /\ Cardinality(T) <= Cardinality(S)
BY FS_Subset, FS_CardinalityType, Zenon

\* A new element adds one, and the loss of one takes one away.
LEMMA CardChange ==
    ASSUME NEW S, IsFiniteSet(S), NEW T \in SUBSET S, NEW x \in S
    PROVE  /\ x \notin T => Cardinality(T \cup {x}) = Cardinality(T) + 1
           /\ x \in T => Cardinality(T \ {x}) = Cardinality(T) - 1
<1>1. IsFiniteSet(T)
  BY CardPart, Zenon
<1> QED BY <1>1, FS_AddElement, FS_RemoveElement, Zenon

-----------------------------------------------------------------------------
(* The sequence lock *)

Writes(c) == sqPc[c] \in {"put1", "put2", "drop"}

SqTypeOK ==
    /\ seq \in 0 .. 2^SeqBits - 1
    /\ words \in [1 .. 2 -> Nat]
    /\ sqPc \in [CPUs -> {"idle", "load", "copy1", "copy2", "check", "got",
                          "cas", "put1", "put2", "drop"}]
    /\ \A c \in SqReaders : sqPc[c] \in {"idle", "load", "copy1", "copy2", "check", "got"}
    /\ \A c \in SqWriters : sqPc[c] \in {"idle", "cas", "put1", "put2", "drop"}
    /\ sqSeen \in [CPUs -> Nat]
    /\ sqCopy \in [SqReaders -> [1 .. 2 -> Nat]]
    /\ sqVersion \in Nat
    /\ sqFloor \in [SqReaders -> Int]

\* The number is odd while a writer writes, and a writer starts from an even one:
\* also when it wraps.
OddWhileWriting ==
    /\ Odd(seq) <=> \E c \in SqWriters : Writes(c)
    /\ \A c \in SqWriters : sqPc[c] = "cas" => ~Odd(sqSeen[c])

SqExclusive == SqTypeOK /\ OneWriter /\ OddWhileWriting

\* Before it wraps, the number tells how many writes have begun and ended, and the
\* words are those of the last complete write but for what the writer has written.
SeqCountsWrites ==
    /\ seq = IF Odd(seq) THEN 2 * sqVersion - 1 ELSE 2 * sqVersion
    /\ sqVersion <= SqWrites
    /\ ~Odd(seq) => words[1] = sqVersion /\ words[2] = sqVersion
    /\ \A c \in SqWriters :
          /\ sqPc[c] = "cas" => sqSeen[c] < 2 * SqWrites
          /\ sqPc[c] \in {"put2", "drop"} => words[1] = sqVersion
          /\ sqPc[c] = "drop" => words[2] = sqVersion

\* What a reader has copied is of the write s1 names, while the number is still s1.
CopiesMatch ==
    \A c \in SqReaders :
        /\ sqPc[c] = "load" => 2 * sqFloor[c] <= seq
        /\ sqPc[c] \in {"copy1", "copy2", "check"} =>
             ~Odd(sqSeen[c]) /\ 2 * sqFloor[c] <= sqSeen[c] /\ sqSeen[c] <= seq
        /\ sqPc[c] \in {"copy2", "check"} /\ sqSeen[c] = seq => 2 * sqCopy[c][1] = seq
        /\ sqPc[c] = "check" /\ sqSeen[c] = seq => 2 * sqCopy[c][2] = seq

\* What a read returns is of one write that was not over before the read began.
CopiesWhole ==
    \A c \in SqReaders : sqPc[c] = "got" =>
        sqCopy[c][1] = sqCopy[c][2] /\ sqCopy[c][1] >= sqFloor[c]

SqSafe == SqExclusive /\ SeqCountsWrites /\ CopiesMatch /\ CopiesWhole

\* The next number, wrapped or not, has the other parity; and it is not wrapped below
\* the last one.
LEMMA NextSeq ==
    ASSUME NEW n \in 0 .. 2^SeqBits - 1
    PROVE  /\ Wrap(n + 1) \in 0 .. 2^SeqBits - 1
           /\ Odd(Wrap(n + 1)) <=> ~Odd(n)
           /\ n + 1 < 2^SeqBits => Wrap(n + 1) = n + 1
<1> DEFINE M == 2^SeqBits
<1>1. M \in Nat \ {0} /\ M % 2 = 0 /\ n \in 0 .. M - 1 /\ Wrap(n + 1) = (n + 1) % M
  BY SeqLockAssumption, Zenon DEF Wrap
<1> HIDE DEF M
<1>2. CASE n + 1 = M
  <2>1. (n + 1) % M = 0
    BY <1>1, <1>2
  <2>2. n % 2 = 1
    BY <1>1, <1>2
  <2> QED BY <1>1, <1>2, <2>1, <2>2 DEF M, Odd
<1>3. CASE n + 1 < M
  <2>1. (n + 1) % M = n + 1
    BY <1>1, <1>3
  <2>2. (n + 1) % 2 = 1 <=> n % 2 # 1
    BY <1>1
  <2> QED BY <1>1, <1>3, <2>1, <2>2 DEF M, Odd
<1> QED BY <1>1, <1>2, <1>3

\* Every step keeps the types, one writer at most, and the number odd while it writes.
LEMMA SqExclusiveStep == SqExclusive /\ [SqNext]_sqVars => SqExclusive'
<1> SUFFICES ASSUME SqExclusive, [SqNext]_sqVars PROVE SqExclusive'
  BY Zenon
<1> USE SeqLockAssumption DEF SqExclusive, SqTypeOK, CPUs, SqGoto
<1>1. CASE UNCHANGED sqVars
  BY <1>1, Zenon DEF sqVars, OneWriter, OddWhileWriting, Writes
<1>2. ASSUME NEW c \in SqReaders,
             BeginRead(c) \/ LoadSeq(c) \/ CheckSeq(c) \/ EndRead(c)
             \/ \E i \in 1 .. 2 : CopyWord(c, i)
      PROVE  SqExclusive'
  <2>1. /\ UNCHANGED <<seq, words, sqVersion>>
        /\ \E l \in {"idle", "load", "copy1", "copy2", "check", "got"} :
              sqPc' = [sqPc EXCEPT ![c] = l]
    BY <1>2 DEF BeginRead, LoadSeq, CheckSeq, EndRead, CopyWord
  <2>2. sqSeen' \in [CPUs -> Nat] /\ \A d \in SqWriters : sqSeen'[d] = sqSeen[d]
    BY <1>2 DEF BeginRead, LoadSeq, CheckSeq, EndRead, CopyWord
  <2>3. sqFloor' \in [SqReaders -> Int]
    BY <1>2 DEF BeginRead, LoadSeq, CheckSeq, EndRead, CopyWord, Complete
  <2>4. sqCopy' \in [SqReaders -> [1 .. 2 -> Nat]]
    BY <1>2 DEF BeginRead, LoadSeq, CheckSeq, EndRead, CopyWord
  <2>5. \A d \in SqWriters : sqPc'[d] = sqPc[d]
    BY <2>1
  <2> QED BY <2>1, <2>2, <2>3, <2>4, <2>5 DEF OneWriter, OddWhileWriting, Writes
<1>3. ASSUME NEW c \in SqWriters, LoadEven(c) PROVE SqExclusive'
  BY <1>3 DEF LoadEven, OneWriter, OddWhileWriting, Writes
<1>4. ASSUME NEW c \in SqWriters, TakeSeq(c) PROVE SqExclusive'
  <2>1. CASE seq = sqSeen[c]
    <3>1. ~Odd(seq) /\ seq' = Wrap(seq + 1) /\ sqPc' = [sqPc EXCEPT ![c] = "put1"]
      BY <1>4, <2>1, Zenon DEF TakeSeq, OddWhileWriting
    <3>2. seq' \in 0 .. 2^SeqBits - 1 /\ Odd(seq')
      BY <3>1, NextSeq, Zenon
    <3>3. \A d \in SqWriters : ~Writes(d)
      BY <3>1, Zenon DEF OddWhileWriting
    <3>4. SqTypeOK'
      BY <1>4, <2>1, <3>2 DEF TakeSeq
    <3>5. \A d \in SqWriters : sqSeen'[d] = sqSeen[d] \/ d = c
      BY <1>4, Zenon DEF TakeSeq
    <3> QED BY <3>1, <3>2, <3>3, <3>4, <3>5, Zenon DEF OneWriter, OddWhileWriting, Writes
  <2>2. CASE seq # sqSeen[c]
    BY <1>4, <2>2 DEF TakeSeq, OneWriter, OddWhileWriting, Writes
  <2> QED BY <2>1, <2>2, Zenon
<1>5. ASSUME NEW c \in SqWriters, NEW i \in 1 .. 2, PutWord(c, i) PROVE SqExclusive'
  <2>0. i = 1 \/ i = 2
    OBVIOUS
  <2>1. Writes(c) /\ \E l \in {"put2", "drop"} : sqPc' = [sqPc EXCEPT ![c] = l]
    <3>1. CASE i = 1
      BY <1>5, <3>1, Zenon DEF PutWord, Writes
    <3>2. CASE i = 2
      BY <1>5, <3>2, Zenon DEF PutWord, Writes
    <3> QED BY <2>0, <3>1, <3>2, Zenon
  <2>2. words' \in [1 .. 2 -> Nat]
    BY <1>5, Zenon DEF PutWord
  <2>3. SqTypeOK'
    BY <1>5, <2>1, <2>2, Zenon DEF PutWord, Writes
  <2> QED BY <1>5, <2>1, <2>3, ZenonT(30) DEF PutWord, OneWriter, OddWhileWriting, Writes
<1>6. ASSUME NEW c \in SqWriters, SqDropGuard(c) PROVE SqExclusive'
  <2>1. Writes(c) /\ seq' = Wrap(seq + 1) /\ sqPc' = [sqPc EXCEPT ![c] = "idle"]
    BY <1>6, Zenon DEF SqDropGuard, Writes
  <2>2. \A d \in SqWriters : Writes(d) => d = c
    BY <2>1, Zenon DEF OneWriter, Writes
  <2>3. seq' \in 0 .. 2^SeqBits - 1 /\ ~Odd(seq')
    BY <2>1, NextSeq, Zenon DEF OddWhileWriting
  <2>4. SqTypeOK'
    BY <1>6, <2>3, Zenon DEF SqDropGuard
  <2> QED BY <1>6, <2>1, <2>2, <2>3, <2>4, Zenon DEF SqDropGuard, OneWriter, OddWhileWriting, Writes
<1> QED BY <1>1, <1>2, <1>3, <1>4, <1>5, <1>6, Zenon DEF SqNext

\* A new sequence lock is at rest.
LEMMA SqFirst == SqInit => SqSafe
<1> SUFFICES ASSUME SqInit PROVE SqSafe
  BY Zenon
<1> USE SeqLockAssumption DEF SqInit
<1>1. ~Odd(0)
  BY DEF Odd
<1>2. SqTypeOK
  BY DEF SqTypeOK, CPUs
<1>3. OneWriter /\ OddWhileWriting
  BY <1>1, Zenon DEF OneWriter, OddWhileWriting, Writes, CPUs
<1>4. SeqCountsWrites /\ CopiesMatch /\ CopiesWhole
  BY <1>1 DEF SeqCountsWrites, CopiesMatch, CopiesWhole, CPUs
<1> QED BY <1>2, <1>3, <1>4, Zenon DEF SqSafe, SqExclusive

\* Two writers never write at once, also when the number wraps.
THEOREM SeqExcludes == SqSpec => []OneWriter
<1>1. SqInit => SqExclusive
  BY SqFirst, Zenon DEF SqSafe
<1>2. SqExclusive => OneWriter
  BY Zenon DEF SqExclusive
<1> QED BY <1>1, <1>2, SqExclusiveStep, PTL DEF SqSpec

\* Before the number wraps every step keeps it in step with the writes, and the copies
\* of readers with the number.
LEMMA SqSafeStep ==
    ASSUME 2 * SqWrites < 2^SeqBits
    PROVE  SqSafe /\ [SqNext]_sqVars => SqSafe'
<1> SUFFICES ASSUME SqSafe, [SqNext]_sqVars PROVE SqSafe'
  BY Zenon
<1>0. SqExclusive'
  BY SqExclusiveStep, Zenon DEF SqSafe
<1> SUFFICES SeqCountsWrites' /\ CopiesMatch' /\ CopiesWhole'
  BY <1>0, Zenon DEF SqSafe
<1> USE SeqLockAssumption DEF SqSafe, SqExclusive, SqTypeOK, CPUs, SqGoto
<1>e. seq \in Nat /\ (Odd(seq) \/ ~Odd(seq))
  OBVIOUS
<1>1. CASE UNCHANGED sqVars
  BY <1>1, Zenon DEF sqVars, SeqCountsWrites, CopiesMatch, CopiesWhole
<1>2. ASSUME NEW c \in SqReaders,
             BeginRead(c) \/ LoadSeq(c) \/ CheckSeq(c) \/ EndRead(c)
             \/ \E i \in 1 .. 2 : CopyWord(c, i)
      PROVE  SeqCountsWrites' /\ CopiesMatch' /\ CopiesWhole'
  <2>1. /\ UNCHANGED <<seq, words, sqVersion>>
        /\ \A d \in SqWriters : sqPc'[d] = sqPc[d] /\ sqSeen'[d] = sqSeen[d]
    BY <1>2 DEF BeginRead, LoadSeq, CheckSeq, EndRead, CopyWord
  <2>2. SeqCountsWrites'
    BY <2>1, Zenon DEF SeqCountsWrites
  <2>3. \A d \in SqReaders \ {c} : /\ sqPc'[d] = sqPc[d] /\ sqSeen'[d] = sqSeen[d]
                                   /\ sqCopy'[d] = sqCopy[d] /\ sqFloor'[d] = sqFloor[d]
    BY <1>2 DEF BeginRead, LoadSeq, CheckSeq, EndRead, CopyWord
  <2> DEFINE Ok(pcc, seen, copy, floor) ==
        /\ pcc = "load" => 2 * floor <= seq
        /\ pcc \in {"copy1", "copy2", "check"} => ~Odd(seen) /\ 2 * floor <= seen /\ seen <= seq
        /\ pcc \in {"copy2", "check"} /\ seen = seq => 2 * copy[1] = seq
        /\ pcc = "check" /\ seen = seq => 2 * copy[2] = seq
        /\ pcc = "got" => copy[1] = copy[2] /\ copy[1] >= floor
  <2>4. \A d \in SqReaders : Ok(sqPc[d], sqSeen[d], sqCopy[d], sqFloor[d])
    BY Zenon DEF CopiesMatch, CopiesWhole
  <2>5. Ok(sqPc'[c], sqSeen'[c], sqCopy'[c], sqFloor'[c])
    <3>1. CASE BeginRead(c)
      <4>1. sqPc'[c] = "load" /\ sqFloor'[c] = Complete
        BY <3>1, Zenon DEF BeginRead
      <4>2. 2 * Complete <= seq
        BY DEF Complete, SeqCountsWrites
      <4> QED BY <4>1, <4>2, Zenon
    <3>2. CASE LoadSeq(c)
      BY <2>4, <3>2 DEF LoadSeq
    <3>3. CASE CopyWord(c, 1)
      <4>1. /\ sqPc[c] = "copy1" /\ sqPc'[c] = "copy2" /\ sqCopy'[c][1] = words[1]
            /\ sqSeen'[c] = sqSeen[c] /\ sqFloor'[c] = sqFloor[c]
        BY <3>3 DEF CopyWord
      <4>2. sqSeen[c] = seq => 2 * words[1] = seq
        BY <2>4, <4>1, ZenonT(30) DEF SeqCountsWrites
      <4> QED BY <2>4, <4>1, <4>2, Zenon
    <3>4. CASE CopyWord(c, 2)
      <4>1. /\ sqPc[c] = "copy2" /\ sqPc'[c] = "check" /\ sqCopy'[c][2] = words[2]
            /\ sqSeen'[c] = sqSeen[c] /\ sqFloor'[c] = sqFloor[c] /\ sqCopy'[c][1] = sqCopy[c][1]
        BY <3>4 DEF CopyWord
      <4>2. sqSeen[c] = seq => 2 * words[2] = seq
        BY <2>4, <4>1, ZenonT(30) DEF SeqCountsWrites
      <4> QED BY <2>4, <4>1, <4>2, Zenon
    <3>5. CASE CheckSeq(c)
      <4>1. /\ sqPc[c] = "check" /\ sqPc'[c] = IF seq = sqSeen[c] THEN "got" ELSE "load"
            /\ sqSeen'[c] = sqSeen[c] /\ sqFloor'[c] = sqFloor[c] /\ sqCopy'[c] = sqCopy[c]
        BY <3>5, Zenon DEF CheckSeq
      <4>2. sqCopy[c][1] \in Nat /\ sqCopy[c][2] \in Nat /\ sqFloor[c] \in Int /\ sqSeen[c] \in Nat
        OBVIOUS
      <4>3. CASE seq # sqSeen[c]
        BY <2>4, <4>1, <4>2, <4>3
      <4>4. CASE seq = sqSeen[c]
        <5>1. 2 * sqCopy[c][1] = seq /\ 2 * sqCopy[c][2] = seq /\ 2 * sqFloor[c] <= seq
          BY <4>1, <4>4, Zenon DEF CopiesMatch
        <5> HIDE SeqLockAssumption DEF SqSafe, SqExclusive, SqTypeOK, CPUs
        <5>2. sqCopy[c][1] = sqCopy[c][2] /\ sqCopy[c][1] >= sqFloor[c]
          BY <1>e, <4>2, <5>1
        <5> QED BY <4>1, <4>4, <5>2, Zenon
      <4> QED BY <4>3, <4>4, Zenon
    <3>6. CASE EndRead(c)
      BY <3>6, Zenon DEF EndRead
    <3>7. \A i \in 1 .. 2 : i = 1 \/ i = 2
      OBVIOUS
    <3> QED BY <1>2, <3>1, <3>2, <3>3, <3>4, <3>5, <3>6, <3>7, Zenon
  <2>6. \A d \in SqReaders : Ok(sqPc'[d], sqSeen'[d], sqCopy'[d], sqFloor'[d])
    BY <2>3, <2>4, <2>5
  <2> QED BY <2>1, <2>2, <2>6, Zenon DEF CopiesMatch, CopiesWhole
<1>3. ASSUME NEW c \in SqWriters, LoadEven(c)
      PROVE  SeqCountsWrites' /\ CopiesMatch' /\ CopiesWhole'
  <2>1. /\ UNCHANGED <<seq, words, sqVersion, sqCopy, sqFloor>> /\ ~Odd(seq)
        /\ sqVersion < SqWrites /\ sqPc'[c] = "cas" /\ sqSeen'[c] = seq
        /\ \A d \in CPUs \ {c} : sqPc'[d] = sqPc[d] /\ sqSeen'[d] = sqSeen[d]
    BY <1>3, Zenon DEF LoadEven
  <2> QED BY <2>1 DEF SeqCountsWrites, CopiesMatch, CopiesWhole
<1>4. ASSUME NEW c \in SqWriters, TakeSeq(c)
      PROVE  SeqCountsWrites' /\ CopiesMatch' /\ CopiesWhole'
  <2>0. /\ UNCHANGED <<words, sqCopy, sqFloor>>
        /\ \A d \in CPUs \ {c} : sqPc'[d] = sqPc[d] /\ sqSeen'[d] = sqSeen[d]
    BY <1>4, Zenon DEF TakeSeq
  <2>1. CASE seq = sqSeen[c]
    <3>1. /\ ~Odd(seq) /\ seq < 2 * SqWrites /\ seq' = Wrap(seq + 1)
          /\ sqVersion' = sqVersion + 1 /\ sqPc'[c] = "put1"
      BY <1>4, <2>1 DEF TakeSeq, OddWhileWriting, SeqCountsWrites
    <3>2. seq' = seq + 1 /\ Odd(seq')
      BY <3>1, NextSeq
    <3>3. seq = 2 * sqVersion
      BY <3>1, Zenon DEF SeqCountsWrites
    <3>4. \A d \in SqWriters : ~Writes(d)
      BY <3>1, Zenon DEF OddWhileWriting
    <3>7. seq' = 2 * sqVersion' - 1 /\ sqVersion' <= SqWrites
      BY <3>1, <3>2, <3>3, SMTT(30)
    <3>8. \A d \in SqWriters : sqPc'[d] \notin {"put2", "drop"}
      BY <2>0, <3>1, <3>4, Zenon DEF Writes
    <3>9. \A d \in SqWriters : sqPc'[d] = "cas" => sqSeen'[d] < 2 * SqWrites
      BY <2>0, <3>1, Zenon DEF SeqCountsWrites
    <3>5. SeqCountsWrites'
      BY <3>2, <3>7, <3>8, <3>9, Zenon DEF SeqCountsWrites
    <3>6. CopiesMatch' /\ CopiesWhole'
      BY <2>0, <3>2 DEF CopiesMatch, CopiesWhole
    <3> QED BY <3>5, <3>6, Zenon
  <2>2. CASE seq # sqSeen[c]
    <3>1. UNCHANGED <<seq, sqVersion>> /\ sqPc'[c] = "idle"
      BY <1>4, <2>2, Zenon DEF TakeSeq
    <3> QED BY <2>0, <3>1 DEF SeqCountsWrites, CopiesMatch, CopiesWhole
  <2> QED BY <2>1, <2>2, Zenon
<1>5. ASSUME NEW c \in SqWriters, NEW i \in 1 .. 2, PutWord(c, i)
      PROVE  SeqCountsWrites' /\ CopiesMatch' /\ CopiesWhole'
  <2>1. /\ UNCHANGED <<seq, sqSeen, sqVersion, sqCopy, sqFloor>> /\ Writes(c)
        /\ words' = [words EXCEPT ![i] = sqVersion]
        /\ \/ i = 1 /\ sqPc[c] = "put1" /\ sqPc'[c] = "put2"
           \/ i = 2 /\ sqPc[c] = "put2" /\ sqPc'[c] = "drop"
        /\ \A d \in CPUs \ {c} : sqPc'[d] = sqPc[d]
    BY <1>5 DEF PutWord, Writes
  <2>2. Odd(seq) /\ \A d \in SqWriters : Writes(d) => d = c
    BY <2>1, Zenon DEF OddWhileWriting, OneWriter, Writes
  <2>3. words'[i] = sqVersion /\ (i = 2 => words'[1] = words[1])
    BY <2>1
  <2>4. SeqCountsWrites'
    BY <2>1, <2>2, <2>3, Zenon DEF SeqCountsWrites, Writes
  <2>5. CopiesMatch' /\ CopiesWhole'
    BY <2>1, Zenon DEF CopiesMatch, CopiesWhole
  <2> QED BY <2>4, <2>5, Zenon
<1>6. ASSUME NEW c \in SqWriters, SqDropGuard(c)
      PROVE  SeqCountsWrites' /\ CopiesMatch' /\ CopiesWhole'
  <2>1. /\ UNCHANGED <<words, sqSeen, sqVersion, sqCopy, sqFloor>> /\ Writes(c)
        /\ sqPc[c] = "drop" /\ seq' = Wrap(seq + 1) /\ sqPc'[c] = "idle"
        /\ \A d \in CPUs \ {c} : sqPc'[d] = sqPc[d]
    BY <1>6, Zenon DEF SqDropGuard, Writes
  <2>2. Odd(seq) /\ \A d \in SqWriters : Writes(d) => d = c
    BY <2>1, Zenon DEF OddWhileWriting, OneWriter, Writes
  <2>3. seq = 2 * sqVersion - 1 /\ sqVersion <= SqWrites
    BY <2>2, Zenon DEF SeqCountsWrites
  <2>4. seq' = seq + 1 /\ ~Odd(seq')
    BY <2>1, <2>2, <2>3, NextSeq
  <2>7. words[1] = sqVersion /\ words[2] = sqVersion /\ seq' = 2 * sqVersion
    BY <2>1, <2>3, <2>4, SMTT(30) DEF SeqCountsWrites
  <2>8. \A d \in SqWriters : sqPc'[d] \notin {"put2", "drop"}
    BY <2>1, <2>2, Zenon DEF Writes
  <2>9. \A d \in SqWriters : sqPc'[d] = "cas" => sqSeen'[d] < 2 * SqWrites
    BY <2>1, Zenon DEF SeqCountsWrites
  <2>5. SeqCountsWrites'
    BY <2>1, <2>3, <2>4, <2>7, <2>8, <2>9, Zenon DEF SeqCountsWrites
  <2>6. CopiesMatch' /\ CopiesWhole'
    BY <2>1, <2>4 DEF CopiesMatch, CopiesWhole
  <2> QED BY <2>5, <2>6, Zenon
<1> QED BY <1>1, <1>2, <1>3, <1>4, <1>5, <1>6, Zenon DEF SqNext

\* A read of a SeqLock returns the words of one write, not older than the last one
\* complete when it began, for any number of readers and writers that the sequence
\* number has room for.
THEOREM SnapshotsRead ==
    ASSUME 2 * SqWrites < 2^SeqBits
    PROVE  SqSpec => []ReadsAreSnapshots
<1>1. SqSafe => ReadsAreSnapshots
  BY Zenon DEF SqSafe, SqExclusive, CopiesWhole, ReadsAreSnapshots
<1>2. SqSafe /\ [SqNext]_sqVars => SqSafe'
  BY SqSafeStep, Zenon
<1> QED BY <1>1, <1>2, SqFirst, PTL DEF SqSpec

-----------------------------------------------------------------------------
(* Spin locks and interrupts *)

Guards == [lock : AllLocks, saved : BOOLEAN]

IqTypeOK ==
    /\ iqOwner \in [AllLocks -> Contexts \cup {IqFree}]
    /\ iqGuards \in [Contexts -> Seq(Guards)]
    /\ iqWant \in [Contexts -> Guards \cup {None}]
    /\ iqDrop \in [Contexts -> Guards \cup {None}]
    /\ iqFlag \in [IqCpus -> BOOLEAN]
    /\ iqIn \in SUBSET IqCpus
    /\ iqDepth \in [IqCpus -> Int]

\* The positions of IrqSpinLock guards among guards, and among those of a context.
IrqsOf(q) == { i \in 1 .. Len(q) : q[i].lock \in IqLocks }
IrqGuards(x) == IrqsOf(iqGuards[x])

Masked(x) ==
    IrqGuards(x) # {} \/ iqWant[x].lock \in IqLocks \/ iqDrop[x].lock \in IqLocks

\* Who owns a lock has a guard for it.
OwnersGuard ==
    \A l \in AllLocks : iqOwner[l] # IqFree =>
        \E i \in 1 .. Len(iqGuards[iqOwner[l]]) : iqGuards[iqOwner[l]][i].lock = l

\* Flags with interrupts enabled are saved by the outermost IrqSpinLock guard of base
\* code and by nothing else; and a context is in one call at a time.
SavesRight(x) ==
    /\ iqWant[x] = None \/ iqDrop[x] = None
    /\ \A i \in 1 .. Len(iqGuards[x]) :
          iqGuards[x][i].saved <=>
              /\ x[2] = "base" /\ i \in IrqGuards(x)
              /\ \A j \in IrqGuards(x) : i <= j
    /\ iqWant[x].saved <=> (x[2] = "base" /\ iqWant[x].lock \in IqLocks /\ IrqGuards(x) = {})
    /\ iqDrop[x].saved <=> (x[2] = "base" /\ iqDrop[x].lock \in IqLocks /\ IrqGuards(x) = {})

OutermostSaves == \A x \in Contexts : SavesRight(x)

\* A handler runs over base code that is in no IrqSpinLock, and base code has
\* interrupts enabled exactly when it is in none.
FlagTells ==
    \A c \in IqCpus :
        IF c \in iqIn
          THEN ~iqFlag[c] /\ ~Masked(<<c, "base">>)
          ELSE /\ iqFlag[c] <=> ~Masked(<<c, "base">>)
               /\ iqGuards[<<c, "irq">>] = << >>
               /\ iqWant[<<c, "irq">>] = None /\ iqDrop[<<c, "irq">>] = None

\* A guard whose drop is under way still counts.
DepthOf(x) ==
    Cardinality(IrqGuards(x)) + (IF iqDrop[x].lock \in IqLocks THEN 1 ELSE 0)

DepthCounts ==
    \A c \in IqCpus : iqDepth[c] = DepthOf(<<c, "base">>) + DepthOf(<<c, "irq">>)

IqSafe == IqTypeOK /\ OwnersGuard /\ OutermostSaves /\ FlagTells /\ DepthCounts

\* A sequence without its last element.
LEMMA FrontIsSeq ==
    ASSUME NEW S, NEW q \in Seq(S), q # << >>
    PROVE  /\ SubSeq(q, 1, Len(q) - 1) \in Seq(S) /\ Len(q) \in Nat \ {0}
           /\ Len(SubSeq(q, 1, Len(q) - 1)) = Len(q) - 1
           /\ \A i \in 1 .. Len(q) - 1 : SubSeq(q, 1, Len(q) - 1)[i] = q[i]
<1>1. Len(q) \in Nat \ {0} /\ \A i \in 1 .. Len(q) - 1 : q[i] \in S
  OBVIOUS
<1>2. SubSeq(q, 1, Len(q) - 1) \in Seq(S)
  BY <1>1
<1>3. Len(SubSeq(q, 1, Len(q) - 1)) = Len(q) - 1
  <2> DEFINE n == Len(q) - 1
  <2>1. n \in Nat /\ n < Len(q)
    BY <1>1
  <2> HIDE DEF n
  <2>2. Len(SubSeq(q, 1, n)) = n
    BY <1>1, <2>1
  <2> QED BY <2>2, Zenon DEF n
<1>4. \A i \in 1 .. Len(q) - 1 : SubSeq(q, 1, Len(q) - 1)[i] = q[i]
  BY <1>1
<1> QED BY <1>1, <1>2, <1>3, <1>4, Zenon

\* The positions are finitely many.
LEMMA IrqsCount ==
    ASSUME NEW q \in Seq(Guards)
    PROVE  /\ IsFiniteSet(IrqsOf(q)) /\ Cardinality(IrqsOf(q)) \in Nat
           /\ IrqsOf(q) \in SUBSET (1 .. Len(q))
<1>1. IsFiniteSet(1 .. Len(q))
  BY FS_Interval
<1>2. IrqsOf(q) \in SUBSET (1 .. Len(q))
  BY Zenon DEF IrqsOf
<1> QED BY <1>1, <1>2, CardPart, Zenon

\* A guard taken or dropped changes the positions of IrqSpinLock guards by its own.
LEMMA IrqsChange ==
    ASSUME NEW q \in Seq(Guards), NEW g \in Guards
    PROVE  /\ IrqsOf(Append(q, g)) = IrqsOf(q) \cup (IF g.lock \in IqLocks THEN {Len(q) + 1} ELSE {})
           /\ g.lock \in IqLocks =>
                Cardinality(IrqsOf(Append(q, g))) = Cardinality(IrqsOf(q)) + 1
<1>2. IrqsOf(q) \in SUBSET (1 .. Len(q))
  BY IrqsCount, Zenon
<1>3. IsFiniteSet(IrqsOf(q)) /\ Cardinality(IrqsOf(q)) \in Nat
  BY IrqsCount, Zenon
<1> DEFINE r == Append(q, g)
<1>4. /\ Len(r) = Len(q) + 1 /\ r[Len(q) + 1] = g
      /\ \A i \in 1 .. Len(q) : r[i] = q[i]
  OBVIOUS
<1> HIDE DEF r
<1>5. IrqsOf(r) = IrqsOf(q) \cup (IF g.lock \in IqLocks THEN {Len(q) + 1} ELSE {})
  BY <1>4 DEF IrqsOf
<1>6. Len(q) + 1 \notin IrqsOf(q)
  BY <1>2
<1>7. g.lock \in IqLocks => Cardinality(IrqsOf(r)) = Cardinality(IrqsOf(q)) + 1
  BY <1>3, <1>5, <1>6, FS_AddElement, ZenonT(30)
<1> QED BY <1>5, <1>7, Zenon DEF r

\* The same of the drop of the innermost guard.
LEMMA IrqsDrop ==
    ASSUME NEW q \in Seq(Guards), q # << >>, NEW r, r = SubSeq(q, 1, Len(q) - 1)
    PROVE  /\ r \in Seq(Guards) /\ Len(r) = Len(q) - 1 /\ Len(q) \in Nat \ {0}
           /\ \A i \in 1 .. Len(r) : r[i] = q[i]
           /\ IrqsOf(r) = IrqsOf(q) \ {Len(q)}
           /\ q[Len(q)].lock \in IqLocks =>
                Len(q) \in IrqsOf(q) /\ Cardinality(IrqsOf(r)) = Cardinality(IrqsOf(q)) - 1
           /\ q[Len(q)].lock \notin IqLocks => IrqsOf(r) = IrqsOf(q)
<1>1. /\ r \in Seq(Guards) /\ Len(r) = Len(q) - 1 /\ Len(q) \in Nat \ {0}
      /\ \A i \in 1 .. Len(r) : r[i] = q[i]
  BY FrontIsSeq, Zenon
<1>2. IrqsOf(r) = IrqsOf(q) \ {Len(q)}
  BY <1>1 DEF IrqsOf
<1>3. IsFiniteSet(1 .. Len(q)) /\ IrqsOf(q) \in SUBSET (1 .. Len(q)) /\ Len(q) \in 1 .. Len(q)
  BY <1>1, FS_Interval, SMTT(30) DEF IrqsOf
<1>4. q[Len(q)].lock \in IqLocks <=> Len(q) \in IrqsOf(q)
  BY <1>1 DEF IrqsOf
<1>5. q[Len(q)].lock \in IqLocks => Cardinality(IrqsOf(r)) = Cardinality(IrqsOf(q)) - 1
  BY <1>2, <1>3, <1>4, CardChange
<1> QED BY <1>1, <1>2, <1>4, <1>5, Zenon

\* A step of one context leaves what concerns the others alone: it is enough to look at
\* its own guards, flag and depth.
LEMMA OthersStay ==
    ASSUME IqSafe, NEW x \in Contexts, Runs(x), iqIn' = iqIn,
           \A y \in Contexts \ {x} : /\ iqGuards'[y] = iqGuards[y]
                                     /\ iqWant'[y] = iqWant[y] /\ iqDrop'[y] = iqDrop[y],
           \A d \in IqCpus \ {x[1]} : iqFlag'[d] = iqFlag[d] /\ iqDepth'[d] = iqDepth[d],
           SavesRight(x)',
           iqFlag'[x[1]] <=> (x[2] = "base" /\ ~Masked(x)'),
           NEW n \in Int, DepthOf(x)' = DepthOf(x) + n, iqDepth'[x[1]] = iqDepth[x[1]] + n
    PROVE  OutermostSaves' /\ FlagTells' /\ DepthCounts'
<1>1. \A y \in Contexts \ {x} :
         /\ SavesRight(y)' <=> SavesRight(y)
         /\ Masked(y)' <=> Masked(y)
         /\ DepthOf(y)' = DepthOf(y)
  BY DEF SavesRight, Masked, DepthOf, IrqGuards
<1>2. OutermostSaves'
  BY <1>1, Zenon DEF OutermostSaves, IqSafe
<1>3. PICK c \in IqCpus, k \in {"base", "irq"} : x = <<c, k>>
  BY DEF Contexts
<1>4. x[1] = c /\ x[2] = k /\ (k = "irq" <=> c \in iqIn)
  BY <1>3, Zenon DEF Runs, Cpu
<1>5. \A d \in IqCpus : \A m \in {"base", "irq"} :
         <<d, m>> \in Contexts /\ (<<d, m>> # x <=> d # c \/ m # k)
  BY <1>3, Zenon DEF Contexts
<1>6. ASSUME NEW d \in IqCpus, d # c
      PROVE  /\ iqFlag'[d] = iqFlag[d] /\ iqDepth'[d] = iqDepth[d]
             /\ \A m \in {"base", "irq"} : <<d, m>> \in Contexts \ {x}
  BY <1>4, <1>5, <1>6, Zenon
<1>7. FlagTells'
  <2>1. ASSUME NEW d \in IqCpus, d # c
        PROVE  IF d \in iqIn'
                 THEN ~iqFlag'[d] /\ ~Masked(<<d, "base">>)'
                 ELSE /\ iqFlag'[d] <=> ~Masked(<<d, "base">>)'
                      /\ iqGuards'[<<d, "irq">>] = << >>
                      /\ iqWant'[<<d, "irq">>] = None /\ iqDrop'[<<d, "irq">>] = None
    BY <1>1, <1>6, <2>1 DEF FlagTells, IqSafe
  <2>2. CASE k = "base"
    <3>1. x = <<c, "base">> /\ <<c, "irq">> \in Contexts \ {x} /\ c \notin iqIn
      BY <1>3, <1>4, <1>5, <2>2, Zenon
    <3>2. /\ iqGuards'[<<c, "irq">>] = << >>
          /\ iqWant'[<<c, "irq">>] = None /\ iqDrop'[<<c, "irq">>] = None
      BY <3>1 DEF FlagTells, IqSafe
    <3>3. iqFlag'[c] <=> ~Masked(<<c, "base">>)'
      BY <1>4, <2>2, <3>1, Zenon
    <3>4. IF c \in iqIn'
            THEN ~iqFlag'[c] /\ ~Masked(<<c, "base">>)'
            ELSE /\ iqFlag'[c] <=> ~Masked(<<c, "base">>)'
                 /\ iqGuards'[<<c, "irq">>] = << >>
                 /\ iqWant'[<<c, "irq">>] = None /\ iqDrop'[<<c, "irq">>] = None
      BY <1>1, <3>1, <3>2, <3>3, Zenon
    <3> QED BY <2>1, <3>4, ZenonT(30) DEF FlagTells
  <2>3. CASE k = "irq"
    <3>1. <<c, "base">> \in Contexts \ {x} /\ c \in iqIn
      BY <1>3, <1>4, <1>5, <2>3, Zenon
    <3>2. ~Masked(<<c, "base">>)'
      BY <1>1, <3>1, Zenon DEF FlagTells, IqSafe
    <3>3. ~iqFlag'[c]
      BY <1>4, <2>3, Zenon
    <3> QED BY <2>1, <3>1, <3>2, <3>3, Zenon DEF FlagTells
  <2> QED BY <2>2, <2>3, Zenon
<1>8. DepthCounts'
  <2>0. \A d \in IqCpus : \A m \in {"base", "irq"} : DepthOf(<<d, m>>) \in Int
    <3> SUFFICES ASSUME NEW d \in IqCpus, NEW m \in {"base", "irq"}
                 PROVE  DepthOf(<<d, m>>) \in Int
      BY Zenon
    <3>1. iqGuards[<<d, m>>] \in Seq(Guards)
      BY <1>5, Zenon DEF IqSafe, IqTypeOK
    <3>2. Cardinality(IrqGuards(<<d, m>>)) \in Nat
      BY <3>1, IrqsCount, Zenon DEF IrqGuards
    <3> QED BY <3>2 DEF DepthOf
  <2>1. ASSUME NEW d \in IqCpus, d # c
        PROVE  iqDepth'[d] = DepthOf(<<d, "base">>)' + DepthOf(<<d, "irq">>)'
    BY <1>1, <1>6, <2>1 DEF DepthCounts, IqSafe
  <2>2. iqDepth'[c] = DepthOf(<<c, "base">>)' + DepthOf(<<c, "irq">>)'
    <3>1. iqDepth[c] = DepthOf(<<c, "base">>) + DepthOf(<<c, "irq">>)
      BY Zenon DEF DepthCounts, IqSafe
    <3>2. CASE k = "base"
      <4>1. DepthOf(<<c, "base">>)' = DepthOf(<<c, "base">>) + n
        BY <1>3, <3>2, Zenon
      <4>2. DepthOf(<<c, "irq">>)' = DepthOf(<<c, "irq">>)
        BY <1>1, <1>5, <3>2, Zenon
      <4> QED BY <1>4, <2>0, <3>1, <4>1, <4>2
    <3>3. CASE k = "irq"
      <4>1. DepthOf(<<c, "irq">>)' = DepthOf(<<c, "irq">>) + n
        BY <1>3, <3>3, Zenon
      <4>2. DepthOf(<<c, "base">>)' = DepthOf(<<c, "base">>)
        BY <1>1, <1>5, <3>3, Zenon
      <4> QED BY <1>4, <2>0, <3>1, <4>1, <4>2
    <3> QED BY <3>2, <3>3, Zenon
  <2> QED BY <2>1, <2>2, Zenon DEF DepthCounts
<1> QED BY <1>2, <1>7, <1>8, ZenonT(30)

\* The interrupt flag of the CPU that runs a context.
LEMMA RunFlag ==
    ASSUME IqSafe, NEW x \in Contexts, Runs(x)
    PROVE  /\ x[1] \in IqCpus /\ x # IqFree /\ x[2] \in {"base", "irq"}
           /\ iqFlag[x[1]] <=> (x[2] = "base" /\ ~Masked(x))
           /\ None.lock \notin AllLocks /\ None.saved = FALSE /\ None \notin Guards
<1>1. PICK c \in IqCpus, k \in {"base", "irq"} : x = <<c, k>>
  BY DEF Contexts
<1>2. x[1] = c /\ x[2] = k /\ (k = "irq" <=> c \in iqIn) /\ x # IqFree
  BY <1>1, Zenon DEF Runs, Cpu, IqFree
<1>3. iqFlag[c] <=> (k = "base" /\ ~Masked(x))
  BY <1>1, <1>2, Zenon DEF FlagTells, IqSafe
<1>4. None.lock \notin AllLocks /\ None.saved = FALSE /\ None \notin Guards
  BY IrqLockAssumption, Zenon DEF None, AllLocks, Guards
<1> QED BY <1>1, <1>2, <1>3, <1>4, Zenon

\* lock() masks interrupts before it spins, and saves the flag it found.
LEMMA LockKeeps ==
    ASSUME IqSafe, NEW x \in Contexts, NEW l \in AllLocks, IrqLock(x, l) \/ LockPlain(x, l)
    PROVE  IqSafe'
<1> DEFINE g == iqWant'[x]
<1>1. /\ Runs(x) /\ iqWant[x] = None /\ iqDrop[x] = None
      /\ UNCHANGED <<iqOwner, iqGuards, iqIn, iqDepth, iqDrop>>
  BY Zenon DEF IrqLock, LockPlain, MayTake
<1>2. /\ x[1] \in IqCpus
      /\ iqFlag[x[1]] <=> (x[2] = "base" /\ ~Masked(x))
      /\ None.lock \notin AllLocks /\ None.saved = FALSE
  BY <1>1, RunFlag, Zenon
<1>3. /\ iqWant' \in [Contexts -> Guards \cup {None}] /\ g.lock = l
      /\ \A y \in Contexts \ {x} : iqWant'[y] = iqWant[y]
      /\ iqFlag' \in [IqCpus -> BOOLEAN]
      /\ \A d \in IqCpus \ {x[1]} : iqFlag'[d] = iqFlag[d]
      /\ \/ l \in IqLocks /\ g.saved = iqFlag[x[1]] /\ iqFlag'[x[1]] = FALSE
         \/ l \notin IqLocks /\ g.saved = FALSE /\ iqFlag' = iqFlag
  <2>1. [lock |-> l, saved |-> FALSE] \in Guards /\ [lock |-> l, saved |-> iqFlag[x[1]]] \in Guards
    BY <1>2, Zenon DEF IqSafe, IqTypeOK, Guards
  <2>2. CASE IrqLock(x, l)
    BY <1>2, <2>1, <2>2, Zenon DEF IrqLock, IqSafe, IqTypeOK, Cpu
  <2>3. CASE LockPlain(x, l)
    <3>1. l \notin IqLocks
      BY <2>3, IrqLockAssumption, ZenonT(30) DEF LockPlain
    <3> QED BY <1>2, <2>1, <2>3, <3>1, Zenon DEF LockPlain, IqSafe, IqTypeOK
  <2> QED BY <2>2, <2>3, Zenon
<1>4. IqTypeOK' /\ OwnersGuard'
  BY <1>1, <1>3 DEF IqSafe, IqTypeOK, OwnersGuard
<1>5. Masked(x) <=> IrqGuards(x) # {}
  BY <1>1, <1>2, Zenon DEF Masked, AllLocks
<1>6. IrqGuards(x)' = IrqGuards(x)
  BY <1>1, Zenon DEF IrqGuards
<1>7. SavesRight(x)'
  <2>1. SavesRight(x)
    BY Zenon DEF IqSafe, OutermostSaves
  <2>2. g.saved <=> (x[2] = "base" /\ g.lock \in IqLocks /\ IrqGuards(x) = {})
    BY <1>2, <1>3, <1>5, Zenon
  <2> QED BY <1>1, <1>6, <2>1, <2>2, ZenonT(30) DEF SavesRight
<1>8. iqFlag'[x[1]] <=> (x[2] = "base" /\ ~Masked(x)')
  <2>1. Masked(x)' <=> IrqGuards(x) # {} \/ l \in IqLocks
    BY <1>1, <1>2, <1>3, <1>6, ZenonT(30) DEF Masked, AllLocks
  <2> QED BY <1>2, <1>3, <1>5, <2>1, Zenon
<1>9. DepthOf(x)' = DepthOf(x) + 0 /\ iqDepth'[x[1]] = iqDepth[x[1]] + 0
  <2>1. iqGuards[x] \in Seq(Guards) /\ iqDepth[x[1]] \in Int
    BY <1>2, Zenon DEF IqSafe, IqTypeOK
  <2>2. Cardinality(IrqGuards(x)) \in Nat
    BY <2>1, IrqsCount, Zenon DEF IrqGuards
  <2> QED BY <1>1, <1>6, <2>1, <2>2 DEF DepthOf
<1>10. OutermostSaves' /\ FlagTells' /\ DepthCounts'
  <2>1. /\ \A y \in Contexts \ {x} : /\ iqGuards'[y] = iqGuards[y]
                                     /\ iqWant'[y] = iqWant[y] /\ iqDrop'[y] = iqDrop[y]
        /\ \A d \in IqCpus \ {x[1]} : iqFlag'[d] = iqFlag[d] /\ iqDepth'[d] = iqDepth[d]
    BY <1>1, <1>3, ZenonT(30)
  <2>2. 0 \in Int /\ Runs(x) /\ iqIn' = iqIn
    BY <1>1
  <2> QED BY <1>7, <1>8, <1>9, <2>1, <2>2, OthersStay, Zenon
<1> QED BY <1>4, <1>10, Zenon DEF IqSafe

\* A guard is made, by lock() when its spin ends or by try_lock().
LEMMA GuardMade ==
    ASSUME IqSafe, NEW x \in Contexts, Runs(x), NEW g \in Guards, iqIn' = iqIn,
           iqOwner' = [iqOwner EXCEPT ![g.lock] = x],
           iqGuards' = [iqGuards EXCEPT ![x] = Append(@, g)],
           iqWant' \in [Contexts -> Guards \cup {None}], iqWant'[x] = None,
           \A y \in Contexts \ {x} : iqWant'[y] = iqWant[y],
           iqDrop[x] = None, iqDrop' = iqDrop,
           g.saved <=> (x[2] = "base" /\ g.lock \in IqLocks /\ IrqGuards(x) = {}),
           iqFlag' \in [IqCpus -> BOOLEAN],
           \A d \in IqCpus \ {x[1]} : iqFlag'[d] = iqFlag[d],
           iqFlag'[x[1]] <=> (x[2] = "base" /\ g.lock \notin IqLocks /\ IrqGuards(x) = {}),
           iqDepth' = [iqDepth EXCEPT ![x[1]] = IF g.lock \in IqLocks THEN @ + 1 ELSE @]
    PROVE  IqSafe'
<1> DEFINE q == iqGuards[x]
           r == iqGuards'[x]
           k == IF g.lock \in IqLocks THEN 1 ELSE 0
<1>1. /\ x[1] \in IqCpus /\ x # IqFree
      /\ None.lock \notin IqLocks /\ None.saved = FALSE
  BY RunFlag, Zenon DEF AllLocks
<1>2. q \in Seq(Guards) /\ g.lock \in AllLocks
  BY Zenon DEF IqSafe, IqTypeOK, Guards
<1>3. r = Append(q, g) /\ \A y \in Contexts \ {x} : iqGuards'[y] = iqGuards[y]
  BY Zenon DEF IqSafe, IqTypeOK
<1>4. /\ r \in Seq(Guards) /\ Len(q) \in Nat /\ Len(r) = Len(q) + 1 /\ r[Len(q) + 1] = g
      /\ \A i \in 1 .. Len(q) : r[i] = q[i]
  BY <1>2, <1>3
<1>5. /\ IrqGuards(x)' = IrqGuards(x) \cup (IF g.lock \in IqLocks THEN {Len(q) + 1} ELSE {})
      /\ IrqGuards(x) \in SUBSET (1 .. Len(q))
      /\ Cardinality(IrqGuards(x)) \in Nat
      /\ Cardinality(IrqGuards(x)') = Cardinality(IrqGuards(x)) + k
  <2>1. Cardinality(IrqsOf(q)) \in Nat /\ IrqsOf(q) \in SUBSET (1 .. Len(q))
    BY <1>2, IrqsCount, Zenon
  <2>2. /\ IrqsOf(r) = IrqsOf(q) \cup (IF g.lock \in IqLocks THEN {Len(q) + 1} ELSE {})
        /\ g.lock \in IqLocks => Cardinality(IrqsOf(r)) = Cardinality(IrqsOf(q)) + 1
    BY <1>2, <1>3, IrqsChange, ZenonT(30)
  <2>3. g.lock \notin IqLocks => IrqsOf(r) = IrqsOf(q)
    BY <2>2, Zenon
  <2> HIDE DEF q, r
  <2>4. Cardinality(IrqsOf(r)) = Cardinality(IrqsOf(q)) + k
    <3>1. CASE g.lock \in IqLocks
      BY <2>2, <3>1, Zenon
    <3>2. CASE g.lock \notin IqLocks
      <4>1. k = 0 /\ IrqsOf(r) = IrqsOf(q)
        BY <2>3, <3>2, Zenon
      <4> QED BY <2>1, <4>1
    <3> QED BY <3>1, <3>2, Zenon
  <2> QED BY <2>1, <2>2, <2>4, Zenon DEF IrqGuards, q, r
<1>6. IqTypeOK'
  <2>1. iqOwner' \in [AllLocks -> Contexts \cup {IqFree}]
    BY Zenon DEF IqSafe, IqTypeOK
  <2>2. iqGuards' \in [Contexts -> Seq(Guards)]
    BY <1>2, <1>3, <1>4, Zenon DEF IqSafe, IqTypeOK
  <2>3. iqDepth' \in [IqCpus -> Int]
    <3>1. iqDepth \in [IqCpus -> Int]
      BY Zenon DEF IqSafe, IqTypeOK
    <3>2. (IF g.lock \in IqLocks THEN iqDepth[x[1]] + 1 ELSE iqDepth[x[1]]) \in Int
      BY <1>1, <3>1
    <3> QED BY <3>1, <3>2, Zenon
  <2> QED BY <2>1, <2>2, <2>3, Zenon DEF IqSafe, IqTypeOK
<1>7. OwnersGuard'
  <2> SUFFICES ASSUME NEW l \in AllLocks, iqOwner'[l] # IqFree
               PROVE  \E i \in 1 .. Len(iqGuards'[iqOwner'[l]]) :
                         iqGuards'[iqOwner'[l]][i].lock = l
    BY Zenon DEF OwnersGuard
  <2>1. CASE l = g.lock
    <3>1. iqOwner'[l] = x
      BY <2>1, Zenon DEF IqSafe, IqTypeOK
    <3> QED BY <1>4, <2>1, <3>1
  <2>2. CASE l # g.lock
    <3>1. iqOwner'[l] = iqOwner[l] /\ iqOwner[l] \in Contexts
      BY <2>2 DEF IqSafe, IqTypeOK
    <3>2. PICK i \in 1 .. Len(iqGuards[iqOwner[l]]) : iqGuards[iqOwner[l]][i].lock = l
      BY <3>1, ZenonT(30) DEF IqSafe, OwnersGuard
    <3>3. CASE iqOwner[l] # x
      BY <1>3, <3>1, <3>2, <3>3, SMTT(30)
    <3>4. CASE iqOwner[l] = x
      BY <1>4, <3>1, <3>2, <3>4
    <3> QED BY <3>3, <3>4, Zenon
  <2> QED BY <2>1, <2>2, Zenon
<1> HIDE DEF q, r, k
<1>8. SavesRight(x)'
  <2>1. \A i \in 1 .. Len(q) : q[i].saved <=>
           x[2] = "base" /\ i \in IrqGuards(x) /\ \A j \in IrqGuards(x) : i <= j
    BY Zenon DEF IqSafe, OutermostSaves, SavesRight, q
  <2>2. ASSUME NEW i \in 1 .. Len(r)
        PROVE  r[i].saved <=>
           x[2] = "base" /\ i \in IrqGuards(x)' /\ \A j \in IrqGuards(x)' : i <= j
    <3>1. CASE i \in 1 .. Len(q)
      <4>1. i \in IrqGuards(x)' <=> i \in IrqGuards(x)
        BY <1>4, <1>5, <3>1
      <4>2. (\A j \in IrqGuards(x)' : i <= j) <=> (\A j \in IrqGuards(x) : i <= j)
        BY <1>4, <1>5, <3>1
      <4> QED BY <1>4, <2>1, <3>1, <4>1, <4>2, ZenonT(30)
    <3>2. CASE i = Len(q) + 1
      <4>1. r[i] = g
        BY <1>4, <3>2, ZenonT(30)
      <4>2. i \in IrqGuards(x)' <=> g.lock \in IqLocks
        BY <1>4, <1>5, <3>2, SMTT(30)
      <4>3. (\A j \in IrqGuards(x)' : i <= j) <=> IrqGuards(x) = {}
        BY <1>4, <1>5, <3>2
      <4> QED BY <4>1, <4>2, <4>3, Zenon
    <3> QED BY <1>4, <3>1, <3>2
  <2>3. iqWant'[x] = None /\ iqDrop'[x] = None
    BY Zenon
  <2> QED BY <1>1, <2>2, <2>3, Zenon DEF SavesRight, r
<1>9. iqFlag'[x[1]] <=> (x[2] = "base" /\ ~Masked(x)')
  <2>1. IrqGuards(x)' = {} <=> IrqGuards(x) = {} /\ g.lock \notin IqLocks
    BY <1>5, Zenon
  <2>2. Masked(x)' <=> IrqGuards(x)' # {}
    BY <1>1, Zenon DEF Masked
  <2> QED BY <2>1, <2>2, Zenon
<1>10. k \in Int /\ DepthOf(x)' = DepthOf(x) + k /\ iqDepth'[x[1]] = iqDepth[x[1]] + k
  <2>1. iqDepth[x[1]] \in Int /\ iqDepth'[x[1]] = iqDepth[x[1]] + k
    BY <1>1 DEF IqSafe, IqTypeOK, k
  <2>2. DepthOf(x)' = Cardinality(IrqGuards(x)') + 0 /\ DepthOf(x) = Cardinality(IrqGuards(x)) + 0
    BY <1>1, Zenon DEF DepthOf
  <2>3. k \in Int
    BY DEF k
  <2> QED BY <1>5, <2>1, <2>2, <2>3
<1>11. \A d \in IqCpus \ {x[1]} : iqFlag'[d] = iqFlag[d] /\ iqDepth'[d] = iqDepth[d]
  BY Zenon DEF IqSafe, IqTypeOK
<1>12. OutermostSaves' /\ FlagTells' /\ DepthCounts'
  <2>1. \A y \in Contexts \ {x} : /\ iqGuards'[y] = iqGuards[y]
                                  /\ iqWant'[y] = iqWant[y] /\ iqDrop'[y] = iqDrop[y]
    BY <1>3, Zenon
  <2> QED BY <1>8, <1>9, <1>10, <1>11, <2>1, OthersStay, ZenonT(30)
<1> QED BY <1>6, <1>7, <1>12, Zenon DEF IqSafe

\* drop() gives up the lock; the guard's flags are still to be restored.
LEMMA UnlockKeeps ==
    ASSUME IqSafe, NEW x \in Contexts, IrqUnlock(x)
    PROVE  IqSafe'
<1> DEFINE q == iqGuards[x]
           r == iqGuards'[x]
           g == q[Len(q)]
<1>1. /\ Runs(x) /\ q # << >> /\ iqWant[x] = None /\ iqDrop[x] = None
      /\ UNCHANGED <<iqWant, iqFlag, iqIn, iqDepth>>
      /\ iqOwner' = [iqOwner EXCEPT ![g.lock] = IqFree]
      /\ iqDrop' = [iqDrop EXCEPT ![x] = g]
      /\ iqGuards' = [iqGuards EXCEPT ![x] = SubSeq(@, 1, Len(@) - 1)]
  BY Zenon DEF IrqUnlock
<1>2. /\ x[1] \in IqCpus /\ x # IqFree
      /\ iqFlag[x[1]] <=> (x[2] = "base" /\ ~Masked(x))
      /\ None.lock \notin IqLocks /\ None.saved = FALSE
  BY <1>1, RunFlag, Zenon DEF AllLocks
<1>3. q \in Seq(Guards) /\ iqDrop \in [Contexts -> Guards \cup {None}]
  BY Zenon DEF IqSafe, IqTypeOK
<1>4. r = SubSeq(q, 1, Len(q) - 1) /\ \A y \in Contexts \ {x} : iqGuards'[y] = iqGuards[y]
  BY <1>1, Zenon DEF IqSafe, IqTypeOK
<1>5. /\ r \in Seq(Guards) /\ Len(r) = Len(q) - 1 /\ Len(q) \in Nat \ {0}
      /\ \A i \in 1 .. Len(r) : r[i] = q[i]
      /\ IrqsOf(r) = IrqsOf(q) \ {Len(q)}
      /\ g.lock \in IqLocks =>
           Len(q) \in IrqsOf(q) /\ Cardinality(IrqsOf(r)) = Cardinality(IrqsOf(q)) - 1
      /\ g.lock \notin IqLocks => IrqsOf(r) = IrqsOf(q)
      /\ IrqsOf(q) \in SUBSET (1 .. Len(q)) /\ Cardinality(IrqsOf(q)) \in Nat
  BY <1>1, <1>3, <1>4, IrqsDrop, IrqsCount, ZenonT(30)
<1>6. Len(q) \in 1 .. Len(q) /\ g \in Guards
  BY <1>3, <1>5
<1>7. /\ iqDrop'[x] = g /\ iqDrop' \in [Contexts -> Guards \cup {None}]
      /\ \A y \in Contexts \ {x} : iqDrop'[y] = iqDrop[y]
  BY <1>1, <1>3, <1>6, Zenon
<1>8. IqTypeOK'
  <2>1. iqOwner' \in [AllLocks -> Contexts \cup {IqFree}]
    BY <1>1, Zenon DEF IqSafe, IqTypeOK
  <2>2. iqGuards' \in [Contexts -> Seq(Guards)]
    BY <1>1, <1>4, <1>5, Zenon DEF IqSafe, IqTypeOK
  <2> QED BY <1>1, <1>7, <2>1, <2>2, Zenon DEF IqSafe, IqTypeOK
<1>9. OwnersGuard'
  <2> SUFFICES ASSUME NEW l \in AllLocks, iqOwner'[l] # IqFree
               PROVE  \E i \in 1 .. Len(iqGuards'[iqOwner'[l]]) :
                         iqGuards'[iqOwner'[l]][i].lock = l
    BY Zenon DEF OwnersGuard
  <2>1. l # g.lock /\ iqOwner'[l] = iqOwner[l] /\ iqOwner[l] \in Contexts
    BY <1>1, Zenon DEF IqSafe, IqTypeOK
  <2>2. PICK i \in 1 .. Len(iqGuards[iqOwner[l]]) : iqGuards[iqOwner[l]][i].lock = l
    BY <2>1, Zenon DEF IqSafe, OwnersGuard
  <2>3. CASE iqOwner[l] # x
    BY <1>4, <2>1, <2>2, <2>3, Zenon
  <2>4. CASE iqOwner[l] = x
    <3>1. i # Len(q)
      BY <2>1, <2>2, <2>4, Zenon
    <3>2. i \in 1 .. Len(r)
      BY <1>5, <2>2, <2>4, <3>1
    <3> QED BY <1>5, <2>1, <2>2, <2>4, <3>2, ZenonT(30)
  <2> QED BY <2>3, <2>4, Zenon
<1>10. IrqGuards(x) = IrqsOf(q) /\ IrqGuards(x)' = IrqsOf(r)
  BY Zenon DEF IrqGuards
<1> HIDE DEF q, r, g
<1>11. IrqsOf(q) = {} <=> IrqsOf(r) = {} /\ g.lock \notin IqLocks
  BY <1>5, Zenon
<1>12. SavesRight(x)'
  <2>1. \A i \in 1 .. Len(q) : q[i].saved <=>
           x[2] = "base" /\ i \in IrqsOf(q) /\ \A j \in IrqsOf(q) : i <= j
    BY <1>10 DEF IqSafe, OutermostSaves, SavesRight, q
  <2>2. ASSUME NEW i \in 1 .. Len(r)
        PROVE  r[i].saved <=>
           x[2] = "base" /\ i \in IrqsOf(r) /\ \A j \in IrqsOf(r) : i <= j
    <3>1. i \in 1 .. Len(q) /\ i < Len(q) /\ r[i] = q[i]
      BY <1>5
    <3>2. i \in IrqsOf(r) <=> i \in IrqsOf(q)
      BY <1>5, <3>1
    <3>3. (\A j \in IrqsOf(r) : i <= j) <=> (\A j \in IrqsOf(q) : i <= j)
      BY <1>5, <3>1
    <3> QED BY <2>1, <3>1, <3>2, <3>3, Zenon
  <2>3. g.saved <=> x[2] = "base" /\ g.lock \in IqLocks /\ IrqsOf(r) = {}
    <3>1. (\A j \in IrqsOf(q) : Len(q) <= j) <=> IrqsOf(r) = {}
      BY <1>5
    <3>2. g.saved <=> x[2] = "base" /\ Len(q) \in IrqsOf(q) /\ IrqsOf(r) = {}
      BY <1>6, <2>1, <3>1, Zenon DEF g
    <3>3. g.lock \in IqLocks <=> Len(q) \in IrqsOf(q)
      BY <1>5, <1>6, Zenon DEF g, IrqsOf
    <3> QED BY <3>2, <3>3, Zenon
  <2>4. iqWant'[x] = None /\ iqDrop'[x] = g
    BY <1>1, <1>7, Zenon
  <2> QED BY <1>2, <1>10, <2>2, <2>3, <2>4, ZenonT(30) DEF SavesRight, r
<1>13. iqFlag'[x[1]] <=> (x[2] = "base" /\ ~Masked(x)')
  <2>1. Masked(x) <=> IrqsOf(q) # {}
    BY <1>1, <1>2, <1>10, Zenon DEF Masked
  <2>2. Masked(x)' <=> IrqsOf(r) # {} \/ g.lock \in IqLocks
    BY <1>1, <1>2, <1>7, <1>10, Zenon DEF Masked
  <2> QED BY <1>1, <1>2, <1>11, <2>1, <2>2, Zenon
<1>14. DepthOf(x)' = DepthOf(x) + 0 /\ iqDepth'[x[1]] = iqDepth[x[1]] + 0 /\ 0 \in Int
  <2>1. iqDepth[x[1]] \in Int /\ iqDepth' = iqDepth
    BY <1>1, <1>2, Zenon DEF IqSafe, IqTypeOK
  <2>2. /\ DepthOf(x)' = Cardinality(IrqsOf(r)) + (IF g.lock \in IqLocks THEN 1 ELSE 0)
        /\ DepthOf(x) = Cardinality(IrqsOf(q)) + 0
    BY <1>1, <1>2, <1>7, <1>10, ZenonT(30) DEF DepthOf
  <2>3. CASE g.lock \in IqLocks
    BY <1>5, <2>1, <2>2, <2>3, SMTT(30)
  <2>4. CASE g.lock \notin IqLocks
    <3>1. DepthOf(x)' = Cardinality(IrqsOf(q)) + 0
      BY <1>5, <2>2, <2>4, Zenon
    <3> QED BY <1>5, <2>1, <2>2, <3>1
  <2> QED BY <2>3, <2>4, Zenon
<1>15. OutermostSaves' /\ FlagTells' /\ DepthCounts'
  <2>1. /\ \A y \in Contexts \ {x} : /\ iqGuards'[y] = iqGuards[y]
                                     /\ iqWant'[y] = iqWant[y] /\ iqDrop'[y] = iqDrop[y]
        /\ \A d \in IqCpus \ {x[1]} : iqFlag'[d] = iqFlag[d] /\ iqDepth'[d] = iqDepth[d]
    BY <1>1, <1>4, <1>7, Zenon
  <2> QED BY <1>1, <1>12, <1>13, <1>14, <2>1, OthersStay, Zenon
<1> QED BY <1>8, <1>9, <1>15, Zenon DEF IqSafe

\* restore_flags ends the drop.
LEMMA RestoreKeeps ==
    ASSUME IqSafe, NEW x \in Contexts, RestoreFlags(x)
    PROVE  IqSafe'
<1> DEFINE g == iqDrop[x]
           k == IF g.lock \in IqLocks THEN -1 ELSE 0
<1>1. /\ Runs(x) /\ g # None
      /\ UNCHANGED <<iqOwner, iqGuards, iqWant, iqIn>>
      /\ iqDepth' = [iqDepth EXCEPT ![x[1]] = IF g.lock \in IqLocks THEN @ - 1 ELSE @]
      /\ iqFlag' = [iqFlag EXCEPT ![x[1]] = @ \/ g.saved]
      /\ iqDrop' = [iqDrop EXCEPT ![x] = None]
  BY Zenon DEF RestoreFlags, Cpu
<1>2. /\ x[1] \in IqCpus
      /\ iqFlag[x[1]] <=> (x[2] = "base" /\ ~Masked(x))
      /\ None.lock \notin IqLocks /\ None.saved = FALSE
  BY <1>1, RunFlag, Zenon DEF AllLocks
<1>3. SavesRight(x) /\ iqWant[x] = None /\ iqDrop \in [Contexts -> Guards \cup {None}]
  BY <1>1, Zenon DEF IqSafe, IqTypeOK, OutermostSaves, SavesRight
<1>4. /\ iqDrop'[x] = None /\ iqDrop' \in [Contexts -> Guards \cup {None}]
      /\ \A y \in Contexts \ {x} : iqDrop'[y] = iqDrop[y]
  BY <1>1, <1>3, Zenon
<1>5. /\ iqFlag' \in [IqCpus -> BOOLEAN] /\ iqFlag'[x[1]] = (iqFlag[x[1]] \/ g.saved)
      /\ \A d \in IqCpus \ {x[1]} : iqFlag'[d] = iqFlag[d]
  BY <1>1, <1>2, Zenon DEF IqSafe, IqTypeOK
<1>6. /\ iqDepth' \in [IqCpus -> Int] /\ iqDepth'[x[1]] = iqDepth[x[1]] + k /\ k \in Int
      /\ \A d \in IqCpus \ {x[1]} : iqDepth'[d] = iqDepth[d]
  <2>1. iqDepth \in [IqCpus -> Int]
    BY Zenon DEF IqSafe, IqTypeOK
  <2>2. (IF g.lock \in IqLocks THEN iqDepth[x[1]] - 1 ELSE iqDepth[x[1]]) = iqDepth[x[1]] + k
    BY <1>2, <2>1
  <2>3. k \in Int /\ iqDepth[x[1]] + k \in Int
    BY <1>2, <2>1, SMTT(30)
  <2> HIDE DEF k
  <2> QED BY <1>1, <1>2, <2>1, <2>2, <2>3, Zenon
<1>7. IqTypeOK' /\ OwnersGuard'
  BY <1>1, <1>4, <1>5, <1>6 DEF IqSafe, IqTypeOK, OwnersGuard
<1>8. IrqGuards(x)' = IrqGuards(x)
  BY <1>1, Zenon DEF IrqGuards
<1>9. SavesRight(x)'
  <2>1. iqGuards'[x] = iqGuards[x] /\ iqWant'[x] = None /\ iqDrop'[x] = None
    BY <1>1, <1>3, <1>4, Zenon
  <2>2. \A i \in 1 .. Len(iqGuards[x]) :
          iqGuards[x][i].saved <=>
              /\ x[2] = "base" /\ i \in IrqGuards(x)
              /\ \A j \in IrqGuards(x) : i <= j
    BY <1>3, Zenon DEF SavesRight
  <2> QED BY <1>2, <1>8, <2>1, <2>2, Zenon DEF SavesRight
<1>10. iqFlag'[x[1]] <=> (x[2] = "base" /\ ~Masked(x)')
  <2>1. Masked(x) <=> IrqGuards(x) # {} \/ g.lock \in IqLocks
    BY <1>2, <1>3, Zenon DEF Masked
  <2>2. Masked(x)' <=> IrqGuards(x) # {}
    BY <1>1, <1>2, <1>3, <1>4, <1>8, Zenon DEF Masked
  <2>3. g.saved <=> (x[2] = "base" /\ g.lock \in IqLocks /\ IrqGuards(x) = {})
    BY <1>3, Zenon DEF SavesRight
  <2> QED BY <1>2, <1>5, <2>1, <2>2, <2>3, Zenon
<1>11. DepthOf(x)' = DepthOf(x) + k
  <2>1. Cardinality(IrqGuards(x)) \in Nat
    <3>1. iqGuards[x] \in Seq(Guards)
      BY Zenon DEF IqSafe, IqTypeOK
    <3> QED BY <3>1, IrqsCount, Zenon DEF IrqGuards
  <2>2. /\ DepthOf(x)' = Cardinality(IrqGuards(x)) + 0
        /\ DepthOf(x) = Cardinality(IrqGuards(x)) + (IF g.lock \in IqLocks THEN 1 ELSE 0)
    BY <1>2, <1>4, <1>8, Zenon DEF DepthOf
  <2>3. CASE g.lock \in IqLocks
    BY <2>1, <2>2, <2>3
  <2>4. CASE g.lock \notin IqLocks
    BY <2>1, <2>2, <2>4
  <2> QED BY <2>3, <2>4, Zenon
<1>12. OutermostSaves' /\ FlagTells' /\ DepthCounts'
  <2>1. /\ \A y \in Contexts \ {x} : /\ iqGuards'[y] = iqGuards[y]
                                     /\ iqWant'[y] = iqWant[y] /\ iqDrop'[y] = iqDrop[y]
        /\ \A d \in IqCpus \ {x[1]} : iqFlag'[d] = iqFlag[d] /\ iqDepth'[d] = iqDepth[d]
    BY <1>1, <1>4, <1>5, <1>6, Zenon
  <2> HIDE DEF k
  <2> QED BY <1>1, <1>6, <1>9, <1>10, <1>11, <2>1, OthersStay, ZenonT(30)
<1> QED BY <1>7, <1>12, Zenon DEF IqSafe

\* What follows from the guards and calls of the contexts stays while they do.
LEMMA ContextsStay ==
    ASSUME iqGuards' = iqGuards, iqWant' = iqWant, iqDrop' = iqDrop, NEW x \in Contexts
    PROVE  /\ SavesRight(x)' <=> SavesRight(x)
           /\ Masked(x)' <=> Masked(x)
           /\ DepthOf(x)' = DepthOf(x)
<1>1. /\ iqGuards'[x] = iqGuards[x] /\ iqWant'[x] = iqWant[x] /\ iqDrop'[x] = iqDrop[x]
      /\ IrqGuards(x)' = IrqGuards(x)
  BY Zenon DEF IrqGuards
<1>2. SavesRight(x)' <=> SavesRight(x)
  BY <1>1, ZenonT(30) DEF SavesRight
<1>3. Masked(x)' <=> Masked(x)
  BY <1>1, Zenon DEF Masked
<1>4. DepthOf(x)' = DepthOf(x)
  BY <1>1, Zenon DEF DepthOf
<1> QED BY <1>2, <1>3, <1>4, Zenon

\* Calls that are refused change nothing that matters.
LEMMA IqStays ==
    ASSUME IqSafe,
           UNCHANGED <<iqOwner, iqGuards, iqWant, iqFlag, iqIn, iqDepth, iqDrop>>
    PROVE  IqSafe'
<1>1. /\ iqOwner' = iqOwner /\ iqGuards' = iqGuards /\ iqWant' = iqWant /\ iqFlag' = iqFlag
      /\ iqIn' = iqIn /\ iqDepth' = iqDepth /\ iqDrop' = iqDrop
  BY Zenon
<1>2. \A x \in Contexts : /\ SavesRight(x)' <=> SavesRight(x)
                          /\ Masked(x)' <=> Masked(x)
                          /\ DepthOf(x)' = DepthOf(x)
  BY <1>1, ContextsStay, Zenon
<1>3. \A c \in IqCpus : <<c, "base">> \in Contexts /\ <<c, "irq">> \in Contexts
  BY Zenon DEF Contexts
<1>4. IqTypeOK' /\ OwnersGuard'
  BY <1>1, Zenon DEF IqSafe, IqTypeOK, OwnersGuard
<1>5. OutermostSaves'
  BY <1>2, Zenon DEF IqSafe, OutermostSaves
<1>6. FlagTells'
  BY <1>1, <1>2, <1>3, Zenon DEF IqSafe, FlagTells
<1>7. DepthCounts'
  BY <1>1, <1>2, <1>3, Zenon DEF IqSafe, DepthCounts
<1> QED BY <1>4, <1>5, <1>6, <1>7, Zenon DEF IqSafe

\* Every step keeps the guards, the flags and the depths in step with each other.
LEMMA IqKeeps == IqSafe /\ [IqNext]_iqVars => IqSafe'
<1> SUFFICES ASSUME IqSafe, [IqNext]_iqVars PROVE IqSafe'
  BY Zenon
<1>1. CASE UNCHANGED iqVars
  BY <1>1, IqStays, Zenon DEF iqVars
<1>2. ASSUME NEW x \in Contexts, NEW l \in AllLocks, IrqTryLock(x, l) PROVE IqSafe'
  <2> DEFINE g == [lock |-> l, saved |-> iqFlag[x[1]]]
  <2>1. /\ Runs(x) /\ iqWant[x] = None /\ iqDrop[x] = None /\ l \in IqLocks
        /\ UNCHANGED <<iqWant, iqIn, iqDrop>>
    BY <1>2, Zenon DEF IrqTryLock, MayTake
  <2>2. /\ x[1] \in IqCpus
        /\ iqFlag[x[1]] <=> (x[2] = "base" /\ ~Masked(x))
        /\ None.lock \notin IqLocks
    BY <2>1, RunFlag, Zenon DEF AllLocks
  <2>3. CASE iqOwner[l] = IqFree
    <3>1. /\ iqOwner' = [iqOwner EXCEPT ![l] = x]
          /\ iqGuards' = [iqGuards EXCEPT ![x] = Append(@, g)]
          /\ iqFlag' = [iqFlag EXCEPT ![x[1]] = FALSE]
          /\ iqDepth' = [iqDepth EXCEPT ![x[1]] = @ + 1]
      BY <1>2, <2>3, Zenon DEF IrqTryLock, Cpu
    <3>2. g \in Guards /\ g.lock = l /\ g.saved = iqFlag[x[1]]
      BY <2>2, Zenon DEF Guards, IqSafe, IqTypeOK
    <3>3. Masked(x) <=> IrqGuards(x) # {}
      BY <2>1, <2>2, Zenon DEF Masked
    <3>4. /\ iqFlag' \in [IqCpus -> BOOLEAN] /\ iqFlag'[x[1]] = FALSE
          /\ \A d \in IqCpus \ {x[1]} : iqFlag'[d] = iqFlag[d]
      BY <2>2, <3>1, Zenon DEF IqSafe, IqTypeOK
    <3>5. iqWant' \in [Contexts -> Guards \cup {None}]
      BY <2>1, Zenon DEF IqSafe, IqTypeOK
    <3>6. iqDepth' = [iqDepth EXCEPT ![x[1]] = IF g.lock \in IqLocks THEN @ + 1 ELSE @]
      BY <2>1, <3>1, <3>2, Zenon
    <3>7. g.saved <=> (x[2] = "base" /\ g.lock \in IqLocks /\ IrqGuards(x) = {})
      BY <2>1, <2>2, <3>2, <3>3, Zenon
    <3>8. iqFlag'[x[1]] <=> (x[2] = "base" /\ g.lock \notin IqLocks /\ IrqGuards(x) = {})
      BY <2>1, <3>2, <3>4, Zenon
    <3>9. /\ iqWant'[x] = None /\ \A y \in Contexts \ {x} : iqWant'[y] = iqWant[y]
          /\ iqOwner' = [iqOwner EXCEPT ![g.lock] = x]
      BY <2>1, <3>1, <3>2, Zenon
    <3> HIDE DEF g
    <3> QED BY <2>1, <3>1, <3>2, <3>4, <3>5, <3>6, <3>7, <3>8, <3>9, GuardMade, ZenonT(30)
  <2>4. CASE iqOwner[l] # IqFree
    <3>1. UNCHANGED <<iqOwner, iqGuards, iqWant, iqFlag, iqIn, iqDepth, iqDrop>>
      BY <1>2, <2>1, <2>4, Zenon DEF IrqTryLock
    <3> QED BY <3>1, IqStays, Zenon
  <2> QED BY <2>3, <2>4, Zenon
<1>3. ASSUME NEW x \in Contexts, Acquire(x) PROVE IqSafe'
  <2> DEFINE g == iqWant[x]
  <2>1. /\ Runs(x) /\ g # None /\ UNCHANGED <<iqFlag, iqIn, iqDrop>>
        /\ iqOwner' = [iqOwner EXCEPT ![g.lock] = x]
        /\ iqGuards' = [iqGuards EXCEPT ![x] = Append(@, g)]
        /\ iqWant' = [iqWant EXCEPT ![x] = None]
        /\ iqDepth' = [iqDepth EXCEPT ![x[1]] = IF g.lock \in IqLocks THEN @ + 1 ELSE @]
    BY <1>3, Zenon DEF Acquire, Cpu
  <2>2. /\ x[1] \in IqCpus
        /\ iqFlag[x[1]] <=> (x[2] = "base" /\ ~Masked(x))
        /\ None.lock \notin IqLocks
    BY <2>1, RunFlag, ZenonT(30) DEF AllLocks
  <2>3. SavesRight(x) /\ iqDrop[x] = None /\ g \in Guards
    BY <2>1 DEF IqSafe, IqTypeOK, OutermostSaves, SavesRight
  <2>4. g.saved <=> (x[2] = "base" /\ g.lock \in IqLocks /\ IrqGuards(x) = {})
    BY <2>3, Zenon DEF SavesRight
  <2>5. Masked(x) <=> IrqGuards(x) # {} \/ g.lock \in IqLocks
    BY <2>2, <2>3, Zenon DEF Masked
  <2>6. /\ iqWant' \in [Contexts -> Guards \cup {None}] /\ iqWant'[x] = None
        /\ \A y \in Contexts \ {x} : iqWant'[y] = iqWant[y]
    BY <2>1, Zenon DEF IqSafe, IqTypeOK
  <2>7. /\ iqFlag' \in [IqCpus -> BOOLEAN] /\ \A d \in IqCpus \ {x[1]} : iqFlag'[d] = iqFlag[d]
        /\ iqFlag'[x[1]] <=> (x[2] = "base" /\ g.lock \notin IqLocks /\ IrqGuards(x) = {})
    BY <2>1, <2>2, <2>5, Zenon DEF IqSafe, IqTypeOK
  <2> HIDE DEF g
  <2> QED BY <2>1, <2>3, <2>4, <2>6, <2>7, GuardMade, Zenon
<1>4. ASSUME NEW c \in IqCpus, Interrupt(c) \/ Iret(c) PROVE IqSafe'
  <2>1. /\ UNCHANGED <<iqOwner, iqGuards, iqWant, iqDepth, iqDrop>>
        /\ iqFlag' \in [IqCpus -> BOOLEAN] /\ iqIn' \in SUBSET IqCpus
        /\ \A d \in IqCpus \ {c} : iqFlag'[d] = iqFlag[d] /\ (d \in iqIn' <=> d \in iqIn)
    BY <1>4, Zenon DEF Interrupt, Iret, IqSafe, IqTypeOK
  <2>2. \A x \in Contexts : /\ SavesRight(x)' <=> SavesRight(x)
                            /\ Masked(x)' <=> Masked(x)
                            /\ DepthOf(x)' = DepthOf(x)
    BY <2>1, ContextsStay, Zenon
  <2>3. \A d \in IqCpus : <<d, "base">> \in Contexts /\ <<d, "irq">> \in Contexts
    BY Zenon DEF Contexts
  <2>4. IqTypeOK' /\ OwnersGuard' /\ OutermostSaves' /\ DepthCounts'
    <3>1. iqOwner' = iqOwner /\ iqGuards' = iqGuards /\ iqWant' = iqWant
          /\ iqDepth' = iqDepth /\ iqDrop' = iqDrop
      BY <2>1, Zenon
    <3>2. IqTypeOK' /\ OwnersGuard'
      BY <2>1, <3>1, Zenon DEF IqSafe, IqTypeOK, OwnersGuard
    <3>3. OutermostSaves'
      BY <2>2, Zenon DEF IqSafe, OutermostSaves
    <3>4. DepthCounts'
      BY <2>2, <2>3, <3>1, Zenon DEF IqSafe, DepthCounts
    <3> QED BY <3>2, <3>3, <3>4, Zenon
  <2>5. \/ /\ c \notin iqIn /\ iqFlag[c] /\ c \in iqIn' /\ ~iqFlag'[c]
        \/ /\ c \in iqIn /\ c \notin iqIn' /\ iqFlag'[c]
           /\ iqGuards[<<c, "irq">>] = << >>
           /\ iqWant[<<c, "irq">>] = None /\ iqDrop[<<c, "irq">>] = None
    BY <1>4, Zenon DEF Interrupt, Iret, IqSafe, IqTypeOK
  <2>6. FlagTells'
    <3> SUFFICES ASSUME NEW d \in IqCpus
                 PROVE  IF d \in iqIn'
                   THEN ~iqFlag'[d] /\ ~Masked(<<d, "base">>)'
                   ELSE /\ iqFlag'[d] <=> ~Masked(<<d, "base">>)'
                        /\ iqGuards'[<<d, "irq">>] = << >>
                        /\ iqWant'[<<d, "irq">>] = None /\ iqDrop'[<<d, "irq">>] = None
      BY Zenon DEF FlagTells
    <3>1. /\ d \in iqIn => ~iqFlag[d] /\ ~Masked(<<d, "base">>)
          /\ d \notin iqIn => /\ iqFlag[d] <=> ~Masked(<<d, "base">>)
                              /\ iqGuards[<<d, "irq">>] = << >>
                              /\ iqWant[<<d, "irq">>] = None /\ iqDrop[<<d, "irq">>] = None
      BY Zenon DEF FlagTells, IqSafe
    <3>2. Masked(<<d, "base">>)' <=> Masked(<<d, "base">>)
      BY <2>2, <2>3, Zenon
    <3>3. CASE d # c
      BY <2>1, <3>1, <3>2, <3>3, Zenon
    <3>4. CASE d = c
      BY <2>1, <2>5, <3>1, <3>2, <3>4, ZenonT(30)
    <3> QED BY <3>3, <3>4, Zenon
  <2> QED BY <2>4, <2>6, Zenon DEF IqSafe
<1> QED BY <1>1, <1>2, <1>3, <1>4, LockKeeps, UnlockKeeps, RestoreKeeps, ZenonT(30) DEF IqNext

\* An IrqSpinLock shuts the handlers of its CPU out: no handler spins on a lock of the
\* code it interrupted, whatever the nesting; and the code that has left every lock has
\* interrupts enabled and a depth of zero again.
THEOREM InterruptsMeetLocks == IqSpec => []InterruptsSafe
<1>1. IqInit => IqSafe
  <2> SUFFICES ASSUME IqInit PROVE IqSafe
    BY Zenon
  <2>1. IqTypeOK
    BY DEF IqInit, IqTypeOK
  <2>2. \A x \in Contexts : /\ IrqGuards(x) = {} /\ iqGuards[x] = << >>
                            /\ iqWant[x] = None /\ iqDrop[x] = None
    BY DEF IqInit, IrqGuards, IrqsOf
  <2>3. None.lock \notin IqLocks /\ None.saved = FALSE
    BY IrqLockAssumption, Zenon DEF None
  <2>4. \A x \in Contexts : SavesRight(x) /\ ~Masked(x) /\ DepthOf(x) = 0
    <3> SUFFICES ASSUME NEW x \in Contexts PROVE SavesRight(x) /\ ~Masked(x) /\ DepthOf(x) = 0
      BY Zenon
    <3>1. Cardinality(IrqGuards(x)) = 0
      BY <2>2, FS_EmptySet, Zenon
    <3> QED BY <2>2, <2>3, <3>1 DEF SavesRight, Masked, DepthOf
  <2>5. \A c \in IqCpus : <<c, "base">> \in Contexts /\ <<c, "irq">> \in Contexts
    BY Zenon DEF Contexts
  <2>6. OwnersGuard /\ OutermostSaves /\ FlagTells
    BY <2>2, <2>4, <2>5, Zenon DEF IqInit, OwnersGuard, OutermostSaves, FlagTells
  <2>7. DepthCounts
    <3> SUFFICES ASSUME NEW c \in IqCpus
                 PROVE  iqDepth[c] = DepthOf(<<c, "base">>) + DepthOf(<<c, "irq">>)
      BY Zenon DEF DepthCounts
    <3>1. iqDepth[c] = 0
      BY Zenon DEF IqInit
    <3>2. DepthOf(<<c, "base">>) = 0 /\ DepthOf(<<c, "irq">>) = 0
      BY <2>4, <2>5, Zenon
    <3> QED BY <3>1, <3>2
  <2> QED BY <2>1, <2>6, <2>7, Zenon DEF IqSafe
<1>2. IqSafe => InterruptsSafe
  <2> SUFFICES ASSUME IqSafe, NEW c \in IqCpus
               PROVE  /\ \A l \in IqLocks :
                             iqWant[<<c, "irq">>].lock = l => iqOwner[l] # <<c, "base">>
                      /\ (/\ c \notin iqIn /\ iqGuards[<<c, "base">>] = << >>
                          /\ iqWant[<<c, "base">>] = None /\ iqDrop[<<c, "base">>] = None)
                         => iqFlag[c] /\ iqDepth[c] = 0
    BY Zenon DEF InterruptsSafe, NoSelfDeadlock, FlagsRestored
  <2>0. <<c, "base">> \in Contexts /\ <<c, "irq">> \in Contexts
    BY Zenon DEF Contexts
  <2>1. None.lock \notin IqLocks
    BY IrqLockAssumption, Zenon DEF None
  <2>2. ASSUME NEW l \in IqLocks, iqWant[<<c, "irq">>].lock = l, iqOwner[l] = <<c, "base">>
        PROVE  FALSE
    <3>1. <<c, "base">> # IqFree /\ l \in AllLocks
      BY Zenon DEF IqFree, AllLocks
    <3>2. PICK i \in 1 .. Len(iqGuards[<<c, "base">>]) : iqGuards[<<c, "base">>][i].lock = l
      BY <2>2, <3>1 DEF IqSafe, OwnersGuard
    <3>3. Masked(<<c, "base">>)
      BY <2>2, <3>2, Zenon DEF Masked, IrqGuards, IrqsOf
    <3>4. iqWant[<<c, "irq">>] = None
      BY <3>3, Zenon DEF IqSafe, FlagTells
    <3> QED BY <2>1, <2>2, <3>4, Zenon
  <2>3. ASSUME c \notin iqIn, iqGuards[<<c, "base">>] = << >>,
               iqWant[<<c, "base">>] = None, iqDrop[<<c, "base">>] = None
        PROVE  iqFlag[c] /\ iqDepth[c] = 0
    <3>1. /\ iqGuards[<<c, "irq">>] = << >>
          /\ iqWant[<<c, "irq">>] = None /\ iqDrop[<<c, "irq">>] = None
      BY <2>3, Zenon DEF IqSafe, FlagTells
    <3>2. IrqGuards(<<c, "base">>) = {} /\ IrqGuards(<<c, "irq">>) = {}
      BY <2>3, <3>1 DEF IrqGuards, IrqsOf
    <3>3. ~Masked(<<c, "base">>) /\ DepthOf(<<c, "base">>) = 0 /\ DepthOf(<<c, "irq">>) = 0
      <4>1. Cardinality(IrqGuards(<<c, "base">>)) = 0 /\ Cardinality(IrqGuards(<<c, "irq">>)) = 0
        BY <3>2, FS_EmptySet, Zenon
      <4> QED BY <2>1, <2>3, <3>1, <3>2, <4>1 DEF Masked, DepthOf
    <3>4. iqFlag[c]
      BY <2>3, <3>3, Zenon DEF IqSafe, FlagTells
    <3>5. iqDepth[c] = 0
      BY <3>3 DEF IqSafe, DepthCounts
    <3> QED BY <3>4, <3>5, Zenon
  <2> QED BY <2>2, <2>3, Zenon
<1> QED BY <1>1, <1>2, IqKeeps, PTL DEF IqSpec
=============================================================================
